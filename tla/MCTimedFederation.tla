-------------------------- MODULE MCTimedFederation --------------------------
(***************************************************************************)
(* TimedFederation on two servers.  A unit of time is a minute: joins are   *)
(* sent every minute, and the timeouts are two of them.                    *)
(***************************************************************************)
EXTENDS TimedFederation

CONSTANTS A, B, u, ca, cb, c1

Pair    == [s \in Server |-> {A, B} \ {s}]
AtA     == [a \in Addr |-> A]
AtBoth  == [a \in Addr |-> IF a = ca THEN A ELSE B]

\* A user is on the channel at the server.
Inhabited(s, c) == Exists(srv[s], c) /\ srv[s].cset[c].uset.user_list # <<>>

\* README.md: users of linked servers can "chat with anyone on any server linked to
\* their server", so that a channel with users at both ends of a link gets routed over
\* it, even where no user joins again.
LinkedUsersMeet ==
    \A r \in Route : Inhabited(r.at, r.on) /\ Inhabited(r.to, r.on)
                        ~> Open(r) \/ ~Inhabited(r.at, r.on) \/ ~Inhabited(r.to, r.on)
==============================================================================
