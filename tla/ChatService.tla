----------------------------- MODULE ChatService -----------------------------
(***************************************************************************)
(* What the single chat server promises its clients, with none of the      *)
(* lists, hash maps, pointers, threads or timers it is built from.         *)
(*                                                                         *)
(*   session[n]   the address user n is logged in from, NULL if none       *)
(*   member[c]    the users subscribed to channel c, logged in or not      *)
(*   out          the datagrams sent in answer to the latest request       *)
(*                                                                         *)
(* ChatServer is shown to implement this specification.                    *)
(***************************************************************************)
EXTENDS ChatProto

CONSTANTS Username, IpPort, Channel, NULL

VARIABLES session, member, out

service == <<session, member, out>>

\* The user logged in from address a, as a set with at most one element.
UserAt(a) == {n \in Username : session[n] = a}

\* The channels a client can be told about: those somebody subscribed to.
OpenChannels == {c \in Channel : member[c] # {}}

Init ==
    /\ session = [n \in Username |-> NULL]
    /\ member = [c \in Channel |-> {}]
    /\ out = {}

\* A login ends the earlier session of that user and the earlier session from
\* that address.
Login(n, a) ==
    /\ session' = [m \in Username |-> IF m = n THEN a
                                      ELSE IF session[m] = a THEN NULL
                                      ELSE session[m]]
    /\ out' = {}
    /\ UNCHANGED member

\* A logout ends the session, not the subscriptions.
Logout(a) ==
    /\ session' = [m \in Username |-> IF session[m] = a THEN NULL ELSE session[m]]
    /\ out' = {}
    /\ UNCHANGED member

\* A session may end because its client was silent.
Expire(n) ==
    /\ session' = [session EXCEPT ![n] = NULL]
    /\ UNCHANGED <<member, out>>

Join(a, c) ==
    /\ member' = [member EXCEPT ![c] = @ \cup UserAt(a)]
    /\ out' = IF UserAt(a) = {} THEN {TextError(a, "not_logged_in")} ELSE {}
    /\ UNCHANGED session

Leave(a, c) ==
    /\ member' = [member EXCEPT ![c] = @ \ UserAt(a)]
    /\ out' = IF UserAt(a) = {} THEN {TextError(a, "not_logged_in")} ELSE {}
    /\ UNCHANGED session

\* What is said on a channel reaches every member of it who is logged in, at
\* the address of the session the member has now, the speaker included.
Said(n, c) == {TextSay(session[m], c, n) : m \in {k \in member[c] : session[k] # NULL}}

Say(a, c) ==
    /\ \/ /\ UserAt(a) = {}
          /\ out' = {TextError(a, "not_logged_in")}
       \/ \E n \in UserAt(a) :
            out' = IF member[c] = {} THEN {TextError(a, "no_channel")}
                   ELSE IF n \notin member[c] THEN {TextError(a, "not_member")}
                   ELSE Said(n, c)
    /\ UNCHANGED <<session, member>>

List(a) ==
    /\ out' = IF OpenChannels = {} THEN {TextError(a, "no_list")}
              ELSE {TextList(a, OpenChannels)}
    /\ UNCHANGED <<session, member>>

Who(a, c) ==
    /\ out' = IF member[c] = {} THEN {TextError(a, "no_channel")}
              ELSE {TextWho(a, c, member[c])}
    /\ UNCHANGED <<session, member>>

KeepAlive ==
    /\ out' = {}
    /\ UNCHANGED <<session, member>>

\* A datagram that is no request is answered with an error.
Refuse(a) ==
    /\ out' = {TextError(a, "bad_packet")}
    /\ UNCHANGED <<session, member>>

Next ==
    \/ \E n \in Username, a \in IpPort : Login(n, a)
    \/ \E n \in Username : Expire(n)
    \/ \E a \in IpPort : Logout(a) \/ List(a) \/ Refuse(a)
    \/ \E a \in IpPort, c \in Channel : Join(a, c) \/ Leave(a, c) \/ Say(a, c) \/ Who(a, c)
    \/ KeepAlive

Spec == Init /\ [][Next]_service
==============================================================================
