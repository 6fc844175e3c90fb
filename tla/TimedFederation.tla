--------------------------- MODULE TimedFederation ---------------------------
(***************************************************************************)
(* Federation with its clocks: the last_seen times of routes and users,    *)
(* the sleep of the timer loops, and the limits that server.cxx compares   *)
(* them with.                                                              *)
(*                                                                         *)
(* The time since a last_seen is kept, and not the time itself.  A         *)
(* datagram that is not lost arrives within the unit of time in which it   *)
(* was sent, and no more than MAX_LOSS joins in a row that one server      *)
(* sends another are lost.  A loop that is due runs before the next unit,  *)
(* so that the route check, which runs every 10 s, finds a dead server in  *)
(* the unit in which it is one.                                            *)
(***************************************************************************)
EXTENDS Federation

CONSTANTS
    JOIN_TIMEOUT, JOIN_SEND_INTERVAL, USER_TIMEOUT_LIMIT,
    MAX_LOSS,       \* bound: joins for one route lost in a row
    MAX_REQUESTS    \* bound: requests of the clients in a unit of time

ASSUME LimitsAreNats ==
    /\ {JOIN_TIMEOUT, USER_TIMEOUT_LIMIT, MAX_LOSS, MAX_REQUESTS} \subseteq Nat
    /\ JOIN_SEND_INTERVAL \in Nat \ {0}

VARIABLES
    heard,      \* the time since the last_seen of each route
    kept,       \* how long each route has been there
    idle,       \* the time since the last_seen of each logged in user
    asleep,     \* how long the loops of a server have slept
    lost,       \* how many joins for a route were lost in a row
    asked       \* how many requests were sent in this unit of time

clocks    == <<heard, kept, idle>>
timedVars == <<vars, clocks, asleep, lost, asked>>

\* Channel r.on at server r.at is routed to the adjacent server r.to.
Route == {r \in [at : Server, on : Channel, to : Server] : r.to \in Adj[r.at]}

Open(r) == r.to \in Routes(srv[r.at], r.on)

LoggedIn(u) == u \in Users(srv[Home[u.addr]].uset)

Loops == {"join_send", "user_timeout"}

TimedInit ==
    /\ Init
    /\ heard = [r \in Route |-> 0]
    /\ kept = [r \in Route |-> 0]
    /\ idle = [u \in User |-> 0]
    /\ \E start \in [Server -> 0..JOIN_SEND_INTERVAL - 1] :
          asleep = [s \in Server |-> [l \in Loops |-> start[s]]]
    /\ lost = [r \in Route |-> 0]
    /\ asked = 0

\* The clocks after a step in which there was a join for the routes in joined and a
\* request of the users in seen.  What is gone has no clock.
KeepTimes(joined, seen) ==
    /\ heard' = [r \in Route |-> IF r \in joined \/ ~Open(r)' THEN 0 ELSE heard[r]]
    /\ kept' = [r \in Route |-> IF Open(r)' THEN kept[r] ELSE 0]
    /\ idle' = [u \in User |-> IF u \in seen \/ ~LoggedIn(u)' THEN 0 ELSE idle[u]]

\* cli_keep_alive, which only sets last_seen.
handle_keep_alive(a) == Up(Home[a]) /\ UNCHANGED vars

\* Every request but a logout sets the last_seen of the user at its address.
Heeded(a) ==
    \/ \E n \in Username : handle_login(n, a) /\ KeepTimes({}, {NewUser(n, a)})
    \/ handle_logout(a) /\ KeepTimes({}, {})
    \/ /\ \/ handle_list(a) \/ handle_keep_alive(a)
          \/ \E c \in Channel :
                handle_join(a, c) \/ handle_leave(a, c) \/ handle_say(a, c) \/ handle_who(a, c)
       /\ KeepTimes({}, {UserAt(srv[Home[a]], a)})

TimedRequest ==
    /\ asked < MAX_REQUESTS
    /\ asked' = asked + 1
    /\ \E a \in Addr : Heeded(a)
    /\ UNCHANGED <<asleep, lost>>

\* The route a join is for.
Announced(m) ==
    {r \in Route : m.type = "JOIN" /\ r = [at |-> m.dst, on |-> m.channel, to |-> m.src]}

\* Fault: a server that is there already keeps its time, as with the insert that
\* server_heartbeat once had.
FaultJoinedOnce(m) == {r \in Announced(m) : ~Open(r)}

\* add_server and server_heartbeat set the time of the route.
Joined(m) == Announced(m)

TimedReceive(m) ==
    /\ Receive(m)
    /\ KeepTimes(Joined(m), {})
    /\ lost' = [r \in Route |-> IF r \in Announced(m) THEN 0 ELSE lost[r]]
    /\ UNCHANGED <<asleep, asked>>

Lose(m) ==
    /\ m \in net
    /\ \A r \in Announced(m) : lost[r] < MAX_LOSS
    /\ net' = net \ {m}
    /\ lost' = [r \in Route |-> IF r \in Announced(m) THEN lost[r] + 1 ELSE lost[r]]
    /\ UNCHANGED <<srv, fate, said, copies, clocks, asleep, asked>>
-------------------------------------------------------------------------------
\* The loops, when their sleep is over.

Due(s, loop) == asleep[s][loop] = JOIN_SEND_INTERVAL

Slept(s, loop) ==
    /\ Due(s, loop)
    /\ asleep' = [asleep EXCEPT ![s][loop] = 0]
    /\ KeepTimes({}, {})
    /\ UNCHANGED <<lost, asked>>

SendJoins(s) == join_send_loop(s) /\ Slept(s, "join_send")

\* Fault: the two times are compared the wrong way round.
FaultNeverDead(s) ==
    [c \in Channel |-> {t \in Routes(srv[s], c) :
                            0 > heard[[at |-> s, on |-> c, to |-> t]] + JOIN_TIMEOUT}]

\* get_dead_servers
Dead(s) ==
    [c \in Channel |-> {t \in Routes(srv[s], c) :
                            heard[[at |-> s, on |-> c, to |-> t]] > JOIN_TIMEOUT}]

CheckRoutes(s) ==
    /\ server_timeout_loop(s, Dead(s))
    /\ KeepTimes({}, {})
    /\ UNCHANGED <<asleep, lost, asked>>

\* Fault: a user is kept for as long as the loop sleeps beyond the limit.
FaultSilentTooLate(s) ==
    {u \in Users(srv[s].uset) : idle[u] > USER_TIMEOUT_LIMIT + JOIN_SEND_INTERVAL}

Silent(s) == {u \in Users(srv[s].uset) : idle[u] > USER_TIMEOUT_LIMIT}

\* The loop sleeps JOIN_SEND_INTERVAL, not the USER_PRUNE_INTERVAL there is for it.
CheckUsers(s) == user_timeout_loop(s, Silent(s)) /\ Slept(s, "user_timeout")

\* Beyond the timeout no time differs from another.
Cap(n) == IF n > JOIN_TIMEOUT THEN JOIN_TIMEOUT + 1 ELSE n

\* Time passes when nothing is in flight and nothing is due.
Tick ==
    /\ net = {}
    /\ \A s \in Server : Up(s) =>
          /\ \A loop \in Loops : ~Due(s, loop)
          /\ Dead(s) = [c \in Channel |-> {}]
    /\ heard' = [r \in Route |-> IF Open(r) THEN Cap(heard[r] + 1) ELSE 0]
    /\ kept' = [r \in Route |-> IF Open(r) THEN Cap(kept[r] + 1) ELSE 0]
    /\ idle' = [user \in User |-> IF LoggedIn(user) THEN idle[user] + 1 ELSE 0]
    /\ asleep' = [s \in Server |-> IF Up(s) THEN [l \in Loops |-> asleep[s][l] + 1]
                                   ELSE [l \in Loops |-> 0]]
    /\ asked' = 0
    /\ UNCHANGED <<vars, lost>>

TimedNext ==
    \/ TimedRequest
    \/ \E m \in net : TimedReceive(m) \/ Lose(m)
    \/ \E s \in Server : SendJoins(s) \/ CheckRoutes(s) \/ CheckUsers(s)
    \/ Tick

TimedSpec == TimedInit /\ [][TimedNext]_timedVars

\* What is not lost arrives, the loops are scheduled and time passes; the clients
\* need not send anything.
TimedFairSpec ==
    /\ TimedSpec
    /\ \A m \in Datagrams : WF_timedVars(TimedReceive(m))
    /\ \A s \in Server : /\ WF_timedVars(SendJoins(s))
                         /\ WF_timedVars(CheckRoutes(s))
                         /\ WF_timedVars(CheckUsers(s))
    /\ WF_timedVars(Tick)
-------------------------------------------------------------------------------
\* Properties.

\* The other way of a route.
Back(r) == [at |-> r.to, on |-> r.on, to |-> r.at]

\* The timeout takes a server from a channel, which stays.
Cut(r) == Open(r) /\ Exists(srv[r.at], r.on)' /\ ~Open(r)'

\* Joins are sent every 60 s and a route is cut 120 s after the last one, so that the
\* loss of one (of as many as the timeout has room for) is not to cut it: a server is
\* cut only if its own route the other way has not been there for all of that time, or
\* its process has ended.
OneLossCutsNothing ==
    [][\A s \in Server : CheckRoutes(s) =>
          \A r \in Route : r.at = s /\ Cut(r) /\ Up(r.to)
                              => kept[Back(r)] <= JOIN_TIMEOUT]_timedVars

\* After a join was lost, or a leave, or one server was started anew, a channel may
\* be routed one way only.  The refresh of the joins and the timeout repair that: the
\* other server learns of the route, or the route goes.
HalfRouteHeals ==
    \A r \in Route : Open(r) ~> Open(Back(r)) \/ ~Open(r)

\* The user scan runs every JOIN_SEND_INTERVAL, so that a silent user may stay that
\* much longer than the limit, and no longer, whatever the other clients do.
SilentUserBound == \A u \in User : idle[u] <= USER_TIMEOUT_LIMIT + JOIN_SEND_INTERVAL
==============================================================================
