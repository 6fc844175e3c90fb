------------------------ MODULE TimedFederation_proofs ------------------------
(***************************************************************************)
(* The refresh of the routes, for every topology and all intervals.  If    *)
(* the timeout has room for one join more than may be lost in a row, then  *)
(* no route is cut that its other end has kept for as long as the timeout. *)
(*                                                                         *)
(* The inductive invariant bounds the time since a route was last heard    *)
(* of, or else the time for which the other end has had it, by what the    *)
(* other end's loop has slept and the joins that were lost since.          *)
(***************************************************************************)
EXTENDS TimedFederation, FederationUsers_proofs

JoinInFlight(r) == \E m \in net : r \in Announced(m)

SinceSent(r) == IF JoinInFlight(r) THEN JOIN_SEND_INTERVAL ELSE asleep[r.to]["join_send"]

\* The longest that the other end of r can have been unheard.
Grace(r) == SinceSent(r) + lost[r] * JOIN_SEND_INTERVAL

Bounded(r) ==
    Back(r) \in Route => heard[r] <= Grace(r) \/ kept[Back(r)] <= Grace(r)

ClockTypes ==
    /\ heard \in [Route -> Nat]
    /\ kept \in [Route -> Nat]
    /\ lost \in [Route -> 0..MAX_LOSS]
    /\ asleep \in [Server -> [Loops -> 0..JOIN_SEND_INTERVAL]]

TimedInv ==
    /\ Inv
    /\ ClockTypes
    /\ \A r \in Route : Bounded(r)
-------------------------------------------------------------------------------

LEMMA LossAdds ==
    ASSUME NEW l \in Nat, NEW i \in Nat
    PROVE  (l + 1) * i = l * i + i
OBVIOUS

LEMMA LossIsMonotonic ==
    ASSUME NEW l \in Nat, NEW k \in Nat, l <= k, NEW i \in Nat
    PROVE  l * i <= k * i
OBVIOUS

LEMMA IntervalIsNat ==
    /\ JOIN_SEND_INTERVAL \in Nat /\ JOIN_SEND_INTERVAL > 0
    /\ JOIN_TIMEOUT \in Nat /\ MAX_LOSS \in Nat
BY LimitsAreNats

\* A closed route was not heard of and was not kept.
LEMMA ClosedRoutes ==
    ASSUME NEW joined, NEW seen, KeepTimes(joined, seen), ClockTypes
    PROVE  /\ heard' \in [Route -> Nat]
           /\ kept' \in [Route -> Nat]
           /\ \A r \in Route : /\ heard'[r] \in {0, heard[r]}
                               /\ kept'[r] \in {0, kept[r]}
                               /\ r \in joined => heard'[r] = 0
                               /\ ~Open(r)' => heard'[r] = 0 /\ kept'[r] = 0
BY DEF KeepTimes, ClockTypes

LEMMA GraceIsNat ==
    ASSUME ClockTypes, NEW r \in Route
    PROVE  /\ SinceSent(r) \in Nat
           /\ SinceSent(r) <= JOIN_SEND_INTERVAL
           /\ lost[r] * JOIN_SEND_INTERVAL \in Nat
<1>1. r.to \in Server
  BY DEF Route
<1>2. asleep[r.to]["join_send"] \in 0..JOIN_SEND_INTERVAL
  BY <1>1 DEF ClockTypes, Loops
<1>3. lost[r] \in Nat
  BY IntervalIsNat DEF ClockTypes
<1> QED
  BY <1>2, <1>3, IntervalIsNat DEF SinceSent

\* A step in which the grace does not shrink, unless the clocks are set back.
LEMMA GraceKeepsBounded ==
    ASSUME ClockTypes, ClockTypes', NEW r \in Route, Bounded(r),
           heard'[r] <= heard[r], \A q \in Route : kept'[q] <= kept[q],
           \/ Grace(r) <= Grace(r)'
           \/ heard'[r] = 0
           \/ Back(r) \in Route /\ kept'[Back(r)] = 0
    PROVE  Bounded(r)'
<1>1. Grace(r) \in Nat /\ Grace(r)' \in Nat
  <2>1. SinceSent(r) \in Nat /\ lost[r] * JOIN_SEND_INTERVAL \in Nat
    BY GraceIsNat
  <2>2. SinceSent(r)' \in Nat /\ lost'[r] * JOIN_SEND_INTERVAL \in Nat
    <3>1. r.to \in Server
      BY DEF Route
    <3>2. asleep'[r.to]["join_send"] \in 0..JOIN_SEND_INTERVAL
      BY <3>1 DEF ClockTypes, Loops
    <3>3. lost'[r] \in Nat
      BY IntervalIsNat DEF ClockTypes
    <3> QED
      BY <3>2, <3>3, IntervalIsNat DEF SinceSent
  <2> QED
    BY <2>1, <2>2 DEF Grace
<1>2. heard[r] \in Nat /\ heard'[r] \in Nat
  BY DEF ClockTypes
<1>3. Back(r) \in Route => kept[Back(r)] \in Nat /\ kept'[Back(r)] \in Nat
  BY DEF ClockTypes
<1>4. Back(r)' = Back(r)
  BY DEF Back
<1> QED
  BY <1>1, <1>2, <1>3, <1>4 DEF Bounded
-------------------------------------------------------------------------------
\* What a step does to the datagrams.

LEMMA RequestOnlySends == ASSUME ClientRequest PROVE net \subseteq net'
BY DEF ClientRequest, handle_login, handle_logout, handle_list, handle_join, handle_leave,
       handle_say, handle_who

LEMMA ReceiveTakesOne == ASSUME NEW m, Receive(m) PROVE net \ {m} \subseteq net'
<1>1. \A rest \in Remaining(m) : net \ {m} \subseteq rest
  BY DEF Remaining
<1> QED
  BY <1>1 DEF Receive, handle_s2s_join, handle_s2s_leave, handle_s2s_say, PassOn, Vanish

LEMMA HeededIsRequest ==
    ASSUME NEW a \in Addr, Heeded(a)
    PROVE  (ClientRequest \/ UNCHANGED vars) /\ \E seen : KeepTimes({}, seen)
BY DEF Heeded, ClientRequest, handle_keep_alive

\* The steps that only send, or send nothing.
LEMMA NetGrows ==
    ASSUME ClockTypes, ClockTypes', net \subseteq net', NEW r \in Route,
           lost' = lost, asleep'[r.to]["join_send"] = asleep[r.to]["join_send"]
    PROVE  Grace(r) <= Grace(r)'
<1>1. JoinInFlight(r) => JoinInFlight(r)'
  BY DEF JoinInFlight, Announced
<1>2. r.to \in Server
  BY DEF Route
<1>3. asleep[r.to]["join_send"] \in 0..JOIN_SEND_INTERVAL
  BY <1>2 DEF ClockTypes, Loops
<1>4. SinceSent(r) \in Nat /\ SinceSent(r)' \in Nat /\ SinceSent(r) <= SinceSent(r)'
  BY <1>1, <1>3, IntervalIsNat DEF SinceSent
<1> QED
  BY <1>4, GraceIsNat DEF Grace
-------------------------------------------------------------------------------

LEMMA RequestKeepsTimedInv == ASSUME TimedInv, TimedRequest PROVE TimedInv'
<1>1. PICK a \in Addr : Heeded(a)
  BY DEF TimedRequest
<1>2. PICK seen : KeepTimes({}, seen)
  BY <1>1, HeededIsRequest
<1>3. Inv'
  BY <1>1, HeededIsRequest, ClientKeepsInv, NextKeepsInv DEF TimedInv
<1>4. ClockTypes'
  BY <1>2, ClosedRoutes DEF TimedInv, TimedRequest, ClockTypes
<1>5. net \subseteq net'
  BY <1>1, HeededIsRequest, RequestOnlySends DEF vars
<1>6. \A r \in Route : Bounded(r)'
  <2> TAKE r \in Route
  <2>1. Grace(r) <= Grace(r)'
    BY <1>4, <1>5, NetGrows DEF TimedInv, TimedRequest
  <2>2. heard'[r] <= heard[r] /\ \A q \in Route : kept'[q] <= kept[q]
    BY <1>2, ClosedRoutes DEF TimedInv, ClockTypes
  <2> QED
    BY <1>4, <2>1, <2>2, GraceKeepsBounded DEF TimedInv
<1> QED
  BY <1>3, <1>4, <1>6 DEF TimedInv

LEMMA ReceiveKeepsTimedInv ==
    ASSUME TimedInv, NEW m \in net, TimedReceive(m) PROVE TimedInv'
<1>1. Receive(m) /\ KeepTimes(Joined(m), {}) /\ asleep' = asleep
  BY DEF TimedReceive
<1>3. Inv'
  BY <1>1, ReceiveKeepsInv DEF TimedInv
<1>4. ClockTypes'
  <2>1. lost' \in [Route -> 0..MAX_LOSS]
    BY IntervalIsNat DEF TimedReceive, TimedInv, ClockTypes
  <2> QED
    BY <1>1, <2>1, ClosedRoutes DEF TimedInv, ClockTypes
<1>6. \A r \in Route : Bounded(r)'
  <2> TAKE r \in Route
  <2>2. heard'[r] <= heard[r] /\ \A q \in Route : kept'[q] <= kept[q]
    BY <1>1, ClosedRoutes DEF TimedInv, ClockTypes
  <2>3. CASE r \in Announced(m)
    <3>1. heard'[r] = 0
      BY <1>1, <2>3, ClosedRoutes DEF TimedInv, Joined
    <3> QED
      BY <1>4, <2>2, <3>1, GraceKeepsBounded DEF TimedInv
  <2>4. CASE r \notin Announced(m)
    <3>1. JoinInFlight(r) => JoinInFlight(r)'
      BY <1>1, <2>4, ReceiveTakesOne DEF JoinInFlight, Announced
    <3>2. lost'[r] = lost[r]
      BY <2>4 DEF TimedReceive
    <3>3. asleep[r.to]["join_send"] \in 0..JOIN_SEND_INTERVAL
      BY DEF ClockTypes, Loops, Route, TimedInv
    <3>4. SinceSent(r) \in Nat /\ SinceSent(r)' \in Nat /\ SinceSent(r) <= SinceSent(r)'
      BY <1>1, <3>1, <3>3, IntervalIsNat DEF SinceSent
    <3>5. Grace(r) <= Grace(r)'
      BY <3>2, <3>4, GraceIsNat DEF Grace, TimedInv
    <3> QED
      BY <1>4, <2>2, <3>5, GraceKeepsBounded DEF TimedInv
  <2> QED
    BY <2>3, <2>4
<1> QED
  BY <1>3, <1>4, <1>6 DEF TimedInv

\* A lost join adds an interval to the grace, which it takes the place of.
LEMMA LossKeepsTimedInv ==
    ASSUME TimedInv, NEW m \in net, Lose(m) PROVE TimedInv'
<1>1. net' = net \ {m} /\ UNCHANGED <<srv, fate, clocks, asleep>>
  BY DEF Lose
<1>2. Inv'
  BY <1>1, NothingKeepsInv DEF TimedInv, Inv
<1>3. \A r \in Route : lost[r] \in 0..MAX_LOSS
  BY DEF TimedInv, ClockTypes
<1>4. lost' \in [Route -> 0..MAX_LOSS]
  BY <1>3, IntervalIsNat DEF Lose
<1>5. ClockTypes'
  BY <1>1, <1>4 DEF TimedInv, ClockTypes, clocks
<1>6. \A r \in Route : Bounded(r)'
  <2> TAKE r \in Route
  <2>1. heard'[r] <= heard[r] /\ \A q \in Route : kept'[q] <= kept[q]
    BY <1>1 DEF TimedInv, ClockTypes, clocks
  <2>2. asleep[r.to]["join_send"] \in 0..JOIN_SEND_INTERVAL
    BY DEF ClockTypes, Loops, Route, TimedInv
  <2>3. SinceSent(r) \in Nat /\ SinceSent(r)' \in Nat
    BY <1>1, <2>2, IntervalIsNat DEF SinceSent
  <2>4. Grace(r) <= Grace(r)'
    <3>1. CASE r \in Announced(m)
      <4>1. lost'[r] = lost[r] + 1 /\ lost[r] \in Nat
        BY <3>1, <1>3, IntervalIsNat DEF Lose
      <4>2. SinceSent(r) = JOIN_SEND_INTERVAL
        BY <3>1 DEF SinceSent, JoinInFlight
      <4>3. lost'[r] * JOIN_SEND_INTERVAL = lost[r] * JOIN_SEND_INTERVAL + JOIN_SEND_INTERVAL
        BY <4>1, IntervalIsNat, LossAdds
      <4> QED
        BY <4>2, <4>3, <2>3, GraceIsNat, IntervalIsNat DEF Grace, TimedInv
    <3>2. CASE r \notin Announced(m)
      <4>1. JoinInFlight(r) => JoinInFlight(r)'
        BY <1>1, <3>2 DEF JoinInFlight, Announced
      <4>2. lost'[r] = lost[r]
        BY <3>2 DEF Lose
      <4>3. SinceSent(r) <= SinceSent(r)'
        BY <1>1, <4>1, <2>2, IntervalIsNat DEF SinceSent
      <4> QED
        BY <2>3, <4>2, <4>3, GraceIsNat DEF Grace, TimedInv
    <3> QED
      BY <3>1, <3>2
  <2> QED
    BY <1>5, <2>1, <2>4, GraceKeepsBounded DEF TimedInv
<1> QED
  BY <1>2, <1>5, <1>6 DEF TimedInv

\* The loop starts to sleep anew when a join is on its way on each of its routes.
LEMMA SendKeepsTimedInv ==
    ASSUME TimedInv, NEW s \in Server, SendJoins(s) PROVE TimedInv'
<1>1. /\ join_send_loop(s)
      /\ KeepTimes({}, {})
      /\ lost' = lost
      /\ asleep' = [asleep EXCEPT ![s]["join_send"] = 0]
      /\ asleep[s]["join_send"] = JOIN_SEND_INTERVAL
  BY DEF SendJoins, Slept, Due
<1>2. /\ net \subseteq net'
      /\ \A c \in Channel : Joins(s, Routes(srv[s], c), c) \subseteq net'
      /\ UNCHANGED srv
  BY <1>1 DEF join_send_loop
<1>3. Inv'
  BY <1>1, LoopsKeepInv DEF TimedInv
<1>4. asleep' \in [Server -> [Loops -> 0..JOIN_SEND_INTERVAL]]
  BY <1>1, IntervalIsNat DEF TimedInv, ClockTypes, Loops
<1>5. ClockTypes'
  BY <1>1, <1>4, ClosedRoutes DEF TimedInv, ClockTypes
<1>6. \A r \in Route : Bounded(r)'
  <2> TAKE r \in Route
  <2>1. heard'[r] <= heard[r] /\ \A q \in Route : kept'[q] <= kept[q]
    BY <1>1, ClosedRoutes DEF TimedInv, ClockTypes
  <2>2. CASE r.to # s
    <3>1. asleep'[r.to]["join_send"] = asleep[r.to]["join_send"]
      BY <1>1, <2>2 DEF TimedInv, ClockTypes, Route
    <3>2. Grace(r) <= Grace(r)'
      BY <1>1, <1>2, <1>5, <3>1, NetGrows DEF TimedInv
    <3> QED
      BY <1>5, <2>1, <3>2, GraceKeepsBounded DEF TimedInv
  <2>3. CASE r.to = s /\ Back(r) \in Route /\ ~Open(Back(r))'
    <3>1. kept'[Back(r)] = 0
      BY <1>1, <2>3, ClosedRoutes DEF TimedInv
    <3> QED
      BY <1>5, <2>1, <2>3, <3>1, GraceKeepsBounded DEF TimedInv
  <2>4. CASE r.to = s /\ Back(r) \in Route /\ Open(Back(r))'
    <3>1. r.at \in Routes(srv[s], r.on) /\ r.on \in Channel
      BY <1>2, <2>4 DEF Open, Back, Route
    <3>2. Join(s, r.at, r.on) \in net'
      BY <1>2, <3>1 DEF Joins
    <3>3. r = [at |-> r.at, on |-> r.on, to |-> s]
      BY <2>4 DEF Route
    <3>4. r \in Announced(Join(s, r.at, r.on))
      BY <3>3 DEF Announced, Join
    <3>5. SinceSent(r)' = JOIN_SEND_INTERVAL
      BY <3>2, <3>4 DEF SinceSent, JoinInFlight, Announced
    <3>6. Grace(r) <= Grace(r)'
      BY <1>1, <3>5, GraceIsNat, IntervalIsNat DEF Grace, TimedInv
    <3> QED
      BY <1>5, <2>1, <3>6, GraceKeepsBounded DEF TimedInv
  <2>5. CASE Back(r) \notin Route
    BY <2>5 DEF Bounded, Back
  <2> QED
    BY <2>2, <2>3, <2>4, <2>5
<1> QED
  BY <1>3, <1>5, <1>6 DEF TimedInv

LEMMA CheckKeepsTimedInv ==
    ASSUME TimedInv, NEW s \in Server, CheckRoutes(s) \/ CheckUsers(s) PROVE TimedInv'
<1>1. KeepTimes({}, {}) /\ lost' = lost /\ UNCHANGED net
  BY DEF CheckRoutes, CheckUsers, Slept, server_timeout_loop, user_timeout_loop
<1>2. /\ asleep' \in [Server -> [Loops -> 0..JOIN_SEND_INTERVAL]]
      /\ \A t \in Server : asleep'[t]["join_send"] = asleep[t]["join_send"]
  <2>1. CASE CheckRoutes(s)
    BY <2>1 DEF CheckRoutes, TimedInv, ClockTypes
  <2>2. CASE CheckUsers(s)
    <3>1. asleep' = [asleep EXCEPT ![s]["user_timeout"] = 0]
      BY <2>2 DEF CheckUsers, Slept
    <3> QED
      BY <3>1, IntervalIsNat DEF TimedInv, ClockTypes, Loops
  <2> QED
    BY <2>1, <2>2
<1>3. Inv'
  BY LoopsKeepInv DEF TimedInv, CheckRoutes, CheckUsers
<1>4. ClockTypes'
  BY <1>1, <1>2, ClosedRoutes DEF TimedInv, ClockTypes
<1>5. \A r \in Route : Bounded(r)'
  <2> TAKE r \in Route
  <2>1. heard'[r] <= heard[r] /\ \A q \in Route : kept'[q] <= kept[q]
    BY <1>1, ClosedRoutes DEF TimedInv, ClockTypes
  <2>2. Grace(r) <= Grace(r)'
    BY <1>1, <1>2, <1>4, NetGrows DEF TimedInv, Route
  <2> QED
    BY <1>4, <2>1, <2>2, GraceKeepsBounded DEF TimedInv
<1> QED
  BY <1>3, <1>4, <1>5 DEF TimedInv

\* Time passes for both ends of a route, and for the loop of the other end, unless its
\* process has ended, and its route with it.
LEMMA TickKeepsTimedInv == ASSUME TimedInv, Tick PROVE TimedInv'
<1>1. net = {} /\ net' = {} /\ UNCHANGED <<srv, fate>> /\ lost' = lost
  BY DEF Tick, vars
<1>2. Inv'
  BY <1>1, NothingKeepsInv DEF TimedInv
<1>3. \A r \in Route : /\ heard[r] \in Nat /\ kept[r] \in Nat
                       /\ heard'[r] \in Nat /\ kept'[r] \in Nat
                       /\ heard'[r] <= heard[r] + 1 /\ kept'[r] <= kept[r] + 1
                       /\ ~Open(r) => kept'[r] = 0
  BY IntervalIsNat DEF Tick, TimedInv, ClockTypes, Cap
<1>4. \A s \in Server : Up(s) => /\ asleep[s]["join_send"] \in Nat
                                 /\ asleep'[s]["join_send"] = asleep[s]["join_send"] + 1
  BY IntervalIsNat DEF Tick, TimedInv, ClockTypes, Loops
<1>5. asleep' \in [Server -> [Loops -> 0..JOIN_SEND_INTERVAL]]
  <2>1. \A s \in Server, l \in Loops : Up(s) => asleep[s][l] + 1 \in 0..JOIN_SEND_INTERVAL
    <3> SUFFICES ASSUME NEW s \in Server, NEW l \in Loops, Up(s)
                 PROVE  asleep[s][l] + 1 \in 0..JOIN_SEND_INTERVAL
      OBVIOUS
    <3>1. asleep[s][l] \in 0..JOIN_SEND_INTERVAL
      BY DEF TimedInv, ClockTypes
    <3>2. asleep[s][l] # JOIN_SEND_INTERVAL
      BY DEF Tick, Due
    <3> QED
      BY <3>1, <3>2, IntervalIsNat
  <2>2. 0 \in 0..JOIN_SEND_INTERVAL
    BY IntervalIsNat
  <2>3. asleep' = [s \in Server |-> IF Up(s) THEN [l \in Loops |-> asleep[s][l] + 1]
                                    ELSE [l \in Loops |-> 0]]
    BY DEF Tick
  <2> QED
    BY <2>1, <2>2, <2>3
<1>6. ClockTypes'
  BY <1>1, <1>3, <1>5 DEF Tick, TimedInv, ClockTypes
<1>7. \A r \in Route : Bounded(r)'
  <2> SUFFICES ASSUME NEW r \in Route, Back(r) \in Route
               PROVE  Bounded(r)'
    BY DEF Bounded, Back
  <2>1. r.to \in Server /\ Back(r).at = r.to /\ Back(r)' = Back(r)
    BY DEF Route, Back
  <2>2. CASE Up(r.to)
    <3>1. SinceSent(r) = asleep[r.to]["join_send"] /\ SinceSent(r)' = asleep'[r.to]["join_send"]
      BY <1>1 DEF SinceSent, JoinInFlight
    <3>2. Grace(r)' = Grace(r) + 1 /\ Grace(r) \in Nat
      BY <3>1, <2>1, <2>2, <1>1, <1>4, GraceIsNat DEF Grace, TimedInv
    <3>3. heard[r] <= Grace(r) \/ kept[Back(r)] <= Grace(r)
      BY DEF TimedInv, Bounded
    <3> QED
      BY <3>2, <3>3, <1>3, <2>1 DEF Bounded
  <2>3. CASE ~Up(r.to)
    <3>1. ~Open(Back(r))
      BY <2>1, <2>3 DEF Open, TimedInv, Inv, NewState, Routes, Exists, Route, Back
    <3>2. kept'[Back(r)] = 0
      BY <3>1, <1>3
    <3>3. SinceSent(r)' \in Nat /\ lost'[r] * JOIN_SEND_INTERVAL \in Nat
      <4>1. asleep'[r.to]["join_send"] \in 0..JOIN_SEND_INTERVAL
        BY <1>5, <2>1 DEF Loops
      <4> QED
        BY <4>1, <1>1, GraceIsNat, IntervalIsNat DEF SinceSent, TimedInv
    <3> QED
      BY <3>2, <3>3, <2>1 DEF Bounded, Grace
  <2> QED
    BY <2>2, <2>3
<1> QED
  BY <1>2, <1>6, <1>7 DEF TimedInv

LEMMA StutterKeepsTimedInv == ASSUME TimedInv, UNCHANGED timedVars PROVE TimedInv'
<1>1. UNCHANGED <<srv, fate, net, heard, kept, asleep, lost>>
  BY DEF timedVars, vars, clocks
<1>2. Inv'
  BY <1>1, NothingKeepsInv DEF TimedInv, Inv
<1> QED
  BY <1>1, <1>2 DEF TimedInv, ClockTypes, Bounded, Grace, SinceSent, JoinInFlight, Back,
                    Announced

LEMMA InitTimedInv == TimedInit => TimedInv
<1> SUFFICES ASSUME TimedInit
             PROVE  TimedInv
  OBVIOUS
<1>1. Inv
  BY InitInv DEF TimedInit
<1>2. ClockTypes
  BY IntervalIsNat DEF TimedInit, ClockTypes, Loops
<1>3. \A r \in Route : Bounded(r)
  <2> TAKE r \in Route
  <2>1. SinceSent(r) \in Nat /\ lost[r] * JOIN_SEND_INTERVAL \in Nat
    BY <1>2, GraceIsNat
  <2>2. heard[r] = 0
    BY DEF TimedInit
  <2> QED
    BY <2>1, <2>2 DEF Bounded, Grace
<1> QED
  BY <1>1, <1>2, <1>3 DEF TimedInv

LEMMA TimedNextKeepsTimedInv == TimedInv /\ [TimedNext]_timedVars => TimedInv'
BY RequestKeepsTimedInv, ReceiveKeepsTimedInv, LossKeepsTimedInv, SendKeepsTimedInv,
   CheckKeepsTimedInv, TickKeepsTimedInv, StutterKeepsTimedInv DEF TimedNext

LEMMA TimedInvAlways == TimedSpec => []TimedInv
BY InitTimedInv, TimedNextKeepsTimedInv, PTL DEF TimedSpec
-------------------------------------------------------------------------------

\* A route that the timeout cuts had not been heard of for more than the timeout, so that
\* its other end cannot have had it for that long.
LEMMA CutRoutesWereShort ==
    ASSUME (MAX_LOSS + 1) * JOIN_SEND_INTERVAL <= JOIN_TIMEOUT,
           TimedInv, NEW s \in Server, CheckRoutes(s),
           NEW r \in Route, r.at = s, Cut(r)
    PROVE  kept[Back(r)] <= JOIN_TIMEOUT
<1>1. SoundState(srv[s], s) /\ r.on \in Channel /\ Exists(srv[s], r.on) /\ r.to \in Server
  BY DEF TimedInv, Inv, Cut, Open, Routes, Route
<1>2. Linked(s, r.to)
  BY <1>1, RoutesLinked DEF Cut, Open, Routes
<1>3. Back(r) \in Route
  BY <1>1, <1>2 DEF Back, Route, Linked
<1>4. srv' = [srv EXCEPT ![s] = DropServers(srv[s], Dead(s))]
  <2>1. \A c \in OpenChannels(srv[s]) : ~get_dead_servers_throws(srv[s].cset[c])
    BY <1>1 DEF OpenChannels, Exists, SoundState, SoundChannel, get_dead_servers_throws
  <2> QED
    BY <2>1 DEF CheckRoutes, server_timeout_loop, Become
<1>5. r.to \in Dead(s)[r.on]
  <2> SUFFICES ASSUME r.to \notin Dead(s)[r.on]
               PROVE  FALSE
    OBVIOUS
  <2> DEFINE new == srv[s].cset[r.on].sset \ Dead(s)[r.on]
  <2>1. srv'[s] = DropServers(srv[s], Dead(s))
    BY <1>4 DEF TimedInv, Inv
  <2>2. srv'[s].cset[r.on] = [srv[s].cset[r.on] EXCEPT !.sset = @ \ Dead(s)[r.on],
                                                      !.last_seen = @ \ Dead(s)[r.on]]
    BY <2>1, <1>1 DEF DropServers, SoundState
  <2>3. srv'[s].cset[r.on].sset = new
    BY <2>2, <1>1 DEF SoundState, SoundChannel, Exists
  <2>4. r.to \in new
    BY DEF Cut, Open, Routes
  <2>5. r.to \in Routes(srv'[s], r.on)
    BY <2>3, <2>4 DEF Cut, Routes
  <2> QED
    BY <2>5 DEF Cut, Open
<1>6. heard[r] > JOIN_TIMEOUT
  <2>1. r = [at |-> s, on |-> r.on, to |-> r.to]
    BY DEF Route
  <2> QED
    BY <1>5, <1>1, <2>1 DEF Dead
<1>7. Grace(r) \in Nat /\ Grace(r) <= JOIN_TIMEOUT
  <2>1. lost[r] \in Nat /\ lost[r] <= MAX_LOSS
    BY IntervalIsNat DEF TimedInv, ClockTypes
  <2>2. lost[r] * JOIN_SEND_INTERVAL <= MAX_LOSS * JOIN_SEND_INTERVAL
    BY <2>1, IntervalIsNat, LossIsMonotonic
  <2>3. (MAX_LOSS + 1) * JOIN_SEND_INTERVAL
          = MAX_LOSS * JOIN_SEND_INTERVAL + JOIN_SEND_INTERVAL
    BY IntervalIsNat, LossAdds
  <2>4. MAX_LOSS * JOIN_SEND_INTERVAL \in Nat
    BY IntervalIsNat
  <2> QED
    BY <2>2, <2>3, <2>4, GraceIsNat, IntervalIsNat DEF Grace, TimedInv
<1> QED
  BY <1>3, <1>6, <1>7, IntervalIsNat DEF TimedInv, Bounded, ClockTypes

\* If the timeout has room for one join more than may be lost in a row, as the 120 s of
\* the code have for one lost of those sent every 60 s, then no timeout cuts a route that
\* the server at its other end has kept for longer than the timeout.
THEOREM LossesCutNothing ==
    ASSUME (MAX_LOSS + 1) * JOIN_SEND_INTERVAL <= JOIN_TIMEOUT
    PROVE  TimedSpec => OneLossCutsNothing
<1>1. TimedInv /\ [TimedNext]_timedVars =>
        [\A s \in Server : CheckRoutes(s) =>
          \A r \in Route : r.at = s /\ Cut(r) /\ Up(r.to)
                              => kept[Back(r)] <= JOIN_TIMEOUT]_timedVars
  BY CutRoutesWereShort
<1> QED
  BY <1>1, TimedInvAlways, PTL DEF TimedSpec, OneLossCutsNothing
-------------------------------------------------------------------------------
\* The bound on the silence of users.

\* How long a user may have been silent: beyond the limit by what the user scan of its
\* server has slept.
Patience(u) == USER_TIMEOUT_LIMIT + asleep[Home[u.addr]]["user_timeout"]

IdleTyped == idle \in [User -> Nat]

SilentInv ==
    /\ TimedInv
    /\ UsersInv
    /\ IdleTyped
    /\ \A u \in User : idle[u] <= Patience(u)

LEMMA HomeOfUser == ASSUME NEW u \in User PROVE Home[u.addr] \in Server
BY HomeIsServer DEF User

LEMMA PatienceIsBounded ==
    ASSUME ClockTypes, NEW u \in User
    PROVE  /\ Patience(u) \in Nat
           /\ USER_TIMEOUT_LIMIT <= Patience(u)
           /\ Patience(u) <= USER_TIMEOUT_LIMIT + JOIN_SEND_INTERVAL
<1>1. Home[u.addr] \in Server
  BY HomeOfUser
<1>2. asleep[Home[u.addr]]["user_timeout"] \in 0..JOIN_SEND_INTERVAL
  BY <1>1 DEF ClockTypes, Loops
<1> QED
  BY <1>2, LimitsAreNats DEF Patience

LEMMA IdleIsKeptOrReset ==
    ASSUME NEW joined, NEW seen, KeepTimes(joined, seen), NEW u \in User
    PROVE  /\ idle'[u] \in {0, idle[u]}
           /\ ~LoggedIn(u)' => idle'[u] = 0
BY DEF KeepTimes

\* A step that leaves the user scan asleep for as long as it was.
LEMMA IdleStaysBounded ==
    ASSUME SilentInv, TimedInv', UsersInv',
           NEW u \in User, idle'[u] \in {0, idle[u]},
           asleep'[Home[u.addr]]["user_timeout"] = asleep[Home[u.addr]]["user_timeout"]
    PROVE  idle'[u] <= Patience(u)'
<1>1. Patience(u)' = Patience(u)
  BY DEF Patience
<1>2. Patience(u) \in Nat /\ idle[u] \in Nat /\ idle[u] <= Patience(u)
  BY PatienceIsBounded DEF SilentInv, TimedInv, IdleTyped
<1> QED
  BY <1>1, <1>2

LEMMA TimedNextKeepsUsersInv ==
    ASSUME SilentInv, [TimedNext]_timedVars PROVE UsersInv'
<1>1. UsersInv /\ Inv /\ RestTyped
  BY DEF SilentInv, UsersInv
<1>2. CASE TimedRequest
  BY <1>1, <1>2, HeededIsRequest, NextKeepsUsersInv DEF TimedRequest, Next
<1>3. ASSUME NEW m \in net, TimedReceive(m)
      PROVE  UsersInv'
  BY <1>1, <1>3, NextKeepsUsersInv DEF TimedReceive, Next
<1>4. ASSUME NEW m \in net, Lose(m)
      PROVE  UsersInv'
  <2>1. Inv'
    BY <1>4, LossKeepsTimedInv DEF SilentInv, TimedInv
  <2>2. UNCHANGED <<srv, fate, said, copies>> /\ net' \subseteq net
    BY <1>4 DEF Lose
  <2> QED
    BY <1>1, <2>1, <2>2, NothingKept DEF UsersInv, RestTyped
<1>5. ASSUME NEW s \in Server, SendJoins(s) \/ CheckRoutes(s) \/ CheckUsers(s)
      PROVE  UsersInv'
  <2>1. \/ join_send_loop(s)
        \/ \E dead : server_timeout_loop(s, dead)
        \/ \E silent : user_timeout_loop(s, silent)
    BY <1>5 DEF SendJoins, CheckRoutes, CheckUsers
  <2>2. Kept /\ Inv'
    BY <1>1, <2>1, LoopsKeepUsers, LoopsKeepInv
  <2> QED
    BY <2>2 DEF Kept, UsersInv
<1>6. CASE Tick \/ UNCHANGED timedVars
  <2>1. UNCHANGED vars
    BY <1>6 DEF Tick, timedVars
  <2> QED
    BY <1>1, <2>1, NextKeepsUsersInv
<1> QED
  BY <1>2, <1>3, <1>4, <1>5, <1>6 DEF TimedNext

\* Whom the scan finds silent is not logged in after it, so that who is has not been
\* silent for longer than the limit.
LEMMA ScanEndsSilence ==
    ASSUME SilentInv, TimedInv', NEW s \in Server, CheckUsers(s), NEW u \in User
    PROVE  idle'[u] \in Nat /\ idle'[u] <= Patience(u)'
<1>1. /\ Become(s, DropUsers(srv[s], Silent(s)))
      /\ KeepTimes({}, {})
      /\ asleep' = [asleep EXCEPT ![s]["user_timeout"] = 0]
  BY DEF CheckUsers, Slept, user_timeout_loop
<1>2. idle[u] \in Nat /\ idle'[u] \in {0, idle[u]} /\ (~LoggedIn(u)' => idle'[u] = 0)
  BY <1>1, IdleIsKeptOrReset DEF SilentInv, IdleTyped
<1>3. ClockTypes' /\ Patience(u) \in Nat /\ idle[u] <= Patience(u)
  BY PatienceIsBounded DEF SilentInv, TimedInv, IdleTyped
<1>4. USER_TIMEOUT_LIMIT \in Nat
  BY LimitsAreNats
<1>5. CASE Home[u.addr] # s
  <2>1. asleep'[Home[u.addr]] = asleep[Home[u.addr]]
    BY <1>1, <1>5, HomeOfUser DEF SilentInv, TimedInv, ClockTypes
  <2>2. Patience(u)' = Patience(u)
    BY <2>1 DEF Patience
  <2> QED
    BY <2>2, <1>2, <1>3
<1>6. CASE Home[u.addr] = s
  <2>1. Patience(u)' = USER_TIMEOUT_LIMIT
    <3>1. asleep'[s]["user_timeout"] = 0
      BY <1>1 DEF SilentInv, TimedInv, ClockTypes, Loops
    <3> QED
      BY <3>1, <1>6, <1>4 DEF Patience
  <2>2. LoggedIn(u)' => idle[u] <= USER_TIMEOUT_LIMIT
    <3>1. Agree(srv[s].uset)
      BY DEF SilentInv, UsersInv, WellKept
    <3>2. Users(srv'[s].uset) = Users(srv[s].uset) \ Silent(s)
      <4>1. srv'[s] = DropUsers(srv[s], Silent(s))
        BY <1>1 DEF Become, SilentInv, TimedInv, Inv
      <4>2. srv'[s].uset = DropSilent(srv[s].uset, srv[s].uset.user_list, Silent(s))
        BY <4>1 DEF DropUsers
      <4> QED
        BY <4>2, <3>1, ScanAgrees
    <3>3. LoggedIn(u)' => u \in Users(srv'[s].uset)
      BY <1>6 DEF LoggedIn
    <3>4. LoggedIn(u)' => ~(idle[u] > USER_TIMEOUT_LIMIT)
      BY <3>2, <3>3 DEF Silent
    <3> QED
      BY <3>4, <1>2, <1>4
  <2> QED
    BY <2>1, <2>2, <1>2, <1>4
<1> QED
  BY <1>5, <1>6

\* Time passes for the users and for the scan of their server alike; a server whose
\* process has ended has no users.
LEMMA TickKeepsPatience ==
    ASSUME SilentInv, Tick, NEW u \in User
    PROVE  idle'[u] \in Nat /\ idle'[u] <= Patience(u)'
<1> DEFINE s == Home[u.addr]
<1>1. s \in Server /\ USER_TIMEOUT_LIMIT \in Nat
  BY HomeOfUser, LimitsAreNats
<1>2. idle[u] \in Nat /\ idle[u] <= Patience(u)
  BY DEF SilentInv, IdleTyped
<1>3. asleep[s]["user_timeout"] \in Nat
  BY <1>1, IntervalIsNat DEF SilentInv, TimedInv, ClockTypes, Loops
<1>4. asleep'[s]["user_timeout"] = IF Up(s) THEN asleep[s]["user_timeout"] + 1 ELSE 0
  BY <1>1 DEF Tick, Loops
<1>5. idle'[u] = IF LoggedIn(u) THEN idle[u] + 1 ELSE 0
  BY DEF Tick
<1>6. ~Up(s) => ~LoggedIn(u)
  <2>1. ~Up(s) => srv[s] = NewState
    BY <1>1 DEF SilentInv, TimedInv, Inv
  <2>2. Users(NewState.uset) = {}
    BY DEF NewState, EmptyUserSet, Users
  <2> QED
    BY <2>1, <2>2 DEF LoggedIn
<1> QED
  BY <1>1, <1>2, <1>3, <1>4, <1>5, <1>6 DEF Patience

LEMMA TimedNextKeepsSilentInv == SilentInv /\ [TimedNext]_timedVars => SilentInv'
<1> SUFFICES ASSUME SilentInv, [TimedNext]_timedVars
             PROVE  SilentInv'
  OBVIOUS
<1>1. TimedInv' /\ UsersInv'
  BY TimedNextKeepsTimedInv, TimedNextKeepsUsersInv DEF SilentInv
<1>2. ASSUME NEW u \in User
      PROVE  idle'[u] \in Nat /\ idle'[u] <= Patience(u)'
  <2>0. idle \in [User -> Nat] /\ Home[u.addr] \in Server
    BY HomeOfUser DEF SilentInv, IdleTyped
  <2>1. ASSUME idle'[u] \in {0, idle[u]},
               asleep'[Home[u.addr]]["user_timeout"] = asleep[Home[u.addr]]["user_timeout"]
        PROVE  idle'[u] \in Nat /\ idle'[u] <= Patience(u)'
    BY <2>0, <2>1, <1>1, IdleStaysBounded
  <2>2. CASE TimedRequest
    <3>1. \E seen : KeepTimes({}, seen)
      BY <2>2, HeededIsRequest DEF TimedRequest
    <3> QED
      BY <2>0, <2>1, <2>2, <3>1, IdleIsKeptOrReset DEF TimedRequest
  <2>3. ASSUME NEW m \in net, TimedReceive(m)
        PROVE  idle'[u] \in Nat /\ idle'[u] <= Patience(u)'
    BY <2>0, <2>1, <2>3, IdleIsKeptOrReset DEF TimedReceive
  <2>4. ASSUME NEW m \in net, Lose(m)
        PROVE  idle'[u] \in Nat /\ idle'[u] <= Patience(u)'
    BY <2>1, <2>4 DEF Lose, clocks
  <2>5. ASSUME NEW s \in Server, SendJoins(s)
        PROVE  idle'[u] \in Nat /\ idle'[u] <= Patience(u)'
    <3>1. KeepTimes({}, {}) /\ asleep' = [asleep EXCEPT ![s]["join_send"] = 0]
      BY <2>5 DEF SendJoins, Slept
    <3>2. asleep'[Home[u.addr]]["user_timeout"] = asleep[Home[u.addr]]["user_timeout"]
      BY <3>1, <2>0 DEF SilentInv, TimedInv, ClockTypes, Loops
    <3> QED
      BY <2>0, <2>1, <3>1, <3>2, IdleIsKeptOrReset
  <2>6. ASSUME NEW s \in Server, CheckRoutes(s)
        PROVE  idle'[u] \in Nat /\ idle'[u] <= Patience(u)'
    BY <2>0, <2>1, <2>6, IdleIsKeptOrReset DEF CheckRoutes
  <2>7. ASSUME NEW s \in Server, CheckUsers(s)
        PROVE  idle'[u] \in Nat /\ idle'[u] <= Patience(u)'
    BY <1>1, <2>7, ScanEndsSilence
  <2>8. CASE Tick
    BY <2>8, TickKeepsPatience
  <2>9. CASE UNCHANGED timedVars
    BY <2>1, <2>9 DEF timedVars, clocks
  <2> QED
    BY <2>2, <2>3, <2>4, <2>5, <2>6, <2>7, <2>8, <2>9 DEF TimedNext
<1>3. idle' = [u \in User |-> idle'[u]]
  BY DEF TimedNext, Tick, timedVars, clocks, TimedRequest, Heeded, TimedReceive, Lose,
         SendJoins, CheckRoutes, CheckUsers, Slept, KeepTimes, SilentInv, IdleTyped
<1> QED
  BY <1>1, <1>2, <1>3 DEF SilentInv, IdleTyped

LEMMA InitSilentInv == TimedInit => SilentInv
<1> SUFFICES ASSUME TimedInit
             PROVE  SilentInv
  OBVIOUS
<1>1. TimedInv /\ UsersInv
  BY InitTimedInv, InitUsersInv DEF TimedInit
<1>2. ASSUME NEW u \in User
      PROVE  idle[u] = 0 /\ 0 <= Patience(u)
  BY <1>1, PatienceIsBounded, LimitsAreNats DEF TimedInit, TimedInv
<1>3. idle \in [User -> Nat]
  BY DEF TimedInit
<1> QED
  BY <1>1, <1>2, <1>3 DEF SilentInv, IdleTyped

LEMMA SilentInvGivesBound == SilentInv => SilentUserBound
<1> SUFFICES ASSUME SilentInv, NEW u \in User
             PROVE  idle[u] <= USER_TIMEOUT_LIMIT + JOIN_SEND_INTERVAL
  BY DEF SilentUserBound
<1>1. /\ Patience(u) \in Nat /\ idle[u] \in Nat /\ idle[u] <= Patience(u)
      /\ Patience(u) <= USER_TIMEOUT_LIMIT + JOIN_SEND_INTERVAL
  BY PatienceIsBounded DEF SilentInv, TimedInv, IdleTyped
<1> QED
  BY <1>1, LimitsAreNats, IntervalIsNat

\* For all intervals and limits, no user is listed that has been silent for longer than
\* the limit and one round of the scan, on a server that any other requests, joins,
\* losses and crashes of its neighbours occupy.
THEOREM SilentUsersGo == TimedSpec => []SilentUserBound
<1>1. TimedSpec => []SilentInv
  BY InitSilentInv, TimedNextKeepsSilentInv, PTL DEF TimedSpec
<1> QED
  BY <1>1, SilentInvGivesBound, PTL
==============================================================================
