-------------------------- MODULE Federation_proofs --------------------------
(***************************************************************************)
(* The routes between servers, for every topology, any number of servers,  *)
(* clients, channels and messages, and a network that loses, reorders and  *)
(* duplicates: RoutesAreSoftState and ControlTrafficIsSafe always hold.    *)
(*                                                                         *)
(* The user sets of the servers do not matter to it, so that the inductive *)
(* invariant says nothing of them.  What it adds to the two properties is  *)
(* who can have sent what: a join goes to a server on the sender's command *)
(* line, and a route, and so every leave and every message, links two      *)
(* servers that are on each other's.                                       *)
(***************************************************************************)
EXTENDS Federation, TLAPS

\* A channel of server s: its routes have times, and are to linked servers.
SoundChannel(ch, s) ==
    /\ ch = [uset |-> ch.uset, sset |-> ch.sset, last_seen |-> ch.last_seen,
             uid_set |-> ch.uid_set]
    /\ ch.sset = ch.last_seen
    /\ \A t \in ch.sset : t \in Server /\ Linked(s, t)

SoundState(st, s) ==
    /\ st = [uset |-> st.uset, cset |-> st.cset]
    /\ st.cset = [c \in Channel |-> st.cset[c]]
    /\ \A c \in Channel : st.cset[c] # NULL => SoundChannel(st.cset[c], s)

SoundDatagram(m) ==
    /\ m.src \in Server /\ m.dst \in Server /\ m.channel \in Channel
    /\ m.dst \in Adj[m.src]
    /\ m.type # "JOIN" => m.src \in Adj[m.dst]

SoundFate(s) ==
    /\ fate[s] \notin {"s2s_leave", "last_seen"}
    /\ fate[s] = "s2s_join" => \E t \in Server : s \in Adj[t] /\ t \notin Adj[s]

Inv ==
    /\ srv = [s \in Server |-> srv[s]]
    /\ fate = [s \in Server |-> fate[s]]
    /\ \A s \in Server : /\ SoundState(srv[s], s)
                         /\ SoundFate(s)
                         /\ ~Up(s) => srv[s] = NewState
    /\ \A m \in net : SoundDatagram(m)
-------------------------------------------------------------------------------
\* What the operations of a server do to its channels.

LEMMA NewStateSound == ASSUME NEW s \in Server PROVE SoundState(NewState, s)
BY DEF SoundState, NewState

LEMMA NewChannelSound == ASSUME NEW s \in Server PROVE SoundChannel(NewChannel, s)
BY DEF SoundChannel, NewChannel

\* The users of a channel are no matter of its routes.
LEMMA UsersLeaveChannelSound ==
    ASSUME NEW s \in Server, NEW ch, SoundChannel(ch, s), NEW us
    PROVE  SoundChannel([ch EXCEPT !.uset = us], s)
BY DEF SoundChannel

LEMMA SetRoutesSound ==
    ASSUME NEW s \in Server, NEW ch, SoundChannel(ch, s),
           NEW routes, \A t \in routes : t \in Server /\ Linked(s, t),
           NEW new, new = [ch EXCEPT !.sset = routes, !.last_seen = routes]
    PROVE  SoundChannel(new, s)
BY DEF SoundChannel

LEMMA RemoveServerSound ==
    ASSUME NEW s \in Server, NEW t, NEW ch, SoundChannel(ch, s)
    PROVE  SoundChannel(ChannelRemoveServer(ch, t), s)
<1> DEFINE rest == ch.sset \ {t}
<1>1. ChannelRemoveServer(ch, t) = [ch EXCEPT !.sset = rest, !.last_seen = rest]
  BY DEF ChannelRemoveServer, remove_server, SoundChannel
<1>2. \A r \in rest : r \in Server /\ Linked(s, r)
  BY DEF SoundChannel
<1> QED
  BY <1>1, <1>2, SetRoutesSound

LEMMA AddServerSound ==
    ASSUME NEW s \in Server, NEW t \in Server, Linked(s, t),
           NEW ch, SoundChannel(ch, s)
    PROVE  SoundChannel(ChannelAddServer(ch, t), s)
<1> DEFINE r == ChannelRemoveServer(ch, t)
<1>1. SoundChannel(r, s)
  BY RemoveServerSound
<1>2. ChannelAddServer(ch, t)
        = [r EXCEPT !.sset = add_server(r.sset, t), !.last_seen = r.last_seen \cup {t}]
  BY DEF ChannelAddServer
<1> HIDE DEF r
<1>3. add_server(r.sset, t) = r.sset \cup {t}
  BY DEF add_server, remove_server
<1> QED
  BY <1>1, <1>2, <1>3 DEF SoundChannel

LEMMA HeartbeatSound ==
    ASSUME NEW s \in Server, NEW t, NEW ch, SoundChannel(ch, s)
    PROVE  SoundChannel(server_heartbeat(ch, t), s)
BY DEF SoundChannel, server_heartbeat

\* One channel of a state changes.
LEMMA SetChannelSound ==
    ASSUME NEW s \in Server, NEW st, SoundState(st, s), NEW c \in Channel,
           NEW ch, SoundChannel(ch, s)
    PROVE  SoundState([st EXCEPT !.cset[c] = ch], s)
BY DEF SoundState

LEMMA LoginSound ==
    ASSUME NEW s \in Server, NEW st, SoundState(st, s), NEW n, NEW a
    PROVE  SoundState(cli_login(st, n, a), s)
BY DEF SoundState, cli_login

LEMMA DropUserSound ==
    ASSUME NEW s \in Server, NEW st, SoundState(st, s), NEW user
    PROVE  SoundState(DropUser(st, user), s)
<1>1. \A c \in Channel : st.cset[c] # NULL
                            => SoundChannel(ChannelRemoveUser(st.cset[c], user), s)
  BY UsersLeaveChannelSound DEF SoundState, ChannelRemoveUser
<1> QED
  BY <1>1 DEF SoundState, DropUser, Exists

LEMMA LogoutSound ==
    ASSUME NEW s \in Server, NEW st, SoundState(st, s), NEW a
    PROVE  SoundState(cli_logout(st, a), s)
BY DropUserSound DEF cli_logout

LEMMA DropUsersSound ==
    ASSUME NEW s \in Server, NEW st, SoundState(st, s), NEW silent
    PROVE  SoundState(DropUsers(st, silent), s)
<1> DEFINE us(c) == DropSilent(st.cset[c].uset, st.uset.user_list, silent)
<1>1. \A c \in Channel : st.cset[c] # NULL
                            => SoundChannel([st.cset[c] EXCEPT !.uset = us(c)], s)
  BY UsersLeaveChannelSound DEF SoundState
<1>2. DropUsers(st, silent)
        = [uset |-> DropSilent(st.uset, st.uset.user_list, silent),
           cset |-> [c \in Channel |-> IF Exists(st, c) THEN [st.cset[c] EXCEPT !.uset = us(c)]
                                      ELSE NULL]]
  BY DEF DropUsers
<1> HIDE DEF us
<1> QED
  BY <1>1, <1>2 DEF SoundState, Exists

LEMMA JoinSound ==
    ASSUME NEW s \in Server, NEW st, SoundState(st, s), NEW a, NEW c \in Channel
    PROVE  SoundState(cli_join(st, a, c), s)
<1>1. SoundChannel(FoundOrNew(st, c), s)
  BY NewChannelSound DEF FoundOrNew, Exists, SoundState
<1>2. SoundChannel(ChannelAddUser(FoundOrNew(st, c), UserAt(st, a)), s)
  BY <1>1, UsersLeaveChannelSound DEF ChannelAddUser
<1> QED
  BY <1>2, SetChannelSound DEF cli_join

LEMMA LeaveSound ==
    ASSUME NEW s \in Server, NEW st, SoundState(st, s), NEW a, NEW c \in Channel
    PROVE  SoundState(cli_leave(st, a, c), s)
<1>1. CASE UserAt(st, a) = NULL \/ ~Exists(st, c)
  BY <1>1 DEF cli_leave
<1>2. CASE ~(UserAt(st, a) = NULL \/ ~Exists(st, c))
  <2>1. SoundChannel(ChannelRemoveUser(st.cset[c], UserAt(st, a)), s)
    BY <1>2, UsersLeaveChannelSound DEF ChannelRemoveUser, Exists, SoundState
  <2> QED
    BY <1>2, <2>1, SetChannelSound DEF cli_leave
<1> QED
  BY <1>1, <1>2

LEMMA ServerJoinSound ==
    ASSUME NEW s \in Server, NEW st, SoundState(st, s),
           NEW t \in Server, Linked(s, t), NEW c \in Channel
    PROVE  SoundState(s2s_join(st, t, c), s)
<1> DEFINE joined == IF ~Exists(st, c) THEN ChannelAddServer(NewChannel, t)
                     ELSE IF t \in st.cset[c].sset THEN server_heartbeat(st.cset[c], t)
                     ELSE server_heartbeat(ChannelAddServer(st.cset[c], t), t)
<1>1. CASE ~Exists(st, c)
  BY <1>1, NewChannelSound, AddServerSound, SetChannelSound DEF s2s_join
<1>2. CASE Exists(st, c)
  <2>1. SoundChannel(st.cset[c], s)
    BY <1>2 DEF Exists, SoundState
  <2>2. SoundChannel(joined, s)
    BY <1>2, <2>1, AddServerSound, HeartbeatSound
  <2> QED
    BY <2>2, SetChannelSound DEF s2s_join
<1> QED
  BY <1>1, <1>2

LEMMA ServerLeaveSound ==
    ASSUME NEW s \in Server, NEW st, SoundState(st, s), NEW t, NEW c \in Channel
    PROVE  SoundState(s2s_leave(st, t, c), s)
<1>1. CASE ~Exists(st, c)
  BY <1>1 DEF s2s_leave
<1>2. CASE Exists(st, c)
  <2>1. SoundChannel(ChannelRemoveServer(st.cset[c], t), s)
    BY <1>2, RemoveServerSound DEF Exists, SoundState
  <2> QED
    BY <1>2, <2>1, SetChannelSound DEF s2s_leave
<1> QED
  BY <1>1, <1>2

LEMMA DropServersSound ==
    ASSUME NEW s \in Server, NEW st, SoundState(st, s), NEW dead
    PROVE  SoundState(DropServers(st, dead), s)
<1> DEFINE left(c) == [st.cset[c] EXCEPT !.sset = @ \ dead[c],
                                         !.last_seen = @ \ dead[c]]
<1>1. \A c \in Channel : st.cset[c] # NULL => SoundChannel(left(c), s)
  <2> SUFFICES ASSUME NEW c \in Channel, st.cset[c] # NULL
               PROVE  SoundChannel(left(c), s)
    OBVIOUS
  <2> DEFINE ch == st.cset[c]
             rest == ch.sset \ dead[c]
  <2>1. SoundChannel(ch, s)
    BY DEF SoundState
  <2>2. left(c) = [ch EXCEPT !.sset = rest, !.last_seen = rest]
    BY <2>1 DEF SoundChannel
  <2>3. \A t \in rest : t \in Server /\ Linked(s, t)
    BY <2>1 DEF SoundChannel
  <2> HIDE DEF ch, rest, left
  <2> QED
    BY <2>1, <2>2, <2>3, SetRoutesSound
<1>2. DropServers(st, dead)
        = [st EXCEPT !.cset = [c \in Channel |-> IF Exists(st, c) THEN left(c) ELSE NULL]]
  BY DEF DropServers, SoundState
<1> HIDE DEF left
<1> QED
  BY <1>1, <1>2 DEF SoundState, Exists

LEMMA PrunedSound ==
    ASSUME NEW s \in Server, NEW st, SoundState(st, s)
    PROVE  SoundState(Pruned(st), s)
BY DEF SoundState, Pruned
-------------------------------------------------------------------------------
\* What a server sends.

LEMMA JoinsSound ==
    ASSUME NEW s \in Server, NEW c \in Channel, NEW targets, targets \subseteq Adj[s],
           NEW m \in Joins(s, targets, c)
    PROVE  SoundDatagram(m)
BY AdjIsAdjacency DEF Joins, Join, SoundDatagram

LEMMA LeavesSound ==
    ASSUME NEW s \in Server, NEW c \in Channel,
           NEW targets, \A t \in targets : t \in Server /\ Linked(s, t),
           NEW m \in Leaves(s, targets, c)
    PROVE  SoundDatagram(m)
BY DEF Leaves, Leave, SoundDatagram, Linked

LEMMA SaysSound ==
    ASSUME NEW s \in Server, NEW c \in Channel, NEW uid,
           NEW targets, \A t \in targets : t \in Server /\ Linked(s, t),
           NEW m \in Says(s, targets, c, uid)
    PROVE  SoundDatagram(m)
BY DEF Says, SayTo, SoundDatagram, Linked

LEMMA PruneLeavesSound ==
    ASSUME NEW s \in Server, NEW st, SoundState(st, s), NEW m \in PruneLeaves(s, st)
    PROVE  SoundDatagram(m)
<1>1. PICK c \in Prunable(st) : m \in Leaves(s, st.cset[c].sset, c)
  BY DEF PruneLeaves
<1>2. c \in Channel /\ \A t \in st.cset[c].sset : t \in Server /\ Linked(s, t)
  BY DEF Prunable, OpenChannels, Exists, SoundState, SoundChannel
<1> QED
  BY <1>1, <1>2, LeavesSound

\* The servers a channel is routed to.
LEMMA RoutesLinked ==
    ASSUME NEW s \in Server, NEW st, SoundState(st, s), NEW c \in Channel, Exists(st, c),
           NEW t \in st.cset[c].sset
    PROVE  t \in Server /\ Linked(s, t)
BY DEF SoundState, SoundChannel, Exists
-------------------------------------------------------------------------------
\* The two ways a step of a server can end.

LEMMA BecomeKeepsInv ==
    ASSUME Inv, NEW s \in Server, Up(s), NEW st, SoundState(st, s), Become(s, st),
           \A m \in net' : SoundDatagram(m)
    PROVE  Inv'
BY DEF Inv, Become, SoundFate, Up

LEMMA CrashKeepsInv ==
    ASSUME Inv, NEW s \in Server, NEW why, Crash(s, why),
           \/ why \in {"client", "s2s_say"}
           \/ why = "s2s_join" /\ \E t \in Server : s \in Adj[t] /\ t \notin Adj[s],
           \A m \in net' : SoundDatagram(m)
    PROVE  Inv'
<1>1. \A r \in Server : SoundState(srv'[r], r)
  BY NewStateSound DEF Inv, Crash
<1>2. \A r \in Server : SoundFate(r)'
  BY DEF Inv, Crash, SoundFate
<1> QED
  BY <1>1, <1>2 DEF Inv, Crash, Up

LEMMA NothingKeepsInv ==
    ASSUME Inv, UNCHANGED <<srv, fate>>, \A m \in net' : SoundDatagram(m)
    PROVE  Inv'
BY DEF Inv, SoundFate, Up
-------------------------------------------------------------------------------

LEMMA ClientKeepsInv == Inv /\ ClientRequest => Inv'
<1> SUFFICES ASSUME Inv, NEW a \in Addr,
                    \/ \E n \in Username : handle_login(n, a)
                    \/ handle_logout(a)
                    \/ handle_list(a)
                    \/ \E c \in Channel : \/ handle_join(a, c) \/ handle_leave(a, c)
                                          \/ handle_say(a, c) \/ handle_who(a, c)
             PROVE  Inv'
  BY DEF ClientRequest
<1> DEFINE s == Home[a]
<1>s. s \in Server /\ SoundState(srv[s], s)
  BY HomeIsServer DEF Inv
<1>n. \A m \in net : SoundDatagram(m)
  BY DEF Inv
<1> HIDE DEF s
<1>1. CASE \E n \in Username : handle_login(n, a)
  BY <1>1, <1>s, <1>n, LoginSound, BecomeKeepsInv DEF handle_login, s
<1>2. CASE handle_logout(a)
  <2> DEFINE st == cli_logout(srv[s], a)
  <2>1. SoundState(st, s) /\ SoundState(Pruned(st), s)
    BY <1>s, LogoutSound, PrunedSound
  <2>2. Up(s) /\ Become(s, Pruned(st)) /\ net' = net \cup PruneLeaves(s, st)
    BY <1>2 DEF handle_logout, s
  <2> HIDE DEF st
  <2> QED
    BY <2>1, <2>2, <1>s, <1>n, PruneLeavesSound, BecomeKeepsInv
<1>3. CASE handle_list(a)
  BY <1>3, <1>s, <1>n, CrashKeepsInv, NothingKeepsInv DEF handle_list, s
<1>4. ASSUME NEW c \in Channel, handle_join(a, c)
      PROVE  Inv'
  <2> DEFINE st == cli_join(srv[s], a, c)
  <2>1. SoundState(st, s)
    BY <1>s, JoinSound
  <2>2. Up(s) /\ Become(s, st) /\ net' = net \cup Joins(s, Adj[s], c)
    BY <1>4 DEF handle_join, s
  <2>3. \A m \in Joins(s, Adj[s], c) : SoundDatagram(m)
    BY <1>s, JoinsSound
  <2> HIDE DEF st
  <2> QED
    BY <2>1, <2>2, <2>3, <1>s, <1>n, BecomeKeepsInv
<1>5. ASSUME NEW c \in Channel, handle_leave(a, c)
      PROVE  Inv'
  <2>1. CASE NoChannelsFor(a)
    BY <2>1, <1>5, <1>s, <1>n, CrashKeepsInv DEF handle_leave, s
  <2>2. CASE ~NoChannelsFor(a)
    <3> DEFINE st == cli_leave(srv[s], a, c)
    <3>1. SoundState(st, s) /\ SoundState(Pruned(st), s)
      BY <1>s, LeaveSound, PrunedSound
    <3>2. Up(s) /\ Become(s, Pruned(st)) /\ net' = net \cup PruneLeaves(s, st)
      BY <2>2, <1>5 DEF handle_leave, s
    <3> HIDE DEF st
    <3> QED
      BY <3>1, <3>2, <1>s, <1>n, PruneLeavesSound, BecomeKeepsInv
  <2> QED
    BY <2>1, <2>2
<1>6. ASSUME NEW c \in Channel, handle_say(a, c)
      PROVE  Inv'
  <2>1. CASE NoUsersFor(a, c)
    BY <2>1, <1>6, <1>s, <1>n, CrashKeepsInv DEF handle_say, s
  <2>2. CASE ~NoUsersFor(a, c)
    <3>1. /\ net' = net \cup Says(s, srv[s].cset[c].sset, c, said')
          /\ UNCHANGED <<srv, fate>>
      BY <2>2, <1>6 DEF handle_say, s
    <3>2. \A t \in srv[s].cset[c].sset : t \in Server /\ Linked(s, t)
      BY <2>2, <1>s, RoutesLinked DEF NoUsersFor, s
    <3>3. \A m \in Says(s, srv[s].cset[c].sset, c, said') : SoundDatagram(m)
      BY <3>2, <1>s, SaysSound
    <3> QED
      BY <3>1, <3>3, <1>n, NothingKeepsInv
  <2> QED
    BY <2>1, <2>2
<1>7. ASSUME NEW c \in Channel, handle_who(a, c)
      PROVE  Inv'
  BY <1>7, <1>s, <1>n, CrashKeepsInv, NothingKeepsInv DEF handle_who, s
<1> QED
  BY <1>1, <1>2, <1>3, <1>4, <1>5, <1>6, <1>7

LEMMA ReceiveKeepsInv == Inv /\ (\E m \in net : Receive(m)) => Inv'
<1> SUFFICES ASSUME Inv, NEW m \in net, Receive(m)
             PROVE  Inv'
  OBVIOUS
<1> DEFINE s == m.dst
           c == m.channel
<1>s. s \in Server /\ c \in Channel /\ SoundState(srv[s], s)
  BY DEF Inv, SoundDatagram
<1>m. SoundDatagram(m)
  BY DEF Inv
<1>n. \A rest \in Remaining(m) : \A k \in rest : SoundDatagram(k)
  BY DEF Inv, Remaining
<1>1. CASE handle_s2s_join(m)
  <2>1. PICK rest \in Remaining(m) :
           \/ m.src \notin Adj[s] /\ Crash(s, "s2s_join") /\ net' = rest
           \/ /\ m.src \in Adj[s]
              /\ Become(s, s2s_join(srv[s], m.src, c))
              /\ net' = rest \cup IF Exists(srv[s], c) THEN {} ELSE Joins(s, Adj[s], c)
    BY <1>1 DEF handle_s2s_join
  <2>u. Up(s)
    BY <1>1 DEF handle_s2s_join, Arrived
  <2>2. CASE m.src \notin Adj[s]
    BY <2>1, <2>2, <1>s, <1>m, <1>n, CrashKeepsInv DEF SoundDatagram
  <2>3. CASE m.src \in Adj[s]
    <3>1. m.src \in Server /\ Linked(s, m.src)
      BY <2>3, <1>m DEF SoundDatagram, Linked
    <3>2. SoundState(s2s_join(srv[s], m.src, c), s)
      BY <3>1, <1>s, ServerJoinSound
    <3>3. \A k \in Joins(s, Adj[s], c) : SoundDatagram(k)
      BY <1>s, JoinsSound
    <3> QED
      BY <2>1, <2>3, <2>u, <3>2, <3>3, <1>s, <1>n, BecomeKeepsInv
  <2> QED
    BY <2>2, <2>3
<1>2. CASE handle_s2s_leave(m)
  <2>1. m.src \in Adj[s]
    BY <1>2, <1>m DEF handle_s2s_leave, Arrived, SoundDatagram
  <2>2. Up(s) /\ Become(s, s2s_leave(srv[s], m.src, c)) /\ net' \in Remaining(m)
    BY <1>2, <2>1 DEF handle_s2s_leave, Arrived
  <2>3. SoundState(s2s_leave(srv[s], m.src, c), s)
    BY <1>s, ServerLeaveSound
  <2> QED
    BY <2>2, <2>3, <1>s, <1>n, BecomeKeepsInv
<1>3. CASE handle_s2s_say(m)
  <2>1. m.src \in Server /\ Linked(s, m.src)
    BY <1>3, <1>m DEF handle_s2s_say, Arrived, SoundDatagram, Linked
  <2>2. PICK rest \in Remaining(m) :
           \/ ~Exists(srv[s], c) /\ Crash(s, "s2s_say") /\ net' = rest
           \/ net' = rest \cup Leaves(s, {m.src}, c) /\ UNCHANGED <<srv, fate>>
           \/ Exists(srv[s], c) /\ PassOn(m, rest)
    BY <1>3 DEF handle_s2s_say
  <2>u. Up(s)
    BY <1>3 DEF handle_s2s_say, Arrived
  <2>3. CASE ~Exists(srv[s], c) /\ Crash(s, "s2s_say") /\ net' = rest
    BY <2>3, <1>s, <1>n, CrashKeepsInv
  <2>4. CASE net' = rest \cup Leaves(s, {m.src}, c) /\ UNCHANGED <<srv, fate>>
    <3>1. \A k \in Leaves(s, {m.src}, c) : SoundDatagram(k)
      BY <2>1, <1>s, LeavesSound
    <3> QED
      BY <2>4, <3>1, <1>n, NothingKeepsInv
  <2>5. CASE Exists(srv[s], c) /\ PassOn(m, rest)
    <3> DEFINE others == srv[s].cset[c].sset \ {m.src}
    <3>1. /\ Become(s, Pruned(srv[s]))
          /\ net' = rest \cup Says(s, others, c, m.uid) \cup PruneLeaves(s, srv[s])
      BY <2>5 DEF PassOn
    <3>2. \A t \in others : t \in Server /\ Linked(s, t)
      BY <2>5, <1>s, RoutesLinked
    <3> HIDE DEF others
    <3>3. \A k \in Says(s, others, c, m.uid) : SoundDatagram(k)
      BY <3>2, <1>s, SaysSound
    <3>4. \A k \in PruneLeaves(s, srv[s]) : SoundDatagram(k)
      BY <1>s, PruneLeavesSound
    <3>5. \A k \in net' : SoundDatagram(k)
      BY <3>1, <3>3, <3>4, <1>n
    <3> QED
      BY <3>1, <3>5, <2>u, <1>s, PrunedSound, BecomeKeepsInv
  <2> QED
    BY <2>2, <2>3, <2>4, <2>5
<1>4. CASE Vanish(m)
  BY <1>4, NothingKeepsInv DEF Vanish, Inv
<1> QED
  BY <1>1, <1>2, <1>3, <1>4 DEF Receive

\* The timer loops, whatever they are told was silent.
LEMMA LoopsKeepInv ==
    ASSUME Inv, NEW s \in Server,
           \/ join_send_loop(s)
           \/ \E dead : server_timeout_loop(s, dead)
           \/ \E silent : user_timeout_loop(s, silent)
    PROVE  Inv'
<1>s. SoundState(srv[s], s)
  BY DEF Inv
<1>n. \A m \in net : SoundDatagram(m)
  BY DEF Inv
<1>1. CASE join_send_loop(s)
  <2>1. \A c \in Channel : Routes(srv[s], c) \subseteq Adj[s]
    BY <1>s, RoutesLinked DEF Routes, Linked
  <2>2. \A c \in Channel : \A m \in Joins(s, Routes(srv[s], c), c) : SoundDatagram(m)
    BY <2>1, JoinsSound
  <2> QED
    BY <1>1, <2>2, <1>n, NothingKeepsInv DEF join_send_loop
<1>2. ASSUME NEW dead, server_timeout_loop(s, dead)
      PROVE  Inv'
  <2>1. \A c \in OpenChannels(srv[s]) : ~get_dead_servers_throws(srv[s].cset[c])
    BY <1>s DEF OpenChannels, Exists, SoundState, SoundChannel, get_dead_servers_throws
  <2>2. Up(s) /\ Become(s, DropServers(srv[s], dead)) /\ UNCHANGED net
    BY <1>2, <2>1 DEF server_timeout_loop
  <2> QED
    BY <2>2, <1>s, <1>n, DropServersSound, BecomeKeepsInv
<1>3. ASSUME NEW silent, user_timeout_loop(s, silent)
      PROVE  Inv'
  <2>1. Up(s) /\ Become(s, DropUsers(srv[s], silent)) /\ UNCHANGED net
    BY <1>3 DEF user_timeout_loop
  <2> QED
    BY <2>1, <1>s, <1>n, DropUsersSound, BecomeKeepsInv
<1> QED
  BY <1>1, <1>2, <1>3

LEMMA InitInv == Init => Inv
BY NewStateSound DEF Init, Inv, SoundFate, Up

LEMMA NextKeepsInv == Inv /\ [Next]_vars => Inv'
<1> SUFFICES ASSUME Inv, [Next]_vars
             PROVE  Inv'
  OBVIOUS
<1>1. CASE TimerLoop
  BY <1>1, LoopsKeepInv DEF TimerLoop
<1>2. CASE UNCHANGED vars
  BY <1>2, NothingKeepsInv DEF vars, Inv
<1> QED
  BY <1>1, <1>2, ClientKeepsInv, ReceiveKeepsInv DEF Next

LEMMA InvAlways == Spec => []Inv
BY InitInv, NextKeepsInv, PTL DEF Spec

LEMMA InvGivesRoutes == Inv => RoutesAreSoftState
BY DEF Inv, SoundState, SoundChannel, Linked, RoutesAreSoftState, OpenChannels, Exists

LEMMA InvGivesSafety == Inv => ControlTrafficIsSafe
BY DEF Inv, SoundFate, ControlTrafficIsSafe

\* On every topology a channel is routed to adjacent servers only, each of which has a
\* last_seen time, so that the timeout loop never throws.
THEOREM RoutesStaySoft == Spec => []RoutesAreSoftState
BY InvAlways, InvGivesRoutes, PTL

\* On every topology, with any loss, reordering and duplication, the joins and leaves of
\* the servers and their timer loops end no process but that of a server that a
\* neighbour lists and that does not list it.
THEOREM ControlTrafficEndsNothing == Spec => []ControlTrafficIsSafe
BY InvAlways, InvGivesSafety, PTL
==============================================================================
