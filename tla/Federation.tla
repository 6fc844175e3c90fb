----------------------------- MODULE Federation -----------------------------
(***************************************************************************)
(* The distributed chat servers: the handlers (handlers.cxx), the three    *)
(* timer loops (server.cxx) and the datagrams the servers exchange.        *)
(*                                                                         *)
(* A server runs one handler or one round of a timer loop at a time, under *)
(* its lock, and each is one action here.  A handler that reads through a  *)
(* null pointer, or an exception nobody catches, ends the process: fate    *)
(* keeps what killed it, and nothing restarts it.                          *)
(*                                                                         *)
(* The network is the set of datagrams in flight, taken out in any order.  *)
(* A datagram that is never taken out is a lost one; DUPLICATES lets the   *)
(* network keep a copy of what it delivers.                                *)
(***************************************************************************)
EXTENDS DistState, Naturals

CONSTANTS
    Adj,           \* the servers on each one's command line
    Home,          \* the server a client was started for
    MAX_SAYS,      \* bound: messages the clients say in a behaviour
    MAX_MEMBERS,   \* bound: entries in the user list of a channel
    COPY_CAP,      \* bound: copies of a message a client is counted to get
    DUPLICATES,    \* may the network deliver a datagram twice?
    TIMEOUTS       \* may users and servers be found silent?

ASSUME AdjIsAdjacency == Adj \in [Server -> SUBSET Server]
ASSUME HomeIsServer == Home \in [Addr -> Server]
ASSUME UidsAreCounted == Uid = 1..MAX_SAYS
ASSUME BoundsAreNats == {MAX_SAYS, MAX_MEMBERS, COPY_CAP} \subseteq Nat

VARIABLES
    srv,      \* the State of each server
    fate,     \* "up", or what ended the server's process
    net,      \* the datagrams in flight between servers
    said,     \* how many messages were said, the last identifier given out
    copies    \* how many copies of each message each client was sent

vars == <<srv, fate, net, said, copies>>

Join(s, t, c)       == [type |-> "JOIN", src |-> s, dst |-> t, channel |-> c]
Leave(s, t, c)      == [type |-> "LEAVE", src |-> s, dst |-> t, channel |-> c]
SayTo(s, t, c, uid) == [type |-> "SAY", src |-> s, dst |-> t, channel |-> c, uid |-> uid]

Datagrams ==
    [type : {"JOIN", "LEAVE"}, src : Server, dst : Server, channel : Channel]
        \cup [type : {"SAY"}, src : Server, dst : Server, channel : Channel, uid : Uid]

Init ==
    /\ srv = [s \in Server |-> NewState]
    /\ fate = [s \in Server |-> "up"]
    /\ net = {}
    /\ said = 0
    /\ copies = [uid \in Uid |-> [a \in Addr |-> 0]]

Up(s) == fate[s] = "up"

\* The process of s ends, and its memory is gone.
Crash(s, why) ==
    /\ fate' = [fate EXCEPT ![s] = why]
    /\ srv' = [srv EXCEPT ![s] = NewState]

Become(s, st) ==
    /\ srv' = [srv EXCEPT ![s] = st]
    /\ UNCHANGED fate

\* broadcast_s2s_join, broadcast_s2s_say, broadcast_s2s_leave
Joins(s, targets, c)     == {Join(s, t, c) : t \in targets}
Says(s, targets, c, uid) == {SayTo(s, t, c, uid) : t \in targets}
\* Fault: a leave is sent to the channel, about the server.
FaultSwapsLeave(s, targets, c) == {Leave(s, c, t) : t \in targets}

Leaves(s, targets, c) == {Leave(s, t, c) : t \in targets}

\* Fault: every adjacent server is told, not those the channel is routed to.
FaultLeavesAllAdjacent(s, st) == UNION {Leaves(s, Adj[s], c) : c \in Prunable(st)}

\* What channel_pruning_procedure sends before it deletes the channels.
PruneLeaves(s, st) == UNION {Leaves(s, st.cset[c].sset, c) : c \in Prunable(st)}

\* broadcast_say to every entry of a channel's user list.
SentTo(us, a) == Cardinality({i \in 1..Len(us.user_list) : us.user_list[i].addr = a})

CountCopies(uid, us) ==
    copies' = [copies EXCEPT ![uid] =
        [a \in Addr |-> IF @[a] + SentTo(us, a) < COPY_CAP THEN @[a] + SentTo(us, a)
                        ELSE COPY_CAP]]
-------------------------------------------------------------------------------
\* Requests of clients; a is the client's address, and s the server it talks to.

handle_login(n, a) ==
    LET s == Home[a] IN
    /\ Up(s)
    /\ Become(s, cli_login(srv[s], n, a))
    /\ UNCHANGED <<net, said, copies>>

handle_logout(a) ==
    LET s  == Home[a]
        st == cli_logout(srv[s], a)
    IN
    /\ Up(s)
    /\ Become(s, Pruned(st))
    /\ net' = net \cup PruneLeaves(s, st)
    /\ UNCHANGED <<said, copies>>

\* Every adjacent server is told, whether or not the client is logged in.
handle_join(a, c) ==
    LET s  == Home[a]
        st == cli_join(srv[s], a, c)
    IN
    /\ Up(s)
    /\ Exists(st, c) => Len(st.cset[c].uset.user_list) <= MAX_MEMBERS
    /\ Become(s, st)
    /\ net' = net \cup Joins(s, Adj[s], c)
    /\ UNCHANGED <<said, copies>>

\* cli_get_channels answers NULL to a client that is not logged in.
NoChannelsFor(a) == UserAt(srv[Home[a]], a) = NULL

\* The pruning goes over what cli_get_channels answered.
handle_leave(a, c) ==
    LET s  == Home[a]
        st == cli_leave(srv[s], a, c)
    IN
    /\ Up(s)
    /\ \/ /\ NoChannelsFor(a)
          /\ Crash(s, "client")
          /\ UNCHANGED net
       \/ /\ ~NoChannelsFor(a)
          /\ Become(s, Pruned(st))
          /\ net' = net \cup PruneLeaves(s, st)
    /\ UNCHANGED <<said, copies>>

\* cli_get_channel_users answers NULL to a client that is not logged in, or for
\* a channel the server does not have.
NoUsersFor(a, c) == UserAt(srv[Home[a]], a) = NULL \/ ~Exists(srv[Home[a]], c)

handle_say(a, c) ==
    LET s == Home[a] IN
    /\ Up(s)
    /\ \/ /\ NoUsersFor(a, c)
          /\ Crash(s, "client")
          /\ UNCHANGED <<net, said, copies>>
       \/ /\ ~NoUsersFor(a, c)
          /\ said < MAX_SAYS
          /\ said' = said + 1
          /\ CountCopies(said', srv[s].cset[c].uset)
          /\ net' = net \cup Says(s, srv[s].cset[c].sset, c, said')
          /\ UNCHANGED <<srv, fate>>

\* The answers to list and who are not kept: the client alone reads them.
handle_list(a) ==
    LET s == Home[a] IN
    /\ Up(s)
    /\ IF NoChannelsFor(a) THEN Crash(s, "client") ELSE UNCHANGED <<srv, fate>>
    /\ UNCHANGED <<net, said, copies>>

handle_who(a, c) ==
    LET s == Home[a] IN
    /\ Up(s)
    /\ IF NoUsersFor(a, c) THEN Crash(s, "client") ELSE UNCHANGED <<srv, fate>>
    /\ UNCHANGED <<net, said, copies>>
-------------------------------------------------------------------------------
\* Datagrams of other servers.

Remaining(m) == IF DUPLICATES THEN {net, net \ {m}} ELSE {net \ {m}}

Arrived(m, type) == m \in net /\ m.type = type /\ Up(m.dst)

\* A join that makes the channel is passed on to every adjacent server.
handle_s2s_join(m) ==
    LET s == m.dst IN
    /\ Arrived(m, "JOIN")
    /\ \E rest \in Remaining(m) :
       \/ /\ m.src \notin Adj[s]
          /\ Crash(s, "s2s_join")
          /\ net' = rest
       \/ /\ m.src \in Adj[s]
          /\ Become(s, s2s_join(srv[s], m.src, m.channel))
          /\ net' = rest \cup IF Exists(srv[s], m.channel) THEN {}
                              ELSE Joins(s, Adj[s], m.channel)
    /\ UNCHANGED <<said, copies>>

handle_s2s_leave(m) ==
    LET s == m.dst IN
    /\ Arrived(m, "LEAVE")
    /\ net' \in Remaining(m)
    /\ IF m.src \in Adj[s] THEN Become(s, s2s_leave(srv[s], m.src, m.channel))
       ELSE Crash(s, "s2s_leave")
    /\ UNCHANGED <<said, copies>>

\* Fault: the message goes back to the server it came from as well.
FaultPassesBack(m, rest) ==
    LET s == m.dst
        c == m.channel
    IN
    /\ net' = rest \cup Says(s, srv[s].cset[c].sset, c, m.uid) \cup PruneLeaves(s, srv[s])
    /\ CountCopies(m.uid, srv[s].cset[c].uset)
    /\ Become(s, Pruned(srv[s]))

\* The message goes on to the other servers of the channel and to its users,
\* and then the server looks for channels to prune.
PassOn(m, rest) ==
    LET s == m.dst
        c == m.channel
    IN
    /\ net' = rest \cup Says(s, srv[s].cset[c].sset \ {m.src}, c, m.uid)
                   \cup PruneLeaves(s, srv[s])
    /\ CountCopies(m.uid, srv[s].cset[c].uset)
    /\ Become(s, Pruned(srv[s]))

handle_s2s_say(m) ==
    LET s == m.dst IN
    /\ Arrived(m, "SAY")
    /\ \E rest \in Remaining(m) :
       \/ /\ ~Exists(srv[s], m.channel)
          /\ Crash(s, "s2s_say")
          /\ net' = rest
          /\ UNCHANGED copies
       \/ /\ Exists(srv[s], m.channel)
          /\ IF channel_already_got_message(srv[s], m.channel, m.uid)
             THEN /\ net' = rest \cup Leaves(s, {m.src}, m.channel)
                  /\ UNCHANGED <<srv, fate, copies>>
             ELSE PassOn(m, rest)
    /\ UNCHANGED said

\* A datagram for a server whose process has ended.
Vanish(m) ==
    /\ m \in net
    /\ ~Up(m.dst)
    /\ net' = net \ {m}
    /\ UNCHANGED <<srv, fate, said, copies>>
-------------------------------------------------------------------------------
\* The timer loops.

\* The servers that were not heard of for JOIN_TIMEOUT leave a channel: dead[c] of
\* channel c.
server_timeout_loop(s, dead) ==
    /\ Up(s)
    /\ IF \E c \in OpenChannels(srv[s]) : get_dead_servers_throws(srv[s].cset[c])
       THEN Crash(s, "last_seen")
       ELSE Become(s, DropServers(srv[s], dead))
    /\ UNCHANGED <<net, said, copies>>

\* The channels are announced to the servers they are already routed to.
join_send_loop(s) ==
    /\ Up(s)
    /\ net' = net \cup UNION {Joins(s, Routes(srv[s], c), c) : c \in Channel}
    /\ UNCHANGED <<srv, fate, said, copies>>

\* The users that were not heard of for USER_TIMEOUT_LIMIT are removed, and no
\* channel is pruned for it.
user_timeout_loop(s, silent) ==
    /\ Up(s)
    /\ Become(s, DropUsers(srv[s], silent))
    /\ UNCHANGED <<net, said, copies>>

ClientRequest ==
    \E a \in Addr :
        \/ \E n \in Username : handle_login(n, a)
        \/ handle_logout(a)
        \/ handle_list(a)
        \/ \E c \in Channel :
              handle_join(a, c) \/ handle_leave(a, c) \/ handle_say(a, c) \/ handle_who(a, c)

Receive(m) == handle_s2s_join(m) \/ handle_s2s_leave(m) \/ handle_s2s_say(m) \/ Vanish(m)

\* Any servers of a channel, and any users, may have been silent for that long.
TimerLoop ==
    \E s \in Server :
        \/ join_send_loop(s)
        \/ TIMEOUTS /\ \E dead \in [Channel -> SUBSET Adj[s]] : server_timeout_loop(s, dead)
        \/ TIMEOUTS /\ \E silent \in SUBSET Users(srv[s].uset) : user_timeout_loop(s, silent)

Next == ClientRequest \/ (\E m \in net : Receive(m)) \/ TimerLoop

Spec == Init /\ [][Next]_vars
-------------------------------------------------------------------------------
\* Topologies, and clients that keep to their own names and addresses.

\* Both servers have the other on their command line.
Linked(s, t) == t \in Adj[s] /\ s \in Adj[t]

\* The servers that s exchanges messages with.
Neighbours(s) == {t \in Server : Linked(s, t)}

\* The servers that can be reached from s through its neighbour t, without coming back
\* to s: those of every set that has t and is closed under the links, but for s.
Beyond(s, t) ==
    {x \in Server : \A S \in SUBSET Server :
        (t \in S /\ \A y \in S : Neighbours(y) \ {s} \subseteq S) => x \in S}

\* No server is its own neighbour, and none is reached through two of its neighbours.
Forest ==
    \A s \in Server : \A t, r \in Neighbours(s) :
        s # t /\ (t # r => r \notin Beyond(s, t))

\* The users that a login of u displaces: those with its name or its address, but for
\* the very session it asks for.
Displaced(us, u) == {w \in Users(us) : w # u /\ (w.name = u.name \/ w.addr = u.addr)}

TakesOver ==
    \E n \in Username, a \in Addr :
        handle_login(n, a) /\ Displaced(srv[Home[a]].uset, NewUser(n, a)) # {}

\* Of behaviours: no client takes over a name or an address that is in use.
NoTakeover == [][~TakesOver]_vars
-------------------------------------------------------------------------------
\* Properties.

\* Type correctness of the servers and the network.
TypeOK ==
    /\ \A s \in Server : /\ srv[s].uset \in UserSets
                         /\ \A c \in OpenChannels(srv[s]) : srv[s].cset[c] \in Channels
    /\ fate \in [Server -> {"up", "client", "s2s_join", "s2s_leave", "s2s_say", "last_seen"}]
    /\ net \subseteq Datagrams
    /\ said \in 0..MAX_SAYS
    /\ copies \in [Uid -> [Addr -> 0..COPY_CAP]]

\* The list of a server's logged in users and its two indexes agree entirely: a
\* name and an address have one session at most, and every lookup finds it.
StateUsersAgree ==
    \A s \in Server : IndexesSound(srv[s].uset) /\ IndexesComplete(srv[s].uset)

\* The user set of a channel is only sound: what an index leads to is on the
\* list.  (It is not complete: see ChannelUsersLoggedIn.)
ChannelIndexesSound ==
    \A s \in Server : \A c \in OpenChannels(srv[s]) : IndexesSound(srv[s].cset[c].uset)

\* Routes are soft state: a channel is routed to adjacent servers only, and each
\* of these has a last_seen time, or the timeout loop would throw.
RoutesAreSoftState ==
    \A s \in Server : \A c \in OpenChannels(srv[s]) :
        /\ srv[s].cset[c].sset \subseteq Adj[s]
        /\ srv[s].cset[c].sset = srv[s].cset[c].last_seen

\* The joins and leaves of the servers and the timer loops end no process, in
\* any order of delivery and any number of copies, but that of a server that is
\* on the command line of another and does not have it on its own: this one ends
\* on the first join, and takes none of its neighbours with it.
ControlTrafficIsSafe ==
    \A s \in Server :
        /\ fate[s] \notin {"s2s_leave", "last_seen"}
        /\ fate[s] = "s2s_join" => \E t \in Server : s \in Adj[t] /\ t \notin Adj[s]

\* A client is sent a message once at most, however joins, leaves, timeouts and
\* the relaying servers change the routes while it travels.  (On a Forest, with
\* NoTakeover and without DUPLICATES: not on a cycle, nor after a takeover.)
AtMostOnce == \A uid \in Uid, a \in Addr : copies[uid][a] <= 1

\* state.h: "USER MUST BE REMOVED FROM ALL CHANNELS PRIOR TO RUNNING THIS FROM
\* STATE", of the removal of a user from the logged in users: every user on a
\* channel is logged in.
ChannelUsersLoggedIn ==
    \A s \in Server : \A c \in OpenChannels(srv[s]) :
        Users(srv[s].cset[c].uset) \subseteq Users(srv[s].uset)

\* A message does not travel for ever: its last copy is consumed.
SayDrains ==
    \A uid \in Uid : (\E m \in net : m.type = "SAY" /\ m.uid = uid)
                        ~> ~(\E m \in net : m.type = "SAY" /\ m.uid = uid)
==============================================================================
