------------------------------ MODULE DistState ------------------------------
(***************************************************************************)
(* The state of one distributed server (state.cxx): its logged in users    *)
(* and its channels, and what the handlers do to them.  Everything here is *)
(* a function of a state; Federation makes actions of them.                *)
(*                                                                         *)
(* A channel has the local users on it and the adjacent servers its        *)
(* messages are routed to, with the servers that have a last_seen time.    *)
(* The times themselves are not kept: Federation lets any server time out. *)
(***************************************************************************)
EXTENDS UserSet

CONSTANTS Server, Channel,
          Uid                   \* identifiers of messages between servers

ASSUME NullIsNoState == NULL \notin Server

\* Channel::Channel
NewChannel == [uset |-> EmptyUserSet, sset |-> {}, last_seen |-> {}, uid_set |-> {}]

Channels == [uset : UserSets, sset : SUBSET Server, last_seen : SUBSET Server,
             uid_set : SUBSET Uid]

\* A server that has just started.
NewState == [uset |-> EmptyUserSet, cset |-> [c \in Channel |-> NULL]]

States == [uset : UserSets, cset : [Channel -> Channels \cup {NULL}]]

UserAt(st, a) == st.uset.user_ip_map[a]

Exists(st, c) == st.cset[c] # NULL

OpenChannels(st) == {c \in Channel : Exists(st, c)}

\* The servers messages on a channel are passed on to.
Routes(st, c) == IF Exists(st, c) THEN st.cset[c].sset ELSE {}

\* The channel a join finds or makes.
FoundOrNew(st, c) == IF Exists(st, c) THEN st.cset[c] ELSE NewChannel
-------------------------------------------------------------------------------
\* Channel

ChannelAddUser(ch, u) ==
    [ch EXCEPT !.uset = AddUser(RemoveByAddr(RemoveByName(@, u.name), u.addr), u)]

ChannelRemoveUser(ch, u) == [ch EXCEPT !.uset = EraseUser(@, u)]

\* ServerSet: add_server removes an equal address first, so that it is a set.
remove_server(sset, t) == sset \ {t}
add_server(sset, t)    == remove_server(sset, t) \cup {t}

ChannelRemoveServer(ch, t) ==
    [ch EXCEPT !.sset = remove_server(@, t), !.last_seen = @ \ {t}]

\* Fault: the server is added without a time.
FaultAddsNoTime(ch, t) ==
    [ChannelRemoveServer(ch, t) EXCEPT !.sset = add_server(@, t)]

ChannelAddServer(ch, t) ==
    [ChannelRemoveServer(ch, t) EXCEPT !.sset = add_server(@, t),
                                       !.last_seen = @ \cup {t}]

\* get_dead_servers throws at a server that has no time.
get_dead_servers_throws(ch) == ~ ch.sset \subseteq ch.last_seen

server_heartbeat(ch, t) ==
    IF t \in ch.sset THEN [ch EXCEPT !.last_seen = @ \cup {t}] ELSE ch

should_prune(ch) == ch.uset.user_list = <<>> /\ \A t, r \in ch.sset : t = r
-------------------------------------------------------------------------------
\* State

cli_login(st, n, a) == [st EXCEPT !.uset = AddUser(@, NewUser(n, a))]

\* Fault: the user stays on its channels.
FaultStaysOnChannels(st, u) == [st EXCEPT !.uset = EraseUser(@, u)]

\* State::remove_user
DropUser(st, u) ==
    [uset |-> EraseUser(st.uset, u),
     cset |-> [c \in Channel |-> IF Exists(st, c) THEN ChannelRemoveUser(st.cset[c], u)
                                 ELSE NULL]]

cli_logout(st, a) == IF UserAt(st, a) = NULL THEN st ELSE DropUser(st, UserAt(st, a))

cli_join(st, a, c) ==
    IF UserAt(st, a) = NULL THEN st
    ELSE [st EXCEPT !.cset[c] = ChannelAddUser(FoundOrNew(st, c), UserAt(st, a))]

cli_leave(st, a, c) ==
    IF UserAt(st, a) = NULL \/ ~Exists(st, c) THEN st
    ELSE [st EXCEPT !.cset[c] = ChannelRemoveUser(@, UserAt(st, a))]

\* The join of an adjacent server; the new state alone.
s2s_join(st, t, c) ==
    [st EXCEPT !.cset[c] =
        IF ~Exists(st, c) THEN ChannelAddServer(NewChannel, t)
        ELSE IF t \in st.cset[c].sset THEN server_heartbeat(st.cset[c], t)
        ELSE server_heartbeat(ChannelAddServer(st.cset[c], t), t)]

s2s_leave(st, t, c) ==
    IF ~Exists(st, c) THEN st ELSE [st EXCEPT !.cset[c] = ChannelRemoveServer(@, t)]

channel_already_got_message(st, c, uid) == Exists(st, c) /\ uid \in st.cset[c].uid_set

\* remove_user of each silent user, in the order of the list.
DropSilent(us, users, silent) ==
    FoldLeft(LAMBDA left, u : IF u \in silent THEN EraseUser(left, u) ELSE left, us, users)

\* The scan of the logged in users; no removal depends on another's.
DropUsers(st, silent) ==
    [uset |-> DropSilent(st.uset, st.uset.user_list, silent),
     cset |-> [c \in Channel |->
         IF Exists(st, c)
         THEN [st.cset[c] EXCEPT !.uset = DropSilent(@, st.uset.user_list, silent)]
         ELSE NULL]]

\* server_timeout_loop: the servers dead[c] leave channel c, which stays.
DropServers(st, dead) ==
    [st EXCEPT !.cset = [c \in Channel |->
        IF Exists(st, c) THEN [st.cset[c] EXCEPT !.sset = @ \ dead[c],
                                                 !.last_seen = @ \ dead[c]]
        ELSE NULL]]

\* channel_pruning_procedure
Prunable(st) == {c \in OpenChannels(st) : should_prune(st.cset[c])}

Pruned(st) == [st EXCEPT !.cset = [c \in Channel |->
                                      IF c \in Prunable(st) THEN NULL ELSE @[c]]]
==============================================================================
