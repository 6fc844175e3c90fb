------------------------------ MODULE ChatServer ------------------------------
(***************************************************************************)
(* The single chat server: its tables (state.c), the request handlers      *)
(* (server_helpers.h) and the two threads that run them (server.c).        *)
(*                                                                         *)
(* The server loop takes one datagram at a time, locks the state, handles  *)
(* the request and unlocks; the cleanup loop sleeps, locks the state, and  *)
(* walks a snapshot of the user list removing whoever has been silent.     *)
(* Both threads share one mutex.  A request is one action, for it only     *)
(* waits for the lock; the cleanup scan is a step per user, so that the    *)
(* lock is what keeps a request out of it.                                 *)
(*                                                                         *)
(* A user record is a cell of the heap, and the list and the two indexes   *)
(* hold pointers to it: a freed cell holds NULL, so that a pointer to it   *)
(* that is still in a table is a dangling one.  Lists are sets: entries    *)
(* are only added with ll_idempotent_add and nothing reads their order.    *)
(***************************************************************************)
EXTENDS ChatProto, Naturals, FiniteSets

CONSTANTS
    Username, IpPort, Channel,  \* the names and client addresses in use
    UserPtr,                    \* the heap cells malloc can return
    NULL,
    TIMEOUT,                    \* a user silent for longer is removed
    SCAN_INTERVAL,              \* the sleep of the cleanup loop
    SCAN_DELAY,                 \* most a due scan waits for its turn and the lock
    GARBAGE                     \* what a count that nobody set may hold

ASSUME TimesAreNat == TIMEOUT \in Nat /\ SCAN_INTERVAL \in Nat /\ SCAN_DELAY \in Nat

ASSUME GarbageIsNat == GARBAGE \subseteq Nat /\ GARBAGE # {}

\* struct user; idle is the time since last_seen
User == [username : Username, ip_port : IpPort, idle : Nat]

ASSUME NullIsNothing ==
    /\ NULL \notin UserPtr
    /\ NULL \notin IpPort
    /\ NULL \notin User
    /\ \A names \in SUBSET Username : NULL # names

VARIABLES
    data,      \* user_list, user_by_ip, user_by_username and the heap
    channels,  \* channel_user_lists: the names on a channel, NULL if it has no entry
    lock,      \* who holds data->lock between two actions
    scan,      \* the users the running scan has still to look at
    asleep,    \* time since the last scan
    crashed,   \* the process has died of a wild read
    out        \* the datagrams sent by the latest request

tables  == <<data, channels>>
cleanup == <<lock, scan, asleep>>
vars    == <<data, channels, lock, scan, asleep, crashed, out>>
-------------------------------------------------------------------------------
\* The tables of struct state that hold users.

UserTables == [user_list        : SUBSET UserPtr,
               user_by_ip       : [IpPort -> UserPtr \cup {NULL}],
               user_by_username : [Username -> UserPtr \cup {NULL}],
               heap             : [UserPtr -> User \cup {NULL}]]

alloc_state == [user_list        |-> {},
                user_by_ip       |-> [a \in IpPort |-> NULL],
                user_by_username |-> [n \in Username |-> NULL],
                heap             |-> [p \in UserPtr |-> NULL]]

user_compare(h, p, q) == h[p].username = h[q].username /\ h[p].ip_port = h[q].ip_port

\* The list entries equal to u by value: the list never compares pointers.
ll_equal(d, u) == {p \in d.user_list : user_compare(d.heap, p, u)}

ll_idempotent_add(d, u) ==
    IF ll_equal(d, u) # {} THEN d ELSE [d EXCEPT !.user_list = @ \cup {u}]

\* Unlinks and frees the entry that equals u, whether or not it is u.
ll_idempotent_remove(d, u) ==
    IF ll_equal(d, u) = {} THEN d
    ELSE LET p == CHOOSE q \in ll_equal(d, u) : TRUE
         IN  [d EXCEPT !.user_list = @ \ {p}, !.heap[p] = NULL]

RemoveFromIndexes(d, u) ==
    [d EXCEPT !.user_by_username[d.heap[u].username] = NULL,
              !.user_by_ip[d.heap[u].ip_port] = NULL]

\* idempotent_remove_user, given the pointer its lookup found
RemoveUser(d, u) ==
    IF u = NULL THEN d ELSE ll_idempotent_remove(RemoveFromIndexes(d, u), u)

RemoveByUsername(d, n) == RemoveUser(d, d.user_by_username[n])
RemoveByIp(d, a)       == RemoveUser(d, d.user_by_ip[a])

\* The tail of idempotent_add_user: fill the cell u, then enter it in the list
\* and in both indexes.
EnterUser(d, u, n, a) ==
    LET filled == [d EXCEPT !.heap[u] = [username |-> n, ip_port |-> a, idle |-> 0]]
    IN  [ll_idempotent_add(filled, u) EXCEPT !.user_by_ip[a] = u,
                                             !.user_by_username[n] = u]

\* Fault: the earlier session from that address is not ended.
FaultAddKeepsAddress(d, n, a) ==
    LET cleared == RemoveByUsername(d, n)
    IN  {EnterUser(cleared, u, n, a) : u \in {p \in UserPtr : cleared.heap[p] = NULL}}

\* idempotent_add_user, one outcome for each cell malloc may return
idempotent_add_user(d, n, a) ==
    LET cleared == RemoveByIp(RemoveByUsername(d, n), a)
    IN  {EnterUser(cleared, u, n, a) : u \in {p \in UserPtr : cleared.heap[p] = NULL}}

update_last_seen(d, u) == IF u = NULL THEN d ELSE [d EXCEPT !.heap[u].idle = 0]

\* What the caller of list_users may find in the count it passed: toArray sets
\* it for a list that is not empty, and leaves it as it was otherwise.
list_users_count(d) ==
    IF d.user_list = {} THEN GARBAGE ELSE {Cardinality(d.user_list)}

\* Going over count entries of the array list_users returned, which for an empty
\* list is no array at all.
WalkUsers ==
    \E count \in list_users_count(data) :
        \/ count <= Cardinality(data.user_list) /\ UNCHANGED crashed
        \/ count > Cardinality(data.user_list) /\ crashed' = TRUE
-------------------------------------------------------------------------------
\* The channel map.

InChannel(ch, c) == IF ch[c] = NULL THEN {} ELSE ch[c]

\* Fault: the channel's own name is put on its list.
FaultAddsChannelName(ch, c, n) == [ch EXCEPT ![c] = InChannel(ch, c) \cup {c}]

idempotent_channel_add_user(ch, c, n) == [ch EXCEPT ![c] = InChannel(ch, c) \cup {n}]

\* Fault: the channel stays when its last user has left.
FaultKeepsEmptyChannel(ch, c, n) ==
    IF ch[c] = NULL THEN ch ELSE [ch EXCEPT ![c] = ch[c] \ {n}]

\* idempotent_channel_remove_user, then idempotent_remove_channel_if_empty
LeaveChannel(ch, c, n) ==
    IF ch[c] = NULL THEN ch
    ELSE [ch EXCEPT ![c] = IF ch[c] \ {n} = {} THEN NULL ELSE ch[c] \ {n}]

get_channel_list(ch) == {c \in Channel : ch[c] # NULL}
-------------------------------------------------------------------------------
Init ==
    /\ data = alloc_state
    /\ channels = [c \in Channel |-> NULL]
    /\ lock = "free"
    /\ scan = {}
    /\ asleep = 0
    /\ crashed = FALSE
    /\ out = {}

\* Fault: the handler runs without the lock.
FaultHandlingUnlocked == ~crashed

\* The server loop got a valid datagram and the lock.
Handling == ~crashed /\ lock = "free"

NotLoggedIn(a) == data.user_by_ip[a] = NULL
UserOf(a)      == data.heap[data.user_by_ip[a]]

\* The request comes from a logged in client and refreshes its last_seen.
Refresh(a) ==
    /\ ~NotLoggedIn(a)
    /\ data' = update_last_seen(data, data.user_by_username[UserOf(a).username])

handle_login(n, a) ==
    /\ Handling
    /\ data' \in idempotent_add_user(data, n, a)
    /\ out' = {}
    /\ UNCHANGED <<channels, cleanup, crashed>>

handle_logout(a) ==
    /\ Handling
    /\ data' = RemoveByIp(data, a)
    /\ out' = {}
    /\ UNCHANGED <<channels, cleanup, crashed>>

\* A join or a leave of a client that is not logged in is refused, and then the
\* users that are logged in are listed on the server's terminal.
RefuseAndList(a) ==
    /\ Handling
    /\ NotLoggedIn(a)
    /\ out' = {TextError(a, "not_logged_in")}
    /\ WalkUsers
    /\ UNCHANGED <<tables, cleanup>>

handle_request_join(a, c) ==
    \/ RefuseAndList(a)
    \/ /\ Handling
       /\ Refresh(a)
       /\ channels' = idempotent_channel_add_user(channels, c, UserOf(a).username)
       /\ out' = {}
       /\ UNCHANGED <<cleanup, crashed>>

handle_request_leave(a, c) ==
    \/ RefuseAndList(a)
    \/ /\ Handling
       /\ Refresh(a)
       /\ channels' = LeaveChannel(channels, c, UserOf(a).username)
       /\ out' = {}
       /\ UNCHANGED <<cleanup, crashed>>

\* Fault: the speaker is left out.
FaultSkipsSpeaker(n, c) ==
    {TextSay(data.heap[data.user_by_username[m]].ip_port, c, n) :
        m \in {k \in channels[c] : k # n /\ data.user_by_username[k] # NULL}}

\* One datagram for each name on the channel whose user is logged in.
SayToChannel(n, c) ==
    {TextSay(data.heap[data.user_by_username[m]].ip_port, c, n) :
        m \in {k \in channels[c] : data.user_by_username[k] # NULL}}

handle_request_say(a, c) ==
    /\ Handling
    /\ \/ /\ NotLoggedIn(a)
          /\ out' = {TextError(a, "not_logged_in")}
          /\ UNCHANGED data
       \/ /\ Refresh(a)
          /\ LET n == UserOf(a).username
             IN  out' = IF channels[c] = NULL THEN {TextError(a, "no_channel")}
                        ELSE IF n \notin channels[c] THEN {TextError(a, "not_member")}
                        ELSE SayToChannel(n, c)
    /\ UNCHANGED <<channels, cleanup, crashed>>

\* keyArray returns no array when the map is empty, which is taken for an error.
handle_request_list(a) ==
    /\ Handling
    /\ data' = update_last_seen(data, data.user_by_ip[a])
    /\ out' = IF get_channel_list(channels) = {} THEN {TextError(a, "no_list")}
              ELSE {TextList(a, get_channel_list(channels))}
    /\ UNCHANGED <<channels, cleanup, crashed>>

handle_request_who(a, c) ==
    /\ Handling
    /\ data' = update_last_seen(data, data.user_by_ip[a])
    /\ out' = IF channels[c] = NULL THEN {TextError(a, "no_channel")}
              ELSE IF channels[c] = {} THEN {TextError(a, "internal")}
              ELSE {TextWho(a, c, channels[c])}
    /\ UNCHANGED <<channels, cleanup, crashed>>

handle_request_keep_alive(a) ==
    /\ Handling
    /\ data' = update_last_seen(data, data.user_by_ip[a])
    /\ out' = {}
    /\ UNCHANGED <<channels, cleanup, crashed>>

\* A datagram that recvfrom or test_valid rejects is answered without the lock.
bubble_up_error(a) ==
    /\ ~crashed
    /\ out' = {TextError(a, "bad_packet")}
    /\ UNCHANGED <<tables, cleanup, crashed>>
-------------------------------------------------------------------------------
\* cleanup_loop and scan_and_remove_inactive_users

ScanBegin ==
    /\ ~crashed
    /\ lock = "free"
    /\ asleep >= SCAN_INTERVAL
    /\ lock' = "cleanup"
    /\ scan' = data.user_list
    /\ WalkUsers
    /\ UNCHANGED <<tables, asleep, out>>

Scanning(p) ==
    /\ ~crashed
    /\ lock = "cleanup"
    /\ p \in scan
    /\ scan' = scan \ {p}
    /\ UNCHANGED <<channels, lock, asleep, crashed, out>>

\* Fault: a user may be passed over one unit too late.
FaultKeepsTooLong(p) ==
    /\ Scanning(p)
    /\ data.heap[p].idle <= TIMEOUT + 1
    /\ UNCHANGED data

ScanKeepUser(p) ==
    /\ Scanning(p)
    /\ data.heap[p].idle <= TIMEOUT
    /\ UNCHANGED data

\* Fault: a user is removed one unit too early.
FaultRemovesTooEarly(p) ==
    /\ Scanning(p)
    /\ data.heap[p].idle >= TIMEOUT
    /\ data' = RemoveByUsername(data, data.heap[p].username)

ScanRemoveUser(p) ==
    /\ Scanning(p)
    /\ data.heap[p].idle > TIMEOUT
    /\ data' = RemoveByUsername(data, data.heap[p].username)

\* Fault: the lock is not given back.
FaultNeverUnlocks ==
    /\ ~crashed
    /\ lock = "cleanup"
    /\ scan = {}
    /\ asleep' = 0
    /\ UNCHANGED <<tables, lock, scan, crashed, out>>

ScanEnd ==
    /\ ~crashed
    /\ lock = "cleanup"
    /\ scan = {}
    /\ lock' = "free"
    /\ asleep' = 0
    /\ UNCHANGED <<tables, scan, crashed, out>>

Aged(d) == [d EXCEPT !.heap =
               [p \in UserPtr |-> IF d.heap[p] = NULL THEN NULL
                                  ELSE [d.heap[p] EXCEPT !.idle = @ + 1]]]

\* Time passes for everybody at once.  It may not pass a scan that has been due
\* for SCAN_DELAY, and a scan takes no time.
Tick ==
    /\ ~crashed
    /\ lock = "free"
    /\ asleep < SCAN_INTERVAL + SCAN_DELAY
    /\ asleep' = asleep + 1
    /\ data' = Aged(data)
    /\ UNCHANGED <<channels, lock, scan, crashed, out>>

handle_request ==
    \/ \E n \in Username, a \in IpPort : handle_login(n, a)
    \/ \E a \in IpPort : handle_logout(a) \/ handle_request_list(a)
                           \/ handle_request_keep_alive(a)
    \/ \E a \in IpPort, c \in Channel :
          \/ handle_request_join(a, c)
          \/ handle_request_leave(a, c)
          \/ handle_request_say(a, c)
          \/ handle_request_who(a, c)

server_loop  == handle_request \/ \E a \in IpPort : bubble_up_error(a)

cleanup_loop ==
    \/ ScanBegin
    \/ \E p \in UserPtr : ScanKeepUser(p) \/ ScanRemoveUser(p)
    \/ ScanEnd

Next == server_loop \/ cleanup_loop \/ Tick

Spec == Init /\ [][Next]_vars

\* The cleanup thread is scheduled and time passes; clients need not send.
FairSpec == Spec /\ WF_vars(cleanup_loop) /\ WF_vars(Tick)
-------------------------------------------------------------------------------
\* Properties.

\* Type correctness of the server's state.
TypeOK ==
    /\ data \in UserTables
    /\ channels \in [Channel -> (SUBSET Username) \cup {NULL}]
    /\ lock \in {"free", "cleanup"}
    /\ scan \in SUBSET UserPtr
    /\ asleep \in Nat
    /\ crashed \in BOOLEAN

\* The list and the two indexes of d describe the users in its heap: every live
\* cell is listed and indexed under its own name and address, and no table keeps
\* a pointer to a cell that was freed.
TablesAgree(d) ==
    /\ d.user_list = {p \in UserPtr : d.heap[p] # NULL}
    /\ \A p \in d.user_list :
          /\ d.user_by_ip[d.heap[p].ip_port] = p
          /\ d.user_by_username[d.heap[p].username] = p
    /\ \A a \in IpPort : d.user_by_ip[a] # NULL =>
          /\ d.user_by_ip[a] \in d.user_list
          /\ d.heap[d.user_by_ip[a]].ip_port = a
    /\ \A n \in Username : d.user_by_username[n] # NULL =>
          /\ d.user_by_username[n] \in d.user_list
          /\ d.heap[d.user_by_username[n]].username = n

\* idempotent_add_user and idempotent_remove_user keep three tables in step, one
\* of them by value equality, on every login, takeover of a name or an address,
\* logout and scan.
IndexAgreement == TablesAgree(data)

\* scan_and_remove_inactive_users walks an array of pointers it copied before
\* the first removal: none of those it has still to read may be freed before it
\* gets there, neither by a removal of its own nor by a request.
SnapshotLive ==
    /\ scan \subseteq data.user_list
    /\ lock = "free" => scan = {}

\* A channel is in the map only while somebody is subscribed to it: the list
\* request names no dead channel, and a who never finds an empty list, which it
\* would report as an internal error.
NoEmptyChannel == \A c \in Channel : channels[c] # {}

\* How long a silent user can stay logged in: the scan's period and its delay
\* beyond the timeout, whatever the other clients do meanwhile.
IdleBound ==
    \A p \in data.user_list :
        data.heap[p].idle <= TIMEOUT + SCAN_INTERVAL + SCAN_DELAY

\* The address user n is logged in from, through the index the handlers use.
SessionIn(d, n) == IF d.user_by_username[n] = NULL THEN NULL
                   ELSE d.heap[d.user_by_username[n]].ip_port

Session(n) == SessionIn(data, n)

Idle(n) == IF data.user_by_username[n] = NULL THEN 0
           ELSE data.heap[data.user_by_username[n]].idle

\* What may end or move the session of n in a step.
EndsForCause(n) ==
    Session(n) # NULL /\ Session(n)' # Session(n) =>
        \/ handle_logout(Session(n))
        \/ \E a \in IpPort : handle_login(n, a)
        \/ \E m \in Username : handle_login(m, Session(n))
        \/ cleanup_loop /\ Idle(n) > TIMEOUT

\* A session ends or moves only because its own client logged out, because
\* somebody logged in with its name or from its address, or because its client
\* had been silent for longer than the timeout when the scan came to it: a
\* client that was heard of is never logged out by what others do.
SessionEndsForCause == [][\A n \in Username : EndsForCause(n)]_vars

\* The server implements the service its clients are promised.
Service == INSTANCE ChatService WITH
    session <- [n \in Username |-> Session(n)],
    member  <- [c \in Channel |-> InChannel(channels, c)]

\* Every behaviour of the threads, tables and pointers is one of the service:
\* each request has the effect and the answers ChatService gives it, and the
\* scan only ends sessions.
ImplementsService == Service!Spec

\* Under the scheduling of the cleanup thread a client that falls silent is
\* logged out, unless it is heard of again first.
SilentSessionEnds == \A n \in Username : Idle(n) > 0 ~> Idle(n) = 0
==============================================================================
