# Specifications of the CLI chat servers

TLA+ specifications of the chat system in `src/`: a single server written in C,
and a distributed server written in C++, of which several can be linked to relay
messages for each other.  The specifications are translated from the code, model-checked with
TLC on small instances, and what matters most about the single server, the
distributed ones, a client with its server, the linked list and the hash map is
proved for all instances with TLAPS.

## 1. The system

| Component | State | Operations | Interacts with |
|---|---|---|---|
| Tables of the single server, `state.c` | `user_list` (linked list of `struct user`), `user_by_ip`, `user_by_username` (hash maps of pointers into it), `channel_user_lists` (channel to list of names) | add/remove a user, add/remove a name on a channel, drop an empty channel, refresh `last_seen` | called by the handlers and the scan, with the mutex held |
| Handlers and threads of the single server, `server_helpers.h`, `server.c` | the mutex, the copied user array of a running scan | login, logout, join, leave, say, list, who, keep alive; rejection of a bad datagram; the cleanup scan every 120 s | clients by UDP; the two threads share the tables |
| Answers, `send.h`, `proto.h` | none | say, list, who, error | clients |
| State of the distributed server, `distributed/src/state.cxx` | a `UserSet` of logged in users (vector and two indexes); per channel a `UserSet`, the adjacent servers its messages go to, and a time for each | as above, and join/leave of an adjacent server | called with the server's mutex held |
| Handlers and timers of the distributed server, `handlers.cxx`, `server.cxx` | none of their own | the client requests; `S2S_JOIN`, `S2S_LEAVE`, `S2S_SAY`; route expiry, route refresh, user expiry | clients, and adjacent servers by UDP |
| Client, `client.c` | `cur_channel`, `activity_last_minute`, a recursive lock; no record of its session or its channels | the commands that are typed, the keep-alive thread, exit; printing what arrives | one server by UDP; the two threads share socket, flag and lock |
| Linked list, `adts/linkedlist.c` | a ring of nodes through a sentinel, a free list | add, get, set, remove by index and at the ends; clear, toArray | the single server, with the mutex held |
| Hash map, `adts/hashmap.c` | an array of chains, size, load, changes since the load was looked at | put, get, remove, keyArray, entryArray, clear; resize | the single server, with the mutex held |
| Iterator, `adts/iterator.c` | an array copied from a list or map, an index | next, reset | the single server |
| Logging, `raw.c`, Makefiles, `start_servers.sh` | none | terminal I/O, build, example topologies | |

What is hard about it:

- *Three tables for one set of users.*  Every login may end two earlier sessions
  (of that name, of that address), the list compares by value and the maps hold
  pointers.
- *A scan over a copied array of pointers* that frees users as it goes, in a
  second thread.
- *Subscriptions outlive sessions.*  In the single server a channel holds names;
  in the distributed one it holds user objects, and a second login replaces the
  object in one place only.
- *Soft state over UDP.*  Routes between servers are made and undone by
  datagrams that can be lost, duplicated and reordered, and by timeouts.
- *Refresh and timeout.*  A join is sent every 60 s and a route expires after 120;
  the client says something every 60 s or 120, and its session expires after 120.
- *Pointers by hand.*  Free and used nodes share their pointers, a resize relinks
  the chains it walks along, and a hash adds signed chars.
- *Flooding.*  Messages are relayed along routes, and only leaving out the
  sender, or a record of identifiers, stops them.

What makes each component correct:

- tables: list, indexes and heap agree; no table keeps a freed pointer; a
  channel exists while it has subscribers.
- threads: the scan never reads a freed user; a session ends for a cause and
  only for one; silence is bounded, and a silent session ends.
- the server as a whole: each client gets what the service promises, whatever
  the tables and threads do inside.
- distributed state: a name and an address have one session; a channel is routed
  to adjacent servers whose time is known; its users are logged in.
- distributed handlers: no request and no datagram ends the process; a message
  reaches a client once at most and does not travel for ever.
- timers of the distributed server: one lost join cuts no route, a route that is
  there one way only is repaired or goes, and a silent user goes in bounded time.
- client: one that runs keeps its session, the server comes to agree with what it
  told its user, and exit completes.
- list and map: a sequence and a partial function, and no node, entry or count
  is lost on the way.

## 2. The modules

| Module | What it is | Source |
|---|---|---|
| `ChatProto` | the datagrams a client gets | `send.h`, `proto.h` |
| `ChatService` | abstract specification: sessions, memberships and the answers | stated of `server_helpers.h` |
| `ChatServer` | the single server: tables, heap, handlers, both threads, time | `state.c`, `server_helpers.h`, `server.c` |
| `ChatServer_proofs` | invariance and refinement proofs about `ChatServer` | |
| `UserSet` | class `UserSet` as operators | `distributed/src/state.cxx` |
| `DistState` | channels, routes and `State` as operators | `distributed/src/state.cxx`, `state.h` |
| `Federation` | several distributed servers, their timers and the network | `handlers.cxx`, `server.cxx`, `network.cxx` |
| `Federation_proofs` | invariance proofs about the routes of `Federation` | |
| `FederationUsers_proofs` | invariance proofs about the users of `Federation`, and about messages where its links are a forest | |
| `TimedFederation` | `Federation` with its clocks, intervals and timeouts | `server.cxx`, `state.cxx` |
| `TimedFederation_proofs` | what the timeouts do not cut, and whom they do | |
| `ChatClient` | the client: both threads, commands, lock and flag | `client.c` |
| `ClientServer` | `ChatClient`, `ChatServer` and the network between them | `client.c`, `server.c` |
| `ClientServer_proofs` | invariance proofs about `ClientServer` | |
| `Adt`, `AbstractList`, `AbstractMap` | what the headers of `adts/` promise | `linkedlist.h`, `hashmap.h` |
| `LinkedList`, `HashMap` | the list and the map as they are | `linkedlist.c`, `hashmap.c` |
| `LinkedList_proofs` | invariance and refinement proofs about `LinkedList` | |
| `HashMap_proofs` | invariance and refinement proofs about `HashMap` | |
| `DataLemmas` | induction, recursion and sequences, for the proofs | |
| `MCChatServer`, `MCClientServer`, `MCFederation`, `MCTimedFederation`, `MCAdts` | instances for TLC | topologies after `start_servers.sh` |

`ChatServer` instantiates `ChatService`, `LinkedList` instantiates `AbstractList`
and `HashMap` `AbstractMap`, each with a refinement mapping.  `ClientServer`
extends `ChatClient` and instantiates `ChatServer`, whose actions it takes for
the server's half of a step.  `TimedFederation` extends `Federation`, which
extends `DistState`, which extends `UserSet`; every step of it that changes
servers or network is a step of `Federation`.

### How `ChatServer` corresponds to the code

`data` is a record of `user_list`, the two maps and `heap`.  A cell of the heap
stands for a `malloc`ed `struct user`; a freed cell holds `NULL`, so an index
that leads to a freed cell is a dangling pointer and is seen as one.
`idempotent_add_user` yields one result for each cell `malloc` may return.
`ll_idempotent_remove` removes and frees *an entry that compares equal*, as the
code does, not the entry that was looked up.

`channels` maps a channel to the names on it; `NULL` is a key that is absent,
and `{}` would be a list that is empty, a distinction the code makes too (`who`
answers them with different errors).

A handler is one action: it waits for the mutex and then runs to its end.  The
cleanup scan is `ScanBegin` (lock, copy the array), one `ScanKeepUser` or
`ScanRemoveUser` for each pointer, and `ScanEnd` (unlock); the handlers' guard
`Handling` is the mutex.  `bubble_up_error` does not take the lock and may
happen during a scan.

`idle` is the time since `last_seen`.  `Tick` ages everybody by one unit; it does
not happen while a scan runs, and not once a scan has been due for `SCAN_DELAY`.
That is the assumption `IdleBound` and its proof rest on: a scan that is due
gets the processor and the mutex within `SCAN_DELAY`, and the scan itself takes
less than a unit.

`crashed` is a read outside an array.  `list_users` leaves its caller's count
unset when the list is empty; `GARBAGE` is the set of values the count may hold.

Abstractions: the text of a message; the order of a list (entries are only added
by `ll_idempotent_add`, and nothing reads the order); `malloc` failing; the byte
layout of datagrams, so that `test_valid` is a choice between `handle_request`
and `bubble_up_error`; an address is its `ip:port` key.

### How `Federation` corresponds to the code

`srv[s]` is the `State` of server `s`.  A handler, or one round of a timer loop,
runs under the server's mutex and is one action.  Reading through `NULL`, or an
exception nobody catches, ends the process: `fate` keeps what did it, and the
state is gone.  Nothing in the repository restarts a server, so none restarts.

`net` is a set of datagrams, delivered in any order; one that is never delivered
is lost, and `DUPLICATES` lets a delivery leave a copy.  A datagram that is sent
twice while the first copy is in flight is one element.

`last_seen` keeps which servers have a time, not the time, so that in `Federation`
a route or a user may time out at any moment (with `TIMEOUTS`).  The `User` objects are their name and
address: the code compares those and never deletes one while it runs.  The
vector of a `UserSet` is a sequence, for it can hold entries that compare equal,
and an erase takes the first of them.

The identifier of a message is a number given out in order in the place of a
random one: random identifiers are taken to be different.  `uid_set` stays
empty, for nothing in the code calls `channel_add_uid`; the branch that looks for an
identifier is there, and never taken.

`Forest` says of the links between servers that they make no cycle, `TakesOver` of a
step that a login takes a name or an address from another session.  They are the
hypotheses of two theorems (section 4) and restrict no run.

### How `TimedFederation` corresponds to the code

The clocks hold the time *since* a `last_seen`: `heard` of each route, `idle` of
each logged in user.  `kept` is how long a route has been there, which no
variable of the code holds; `OneLossCutsNothing` needs it to tell a server that
was cut wrongly from one that had no route back.  `asleep` is the sleep of the
join and user loops.  The route check runs every 10 s, six times within the unit,
so that it is due whenever a server is dead; the user check is due after
`JOIN_SEND_INTERVAL`, which is what the code sleeps.

`Tick` waits for everything in flight and everything that is due.  The loops of
one server start together and those of different servers at any offset.  A
datagram is lost by `Lose`, joins for the same route at most `MAX_LOSS` times in
a row; leaves and messages are lost without bound.

### How `ChatClient` and `ClientServer` correspond to the code

`main` and `keeper` are the places at which the two threads are.  The client logs
in and joins before it makes its lock and starts the other thread, in this order;
after that the main thread does one command or reads one answer at a time, and
reading only prints.  `send_msg` takes the lock, sets the flag and clears it again
if `sendto` fails, and gives the lock back: one step, possible when the lock is
free or the thread's own.  The keep-alive thread holds the lock from reading the
flag to clearing it, in three steps between which the main thread may act.
Cancelling is disabled while it is awake, so that `pthread_join` waits for its
next sleep.

`believed` is what was printed to the user: `Joined channel` and the like are
printed without an answer of the server.  `net` is a sequence of datagrams with
their ages; a `link` is as late, as lossy and as ordered as it says.  The server
is the whole of `ChatServer`, its scan and lock included.

### How `LinkedList` and `HashMap` correspond to the code

A node is a number, in the order of the `malloc` calls that returned it, and
`next`, `prev` and `element` are functions of nodes; the free list goes through
`next`, as in the code.  A refill gets any number of nodes from none to
`FL_INCREMENT`, the ways `malloc` may fail.

A key is a sequence of chars from -128 to 127, and `hash` computes with C's
remainder.  `load` is a number of fractions of `1 / MAX_CAPACITY`, so that it is
exact where the code adds doubles (which are exact too for the powers of two of a
doubled capacity, but not for others).  A resize may fail for want of memory
and then only the count of changes is reset.  An index outside the array sets
`hm_wild`, and nothing is said of what comes after.

Both keep the latest call with its index or key beside what it returned, so that
the refinements say of each call what it does, and not of some call.

Left out: the iterators, `size` and `isEmpty`, which read a field; `previous ==
NULL` of `hm_put`, for no caller passes it (`WANTS_PREVIOUS` has it, and with it
the map would hold a key twice); an index below 0, which no caller passes.

## 3. What is checked

| Run | What it asks | Result |
|---|---|---|
| `service` | `IndexAgreement`, `SnapshotLive`, `NoEmptyChannel`, `IdleBound`, `SessionEndsForCause` with requests and the scan interleaved; `ImplementsService`, the refinement to `ChatService`; `SilentSessionEnds`; no deadlock | hold |
| `alive` | `SilenceOfRunningClient`, `RunningClientKept`, `BeliefCatchesUp`, `ExitCompletes`, `ExitedIsLoggedOut` for a client and its server on three links | hold |
| `adts` | `RingClosed`, `NodesPartitioned`, `ImplementsList`; `MapAccounting`, `ImplementsMap` | hold |
| `users` | `StateUsersAgree`, `ChannelIndexesSound` on a distributed server with several clients, `ControlTrafficIsSafe` next to a server that does not have it on its command line, with duplication | hold |
| `line` | `RoutesAreSoftState`, `ControlTrafficIsSafe`, `ChannelUsersLoggedIn`, `AtMostOnce` on a line of three with timeouts, loss and reordering | hold |
| `timed` | `SilentUserBound`, `OneLossCutsNothing`, `HalfRouteHeals`, `SayDrains` with intervals, timeouts and lost joins | hold |
| `listing` | `ListingStaysInArray` | violated |
| `hash` | `BucketsInBounds` | violated |
| `ghost` | `ChannelUsersLoggedIn` | violated |
| `survive` | `ServersSurvive` | violated |
| `cycle` | `AtMostOnce` on a triangle | violated |
| `partition` | `LinkedUsersMeet` | violated |

Bounds.

- `service`: a unit of time is a minute, so `TIMEOUT` and `SCAN_INTERVAL` are 2 and
  `SCAN_DELAY` is 1.  Two users and two addresses let one login end two sessions
  (alice at a1 and bob at a2, then alice from a2); two cells are as many as there
  can be sessions; two channels are for `list`, and for what is said on one and
  not on the other.
- `alive`: a unit is half a minute, so that the client sleeps for 2 and the server
  waits for 4, and a datagram may be a unit late.  The links are a prompt one,
  one that is late with a thread that oversleeps, and one that loses and
  reorders.  `MAX_FLIGHT` is 2: a join and a leave, or a logout and a keep
  alive, can pass each other.  One channel, for the server treats channels alike.
- `adts`: two keys that collide in two buckets, one that does not, and one with a
  byte above 127; capacities 2, 4 and 8 with `TRIGGER` 1 and a load factor of
  1/2, so that two resizes and the largest capacity are reached; refills of two
  nodes, of which three may exist, so that nodes come back from the free list in
  every order.
- `users` has two users and two addresses, the least with which a login ends two
  sessions at once.  `line` has three servers, the least with a relay that
  has no clients of its own, and the triangle of `cycle` is the least cycle;
  `LineIsForest` and `TriangleIsNoForest` are evaluated with them.  In `line` each
  server has one client at most and there is one name, so that no login takes over
  anything: what `ghost` violates holds there, and is proved for any number of clients.
  `MAX_SAYS` is 1, for messages do not interact but through the pruning that
  follows them; `MAX_MEMBERS` bounds the entries of a channel's vector,
  which grows by repeated logins; `COPY_CAP` bounds the count of copies, and 2
  tells once from more (where copies are not looked at, it is 0).
- `timed`, `partition`: a unit is a minute, so that joins are sent every unit and
  timeouts are 2 units, with `MAX_LOSS` 1.  `MAX_REQUESTS` is the number of requests in a unit
  of time.  `timed` has its client at one of two servers, `partition` one at
  each.  With `MAX_LOSS` 2 the code does cut a route that both ends want:
  `OneLossCutsNothing` is about as many losses as the timeout has room for, and its
  proof says which.

`CHECK_DEADLOCK FALSE` where the system may stop: after a wild read (in
`ChatServer`, when `GARBAGE` holds a value larger than 0, and in `alive` with it;
and in `HashMap`), when the client has exited and nothing more happens, and in
`Federation` when every process has ended.  `service` has `GARBAGE = {0}` and does check
deadlock.  No run uses symmetry.

Fairness.  `ChatServer`: weak fairness of the cleanup loop and of time.  The
thread sleeps and then waits for a mutex that the server loop gives back after
every request; a request is not fair, for a client need not send one.
`ClientServer` adds weak fairness of the two threads of the client (not of what
is typed) and of the delivery of the oldest datagram, which may still be lost
first.  `TimedFederation`: weak fairness of time, of each timer loop when its sleep
is over, and of the receipt of each datagram (a lost one is gone sooner); clients
are not fair, and may send anything or nothing.

Each property has a fault operator (`Fault...`) beside the definition it alters:
a plausible mistake in that piece of code, under which TLC finds the property
violated.

### What the violated runs show

- `listing`: `ll_toArray` (`adts/linkedlist.c:333`) sets the length only of a list
  that is not empty, against `linkedlist.h:170`.  A join or leave by a client
  that is not logged in, or a scan, on a server without users, loops over a NULL
  array up to an uninitialised count.
- `ghost`: `cli_login` (`distributed/src/state.cxx:256`) removes the earlier user
  from the logged in users and not from the channels, against `state.h:63`.  The
  ghost also spoils the channel for the client that is there: `remove_user`
  (`distributed/src/state.cxx:10`) erases both keys of a user from the indexes whoever
  they lead to.  If a client takes over its own address by a second name and then
  leaves the channel its ghost is on and joins it again, the leave takes the address from
  the channel's index, `add_user` (`state.cxx:28`) no longer finds the ghost at it, and
  the address is in the vector twice: the client gets each message twice.  (With
  `Username = {u, v}`, `MAX_MEMBERS = 3` and `AtMostOnce` in the cfg of `ghost`, TLC finds
  a copy too many on one server alone.)
- `survive`: `handle_say`, `handle_who`, `handle_list` and `handle_leave`
  (`handlers.cxx:101` and on) go over NULL for a client that is not logged in, a
  session that timed out included; `handle_s2s_say` (`handlers.cxx:209`) goes over
  a NULL server list for a channel the server does not have, or has pruned.  The
  trace shows the first; with clients that are all logged in TLC finds the second.
- `hash`: `hash` (`adts/hashmap.c:61`) yields a negative bucket for some keys with a
  byte above 127, against `hashmap.c:58`.  `*sp` is a `char`, which the
  compilers the Makefile is for take as signed.
- `partition`: `join_send_loop` (`distributed/src/server.cxx:123`) repeats a join
  only to servers the channel is routed to already.  If the first join each way
  is lost, two users on one channel of two linked servers never meet, against
  `README.md:6`.
- `cycle`: no identifier is recorded, so that on a topology with a cycle, as the
  3x3 grid of `start_servers.sh`, a message goes round for ever.

Two more things the code does that a reader of its comments would not expect, and
that the passing runs have as they are.  `keyArray` answers `NULL` for an empty
map, which `hashmap.h:115` has as the answer to a failed `malloc` alone, so that a
list request on a server without channels gets an error: `ChatService` states
it.  `s2s_join` (`distributed/src/state.cxx:369`) reads the sender's address
through the pointer it has just found `NULL`, so that a server ends on the first
join of a neighbour it does not know: `ControlTrafficIsSafe` states that only
such a server does.

## 4. What is proved

`ChatServer_proofs` is about `ChatServer` for all constants that satisfy its
assumptions: the times are natural numbers, the counts in `GARBAGE` are, and
`NULL` is none of the values it stands beside.  Nothing is assumed of how many
users, addresses, channels or cells there are.

- `TypeCorrect`, `TablesAlwaysAgree`, `SnapshotNeverDangles`: the inductive
  invariant is `TablesInv`, the three of them together.  None is inductive
  alone: that removing by value frees the cell that was looked up needs the
  tables to agree (`EqualIsSelf`), that the scan's next pointer is live needs the
  mutex and the agreement.  A lemma for each operation of `state.c` says that it
  keeps the agreement and what it does to the sessions; the step lemma goes
  through the actions.
- `SilenceIsBounded`: `IdleInv` relates the silence of each user to the time
  since the last scan, during a scan only for those it has still to look at.
- `EmptyChannelsAreGone`: by induction over the steps, with `TablesInv` for the
  type of the channel map.
- `ServerImplementsService`: initial states map to initial states and every step
  to a step of `ChatService` or a stutter, with `TablesInv` and `NoEmptyChannel`.
  A lemma per handler; an address has one session because the tables agree, and
  the errors of `say` and `who` are the promised ones because no channel is empty.

- `SessionsEndOnlyForCause`: the action property, from `TablesInv`.  What the
  operations do to the sessions is in their lemmas; that the scan measured the
  silence of the user whose session it ends is the agreement of the index by
  name with the list.

`Federation_proofs` is about `Federation` on every topology, with or without
duplication and timeouts.

- `RoutesStaySoft`, `ControlTrafficEndsNothing`: the inductive invariant `Inv` says
  that every channel of a server is routed to servers that are on each other's
  command line, all of which have a time (`SoundState`); that every datagram in flight
  comes from a server with its receiver on its command line, and a leave or a
  message from one that is on the receiver's too; and that a process that has
  ended has no state.  The first is what keeps `at()` from throwing; the second
  leaves only the join of a one-sided neighbour to meet a server that does not
  know it.  A lemma for each operation of `DistState` says it keeps
  `SoundState`, and one for each action that it keeps `Inv`.

`FederationUsers_proofs` is about the users of the same servers, for the same
constants; of the bounds it assumes that they are natural numbers.

- `LoggedInUsersAgree`, `ChannelLookupsSound`, `FederationTyped`: the inductive
  invariant `UsersInv` adds to `Inv` that the users of each server are well kept
  (`WellKept`): the logged in users agree with their indexes both ways, which needs
  that no entry of the vector is there twice, while the indexes of a channel are
  only sound, since a replaced user stays in its vector.  It rests on what an
  erase does to a vector of any length, and a scan to any number of users.
- `GhostsNeedATakeover`: `ChannelUsersLoggedIn` holds of every behaviour in which no
  login takes a name or an address from another session (`NoTakeover`).  `ghost` shows
  that the hypothesis is needed; the theorem, that nothing else leaves a ghost: no
  logout, leave, removal for silence or crash, and no message between servers.
  The invariant `GhostInv` adds to `UsersInv` that the users of a channel are among the
  logged in ones, are clients of the server, and agree with the channel's indexes both
  ways.  The last is what a ghost breaks, and without it a leave might miss the
  entry it should erase.
- `AtMostOnceOnForests`: with no takeover, and a network that delivers nothing
  twice, `AtMostOnce` holds wherever the links of the servers are a forest, whatever
  joins, leaves, losses and timeouts do to the routes while a message travels.  The
  invariant `OnItsWay` says of each `S2S_SAY` in flight that no client of its receiver,
  or of a server beyond it as seen from its sender, has had the message, and of two
  datagrams of one message that what is beyond them is disjoint; a server that relays
  divides what is beyond it among its other neighbours.  What is beyond a neighbour
  (`Beyond`) is what every closed set of servers has, so that the proof needs no paths
  and no induction over them.  All three hypotheses are needed: `cycle` violates the
  property on a triangle, a takeover may on one server (`ghost` in section 3), and a
  second delivery of a datagram is relayed like the first, as `uid_set` is never filled.

`TimedFederation_proofs` is about `TimedFederation` with any intervals.

- `LossesCutNothing`: if `(MAX_LOSS + 1) * JOIN_SEND_INTERVAL <= JOIN_TIMEOUT`, as the
  60 s and 120 s of the code allow for one lost join, no timeout cuts a route whose
  other end has kept its own for longer than the timeout.  The invariant
  `TimedInv` is `Inv` of the module above with `Bounded`: a route was heard of, or the
  route back has been there, for no longer than `Grace`, the time since the other
  end last sent its joins and `JOIN_SEND_INTERVAL` for each one lost in a row.
- `SilentUsersGo`: `SilentInv` adds to `TimedInv` and `UsersInv` that no user has been
  silent for longer than `Patience`, the limit and the time the scan has slept.
  `UsersInv` is needed because the scan goes over the vector: that it removes
  every silent user is that the vector has all of them.

`ClientServer_proofs` is about a client and its server, for every period,
timeout, scan, link and channel, and any number of datagrams in flight.

- The tables of a server with one client are simple: nobody is in them or the
  client is, in one cell (`OneClient`).  `PairInv` says so (`Tabled`) and what the two
  threads may be doing at once (`Phases`), and of the datagrams that the login is
  ahead of all others and a logout behind (`Flight`).
- `RunningClientIsHeard`: the silence is bounded by where the thread is in its
  round (`Heard`): with nothing in flight by the time it has slept, and one round more
  if nothing was sent in this one; with something in flight by two rounds and the
  age of the oldest datagram.  The two rounds are the code's: a round in which
  anything was sent sends no keep alive.
- `RunningClientStaysLoggedIn`: with `Heard` the scan cannot find the client silent
  for longer than `TIMEOUT` if `LongestSilence` is not longer (`Kept`).
- `ServerCatchesUp`: `Agreed`, by what the next request in flight does to a
  subscription, and what one more at the end does.  It needs `Kept`, for a join
  that finds nobody logged in is refused.

`LinkedList_proofs` is about `LinkedList` for any number of nodes, any refill and any
failure of `malloc`.

- `RingStaysClosed`, `NodesStayPartitioned`: neither property is inductive, and nor
  are they together.  `ListShape` gives the ring and the free list as two
  sequences of nodes that the pointers spell out and that share none; each call
  puts a node into one of them or takes one out, or moves all of them.
- `ListIsSequence`: the elements of that ring are the sequence of `AbstractList`.

`HashMap_proofs` is about `HashMap` for any keys, any load factor, any first
capacity that divides `MAX_CAPACITY` (the servers' 32 does), and any failure of
`malloc`, where every `hm_put` that finds its key asks for the previous element
(`AlwaysPrevious`, a hypothesis of all three theorems).  The hypothesis is needed:
without it `hm_put` puts a key into its chain a second time.  The servers call
`hm_putUnique` only, which has no such argument.

- `MapCountsAgree`, `MapIsFunction`: the inductive invariant `Sound` says that every
  entry is in the chain its key hashes to, that no chain has a key twice, and that
  `size` and `load` count the entries.  The first two are what makes the entries a
  function; the counts alone are not inductive, for a removal is counted once and
  has to take one entry.  A call alters one chain, and what that does to the
  entries of all chains is counted as a set of pairs (`Content`) beside the sequence
  that `entryArray` returns (`Lists`).  A resize takes the entries one by one and keeps the
  set of them, by an induction over that sequence.  Nothing is claimed after
  an index outside the array (`hm_wild`), as in the runs.
- `PlainKeysStayInBounds`: if every char of every key is positive (`PlainKeys`), no call
  and no resize leaves the array, so that for such keys nothing of the above is
  void.  `hash` is a fold over the chars whose value stays in `0..n - 1`, and every
  entry a resize redistributes has one of the keys, by `Sound`.  The run `hash`
  violates `BucketsInBounds` with a key that is not plain.

`DataLemmas` has what these proofs know of data.  An induction over the natural
numbers is stated of a *set* that has 0 and each next number, and the recursive
functions and folds of the models are shown to exist by it (`NatRecursion`,
`SubsetRecursion`), for no installed prover can use the library's induction
theorems.

The assumptions are the modules' own: bounds and intervals are natural
numbers, `NULL` is none of the values it stands beside, `Adj` and `Home` are functions
of their kinds, and `MAX_CAPACITY` is a power of two, as in `hashmap.c:37`.  Nothing is assumed of how many servers, users, nodes or channels there are.

Only model-checked is liveness, which is out of the prover's reach:
`SilentSessionEnds`, `ExitCompletes`, `ExitedIsLoggedOut`, `HalfRouteHeals` and `SayDrains`.  Every
other property of a run that holds is a theorem, under the hypotheses named
above.  Of the properties that a run violates, `ChannelUsersLoggedIn`, `AtMostOnce` and
`BucketsInBounds` are theorems where the hypothesis that the run breaks holds;
`ListingStaysInArray`, `ServersSurvive` and `LinkedUsersMeet` are only shown to fail.

## 5. Not modelled

- Datagram sizes: `test_valid` and the size checks of the distributed `handler` are a
  choice between taking and refusing a datagram; no state depends on them
  otherwise.
- The layout of datagrams, padding and truncation of names, and failing `sendto`
  at a server, which is logged and changes nothing.
- What the client prints of an answer and how it edits a line; `raw.c`.
- The iterator, which goes over an array of its own.
- Restarts of a server: nothing in the repository restarts one, and it keeps
  nothing that would survive.
- An abstract specification of the federation: what the code promises to the users
  of linked servers does not hold of it (`partition`, `survive`, `cycle`), so that there is no
  such specification it would implement.
- Channels that users removed for silence leave empty (`server.cxx:146`): they stay until
  a later request or message prunes them.  The models have them; nothing in the
  repository says when they go.
- Logging, socket set-up, address parsing and the Makefiles, which keep no state
  the properties are about, and `free_state` and the destructors, which run only
  when a process ends.
