------------------------- MODULE ClientServer_proofs -------------------------
(***************************************************************************)
(* A client and its server, for every period, delay, drift and timeout:    *)
(* how long a running client is silent, that it is not logged out, and     *)
(* that the server comes to agree with what the client told its user.      *)
(*                                                                         *)
(* One client makes the tables of the server simple: nobody is logged in,  *)
(* or the client is.                                                       *)
(***************************************************************************)
EXTENDS ClientServer, DataLemmas

-------------------------------------------------------------------------------
\* The tables of a server with one client.

Tables(list, by_ip, by_username, heap) ==
    [user_list |-> list, user_by_ip |-> by_ip, user_by_username |-> by_username, heap |-> heap]

\* The record of the client, which was heard of k ago.
Record(k) == [username |-> me, ip_port |-> here, idle |-> k]

\* The indexes and the heap with the client in the cell p, and with nobody.
ByIp(p)    == [a \in IpPort |-> IF a = here THEN p ELSE NULL]
ByName(p)  == [n \in Username |-> IF n = me THEN p ELSE NULL]
Heap(p, k) == [q \in UserPtr |-> IF q = p THEN Record(k) ELSE NULL]
NoIp   == [a \in IpPort |-> NULL]
NoName == [n \in Username |-> NULL]
NoHeap == [p \in UserPtr |-> NULL]

Nobody     == Tables({}, NoIp, NoName, NoHeap)
Only(p, k) == Tables({p}, ByIp(p), ByName(p), Heap(p, k))

OneClient(d) == d = Nobody \/ \E p \in UserPtr, k \in Nat : d = Only(p, k)

LEMMA TableRead ==
    ASSUME NEW l, NEW a, NEW n, NEW h
    PROVE  /\ Tables(l, a, n, h).user_list = l /\ Tables(l, a, n, h).user_by_ip = a
           /\ Tables(l, a, n, h).user_by_username = n /\ Tables(l, a, n, h).heap = h
BY DEF Tables

LEMMA IndexSet ==
    ASSUME NEW p, NEW k
    PROVE  /\ [NoIp EXCEPT ![here] = p] = ByIp(p) /\ [ByIp(p) EXCEPT ![here] = NULL] = NoIp
           /\ [NoName EXCEPT ![me] = p] = ByName(p) /\ [ByName(p) EXCEPT ![me] = NULL] = NoName
           /\ [NoHeap EXCEPT ![p] = Record(k)] = Heap(p, k)
           /\ [Heap(p, k) EXCEPT ![p] = NULL] = NoHeap
           /\ NoIp[here] = NULL /\ ByIp(p)[here] = p /\ NoName[me] = NULL /\ ByName(p)[me] = p
           /\ p \in UserPtr => Heap(p, k)[p] = Record(k)
           /\ \A q \in UserPtr : NoHeap[q] = NULL /\ (q # p => Heap(p, k)[q] = NULL)
BY ClientIsKnown DEF NoIp, ByIp, NoName, ByName, NoHeap, Heap

LEMMA NobodyFacts ==
    /\ Nobody = Server!alloc_state
    /\ Nobody.user_list = {}
    /\ Nobody.user_by_ip[here] = NULL
    /\ Nobody.user_by_username[me] = NULL
    /\ \A q \in UserPtr : Nobody.heap[q] = NULL
<1>1. Nobody = Server!alloc_state
  BY DEF Nobody, Server!alloc_state, Tables, NoIp, NoName, NoHeap
<1> QED
  BY <1>1, TableRead, IndexSet DEF Nobody

LEMMA OnlyFacts ==
    ASSUME NEW p \in UserPtr, NEW k \in Nat
    PROVE  /\ p # NULL
           /\ Only(p, k).user_list = {p}
           /\ Only(p, k).user_by_ip[here] = p
           /\ Only(p, k).user_by_username[me] = p
           /\ Only(p, k).heap[p].username = me
           /\ Only(p, k).heap[p].ip_port = here
           /\ Only(p, k).heap[p].idle = k
           /\ \A q \in UserPtr : q # p => Only(p, k).heap[q] = NULL
<1>1. p # NULL
  BY ServerIsConfigured
<1>2. Only(p, k).heap[p] = Record(k)
  BY TableRead, IndexSet DEF Only
<1> QED
  BY <1>1, <1>2, TableRead, IndexSet DEF Only, Record

\* The client is removed, by its name or by its address.
LEMMA RemoveOnly ==
    ASSUME NEW d, OneClient(d)
    PROVE  Server!RemoveByUsername(d, me) = Nobody /\ Server!RemoveByIp(d, here) = Nobody
<1>1. CASE d = Nobody
  BY <1>1, NobodyFacts DEF Server!RemoveByUsername, Server!RemoveByIp, Server!RemoveUser
<1>2. ASSUME NEW p \in UserPtr, NEW k \in Nat, d = Only(p, k)
      PROVE  Server!RemoveByUsername(d, me) = Nobody /\ Server!RemoveByIp(d, here) = Nobody
  <2> DEFINE x == Tables({p}, ByIp(p), NoName, Heap(p, k))
             e == Tables({p}, NoIp, NoName, Heap(p, k))
  <2>1. Server!RemoveFromIndexes(d, p) = e
    <3>1. [d EXCEPT !.user_by_username[me] = NULL] = x
      <4>1. d.user_by_username = ByName(p) /\ [ByName(p) EXCEPT ![me] = NULL] = NoName
        BY <1>2, TableRead, IndexSet DEF Only
      <4>2. [d EXCEPT !.user_by_username = NoName] = x
        BY <1>2 DEF Tables, Only
      <4> HIDE DEF x
      <4> QED
        BY <4>1, <4>2
    <3>2. [x EXCEPT !.user_by_ip[here] = NULL] = e
      <4>1. x.user_by_ip = ByIp(p) /\ [ByIp(p) EXCEPT ![here] = NULL] = NoIp
        BY TableRead, IndexSet
      <4>2. [x EXCEPT !.user_by_ip = NoIp] = e
        BY DEF Tables
      <4> HIDE DEF x, e
      <4> QED
        BY <4>1, <4>2
    <3>3. d.heap[p].username = me /\ d.heap[p].ip_port = here
      BY <1>2, OnlyFacts
    <3> HIDE DEF x, e
    <3>4. Server!RemoveFromIndexes(d, p)
            = [d EXCEPT !.user_by_username[me] = NULL, !.user_by_ip[here] = NULL]
      BY <3>3 DEF Server!RemoveFromIndexes
    <3> QED
      BY <3>1, <3>2, <3>4
  <2>2. Server!ll_equal(e, p) = {p}
    BY TableRead DEF Server!ll_equal, Server!user_compare
  <2>3. [e EXCEPT !.user_list = @ \ {p}, !.heap[p] = NULL] = Nobody
    <3> DEFINE y == Tables({}, NoIp, NoName, Heap(p, k))
    <3>1. [e EXCEPT !.user_list = @ \ {p}] = y
      <4>1. e.user_list \ {p} = {}
        BY TableRead
      <4>2. [e EXCEPT !.user_list = {}] = y
        BY DEF Tables
      <4> HIDE DEF e, y
      <4> QED
        BY <4>1, <4>2
    <3>2. [y EXCEPT !.heap[p] = NULL] = Nobody
      <4>1. y.heap = Heap(p, k) /\ [Heap(p, k) EXCEPT ![p] = NULL] = NoHeap
        BY TableRead, IndexSet
      <4>2. [y EXCEPT !.heap = NoHeap] = Nobody
        BY DEF Tables, Nobody
      <4> HIDE DEF y
      <4> QED
        BY <4>1, <4>2
    <3> HIDE DEF y, e
    <3> QED
      BY <3>1, <3>2
  <2>4. Server!ll_idempotent_remove(e, p) = Nobody
    <3> HIDE DEF e
    <3>1. (CHOOSE q \in {p} : TRUE) = p
      OBVIOUS
    <3> QED
      BY <2>2, <2>3, <3>1 DEF Server!ll_idempotent_remove
  <2>5. Server!RemoveUser(d, p) = Nobody
    BY <2>1, <2>4, OnlyFacts DEF Server!RemoveUser
  <2> QED
    BY <2>5, <1>2, OnlyFacts DEF Server!RemoveByUsername, Server!RemoveByIp
<1> QED
  BY <1>1, <1>2 DEF OneClient

\* The client logs in, for the first time or again.
LEMMA LoginOnly ==
    ASSUME NEW d, OneClient(d), NEW e \in Server!idempotent_add_user(d, me, here)
    PROVE  \E p \in UserPtr : e = Only(p, 0)
<1>1. Server!RemoveByUsername(d, me) = Nobody /\ OneClient(Nobody)
  BY RemoveOnly DEF OneClient
<1>2. Server!RemoveByIp(Nobody, here) = Nobody
  BY <1>1, RemoveOnly
<1>3. PICK p \in UserPtr : e = Server!EnterUser(Nobody, p, me, here)
  BY <1>1, <1>2 DEF Server!idempotent_add_user
<1> DEFINE x == Tables({}, NoIp, NoName, Heap(p, 0))
           y == Tables({p}, NoIp, NoName, Heap(p, 0))
           z == Tables({p}, ByIp(p), NoName, Heap(p, 0))
<1>4. [Nobody EXCEPT !.heap[p] = [username |-> me, ip_port |-> here, idle |-> 0]] = x
  <2>1. [Nobody EXCEPT !.heap = Heap(p, 0)] = x /\ Nobody.heap = NoHeap
    BY DEF Tables, Nobody
  <2>2. [NoHeap EXCEPT ![p] = [username |-> me, ip_port |-> here, idle |-> 0]] = Heap(p, 0)
    BY IndexSet DEF Record
  <2> HIDE DEF x
  <2> QED
    BY <2>1, <2>2
<1>5. Server!ll_idempotent_add(x, p) = y
  <2>1. x.user_list = {}
    BY TableRead
  <2>2. [x EXCEPT !.user_list = {p}] = y
    BY DEF Tables
  <2> HIDE DEF x, y
  <2> QED
    BY <2>1, <2>2 DEF Server!ll_idempotent_add, Server!ll_equal
<1>6. [y EXCEPT !.user_by_ip[here] = p] = z /\ [z EXCEPT !.user_by_username[me] = p] = Only(p, 0)
  <2>1. [y EXCEPT !.user_by_ip = ByIp(p)] = z /\ y.user_by_ip = NoIp
    BY DEF Tables
  <2>2. [z EXCEPT !.user_by_username = ByName(p)] = Only(p, 0) /\ z.user_by_username = NoName
    BY DEF Tables, Only
  <2> HIDE DEF y, z
  <2> QED
    BY <2>1, <2>2, IndexSet
<1>7. e = Only(p, 0)
  <2> HIDE DEF x, y, z
  <2> QED
    BY <1>3, <1>4, <1>5, <1>6 DEF Server!EnterUser
<1> QED
  BY <1>7

\* The client is heard of.
LEMMA TouchOnly ==
    ASSUME NEW p \in UserPtr, NEW k \in Nat
    PROVE  Server!update_last_seen(Only(p, k), p) = Only(p, 0)
<1>1. [Heap(p, k) EXCEPT ![p].idle = 0] = Heap(p, 0)
  <2>1. [Record(k) EXCEPT !.idle = 0] = Record(0)
    BY DEF Record
  <2> QED
    BY <2>1 DEF Heap
<1>2. Only(p, k).heap = Heap(p, k) /\ [Only(p, k) EXCEPT !.heap = Heap(p, 0)] = Only(p, 0)
  BY DEF Tables, Only
<1>3. p # NULL
  BY ServerIsConfigured
<1> QED
  BY <1>1, <1>2, <1>3 DEF Server!update_last_seen

LEMMA TouchNobody == Server!update_last_seen(Nobody, NULL) = Nobody
BY DEF Server!update_last_seen

\* Time passes.
LEMMA AgedNobody == Server!Aged(Nobody) = Nobody
<1>1. Nobody.heap = NoHeap /\ [Nobody EXCEPT !.heap = NoHeap] = Nobody
  BY DEF Tables, Nobody
<1>2. [p \in UserPtr |-> IF NoHeap[p] = NULL THEN NULL
                         ELSE [NoHeap[p] EXCEPT !.idle = NoHeap[p].idle + 1]] = NoHeap
  BY DEF NoHeap
<1> QED
  BY <1>1, <1>2 DEF Server!Aged

LEMMA AgedOnly ==
    ASSUME NEW p \in UserPtr, NEW k \in Nat
    PROVE  Server!Aged(Only(p, k)) = Only(p, k + 1)
<1>5. [Only(p, k) EXCEPT !.heap = Heap(p, k + 1)] = Only(p, k + 1)
  <2> DEFINE g == Heap(p, k + 1)
             h == Heap(p, k)
  <2>1. Only(p, k) = Tables({p}, ByIp(p), ByName(p), h)
    BY DEF Only
  <2>2. Only(p, k + 1) = Tables({p}, ByIp(p), ByName(p), g)
    BY DEF Only
  <2> HIDE DEF g, h
  <2>3. [Tables({p}, ByIp(p), ByName(p), h) EXCEPT !.heap = g] = Tables({p}, ByIp(p), ByName(p), g)
    BY DEF Tables
  <2> QED
    BY <2>1, <2>2, <2>3 DEF g
<1> DEFINE older(c) == [c EXCEPT !.idle = c.idle + 1]
<1>1. older(Record(k)) = Record(k + 1)
  BY DEF Record
<1>2. Record(k) # NULL
  <2>1. Record(k) \in Server!User
    BY ClientIsKnown DEF Record, Server!User
  <2> QED
    BY <2>1, ServerIsConfigured
<1>3. [q \in UserPtr |-> IF Heap(p, k)[q] = NULL THEN NULL ELSE older(Heap(p, k)[q])]
         = Heap(p, k + 1)
  <2> HIDE DEF older
  <2> QED
    BY <1>1, <1>2 DEF Heap
<1>4. Only(p, k).heap = Heap(p, k)
  BY TableRead DEF Only
<1> QED
  BY <1>3, <1>4, <1>5 DEF Server!Aged

LEMMA IdleOfClient ==
    ASSUME NEW p \in UserPtr, NEW k \in Nat
    PROVE  /\ data = Only(p, k) => Server!Idle(me) = k /\ LoggedIn
           /\ data' = Only(p, k) => Server!Idle(me)' = k /\ LoggedIn'
           /\ Only(p, k) # Nobody
BY OnlyFacts, NobodyFacts DEF Server!Idle, LoggedIn, Server!Session, Server!SessionIn

LEMMA IdleOfNobody ==
    /\ data = Nobody => Server!Idle(me) = 0
    /\ data' = Nobody => Server!Idle(me)' = 0
BY NobodyFacts DEF Server!Idle
-------------------------------------------------------------------------------
\* What the server does, with the tables of one client.

Channels == [Channel -> (SUBSET Username) \cup {NULL}]

\* The channels the server has the client on.
On(ch) == {c \in Channel : me \in Server!InChannel(ch, c)}

LEMMA JoinPuts ==
    ASSUME NEW ch \in Channels, NEW c \in Channel
    PROVE  LET after == Server!idempotent_channel_add_user(ch, c, me)
           IN  after \in Channels /\ On(after) = On(ch) \cup {c}
<1> DEFINE after == Server!idempotent_channel_add_user(ch, c, me)
           list  == Server!InChannel(ch, c) \cup {me}
<1>1. list \in SUBSET Username /\ list # NULL
  BY ClientIsKnown, ServerIsConfigured DEF Channels, Server!InChannel
<1>2. after = [ch EXCEPT ![c] = list]
  BY DEF Server!idempotent_channel_add_user
<1>3. me \in list
  OBVIOUS
<1> HIDE DEF after, list
<1>4. after \in Channels
  BY <1>1, <1>2 DEF Channels
<1>5. \A x \in Channel : Server!InChannel(after, x) = IF x = c THEN list ELSE Server!InChannel(ch, x)
  BY <1>1, <1>2 DEF Channels, Server!InChannel
<1>6. On(after) = On(ch) \cup {c}
  BY <1>3, <1>5 DEF On
<1> QED
  BY <1>4, <1>6 DEF after

LEMMA LeaveTakes ==
    ASSUME NEW ch \in Channels, NEW c \in Channel
    PROVE  LET after == Server!LeaveChannel(ch, c, me)
           IN  after \in Channels /\ On(after) = On(ch) \ {c}
<1> DEFINE after == Server!LeaveChannel(ch, c, me)
<1>1. CASE ch[c] = NULL
  <2>1. after = ch
    BY <1>1 DEF Server!LeaveChannel
  <2>2. c \notin On(ch)
    BY <1>1 DEF On, Server!InChannel
  <2> QED
    BY <2>1, <2>2
<1>2. CASE ch[c] # NULL
  <2> DEFINE rest == ch[c] \ {me}
             left == IF rest = {} THEN NULL ELSE rest
  <2>1. after = [ch EXCEPT ![c] = left]
    BY <1>2 DEF Server!LeaveChannel
  <2>2. rest \in SUBSET Username /\ rest # NULL /\ me \notin rest
    BY <1>2, ServerIsConfigured DEF Channels
  <2> HIDE DEF after
  <2>3. after \in Channels
    BY <2>1, <2>2 DEF Channels
  <2>4. \A x \in Channel : Server!InChannel(after, x) = IF x = c THEN rest ELSE Server!InChannel(ch, x)
    BY <2>1, <2>2 DEF Channels, Server!InChannel
  <2> HIDE DEF rest
  <2>5. On(after) = On(ch) \ {c}
    BY <2>2, <2>4 DEF On
  <2> QED
    BY <2>3, <2>5 DEF after
<1> QED
  BY <1>1, <1>2

\* What the server makes of a request of the client that is, or is not, logged in.
LEMMA LoggedInRequest ==
    ASSUME NEW p \in UserPtr, NEW k \in Nat, data = Only(p, k),
           NEW req \in Requests, Handle(req)
    PROVE  /\ req.type = "LOGIN" => \E q \in UserPtr : data' = Only(q, 0)
           /\ req.type = "LOGOUT" => data' = Nobody
           /\ req.type \notin {"LOGIN", "LOGOUT"} => data' = Only(p, 0)
           /\ req.type = "JOIN" =>
                 channels' = Server!idempotent_channel_add_user(channels, req.channel, me)
           /\ req.type = "LEAVE" => channels' = Server!LeaveChannel(channels, req.channel, me)
           /\ req.type \notin {"JOIN", "LEAVE"} => UNCHANGED channels
<1>1. OneClient(data) /\ data.user_by_ip[here] = p /\ p # NULL
      /\ data.user_by_username[me] = p /\ data.heap[p].username = me
  BY OnlyFacts DEF OneClient
<1>2. ~Server!NotLoggedIn(here) /\ Server!UserOf(here).username = me
  BY <1>1 DEF Server!NotLoggedIn, Server!UserOf
<1>3. Server!update_last_seen(data, p) = Only(p, 0)
  BY TouchOnly
<1>4. Server!Refresh(here) => data' = Only(p, 0)
  BY <1>1, <1>2, <1>3 DEF Server!Refresh
<1>5. ASSUME req.type = "LOGIN", Server!handle_login(me, here)
      PROVE  (\E q \in UserPtr : data' = Only(q, 0)) /\ UNCHANGED channels
  BY <1>1, <1>5, LoginOnly DEF Server!handle_login
<1>6. ASSUME req.type = "LOGOUT", Server!handle_logout(here)
      PROVE  data' = Nobody /\ UNCHANGED channels
  BY <1>1, <1>6, RemoveOnly DEF Server!handle_logout
<1>7. ASSUME \/ Server!handle_request_list(here) \/ Server!handle_request_keep_alive(here)
             \/ Server!handle_request_who(here, req.channel)
      PROVE  data' = Only(p, 0) /\ UNCHANGED channels
  BY <1>1, <1>3, <1>7 DEF Server!handle_request_list, Server!handle_request_keep_alive,
     Server!handle_request_who
<1>8. ASSUME Server!handle_request_say(here, req.channel)
      PROVE  data' = Only(p, 0) /\ UNCHANGED channels
  BY <1>2, <1>4, <1>8 DEF Server!handle_request_say
<1>9. ASSUME Server!handle_request_join(here, req.channel)
      PROVE  /\ data' = Only(p, 0)
             /\ channels' = Server!idempotent_channel_add_user(channels, req.channel, me)
  BY <1>2, <1>4, <1>9 DEF Server!handle_request_join, Server!RefuseAndList
<1>10. ASSUME Server!handle_request_leave(here, req.channel)
       PROVE  data' = Only(p, 0) /\ channels' = Server!LeaveChannel(channels, req.channel, me)
  BY <1>2, <1>4, <1>10 DEF Server!handle_request_leave, Server!RefuseAndList
<1> QED
  BY <1>5, <1>6, <1>7, <1>8, <1>9, <1>10 DEF Handle

LEMMA StrangersRequest ==
    ASSUME data = Nobody, NEW req \in Requests, Handle(req)
    PROVE  /\ req.type = "LOGIN" => \E q \in UserPtr : data' = Only(q, 0)
           /\ req.type # "LOGIN" => data' = Nobody
           /\ UNCHANGED channels
<1>1. OneClient(data) /\ data.user_by_ip[here] = NULL /\ Server!NotLoggedIn(here)
  BY NobodyFacts DEF OneClient, Server!NotLoggedIn
<1>2. Server!update_last_seen(data, NULL) = Nobody
  BY TouchNobody
<1>3. ASSUME req.type = "LOGIN", Server!handle_login(me, here)
      PROVE  (\E q \in UserPtr : data' = Only(q, 0)) /\ UNCHANGED channels
  BY <1>1, <1>3, LoginOnly DEF Server!handle_login
<1>4. ASSUME req.type = "LOGOUT", Server!handle_logout(here)
      PROVE  data' = Nobody /\ UNCHANGED channels
  BY <1>1, <1>4, RemoveOnly DEF Server!handle_logout
<1>5. ASSUME \/ Server!handle_request_list(here) \/ Server!handle_request_keep_alive(here)
             \/ Server!handle_request_who(here, req.channel)
      PROVE  data' = Nobody /\ UNCHANGED channels
  BY <1>1, <1>2, <1>5 DEF Server!handle_request_list, Server!handle_request_keep_alive,
     Server!handle_request_who
<1>6. ASSUME Server!handle_request_say(here, req.channel)
      PROVE  data' = Nobody /\ UNCHANGED channels
  BY <1>1, <1>6 DEF Server!handle_request_say, Server!Refresh
<1>7. ASSUME \/ Server!handle_request_join(here, req.channel)
             \/ Server!handle_request_leave(here, req.channel)
      PROVE  data' = Nobody /\ UNCHANGED channels
  BY <1>1, <1>7 DEF Server!handle_request_join, Server!handle_request_leave, Server!Refresh,
     Server!RefuseAndList, Server!tables
<1> QED
  BY <1>3, <1>4, <1>5, <1>6, <1>7 DEF Handle

LEMMA RequestOutsideScan ==
    ASSUME NEW req, Handle(req)
    PROVE  server_lock = "free" /\ UNCHANGED <<server_lock, scan, asleep>>
BY DEF Handle, Server!handle_login, Server!handle_logout, Server!handle_request_list,
       Server!handle_request_keep_alive, Server!handle_request_say, Server!handle_request_who,
       Server!handle_request_join, Server!handle_request_leave, Server!RefuseAndList,
       Server!Handling, Server!cleanup

\* The tables of the server, and the scan that goes over them.
Tabled ==
    /\ OneClient(data)
    /\ channels \in Channels
    /\ scan \subseteq data.user_list
    /\ server_lock = "free" => scan = {}

LEMMA HandleKeepsTables ==
    ASSUME Tabled, NEW req \in Requests, Handle(req)
    PROVE  Tabled' /\ Server!Idle(me)' = 0
<1>1. server_lock' = "free" /\ scan' = {}
  BY RequestOutsideScan DEF Tabled
<1>2. CASE data = Nobody
  <2>1. data' = Nobody \/ \E q \in UserPtr : data' = Only(q, 0)
    BY <1>2, StrangersRequest
  <2>2. OneClient(data') /\ UNCHANGED channels
    BY <1>2, <2>1, StrangersRequest DEF OneClient
  <2>3. Server!Idle(me)' = 0
    BY <2>1, IdleOfClient, IdleOfNobody
  <2> QED
    BY <1>1, <2>2, <2>3 DEF Tabled
<1>3. ASSUME NEW p \in UserPtr, NEW k \in Nat, data = Only(p, k)
      PROVE  Tabled' /\ Server!Idle(me)' = 0
  <2>1. data' = Nobody \/ \E q \in UserPtr : data' = Only(q, 0)
    BY <1>3, LoggedInRequest
  <2>2. OneClient(data')
    BY <2>1 DEF OneClient
  <2>3. Server!Idle(me)' = 0
    BY <2>1, IdleOfClient, IdleOfNobody
  <2>4. channels' \in Channels
    <3>1. CASE req.type \in {"JOIN", "LEAVE"}
      <4>1. req.channel \in Channel
        BY <3>1 DEF Requests
      <4> QED
        BY <3>1, <4>1, <1>3, LoggedInRequest, JoinPuts, LeaveTakes DEF Tabled
    <3>2. CASE req.type \notin {"JOIN", "LEAVE"}
      BY <3>2, <1>3, LoggedInRequest DEF Tabled
    <3> QED
      BY <3>1, <3>2
  <2> QED
    BY <1>1, <2>2, <2>3, <2>4 DEF Tabled
<1> QED
  BY <1>2, <1>3 DEF Tabled, OneClient

\* The scan removes nobody but the client, and only for a silence beyond the timeout.
LEMMA ScanKeepsTables ==
    ASSUME Tabled, Server!cleanup_loop
    PROVE  /\ Tabled' /\ UNCHANGED channels
           /\ data' = data \/ (data' = Nobody /\ Server!Idle(me) > TIMEOUT)
<1>1. ASSUME Server!ScanBegin
      PROVE  Tabled' /\ UNCHANGED channels /\ data' = data
  BY <1>1 DEF Server!ScanBegin, Server!tables, Tabled
<1>2. ASSUME NEW p \in UserPtr, Server!ScanKeepUser(p)
      PROVE  Tabled' /\ UNCHANGED channels /\ data' = data
  BY <1>2 DEF Server!ScanKeepUser, Server!Scanning, Tabled
<1>3. ASSUME NEW p \in UserPtr, Server!ScanRemoveUser(p)
      PROVE  Tabled' /\ UNCHANGED channels /\ data' = Nobody /\ Server!Idle(me) > TIMEOUT
  <2>1. p \in data.user_list
    BY <1>3 DEF Server!ScanRemoveUser, Server!Scanning, Tabled
  <2>2. PICK q \in UserPtr, k \in Nat : data = Only(q, k)
    BY <2>1, NobodyFacts DEF Tabled, OneClient
  <2>3. data.user_list = {p} /\ data.heap[p].username = me /\ data.heap[p].idle = k
    BY <2>1, <2>2, OnlyFacts
  <2>4. data' = Nobody
    BY <1>3, <2>3, RemoveOnly DEF Server!ScanRemoveUser, Tabled
  <2>5. Server!Idle(me) > TIMEOUT
    BY <1>3, <2>2, <2>3, IdleOfClient DEF Server!ScanRemoveUser
  <2>6. scan' = {}
    BY <1>3, <2>3 DEF Server!ScanRemoveUser, Server!Scanning, Tabled
  <2>7. UNCHANGED channels /\ OneClient(data')
    BY <1>3, <2>4 DEF Server!ScanRemoveUser, Server!Scanning, OneClient
  <2> QED
    BY <2>4, <2>5, <2>6, <2>7 DEF Tabled
<1>4. ASSUME Server!ScanEnd
      PROVE  Tabled' /\ UNCHANGED channels /\ data' = data
  BY <1>4 DEF Server!ScanEnd, Server!tables, Tabled
<1> QED
  BY <1>1, <1>2, <1>3, <1>4 DEF Server!cleanup_loop

LEMMA TickKeepsTables ==
    ASSUME Tabled, Server!Tick
    PROVE  /\ Tabled' /\ UNCHANGED channels
           /\ data' = Nobody <=> data = Nobody
           /\ data = Nobody => Server!Idle(me)' = 0
           /\ data # Nobody => Server!Idle(me)' = Server!Idle(me) + 1
<1>0. /\ UNCHANGED <<channels, scan, server_lock>> /\ scan = {}
      /\ data' = Server!Aged(data)
  BY DEF Server!Tick, Tabled
<1>1. CASE data = Nobody
  <2>1. data' = Nobody
    BY <1>0, <1>1, AgedNobody
  <2> QED
    BY <1>0, <1>1, <2>1, IdleOfNobody DEF Tabled, OneClient
<1>2. ASSUME NEW p \in UserPtr, NEW k \in Nat, data = Only(p, k)
      PROVE  /\ OneClient(data') /\ data' # Nobody /\ data # Nobody
             /\ Server!Idle(me)' = Server!Idle(me) + 1
  <2>1. data' = Only(p, k + 1) /\ k + 1 \in Nat
    BY <1>0, <1>2, AgedOnly
  <2> QED
    BY <1>2, <2>1, IdleOfClient DEF OneClient
<1> QED
  BY <1>0, <1>1, <1>2 DEF Tabled, OneClient

\* The silence of the client is a number.
LEMMA IdleIsNat == Tabled => Server!Idle(me) \in Nat /\ (data = Nobody => Server!Idle(me) = 0)
BY IdleOfClient, IdleOfNobody DEF Tabled, OneClient
-------------------------------------------------------------------------------
\* The threads of the client, and the datagrams.

Datagram == [req : Requests, age : Nat]

Live == main \notin {"cancel", "exited"}

Round == PERIOD + link.drift

Kinds ==
    /\ main \in {"login", "join", "start", "select", "cancel", "exited"}
    /\ keeper \in {"none", "sleep", "lock", "send", "reset", "cancelled"}
    /\ slept \in Nat /\ activity \in BOOLEAN
    /\ cur_channel \in Channel /\ believed \subseteq Channel
    /\ net \in Seq(Datagram)
    /\ link \in Links

\* The lock belongs to the keep-alive thread between its wait and its reset, and only
\* then does it not send what is due.
Phases ==
    /\ keeper = "none" <=> main \in {"login", "join", "start"}
    /\ keeper = "none" => slept = 0
    /\ keeper = "cancelled" => main \in {"cancel", "exited"}
    /\ client_lock = IF keeper \in {"send", "reset"} THEN "keeper" ELSE "free"
    /\ keeper = "send" => activity = FALSE
    /\ keeper = "reset" /\ ~link.lossy => activity = TRUE
    /\ slept <= Round

\* The login is ahead of everything, and a logout is the last thing said.
Flight ==
    /\ main = "login" => net = <<>>
    /\ \A i \in 1..Len(net) :
          /\ net[i].age <= link.delay
          /\ net[i].req.type = "LOGIN" => i = 1
          /\ net[i].req.type = "LOGOUT" => main \in {"cancel", "exited"}

ThreadsInv == Kinds /\ Phases /\ Flight

LEMMA LinkFacts ==
    ASSUME link \in Links
    PROVE  /\ link.delay \in Nat /\ link.drift \in Nat /\ PERIOD \in Nat
           /\ link.lossy \in BOOLEAN /\ link.fifo \in BOOLEAN
           /\ Round \in Nat /\ PERIOD <= Round
           /\ LongestSilence = 2 * Round + link.delay /\ LongestSilence \in Nat
BY LinksAreLinks, PeriodIsNat DEF Round, LongestSilence

\* What is in flight after a request was sent, and after one is gone.
LEMMA Sent ==
    ASSUME net \in Seq(Datagram), NEW req \in Requests,
           NEW n, n = Append(net, [req |-> req, age |-> 0])
    PROVE  /\ n \in Seq(Datagram) /\ Len(n) = Len(net) + 1 /\ Len(net) \in Nat
           /\ n[Len(net) + 1] = [req |-> req, age |-> 0]
           /\ \A i \in 1..Len(net) : n[i] = net[i]
BY DEF Datagram

LEMMA Gone ==
    ASSUME net \in Seq(Datagram), NEW i \in DOMAIN net
    PROVE  /\ Without(i) \in Seq(Datagram) /\ Len(net) \in Nat /\ i \in 1..Len(net)
           /\ Len(Without(i)) = Len(net) - 1
           /\ \A j \in 1..Len(net) - 1 : Without(i)[j] = IF j < i THEN net[j] ELSE net[j + 1]
<1>1. i \in 1..Len(net) /\ Len(net) \in Nat
  OBVIOUS
<1>2. Without(i) = RemoveAt(net, i)
  BY DEF Without, RemoveAt
<1> QED
  BY <1>1, <1>2, RemoveAtProperties

\* What a request leaves in flight, whether or not it was sent.
LEMMA SendEffect ==
    ASSUME Kinds, Flight, NEW thread, NEW req \in Requests, send_msg(thread, req)
    PROVE  /\ CanLock(thread) /\ UNCHANGED <<client_lock, link>>
           /\ activity' \in BOOLEAN /\ net' \in Seq(Datagram)
           /\ ~link.lossy => activity' = TRUE
           /\ \A i \in 1..Len(net') :
                 /\ net'[i].age <= link.delay
                 /\ net'[i].req.type = "LOGIN" => i = 1 \/ req.type = "LOGIN"
                 /\ net'[i].req.type = "LOGOUT" =>
                       main \in {"cancel", "exited"} \/ req.type = "LOGOUT"
           /\ req.type = "LOGIN" /\ net = <<>> => Len(net') <= 1
<1>1. link.delay \in Nat /\ link.lossy \in BOOLEAN
  BY LinkFacts DEF Kinds
<1>2. CASE activity' = TRUE /\ net' = Append(net, [req |-> req, age |-> 0])
  <2>1. /\ net' \in Seq(Datagram) /\ Len(net') = Len(net) + 1 /\ Len(net) \in Nat
        /\ net'[Len(net) + 1] = [req |-> req, age |-> 0]
        /\ \A i \in 1..Len(net) : net'[i] = net[i]
    BY <1>2, Sent DEF Kinds
  <2>2. ASSUME NEW i \in 1..Len(net')
        PROVE  /\ net'[i].age <= link.delay
               /\ net'[i].req.type = "LOGIN" => i = 1 \/ req.type = "LOGIN"
               /\ net'[i].req.type = "LOGOUT" =>
                     main \in {"cancel", "exited"} \/ req.type = "LOGOUT"
    <3>1. CASE i \in 1..Len(net)
      BY <3>1, <2>1 DEF Flight
    <3>2. CASE i = Len(net) + 1
      BY <3>2, <2>1, <1>1
    <3> QED
      BY <2>1, <3>1, <3>2
  <2>3. net = <<>> => Len(net') <= 1
    BY <2>1
  <2> QED
    BY <1>2, <2>1, <2>2, <2>3 DEF send_msg
<1>3. CASE link.lossy /\ activity' = FALSE /\ UNCHANGED net
  <2>1. net = <<>> => Len(net') <= 1
    BY <1>3
  <2> QED
    BY <1>1, <1>3, <2>1 DEF send_msg, Flight, Kinds
<1> QED
  BY <1>2, <1>3 DEF send_msg

LEMMA RequestsAre ==
    /\ \A type \in {"LOGIN", "LOGOUT", "LIST", "KEEP_ALIVE"} :
          Request(type) \in Requests /\ Request(type).type = type
    /\ \A type \in {"JOIN", "LEAVE", "SAY", "WHO"}, c \in Channel :
          /\ RequestOn(type, c) \in Requests
          /\ RequestOn(type, c).type = type /\ RequestOn(type, c).channel = c
BY DEF Request, RequestOn, Requests

LEMMA MainKeepsThreads ==
    ASSUME ThreadsInv, MainThread
    PROVE  ThreadsInv'
<1> USE DEF ThreadsInv
<1>1. CASE handle_cmd_login
  <2> DEFINE req == Request("LOGIN")
  <2>1. req \in Requests /\ req.type = "LOGIN"
    BY RequestsAre
  <2>2. /\ main = "login" /\ main' = "join" /\ send_msg("main", req)
        /\ UNCHANGED <<keeper, slept, cur_channel, believed>>
    BY <1>1 DEF handle_cmd_login
  <2> HIDE DEF req
  <2>3. Kinds'
    BY <2>1, <2>2, SendEffect DEF Kinds
  <2>4. Phases'
    BY <2>1, <2>2, SendEffect DEF Phases, Round
  <2>5. Flight'
    <3>0. net' \in Seq(Datagram)
      BY <2>1, <2>2, SendEffect
    <3>1. Len(net') <= 1 /\ Len(net') \in Nat
      <4>1. net = <<>>
        BY <2>2 DEF Flight
      <4>2. Len(net') <= 1
        BY <4>1, <2>1, <2>2, SendEffect
      <4> QED
        BY <4>2, <3>0
    <3>2. \A i \in 1..Len(net') : i = 1
      BY <3>1
    <3> QED
      BY <3>2, <2>1, <2>2, SendEffect DEF Flight
  <2> QED
    BY <2>3, <2>4, <2>5
<1>2. CASE JoinCommon
  <2> DEFINE req == RequestOn("JOIN", COMMON)
  <2>1. req \in Requests /\ req.type = "JOIN"
    BY RequestsAre, CommonIsChannel
  <2>2. /\ main = "join" /\ main' = "start" /\ send_msg("main", req)
        /\ believed' = believed \cup {COMMON} /\ UNCHANGED <<keeper, slept, cur_channel>>
    BY <1>2 DEF JoinCommon
  <2> HIDE DEF req
  <2>3. Kinds'
    BY <2>1, <2>2, SendEffect, CommonIsChannel DEF Kinds
  <2>4. Phases'
    BY <2>1, <2>2, SendEffect DEF Phases, Round
  <2>5. Flight'
    BY <2>1, <2>2, SendEffect DEF Flight
  <2> QED
    BY <2>3, <2>4, <2>5
<1>3. CASE StartKeeper
  <2>1. Kinds'
    BY <1>3 DEF StartKeeper, Kinds
  <2>2. Phases'
    BY <1>3, LinkFacts DEF StartKeeper, Phases, Kinds, Round
  <2>3. Flight'
    BY <1>3 DEF StartKeeper, Flight
  <2> QED
    BY <2>1, <2>2, <2>3
<1>4. CASE Cancelled
  BY <1>4 DEF Cancelled, Kinds, Phases, Flight, Round
<1>5. CASE handle_cmd_exit
  BY <1>5 DEF handle_cmd_exit, Kinds, Phases, Flight, Round
<1> QED
  BY <1>1, <1>2, <1>3, <1>4, <1>5 DEF MainThread

\* Every command but switch sends a request, and only logout ends the thread.
LEMMA CommandSends ==
    ASSUME Kinds, Command
    PROVE  \/ /\ \E c \in Channel : cur_channel' = c
              /\ UNCHANGED <<threads, activity, client_lock, believed, net, link>>
           \/ \E req \in Requests :
                 /\ main = "select" /\ send_msg("main", req) /\ req.type # "LOGIN"
                 /\ UNCHANGED <<keeper, slept, cur_channel>>
                 /\ IF req.type = "LOGOUT" THEN main' = "cancel" ELSE UNCHANGED main
                 /\ believed' = IF req.type = "JOIN" THEN believed \cup {req.channel}
                                ELSE IF req.type = "LEAVE" THEN believed \ {req.channel}
                                ELSE believed
<1> DEFINE Sends(req) ==
              /\ req \in Requests
              /\ main = "select" /\ send_msg("main", req) /\ req.type # "LOGIN"
              /\ UNCHANGED <<keeper, slept, cur_channel>>
              /\ IF req.type = "LOGOUT" THEN main' = "cancel" ELSE UNCHANGED main
              /\ believed' = IF req.type = "JOIN" THEN believed \cup {req.channel}
                             ELSE IF req.type = "LEAVE" THEN believed \ {req.channel}
                             ELSE believed
<1>1. CASE handle_cmd_say
  <2>1. Sends(RequestOn("SAY", cur_channel))
    BY <1>1, RequestsAre DEF handle_cmd_say, SendCommand, Typed, threads, Kinds
  <2> QED
    BY <2>1
<1>2. CASE handle_cmd_list
  <2>1. Sends(Request("LIST"))
    BY <1>2, RequestsAre DEF handle_cmd_list, SendCommand, Typed, threads
  <2> QED
    BY <2>1
<1>3. CASE handle_cmd_logout
  <2>1. Sends(Request("LOGOUT"))
    BY <1>3, RequestsAre DEF handle_cmd_logout, Typed
  <2> QED
    BY <2>1
<1>4. ASSUME NEW c \in Channel, handle_cmd_who(c)
      PROVE  Sends(RequestOn("WHO", c))
  BY <1>4, RequestsAre DEF handle_cmd_who, SendCommand, Typed, threads
<1>5. ASSUME NEW c \in Channel, handle_cmd_join(c)
      PROVE  Sends(RequestOn("JOIN", c))
  BY <1>5, RequestsAre DEF handle_cmd_join, SendCommand, Typed, threads
<1>6. ASSUME NEW c \in Channel, handle_cmd_leave(c)
      PROVE  Sends(RequestOn("LEAVE", c))
  BY <1>6, RequestsAre DEF handle_cmd_leave, SendCommand, Typed, threads
<1>7. ASSUME NEW c \in Channel, handle_cmd_switch(c)
      PROVE  cur_channel' = c /\ UNCHANGED <<threads, activity, client_lock, believed, net, link>>
  BY <1>7 DEF handle_cmd_switch
<1> QED
  BY <1>1, <1>2, <1>3, <1>4, <1>5, <1>6, <1>7 DEF Command

LEMMA CommandKeepsThreads ==
    ASSUME ThreadsInv, Command
    PROVE  ThreadsInv'
<1> USE DEF ThreadsInv
<1>1. CASE /\ \E c \in Channel : cur_channel' = c
           /\ UNCHANGED <<threads, activity, client_lock, believed, net, link>>
  BY <1>1 DEF threads, Kinds, Phases, Flight, Round
<1>2. ASSUME NEW req \in Requests,
             main = "select", send_msg("main", req), req.type # "LOGIN",
             UNCHANGED <<keeper, slept, cur_channel>>,
             IF req.type = "LOGOUT" THEN main' = "cancel" ELSE UNCHANGED main,
             believed' = IF req.type = "JOIN" THEN believed \cup {req.channel}
                         ELSE IF req.type = "LEAVE" THEN believed \ {req.channel}
                         ELSE believed
      PROVE  ThreadsInv'
  <2>1. Kinds'
    <3>1. believed' \subseteq Channel
      BY <1>2 DEF Kinds, Requests
    <3> QED
      BY <3>1, <1>2, SendEffect DEF Kinds
  <2>2. Phases'
    <3>1. CanLock("main") /\ UNCHANGED <<client_lock, link>>
      BY <1>2, SendEffect
    <3>2. keeper \notin {"send", "reset", "none"}
      BY <1>2, <3>1 DEF Phases, CanLock
    <3>3. main' \in {"select", "cancel"}
      BY <1>2
    <3>4. keeper # "cancelled"
      BY <1>2 DEF Phases
    <3> QED
      BY <1>2, <3>1, <3>2, <3>3, <3>4 DEF Phases, Round
  <2>3. Flight'
    BY <1>2, SendEffect DEF Flight
  <2> QED
    BY <2>1, <2>2, <2>3
<1> QED
  BY <1>1, <1>2, CommandSends

LEMMA KeeperKeepsThreads ==
    ASSUME ThreadsInv, keep_alive_loop
    PROVE  ThreadsInv'
<1> USE DEF ThreadsInv
<1>1. CASE Wake
  BY <1>1 DEF Wake, Kinds, Phases, Flight, Round
<1>2. CASE KeeperLock
  BY <1>2 DEF KeeperLock, Kinds, Phases, Flight, Round
<1>3. CASE KeeperSend
  <2> DEFINE req == Request("KEEP_ALIVE")
  <2>1. req \in Requests /\ req.type = "KEEP_ALIVE"
    BY RequestsAre
  <2>2. /\ keeper = "send" /\ keeper' = "reset" /\ send_msg("keeper", req)
        /\ UNCHANGED <<main, slept, cur_channel, believed>>
    BY <1>3 DEF KeeperSend
  <2> HIDE DEF req
  <2>3. Kinds'
    BY <2>1, <2>2, SendEffect DEF Kinds
  <2>4. Phases'
    BY <2>1, <2>2, SendEffect DEF Phases, Round
  <2>5. Flight'
    <3>1. main # "login"
      BY <2>2 DEF Phases
    <3> QED
      BY <3>1, <2>1, <2>2, SendEffect DEF Flight
  <2> QED
    BY <2>3, <2>4, <2>5
<1>4. CASE KeeperReset
  <2>1. Kinds' /\ Flight'
    BY <1>4 DEF KeeperReset, Kinds, Flight
  <2>2. Phases'
    BY <1>4, LinkFacts DEF KeeperReset, Phases, Kinds, Round
  <2> QED
    BY <2>1, <2>2
<1> QED
  BY <1>1, <1>2, <1>3, <1>4 DEF keep_alive_loop

LEMMA GoneKeepsThreads ==
    ASSUME ThreadsInv, NEW i \in DOMAIN net, net' = Without(i),
           UNCHANGED <<threads, activity, client_lock, cur_channel, believed, link>>
    PROVE  ThreadsInv'
<1> USE DEF ThreadsInv
<1>1. /\ net' \in Seq(Datagram) /\ Len(net) \in Nat /\ i \in 1..Len(net)
      /\ Len(net') = Len(net) - 1
      /\ \A j \in 1..Len(net) - 1 : net'[j] = IF j < i THEN net[j] ELSE net[j + 1]
  BY Gone DEF Kinds
<1>2. main # "login"
  <2>1. main = "login" => Len(net) = 0
    BY DEF Flight
  <2> QED
    BY <2>1, <1>1
<1>3. ASSUME NEW j \in 1..Len(net')
      PROVE  /\ net'[j].age <= link.delay
             /\ net'[j].req.type = "LOGIN" => j = 1
             /\ net'[j].req.type = "LOGOUT" => main \in {"cancel", "exited"}
  <2>1. j \in 1..Len(net) /\ j + 1 \in 1..Len(net) /\ j + 1 # 1
    BY <1>1
  <2>2. net'[j] = net[j] \/ net'[j] = net[j + 1]
    BY <1>1
  <2> QED
    BY <2>1, <2>2 DEF Flight
<1>4. Kinds' /\ Phases'
  BY <1>1 DEF threads, Kinds, Phases, Round
<1>5. Flight'
  BY <1>2, <1>3 DEF threads, Flight
<1> QED
  BY <1>4, <1>5

\* Time passes only while nothing is late and the thread sleeps.
LEMMA TickKeepsThreads ==
    ASSUME ThreadsInv, Tick
    PROVE  /\ ThreadsInv'
           /\ Len(net') = Len(net) /\ Len(net) \in Nat
           /\ \A i \in 1..Len(net) : net'[i].req = net[i].req /\ net'[i].age = net[i].age + 1
<1> USE DEF ThreadsInv
<1>0. net \in Seq(Datagram) /\ Len(net) \in Nat /\ DOMAIN net = 1..Len(net)
  BY DEF Kinds
<1>1. net' = [i \in 1..Len(net) |-> [net[i] EXCEPT !.age = @ + 1]]
  BY <1>0 DEF Tick
<1>2. ASSUME NEW i \in 1..Len(net)
      PROVE  /\ [net[i] EXCEPT !.age = @ + 1] \in Datagram
             /\ [net[i] EXCEPT !.age = @ + 1].req = net[i].req
             /\ [net[i] EXCEPT !.age = @ + 1].age = net[i].age + 1
             /\ net[i].age \in Nat
  <2>1. net[i] \in Datagram
    BY <1>0
  <2> QED
    BY <2>1 DEF Datagram
<1>3. net' \in Seq(Datagram) /\ Len(net') = Len(net)
  BY <1>0, <1>1, <1>2
<1>4. \A i \in 1..Len(net) : net'[i].req = net[i].req /\ net'[i].age = net[i].age + 1
  BY <1>1, <1>2
<1>5. Kinds'
  BY <1>3 DEF Tick, Kinds
<1>6. Phases'
  <2>1. slept' <= Round
    <3>1. Round \in Nat /\ slept \in Nat /\ slept <= Round
      BY LinkFacts DEF Kinds, Phases
    <3>2. slept' = slept \/ (slept' = slept + 1 /\ slept < Round)
      BY DEF Tick, Round
    <3> QED
      BY <3>1, <3>2
  <2> QED
    BY <2>1 DEF Tick, Phases, Round
<1>7. Flight'
  <2>1. link.delay \in Nat
    BY LinkFacts DEF Kinds
  <2>2. ASSUME NEW i \in 1..Len(net)
        PROVE  net'[i].age <= link.delay
    <3>1. net[i].age < link.delay
      BY <1>0 DEF Tick
    <3>2. net'[i].age = net[i].age + 1
      BY <1>4
    <3>3. net[i].age \in Nat
      BY <1>2
    <3> QED
      BY <3>1, <3>2, <3>3, <2>1
  <2>3. main' = main /\ link' = link /\ main # "login"
    BY DEF Tick, Resting
  <2> QED
    BY <2>2, <2>3, <1>3, <1>4 DEF Flight
<1> QED
  BY <1>0, <1>3, <1>4, <1>5, <1>6, <1>7

\* A step of the client sends one request, or leaves what is in flight alone.
Told(req) == IF req.type = "JOIN" THEN believed \cup {req.channel}
             ELSE IF req.type = "LEAVE" THEN believed \ {req.channel}
             ELSE believed

Sends(thread, req) ==
    /\ send_msg(thread, req) /\ slept' = slept
    /\ req.type = "LOGIN" <=> main = "login"
    /\ believed' = Told(req)

Quiet ==
    /\ UNCHANGED <<net, believed>> /\ main # "login"
    /\ \/ UNCHANGED <<slept, activity>>
       \/ slept = 0 /\ slept' = 0 /\ UNCHANGED activity
       \/ keeper = "reset" /\ slept' = 0 /\ activity' = FALSE

Onward == link' = link /\ (Live' => Live) /\ main' # "login"

LEMMA ClientSteps ==
    ASSUME ThreadsInv, MainThread \/ Command \/ keep_alive_loop
    PROVE  Onward /\ (Quiet \/ \E thread \in {"main", "keeper"}, req \in Requests : Sends(thread, req))
<1> USE DEF ThreadsInv
<1>1. CASE handle_cmd_login
  <2>1. Request("LOGIN") \in Requests /\ Request("LOGIN").type = "LOGIN"
    BY RequestsAre
  <2>2. Sends("main", Request("LOGIN"))
    BY <1>1, <2>1 DEF handle_cmd_login, Sends, Told
  <2>3. Onward
    BY <1>1 DEF handle_cmd_login, send_msg, Live, Onward
  <2> QED
    BY <2>1, <2>2, <2>3
<1>2. CASE JoinCommon
  <2>1. /\ RequestOn("JOIN", COMMON) \in Requests /\ RequestOn("JOIN", COMMON).type = "JOIN"
        /\ RequestOn("JOIN", COMMON).channel = COMMON
    BY RequestsAre, CommonIsChannel
  <2>2. Sends("main", RequestOn("JOIN", COMMON))
    BY <1>2, <2>1 DEF JoinCommon, Sends, Told
  <2>3. Onward
    BY <1>2 DEF JoinCommon, send_msg, Live, Onward
  <2> QED
    BY <2>1, <2>2, <2>3
<1>3. CASE StartKeeper
  <2>1. slept = 0
    BY <1>3 DEF StartKeeper, Phases
  <2> QED
    BY <1>3, <2>1 DEF StartKeeper, Live, Onward, Quiet
<1>4. CASE Cancelled \/ handle_cmd_exit
  BY <1>4 DEF Cancelled, handle_cmd_exit, Live, Onward, Quiet
<1>5. CASE Command
  <2>1. ASSUME UNCHANGED <<threads, activity, client_lock, believed, net, link>>
        PROVE  Quiet /\ Onward
    BY <2>1, <1>5 DEF threads, Live, Onward, Quiet, Command, SendCommand, Typed, handle_cmd_say, handle_cmd_list,
       handle_cmd_logout, handle_cmd_who, handle_cmd_join, handle_cmd_leave, handle_cmd_switch
  <2>2. ASSUME NEW req \in Requests,
               main = "select", send_msg("main", req), req.type # "LOGIN",
               UNCHANGED <<keeper, slept, cur_channel>>,
               IF req.type = "LOGOUT" THEN main' = "cancel" ELSE UNCHANGED main,
               believed' = Told(req)
        PROVE  Sends("main", req) /\ Onward
    BY <2>2 DEF Live, send_msg, Sends, Onward
  <2> DEFINE Typing == UNCHANGED <<threads, activity, client_lock, believed, net, link>>
             Saying(req) == /\ main = "select" /\ send_msg("main", req) /\ req.type # "LOGIN"
                            /\ UNCHANGED <<keeper, slept, cur_channel>>
                            /\ IF req.type = "LOGOUT" THEN main' = "cancel" ELSE UNCHANGED main
                            /\ believed' = Told(req)
  <2>3. Typing \/ \E req \in Requests : Saying(req)
    BY <1>5, CommandSends DEF Told
  <2>4. Typing => Quiet /\ Onward
    BY <2>1
  <2>5. \A req \in Requests : Saying(req) => Sends("main", req) /\ Onward
    BY <2>2
  <2> HIDE DEF Saying, Typing
  <2>6. Onward /\ (Quiet \/ \E req \in Requests : Sends("main", req))
    BY <2>3, <2>4, <2>5
  <2> QED
    BY <2>6
<1>6. CASE Wake \/ KeeperLock
  BY <1>6 DEF Wake, KeeperLock, Live, Phases, Onward, Quiet
<1>7. CASE KeeperSend
  <2>1. Request("KEEP_ALIVE") \in Requests /\ Request("KEEP_ALIVE").type = "KEEP_ALIVE"
    BY RequestsAre
  <2>2. main # "login"
    BY <1>7 DEF KeeperSend, Phases
  <2>3. Sends("keeper", Request("KEEP_ALIVE"))
    BY <1>7, <2>1, <2>2 DEF KeeperSend, Sends, Told
  <2>4. Onward
    BY <1>7, <2>2 DEF KeeperSend, send_msg, Live, Onward
  <2> QED
    BY <2>1, <2>3, <2>4
<1>8. CASE KeeperReset
  BY <1>8 DEF KeeperReset, Live, Phases, Onward, Quiet
<1> QED
  BY <1>1, <1>2, <1>3, <1>4, <1>5, <1>6, <1>7, <1>8 DEF MainThread, keep_alive_loop
-------------------------------------------------------------------------------
\* The client and the server together.

PairInv == ThreadsInv /\ Tabled

LEMMA PairInit == Init => PairInv
<1> SUFFICES ASSUME Init PROVE PairInv
  OBVIOUS
<1>1. ThreadsInv
  <2>1. Round \in Nat
    BY LinkFacts DEF Init, ClientInit
  <2>2. net = <<>> /\ net \in Seq(Datagram) /\ Len(net) = 0
    BY DEF Init, ClientInit
  <2>3. Kinds
    BY <2>2, CommonIsChannel DEF Init, ClientInit, Kinds
  <2>4. Phases
    BY <2>1 DEF Init, ClientInit, Phases
  <2>5. Flight
    BY <2>2 DEF Flight
  <2> QED
    BY <2>3, <2>4, <2>5 DEF ThreadsInv
<1>2. Tabled
  BY NobodyFacts DEF Init, Server!Init, Tabled, OneClient, Channels
<1> QED
  BY <1>1, <1>2 DEF PairInv

\* A datagram that arrives is a request of the client.
LEMMA Arrives ==
    ASSUME PairInv, NEW i \in DOMAIN net, Deliver(i)
    PROVE  /\ net[i].req \in Requests /\ Handle(net[i].req)
           /\ net' = Without(i) /\ i \in 1..Len(net)
           /\ UNCHANGED <<threads, activity, client_lock, cur_channel, believed, link>>
<1>1. net \in Seq(Datagram)
  BY DEF PairInv, ThreadsInv, Kinds
<1>2. net[i] \in Datagram /\ i \in 1..Len(net)
  BY <1>1
<1> QED
  BY <1>2 DEF Deliver, Datagram

LEMMA TablesStay == Tabled /\ UNCHANGED <<data, channels, scan, server_lock>> => Tabled'
BY DEF Tabled

LEMMA PairStep == PairInv /\ [Next]_vars => PairInv'
<1> SUFFICES ASSUME PairInv, [Next]_vars PROVE PairInv'
  OBVIOUS
<1> USE DEF PairInv
<1>1. CASE ClientStep
  <2>1. Tabled'
    BY <1>1, TablesStay DEF ClientStep, serverVars
  <2>2. ThreadsInv'
    BY <1>1, MainKeepsThreads, CommandKeepsThreads, KeeperKeepsThreads DEF ClientStep
  <2> QED
    BY <2>1, <2>2
<1>2. ASSUME NEW i \in DOMAIN net, Deliver(i)
      PROVE  PairInv'
  BY <1>2, Arrives, GoneKeepsThreads, HandleKeepsTables
<1>3. ASSUME NEW i \in DOMAIN net, Lose(i)
      PROVE  PairInv'
  <2>1. Tabled'
    BY <1>3, TablesStay DEF Lose, serverVars
  <2>2. ThreadsInv'
    BY <1>3, GoneKeepsThreads DEF Lose
  <2> QED
    BY <2>1, <2>2
<1>4. CASE ServerScan
  <2>1. Tabled'
    BY <1>4, ScanKeepsTables DEF ServerScan
  <2>2. ThreadsInv'
    BY <1>4 DEF ServerScan, clientVars, threads, ThreadsInv, Kinds, Phases, Flight, Round
  <2> QED
    BY <2>1, <2>2
<1>5. CASE Tick
  BY <1>5, TickKeepsThreads, TickKeepsTables DEF Tick
<1>6. CASE UNCHANGED vars
  <2>1. Tabled'
    BY <1>6, TablesStay DEF vars, serverVars
  <2>2. ThreadsInv'
    BY <1>6 DEF vars, clientVars, threads, ThreadsInv, Kinds, Phases, Flight, Round
  <2> QED
    BY <2>1, <2>2
<1> QED
  BY <1>1, <1>2, <1>3, <1>4, <1>5, <1>6 DEF Next
-------------------------------------------------------------------------------
\* How long the server has not heard from the client.

\* If nothing is on its way, the thread will find that nothing was sent after its
\* sleep; if something is, it was sent in the second round at the latest.
Heard ==
    Live /\ ~link.lossy =>
        IF net = <<>> THEN Server!Idle(me) <= slept + (IF activity THEN 0 ELSE Round)
        ELSE Server!Idle(me) <= net[1].age + 2 * Round

LEMMA HeardInit == Init => Heard
<1> SUFFICES ASSUME Init PROVE Heard
  OBVIOUS
<1>1. data = Nobody
  BY NobodyFacts DEF Init, Server!Init
<1>2. Server!Idle(me) = 0 /\ Round \in Nat
  BY <1>1, IdleOfNobody, LinkFacts DEF Init, ClientInit
<1> QED
  BY <1>2 DEF Init, ClientInit, Heard

\* However that is, it is not longer than two rounds and a delay.
LEMMA SilenceBound ==
    ASSUME PairInv, Heard, Live, ~link.lossy
    PROVE  Server!Idle(me) <= LongestSilence
<1>1. /\ Round \in Nat /\ link.delay \in Nat /\ slept \in Nat /\ slept <= Round
      /\ LongestSilence = 2 * Round + link.delay
  BY LinkFacts DEF PairInv, ThreadsInv, Kinds, Phases
<1>2. Server!Idle(me) \in Nat
  BY IdleIsNat DEF PairInv
<1>3. CASE net = <<>>
  BY <1>1, <1>2, <1>3 DEF Heard
<1>4. CASE net # <<>>
  <2>1. net[1].age \in Nat /\ net[1].age <= link.delay
    <3>1. net \in Seq(Datagram)
      BY DEF PairInv, ThreadsInv, Kinds
    <3>2. 1 \in 1..Len(net) /\ net[1] \in Datagram
      BY <1>4, <3>1
    <3> QED
      BY <3>2 DEF Datagram, PairInv, ThreadsInv, Flight
  <2>2. Server!Idle(me) <= net[1].age + 2 * Round
    BY <1>4 DEF Heard
  <2> QED
    BY <1>1, <1>2, <2>1, <2>2
<1> QED
  BY <1>3, <1>4

LEMMA HeardStep == PairInv /\ Heard /\ [Next]_vars => Heard'
<1> SUFFICES ASSUME PairInv, Heard, [Next]_vars, Live', ~link'.lossy
             PROVE  IF net' = <<>> THEN Server!Idle(me)' <= slept' + (IF activity' THEN 0 ELSE Round')
                    ELSE Server!Idle(me)' <= net'[1].age + 2 * Round'
  BY DEF Heard
<1>0. /\ Round \in Nat /\ slept \in Nat /\ slept <= Round /\ Server!Idle(me) \in Nat
      /\ net \in Seq(Datagram) /\ activity \in BOOLEAN
      /\ net # <<>> => net[1].age \in Nat
  <2>1. net \in Seq(Datagram)
    BY DEF PairInv, ThreadsInv, Kinds
  <2>2. net # <<>> => net[1] \in Datagram
    BY <2>1
  <2> QED
    BY <2>1, <2>2, IdleIsNat, LinkFacts DEF PairInv, ThreadsInv, Kinds, Phases, Datagram
<1>1. CASE ClientStep
  <2>1. Server!Idle(me)' = Server!Idle(me)
    BY <1>1 DEF ClientStep, serverVars, Server!Idle
  <2>2. /\ link' = link /\ Live
        /\ \/ \E thread \in {"main", "keeper"}, req \in Requests :
                 send_msg(thread, req) /\ slept' = slept
           \/ /\ UNCHANGED net
              /\ \/ UNCHANGED <<slept, activity>>
                 \/ slept = 0 /\ slept' = 0 /\ UNCHANGED activity
                 \/ keeper = "reset" /\ slept' = 0 /\ activity' = FALSE
    <3>1. Onward /\ (Quiet \/ \E thread \in {"main", "keeper"}, req \in Requests : Sends(thread, req))
      BY <1>1, ClientSteps DEF ClientStep, PairInv
    <3> QED
      BY <3>1 DEF Onward, Quiet, Sends
  <2>3. Round' = Round /\ ~link.lossy
    BY <2>2 DEF Round
  <2>4. Server!Idle(me) <= (IF net = <<>> THEN slept + (IF activity THEN 0 ELSE Round)
                            ELSE net[1].age + 2 * Round)
    BY <2>2, <2>3 DEF Heard
  <2>5. ASSUME NEW thread \in {"main", "keeper"}, NEW req \in Requests, send_msg(thread, req)
        PROVE  net' # <<>> /\ Server!Idle(me)' <= net'[1].age + 2 * Round'
    <3>1. net' = Append(net, [req |-> req, age |-> 0])
      BY <2>5, <2>3 DEF send_msg
    <3>2. /\ net' \in Seq(Datagram) /\ Len(net') = Len(net) + 1 /\ Len(net) \in Nat
          /\ net'[Len(net) + 1] = [req |-> req, age |-> 0]
          /\ \A i \in 1..Len(net) : net'[i] = net[i]
      BY <3>1, <1>0, Sent
    <3>3. net' # <<>>
      BY <3>2
    <3>4. CASE net = <<>>
      <4>1. net'[1].age = 0
        BY <3>2, <3>4
      <4>2. Server!Idle(me) <= 2 * Round
        BY <2>4, <3>4, <1>0
      <4> QED
        BY <3>3, <4>1, <4>2, <2>1, <2>3, <1>0
    <3>5. CASE net # <<>>
      <4>1. net'[1] = net[1]
        BY <3>2, <3>5, <1>0
      <4> QED
        BY <3>3, <3>5, <4>1, <2>1, <2>3, <2>4
    <3> QED
      BY <3>4, <3>5
  <2>6. ASSUME UNCHANGED net, \/ UNCHANGED <<slept, activity>>
                              \/ slept = 0 /\ slept' = 0 /\ UNCHANGED activity
        PROVE  Server!Idle(me)' <= (IF net' = <<>> THEN slept' + (IF activity' THEN 0 ELSE Round')
                                   ELSE net'[1].age + 2 * Round')
    BY <2>1, <2>3, <2>4, <2>6
  <2>7. ASSUME UNCHANGED net, keeper = "reset", slept' = 0, activity' = FALSE
        PROVE  Server!Idle(me)' <= (IF net' = <<>> THEN slept' + (IF activity' THEN 0 ELSE Round')
                                   ELSE net'[1].age + 2 * Round')
    <3>1. activity = TRUE
      BY <2>7, <2>3 DEF PairInv, ThreadsInv, Phases
    <3> QED
      BY <2>1, <2>3, <2>4, <2>7, <3>1, <1>0
  <2> QED
    BY <2>2, <2>5, <2>6, <2>7
<1>2. ASSUME NEW i \in DOMAIN net, Deliver(i)
      PROVE  Server!Idle(me)' <= (IF net' = <<>> THEN slept' + (IF activity' THEN 0 ELSE Round')
                                 ELSE net'[1].age + 2 * Round')
  <2>1. Server!Idle(me)' = 0 /\ slept' = slept /\ Round' = Round
    BY <1>2, Arrives, HandleKeepsTables DEF PairInv, threads, Round
  <2>2. net' # <<>> => net'[1].age \in Nat
    <3>1. PairInv'
      BY PairStep
    <3>2. net' \in Seq(Datagram)
      BY <3>1 DEF PairInv, ThreadsInv, Kinds
    <3>3. net' # <<>> => net'[1] \in Datagram
      BY <3>2
    <3> QED
      BY <3>3 DEF Datagram
  <2> QED
    BY <2>1, <2>2, <1>0
<1>3. ASSUME NEW i \in DOMAIN net, Lose(i)
      PROVE  FALSE
  BY <1>3 DEF Lose
<1>4. CASE ServerScan
  <2>1. UNCHANGED <<threads, activity, net, link>>
    BY <1>4 DEF ServerScan, clientVars
  <2>2. Server!Idle(me)' <= Server!Idle(me)
    <3>1. data' = data \/ data' = Nobody
      BY <1>4, ScanKeepsTables DEF ServerScan, PairInv
    <3>2. CASE data' = data
      BY <3>2, <1>0 DEF Server!Idle
    <3>3. CASE data' = Nobody
      BY <3>3, IdleOfNobody, <1>0
    <3> QED
      BY <3>1, <3>2, <3>3
  <2>3. Live /\ ~link.lossy /\ Round' = Round /\ Server!Idle(me)' \in Nat
    <3>1. Tabled'
      BY PairStep DEF PairInv
    <3>2. Server!Idle(me)' \in Nat
      BY <1>4, ScanKeepsTables, IdleOfNobody, <1>0 DEF ServerScan, PairInv, Server!Idle
    <3> QED
      BY <2>1, <3>2 DEF Live, threads, Round
  <2>4. Server!Idle(me) <= (IF net = <<>> THEN slept + (IF activity THEN 0 ELSE Round)
                            ELSE net[1].age + 2 * Round)
    BY <2>3 DEF Heard
  <2> QED
    BY <2>1, <2>2, <2>3, <2>4, <1>0 DEF threads
<1>5. CASE Tick
  <2>1. /\ main \in {"select", "exited"} /\ keeper \in {"none", "sleep", "cancelled"}
        /\ main' = main /\ activity' = activity /\ link' = link
        /\ slept' = IF keeper = "sleep" THEN slept + 1 ELSE slept
    BY <1>5 DEF Tick, Resting
  <2>2. Live /\ ~link.lossy /\ Round' = Round
    BY <2>1 DEF Live, Round
  <2>3. slept' = slept + 1
    BY <2>1, <2>2 DEF Live, PairInv, ThreadsInv, Phases
  <2>4. Server!Idle(me)' <= Server!Idle(me) + 1 /\ Server!Idle(me)' \in Nat
    <3>1. Server!Tick
      BY <1>5 DEF Tick
    <3> QED
      BY <3>1, TickKeepsTables, <1>0 DEF PairInv
  <2>5. Server!Idle(me) <= (IF net = <<>> THEN slept + (IF activity THEN 0 ELSE Round)
                            ELSE net[1].age + 2 * Round)
    BY <2>2 DEF Heard
  <2>6. /\ Len(net') = Len(net) /\ Len(net) \in Nat
        /\ \A i \in 1..Len(net) : net'[i].age = net[i].age + 1
    BY <1>5, TickKeepsThreads DEF PairInv
  <2>7. CASE net = <<>>
    BY <2>1, <2>2, <2>3, <2>4, <2>5, <2>7, <2>6, <1>0
  <2>8. CASE net # <<>>
    <3>1. 1 \in 1..Len(net) /\ net' # <<>>
      BY <2>8, <2>6, <1>0
    <3>2. net'[1].age = net[1].age + 1
      BY <3>1, <2>6
    <3> QED
      BY <3>1, <3>2, <2>8, <2>2, <2>4, <2>5, <1>0
  <2> QED
    BY <2>7, <2>8
<1>6. CASE UNCHANGED vars
  BY <1>6 DEF Heard, vars, clientVars, serverVars, threads, Live, Round, Server!Idle
<1> QED
  BY <1>1, <1>2, <1>3, <1>4, <1>5, <1>6 DEF Next
-------------------------------------------------------------------------------
\* The client is not logged out.

Kept ==
    Live /\ main # "login" /\ ~link.lossy /\ LongestSilence <= TIMEOUT /\ LoginArrived
        => data # Nobody

LEMMA KeptInit == Init => Kept
BY DEF Init, ClientInit, Kept

LEMMA KeptStep == PairInv /\ Heard /\ Kept /\ [Next]_vars => Kept'
<1> SUFFICES ASSUME PairInv, Heard, Kept, [Next]_vars,
                    Live', main' # "login", ~link'.lossy, LongestSilence' <= TIMEOUT, LoginArrived'
             PROVE  data' # Nobody
  BY DEF Kept
<1>0. net \in Seq(Datagram) /\ Len(net) \in Nat /\ DOMAIN net = 1..Len(net)
  BY DEF PairInv, ThreadsInv, Kinds
<1>1. CASE ClientStep
  <2>1. Onward /\ (Quiet \/ \E thread \in {"main", "keeper"}, req \in Requests : Sends(thread, req))
    BY <1>1, ClientSteps DEF ClientStep, PairInv
  <2>2. Live /\ ~link.lossy /\ LongestSilence <= TIMEOUT /\ data' = data
    BY <1>1, <2>1 DEF Onward, ClientStep, serverVars, LongestSilence
  <2>3. CASE Quiet
    <3>1. main # "login" /\ LoginArrived
      BY <2>3 DEF Quiet, LoginArrived
    <3> QED
      BY <2>2, <3>1 DEF Kept
  <2>4. ASSUME NEW thread \in {"main", "keeper"}, NEW req \in Requests, Sends(thread, req)
        PROVE  data' # Nobody
    <3>1. net' = Append(net, [req |-> req, age |-> 0])
      BY <2>2, <2>4 DEF Sends, send_msg
    <3>2. /\ net' \in Seq(Datagram) /\ Len(net') = Len(net) + 1
          /\ net'[Len(net) + 1] = [req |-> req, age |-> 0]
          /\ \A i \in 1..Len(net) : net'[i] = net[i]
      BY <3>1, <1>0, Sent
    <3>3. \A i \in 1..Len(net) + 1 : net'[i].req.type # "LOGIN"
      BY <3>2 DEF LoginArrived
    <3>4. req.type # "LOGIN"
      <4>1. Len(net) + 1 \in 1..Len(net) + 1
        BY <1>0
      <4> QED
        BY <3>2, <3>3, <4>1
    <3>5. LoginArrived
      <4>1. \A i \in 1..Len(net) : i \in 1..Len(net) + 1
        BY <1>0
      <4> QED
        BY <3>2, <3>3, <4>1, <1>0 DEF LoginArrived
    <3> QED
      BY <2>2, <2>4, <3>4, <3>5 DEF Kept, Sends
  <2> QED
    BY <2>1, <2>3, <2>4
<1>2. ASSUME NEW i \in DOMAIN net, Deliver(i)
      PROVE  data' # Nobody
  <2>1. /\ net[i].req \in Requests /\ Handle(net[i].req) /\ net' = Without(i) /\ i \in 1..Len(net)
        /\ main' = main /\ link' = link
    BY <1>2, Arrives DEF threads
  <2>2. CASE net[i].req.type = "LOGIN"
    <3>1. \E q \in UserPtr : data' = Only(q, 0)
      BY <2>1, <2>2, LoggedInRequest, StrangersRequest DEF PairInv, Tabled, OneClient
    <3> QED
      BY <3>1, IdleOfClient
  <2>3. CASE net[i].req.type # "LOGIN"
    <3>1. LoginArrived
      <4>1. ASSUME NEW j \in 1..Len(net), j # i
            PROVE  net[j].req.type # "LOGIN"
        <5>1. /\ net' \in Seq(Datagram) /\ Len(net') = Len(net) - 1
              /\ \A n \in 1..Len(net) - 1 : net'[n] = IF n < i THEN net[n] ELSE net[n + 1]
          BY <2>1, <1>0, Gone
        <5>2. CASE j < i
          <6>1. j \in 1..Len(net) - 1 /\ net'[j] = net[j]
            BY <5>1, <5>2, <2>1, <1>0
          <6> QED
            BY <5>1, <6>1 DEF LoginArrived
        <5>3. CASE j > i
          <6>1. j - 1 \in 1..Len(net) - 1 /\ ~(j - 1 < i) /\ (j - 1) + 1 = j
            BY <5>3, <2>1, <1>0
          <6>2. net'[j - 1] = net[j]
            BY <5>1, <6>1
          <6> QED
            BY <5>1, <6>1, <6>2 DEF LoginArrived
        <5> QED
          BY <5>2, <5>3, <4>1, <2>1
      <4> QED
        BY <4>1, <2>3, <1>0 DEF LoginArrived
    <3>2. data # Nobody
      BY <3>1, <2>1 DEF Kept, Live, LongestSilence
    <3>3. PICK p \in UserPtr, k \in Nat : data = Only(p, k)
      BY <3>2 DEF PairInv, Tabled, OneClient
    <3>4. net[i].req.type # "LOGOUT"
      BY <2>1, <1>0 DEF Live, PairInv, ThreadsInv, Flight
    <3>5. data' = Only(p, 0)
      BY <2>1, <2>3, <3>3, <3>4, LoggedInRequest
    <3> QED
      BY <3>5, IdleOfClient
  <2> QED
    BY <2>2, <2>3
<1>3. ASSUME NEW i \in DOMAIN net, Lose(i)
      PROVE  FALSE
  BY <1>3 DEF Lose
<1>4. CASE ServerScan
  <2>1. UNCHANGED <<main, net, link>>
    BY <1>4 DEF ServerScan, clientVars, threads
  <2>2. Live /\ main # "login" /\ ~link.lossy /\ LongestSilence <= TIMEOUT /\ LoginArrived
    BY <2>1 DEF Live, LongestSilence, LoginArrived
  <2>3. data # Nobody
    BY <2>2 DEF Kept
  <2>4. ~(Server!Idle(me) > TIMEOUT)
    <3>1. LongestSilence \in Nat /\ Server!Idle(me) \in Nat
      BY LinkFacts, IdleIsNat DEF PairInv, ThreadsInv, Kinds
    <3>2. Server!Idle(me) <= LongestSilence
      BY <2>2, SilenceBound
    <3> QED
      BY <3>1, <3>2, <2>2, ServerIsConfigured
  <2> QED
    BY <1>4, <2>3, <2>4, ScanKeepsTables DEF ServerScan, PairInv
<1>5. CASE Tick
  <2>1. main' = main /\ link' = link /\ Server!Tick
    BY <1>5 DEF Tick
  <2>2. /\ Len(net') = Len(net)
        /\ \A i \in 1..Len(net) : net'[i].req = net[i].req
        /\ ThreadsInv'
    BY <1>5, TickKeepsThreads DEF PairInv
  <2>3. LoginArrived
    <3>1. DOMAIN net' = 1..Len(net)
      <4>1. net' \in Seq(Datagram)
        BY <2>2 DEF ThreadsInv, Kinds
      <4> QED
        BY <4>1, <2>2
    <3> QED
      BY <3>1, <2>2, <1>0 DEF LoginArrived
  <2>4. data # Nobody
    BY <2>1, <2>3 DEF Kept, Live, LongestSilence
  <2> QED
    BY <2>1, <2>4, TickKeepsTables DEF PairInv
<1>6. CASE UNCHANGED vars
  BY <1>6 DEF vars, clientVars, serverVars, threads, Kept, Live, LongestSilence, LoginArrived
<1> QED
  BY <1>1, <1>2, <1>3, <1>4, <1>5, <1>6 DEF Next
-------------------------------------------------------------------------------
\* What the server will make of a sequence of requests.

\* One request, and all of them one by one.
After(on, req) == IF req.type = "JOIN" THEN on \cup {req.channel}
                  ELSE IF req.type = "LEAVE" THEN on \ {req.channel}
                  ELSE on

Outlook(f, on, flight) ==
    /\ DOMAIN f = 0..Len(flight) /\ f = [i \in 0..Len(flight) |-> f[i]]
    /\ f[0] = on
    /\ \A i \in 1..Len(flight) : f[i] = After(f[i - 1], flight[i].req)

LEMMA OutlookExists ==
    ASSUME NEW on, NEW flight, Len(flight) \in Nat
    PROVE  \E f : Outlook(f, on, flight)
<1> DEFINE Chain(h, k) == /\ h = [i \in 0..k |-> h[i]]
                          /\ h[0] = on
                          /\ \A i \in 1..k : h[i] = After(h[i - 1], flight[i].req)
           Long == {k \in Nat : \E h : Chain(h, k)}
<1>1. 0 \in Long
  <2> DEFINE h == [i \in 0..0 |-> on]
  <2>1. Chain(h, 0)
    OBVIOUS
  <2> HIDE DEF h, Chain
  <2> QED
    BY <2>1
<1>2. ASSUME NEW k \in Nat, k \in Long
      PROVE  k + 1 \in Long
  <2>1. PICK h : Chain(h, k)
    BY <1>2
  <2> DEFINE e == [i \in 0..k + 1 |-> IF i = k + 1 THEN After(h[k], flight[k + 1].req) ELSE h[i]]
  <2>2. \A i \in 0..k + 1 : e[i] = IF i = k + 1 THEN After(h[k], flight[k + 1].req) ELSE h[i]
    OBVIOUS
  <2>3. e = [i \in 0..k + 1 |-> e[i]]
    OBVIOUS
  <2> HIDE DEF e
  <2>4. e[0] = on
    BY <2>1, <2>2
  <2>5. ASSUME NEW i \in 1..k + 1
        PROVE  e[i] = After(e[i - 1], flight[i].req)
    <3>1. i - 1 \in 0..k + 1 /\ i - 1 # k + 1 /\ e[i - 1] = h[i - 1] /\ i \in 0..k + 1
      BY <2>2
    <3>2. CASE i = k + 1
      <4>1. i - 1 = k
        BY <3>2
      <4> QED
        BY <3>1, <3>2, <4>1, <2>2
    <3>3. CASE i # k + 1
      <4>1. i \in 1..k /\ e[i] = h[i]
        BY <3>3, <3>1, <2>2
      <4> QED
        BY <4>1, <3>1, <2>1
    <3> QED
      BY <3>2, <3>3
  <2>6. Chain(e, k + 1)
    BY <2>3, <2>4, <2>5
  <2> HIDE DEF Chain
  <2> QED
    BY <2>6
<1>3. Nat \subseteq Long
  <2> HIDE DEF Long
  <2> QED
    BY <1>1, <1>2, NatSetInduction
<1>4. PICK h : Chain(h, Len(flight))
  <2> HIDE DEF Chain
  <2> QED
    BY <1>3
<1>5. DOMAIN h = 0..Len(flight)
  BY <1>4
<1> QED
  BY <1>4, <1>5 DEF Outlook

LEMMA OutlookIs ==
    ASSUME NEW on, NEW flight, Len(flight) \in Nat, NEW f, Outlook(f, on, flight)
    PROVE  Foretold(on, flight) = f[Len(flight)]
<1> DEFINE n == Len(flight)
           Is(g) == g = [i \in 0..n |->
                           IF i = 0 THEN on
                           ELSE IF flight[i].req.type = "JOIN" THEN g[i - 1] \cup {flight[i].req.channel}
                           ELSE IF flight[i].req.type = "LEAVE" THEN g[i - 1] \ {flight[i].req.channel}
                           ELSE g[i - 1]]
           after == CHOOSE g : Is(g)
<1>1. \E g : Is(g)
  <2>1. \A i \in 0..n : f[i] = IF i = 0 THEN on
                           ELSE IF flight[i].req.type = "JOIN" THEN f[i - 1] \cup {flight[i].req.channel}
                           ELSE IF flight[i].req.type = "LEAVE" THEN f[i - 1] \ {flight[i].req.channel}
                           ELSE f[i - 1]
    <3> SUFFICES ASSUME NEW i \in 0..n, i # 0
                 PROVE  f[i] = After(f[i - 1], flight[i].req)
      BY DEF Outlook, After
    <3>1. i \in 1..n
      OBVIOUS
    <3> QED
      BY <3>1 DEF Outlook
  <2>2. Is(f)
    BY <2>1 DEF Outlook
  <2> HIDE DEF Is
  <2> QED
    BY <2>2
<1>2. Is(after)
  <2> HIDE DEF Is
  <2> QED
    BY <1>1
<1>3. Foretold(on, flight) = after[n]
  BY DEF Foretold
<1> HIDE DEF after
<1>4. after[0] = on
  BY <1>2
<1>5. ASSUME NEW i \in 1..n
      PROVE  after[i] = After(after[i - 1], flight[i].req)
  <2>1. i \in 0..n /\ i # 0
    OBVIOUS
  <2>2. after[i] = IF flight[i].req.type = "JOIN" THEN after[i - 1] \cup {flight[i].req.channel}
                   ELSE IF flight[i].req.type = "LEAVE" THEN after[i - 1] \ {flight[i].req.channel}
                   ELSE after[i - 1]
    BY <1>2, <2>1
  <2> QED
    BY <2>2 DEF After
<1> HIDE DEF Is
<1>6. 0..n \subseteq {i \in 0..n : after[i] = f[i]}
  <2> DEFINE S == {i \in 0..n : after[i] = f[i]}
  <2>1. 0 \in S
    BY <1>4 DEF Outlook
  <2>2. ASSUME NEW i \in 0..n, i < n, i \in S
        PROVE  i + 1 \in S
    <3>1. i + 1 \in 1..n /\ (i + 1) - 1 = i /\ i + 1 \in 0..n
      BY <2>2
    <3>2. after[i + 1] = After(after[i], flight[i + 1].req)
      BY <3>1, <1>5
    <3>3. f[i + 1] = After(f[i], flight[i + 1].req)
      BY <3>1 DEF Outlook
    <3> QED
      BY <2>2, <3>1, <3>2, <3>3
  <2> HIDE DEF S
  <2>3. 0..n \subseteq S
    BY <2>1, <2>2, UpToInduction
  <2> QED
    BY <2>3 DEF S
<1> QED
  BY <1>3, <1>6

\* Nothing in flight changes nothing.
LEMMA ForetoldNone ==
    ASSUME NEW on, NEW flight, Len(flight) = 0
    PROVE  Foretold(on, flight) = on
<1>1. Len(flight) \in Nat
  OBVIOUS
<1>2. PICK f : Outlook(f, on, flight)
  BY <1>1, OutlookExists
<1>3. Foretold(on, flight) = f[Len(flight)]
  BY <1>1, <1>2, OutlookIs
<1> QED
  BY <1>2, <1>3 DEF Outlook

\* One more request comes after all the others.
LEMMA ForetoldMore ==
    ASSUME NEW on, NEW flight, NEW more, Len(flight) \in Nat, Len(more) = Len(flight) + 1,
           \A i \in 1..Len(flight) : more[i].req = flight[i].req
    PROVE  Foretold(on, more) = After(Foretold(on, flight), more[Len(more)].req)
<1> DEFINE n == Len(flight)
<1>0. n \in Nat /\ Len(more) = n + 1 /\ Len(more) \in Nat
  OBVIOUS
<1>1. PICK f : Outlook(f, on, more)
  BY <1>0, OutlookExists
<1> DEFINE g == [i \in 0..n |-> f[i]]
<1>2. Outlook(g, on, flight)
  <2>1. \A i \in 0..n : g[i] = f[i]
    OBVIOUS
  <2>2. DOMAIN g = 0..n /\ g = [i \in 0..n |-> g[i]]
    OBVIOUS
  <2> HIDE DEF g
  <2>3. g[0] = on
    BY <1>1, <2>1 DEF Outlook
  <2>4. ASSUME NEW i \in 1..n
        PROVE  g[i] = After(g[i - 1], flight[i].req)
    <3>1. i \in 0..n /\ i - 1 \in 0..n /\ i \in 1..Len(more)
      BY <1>0
    <3>2. f[i] = After(f[i - 1], more[i].req)
      BY <1>1, <3>1 DEF Outlook
    <3> QED
      BY <2>1, <3>1, <3>2
  <2> QED
    BY <2>2, <2>3, <2>4 DEF Outlook
<1>3. g[n] = f[n]
  OBVIOUS
<1> HIDE DEF g
<1>4. Foretold(on, flight) = f[n]
  BY <1>2, <1>3, OutlookIs
<1>5. Foretold(on, more) = f[n + 1]
  BY <1>1, OutlookIs
<1>6. f[n + 1] = After(f[n], more[n + 1].req)
  <2>1. n + 1 \in 1..Len(more) /\ (n + 1) - 1 = n
    OBVIOUS
  <2> QED
    BY <1>1, <2>1 DEF Outlook
<1> QED
  BY <1>4, <1>5, <1>6

\* The first request comes before all the others.
LEMMA ForetoldFirst ==
    ASSUME NEW on, NEW flight, NEW rest, Len(rest) \in Nat, Len(flight) = Len(rest) + 1,
           \A i \in 1..Len(rest) : rest[i].req = flight[i + 1].req
    PROVE  Foretold(on, flight) = Foretold(After(on, flight[1].req), rest)
<1> DEFINE n == Len(rest)
<1>0. n \in Nat /\ Len(flight) = n + 1 /\ Len(flight) \in Nat
  OBVIOUS
<1>1. PICK f : Outlook(f, on, flight)
  BY <1>0, OutlookExists
<1> DEFINE g == [i \in 0..n |-> f[i + 1]]
<1>2. Outlook(g, After(on, flight[1].req), rest)
  <2>1. \A i \in 0..n : g[i] = f[i + 1]
    OBVIOUS
  <2>2. DOMAIN g = 0..n /\ g = [i \in 0..n |-> g[i]]
    OBVIOUS
  <2> HIDE DEF g
  <2>3. g[0] = After(on, flight[1].req)
    <3>1. 1 \in 1..Len(flight) /\ 1 - 1 = 0 /\ 0 \in 0..n /\ 0 + 1 = 1
      BY <1>0
    <3>2. f[1] = After(f[1 - 1], flight[1].req) /\ f[0] = on
      BY <1>1, <3>1 DEF Outlook
    <3>3. g[0] = f[1]
      BY <2>1, <3>1
    <3> QED
      BY <3>1, <3>2, <3>3
  <2>4. ASSUME NEW i \in 1..n
        PROVE  g[i] = After(g[i - 1], rest[i].req)
    <3>1. /\ i \in 0..n /\ i - 1 \in 0..n /\ i + 1 \in 1..Len(flight)
          /\ (i + 1) - 1 = i /\ (i - 1) + 1 = i
      OBVIOUS
    <3>2. g[i] = f[i + 1] /\ g[i - 1] = f[i]
      BY <2>1, <3>1
    <3>3. f[i + 1] = After(f[i], flight[i + 1].req)
      BY <1>1, <3>1 DEF Outlook
    <3> QED
      BY <3>2, <3>3
  <2> QED
    BY <2>2, <2>3, <2>4 DEF Outlook
<1>3. g[n] = f[n + 1]
  OBVIOUS
<1> HIDE DEF g
<1> QED
  BY <1>1, <1>2, <1>3, OutlookIs

\* How old the requests are does not matter.
LEMMA ForetoldSame ==
    ASSUME NEW on, NEW flight, NEW same, Len(flight) \in Nat, Len(same) = Len(flight),
           \A i \in 1..Len(flight) : same[i].req = flight[i].req
    PROVE  Foretold(on, same) = Foretold(on, flight)
<1>1. PICK f : Outlook(f, on, flight)
  BY OutlookExists
<1>2. Outlook(f, on, same)
  BY <1>1 DEF Outlook
<1> QED
  BY <1>1, <1>2, OutlookIs
-------------------------------------------------------------------------------
\* The server comes to agree with the client.

Agreed ==
    Live /\ ~link.lossy /\ link.fifo /\ LongestSilence <= TIMEOUT => Expected = believed

LEMMA ExpectedIs ==
    /\ Expected = Foretold(On(channels), net)
    /\ Expected' = Foretold(On(channels'), net')
BY DEF Expected, On

LEMMA AgreedInit == Init => Agreed
<1> SUFFICES ASSUME Init PROVE Expected = believed
  BY DEF Agreed
<1>1. On(channels) = {}
  BY DEF Init, Server!Init, On, Server!InChannel
<1>2. Len(net) = 0 /\ believed = {}
  BY DEF Init, ClientInit
<1> QED
  BY <1>1, <1>2, ExpectedIs, ForetoldNone

LEMMA AgreedStep == PairInv /\ Kept /\ Agreed /\ [Next]_vars => Agreed'
<1> SUFFICES ASSUME PairInv, Kept, Agreed, [Next]_vars,
                    Live', ~link'.lossy, link'.fifo, LongestSilence' <= TIMEOUT
             PROVE  Foretold(On(channels'), net') = believed'
  BY ExpectedIs DEF Agreed
<1>0. net \in Seq(Datagram) /\ Len(net) \in Nat /\ DOMAIN net = 1..Len(net)
  BY DEF PairInv, ThreadsInv, Kinds
<1>1. CASE ClientStep
  <2>1. Onward /\ (Quiet \/ \E thread \in {"main", "keeper"}, req \in Requests : Sends(thread, req))
    BY <1>1, ClientSteps DEF ClientStep, PairInv
  <2>2. Live /\ ~link.lossy /\ link.fifo /\ LongestSilence <= TIMEOUT /\ channels' = channels
    BY <1>1, <2>1 DEF Onward, ClientStep, serverVars, LongestSilence
  <2>3. Foretold(On(channels), net) = believed
    BY <2>2, ExpectedIs DEF Agreed
  <2>4. ASSUME NEW thread \in {"main", "keeper"}, NEW req \in Requests, Sends(thread, req)
        PROVE  Foretold(On(channels'), net') = believed'
    <3>1. net' = Append(net, [req |-> req, age |-> 0])
      BY <2>2, <2>4 DEF Sends, send_msg
    <3>2. /\ Len(net') = Len(net) + 1
          /\ net'[Len(net) + 1] = [req |-> req, age |-> 0]
          /\ \A i \in 1..Len(net) : net'[i] = net[i]
      BY <3>1, <1>0, Sent
    <3>3. net'[Len(net')].req = req
      BY <3>2
    <3>4. Foretold(On(channels), net') = After(Foretold(On(channels), net), req)
      BY <3>2, <3>3, <1>0, ForetoldMore
    <3>5. believed' = After(believed, req)
      BY <2>4 DEF Sends, Told, After
    <3> QED
      BY <3>4, <3>5, <2>2, <2>3
  <2> QED
    BY <2>1, <2>2, <2>3, <2>4 DEF Quiet
<1>2. ASSUME NEW i \in DOMAIN net, Deliver(i)
      PROVE  Foretold(On(channels'), net') = believed'
  <2>1. /\ net[i].req \in Requests /\ Handle(net[i].req) /\ net' = Without(i) /\ i \in 1..Len(net)
        /\ main' = main /\ link' = link /\ believed' = believed
    BY <1>2, Arrives DEF threads
  <2>2. Live /\ ~link.lossy /\ link.fifo /\ LongestSilence <= TIMEOUT
    BY <2>1 DEF Live, LongestSilence
  <2>3. i = 1
    BY <1>2, <2>2 DEF Deliver, Deliverable
  <2>4. Foretold(On(channels), net) = believed
    BY <2>2, ExpectedIs DEF Agreed
  <2> DEFINE req == net[1].req
  <2>5. On(channels') = After(On(channels), req)
    <3>1. CASE data = Nobody
      <4>1. req.type = "LOGIN"
        <5> SUFFICES ASSUME req.type # "LOGIN" PROVE FALSE
          OBVIOUS
        <5>1. LoginArrived
          BY <1>0 DEF LoginArrived, PairInv, ThreadsInv, Flight
        <5>2. main # "login"
          <6>1. main = "login" => Len(net) = 0
            BY DEF PairInv, ThreadsInv, Flight
          <6> QED
            BY <6>1, <2>1
        <5> QED
          BY <5>1, <5>2, <2>2, <3>1 DEF Kept
      <4>2. UNCHANGED channels
        BY <2>1, <2>3, <3>1, StrangersRequest
      <4> QED
        BY <4>1, <4>2 DEF After
    <3>2. ASSUME NEW p \in UserPtr, NEW k \in Nat, data = Only(p, k)
          PROVE  On(channels') = After(On(channels), req)
      <4>1. req \in Requests /\ Handle(req) /\ channels \in Channels
        BY <2>1, <2>3 DEF PairInv, Tabled
      <4> HIDE DEF req
      <4>2. /\ req.type = "JOIN" =>
                  channels' = Server!idempotent_channel_add_user(channels, req.channel, me)
            /\ req.type = "LEAVE" => channels' = Server!LeaveChannel(channels, req.channel, me)
            /\ req.type \notin {"JOIN", "LEAVE"} => UNCHANGED channels
        BY <4>1, <3>2, LoggedInRequest
      <4>3. req.type \in {"JOIN", "LEAVE"} => req.channel \in Channel
        BY <4>1 DEF Requests
      <4> QED
        BY <4>1, <4>2, <4>3, JoinPuts, LeaveTakes DEF After
    <3> QED
      BY <3>1, <3>2 DEF PairInv, Tabled, OneClient
  <2>6. Foretold(On(channels), net) = Foretold(After(On(channels), req), net')
    <3>1. /\ Len(net') = Len(net) - 1
          /\ \A j \in 1..Len(net) - 1 : net'[j] = IF j < i THEN net[j] ELSE net[j + 1]
      BY <2>1, <1>0, Gone
    <3>2. Len(net') \in Nat /\ Len(net) = Len(net') + 1
      BY <3>1, <1>0, <2>1
    <3>3. \A j \in 1..Len(net') : net'[j].req = net[j + 1].req
      BY <3>1, <2>3, <1>0
    <3> QED
      BY <3>2, <3>3, ForetoldFirst
  <2> QED
    BY <2>1, <2>4, <2>5, <2>6
<1>3. ASSUME NEW i \in DOMAIN net, Lose(i)
      PROVE  FALSE
  BY <1>3 DEF Lose
<1>4. CASE ServerScan
  <2>1. UNCHANGED <<main, net, link, believed>>
    BY <1>4 DEF ServerScan, clientVars, threads
  <2>2. UNCHANGED channels
    BY <1>4, ScanKeepsTables DEF ServerScan, PairInv
  <2> QED
    BY <2>1, <2>2, ExpectedIs DEF Agreed, Live, LongestSilence
<1>5. CASE Tick
  <2>1. UNCHANGED <<main, link, believed>> /\ Server!Tick
    BY <1>5 DEF Tick
  <2>2. UNCHANGED channels
    BY <2>1, TickKeepsTables DEF PairInv
  <2>3. Foretold(On(channels), net) = believed
    BY <2>1, ExpectedIs DEF Agreed, Live, LongestSilence
  <2>4. Len(net') = Len(net) /\ \A i \in 1..Len(net) : net'[i].req = net[i].req
    BY <1>5, TickKeepsThreads DEF PairInv
  <2>5. Foretold(On(channels), net') = Foretold(On(channels), net)
    BY <2>4, <1>0, ForetoldSame
  <2> QED
    BY <2>1, <2>2, <2>3, <2>5
<1>6. CASE UNCHANGED vars
  BY <1>6, ExpectedIs DEF vars, clientVars, serverVars, threads, Agreed, Live, LongestSilence
<1> QED
  BY <1>1, <1>2, <1>3, <1>4, <1>5, <1>6 DEF Next
-------------------------------------------------------------------------------
\* What the runs check, of every client and server.

\* All that is known of the client and its tables.
Faithful == PairInv /\ Heard /\ Kept /\ Agreed

LEMMA AlwaysFaithful == FairSpec => []Faithful
<1>1. Init => Faithful
  BY PairInit, HeardInit, KeptInit, AgreedInit DEF Faithful
<1>2. Faithful /\ [Next]_vars => Faithful'
  BY PairStep, HeardStep, KeptStep, AgreedStep DEF Faithful
<1> QED
  BY <1>1, <1>2, PTL DEF FairSpec

LEMMA RunningIsLive == PairInv /\ Running => Live /\ main # "login"
BY DEF Running, Live

\* The server hears from a running client after two rounds of the keep-alive thread and
\* the delay of the network, whatever is typed when (keep_alive_loop, activity_last_minute).
THEOREM RunningClientIsHeard == FairSpec => []SilenceOfRunningClient
<1>1. Faithful => SilenceOfRunningClient
  BY RunningIsLive, SilenceBound DEF Faithful, SilenceOfRunningClient
<1> QED
  BY <1>1, AlwaysFaithful, PTL

\* A server that waits that long never logs a running client out, whatever the delay,
\* the drift and the periods are (keep_alive_loop against cleanup_loop).
THEOREM RunningClientStaysLoggedIn == FairSpec => []RunningClientKept
<1>1. Faithful => RunningClientKept
  <2> SUFFICES ASSUME Faithful, Running, ~link.lossy, LoginArrived, LongestSilence <= TIMEOUT
               PROVE  LoggedIn
    BY DEF RunningClientKept
  <2>1. data # Nobody
    BY RunningIsLive DEF Faithful, Kept
  <2> QED
    BY <2>1, IdleOfClient DEF Faithful, PairInv, Tabled, OneClient
<1> QED
  BY <1>1, AlwaysFaithful, PTL

\* If nothing is lost or overtaken, the channels the client told its user to be on are
\* those the server will have it on when what is in flight has arrived (handle_cmd_join
\* and handle_cmd_leave against handle_request_join and handle_request_leave).
THEOREM ServerCatchesUp == FairSpec => []BeliefCatchesUp
<1>1. Faithful => BeliefCatchesUp
  BY RunningIsLive DEF Faithful, Agreed, BeliefCatchesUp
<1> QED
  BY <1>1, AlwaysFaithful, PTL
==============================================================================
