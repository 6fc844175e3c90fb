-------------------------- MODULE ChatServer_proofs --------------------------
(***************************************************************************)
(* Proofs about ChatServer, for every set of names, addresses, channels    *)
(* and heap cells and all times.                                           *)
(***************************************************************************)
EXTENDS ChatServer, TLAPS

\* In tables that agree the list entry that equals a listed user by value is
\* that user: removing by value removes the right one.
LEMMA EqualIsSelf ==
    ASSUME NEW d \in UserTables, TablesAgree(d), NEW u \in d.user_list
    PROVE  ll_equal(d, u) = {u}
BY DEF TablesAgree, ll_equal, user_compare

\* What idempotent_remove_user does to tables that agree, field by field.
LEMMA RemoveUserEffect ==
    ASSUME NEW d \in UserTables, TablesAgree(d), NEW u \in d.user_list
    PROVE  LET r == RemoveUser(d, u) IN
           /\ r \in UserTables
           /\ r.user_list = d.user_list \ {u}
           /\ r.heap = [d.heap EXCEPT ![u] = NULL]
           /\ r.user_by_ip = [d.user_by_ip EXCEPT ![d.heap[u].ip_port] = NULL]
           /\ r.user_by_username = [d.user_by_username EXCEPT ![d.heap[u].username] = NULL]
<1> DEFINE x == RemoveFromIndexes(d, u)
           r == [x EXCEPT !.user_list = @ \ {u}, !.heap[u] = NULL]
<1>1. u \in UserPtr /\ u # NULL /\ d.heap[u] \in User
  BY NullIsNothing DEF UserTables, TablesAgree
<1>2. /\ x.user_list = d.user_list
      /\ x.heap = d.heap
      /\ x.user_by_ip = [d.user_by_ip EXCEPT ![d.heap[u].ip_port] = NULL]
      /\ x.user_by_username = [d.user_by_username EXCEPT ![d.heap[u].username] = NULL]
      /\ x \in UserTables
  BY <1>1 DEF UserTables, RemoveFromIndexes, User
<1>3. ll_equal(x, u) = {u}
  BY <1>2, EqualIsSelf DEF ll_equal
<1>4. RemoveUser(d, u) = r
  BY <1>1, <1>3 DEF RemoveUser, ll_idempotent_remove
<1>5. /\ r.user_list = d.user_list \ {u}
      /\ r.heap = [d.heap EXCEPT ![u] = NULL]
      /\ r.user_by_ip = x.user_by_ip
      /\ r.user_by_username = x.user_by_username
      /\ r \in UserTables
  BY <1>1, <1>2 DEF UserTables
<1> QED
  BY <1>2, <1>4, <1>5

\* Removing a listed user keeps the tables in agreement.
LEMMA RemoveUserAgrees ==
    ASSUME NEW d \in UserTables, TablesAgree(d), NEW u \in d.user_list
    PROVE  TablesAgree(RemoveUser(d, u))
<1> DEFINE r == RemoveUser(d, u)
<1>1. u \in UserPtr /\ u # NULL /\ d.heap[u] \in User
  BY NullIsNothing DEF UserTables, TablesAgree
<1>2. /\ r \in UserTables
      /\ r.user_list = d.user_list \ {u}
      /\ r.heap = [d.heap EXCEPT ![u] = NULL]
      /\ r.user_by_ip = [d.user_by_ip EXCEPT ![d.heap[u].ip_port] = NULL]
      /\ r.user_by_username = [d.user_by_username EXCEPT ![d.heap[u].username] = NULL]
  BY RemoveUserEffect
<1> HIDE DEF r
<1>3. r.user_list = {p \in UserPtr : r.heap[p] # NULL}
  BY <1>1, <1>2 DEF TablesAgree, UserTables
<1>4. ASSUME NEW p \in r.user_list
      PROVE  /\ r.user_by_ip[r.heap[p].ip_port] = p
             /\ r.user_by_username[r.heap[p].username] = p
  <2>1. p \in d.user_list /\ p # u /\ p \in UserPtr /\ d.heap[p] \in User /\ r.heap[p] = d.heap[p]
    BY <1>1, <1>2 DEF TablesAgree, UserTables
  <2>2. d.heap[p].ip_port # d.heap[u].ip_port /\ d.heap[p].username # d.heap[u].username
    BY <2>1 DEF TablesAgree
  <2> QED
    BY <1>1, <1>2, <2>1, <2>2 DEF TablesAgree, UserTables, User
<1>5. ASSUME NEW a \in IpPort, r.user_by_ip[a] # NULL
      PROVE  r.user_by_ip[a] \in r.user_list /\ r.heap[r.user_by_ip[a]].ip_port = a
  <2>1. a # d.heap[u].ip_port /\ r.user_by_ip[a] = d.user_by_ip[a]
    BY <1>1, <1>2, <1>5 DEF UserTables, User
  <2>2. d.user_by_ip[a] \in d.user_list /\ d.heap[d.user_by_ip[a]].ip_port = a
    BY <1>5, <2>1 DEF TablesAgree
  <2> QED
    BY <1>1, <1>2, <2>1, <2>2 DEF UserTables
<1>6. ASSUME NEW n \in Username, r.user_by_username[n] # NULL
      PROVE  r.user_by_username[n] \in r.user_list /\ r.heap[r.user_by_username[n]].username = n
  <2>1. n # d.heap[u].username /\ r.user_by_username[n] = d.user_by_username[n]
    BY <1>1, <1>2, <1>6 DEF UserTables, User
  <2>2. d.user_by_username[n] \in d.user_list /\ d.heap[d.user_by_username[n]].username = n
    BY <1>6, <2>1 DEF TablesAgree
  <2> QED
    BY <1>1, <1>2, <2>1, <2>2 DEF UserTables
<1> QED
  BY <1>3, <1>4, <1>5, <1>6 DEF TablesAgree, r
-------------------------------------------------------------------------------
\* What a lookup finds is NULL or a listed user.
LEMMA LookupIsListed ==
    ASSUME NEW d \in UserTables, TablesAgree(d)
    PROVE  /\ \A n \in Username : d.user_by_username[n] # NULL =>
                 d.user_by_username[n] \in d.user_list
           /\ \A a \in IpPort : d.user_by_ip[a] # NULL => d.user_by_ip[a] \in d.user_list
           /\ \A p \in d.user_list : p \in UserPtr /\ d.heap[p] \in User /\ p # NULL
BY NullIsNothing DEF TablesAgree, UserTables

\* What any lookup followed by idempotent_remove_user does: the tables still
\* agree, only users the lookup names are gone, and the others are untouched.
LEMMA RemoveByUsernameAgrees ==
    ASSUME NEW d \in UserTables, TablesAgree(d), NEW n \in Username
    PROVE  LET r == RemoveByUsername(d, n) IN
           /\ r \in UserTables
           /\ TablesAgree(r)
           /\ r.user_list = d.user_list \ {d.user_by_username[n]}
           /\ \A p \in r.user_list : r.heap[p] = d.heap[p]
           /\ \A m \in Username : SessionIn(r, m) = IF m = n THEN NULL ELSE SessionIn(d, m)
<1> DEFINE u == d.user_by_username[n]
<1>1. CASE u = NULL
  BY <1>1, LookupIsListed DEF RemoveByUsername, RemoveUser, SessionIn
<1>2. CASE u # NULL
  <2> DEFINE r == RemoveUser(d, u)
  <2>1. u \in d.user_list /\ u \in UserPtr /\ d.heap[u] \in User
    BY <1>2, LookupIsListed
  <2>2. d.heap[u].username = n
    BY <1>2 DEF TablesAgree
  <2>3. /\ r \in UserTables
        /\ r.user_list = d.user_list \ {u}
        /\ r.heap = [d.heap EXCEPT ![u] = NULL]
        /\ r.user_by_username = [d.user_by_username EXCEPT ![n] = NULL]
    BY <2>1, <2>2, RemoveUserEffect
  <2>4. TablesAgree(r)
    BY <2>1, RemoveUserAgrees
  <2> HIDE DEF r
  <2>5. \A p \in r.user_list : r.heap[p] = d.heap[p]
    BY <2>1, <2>3, LookupIsListed DEF UserTables
  <2>6. ASSUME NEW m \in Username
        PROVE  SessionIn(r, m) = IF m = n THEN NULL ELSE SessionIn(d, m)
    <3>1. CASE m = n
      BY <2>3, <3>1 DEF SessionIn, UserTables
    <3>2. CASE m # n
      <4>1. r.user_by_username[m] = d.user_by_username[m]
        BY <2>3, <3>2 DEF UserTables
      <4>2. d.user_by_username[m] # NULL => d.user_by_username[m] \in d.user_list \ {u}
        BY <2>2, <3>2 DEF TablesAgree
      <4> QED
        BY <2>3, <2>5, <3>2, <4>1, <4>2 DEF SessionIn
    <3> QED
      BY <3>1, <3>2
  <2> QED
    BY <1>2, <2>3, <2>4, <2>5, <2>6 DEF RemoveByUsername, r
<1> QED
  BY <1>1, <1>2

LEMMA RemoveByIpAgrees ==
    ASSUME NEW d \in UserTables, TablesAgree(d), NEW a \in IpPort
    PROVE  LET r == RemoveByIp(d, a) IN
           /\ r \in UserTables
           /\ TablesAgree(r)
           /\ r.user_list = d.user_list \ {d.user_by_ip[a]}
           /\ r.user_by_ip[a] = NULL
           /\ \A p \in r.user_list : r.heap[p] = d.heap[p]
           /\ \A m \in Username :
                 SessionIn(r, m) = IF SessionIn(d, m) = a THEN NULL ELSE SessionIn(d, m)
<1> DEFINE u == d.user_by_ip[a]
<1>1. CASE u = NULL
  <2>1. \A m \in Username : SessionIn(d, m) # a
    BY <1>1, LookupIsListed, NullIsNothing DEF SessionIn, TablesAgree
  <2> QED
    BY <1>1, <2>1, LookupIsListed DEF RemoveByIp, RemoveUser
<1>2. CASE u # NULL
  <2> DEFINE r == RemoveUser(d, u)
             n == d.heap[u].username
  <2>1. u \in d.user_list /\ u \in UserPtr /\ d.heap[u] \in User
    BY <1>2, LookupIsListed
  <2>2. d.heap[u].ip_port = a /\ d.user_by_username[n] = u /\ n \in Username
    BY <1>2, <2>1 DEF TablesAgree, User
  <2>3. /\ r \in UserTables
        /\ r.user_list = d.user_list \ {u}
        /\ r.heap = [d.heap EXCEPT ![u] = NULL]
        /\ r.user_by_ip = [d.user_by_ip EXCEPT ![a] = NULL]
        /\ r.user_by_username = [d.user_by_username EXCEPT ![n] = NULL]
    BY <2>1, <2>2, RemoveUserEffect
  <2>4. TablesAgree(r)
    BY <2>1, RemoveUserAgrees
  <2> HIDE DEF r, n
  <2>5. \A p \in r.user_list : r.heap[p] = d.heap[p]
    BY <2>1, <2>3, LookupIsListed DEF UserTables
  <2>6. r.user_by_ip[a] = NULL
    BY <2>3 DEF UserTables
  <2>7. ASSUME NEW m \in Username
        PROVE  SessionIn(r, m) = IF SessionIn(d, m) = a THEN NULL ELSE SessionIn(d, m)
    <3>1. CASE m = n
      <4>1. SessionIn(d, m) = a
        BY <1>2, <2>2, <3>1 DEF SessionIn
      <4>2. SessionIn(r, m) = NULL
        BY <2>2, <2>3, <3>1 DEF SessionIn, UserTables
      <4> QED
        BY <4>1, <4>2
    <3>2. CASE m # n
      <4>1. r.user_by_username[m] = d.user_by_username[m]
        BY <2>3, <3>2 DEF UserTables
      <4>2. d.user_by_username[m] # NULL =>
               /\ d.user_by_username[m] \in d.user_list \ {u}
               /\ d.heap[d.user_by_username[m]].ip_port # a
        BY <2>2, <3>2 DEF TablesAgree, n
      <4>3. SessionIn(d, m) # a
        BY <4>2, NullIsNothing DEF SessionIn
      <4> QED
        BY <2>3, <2>5, <4>1, <4>2, <4>3 DEF SessionIn
    <3> QED
      BY <3>1, <3>2
  <2> QED
    BY <1>2, <2>3, <2>4, <2>5, <2>6, <2>7 DEF RemoveByIp, r
<1> QED
  BY <1>1, <1>2

\* Entering a new user in tables that have neither its name nor its address.
LEMMA EnterUserAgrees ==
    ASSUME NEW d \in UserTables, TablesAgree(d), NEW n \in Username, NEW a \in IpPort,
           NEW u \in UserPtr, d.heap[u] = NULL,
           d.user_by_username[n] = NULL, d.user_by_ip[a] = NULL
    PROVE  LET r == EnterUser(d, u, n, a) IN
           /\ r \in UserTables
           /\ TablesAgree(r)
           /\ r.user_list = d.user_list \cup {u}
           /\ r.heap = [d.heap EXCEPT ![u] = [username |-> n, ip_port |-> a, idle |-> 0]]
           /\ \A m \in Username : SessionIn(r, m) = IF m = n THEN a ELSE SessionIn(d, m)
<1> DEFINE new == [username |-> n, ip_port |-> a, idle |-> 0]
           f == [d EXCEPT !.heap[u] = new]
           r == EnterUser(d, u, n, a)
<1>1. new \in User /\ new # NULL /\ u # NULL /\ u \notin d.user_list
  BY NullIsNothing DEF User, TablesAgree
<1>2. /\ f \in UserTables
      /\ f.user_list = d.user_list
      /\ f.heap = [d.heap EXCEPT ![u] = new]
      /\ f.user_by_ip = d.user_by_ip
      /\ f.user_by_username = d.user_by_username
  BY <1>1 DEF UserTables
<1>3. ll_equal(f, u) = {}
  <2>1. ASSUME NEW p \in d.user_list PROVE ~user_compare(f.heap, p, u)
    <3>1. p \in UserPtr /\ p # u /\ p # NULL /\ f.heap[p] = d.heap[p] /\ f.heap[u] = new
      BY <1>1, <1>2, LookupIsListed DEF UserTables
    <3>2. d.heap[p].username # n
      BY <3>1 DEF TablesAgree
    <3> QED
      BY <3>1, <3>2 DEF user_compare
  <2> QED
    BY <1>2, <2>1 DEF ll_equal
<1>4. ll_idempotent_add(f, u) = [f EXCEPT !.user_list = @ \cup {u}]
  BY <1>3 DEF ll_idempotent_add
<1>5. /\ r \in UserTables
      /\ r.user_list = d.user_list \cup {u}
      /\ r.heap = [d.heap EXCEPT ![u] = new]
      /\ r.user_by_ip = [d.user_by_ip EXCEPT ![a] = u]
      /\ r.user_by_username = [d.user_by_username EXCEPT ![n] = u]
  <2> DEFINE g == [f EXCEPT !.user_list = @ \cup {u}]
  <2>1. g \in UserTables /\ g.user_list = d.user_list \cup {u} /\ g.heap = f.heap
        /\ g.user_by_ip = d.user_by_ip /\ g.user_by_username = d.user_by_username
    BY <1>2 DEF UserTables
  <2>2. r = [g EXCEPT !.user_by_ip[a] = u, !.user_by_username[n] = u]
    BY <1>4 DEF EnterUser
  <2> HIDE DEF g, r, f
  <2> QED
    BY <1>2, <2>1, <2>2 DEF UserTables
<1> HIDE DEF r, f
<1>6. r.user_list = {p \in UserPtr : r.heap[p] # NULL}
  BY <1>1, <1>5 DEF TablesAgree, UserTables
<1>7. \A p \in d.user_list : p \in UserPtr /\ p # u /\ r.heap[p] = d.heap[p]
  BY <1>1, <1>5, LookupIsListed DEF UserTables
<1>8. r.heap[u] = new /\ r.user_by_ip[a] = u /\ r.user_by_username[n] = u
  BY <1>5 DEF UserTables
<1>9. ASSUME NEW p \in r.user_list
      PROVE  /\ r.user_by_ip[r.heap[p].ip_port] = p
             /\ r.user_by_username[r.heap[p].username] = p
  <2>1. CASE p = u
    BY <1>8, <2>1
  <2>2. CASE p # u
    <3>1. p \in d.user_list /\ d.heap[p] \in User /\ r.heap[p] = d.heap[p] /\ p # NULL
      BY <1>5, <1>7, <2>2, LookupIsListed
    <3>2. d.heap[p].ip_port # a /\ d.heap[p].username # n
      BY <3>1 DEF TablesAgree
    <3> QED
      BY <1>5, <3>1, <3>2 DEF TablesAgree, UserTables, User
  <2> QED
    BY <2>1, <2>2
<1>10. ASSUME NEW b \in IpPort, r.user_by_ip[b] # NULL
       PROVE  r.user_by_ip[b] \in r.user_list /\ r.heap[r.user_by_ip[b]].ip_port = b
  <2>1. CASE b = a
    BY <1>5, <1>8, <2>1
  <2>2. CASE b # a
    <3>1. r.user_by_ip[b] = d.user_by_ip[b]
      BY <1>5, <2>2 DEF UserTables
    <3>2. d.user_by_ip[b] \in d.user_list /\ d.heap[d.user_by_ip[b]].ip_port = b
      BY <1>10, <3>1 DEF TablesAgree
    <3> QED
      BY <1>5, <1>7, <3>1, <3>2
  <2> QED
    BY <2>1, <2>2
<1>11. ASSUME NEW m \in Username, r.user_by_username[m] # NULL
       PROVE  /\ r.user_by_username[m] \in r.user_list
              /\ r.heap[r.user_by_username[m]].username = m
  <2>1. CASE m = n
    BY <1>5, <1>8, <2>1
  <2>2. CASE m # n
    <3>1. r.user_by_username[m] = d.user_by_username[m]
      BY <1>5, <2>2 DEF UserTables
    <3>2. d.user_by_username[m] \in d.user_list /\ d.heap[d.user_by_username[m]].username = m
      BY <1>11, <3>1 DEF TablesAgree
    <3> QED
      BY <1>5, <1>7, <3>1, <3>2
  <2> QED
    BY <2>1, <2>2
<1>12. ASSUME NEW m \in Username
       PROVE  SessionIn(r, m) = IF m = n THEN a ELSE SessionIn(d, m)
  <2>1. CASE m = n
    BY <1>1, <1>8, <2>1 DEF SessionIn
  <2>2. CASE m # n
    <3>1. r.user_by_username[m] = d.user_by_username[m]
      BY <1>5, <2>2 DEF UserTables
    <3> QED
      BY <1>7, <2>2, <3>1, LookupIsListed DEF SessionIn
  <2> QED
    BY <2>1, <2>2
<1>13. TablesAgree(r)
  BY <1>6, <1>9, <1>10, <1>11 DEF TablesAgree
<1> QED
  BY <1>5, <1>12, <1>13 DEF r

\* idempotent_add_user ends the session of that name and the session at that
\* address, and starts the one it was asked for.
LEMMA AddUserAgrees ==
    ASSUME NEW d \in UserTables, TablesAgree(d), NEW n \in Username, NEW a \in IpPort,
           NEW r \in idempotent_add_user(d, n, a)
    PROVE  /\ r \in UserTables
           /\ TablesAgree(r)
           /\ \A p \in r.user_list : \/ p \in d.user_list /\ r.heap[p] = d.heap[p]
                                     \/ r.heap[p].idle = 0
           /\ \A m \in Username :
                 SessionIn(r, m) = IF m = n THEN a
                                   ELSE IF SessionIn(d, m) = a THEN NULL
                                   ELSE SessionIn(d, m)
<1> DEFINE e == RemoveByUsername(d, n)
           f == RemoveByIp(e, a)
<1>1. PICK u \in UserPtr : f.heap[u] = NULL /\ r = EnterUser(f, u, n, a)
  BY DEF idempotent_add_user
<1>2. /\ e \in UserTables /\ TablesAgree(e) /\ e.user_list \subseteq d.user_list
      /\ \A p \in e.user_list : e.heap[p] = d.heap[p]
      /\ \A m \in Username : SessionIn(e, m) = IF m = n THEN NULL ELSE SessionIn(d, m)
  BY RemoveByUsernameAgrees
<1> HIDE DEF e
<1>3. /\ f \in UserTables /\ TablesAgree(f) /\ f.user_list \subseteq e.user_list
      /\ f.user_by_ip[a] = NULL
      /\ \A p \in f.user_list : f.heap[p] = e.heap[p]
      /\ \A m \in Username :
            SessionIn(f, m) = IF SessionIn(e, m) = a THEN NULL ELSE SessionIn(e, m)
  BY <1>2, RemoveByIpAgrees
<1> HIDE DEF f
<1>4. f.user_by_username[n] = NULL
  <2>1. SessionIn(f, n) = NULL
    BY <1>2, <1>3
  <2>2. ASSUME f.user_by_username[n] # NULL PROVE SessionIn(f, n) \in IpPort
    BY <1>3, <2>2, LookupIsListed DEF SessionIn, User
  <2> QED
    BY <2>1, <2>2, NullIsNothing
<1>5. /\ r \in UserTables
      /\ TablesAgree(r)
      /\ r.user_list = f.user_list \cup {u}
      /\ r.heap = [f.heap EXCEPT ![u] = [username |-> n, ip_port |-> a, idle |-> 0]]
      /\ \A m \in Username : SessionIn(r, m) = IF m = n THEN a ELSE SessionIn(f, m)
  BY <1>1, <1>3, <1>4, EnterUserAgrees
<1>6. ASSUME NEW p \in r.user_list, p # u
      PROVE  p \in d.user_list /\ r.heap[p] = d.heap[p]
  <2>1. p \in f.user_list /\ p \in UserPtr
    BY <1>3, <1>5, <1>6, LookupIsListed
  <2>2. r.heap[p] = f.heap[p]
    BY <1>3, <1>5, <1>6, <2>1 DEF UserTables
  <2> QED
    BY <1>2, <1>3, <2>1, <2>2
<1>7. r.heap[u].idle = 0
  BY <1>3, <1>5 DEF UserTables
<1>8. ASSUME NEW m \in Username
      PROVE  SessionIn(r, m) = IF m = n THEN a
                               ELSE IF SessionIn(d, m) = a THEN NULL
                               ELSE SessionIn(d, m)
  BY <1>2, <1>3, <1>5
<1> QED
  BY <1>5, <1>6, <1>7, <1>8

\* A change of idle times alone changes neither agreement nor sessions.
LEMMA OnlyIdleChanges ==
    ASSUME NEW d \in UserTables, TablesAgree(d), NEW e \in UserTables,
           e.user_list = d.user_list, e.user_by_ip = d.user_by_ip,
           e.user_by_username = d.user_by_username,
           \A p \in UserPtr : e.heap[p] = NULL <=> d.heap[p] = NULL,
           \A p \in d.user_list : /\ e.heap[p].username = d.heap[p].username
                                  /\ e.heap[p].ip_port = d.heap[p].ip_port
    PROVE  /\ TablesAgree(e)
           /\ \A m \in Username : SessionIn(e, m) = SessionIn(d, m)
<1>1. TablesAgree(e)
  BY DEF TablesAgree
<1>2. \A m \in Username : SessionIn(e, m) = SessionIn(d, m)
  BY LookupIsListed DEF SessionIn
<1> QED
  BY <1>1, <1>2

\* update_last_seen touches one idle time, if any.
LEMMA UpdateLastSeenAgrees ==
    ASSUME NEW d \in UserTables, TablesAgree(d), NEW u \in d.user_list \cup {NULL}
    PROVE  LET r == update_last_seen(d, u) IN
           /\ r \in UserTables
           /\ TablesAgree(r)
           /\ r.user_list = d.user_list
           /\ r.user_by_ip = d.user_by_ip
           /\ \A p \in d.user_list : r.heap[p] = d.heap[p] \/ r.heap[p].idle = 0
           /\ \A m \in Username : SessionIn(r, m) = SessionIn(d, m)
<1>1. CASE u = NULL
  BY <1>1 DEF update_last_seen
<1>2. CASE u # NULL
  <2> DEFINE r == [d EXCEPT !.heap[u].idle = 0]
             new == [d.heap[u] EXCEPT !.idle = 0]
  <2>1. u \in UserPtr /\ d.heap[u] \in User /\ u \in d.user_list
    BY <1>2, LookupIsListed
  <2>2. /\ new \in User /\ new # NULL /\ new.idle = 0
        /\ new.username = d.heap[u].username /\ new.ip_port = d.heap[u].ip_port
    BY <2>1, NullIsNothing DEF User
  <2>3. /\ r \in UserTables
        /\ r.user_list = d.user_list
        /\ r.user_by_ip = d.user_by_ip
        /\ r.user_by_username = d.user_by_username
        /\ r.heap = [d.heap EXCEPT ![u] = new]
    BY <2>1, <2>2 DEF UserTables
  <2>4. r = update_last_seen(d, u)
    BY <1>2 DEF update_last_seen
  <2> HIDE DEF r, new
  <2>5. \A p \in UserPtr : r.heap[p] = IF p = u THEN new ELSE d.heap[p]
    BY <2>3 DEF UserTables
  <2>6. \A p \in UserPtr : r.heap[p] = NULL <=> d.heap[p] = NULL
    BY <2>1, <2>2, <2>5, LookupIsListed, NullIsNothing
  <2>7. \A p \in d.user_list : /\ r.heap[p].username = d.heap[p].username
                               /\ r.heap[p].ip_port = d.heap[p].ip_port
    BY <2>2, <2>5, LookupIsListed
  <2>8. TablesAgree(r) /\ \A m \in Username : SessionIn(r, m) = SessionIn(d, m)
    BY <2>3, <2>6, <2>7, OnlyIdleChanges
  <2>9. \A p \in d.user_list : r.heap[p] = d.heap[p] \/ r.heap[p].idle = 0
    BY <2>2, <2>5, LookupIsListed
  <2> QED
    BY <2>3, <2>4, <2>8, <2>9
<1> QED
  BY <1>1, <1>2

\* Time ages every user by one unit.
LEMMA AgedAgrees ==
    ASSUME NEW d \in UserTables, TablesAgree(d)
    PROVE  /\ Aged(d) \in UserTables
           /\ TablesAgree(Aged(d))
           /\ Aged(d).user_list = d.user_list
           /\ \A p \in d.user_list : Aged(d).heap[p].idle = d.heap[p].idle + 1
           /\ \A m \in Username : SessionIn(Aged(d), m) = SessionIn(d, m)
<1> DEFINE h == [p \in UserPtr |-> IF d.heap[p] = NULL THEN NULL
                                   ELSE [d.heap[p] EXCEPT !.idle = @ + 1]]
<1>1. ASSUME NEW p \in UserPtr, d.heap[p] # NULL
      PROVE  /\ h[p] \in User /\ h[p] # NULL
             /\ h[p].idle = d.heap[p].idle + 1
             /\ h[p].username = d.heap[p].username
             /\ h[p].ip_port = d.heap[p].ip_port
  <2>1. d.heap[p] \in User
    BY <1>1 DEF UserTables
  <2>2. h[p] = [d.heap[p] EXCEPT !.idle = @ + 1]
    BY <1>1
  <2>3. [d.heap[p] EXCEPT !.idle = @ + 1] \in User
    BY <2>1 DEF User
  <2> QED
    BY <2>1, <2>2, <2>3, NullIsNothing DEF User
<1>2. \A p \in UserPtr : d.heap[p] = NULL => h[p] = NULL
  OBVIOUS
<1>3. h \in [UserPtr -> User \cup {NULL}]
  BY <1>1, <1>2
<1>4. /\ Aged(d) \in UserTables
      /\ Aged(d).user_list = d.user_list
      /\ Aged(d).user_by_ip = d.user_by_ip
      /\ Aged(d).user_by_username = d.user_by_username
      /\ Aged(d).heap = h
  <2> HIDE DEF h
  <2>1. Aged(d) = [d EXCEPT !.heap = h]
    BY DEF Aged, h
  <2> QED
    BY <1>3, <2>1 DEF UserTables
<1> HIDE DEF h
<1>5. \A p \in d.user_list : p \in UserPtr /\ d.heap[p] # NULL
  BY DEF TablesAgree
<1>6. TablesAgree(Aged(d)) /\ \A m \in Username : SessionIn(Aged(d), m) = SessionIn(d, m)
  BY <1>1, <1>2, <1>4, <1>5, OnlyIdleChanges
<1> QED
  BY <1>1, <1>4, <1>5, <1>6
-------------------------------------------------------------------------------
\* The inductive invariant behind the theorems about the tables: the agreement
\* of the tables is what makes removal by value sound, and the lock is what
\* keeps the snapshot of the scan alive.
TablesInv == TypeOK /\ IndexAgreement /\ SnapshotLive

\* What a request that got the lock may do to the user tables: they stay in
\* agreement, and a user in them is as it was or was heard of just now.
RequestEffect ==
    /\ data' \in UserTables
    /\ TablesAgree(data')
    /\ \A p \in data'.user_list : \/ p \in data.user_list /\ data'.heap[p] = data.heap[p]
                                  \/ data'.heap[p].idle = 0

\* A logged in client is one listed user, by its address and by its name.
LEMMA LoggedInUser ==
    ASSUME TablesInv, NEW a \in IpPort, ~NotLoggedIn(a)
    PROVE  /\ data.user_by_ip[a] \in data.user_list
           /\ UserOf(a) \in User
           /\ data.user_by_username[UserOf(a).username] = data.user_by_ip[a]
           /\ UserOf(a).ip_port = a
BY LookupIsListed
   DEF TablesInv, TypeOK, IndexAgreement, TablesAgree, NotLoggedIn, UserOf

LEMMA RefreshEffect ==
    ASSUME TablesInv, NEW a \in IpPort, Refresh(a)
    PROVE  RequestEffect /\ \A m \in Username : SessionIn(data', m) = SessionIn(data, m)
<1>1. data \in UserTables /\ TablesAgree(data)
  BY DEF TablesInv, TypeOK, IndexAgreement
<1>2. data.user_by_username[UserOf(a).username] \in data.user_list
  BY LoggedInUser DEF Refresh
<1> QED
  BY <1>1, <1>2, UpdateLastSeenAgrees DEF Refresh, RequestEffect

LEMMA TouchEffect ==
    ASSUME TablesInv, NEW a \in IpPort, data' = update_last_seen(data, data.user_by_ip[a])
    PROVE  RequestEffect /\ \A m \in Username : SessionIn(data', m) = SessionIn(data, m)
<1>1. data \in UserTables /\ TablesAgree(data)
  BY DEF TablesInv, TypeOK, IndexAgreement
<1>2. data.user_by_ip[a] \in data.user_list \cup {NULL}
  BY <1>1, LookupIsListed
<1> QED
  BY <1>1, <1>2, UpdateLastSeenAgrees DEF RequestEffect

LEMMA SameTablesEffect == ASSUME TablesInv, UNCHANGED data PROVE RequestEffect
BY DEF TablesInv, TypeOK, IndexAgreement, RequestEffect

LEMMA RequestOnTables == ASSUME TablesInv, handle_request PROVE RequestEffect
<1>1. data \in UserTables /\ TablesAgree(data)
  BY DEF TablesInv, TypeOK, IndexAgreement
<1>2. ASSUME NEW n \in Username, NEW a \in IpPort, handle_login(n, a)
      PROVE  RequestEffect
  BY <1>1, <1>2, AddUserAgrees DEF handle_login, RequestEffect
<1>3. ASSUME NEW a \in IpPort, handle_logout(a)
      PROVE  RequestEffect
  <2>1. RemoveByIp(data, a).user_list \subseteq data.user_list
    BY <1>1, RemoveByIpAgrees
  <2> QED
    BY <1>1, <1>3, <2>1, RemoveByIpAgrees DEF handle_logout, RequestEffect
<1>4. ASSUME NEW a \in IpPort, handle_request_list(a) \/ handle_request_keep_alive(a)
      PROVE  RequestEffect
  BY <1>4, TouchEffect DEF handle_request_list, handle_request_keep_alive
<1>5. ASSUME NEW a \in IpPort, RefuseAndList(a)
      PROVE  RequestEffect
  BY <1>5, SameTablesEffect DEF RefuseAndList, tables
<1>6. ASSUME NEW a \in IpPort, NEW c \in Channel, handle_request_join(a, c)
      PROVE  RequestEffect
  BY <1>5, <1>6, RefreshEffect DEF handle_request_join
<1>7. ASSUME NEW a \in IpPort, NEW c \in Channel, handle_request_leave(a, c)
      PROVE  RequestEffect
  BY <1>5, <1>7, RefreshEffect DEF handle_request_leave
<1>8. ASSUME NEW a \in IpPort, NEW c \in Channel, handle_request_say(a, c)
      PROVE  RequestEffect
  BY <1>8, SameTablesEffect, RefreshEffect DEF handle_request_say
<1>9. ASSUME NEW a \in IpPort, NEW c \in Channel, handle_request_who(a, c)
      PROVE  RequestEffect
  BY <1>9, TouchEffect DEF handle_request_who
<1> QED
  BY <1>2, <1>3, <1>4, <1>6, <1>7, <1>8, <1>9 DEF handle_request

\* The channel map keeps its type, whatever the request.
LEMMA RequestOnChannels ==
    ASSUME TablesInv, handle_request
    PROVE  channels' \in [Channel -> (SUBSET Username) \cup {NULL}]
<1>1. channels \in [Channel -> (SUBSET Username) \cup {NULL}]
  BY DEF TablesInv, TypeOK
<1>2. ASSUME NEW a \in IpPort, NEW c \in Channel, handle_request_join(a, c)
      PROVE  channels' \in [Channel -> (SUBSET Username) \cup {NULL}]
  <2>1. CASE RefuseAndList(a)
    BY <1>1, <2>1 DEF RefuseAndList, tables
  <2>2. CASE Refresh(a) /\ channels' = idempotent_channel_add_user(channels, c, UserOf(a).username)
    <3>1. UserOf(a).username \in Username
      BY <2>2, LoggedInUser DEF Refresh, User
    <3>2. InChannel(channels, c) \cup {UserOf(a).username} \in SUBSET Username
      BY <1>1, <3>1 DEF InChannel
    <3> QED
      BY <1>1, <2>2, <3>2 DEF idempotent_channel_add_user
  <2> QED
    BY <1>2, <2>1, <2>2 DEF handle_request_join
<1>3. ASSUME NEW a \in IpPort, NEW c \in Channel, handle_request_leave(a, c)
      PROVE  channels' \in [Channel -> (SUBSET Username) \cup {NULL}]
  <2>1. CASE RefuseAndList(a)
    BY <1>1, <2>1 DEF RefuseAndList, tables
  <2>2. CASE channels' = LeaveChannel(channels, c, UserOf(a).username)
    BY <1>1, <2>2 DEF LeaveChannel
  <2> QED
    BY <1>3, <2>1, <2>2 DEF handle_request_leave
<1> QED
  BY <1>1, <1>2, <1>3
     DEF handle_request, handle_login, handle_logout, handle_request_list,
         handle_request_keep_alive, handle_request_say, handle_request_who

\* A request holds the lock for itself: it runs outside any scan.
LEMMA RequestOutsideScan ==
    ASSUME handle_request
    PROVE  lock = "free" /\ UNCHANGED cleanup
BY DEF handle_request, handle_login, handle_logout, handle_request_list,
       handle_request_keep_alive, handle_request_say, handle_request_who,
       handle_request_join, handle_request_leave, RefuseAndList, Handling

LEMMA RequestMayCrash == ASSUME TablesInv, handle_request PROVE crashed' \in BOOLEAN
<1>1. crashed \in BOOLEAN
  BY DEF TablesInv, TypeOK
<1>2. ASSUME NEW a \in IpPort, RefuseAndList(a)
      PROVE  crashed' \in BOOLEAN
  BY <1>1, <1>2 DEF RefuseAndList, WalkUsers
<1>3. CASE UNCHANGED crashed
  BY <1>1, <1>3
<1> QED
  BY <1>2, <1>3
     DEF handle_request, handle_login, handle_logout, handle_request_list,
         handle_request_keep_alive, handle_request_say, handle_request_who,
         handle_request_join, handle_request_leave

\* One step of the scan that removes a user removes the one it looked at.
LEMMA ScanRemoves ==
    ASSUME TablesInv, NEW p \in UserPtr, ScanRemoveUser(p)
    PROVE  /\ data' \in UserTables
           /\ TablesAgree(data')
           /\ data'.user_list = data.user_list \ {p}
           /\ \A q \in data'.user_list : data'.heap[q] = data.heap[q]
<1>1. p \in data.user_list /\ data \in UserTables /\ TablesAgree(data)
  BY DEF ScanRemoveUser, Scanning, TablesInv, TypeOK, IndexAgreement, SnapshotLive
<1>2. data.heap[p] \in User /\ data.user_by_username[data.heap[p].username] = p
  BY <1>1, LookupIsListed DEF TablesAgree
<1>3. data.heap[p].username \in Username
  BY <1>2 DEF User
<1> QED
  BY <1>1, <1>2, <1>3, RemoveByUsernameAgrees DEF ScanRemoveUser
-------------------------------------------------------------------------------
LEMMA TablesInit == Init => TablesInv
<1> SUFFICES ASSUME Init PROVE TablesInv
  OBVIOUS
<1>1. data \in UserTables
  BY DEF Init, alloc_state, UserTables
<1>2. TypeOK
  BY <1>1 DEF Init, TypeOK
<1>3. IndexAgreement
  BY DEF Init, alloc_state, IndexAgreement, TablesAgree
<1>4. SnapshotLive
  BY DEF Init, SnapshotLive
<1> QED
  BY <1>2, <1>3, <1>4 DEF TablesInv

LEMMA TablesStep == TablesInv /\ [Next]_vars => TablesInv'
<1> SUFFICES ASSUME TablesInv, [Next]_vars PROVE TablesInv'
  OBVIOUS
<1> USE DEF TablesInv
<1>1. CASE handle_request
  <2>1. data' \in UserTables /\ IndexAgreement'
    BY <1>1, RequestOnTables DEF RequestEffect, IndexAgreement
  <2>2. TypeOK'
    BY <1>1, <2>1, RequestOnChannels, RequestOutsideScan, RequestMayCrash DEF TypeOK, cleanup
  <2>3. SnapshotLive'
    BY <1>1, RequestOutsideScan DEF SnapshotLive, cleanup
  <2> QED
    BY <2>1, <2>2, <2>3
<1>2. ASSUME NEW a \in IpPort, bubble_up_error(a)
      PROVE  TablesInv'
  BY <1>2 DEF bubble_up_error, tables, cleanup, TypeOK, IndexAgreement, SnapshotLive
<1>3. CASE ScanBegin
  <2>1. TypeOK'
    BY <1>3 DEF ScanBegin, tables, TypeOK, UserTables, WalkUsers
  <2>2. IndexAgreement'
    BY <1>3 DEF ScanBegin, tables, IndexAgreement
  <2>3. SnapshotLive'
    BY <1>3 DEF ScanBegin, tables, SnapshotLive
  <2> QED
    BY <2>1, <2>2, <2>3
<1>4. ASSUME NEW p \in UserPtr, ScanKeepUser(p)
      PROVE  TablesInv'
  BY <1>4 DEF ScanKeepUser, Scanning, TypeOK, IndexAgreement, SnapshotLive
<1>5. ASSUME NEW p \in UserPtr, ScanRemoveUser(p)
      PROVE  TablesInv'
  <2>1. IndexAgreement' /\ data' \in UserTables /\ data'.user_list = data.user_list \ {p}
    BY <1>5, ScanRemoves DEF IndexAgreement
  <2>2. TypeOK' /\ SnapshotLive'
    BY <1>5, <2>1 DEF ScanRemoveUser, Scanning, TypeOK, SnapshotLive
  <2> QED
    BY <2>1, <2>2
<1>6. CASE ScanEnd
  BY <1>6 DEF ScanEnd, tables, TypeOK, IndexAgreement, SnapshotLive
<1>7. CASE Tick
  <2>1. data' \in UserTables /\ IndexAgreement' /\ data'.user_list = data.user_list
    BY <1>7, AgedAgrees DEF Tick, TypeOK, IndexAgreement
  <2>2. TypeOK' /\ SnapshotLive'
    BY <1>7, <2>1 DEF Tick, TypeOK, SnapshotLive
  <2> QED
    BY <2>1, <2>2
<1>8. CASE UNCHANGED vars
  BY <1>8 DEF vars, TypeOK, IndexAgreement, SnapshotLive
<1> QED
  BY <1>1, <1>2, <1>3, <1>4, <1>5, <1>6, <1>7, <1>8 DEF Next, server_loop, cleanup_loop

LEMMA TablesAlways == Spec => []TablesInv
BY TablesInit, TablesStep, PTL DEF Spec

\* The state of the server keeps its types.
THEOREM TypeCorrect == Spec => []TypeOK
<1>1. TablesInv => TypeOK
  BY DEF TablesInv
<1> QED
  BY <1>1, TablesAlways, PTL

\* Whatever the requests and the scans, the user list and its two indexes name
\* the same users and hold no dangling pointer.
THEOREM TablesAlwaysAgree == Spec => []IndexAgreement
<1>1. TablesInv => IndexAgreement
  BY DEF TablesInv
<1> QED
  BY <1>1, TablesAlways, PTL

\* The scan never reads a user that was freed since it took its snapshot.
THEOREM SnapshotNeverDangles == Spec => []SnapshotLive
<1>1. TablesInv => SnapshotLive
  BY DEF TablesInv
<1> QED
  BY <1>1, TablesAlways, PTL
-------------------------------------------------------------------------------
\* How long the users may have been idle at every moment: what passed since the
\* last scan beyond the timeout, and no more than the timeout once the running
\* scan has looked at them.
IdleInv ==
    /\ asleep <= SCAN_INTERVAL + SCAN_DELAY
    /\ \A p \in data.user_list :
          /\ data.heap[p].idle <= TIMEOUT + asleep
          /\ lock = "cleanup" /\ p \notin scan => data.heap[p].idle <= TIMEOUT

LEMMA IdleInit == Init => IdleInv
BY TimesAreNat DEF Init, IdleInv, alloc_state

LEMMA IdleStep == TablesInv /\ TablesInv' /\ IdleInv /\ [Next]_vars => IdleInv'
<1> SUFFICES ASSUME TablesInv, TablesInv', IdleInv, [Next]_vars PROVE IdleInv'
  OBVIOUS
<1>1. /\ asleep \in Nat /\ asleep <= SCAN_INTERVAL + SCAN_DELAY
      /\ \A p \in data.user_list : data.heap[p] \in User /\ data.heap[p].idle \in Nat
  BY LookupIsListed DEF TablesInv, TypeOK, IndexAgreement, IdleInv, User
<1>2. CASE handle_request
  BY <1>1, <1>2, TimesAreNat, RequestOnTables, RequestOutsideScan
     DEF RequestEffect, IdleInv, cleanup
<1>3. ASSUME NEW a \in IpPort, bubble_up_error(a)
      PROVE  IdleInv'
  BY <1>3 DEF bubble_up_error, tables, cleanup, IdleInv
<1>4. CASE ScanBegin
  BY <1>1, <1>4 DEF ScanBegin, tables, IdleInv
<1>5. ASSUME NEW p \in UserPtr, ScanKeepUser(p)
      PROVE  IdleInv'
  BY <1>1, <1>5 DEF ScanKeepUser, Scanning, IdleInv
<1>6. ASSUME NEW p \in UserPtr, ScanRemoveUser(p)
      PROVE  IdleInv'
  <2>1. data'.user_list = data.user_list \ {p} /\ \A q \in data'.user_list : data'.heap[q] = data.heap[q]
    BY <1>6, ScanRemoves
  <2> QED
    BY <1>1, <1>6, <2>1 DEF ScanRemoveUser, Scanning, IdleInv
<1>7. CASE ScanEnd
  <2>1. \A p \in data.user_list : data.heap[p].idle <= TIMEOUT
    BY <1>7 DEF ScanEnd, IdleInv
  <2> QED
    BY <1>1, <1>7, <2>1, TimesAreNat DEF ScanEnd, tables, IdleInv
<1>8. CASE Tick
  <2>1. /\ data'.user_list = data.user_list
        /\ \A p \in data.user_list : data'.heap[p].idle = data.heap[p].idle + 1
    BY <1>8, AgedAgrees DEF Tick, TablesInv, TypeOK, IndexAgreement
  <2>2. lock' = "free" /\ asleep' = asleep + 1 /\ asleep' <= SCAN_INTERVAL + SCAN_DELAY
    BY <1>1, <1>8, TimesAreNat DEF Tick
  <2>3. \A p \in data.user_list : data'.heap[p].idle <= TIMEOUT + asleep'
    BY <1>1, <2>1, <2>2, TimesAreNat DEF IdleInv
  <2> QED
    BY <2>1, <2>2, <2>3 DEF IdleInv
<1>9. CASE UNCHANGED vars
  BY <1>9 DEF vars, IdleInv
<1> QED
  BY <1>2, <1>3, <1>4, <1>5, <1>6, <1>7, <1>8, <1>9 DEF Next, server_loop, cleanup_loop

\* A client that sends nothing is logged out within the timeout, one sleep of
\* the cleanup loop and the delay of its scan.
THEOREM SilenceIsBounded == Spec => []IdleBound
<1>1. TablesInv /\ IdleInv => IdleBound
  <2> SUFFICES ASSUME TablesInv, IdleInv, NEW p \in data.user_list
               PROVE  data.heap[p].idle <= TIMEOUT + SCAN_INTERVAL + SCAN_DELAY
    BY DEF IdleBound
  <2>1. data.heap[p].idle \in Nat /\ asleep \in Nat
    BY LookupIsListed DEF TablesInv, TypeOK, IndexAgreement, User
  <2> QED
    BY <2>1, TimesAreNat DEF IdleInv
<1> QED
  BY <1>1, TablesAlways, IdleInit, IdleStep, PTL DEF Spec
-------------------------------------------------------------------------------
LEMMA NoEmptyInit == Init => NoEmptyChannel
<1>1. NULL # {}
  BY NullIsNothing
<1> QED
  BY <1>1 DEF Init, NoEmptyChannel

\* Only joins and leaves touch the channel map: the one adds a name, the other
\* drops the channel with its last name.
LEMMA NoEmptyStep == TablesInv /\ NoEmptyChannel /\ [Next]_vars => NoEmptyChannel'
<1> SUFFICES ASSUME TablesInv, NoEmptyChannel, [Next]_vars PROVE NoEmptyChannel'
  OBVIOUS
<1>1. NULL # {} /\ channels \in [Channel -> (SUBSET Username) \cup {NULL}]
  BY NullIsNothing DEF TablesInv, TypeOK
<1>2. CASE UNCHANGED channels
  BY <1>2 DEF NoEmptyChannel
<1>3. ASSUME NEW c \in Channel, NEW n,
             channels' = idempotent_channel_add_user(channels, c, n)
      PROVE  NoEmptyChannel'
  BY <1>1, <1>3 DEF NoEmptyChannel, idempotent_channel_add_user, InChannel
<1>4. ASSUME NEW c \in Channel, NEW n, channels' = LeaveChannel(channels, c, n)
      PROVE  NoEmptyChannel'
  BY <1>1, <1>4 DEF NoEmptyChannel, LeaveChannel
<1>5. CASE handle_request
  BY <1>2, <1>3, <1>4, <1>5
     DEF handle_request, handle_login, handle_logout, handle_request_list,
         handle_request_keep_alive, handle_request_say, handle_request_who,
         handle_request_join, handle_request_leave, RefuseAndList, tables
<1>6. CASE ~handle_request
  BY <1>2, <1>6
     DEF Next, server_loop, cleanup_loop, bubble_up_error, ScanBegin, ScanKeepUser,
         ScanRemoveUser, Scanning, ScanEnd, Tick, tables, vars
<1> QED
  BY <1>5, <1>6

\* A channel that everybody left is gone from the channel map.
THEOREM EmptyChannelsAreGone == Spec => []NoEmptyChannel
BY TablesAlways, NoEmptyInit, NoEmptyStep, PTL DEF Spec
-------------------------------------------------------------------------------
\* The server implements ChatService.  A session is read from the index by name
\* and a request is looked up by address, so that the agreement of the tables is
\* what the argument rests on.

\* Who the service says is logged in from an address is who the server finds.
LEMMA NobodyAt ==
    ASSUME TablesInv, NEW a \in IpPort, NotLoggedIn(a)
    PROVE  Service!UserAt(a) = {}
<1>1. \A n \in Username : SessionIn(data, n) # a
  BY LookupIsListed, NullIsNothing
     DEF TablesInv, TypeOK, IndexAgreement, TablesAgree, NotLoggedIn, SessionIn
<1> QED
  BY <1>1 DEF Service!UserAt, Session

LEMMA OneUserAt ==
    ASSUME TablesInv, NEW a \in IpPort, ~NotLoggedIn(a)
    PROVE  Service!UserAt(a) = {UserOf(a).username}
<1>1. UserOf(a).username \in Username
  BY LoggedInUser DEF User
<1>2. SessionIn(data, UserOf(a).username) = a
  BY LoggedInUser DEF SessionIn, NotLoggedIn, UserOf
<1>3. ASSUME NEW n \in Username, SessionIn(data, n) = a
      PROVE  n = UserOf(a).username
  BY <1>3, LookupIsListed, NullIsNothing
     DEF TablesInv, TypeOK, IndexAgreement, TablesAgree, SessionIn, UserOf
<1> QED
  BY <1>1, <1>2, <1>3 DEF Service!UserAt, Session

LEMMA SameSessions ==
    ASSUME \A n \in Username : SessionIn(data', n) = SessionIn(data, n)
    PROVE  [n \in Username |-> Session(n)]' = [n \in Username |-> Session(n)]
BY DEF Session

LEMMA LoginImplements ==
    ASSUME TablesInv, NEW n \in Username, NEW a \in IpPort, handle_login(n, a)
    PROVE  Service!Login(n, a)
<1>1. \A m \in Username :
         SessionIn(data', m) = IF m = n THEN a
                               ELSE IF SessionIn(data, m) = a THEN NULL
                               ELSE SessionIn(data, m)
  BY AddUserAgrees DEF handle_login, TablesInv, TypeOK, IndexAgreement
<1> QED
  BY <1>1 DEF handle_login, Service!Login, Session

LEMMA LogoutImplements ==
    ASSUME TablesInv, NEW a \in IpPort, handle_logout(a)
    PROVE  Service!Logout(a)
<1>1. \A m \in Username :
         SessionIn(data', m) = IF SessionIn(data, m) = a THEN NULL ELSE SessionIn(data, m)
  BY RemoveByIpAgrees DEF handle_logout, TablesInv, TypeOK, IndexAgreement
<1> QED
  BY <1>1 DEF handle_logout, Service!Logout, Session

LEMMA JoinImplements ==
    ASSUME TablesInv, NEW a \in IpPort, NEW c \in Channel, handle_request_join(a, c)
    PROVE  Service!Join(a, c)
<1>1. CASE RefuseAndList(a)
  <2>1. Service!UserAt(a) = {}
    BY <1>1, NobodyAt DEF RefuseAndList
  <2> QED
    BY <1>1, <2>1 DEF RefuseAndList, tables, Service!Join, Session, TextError, Service!TextError
<1>2. CASE /\ Refresh(a)
           /\ channels' = idempotent_channel_add_user(channels, c, UserOf(a).username)
           /\ out' = {}
  <2>1. Service!UserAt(a) = {UserOf(a).username}
    BY <1>2, OneUserAt DEF Refresh
  <2>2. [n \in Username |-> Session(n)]' = [n \in Username |-> Session(n)]
    BY <1>2, RefreshEffect, SameSessions
  <2>3. \A d \in Channel : InChannel(channels', d) =
           IF d = c THEN InChannel(channels, c) \cup {UserOf(a).username}
           ELSE InChannel(channels, d)
    <3>1. UserOf(a).username \in Username
      BY <1>2, LoggedInUser DEF Refresh, User
    <3>2. InChannel(channels, c) \cup {UserOf(a).username} \in SUBSET Username
      BY <3>1 DEF InChannel, TablesInv, TypeOK
    <3>3. InChannel(channels, c) \cup {UserOf(a).username} # NULL
      BY <3>2, NullIsNothing
    <3> QED
      BY <1>2, <3>3 DEF InChannel, idempotent_channel_add_user, TablesInv, TypeOK
  <2> QED
    BY <1>2, <2>1, <2>2, <2>3 DEF Service!Join
<1> QED
  BY <1>1, <1>2 DEF handle_request_join

LEMMA LeaveImplements ==
    ASSUME TablesInv, NEW a \in IpPort, NEW c \in Channel, handle_request_leave(a, c)
    PROVE  Service!Leave(a, c)
<1>1. CASE RefuseAndList(a)
  <2>1. Service!UserAt(a) = {}
    BY <1>1, NobodyAt DEF RefuseAndList
  <2> QED
    BY <1>1, <2>1 DEF RefuseAndList, tables, Service!Leave, Session, TextError, Service!TextError
<1>2. CASE /\ Refresh(a)
           /\ channels' = LeaveChannel(channels, c, UserOf(a).username)
           /\ out' = {}
  <2>1. Service!UserAt(a) = {UserOf(a).username}
    BY <1>2, OneUserAt DEF Refresh
  <2>2. [n \in Username |-> Session(n)]' = [n \in Username |-> Session(n)]
    BY <1>2, RefreshEffect, SameSessions
  <2>3. \A d \in Channel : InChannel(channels', d) =
           IF d = c THEN InChannel(channels, c) \ {UserOf(a).username}
           ELSE InChannel(channels, d)
    <3>1. channels[c] # NULL => channels[c] \in SUBSET Username
      BY DEF TablesInv, TypeOK
    <3>2. channels[c] # NULL => channels[c] \ {UserOf(a).username} # NULL
      BY <3>1, NullIsNothing
    <3> QED
      BY <1>2, <3>2 DEF InChannel, LeaveChannel, TablesInv, TypeOK
  <2> QED
    BY <1>2, <2>1, <2>2, <2>3 DEF Service!Leave
<1> QED
  BY <1>1, <1>2 DEF handle_request_leave

LEMMA SayImplements ==
    ASSUME TablesInv, NoEmptyChannel, NEW a \in IpPort, NEW c \in Channel,
           handle_request_say(a, c)
    PROVE  Service!Say(a, c)
<1> DEFINE n == UserOf(a).username
<1>1. CASE NotLoggedIn(a) /\ out' = {TextError(a, "not_logged_in")} /\ UNCHANGED data
  BY <1>1, NobodyAt
     DEF handle_request_say, Service!Say, Session, TextError, Service!TextError
<1>2. CASE Refresh(a)
           /\ out' = IF channels[c] = NULL THEN {TextError(a, "no_channel")}
                     ELSE IF n \notin channels[c] THEN {TextError(a, "not_member")}
                     ELSE SayToChannel(n, c)
  <2>1. Service!UserAt(a) = {n}
    BY <1>2, OneUserAt DEF Refresh
  <2>2. [m \in Username |-> Session(m)]' = [m \in Username |-> Session(m)]
    BY <1>2, RefreshEffect, SameSessions
  <2>3. channels[c] = NULL <=> InChannel(channels, c) = {}
    BY DEF InChannel, NoEmptyChannel
  <2>4. ASSUME channels[c] # NULL PROVE SayToChannel(n, c) = Service!Said(n, c)
    <3>1. channels[c] \in SUBSET Username /\ InChannel(channels, c) = channels[c]
      BY <2>4 DEF TablesInv, TypeOK, InChannel
    <3>2. \A m \in Username :
             /\ data.user_by_username[m] # NULL =>
                   Session(m) = data.heap[data.user_by_username[m]].ip_port
             /\ data.user_by_username[m] # NULL <=> Session(m) # NULL
      BY LookupIsListed, NullIsNothing
         DEF Session, SessionIn, TablesInv, TypeOK, IndexAgreement, User
    <3> QED
      BY <3>1, <3>2 DEF SayToChannel, Service!Said, TextSay, Service!TextSay
  <2> HIDE DEF n
  <2> QED
    BY <1>2, <2>1, <2>2, <2>3, <2>4
       DEF handle_request_say, Service!Say, InChannel, TextError, Service!TextError
<1> QED
  BY <1>1, <1>2 DEF handle_request_say

LEMMA ListImplements ==
    ASSUME TablesInv, NoEmptyChannel, NEW a \in IpPort, handle_request_list(a)
    PROVE  Service!List(a)
<1>1. [m \in Username |-> Session(m)]' = [m \in Username |-> Session(m)]
  BY TouchEffect, SameSessions DEF handle_request_list
<1>2. get_channel_list(channels) = Service!OpenChannels
  BY DEF get_channel_list, Service!OpenChannels, NoEmptyChannel, InChannel
<1> QED
  BY <1>1, <1>2
     DEF handle_request_list, Service!List, TextError, Service!TextError,
         TextList, Service!TextList

LEMMA WhoImplements ==
    ASSUME TablesInv, NoEmptyChannel, NEW a \in IpPort, NEW c \in Channel,
           handle_request_who(a, c)
    PROVE  Service!Who(a, c)
<1>1. [m \in Username |-> Session(m)]' = [m \in Username |-> Session(m)]
  BY TouchEffect, SameSessions DEF handle_request_who
<1> QED
  BY <1>1 DEF handle_request_who, Service!Who, NoEmptyChannel, InChannel,
              TextError, Service!TextError, TextWho, Service!TextWho

LEMMA KeepAliveImplements ==
    ASSUME TablesInv, NEW a \in IpPort, handle_request_keep_alive(a)
    PROVE  Service!KeepAlive
<1>1. [m \in Username |-> Session(m)]' = [m \in Username |-> Session(m)]
  BY TouchEffect, SameSessions DEF handle_request_keep_alive
<1> QED
  BY <1>1 DEF handle_request_keep_alive, Service!KeepAlive

LEMMA RefuseImplements ==
    ASSUME NEW a \in IpPort, bubble_up_error(a)
    PROVE  Service!Refuse(a)
BY DEF bubble_up_error, tables, Service!Refuse, Session, TextError, Service!TextError

\* A removal by the scan is the end of one session.
LEMMA RemovalImplements ==
    ASSUME TablesInv, NEW p \in UserPtr, ScanRemoveUser(p)
    PROVE  \E n \in Username : Service!Expire(n)
<1> DEFINE n == data.heap[p].username
<1>1. p \in data.user_list /\ data \in UserTables /\ TablesAgree(data)
  BY DEF ScanRemoveUser, Scanning, TablesInv, TypeOK, IndexAgreement, SnapshotLive
<1>2. n \in Username
  BY <1>1, LookupIsListed DEF User
<1> HIDE DEF n
<1>3. \A m \in Username : SessionIn(data', m) = IF m = n THEN NULL ELSE SessionIn(data, m)
  BY <1>1, <1>2, RemoveByUsernameAgrees DEF ScanRemoveUser, n
<1>4. Service!Expire(n)
  BY <1>3 DEF ScanRemoveUser, Scanning, Service!Expire, Session
<1> QED
  BY <1>2, <1>4

\* The other steps of the two threads and of the clock are not seen outside.
LEMMA SilentStep ==
    ASSUME TablesInv,
           \/ ScanBegin \/ ScanEnd \/ Tick \/ UNCHANGED vars
           \/ \E p \in UserPtr : ScanKeepUser(p)
    PROVE  UNCHANGED Service!service
<1>1. \A n \in Username : SessionIn(data', n) = SessionIn(data, n)
  <2>1. CASE Tick
    BY <2>1, AgedAgrees DEF Tick, TablesInv, TypeOK, IndexAgreement
  <2>2. CASE UNCHANGED data
    BY <2>2
  <2> QED
    BY <2>1, <2>2 DEF ScanBegin, ScanEnd, ScanKeepUser, tables, vars
<1>2. UNCHANGED <<channels, out>>
  BY DEF ScanBegin, ScanEnd, Tick, ScanKeepUser, Scanning, tables, vars
<1> QED
  BY <1>1, <1>2, SameSessions DEF Service!service

LEMMA ServiceInit == Init => Service!Init
<1> SUFFICES ASSUME Init PROVE Service!Init
  OBVIOUS
<1>1. \A n \in Username : Session(n) = NULL
  BY DEF Init, alloc_state, Session, SessionIn
<1>2. \A c \in Channel : InChannel(channels, c) = {}
  BY DEF Init, InChannel
<1> QED
  BY <1>1, <1>2 DEF Init, Service!Init

LEMMA ServiceStep ==
    TablesInv /\ NoEmptyChannel /\ [Next]_vars => [Service!Next]_(Service!service)
<1> SUFFICES ASSUME TablesInv, NoEmptyChannel, [Next]_vars
             PROVE  Service!Next \/ UNCHANGED Service!service
  OBVIOUS
<1>1. CASE handle_request
  BY <1>1, LoginImplements, LogoutImplements, JoinImplements, LeaveImplements, SayImplements,
     ListImplements, WhoImplements, KeepAliveImplements
     DEF handle_request, Service!Next
<1>2. ASSUME NEW a \in IpPort, bubble_up_error(a)
      PROVE  Service!Next
  BY <1>2, RefuseImplements DEF Service!Next
<1>3. ASSUME NEW p \in UserPtr, ScanRemoveUser(p)
      PROVE  Service!Next
  BY <1>3, RemovalImplements DEF Service!Next
<1> QED
  BY <1>1, <1>2, <1>3, SilentStep DEF Next, server_loop, cleanup_loop

\* The server's threads, tables and pointers implement the service: the answers
\* and the effects of every request are those of a server that has nothing but
\* a map of sessions and a map of subscriptions.
THEOREM ServerImplementsService == Spec => ImplementsService
BY TablesAlways, EmptyChannelsAreGone, ServiceInit, ServiceStep, PTL
   DEF Spec, ImplementsService, Service!Spec
-------------------------------------------------------------------------------
\* Requests that are neither a login nor a logout leave every session alone.
LEMMA SessionsUntouched ==
    ASSUME TablesInv, handle_request,
           \A a \in IpPort : ~handle_logout(a) /\ \A n \in Username : ~handle_login(n, a)
    PROVE  \A n \in Username : SessionIn(data', n) = SessionIn(data, n)
<1>1. ASSUME NEW a \in IpPort, handle_request_list(a) \/ handle_request_keep_alive(a)
      PROVE  \A n \in Username : SessionIn(data', n) = SessionIn(data, n)
  BY <1>1, TouchEffect DEF handle_request_list, handle_request_keep_alive
<1>2. ASSUME NEW a \in IpPort, NEW c \in Channel, handle_request_who(a, c)
      PROVE  \A n \in Username : SessionIn(data', n) = SessionIn(data, n)
  BY <1>2, TouchEffect DEF handle_request_who
<1>3. ASSUME NEW a \in IpPort, Refresh(a) \/ UNCHANGED data
      PROVE  \A n \in Username : SessionIn(data', n) = SessionIn(data, n)
  BY <1>3, RefreshEffect
<1>4. ASSUME NEW a \in IpPort, NEW c \in Channel,
             \/ handle_request_join(a, c)
             \/ handle_request_leave(a, c)
             \/ handle_request_say(a, c)
      PROVE  Refresh(a) \/ UNCHANGED data
  BY <1>4 DEF handle_request_join, handle_request_leave, handle_request_say,
              RefuseAndList, tables
<1> QED
  BY <1>1, <1>2, <1>3, <1>4 DEF handle_request

LEMMA RequestEndsForCause ==
    ASSUME TablesInv, handle_request, NEW n \in Username
    PROVE  EndsForCause(n)
<1>1. data \in UserTables /\ TablesAgree(data)
  BY DEF TablesInv, TypeOK, IndexAgreement
<1>2. ASSUME NEW m \in Username, NEW a \in IpPort, handle_login(m, a)
      PROVE  EndsForCause(n)
  <2>1. SessionIn(data', n) = IF n = m THEN a
                              ELSE IF SessionIn(data, n) = a THEN NULL
                              ELSE SessionIn(data, n)
    BY <1>1, <1>2, AddUserAgrees DEF handle_login
  <2> QED
    BY <1>2, <2>1 DEF EndsForCause, Session
<1>3. ASSUME NEW a \in IpPort, handle_logout(a)
      PROVE  EndsForCause(n)
  <2>1. SessionIn(data', n) = IF SessionIn(data, n) = a THEN NULL ELSE SessionIn(data, n)
    BY <1>1, <1>3, RemoveByIpAgrees DEF handle_logout
  <2> QED
    BY <1>3, <2>1 DEF EndsForCause, Session
<1>4. CASE \A a \in IpPort : ~handle_logout(a) /\ \A m \in Username : ~handle_login(m, a)
  BY <1>4, SessionsUntouched DEF EndsForCause, Session
<1> QED
  BY <1>2, <1>3, <1>4

\* The scan ends the session of the user it looks at, whose silence it measured
\* in the record the index by name leads to.
LEMMA RemovalEndsForCause ==
    ASSUME TablesInv, NEW p \in UserPtr, ScanRemoveUser(p), NEW n \in Username
    PROVE  EndsForCause(n)
<1> DEFINE k == data.heap[p].username
<1>1. p \in data.user_list /\ data \in UserTables /\ TablesAgree(data)
  BY DEF ScanRemoveUser, Scanning, TablesInv, TypeOK, IndexAgreement, SnapshotLive
<1>2. k \in Username /\ data.user_by_username[k] = p /\ p # NULL
  BY <1>1, LookupIsListed, NullIsNothing DEF User, TablesAgree
<1> HIDE DEF k
<1>3. SessionIn(data', n) = IF n = k THEN NULL ELSE SessionIn(data, n)
  BY <1>1, <1>2, RemoveByUsernameAgrees DEF ScanRemoveUser, k
<1>4. CASE n = k
  <2>1. Idle(n) > TIMEOUT
    BY <1>2, <1>4 DEF Idle, ScanRemoveUser
  <2> QED
    BY <2>1 DEF EndsForCause, cleanup_loop
<1>5. CASE n # k
  BY <1>3, <1>5 DEF EndsForCause, Session
<1> QED
  BY <1>4, <1>5

LEMMA CauseStep ==
    TablesInv /\ [Next]_vars => [\A n \in Username : EndsForCause(n)]_vars
<1> SUFFICES ASSUME TablesInv, [Next]_vars, NEW n \in Username
             PROVE  EndsForCause(n)
  OBVIOUS
<1>1. CASE handle_request
  BY <1>1, RequestEndsForCause
<1>2. ASSUME NEW p \in UserPtr, ScanRemoveUser(p)
      PROVE  EndsForCause(n)
  BY <1>2, RemovalEndsForCause
<1>3. CASE Tick
  <2>1. SessionIn(data', n) = SessionIn(data, n)
    BY <1>3, AgedAgrees DEF Tick, TablesInv, TypeOK, IndexAgreement
  <2> QED
    BY <2>1 DEF EndsForCause, Session
<1>4. CASE UNCHANGED data
  BY <1>4 DEF EndsForCause, Session
<1>5. ASSUME \/ ScanBegin \/ ScanEnd \/ UNCHANGED vars
             \/ \E p \in UserPtr : ScanKeepUser(p)
             \/ \E a \in IpPort : bubble_up_error(a)
      PROVE  UNCHANGED data
  BY <1>5 DEF ScanBegin, ScanEnd, ScanKeepUser, bubble_up_error, tables, vars
<1> QED
  BY <1>1, <1>2, <1>3, <1>4, <1>5 DEF Next, server_loop, cleanup_loop

\* No client is logged out by the others, unless they take its name or address,
\* and the scan ends no session that was heard of within the timeout.
THEOREM SessionsEndOnlyForCause == Spec => SessionEndsForCause
BY TablesAlways, CauseStep, PTL DEF Spec, SessionEndsForCause
==============================================================================
