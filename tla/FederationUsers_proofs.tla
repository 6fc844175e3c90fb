------------------------ MODULE FederationUsers_proofs ------------------------
(***************************************************************************)
(* The users of the distributed servers, for every topology and any number *)
(* of servers, clients and channels: the logged in users of a server agree *)
(* entirely with its two indexes, and the indexes of a channel are sound.  *)
(*                                                                         *)
(* As long as no login takes over a name or an address, the channels have  *)
(* logged in users only (GhostInv); and if the servers form a forest and   *)
(* no datagram comes twice, nobody gets a message twice (OnItsWay).        *)
(***************************************************************************)
EXTENDS Federation_proofs, DataLemmas, FiniteSetTheorems

Agree(us) == us \in UserSets /\ IndexesSound(us) /\ IndexesComplete(us)

Sound(us) == us \in UserSets /\ IndexesSound(us)
-------------------------------------------------------------------------------
\* The operations of a user set.

LEMMA UsersAreEntries == \A us : Users(us) = Entries(us.user_list)
BY DEF Users, Entries

LEMMA UsersAreUsers ==
    ASSUME NEW us \in UserSets, NEW u \in Users(us)
    PROVE  u \in User /\ u.name \in Username /\ u.addr \in Addr /\ u # NULL
<1>1. u \in User
  BY DEF Users, UserSets
<1> QED
  BY <1>1, NullIsNoUser DEF User

LEMMA EmptyAgrees == Agree(EmptyUserSet)
<1>1. EmptyUserSet \in UserSets
  BY EmptySeq DEF EmptyUserSet, UserSets
<1>2. Len(<<>>) = 0 /\ DOMAIN <<>> = {}
  OBVIOUS
<1> QED
  BY <1>1, <1>2 DEF Agree, EmptyUserSet, Users, IndexesSound, IndexesComplete, IsInjective

\* What an erase does to each part.
LEMMA EraseParts ==
    ASSUME NEW us \in UserSets, NEW u \in User
    PROVE  /\ EraseUser(us, u) \in UserSets
           /\ Users(EraseUser(us, u)) \subseteq Users(us)
           /\ Users(us) \ {u} \subseteq Users(EraseUser(us, u))
           /\ IsInjective(us.user_list) => /\ IsInjective(EraseUser(us, u).user_list)
                                          /\ u \notin Users(EraseUser(us, u))
           /\ \A n \in Username : EraseUser(us, u).user_name_map[n]
                = IF n = u.name THEN NULL ELSE us.user_name_map[n]
           /\ \A a \in Addr : EraseUser(us, u).user_ip_map[a]
                = IF a = u.addr THEN NULL ELSE us.user_ip_map[a]
<1>1. us.user_list \in Seq(User)
  BY DEF UserSets
<1>2. /\ RemoveFirst(us.user_list, u) \in Seq(User)
      /\ Entries(RemoveFirst(us.user_list, u)) \subseteq Entries(us.user_list)
      /\ Entries(us.user_list) \ {u} \subseteq Entries(RemoveFirst(us.user_list, u))
      /\ IsInjective(us.user_list) => /\ IsInjective(RemoveFirst(us.user_list, u))
                                     /\ u \notin Entries(RemoveFirst(us.user_list, u))
  BY <1>1, RemoveFirstEntries
<1>3. EraseUser(us, u).user_list = RemoveFirst(us.user_list, u)
  BY DEF EraseUser
<1>4. u.name \in Username /\ u.addr \in Addr
  BY DEF User
<1>5. EraseUser(us, u) \in UserSets
  BY <1>2, <1>4 DEF EraseUser, UserSets
<1>6. /\ \A n \in Username : EraseUser(us, u).user_name_map[n]
            = IF n = u.name THEN NULL ELSE us.user_name_map[n]
      /\ \A a \in Addr : EraseUser(us, u).user_ip_map[a]
            = IF a = u.addr THEN NULL ELSE us.user_ip_map[a]
  BY DEF EraseUser, UserSets
<1> QED
  BY <1>2, <1>3, <1>5, <1>6, UsersAreEntries

\* An erase keeps the indexes sound, whoever is erased.
LEMMA EraseSound ==
    ASSUME NEW us, Sound(us), NEW u \in User
    PROVE  Sound(EraseUser(us, u))
<1> DEFINE new == EraseUser(us, u)
<1>0. us \in UserSets /\ IndexesSound(us)
  BY DEF Sound
<1>1. /\ new \in UserSets
      /\ Users(us) \ {u} \subseteq Users(new)
      /\ \A n \in Username : new.user_name_map[n] = IF n = u.name THEN NULL ELSE us.user_name_map[n]
      /\ \A a \in Addr : new.user_ip_map[a] = IF a = u.addr THEN NULL ELSE us.user_ip_map[a]
  BY <1>0, EraseParts
<1> HIDE DEF new
<1>2. ASSUME NEW n \in Username, new.user_name_map[n] # NULL
      PROVE  new.user_name_map[n] \in Users(new) /\ new.user_name_map[n].name = n
  BY <1>0, <1>1, <1>2 DEF IndexesSound
<1>3. ASSUME NEW a \in Addr, new.user_ip_map[a] # NULL
      PROVE  new.user_ip_map[a] \in Users(new) /\ new.user_ip_map[a].addr = a
  BY <1>0, <1>1, <1>3 DEF IndexesSound
<1>4. Sound(new)
  BY <1>1, <1>2, <1>3 DEF Sound, IndexesSound
<1> QED
  BY <1>4 DEF new

\* An erase of a user of the set keeps a set in agreement, and takes that user alone.
LEMMA EraseAgrees ==
    ASSUME NEW us, Agree(us), NEW u \in Users(us)
    PROVE  /\ u \in User
           /\ Agree(EraseUser(us, u))
           /\ Users(EraseUser(us, u)) = Users(us) \ {u}
<1> DEFINE new == EraseUser(us, u)
<1>0. us \in UserSets /\ IndexesSound(us) /\ IndexesComplete(us)
  BY DEF Agree
<1>u. u \in User
  BY <1>0, UsersAreUsers
<1>1. /\ new \in UserSets
      /\ Users(new) \subseteq Users(us)
      /\ Users(us) \ {u} \subseteq Users(new)
      /\ IsInjective(new.user_list) /\ u \notin Users(new)
      /\ \A n \in Username : new.user_name_map[n] = IF n = u.name THEN NULL ELSE us.user_name_map[n]
      /\ \A a \in Addr : new.user_ip_map[a] = IF a = u.addr THEN NULL ELSE us.user_ip_map[a]
  BY <1>0, <1>u, EraseParts DEF IndexesComplete
<1>2. Sound(new)
  BY <1>0, <1>u, EraseSound DEF Sound
<1> HIDE DEF new
<1>3. ASSUME NEW v \in Users(new)
      PROVE  new.user_name_map[v.name] = v /\ new.user_ip_map[v.addr] = v
  <2>1. v \in Users(us) /\ v # u
    BY <1>1
  <2>2. v \in User /\ v.name \in Username /\ v.addr \in Addr
    BY <2>1, <1>0, UsersAreUsers
  <2>3. /\ us.user_name_map[v.name] = v /\ us.user_ip_map[v.addr] = v
        /\ us.user_name_map[u.name] = u /\ us.user_ip_map[u.addr] = u
    BY <2>1, <1>0 DEF IndexesComplete
  <2>4. v.name # u.name /\ v.addr # u.addr
    BY <2>1, <2>3
  <2> QED
    BY <2>2, <2>3, <2>4, <1>1
<1>4. Agree(new) /\ Users(new) = Users(us) \ {u}
  BY <1>1, <1>2, <1>3 DEF Agree, Sound, IndexesComplete
<1> QED
  BY <1>4, <1>u DEF new

\* An insert at the end under keys that lead nowhere else keeps the indexes sound.
LEMMA AppendParts ==
    ASSUME NEW us \in UserSets, NEW u \in User,
           NEW new, new = [user_list     |-> Append(us.user_list, u),
                           user_name_map |-> InsertKey(us.user_name_map, u.name, u),
                           user_ip_map   |-> InsertKey(us.user_ip_map, u.addr, u)]
    PROVE  /\ new \in UserSets
           /\ Users(new) = Users(us) \cup {u}
           /\ u \notin Users(us) /\ IsInjective(us.user_list) => IsInjective(new.user_list)
           /\ \A n \in Username : new.user_name_map[n] =
                 IF n = u.name /\ us.user_name_map[n] = NULL THEN u ELSE us.user_name_map[n]
           /\ \A a \in Addr : new.user_ip_map[a] =
                 IF a = u.addr /\ us.user_ip_map[a] = NULL THEN u ELSE us.user_ip_map[a]
<1> DEFINE s == us.user_list
           t == Append(s, u)
<1>0. /\ u.name \in Username /\ u.addr \in Addr
      /\ us.user_name_map \in [Username -> User \cup {NULL}]
      /\ us.user_ip_map \in [Addr -> User \cup {NULL}]
  BY DEF User, UserSets
<1>s. s \in Seq(User) /\ Len(s) \in Nat
  BY DEF UserSets
<1>1. /\ t \in Seq(User) /\ Len(t) = Len(s) + 1
      /\ t[Len(s) + 1] = u /\ \A i \in 1..Len(s) : t[i] = s[i]
  BY <1>s
<1>2. /\ DOMAIN s = 1..Len(s) /\ DOMAIN t = 1..Len(s) + 1
  BY <1>s, <1>1, LenProperties
<1> HIDE DEF s, t
<1>3. Entries(t) = Entries(s) \cup {u}
  BY <1>1, <1>s DEF Entries
<1>4. u \notin Entries(s) /\ IsInjective(s) => IsInjective(t)
  BY <1>1, <1>2, <1>s DEF Entries, IsInjective
<1>5. /\ InsertKey(us.user_name_map, u.name, u) \in [Username -> User \cup {NULL}]
      /\ \A n \in Username : InsertKey(us.user_name_map, u.name, u)[n] =
            IF n = u.name /\ us.user_name_map[n] = NULL THEN u ELSE us.user_name_map[n]
  BY <1>0 DEF InsertKey
<1>6. /\ InsertKey(us.user_ip_map, u.addr, u) \in [Addr -> User \cup {NULL}]
      /\ \A a \in Addr : InsertKey(us.user_ip_map, u.addr, u)[a] =
            IF a = u.addr /\ us.user_ip_map[a] = NULL THEN u ELSE us.user_ip_map[a]
  BY <1>0 DEF InsertKey
<1>7. new \in UserSets
  BY <1>1, <1>5, <1>6 DEF UserSets, t, s
<1>8. Users(new) = Entries(t) /\ Users(us) = Entries(s) /\ new.user_list = t
  BY UsersAreEntries DEF t, s
<1> QED
  BY <1>3, <1>4, <1>5, <1>6, <1>7, <1>8 DEF s

LEMMA RemoveByNameSound ==
    ASSUME NEW us, Sound(us), NEW n \in Username
    PROVE  /\ Sound(RemoveByName(us, n))
           /\ RemoveByName(us, n).user_name_map[n] = NULL
<1>0. us \in UserSets /\ IndexesSound(us)
  BY DEF Sound
<1> DEFINE u == us.user_name_map[n]
<1>1. CASE u = NULL
  BY <1>1 DEF RemoveByName, RemoveFound
<1>2. CASE u # NULL
  <2>1. u \in User /\ u.name = n
    BY <1>0, <1>2 DEF UserSets, IndexesSound
  <2>2. RemoveByName(us, n) = EraseUser(us, u)
    BY <1>2 DEF RemoveByName, RemoveFound
  <2> HIDE DEF u
  <2> QED
    BY <2>1, <2>2, <1>0, EraseSound, EraseParts
<1> QED
  BY <1>1, <1>2

LEMMA RemoveByAddrSound ==
    ASSUME NEW us, Sound(us), NEW a \in Addr
    PROVE  /\ Sound(RemoveByAddr(us, a))
           /\ RemoveByAddr(us, a).user_ip_map[a] = NULL
           /\ \A n \in Username : us.user_name_map[n] = NULL
                                    => RemoveByAddr(us, a).user_name_map[n] = NULL
<1>0. us \in UserSets /\ IndexesSound(us)
  BY DEF Sound
<1> DEFINE u == us.user_ip_map[a]
<1>1. CASE u = NULL
  BY <1>1 DEF RemoveByAddr, RemoveFound
<1>2. CASE u # NULL
  <2>1. u \in User /\ u.addr = a
    BY <1>0, <1>2 DEF UserSets, IndexesSound
  <2>2. RemoveByAddr(us, a) = EraseUser(us, u)
    BY <1>2 DEF RemoveByAddr, RemoveFound
  <2> HIDE DEF u
  <2> QED
    BY <2>1, <2>2, <1>0, EraseSound, EraseParts
<1> QED
  BY <1>1, <1>2

\* A removal by a key keeps a set in agreement and removes who has the key alone.
LEMMA RemoveByNameAgrees ==
    ASSUME NEW us, Agree(us), NEW n \in Username
    PROVE  /\ Agree(RemoveByName(us, n))
           /\ Users(RemoveByName(us, n)) \subseteq Users(us)
<1> DEFINE u == us.user_name_map[n]
<1>1. CASE u = NULL
  BY <1>1 DEF RemoveByName, RemoveFound
<1>2. CASE u # NULL
  <2>1. u \in Users(us)
    BY <1>2 DEF Agree, IndexesSound
  <2>2. RemoveByName(us, n) = EraseUser(us, u)
    BY <1>2 DEF RemoveByName, RemoveFound
  <2> HIDE DEF u
  <2> QED
    BY <2>1, <2>2, EraseAgrees
<1> QED
  BY <1>1, <1>2

LEMMA RemoveByAddrAgrees ==
    ASSUME NEW us, Agree(us), NEW a \in Addr
    PROVE  /\ Agree(RemoveByAddr(us, a))
           /\ Users(RemoveByAddr(us, a)) \subseteq Users(us)
<1> DEFINE u == us.user_ip_map[a]
<1>1. CASE u = NULL
  BY <1>1 DEF RemoveByAddr, RemoveFound
<1>2. CASE u # NULL
  <2>1. u \in Users(us)
    BY <1>2 DEF Agree, IndexesSound
  <2>2. RemoveByAddr(us, a) = EraseUser(us, u)
    BY <1>2 DEF RemoveByAddr, RemoveFound
  <2> HIDE DEF u
  <2> QED
    BY <2>1, <2>2, EraseAgrees
<1> QED
  BY <1>1, <1>2

LEMMA AddSound ==
    ASSUME NEW us, Sound(us), NEW u \in User
    PROVE  Sound(AddUser(us, u))
<1> DEFINE byName  == RemoveByName(us, u.name)
           cleared == RemoveByAddr(byName, u.addr)
           new     == AddUser(us, u)
<1>0. u.name \in Username /\ u.addr \in Addr /\ u # NULL
  BY NullIsNoUser DEF User
<1>1. Sound(cleared)
  BY <1>0, RemoveByNameSound, RemoveByAddrSound
<1>2. cleared \in UserSets /\ IndexesSound(cleared)
  BY <1>1 DEF Sound
<1>3. new = [user_list     |-> Append(cleared.user_list, u),
             user_name_map |-> InsertKey(cleared.user_name_map, u.name, u),
             user_ip_map   |-> InsertKey(cleared.user_ip_map, u.addr, u)]
  BY DEF AddUser
<1> HIDE DEF cleared, byName, new
<1>4. /\ new \in UserSets
      /\ Users(new) = Users(cleared) \cup {u}
      /\ \A n \in Username : new.user_name_map[n] =
            IF n = u.name /\ cleared.user_name_map[n] = NULL THEN u ELSE cleared.user_name_map[n]
      /\ \A a \in Addr : new.user_ip_map[a] =
            IF a = u.addr /\ cleared.user_ip_map[a] = NULL THEN u ELSE cleared.user_ip_map[a]
  BY <1>2, <1>3, AppendParts
<1>5. IndexesSound(new)
  BY <1>2, <1>4 DEF IndexesSound
<1> QED
  BY <1>4, <1>5 DEF Sound, new

LEMMA AddAgrees ==
    ASSUME NEW us, Agree(us), NEW u \in User
    PROVE  /\ Agree(AddUser(us, u))
           /\ Users(AddUser(us, u)) \subseteq Users(us) \cup {u}
<1> DEFINE byName  == RemoveByName(us, u.name)
           cleared == RemoveByAddr(byName, u.addr)
           new     == AddUser(us, u)
<1>0. u.name \in Username /\ u.addr \in Addr /\ u # NULL
  BY NullIsNoUser DEF User
<1>s. Sound(us)
  BY DEF Agree, Sound
<1>1. /\ Agree(byName) /\ Sound(byName)
      /\ Users(byName) \subseteq Users(us)
      /\ byName.user_name_map[u.name] = NULL
  BY <1>0, <1>s, RemoveByNameSound, RemoveByNameAgrees
<1>3. new = [user_list     |-> Append(cleared.user_list, u),
             user_name_map |-> InsertKey(cleared.user_name_map, u.name, u),
             user_ip_map   |-> InsertKey(cleared.user_ip_map, u.addr, u)]
  BY DEF AddUser
<1> HIDE DEF byName, new
<1>2. /\ Agree(cleared)
      /\ Users(cleared) \subseteq Users(us)
      /\ cleared.user_name_map[u.name] = NULL
      /\ cleared.user_ip_map[u.addr] = NULL
  BY <1>0, <1>1, RemoveByAddrSound, RemoveByAddrAgrees
<1> HIDE DEF cleared
<1>4. cleared \in UserSets /\ IndexesSound(cleared) /\ IndexesComplete(cleared)
  BY <1>2 DEF Agree
<1>5. u \notin Users(cleared)
  BY <1>0, <1>2, <1>4 DEF IndexesComplete
<1>6. /\ new \in UserSets
      /\ Users(new) = Users(cleared) \cup {u}
      /\ IsInjective(new.user_list)
      /\ \A n \in Username : new.user_name_map[n] =
            IF n = u.name THEN u ELSE cleared.user_name_map[n]
      /\ \A a \in Addr : new.user_ip_map[a] =
            IF a = u.addr THEN u ELSE cleared.user_ip_map[a]
  <2>1. IsInjective(cleared.user_list)
    BY <1>4 DEF IndexesComplete
  <2>2. /\ new \in UserSets
        /\ Users(new) = Users(cleared) \cup {u}
        /\ \A n \in Username : new.user_name_map[n] =
              IF n = u.name /\ cleared.user_name_map[n] = NULL THEN u ELSE cleared.user_name_map[n]
        /\ \A a \in Addr : new.user_ip_map[a] =
              IF a = u.addr /\ cleared.user_ip_map[a] = NULL THEN u ELSE cleared.user_ip_map[a]
    BY <1>3, <1>4, AppendParts
  <2>3. IsInjective(new.user_list)
    BY <2>1, <1>3, <1>4, <1>5, AppendParts
  <2> QED
    BY <2>2, <2>3, <1>2
<1>7. IndexesSound(new)
  BY <1>4, <1>6 DEF IndexesSound
<1>8. ASSUME NEW v \in Users(new)
      PROVE  new.user_name_map[v.name] = v /\ new.user_ip_map[v.addr] = v
  <2>1. CASE v = u
    BY <2>1, <1>0, <1>6
  <2>2. CASE v \in Users(cleared)
    <3>1. v.name \in Username /\ v.addr \in Addr /\ v # NULL
      BY <2>2, <1>4, UsersAreUsers
    <3>2. cleared.user_name_map[v.name] = v /\ cleared.user_ip_map[v.addr] = v
      BY <2>2, <1>4 DEF IndexesComplete
    <3>3. v.name # u.name /\ v.addr # u.addr
      BY <3>1, <3>2, <1>2
    <3> QED
      BY <3>1, <3>2, <3>3, <1>6
  <2> QED
    BY <2>1, <2>2, <1>6
<1>9. Agree(new) /\ Users(new) \subseteq Users(us) \cup {u}
  BY <1>2, <1>6, <1>7, <1>8 DEF Agree, IndexesComplete
<1> QED
  BY <1>9 DEF new
-------------------------------------------------------------------------------
\* The user set after the scan has come to one more user.
Scanned(us, u, silent) == IF u \in silent THEN EraseUser(us, u) ELSE us

LEMMA ScannedType ==
    ASSUME NEW us \in UserSets, NEW u \in User, NEW silent
    PROVE  Scanned(us, u, silent) \in UserSets
BY EraseParts DEF Scanned

ScanChain(p, us, users, silent) ==
    /\ p \in [0..Len(users) -> UserSets]
    /\ p[0] = us
    /\ \A k \in 0..Len(users) :
          k < Len(users) => p[k + 1] = Scanned(p[k], users[k + 1], silent)
    /\ DropSilent(us, users, silent) = p[Len(users)]

\* A scan of users is a chain of user sets, each got from the one before.
LEMMA ScanIsChain ==
    ASSUME NEW us \in UserSets, NEW users \in Seq(User), NEW silent
    PROVE  \E p : ScanChain(p, us, users, silent)
<1> DEFINE N == Len(users)
           F == [q \in (1..N) \X UserSets |-> Scanned(q[2], users[q[1]], silent)]
           Is(g) == g = [s \in SUBSET (1..N) |->
                            IF s = {} THEN us
                            ELSE Scanned(g[s \ {Max(s)}], users[Max(s)], silent)]
           iter == CHOOSE g : Is(g)
<1>n. N \in Nat /\ DOMAIN users = 1..N /\ \A i \in 1..N : users[i] \in User
  BY LenProperties
<1>1. F \in [(1..N) \X UserSets -> UserSets]
  BY <1>n, ScannedType
<1>2. DropSilent(us, users, silent) = iter[1..N]
  BY <1>n DEF DropSilent, FoldLeft, MapThenFoldSet, Scanned
<1>3. \E g : Is(g)
  <2>1. PICK g \in [SUBSET (1..N) -> UserSets] : \A s \in SUBSET (1..N) :
           g[s] = IF s = {} THEN us ELSE F[<<Max(s), g[s \ {Max(s)}]>>]
    <3> HIDE DEF F, N
    <3>1. F \in Steps(N, UserSets)
      BY <1>1 DEF Steps
    <3>2. \E g : Recurses(g, N, UserSets, us, F)
      BY <3>1, <1>n, SubsetRecursion
    <3> QED
      BY <3>2 DEF Recurses
  <2>2. ASSUME NEW s \in SUBSET (1..N), s # {}
        PROVE  F[<<Max(s), g[s \ {Max(s)}]>>] = Scanned(g[s \ {Max(s)}], users[Max(s)], silent)
    <3>1. Max(s) \in 1..N
      BY <1>n, <2>2, MaxUpTo, s \subseteq 0..N
    <3>2. g[s \ {Max(s)}] \in UserSets
      BY <2>1
    <3> QED
      BY <3>1, <3>2
  <2> HIDE DEF F, N
  <2> QED
    BY <2>1, <2>2
<1>4. Is(iter)
  <2> HIDE DEF Is
  <2> QED
    BY <1>3
<1> HIDE DEF iter
<1> DEFINE p == [k \in 0..N |-> iter[1..k]]
<1>5. p[0] = us
  <2>1. 1..0 = {} /\ 0 \in 0..N
    BY <1>n
  <2> QED
    BY <2>1, <1>4
<1>6. ASSUME NEW k \in 0..N, k < N
      PROVE  p[k + 1] = Scanned(p[k], users[k + 1], silent)
  <2>0. k \in Nat /\ k + 1 \in 0..N
    BY <1>n, <1>6
  <2>1. k \in Nat /\ k + 1 \in 0..N /\ 1..k + 1 \in SUBSET (1..N) /\ 1..k + 1 # {}
    <3>1. k + 1 \in 1..k + 1
      BY <2>0
    <3>2. \A i \in 1..k + 1 : i \in 1..N
      BY <2>0
    <3> QED
      BY <2>0, <3>1, <3>2
  <2>2. iter[1..k + 1] = Scanned(iter[(1..k + 1) \ {Max(1..k + 1)}], users[Max(1..k + 1)], silent)
    BY <2>1, <1>4
  <2>3. Max(1..k + 1) = k + 1 /\ (1..k + 1) \ {k + 1} = 1..k
    BY <2>1, MaxOfInterval
  <2> QED
    BY <2>1, <2>2, <2>3
<1>7. p \in [0..N -> UserSets]
  <2> DEFINE T == {k \in 0..N : p[k] \in UserSets}
  <2>1. 0 \in T
    BY <1>5, <1>n
  <2>2. ASSUME NEW k \in 0..N, k < N, k \in T
        PROVE  k + 1 \in T
    <3>1. p[k + 1] = Scanned(p[k], users[k + 1], silent) /\ users[k + 1] \in User /\ k + 1 \in 0..N
      BY <1>6, <1>n, <2>2
    <3> HIDE DEF p
    <3> QED
      BY <3>1, <2>2, ScannedType
  <2>3. 0..N \subseteq T
    <3> HIDE DEF T, N
    <3> QED
      BY <2>1, <2>2, <1>n, UpToInduction
  <2> QED
    BY <2>3
<1>8. DropSilent(us, users, silent) = p[N]
  BY <1>2, <1>n
<1> HIDE DEF p, F
<1> QED
  BY <1>5, <1>6, <1>7, <1>8 DEF ScanChain

\* The scan keeps the indexes of any user set sound.
LEMMA ScanSound ==
    ASSUME NEW us, Sound(us), NEW users \in Seq(User), NEW silent
    PROVE  Sound(DropSilent(us, users, silent))
<1> DEFINE N == Len(users)
<1>1. us \in UserSets /\ N \in Nat /\ \A i \in 1..N : users[i] \in User
  BY LenProperties DEF Sound
<1>2. PICK p \in [0..N -> UserSets] :
        /\ p[0] = us
        /\ \A k \in 0..N : k < N => p[k + 1] = Scanned(p[k], users[k + 1], silent)
        /\ DropSilent(us, users, silent) = p[N]
  <2>1. \E p : ScanChain(p, us, users, silent)
    BY <1>1, ScanIsChain
  <2> QED
    BY <2>1 DEF ScanChain
<1> DEFINE T == {k \in 0..N : Sound(p[k])}
<1>3. 0 \in T
  BY <1>1, <1>2
<1>4. ASSUME NEW k \in 0..N, k < N, k \in T
      PROVE  k + 1 \in T
  <2>1. k + 1 \in 1..N /\ k + 1 \in 0..N
    BY <1>1, <1>4
  <2>2. Sound(p[k]) /\ users[k + 1] \in User
    BY <2>1, <1>1, <1>4
  <2>3. Sound(Scanned(p[k], users[k + 1], silent))
    BY <2>2, EraseSound DEF Scanned
  <2> QED
    BY <2>1, <2>3, <1>2, <1>4
<1>5. 0..N \subseteq T
  <2> HIDE DEF T, N
  <2> QED
    BY <1>1, <1>3, <1>4, UpToInduction
<1> QED
  BY <1>1, <1>2, <1>5

\* The scan keeps the logged in users in agreement, and leaves those that are not silent.
LEMMA ScanAgrees ==
    ASSUME NEW us, Agree(us), NEW silent
    PROVE  /\ Agree(DropSilent(us, us.user_list, silent))
           /\ Users(DropSilent(us, us.user_list, silent)) = Users(us) \ silent
<1> DEFINE users == us.user_list
           N == Len(users)
           seen(k) == {users[i] : i \in 1..k}
<1>1. us \in UserSets /\ IsInjective(users)
  BY DEF Agree, IndexesComplete
<1>2. users \in Seq(User)
  BY <1>1 DEF UserSets
<1>3. N \in Nat /\ DOMAIN users = 1..N /\ \A i \in 1..N : users[i] \in User
  BY <1>2, LenProperties
<1>4. PICK p \in [0..N -> UserSets] :
        /\ p[0] = us
        /\ \A k \in 0..N : k < N => p[k + 1] = Scanned(p[k], users[k + 1], silent)
        /\ DropSilent(us, users, silent) = p[N]
  <2> HIDE DEF users
  <2>1. \E p : ScanChain(p, us, users, silent)
    BY <1>1, <1>2, ScanIsChain
  <2> QED
    BY <2>1 DEF ScanChain
<1> DEFINE T == {k \in 0..N : Agree(p[k]) /\ Users(p[k]) = Users(us) \ (silent \cap seen(k))}
<1>5. 0 \in T
  <2>1. seen(0) = {}
    OBVIOUS
  <2> QED
    BY <2>1, <1>3, <1>4
<1>6. ASSUME NEW k \in 0..N, k < N, k \in T
      PROVE  k + 1 \in T
  <2> DEFINE u == users[k + 1]
  <2>1. k + 1 \in 1..N /\ k + 1 \in 0..N
    BY <1>3, <1>6
  <2>2. seen(k + 1) = seen(k) \cup {u}
    BY <2>1, <1>6
  <2>3. u \in Users(us) /\ u \notin seen(k)
    BY <2>1, <1>1, <1>3, <1>6 DEF Users, IsInjective
  <2>4. Agree(p[k]) /\ Users(p[k]) = Users(us) \ (silent \cap seen(k))
    BY <1>6
  <2>5. p[k + 1] = Scanned(p[k], u, silent)
    BY <1>4, <1>6
  <2> HIDE DEF u, seen, users
  <2>6. CASE u \in silent
    <3>1. u \in Users(p[k]) /\ p[k + 1] = EraseUser(p[k], u)
      BY <2>3, <2>4, <2>5, <2>6 DEF Scanned
    <3>2. Agree(p[k + 1]) /\ Users(p[k + 1]) = Users(p[k]) \ {u}
      BY <3>1, <2>4, EraseAgrees
    <3> QED
      BY <3>2, <2>1, <2>2, <2>4, <2>6
  <2>7. CASE u \notin silent
    BY <2>1, <2>2, <2>4, <2>5, <2>7 DEF Scanned
  <2> QED
    BY <2>6, <2>7
<1>7. 0..N \subseteq T
  <2> HIDE DEF T, N
  <2> QED
    BY <1>3, <1>5, <1>6, UpToInduction
<1>8. Agree(p[N]) /\ Users(p[N]) = Users(us) \ (silent \cap seen(N))
  BY <1>3, <1>7
<1>9. seen(N) = Users(us)
  BY DEF Users
<1> QED
  BY <1>4, <1>8, <1>9
-------------------------------------------------------------------------------
\* The operations of a server.

\* A server whose logged in users agree with their indexes, and whose channels have
\* sound ones.
WellKept(st) ==
    /\ Agree(st.uset)
    /\ \A c \in Channel : st.cset[c] # NULL =>
          Sound(st.cset[c].uset) /\ st.cset[c].uid_set \subseteq Uid

LEMMA NewStateKept == WellKept(NewState)
BY EmptyAgrees DEF WellKept, NewState

LEMMA SessionIsUser ==
    ASSUME NEW st, WellKept(st), NEW a \in Addr, UserAt(st, a) # NULL
    PROVE  UserAt(st, a) \in Users(st.uset) /\ UserAt(st, a) \in User
<1>1. st.uset \in UserSets /\ UserAt(st, a) \in Users(st.uset)
  BY DEF WellKept, Agree, IndexesSound, UserAt
<1> QED
  BY <1>1, UsersAreUsers

LEMMA LoginKept ==
    ASSUME NEW s \in Server, NEW st, SoundState(st, s), WellKept(st),
           NEW n \in Username, NEW a \in Addr
    PROVE  WellKept(cli_login(st, n, a))
<1>1. NewUser(n, a) \in User
  BY DEF NewUser, User
<1>2. Agree(AddUser(st.uset, NewUser(n, a)))
  BY <1>1, AddAgrees DEF WellKept
<1>3. /\ cli_login(st, n, a).uset = AddUser(st.uset, NewUser(n, a))
      /\ cli_login(st, n, a).cset = st.cset
  BY DEF cli_login, SoundState
<1> QED
  BY <1>2, <1>3 DEF WellKept

LEMMA ChannelErased ==
    ASSUME NEW s \in Server, NEW st, SoundState(st, s), WellKept(st),
           NEW c \in Channel, st.cset[c] # NULL, NEW u \in User
    PROVE  /\ Sound(ChannelRemoveUser(st.cset[c], u).uset)
           /\ ChannelRemoveUser(st.cset[c], u).uid_set \subseteq Uid
<1>1. Sound(EraseUser(st.cset[c].uset, u)) /\ st.cset[c].uid_set \subseteq Uid
  BY EraseSound DEF WellKept
<1>2. /\ ChannelRemoveUser(st.cset[c], u).uset = EraseUser(st.cset[c].uset, u)
      /\ ChannelRemoveUser(st.cset[c], u).uid_set = st.cset[c].uid_set
  BY DEF ChannelRemoveUser, SoundState, SoundChannel
<1> QED
  BY <1>1, <1>2

LEMMA LogoutKept ==
    ASSUME NEW s \in Server, NEW st, SoundState(st, s), WellKept(st), NEW a \in Addr
    PROVE  WellKept(cli_logout(st, a))
<1>1. CASE UserAt(st, a) = NULL
  BY <1>1 DEF cli_logout
<1>2. CASE UserAt(st, a) # NULL
  <2> DEFINE u == UserAt(st, a)
  <2>1. u \in Users(st.uset) /\ u \in User
    BY <1>2, SessionIsUser
  <2> HIDE DEF u
  <2>2. Agree(EraseUser(st.uset, u))
    BY <2>1, EraseAgrees DEF WellKept
  <2>3. \A c \in Channel : st.cset[c] # NULL =>
          /\ Sound(ChannelRemoveUser(st.cset[c], u).uset)
          /\ ChannelRemoveUser(st.cset[c], u).uid_set \subseteq Uid
    BY <2>1, ChannelErased
  <2>4. WellKept(DropUser(st, u))
    BY <2>2, <2>3 DEF WellKept, DropUser, Exists
  <2> QED
    BY <1>2, <2>4 DEF cli_logout, u
<1> QED
  BY <1>1, <1>2

\* One channel of a state changes.
LEMMA SetChannelKept ==
    ASSUME NEW s \in Server, NEW st, SoundState(st, s), WellKept(st), NEW c \in Channel,
           NEW ch, Sound(ch.uset), ch.uid_set \subseteq Uid
    PROVE  WellKept([st EXCEPT !.cset[c] = ch])
<1> DEFINE new == [st EXCEPT !.cset[c] = ch]
<1>1. new.uset = st.uset /\ new.cset = [st.cset EXCEPT ![c] = ch]
  BY DEF SoundState
<1>2. \A d \in Channel : new.cset[d] = IF d = c THEN ch ELSE st.cset[d]
  BY <1>1 DEF SoundState
<1> HIDE DEF new
<1>3. WellKept(new)
  BY <1>1, <1>2 DEF WellKept
<1> QED
  BY <1>3 DEF new

LEMMA FoundChannel ==
    ASSUME NEW s \in Server, NEW st, SoundState(st, s), WellKept(st), NEW c \in Channel
    PROVE  /\ SoundChannel(FoundOrNew(st, c), s)
           /\ Sound(FoundOrNew(st, c).uset)
           /\ FoundOrNew(st, c).uid_set \subseteq Uid
BY EmptyAgrees, NewChannelSound
   DEF FoundOrNew, Exists, SoundState, WellKept, NewChannel, Agree, Sound

LEMMA JoinKept ==
    ASSUME NEW s \in Server, NEW st, SoundState(st, s), WellKept(st),
           NEW a \in Addr, NEW c \in Channel
    PROVE  WellKept(cli_join(st, a, c))
<1>1. CASE UserAt(st, a) = NULL
  BY <1>1 DEF cli_join
<1>2. CASE UserAt(st, a) # NULL
  <2> DEFINE u  == UserAt(st, a)
             ch == FoundOrNew(st, c)
             us == RemoveByAddr(RemoveByName(ch.uset, u.name), u.addr)
  <2>1. u \in User
    BY <1>2, SessionIsUser
  <2>2. SoundChannel(ch, s) /\ Sound(ch.uset) /\ ch.uid_set \subseteq Uid
    BY FoundChannel
  <2>3. ChannelAddUser(ch, u) = [ch EXCEPT !.uset = AddUser(us, u)]
    BY DEF ChannelAddUser
  <2>4. cli_join(st, a, c) = [st EXCEPT !.cset[c] = ChannelAddUser(ch, u)]
    BY <1>2 DEF cli_join
  <2> HIDE DEF u, ch
  <2>5. Sound(AddUser(us, u))
    <3>1. u.name \in Username /\ u.addr \in Addr
      BY <2>1 DEF User
    <3> QED
      BY <2>1, <2>2, <3>1, RemoveByNameSound, RemoveByAddrSound, AddSound
  <2> HIDE DEF us
  <2>6. /\ Sound(ChannelAddUser(ch, u).uset)
        /\ ChannelAddUser(ch, u).uid_set \subseteq Uid
    BY <2>2, <2>3, <2>5 DEF SoundChannel
  <2> QED
    BY <2>4, <2>6, SetChannelKept
<1> QED
  BY <1>1, <1>2

LEMMA LeaveKept ==
    ASSUME NEW s \in Server, NEW st, SoundState(st, s), WellKept(st),
           NEW a \in Addr, NEW c \in Channel
    PROVE  WellKept(cli_leave(st, a, c))
<1>1. CASE UserAt(st, a) = NULL \/ ~Exists(st, c)
  BY <1>1 DEF cli_leave
<1>2. CASE ~(UserAt(st, a) = NULL \/ ~Exists(st, c))
  <2>1. UserAt(st, a) \in User
    BY <1>2, SessionIsUser
  <2>2. /\ Sound(ChannelRemoveUser(st.cset[c], UserAt(st, a)).uset)
        /\ ChannelRemoveUser(st.cset[c], UserAt(st, a)).uid_set \subseteq Uid
    BY <1>2, <2>1, ChannelErased DEF Exists
  <2> QED
    BY <1>2, <2>2, SetChannelKept DEF cli_leave
<1> QED
  BY <1>1, <1>2

\* What routes are added and taken away is no matter of the users.
LEMMA RoutesKeepUsers ==
    ASSUME NEW s \in Server, NEW ch, SoundChannel(ch, s), NEW t \in Server, Linked(s, t)
    PROVE  \A new \in {ChannelAddServer(ch, t), ChannelRemoveServer(ch, t),
                       server_heartbeat(ch, t)} :
              new.uset = ch.uset /\ new.uid_set = ch.uid_set
BY DEF SoundChannel, ChannelAddServer, ChannelRemoveServer, server_heartbeat

LEMMA ServerJoinKept ==
    ASSUME NEW s \in Server, NEW st, SoundState(st, s), WellKept(st),
           NEW t \in Server, Linked(s, t), NEW c \in Channel
    PROVE  WellKept(s2s_join(st, t, c))
<1> DEFINE joined == IF ~Exists(st, c) THEN ChannelAddServer(NewChannel, t)
                     ELSE IF t \in st.cset[c].sset THEN server_heartbeat(st.cset[c], t)
                     ELSE server_heartbeat(ChannelAddServer(st.cset[c], t), t)
<1>1. /\ SoundChannel(FoundOrNew(st, c), s)
      /\ Sound(FoundOrNew(st, c).uset)
      /\ FoundOrNew(st, c).uid_set \subseteq Uid
  BY FoundChannel
<1>2. joined.uset = FoundOrNew(st, c).uset /\ joined.uid_set = FoundOrNew(st, c).uid_set
  <2>1. CASE ~Exists(st, c)
    BY <2>1, <1>1, RoutesKeepUsers DEF FoundOrNew
  <2>2. CASE Exists(st, c)
    <3>1. SoundChannel(st.cset[c], s) /\ FoundOrNew(st, c) = st.cset[c]
      BY <2>2, <1>1 DEF FoundOrNew
    <3>2. SoundChannel(ChannelAddServer(st.cset[c], t), s)
      BY <3>1, AddServerSound
    <3> QED
      BY <2>2, <3>1, <3>2, RoutesKeepUsers
  <2> QED
    BY <2>1, <2>2
<1>3. s2s_join(st, t, c) = [st EXCEPT !.cset[c] = joined]
  BY DEF s2s_join
<1> HIDE DEF joined
<1> QED
  BY <1>1, <1>2, <1>3, SetChannelKept

LEMMA ServerLeaveKept ==
    ASSUME NEW s \in Server, NEW st, SoundState(st, s), WellKept(st),
           NEW t \in Server, Linked(s, t), NEW c \in Channel
    PROVE  WellKept(s2s_leave(st, t, c))
<1>1. CASE ~Exists(st, c)
  BY <1>1 DEF s2s_leave
<1>2. CASE Exists(st, c)
  <2>1. SoundChannel(st.cset[c], s) /\ Sound(st.cset[c].uset) /\ st.cset[c].uid_set \subseteq Uid
    BY <1>2 DEF Exists, SoundState, WellKept
  <2>2. /\ Sound(ChannelRemoveServer(st.cset[c], t).uset)
        /\ ChannelRemoveServer(st.cset[c], t).uid_set \subseteq Uid
    BY <2>1, RoutesKeepUsers
  <2> QED
    BY <1>2, <2>2, SetChannelKept DEF s2s_leave
<1> QED
  BY <1>1, <1>2

LEMMA DropServersKept ==
    ASSUME NEW s \in Server, NEW st, SoundState(st, s), WellKept(st), NEW dead
    PROVE  WellKept(DropServers(st, dead))
<1> DEFINE left(c) == [st.cset[c] EXCEPT !.sset = @ \ dead[c],
                                         !.last_seen = @ \ dead[c]]
<1>1. \A c \in Channel : st.cset[c] # NULL =>
        left(c).uset = st.cset[c].uset /\ left(c).uid_set = st.cset[c].uid_set
  BY DEF SoundState, SoundChannel
<1>2. /\ DropServers(st, dead).uset = st.uset
      /\ \A c \in Channel : DropServers(st, dead).cset[c]
                                = IF Exists(st, c) THEN left(c) ELSE NULL
  BY DEF DropServers, SoundState
<1> HIDE DEF left
<1> QED
  BY <1>1, <1>2 DEF WellKept, Exists

LEMMA PrunedKept ==
    ASSUME NEW s \in Server, NEW st, SoundState(st, s), WellKept(st)
    PROVE  WellKept(Pruned(st))
<1>1. /\ Pruned(st).uset = st.uset
      /\ \A c \in Channel : Pruned(st).cset[c]
                                = IF c \in Prunable(st) THEN NULL ELSE st.cset[c]
  BY DEF Pruned, SoundState
<1> QED
  BY <1>1 DEF WellKept

LEMMA DropUsersKept ==
    ASSUME NEW s \in Server, NEW st, SoundState(st, s), WellKept(st), NEW silent
    PROVE  WellKept(DropUsers(st, silent))
<1> DEFINE users == st.uset.user_list
           us(c) == DropSilent(st.cset[c].uset, users, silent)
<1>1. users \in Seq(User)
  BY DEF WellKept, Agree, UserSets
<1>2. Agree(DropSilent(st.uset, users, silent))
  BY ScanAgrees DEF WellKept
<1>3. \A c \in Channel : st.cset[c] # NULL => Sound(us(c))
  <2> HIDE DEF users
  <2> QED
    BY <1>1, ScanSound DEF WellKept
<1>4. \A c \in Channel : st.cset[c] # NULL =>
        /\ [st.cset[c] EXCEPT !.uset = us(c)].uset = us(c)
        /\ [st.cset[c] EXCEPT !.uset = us(c)].uid_set = st.cset[c].uid_set
  BY DEF SoundState, SoundChannel
<1>5. /\ DropUsers(st, silent).uset = DropSilent(st.uset, users, silent)
      /\ \A c \in Channel : DropUsers(st, silent).cset[c]
            = IF Exists(st, c) THEN [st.cset[c] EXCEPT !.uset = us(c)] ELSE NULL
  BY DEF DropUsers
<1> HIDE DEF us, users
<1> QED
  BY <1>2, <1>3, <1>4, <1>5 DEF WellKept, Exists
-------------------------------------------------------------------------------
\* What the servers send, and the counts.

LEMMA SentTyped ==
    ASSUME NEW s \in Server, NEW targets, targets \subseteq Server, NEW c \in Channel,
           NEW uid \in Uid
    PROVE  /\ Joins(s, targets, c) \subseteq Datagrams
           /\ Leaves(s, targets, c) \subseteq Datagrams
           /\ Says(s, targets, c, uid) \subseteq Datagrams
BY DEF Joins, Join, Leaves, Leave, Says, SayTo, Datagrams

LEMMA ControlTyped ==
    ASSUME NEW s \in Server, NEW targets, targets \subseteq Server, NEW c \in Channel
    PROVE  /\ Joins(s, targets, c) \subseteq Datagrams
           /\ Leaves(s, targets, c) \subseteq Datagrams
BY DEF Joins, Join, Leaves, Leave, Datagrams

LEMMA PruneLeavesTyped ==
    ASSUME NEW s \in Server, NEW st, SoundState(st, s)
    PROVE  PruneLeaves(s, st) \subseteq Datagrams
<1>1. ASSUME NEW c \in Prunable(st)
      PROVE  Leaves(s, st.cset[c].sset, c) \subseteq Datagrams
  <2>1. c \in Channel /\ Exists(st, c)
    BY DEF Prunable, OpenChannels
  <2>2. st.cset[c].sset \subseteq Server
    BY <2>1, RoutesLinked
  <2> QED
    BY <2>1, <2>2, ControlTyped
<1> QED
  BY <1>1 DEF PruneLeaves

Counts == [Uid -> [Addr -> 0..COPY_CAP]]

LEMMA CountsTyped ==
    ASSUME copies \in Counts, NEW uid \in Uid, NEW us \in UserSets, CountCopies(uid, us)
    PROVE  copies' \in Counts
<1>1. ASSUME NEW a \in Addr
      PROVE  SentTo(us, a) \in Nat
  <2> DEFINE I == {i \in 1..Len(us.user_list) : us.user_list[i].addr = a}
  <2>1. Len(us.user_list) \in Nat
    BY DEF UserSets
  <2>2. IsFiniteSet(1..Len(us.user_list))
    BY <2>1, FS_Interval
  <2>3. IsFiniteSet(I)
    BY <2>2, FS_Subset, I \subseteq 1..Len(us.user_list)
  <2> QED
    BY <2>3, FS_CardinalityType DEF SentTo
<1>2. COPY_CAP \in Nat
  BY BoundsAreNats
<1>3. ASSUME NEW f \in [Addr -> 0..COPY_CAP]
      PROVE  [a \in Addr |-> IF f[a] + SentTo(us, a) < COPY_CAP THEN f[a] + SentTo(us, a)
                             ELSE COPY_CAP] \in [Addr -> 0..COPY_CAP]
  BY <1>1, <1>2
<1>4. copies[uid] \in [Addr -> 0..COPY_CAP]
  BY DEF Counts
<1> QED
  BY <1>3, <1>4 DEF CountCopies, Counts
-------------------------------------------------------------------------------
\* The inductive invariant.

Fates == {"up", "client", "s2s_join", "s2s_leave", "s2s_say", "last_seen"}

RestTyped ==
    /\ fate \in [Server -> Fates]
    /\ net \subseteq Datagrams
    /\ said \in 0..MAX_SAYS
    /\ copies \in Counts

UsersInv ==
    /\ Inv
    /\ \A s \in Server : WellKept(srv[s])
    /\ RestTyped

\* A step of one server: its new state is well kept, or it has ended.
LEMMA BecomeKept ==
    ASSUME UsersInv, NEW s \in Server, NEW st, WellKept(st), Become(s, st)
    PROVE  (\A r \in Server : WellKept(srv'[r])) /\ fate' \in [Server -> Fates]
BY DEF UsersInv, Inv, Become, RestTyped

LEMMA CrashKept ==
    ASSUME UsersInv, NEW s \in Server, NEW why \in Fates, Crash(s, why)
    PROVE  (\A r \in Server : WellKept(srv'[r])) /\ fate' \in [Server -> Fates]
BY NewStateKept DEF UsersInv, Inv, Crash, RestTyped

LEMMA NothingKept ==
    ASSUME UsersInv, UNCHANGED <<srv, fate>>
    PROVE  (\A r \in Server : WellKept(srv'[r])) /\ fate' \in [Server -> Fates]
BY DEF UsersInv, RestTyped

\* What a step has to show beside Inv'.
Kept == (\A r \in Server : WellKept(srv'[r])) /\ RestTyped'

LEMMA ClientKeepsUsers == UsersInv /\ ClientRequest => Kept
<1> SUFFICES ASSUME UsersInv, NEW a \in Addr,
                    \/ \E n \in Username : handle_login(n, a)
                    \/ handle_logout(a)
                    \/ handle_list(a)
                    \/ \E c \in Channel : \/ handle_join(a, c) \/ handle_leave(a, c)
                                          \/ handle_say(a, c) \/ handle_who(a, c)
             PROVE  Kept
  BY DEF ClientRequest
<1> DEFINE s == Home[a]
<1>s. s \in Server /\ SoundState(srv[s], s) /\ WellKept(srv[s])
  BY HomeIsServer DEF UsersInv, Inv
<1>t. net \subseteq Datagrams /\ said \in 0..MAX_SAYS /\ copies \in Counts
  BY DEF UsersInv, RestTyped
<1> HIDE DEF s
<1>1. ASSUME NEW n \in Username, handle_login(n, a)
      PROVE  Kept
  <2>1. Become(s, cli_login(srv[s], n, a)) /\ UNCHANGED <<net, said, copies>>
    BY <1>1 DEF handle_login, s
  <2> QED
    BY <2>1, <1>s, <1>t, LoginKept, BecomeKept DEF Kept, RestTyped
<1>2. CASE handle_logout(a)
  <2> DEFINE st == cli_logout(srv[s], a)
  <2>1. SoundState(st, s) /\ WellKept(st)
    BY <1>s, LogoutSound, LogoutKept
  <2>2. /\ Become(s, Pruned(st)) /\ net' = net \cup PruneLeaves(s, st)
        /\ UNCHANGED <<said, copies>>
    BY <1>2 DEF handle_logout, s
  <2> HIDE DEF st
  <2>3. WellKept(Pruned(st)) /\ PruneLeaves(s, st) \subseteq Datagrams
    BY <2>1, <1>s, PrunedKept, PruneLeavesTyped
  <2> QED
    BY <2>2, <2>3, <1>s, <1>t, BecomeKept DEF Kept, RestTyped
<1>3. CASE handle_list(a)
  BY <1>3, <1>s, <1>t, CrashKept, NothingKept DEF handle_list, s, Fates, Kept, RestTyped
<1>4. ASSUME NEW c \in Channel, handle_join(a, c)
      PROVE  Kept
  <2>1. WellKept(cli_join(srv[s], a, c))
    BY <1>s, JoinKept
  <2>2. /\ Become(s, cli_join(srv[s], a, c)) /\ net' = net \cup Joins(s, Adj[s], c)
        /\ UNCHANGED <<said, copies>>
    BY <1>4 DEF handle_join, s
  <2>3. Joins(s, Adj[s], c) \subseteq Datagrams
    <3>1. Adj[s] \subseteq Server
      BY <1>s, AdjIsAdjacency
    <3> QED
      BY <3>1, <1>s, ControlTyped
  <2> QED
    BY <2>1, <2>2, <2>3, <1>s, <1>t, BecomeKept DEF Kept, RestTyped
<1>5. ASSUME NEW c \in Channel, handle_leave(a, c)
      PROVE  Kept
  <2>1. CASE NoChannelsFor(a)
    BY <2>1, <1>5, <1>s, <1>t, CrashKept DEF handle_leave, s, Fates, Kept, RestTyped
  <2>2. CASE ~NoChannelsFor(a)
    <3> DEFINE st == cli_leave(srv[s], a, c)
    <3>1. SoundState(st, s) /\ WellKept(st)
      BY <1>s, LeaveSound, LeaveKept
    <3>2. /\ Become(s, Pruned(st)) /\ net' = net \cup PruneLeaves(s, st)
          /\ UNCHANGED <<said, copies>>
      BY <2>2, <1>5 DEF handle_leave, s
    <3> HIDE DEF st
    <3>3. WellKept(Pruned(st)) /\ PruneLeaves(s, st) \subseteq Datagrams
      BY <3>1, <1>s, PrunedKept, PruneLeavesTyped
    <3> QED
      BY <3>2, <3>3, <1>s, <1>t, BecomeKept DEF Kept, RestTyped
  <2> QED
    BY <2>1, <2>2
<1>6. ASSUME NEW c \in Channel, handle_say(a, c)
      PROVE  Kept
  <2>1. CASE NoUsersFor(a, c)
    BY <2>1, <1>6, <1>s, <1>t, CrashKept DEF handle_say, s, Fates, Kept, RestTyped
  <2>2. CASE ~NoUsersFor(a, c)
    <3>1. /\ said < MAX_SAYS /\ said' = said + 1
          /\ CountCopies(said', srv[s].cset[c].uset)
          /\ net' = net \cup Says(s, srv[s].cset[c].sset, c, said')
          /\ UNCHANGED <<srv, fate>>
      BY <2>2, <1>6 DEF handle_say, s
    <3>2. said' \in 0..MAX_SAYS /\ said' \in Uid
      BY <3>1, <1>t, BoundsAreNats, UidsAreCounted
    <3>3. Exists(srv[s], c) /\ srv[s].cset[c].uset \in UserSets
      BY <2>2, <1>s DEF NoUsersFor, s, Exists, WellKept, Sound
    <3>4. srv[s].cset[c].sset \subseteq Server
      BY <3>3, <1>s, RoutesLinked
    <3>5. Says(s, srv[s].cset[c].sset, c, said') \subseteq Datagrams
      BY <3>2, <3>4, <1>s, SentTyped
    <3>6. copies' \in Counts
      BY <3>1, <3>2, <3>3, <1>t, CountsTyped
    <3> QED
      BY <3>1, <3>2, <3>5, <3>6, <1>t, NothingKept DEF Kept, RestTyped
  <2> QED
    BY <2>1, <2>2
<1>7. ASSUME NEW c \in Channel, handle_who(a, c)
      PROVE  Kept
  BY <1>7, <1>s, <1>t, CrashKept, NothingKept DEF handle_who, s, Fates, Kept, RestTyped
<1> QED
  BY <1>1, <1>2, <1>3, <1>4, <1>5, <1>6, <1>7

LEMMA ReceiveKeepsUsers == UsersInv /\ (\E m \in net : Receive(m)) => Kept
<1> SUFFICES ASSUME UsersInv, NEW m \in net, Receive(m)
             PROVE  Kept
  OBVIOUS
<1> DEFINE s == m.dst
           c == m.channel
<1>s. s \in Server /\ c \in Channel /\ SoundState(srv[s], s) /\ WellKept(srv[s])
  BY DEF UsersInv, Inv, SoundDatagram
<1>m. SoundDatagram(m) /\ m \in Datagrams /\ m.src \in Server
  BY DEF UsersInv, Inv, RestTyped, SoundDatagram
<1>t. /\ said \in 0..MAX_SAYS /\ copies \in Counts
      /\ \A rest \in Remaining(m) : rest \subseteq Datagrams
  BY DEF UsersInv, RestTyped, Remaining
<1>a. Adj[s] \subseteq Server
  BY <1>s, AdjIsAdjacency
<1> HIDE DEF s, c
<1>1. CASE handle_s2s_join(m)
  <2>1. PICK rest \in Remaining(m) :
           \/ m.src \notin Adj[s] /\ Crash(s, "s2s_join") /\ net' = rest
           \/ /\ m.src \in Adj[s]
              /\ Become(s, s2s_join(srv[s], m.src, c))
              /\ net' = rest \cup IF Exists(srv[s], c) THEN {} ELSE Joins(s, Adj[s], c)
    BY <1>1 DEF handle_s2s_join, s, c
  <2>2. UNCHANGED <<said, copies>>
    BY <1>1 DEF handle_s2s_join
  <2>3. CASE m.src \notin Adj[s]
    BY <2>1, <2>2, <2>3, <1>s, <1>t, CrashKept DEF Fates, Kept, RestTyped
  <2>4. CASE m.src \in Adj[s]
    <3>1. Linked(s, m.src)
      BY <2>4, <1>m DEF SoundDatagram, Linked, s
    <3>2. WellKept(s2s_join(srv[s], m.src, c))
      BY <3>1, <1>s, <1>m, ServerJoinKept
    <3>3. Joins(s, Adj[s], c) \subseteq Datagrams
      BY <1>s, <1>a, ControlTyped
    <3>4. net' \subseteq Datagrams
      BY <2>1, <2>4, <3>3, <1>t
    <3> QED
      BY <2>1, <2>2, <2>4, <3>2, <3>4, <1>s, <1>t, BecomeKept DEF Kept, RestTyped
  <2> QED
    BY <2>3, <2>4
<1>2. CASE handle_s2s_leave(m)
  <2>1. m.src \in Adj[s] /\ Linked(s, m.src)
    BY <1>2, <1>m DEF handle_s2s_leave, Arrived, SoundDatagram, Linked, s
  <2>2. /\ Become(s, s2s_leave(srv[s], m.src, c)) /\ net' \in Remaining(m)
        /\ UNCHANGED <<said, copies>>
    BY <1>2, <2>1 DEF handle_s2s_leave, s, c
  <2>3. WellKept(s2s_leave(srv[s], m.src, c))
    BY <2>1, <1>s, <1>m, ServerLeaveKept
  <2> QED
    BY <2>2, <2>3, <1>s, <1>t, BecomeKept DEF Kept, RestTyped
<1>3. CASE handle_s2s_say(m)
  <2>1. PICK rest \in Remaining(m) :
           \/ ~Exists(srv[s], c) /\ Crash(s, "s2s_say") /\ net' = rest /\ UNCHANGED copies
           \/ net' = rest \cup Leaves(s, {m.src}, c) /\ UNCHANGED <<srv, fate, copies>>
           \/ Exists(srv[s], c) /\ PassOn(m, rest)
    BY <1>3 DEF handle_s2s_say, s, c
  <2>2. UNCHANGED said /\ m.type = "SAY"
    BY <1>3 DEF handle_s2s_say, Arrived
  <2>3. m.uid \in Uid
    BY <2>2, <1>m DEF Datagrams
  <2>4. CASE ~Exists(srv[s], c) /\ Crash(s, "s2s_say") /\ net' = rest /\ UNCHANGED copies
    BY <2>2, <2>4, <1>s, <1>t, CrashKept DEF Fates, Kept, RestTyped
  <2>5. CASE net' = rest \cup Leaves(s, {m.src}, c) /\ UNCHANGED <<srv, fate, copies>>
    <3>1. Leaves(s, {m.src}, c) \subseteq Datagrams
      BY <1>s, <1>m, ControlTyped, {m.src} \subseteq Server
    <3> QED
      BY <2>2, <2>5, <3>1, <1>t, NothingKept DEF Kept, RestTyped
  <2>6. CASE Exists(srv[s], c) /\ PassOn(m, rest)
    <3> DEFINE others == srv[s].cset[c].sset \ {m.src}
    <3>1. /\ Become(s, Pruned(srv[s]))
          /\ net' = rest \cup Says(s, others, c, m.uid) \cup PruneLeaves(s, srv[s])
          /\ CountCopies(m.uid, srv[s].cset[c].uset)
      BY <2>6 DEF PassOn, s, c
    <3>2. others \subseteq Server
      BY <2>6, <1>s, RoutesLinked
    <3> HIDE DEF others
    <3>3. Says(s, others, c, m.uid) \subseteq Datagrams
      BY <3>2, <2>3, <1>s, SentTyped
    <3>4. PruneLeaves(s, srv[s]) \subseteq Datagrams /\ WellKept(Pruned(srv[s]))
      BY <1>s, PruneLeavesTyped, PrunedKept
    <3>5. copies' \in Counts
      <4>1. srv[s].cset[c].uset \in UserSets
        BY <2>6, <1>s DEF Exists, WellKept, Sound
      <4> QED
        BY <4>1, <3>1, <2>3, <1>t, CountsTyped
    <3> QED
      BY <2>2, <3>1, <3>3, <3>4, <3>5, <1>s, <1>t, BecomeKept DEF Kept, RestTyped
  <2> QED
    BY <2>1, <2>4, <2>5, <2>6
<1>4. CASE Vanish(m)
  BY <1>4, <1>t, NothingKept DEF Vanish, Kept, RestTyped, UsersInv
<1> QED
  BY <1>1, <1>2, <1>3, <1>4 DEF Receive

\* The timer loops, whatever they are told was silent.
LEMMA LoopsKeepUsers ==
    ASSUME UsersInv, NEW s \in Server,
           \/ join_send_loop(s)
           \/ \E dead : server_timeout_loop(s, dead)
           \/ \E silent : user_timeout_loop(s, silent)
    PROVE  Kept
<1>s. SoundState(srv[s], s) /\ WellKept(srv[s])
  BY DEF UsersInv, Inv
<1>t. net \subseteq Datagrams /\ said \in 0..MAX_SAYS /\ copies \in Counts
  BY DEF UsersInv, RestTyped
<1>1. CASE join_send_loop(s)
  <2>1. \A c \in Channel : Routes(srv[s], c) \subseteq Server
    BY <1>s, RoutesLinked DEF Routes
  <2>2. \A c \in Channel : Joins(s, Routes(srv[s], c), c) \subseteq Datagrams
    BY <2>1, ControlTyped
  <2> QED
    BY <1>1, <2>2, <1>t, NothingKept DEF join_send_loop, Kept, RestTyped
<1>2. ASSUME NEW dead, server_timeout_loop(s, dead)
      PROVE  Kept
  <2>1. \/ Crash(s, "last_seen")
        \/ Become(s, DropServers(srv[s], dead))
    BY <1>2 DEF server_timeout_loop
  <2>2. UNCHANGED <<net, said, copies>>
    BY <1>2 DEF server_timeout_loop
  <2> QED
    BY <2>1, <2>2, <1>s, <1>t, DropServersKept, BecomeKept, CrashKept
       DEF Fates, Kept, RestTyped
<1>3. ASSUME NEW silent, user_timeout_loop(s, silent)
      PROVE  Kept
  <2>1. Become(s, DropUsers(srv[s], silent)) /\ UNCHANGED <<net, said, copies>>
    BY <1>3 DEF user_timeout_loop
  <2> QED
    BY <2>1, <1>s, <1>t, DropUsersKept, BecomeKept DEF Kept, RestTyped
<1> QED
  BY <1>1, <1>2, <1>3

LEMMA InitUsersInv == Init => UsersInv
<1> SUFFICES ASSUME Init
             PROVE  UsersInv
  OBVIOUS
<1>1. Inv
  BY InitInv
<1>2. \A s \in Server : WellKept(srv[s])
  BY NewStateKept DEF Init
<1>3. RestTyped
  BY BoundsAreNats DEF Init, RestTyped, Fates, Counts
<1> QED
  BY <1>1, <1>2, <1>3 DEF UsersInv

LEMMA NextKeepsUsersInv == UsersInv /\ [Next]_vars => UsersInv'
<1> SUFFICES ASSUME UsersInv, [Next]_vars
             PROVE  UsersInv'
  OBVIOUS
<1>1. Inv'
  BY NextKeepsInv DEF UsersInv
<1>2. Kept
  <2>1. CASE TimerLoop
    BY <2>1, LoopsKeepUsers DEF TimerLoop
  <2>2. CASE UNCHANGED vars
    BY <2>2, NothingKept DEF vars, UsersInv, Kept, RestTyped
  <2> QED
    BY <2>1, <2>2, ClientKeepsUsers, ReceiveKeepsUsers DEF Next
<1> QED
  BY <1>1, <1>2 DEF UsersInv, Kept

LEMMA UsersInvAlways == Spec => []UsersInv
BY InitUsersInv, NextKeepsUsersInv, PTL DEF Spec

LEMMA UsersInvGivesAgreement == UsersInv => StateUsersAgree
BY DEF UsersInv, WellKept, Agree, StateUsersAgree

LEMMA UsersInvGivesSoundness == UsersInv => ChannelIndexesSound
BY DEF UsersInv, WellKept, Sound, ChannelIndexesSound, OpenChannels, Exists

LEMMA UsersInvGivesTypes == UsersInv => TypeOK
<1> SUFFICES ASSUME UsersInv
             PROVE  TypeOK
  OBVIOUS
<1>1. ASSUME NEW s \in Server
      PROVE  /\ srv[s].uset \in UserSets
             /\ \A c \in OpenChannels(srv[s]) : srv[s].cset[c] \in Channels
  <2>1. WellKept(srv[s]) /\ SoundState(srv[s], s)
    BY DEF UsersInv, Inv
  <2>2. srv[s].uset \in UserSets
    BY <2>1 DEF WellKept, Agree
  <2>3. ASSUME NEW c \in OpenChannels(srv[s])
        PROVE  srv[s].cset[c] \in Channels
    <3> DEFINE ch == srv[s].cset[c]
    <3>1. /\ SoundChannel(ch, s) /\ ch.uset \in UserSets /\ ch.uid_set \subseteq Uid
      BY <2>1 DEF OpenChannels, Exists, WellKept, Sound, SoundState
    <3> HIDE DEF ch
    <3>2. ch \in Channels
      BY <3>1 DEF SoundChannel, Channels
    <3> QED
      BY <3>2 DEF ch
  <2> QED
    BY <2>2, <2>3
<1> QED
  BY <1>1 DEF UsersInv, RestTyped, TypeOK, Fates, Counts

\* On every topology a server's list of logged in users and its indexes by name and by
\* address agree entirely, whatever is logged in again from elsewhere, logged out or
\* found silent, and in whatever order.
THEOREM LoggedInUsersAgree == Spec => []StateUsersAgree
BY UsersInvAlways, UsersInvGivesAgreement, PTL

\* What an index of a channel leads to is on the channel, although the channel may hold
\* a user twice and keep one who has logged in anew.
THEOREM ChannelLookupsSound == Spec => []ChannelIndexesSound
BY UsersInvAlways, UsersInvGivesSoundness, PTL

\* The servers, the datagrams between them and the counts keep their types.
THEOREM FederationTyped == Spec => []TypeOK
BY UsersInvAlways, UsersInvGivesTypes, PTL
-------------------------------------------------------------------------------
\* Channels whose users are logged in.

\* A user set that agrees with its indexes and has users of another one only.
Part(us, base) == Agree(us) /\ Users(us) \subseteq Users(base)

\* No ghosts on the channels of server s: these are such parts of its logged in users,
\* all of which are clients of s.
Ghostless(st, s) ==
    /\ \A u \in Users(st.uset) : Home[u.addr] = s
    /\ \A c \in Channel : st.cset[c] # NULL => Part(st.cset[c].uset, st.uset)

LEMMA AgreedUsersDiffer ==
    ASSUME NEW us, Agree(us), NEW u \in Users(us), NEW v \in Users(us), u # v
    PROVE  u.name # v.name /\ u.addr # v.addr
BY DEF Agree, IndexesComplete

\* To erase a user who is not there, and nobody else with its keys, changes nothing.
LEMMA EraseOfStranger ==
    ASSUME NEW us, Agree(us), NEW u \in User, u \notin Users(us),
           \A v \in Users(us) : v.name # u.name /\ v.addr # u.addr
    PROVE  EraseUser(us, u) = us
<1>0. /\ us \in UserSets /\ IndexesSound(us)
      /\ u.name \in Username /\ u.addr \in Addr
  BY DEF Agree, User
<1>1. us.user_name_map[u.name] = NULL /\ us.user_ip_map[u.addr] = NULL
  BY <1>0 DEF IndexesSound
<1>2. /\ us.user_list \in Seq(User)
      /\ us.user_name_map \in [Username -> User \cup {NULL}]
      /\ us.user_ip_map \in [Addr -> User \cup {NULL}]
      /\ us = [user_list |-> us.user_list, user_name_map |-> us.user_name_map,
               user_ip_map |-> us.user_ip_map]
  BY <1>0 DEF UserSets
<1>3. [us.user_name_map EXCEPT ![u.name] = NULL] = us.user_name_map
  BY <1>0, <1>1, <1>2
<1>4. [us.user_ip_map EXCEPT ![u.addr] = NULL] = us.user_ip_map
  BY <1>0, <1>1, <1>2
<1>5. RemoveFirst(us.user_list, u) = us.user_list
  <2>1. \A i \in 1..Len(us.user_list) : us.user_list[i] # u
    BY DEF Users
  <2> QED
    BY <2>1, <1>2, RemoveFirstProperties
<1> QED
  BY <1>2, <1>3, <1>4, <1>5 DEF EraseUser

\* An erase of a user of the base takes that user from a part, if it is there.
LEMMA EraseOfPart ==
    ASSUME NEW base, Agree(base), NEW us, Part(us, base), NEW u \in Users(base)
    PROVE  Agree(EraseUser(us, u)) /\ Users(EraseUser(us, u)) = Users(us) \ {u}
<1>0. Agree(us) /\ Users(us) \subseteq Users(base)
  BY DEF Part
<1>1. CASE u \in Users(us)
  BY <1>0, <1>1, EraseAgrees
<1>2. CASE u \notin Users(us)
  <2>1. u \in User
    BY UsersAreUsers DEF Agree
  <2>2. \A v \in Users(us) : v.name # u.name /\ v.addr # u.addr
    BY <1>0, <1>2, AgreedUsersDiffer
  <2> QED
    BY <1>0, <1>2, <2>1, <2>2, EraseOfStranger
<1> QED
  BY <1>1, <1>2

\* The scan takes the silent users of the base from a part.
LEMMA ScanOfPart ==
    ASSUME NEW base, Agree(base), NEW us, Part(us, base), NEW silent
    PROVE  /\ Agree(DropSilent(us, base.user_list, silent))
           /\ Users(DropSilent(us, base.user_list, silent)) = Users(us) \ silent
<1> DEFINE users == base.user_list
           N == Len(users)
           seen(k) == {users[i] : i \in 1..k}
<1>1. us \in UserSets /\ base \in UserSets
  BY DEF Agree, Part
<1>2. users \in Seq(User)
  BY <1>1 DEF UserSets
<1>3. N \in Nat /\ \A i \in 1..N : users[i] \in User
  BY <1>2, LenProperties
<1>4. PICK p \in [0..N -> UserSets] :
        /\ p[0] = us
        /\ \A k \in 0..N : k < N => p[k + 1] = Scanned(p[k], users[k + 1], silent)
        /\ DropSilent(us, users, silent) = p[N]
  <2> HIDE DEF users
  <2>1. \E p : ScanChain(p, us, users, silent)
    BY <1>1, <1>2, ScanIsChain
  <2> QED
    BY <2>1 DEF ScanChain
<1> DEFINE T == {k \in 0..N : Agree(p[k]) /\ Users(p[k]) = Users(us) \ (silent \cap seen(k))}
<1>5. 0 \in T
  <2>1. seen(0) = {}
    OBVIOUS
  <2> QED
    BY <2>1, <1>3, <1>4 DEF Part
<1>6. ASSUME NEW k \in 0..N, k < N, k \in T
      PROVE  k + 1 \in T
  <2> DEFINE u == users[k + 1]
  <2>1. k + 1 \in 1..N /\ k + 1 \in 0..N
    BY <1>3, <1>6
  <2>2. seen(k + 1) = seen(k) \cup {u}
    BY <2>1, <1>6
  <2>3. u \in Users(base)
    BY <2>1 DEF Users
  <2>4. Agree(p[k]) /\ Users(p[k]) = Users(us) \ (silent \cap seen(k))
    BY <1>6
  <2>5. p[k + 1] = Scanned(p[k], u, silent)
    BY <1>4, <1>6
  <2> HIDE DEF u, seen, users
  <2>6. CASE u \in silent
    <3>1. p[k + 1] = EraseUser(p[k], u)
      BY <2>5, <2>6 DEF Scanned
    <3>2. Part(p[k], base)
      BY <2>4 DEF Part
    <3>3. Agree(p[k + 1]) /\ Users(p[k + 1]) = Users(p[k]) \ {u}
      BY <3>1, <3>2, <2>3, EraseOfPart
    <3> QED
      BY <3>3, <2>1, <2>2, <2>4, <2>6
  <2>7. CASE u \notin silent
    BY <2>1, <2>2, <2>4, <2>5, <2>7 DEF Scanned
  <2> QED
    BY <2>6, <2>7
<1>7. 0..N \subseteq T
  <2> HIDE DEF T, N
  <2> QED
    BY <1>3, <1>5, <1>6, UpToInduction
<1>8. Agree(p[N]) /\ Users(p[N]) = Users(us) \ (silent \cap seen(N))
  BY <1>3, <1>7
<1>9. seen(N) = Users(base)
  BY DEF Users
<1> QED
  BY <1>4, <1>8, <1>9 DEF Part

\* What is removed by a name or an address has it.
LEMMA RemoveKeepsOthers ==
    ASSUME NEW us, Agree(us)
    PROVE  /\ \A n \in Username :
                 {w \in Users(us) : w.name # n} \subseteq Users(RemoveByName(us, n))
           /\ \A a \in Addr :
                 {w \in Users(us) : w.addr # a} \subseteq Users(RemoveByAddr(us, a))
<1>0. us \in UserSets /\ IndexesSound(us)
  BY DEF Agree
<1>1. ASSUME NEW n \in Username
      PROVE  {w \in Users(us) : w.name # n} \subseteq Users(RemoveByName(us, n))
  <2>1. CASE us.user_name_map[n] # NULL
    <3> DEFINE u == us.user_name_map[n]
    <3>1. u \in Users(us) /\ u.name = n /\ RemoveByName(us, n) = EraseUser(us, u)
      BY <2>1, <1>0 DEF IndexesSound, RemoveByName, RemoveFound
    <3> HIDE DEF u
    <3> QED
      BY <3>1, EraseAgrees
  <2> QED
    BY <2>1 DEF RemoveByName, RemoveFound
<1>2. ASSUME NEW a \in Addr
      PROVE  {w \in Users(us) : w.addr # a} \subseteq Users(RemoveByAddr(us, a))
  <2>1. CASE us.user_ip_map[a] # NULL
    <3> DEFINE u == us.user_ip_map[a]
    <3>1. u \in Users(us) /\ u.addr = a /\ RemoveByAddr(us, a) = EraseUser(us, u)
      BY <2>1, <1>0 DEF IndexesSound, RemoveByAddr, RemoveFound
    <3> HIDE DEF u
    <3> QED
      BY <3>1, EraseAgrees
  <2> QED
    BY <2>1 DEF RemoveByAddr, RemoveFound
<1> QED
  BY <1>1, <1>2

\* A login that displaces nobody only adds.
LEMMA AddKeepsOthers ==
    ASSUME NEW us, Agree(us), NEW u \in User, Displaced(us, u) = {}
    PROVE  Users(us) \subseteq Users(AddUser(us, u))
<1> DEFINE byName  == RemoveByName(us, u.name)
           cleared == RemoveByAddr(byName, u.addr)
<1>0. u.name \in Username /\ u.addr \in Addr
  BY DEF User
<1>1. Agree(byName) /\ Users(us) \ {u} \subseteq Users(byName)
  BY <1>0, RemoveByNameAgrees, RemoveKeepsOthers DEF Displaced
<1>2. Agree(cleared)
  BY <1>0, <1>1, RemoveByAddrAgrees
<1>3. Users(us) \ {u} \subseteq Users(cleared)
  BY <1>0, <1>1, RemoveKeepsOthers DEF Displaced
<1>4. cleared \in UserSets
  BY <1>2 DEF Agree
<1> HIDE DEF byName, cleared
<1>5. Users(AddUser(us, u)) = Users(cleared) \cup {u}
  <2> DEFINE new == [user_list     |-> Append(cleared.user_list, u),
             user_name_map |-> InsertKey(cleared.user_name_map, u.name, u),
             user_ip_map   |-> InsertKey(cleared.user_ip_map, u.addr, u)]
  <2>1. AddUser(us, u) = new
    BY DEF AddUser, cleared, byName
  <2>2. Users(new) = Users(cleared) \cup {u}
    BY <1>4, AppendParts
  <2> QED
    BY <2>1, <2>2
<1> QED
  BY <1>3, <1>5
-------------------------------------------------------------------------------
\* The operations of a server leave no ghost.

LEMMA EmptyIsPart == \A base : Part(EmptyUserSet, base)
<1>1. Users(EmptyUserSet) = {}
  BY DEF Users, EmptyUserSet
<1> QED
  BY <1>1, EmptyAgrees DEF Part

LEMMA NewStateGhostless == ASSUME NEW s PROVE Ghostless(NewState, s)
<1>1. Users(EmptyUserSet) = {}
  BY DEF Users, EmptyUserSet
<1> QED
  BY <1>1 DEF Ghostless, NewState

\* Nothing but routes and channels without users come and go.
LEMMA SameUsersGhostless ==
    ASSUME NEW s \in Server, NEW st, Ghostless(st, s), NEW new, new.uset = st.uset,
           \A c \in Channel : new.cset[c] # NULL =>
              st.cset[c] # NULL /\ new.cset[c].uset = st.cset[c].uset
    PROVE  Ghostless(new, s)
BY DEF Ghostless

LEMMA SetChannelGhostless ==
    ASSUME NEW s \in Server, NEW st, SoundState(st, s), Ghostless(st, s), NEW c \in Channel,
           NEW ch, Part(ch.uset, st.uset)
    PROVE  Ghostless([st EXCEPT !.cset[c] = ch], s)
<1> DEFINE new == [st EXCEPT !.cset[c] = ch]
<1>1. new.uset = st.uset /\ \A d \in Channel : new.cset[d] = IF d = c THEN ch ELSE st.cset[d]
  BY DEF SoundState
<1> HIDE DEF new
<1> QED
  BY <1>1 DEF Ghostless, new

\* The channel that a join finds or makes.
LEMMA FoundIsPart ==
    ASSUME NEW s, NEW st, Ghostless(st, s), NEW c \in Channel
    PROVE  Part(FoundOrNew(st, c).uset, st.uset)
BY EmptyIsPart DEF FoundOrNew, Exists, NewChannel, Ghostless

LEMMA LoginGhostless ==
    ASSUME NEW s \in Server, NEW st, SoundState(st, s), WellKept(st), Ghostless(st, s),
           NEW n \in Username, NEW a \in Addr, Home[a] = s,
           Displaced(st.uset, NewUser(n, a)) = {}
    PROVE  Ghostless(cli_login(st, n, a), s)
<1> DEFINE u == NewUser(n, a)
           new == AddUser(st.uset, u)
<1>1. u \in User /\ u.addr = a
  BY DEF NewUser, User
<1>2. /\ Users(st.uset) \subseteq Users(new)
      /\ Users(new) \subseteq Users(st.uset) \cup {u}
  BY <1>1, AddAgrees, AddKeepsOthers DEF WellKept
<1>3. cli_login(st, n, a).uset = new /\ cli_login(st, n, a).cset = st.cset
  BY DEF cli_login, SoundState
<1> HIDE DEF u, new
<1> QED
  BY <1>1, <1>2, <1>3 DEF Ghostless, Part

LEMMA LogoutGhostless ==
    ASSUME NEW s \in Server, NEW st, SoundState(st, s), WellKept(st), Ghostless(st, s),
           NEW a \in Addr
    PROVE  Ghostless(cli_logout(st, a), s)
<1>1. CASE UserAt(st, a) = NULL
  BY <1>1 DEF cli_logout
<1>2. CASE UserAt(st, a) # NULL
  <2> DEFINE u == UserAt(st, a)
  <2>1. u \in Users(st.uset)
    BY <1>2, SessionIsUser
  <2>2. cli_logout(st, a) = DropUser(st, u)
    BY <1>2 DEF cli_logout
  <2> HIDE DEF u
  <2>3. Users(EraseUser(st.uset, u)) = Users(st.uset) \ {u}
    BY <2>1, EraseAgrees DEF WellKept
  <2>4. ASSUME NEW c \in Channel, st.cset[c] # NULL
        PROVE  Part(ChannelRemoveUser(st.cset[c], u).uset, EraseUser(st.uset, u))
    <3>1. Part(st.cset[c].uset, st.uset) /\ Agree(st.uset)
      BY <2>4 DEF Ghostless, WellKept
    <3>2. Agree(EraseUser(st.cset[c].uset, u))
      BY <3>1, <2>1, EraseOfPart
    <3>3. Users(EraseUser(st.cset[c].uset, u)) = Users(st.cset[c].uset) \ {u}
      BY <3>1, <2>1, EraseOfPart
    <3>4. ChannelRemoveUser(st.cset[c], u).uset = EraseUser(st.cset[c].uset, u)
      BY <2>4 DEF ChannelRemoveUser, SoundState, SoundChannel
    <3> QED
      BY <3>1, <3>2, <3>3, <3>4, <2>3 DEF Part
  <2>5. /\ DropUser(st, u).uset = EraseUser(st.uset, u)
        /\ \A c \in Channel : DropUser(st, u).cset[c]
              = IF st.cset[c] # NULL THEN ChannelRemoveUser(st.cset[c], u) ELSE NULL
    BY DEF DropUser, Exists
  <2> QED
    BY <2>2, <2>3, <2>4, <2>5 DEF Ghostless
<1> QED
  BY <1>1, <1>2

LEMMA JoinGhostless ==
    ASSUME NEW s \in Server, NEW st, SoundState(st, s), WellKept(st), Ghostless(st, s),
           NEW a \in Addr, NEW c \in Channel
    PROVE  Ghostless(cli_join(st, a, c), s)
<1>1. CASE UserAt(st, a) = NULL
  BY <1>1 DEF cli_join
<1>2. CASE UserAt(st, a) # NULL
  <2> DEFINE u == UserAt(st, a)
             us == FoundOrNew(st, c).uset
             byName == RemoveByName(us, u.name)
             cleared == RemoveByAddr(byName, u.addr)
             ch == ChannelAddUser(FoundOrNew(st, c), u)
  <2>1. u \in Users(st.uset) /\ u \in User /\ u.name \in Username /\ u.addr \in Addr
    BY <1>2, SessionIsUser DEF User
  <2>2. Part(us, st.uset)
    BY FoundIsPart
  <2>3. ch.uset = AddUser(cleared, u)
    <3>1. SoundChannel(FoundOrNew(st, c), s)
      BY FoundChannel
    <3> QED
      BY <3>1 DEF SoundChannel, ChannelAddUser
  <2>4. cli_join(st, a, c) = [st EXCEPT !.cset[c] = ch]
    BY <1>2 DEF cli_join
  <2> HIDE DEF u, us, byName, cleared, ch
  <2>5. Agree(byName) /\ Users(byName) \subseteq Users(st.uset)
    BY <2>1, <2>2, RemoveByNameAgrees DEF byName, Part
  <2>6. Agree(cleared) /\ Users(cleared) \subseteq Users(st.uset)
    BY <2>1, <2>5, RemoveByAddrAgrees DEF cleared
  <2>7. Part(ch.uset, st.uset)
    BY <2>1, <2>3, <2>6, AddAgrees DEF Part
  <2> QED
    BY <2>4, <2>7, SetChannelGhostless
<1> QED
  BY <1>1, <1>2

LEMMA LeaveGhostless ==
    ASSUME NEW s \in Server, NEW st, SoundState(st, s), WellKept(st), Ghostless(st, s),
           NEW a \in Addr, NEW c \in Channel
    PROVE  Ghostless(cli_leave(st, a, c), s)
<1>1. CASE UserAt(st, a) = NULL \/ ~Exists(st, c)
  BY <1>1 DEF cli_leave
<1>2. CASE ~(UserAt(st, a) = NULL \/ ~Exists(st, c))
  <2> DEFINE u == UserAt(st, a)
             ch == ChannelRemoveUser(st.cset[c], u)
  <2>1. u \in Users(st.uset)
    BY <1>2, SessionIsUser
  <2>2. Part(st.cset[c].uset, st.uset) /\ Agree(st.uset)
    BY <1>2 DEF Exists, Ghostless, WellKept
  <2>3. ch.uset = EraseUser(st.cset[c].uset, u)
    BY <1>2 DEF Exists, ChannelRemoveUser, SoundState, SoundChannel
  <2>4. cli_leave(st, a, c) = [st EXCEPT !.cset[c] = ch]
    BY <1>2 DEF cli_leave
  <2> HIDE DEF u, ch
  <2>5. Part(ch.uset, st.uset)
    BY <2>1, <2>2, <2>3, EraseOfPart DEF Part
  <2> QED
    BY <2>4, <2>5, SetChannelGhostless
<1> QED
  BY <1>1, <1>2

LEMMA ServerJoinGhostless ==
    ASSUME NEW s \in Server, NEW st, SoundState(st, s), WellKept(st), Ghostless(st, s),
           NEW t \in Server, Linked(s, t), NEW c \in Channel
    PROVE  Ghostless(s2s_join(st, t, c), s)
<1> DEFINE joined == IF ~Exists(st, c) THEN ChannelAddServer(NewChannel, t)
                     ELSE IF t \in st.cset[c].sset THEN server_heartbeat(st.cset[c], t)
                     ELSE server_heartbeat(ChannelAddServer(st.cset[c], t), t)
<1>1. SoundChannel(FoundOrNew(st, c), s)
  BY FoundChannel
<1>2. joined.uset = FoundOrNew(st, c).uset
  <2>1. CASE ~Exists(st, c)
    BY <2>1, <1>1, RoutesKeepUsers DEF FoundOrNew
  <2>2. CASE Exists(st, c)
    <3>1. SoundChannel(st.cset[c], s) /\ FoundOrNew(st, c) = st.cset[c]
      BY <2>2, <1>1 DEF FoundOrNew
    <3>2. SoundChannel(ChannelAddServer(st.cset[c], t), s)
      BY <3>1, AddServerSound
    <3> QED
      BY <2>2, <3>1, <3>2, RoutesKeepUsers
  <2> QED
    BY <2>1, <2>2
<1>3. s2s_join(st, t, c) = [st EXCEPT !.cset[c] = joined]
  BY DEF s2s_join
<1> HIDE DEF joined
<1> QED
  BY <1>2, <1>3, FoundIsPart, SetChannelGhostless

LEMMA ServerLeaveGhostless ==
    ASSUME NEW s \in Server, NEW st, SoundState(st, s), Ghostless(st, s),
           NEW t \in Server, Linked(s, t), NEW c \in Channel
    PROVE  Ghostless(s2s_leave(st, t, c), s)
<1>1. CASE ~Exists(st, c)
  BY <1>1 DEF s2s_leave
<1>2. CASE Exists(st, c)
  <2>1. SoundChannel(st.cset[c], s) /\ Part(st.cset[c].uset, st.uset)
    BY <1>2 DEF Exists, SoundState, Ghostless
  <2>2. Part(ChannelRemoveServer(st.cset[c], t).uset, st.uset)
    BY <2>1, RoutesKeepUsers
  <2> QED
    BY <1>2, <2>2, SetChannelGhostless DEF s2s_leave
<1> QED
  BY <1>1, <1>2

LEMMA DropServersGhostless ==
    ASSUME NEW s \in Server, NEW st, SoundState(st, s), Ghostless(st, s), NEW dead
    PROVE  Ghostless(DropServers(st, dead), s)
<1> DEFINE left(c) == [st.cset[c] EXCEPT !.sset = @ \ dead[c],
                                         !.last_seen = @ \ dead[c]]
<1>1. \A c \in Channel : st.cset[c] # NULL => left(c).uset = st.cset[c].uset
  BY DEF SoundState, SoundChannel
<1>2. /\ DropServers(st, dead).uset = st.uset
      /\ \A c \in Channel : DropServers(st, dead).cset[c]
                                = IF Exists(st, c) THEN left(c) ELSE NULL
  BY DEF DropServers, SoundState
<1> HIDE DEF left
<1> QED
  BY <1>1, <1>2, SameUsersGhostless DEF Exists

LEMMA PrunedGhostless ==
    ASSUME NEW s \in Server, NEW st, SoundState(st, s), Ghostless(st, s)
    PROVE  Ghostless(Pruned(st), s)
<1>1. /\ Pruned(st).uset = st.uset
      /\ \A c \in Channel : Pruned(st).cset[c]
                                = IF c \in Prunable(st) THEN NULL ELSE st.cset[c]
  BY DEF Pruned, SoundState
<1> QED
  BY <1>1, SameUsersGhostless

LEMMA DropUsersGhostless ==
    ASSUME NEW s \in Server, NEW st, SoundState(st, s), WellKept(st), Ghostless(st, s),
           NEW silent
    PROVE  Ghostless(DropUsers(st, silent), s)
<1> DEFINE left == DropSilent(st.uset, st.uset.user_list, silent)
           us(c) == DropSilent(st.cset[c].uset, st.uset.user_list, silent)
<1>1. Agree(st.uset)
  BY DEF WellKept
<1>2. Users(left) = Users(st.uset) \ silent
  BY <1>1, ScanAgrees
<1>3. ASSUME NEW c \in Channel, st.cset[c] # NULL
      PROVE  Agree(us(c)) /\ Users(us(c)) = Users(st.cset[c].uset) \ silent
  <2>1. Part(st.cset[c].uset, st.uset)
    BY <1>3 DEF Ghostless
  <2> DEFINE chUsers == st.cset[c].uset
             base == st.uset
  <2>2. Part(chUsers, base) /\ Agree(base)
    BY <2>1, <1>1
  <2> HIDE DEF chUsers, base
  <2>3. Agree(DropSilent(chUsers, base.user_list, silent))
    BY <2>2, ScanOfPart
  <2>4. Users(DropSilent(chUsers, base.user_list, silent)) = Users(chUsers) \ silent
    BY <2>2, ScanOfPart
  <2> QED
    BY <2>3, <2>4 DEF chUsers, base
<1>4. \A c \in Channel : st.cset[c] # NULL => [st.cset[c] EXCEPT !.uset = us(c)].uset = us(c)
  BY DEF SoundState, SoundChannel
<1>5. /\ DropUsers(st, silent).uset = left
      /\ \A c \in Channel : DropUsers(st, silent).cset[c]
            = IF Exists(st, c) THEN [st.cset[c] EXCEPT !.uset = us(c)] ELSE NULL
  BY DEF DropUsers
<1> HIDE DEF us, left
<1>6. \A c \in Channel : st.cset[c] # NULL => Users(st.cset[c].uset) \subseteq Users(st.uset)
  BY DEF Ghostless, Part
<1>7. \A c \in Channel : DropUsers(st, silent).cset[c] # NULL =>
         Part(DropUsers(st, silent).cset[c].uset, left)
  BY <1>2, <1>3, <1>4, <1>5, <1>6 DEF Exists, Part
<1> QED
  BY <1>2, <1>5, <1>7 DEF Ghostless
-------------------------------------------------------------------------------
\* Without takeovers there are no ghosts.

GhostlessServers == \A s \in Server : Ghostless(srv[s], s)

LEMMA BecomeGhostless ==
    ASSUME UsersInv, GhostlessServers, NEW s \in Server, NEW st, Ghostless(st, s),
           Become(s, st)
    PROVE  GhostlessServers'
BY DEF UsersInv, Inv, Become, GhostlessServers

LEMMA CrashGhostless ==
    ASSUME UsersInv, GhostlessServers, NEW s \in Server, NEW why, Crash(s, why)
    PROVE  GhostlessServers'
BY NewStateGhostless DEF UsersInv, Inv, Crash, GhostlessServers

LEMMA NothingGhostless ==
    ASSUME GhostlessServers, UNCHANGED srv PROVE GhostlessServers'
BY DEF GhostlessServers

LEMMA ClientLeavesNoGhost ==
    ASSUME UsersInv, GhostlessServers, ClientRequest, ~TakesOver
    PROVE  GhostlessServers'
<1> SUFFICES ASSUME NEW a \in Addr,
                    \/ \E n \in Username : handle_login(n, a)
                    \/ handle_logout(a)
                    \/ handle_list(a)
                    \/ \E c \in Channel : \/ handle_join(a, c) \/ handle_leave(a, c)
                                          \/ handle_say(a, c) \/ handle_who(a, c)
             PROVE  GhostlessServers'
  BY DEF ClientRequest
<1> DEFINE s == Home[a]
<1>s. /\ s \in Server /\ SoundState(srv[s], s)
      /\ WellKept(srv[s]) /\ Ghostless(srv[s], s)
  BY HomeIsServer DEF UsersInv, Inv, GhostlessServers
<1>1. ASSUME NEW n \in Username, handle_login(n, a)
      PROVE  GhostlessServers'
  <2>1. Become(s, cli_login(srv[s], n, a))
    BY <1>1 DEF handle_login
  <2>2. Displaced(srv[s].uset, NewUser(n, a)) = {}
    BY <1>1 DEF TakesOver
  <2>3. Ghostless(cli_login(srv[s], n, a), s)
    BY <2>2, <1>s, LoginGhostless
  <2> QED
    BY <2>1, <2>3, <1>s, BecomeGhostless
<1> HIDE DEF s
<1>2. CASE handle_logout(a)
  <2> DEFINE st == cli_logout(srv[s], a)
  <2>1. Become(s, Pruned(st))
    BY <1>2 DEF handle_logout, s
  <2>2. Ghostless(st, s) /\ SoundState(st, s)
    BY <1>s, LogoutGhostless, LogoutSound
  <2> HIDE DEF st
  <2>3. Ghostless(Pruned(st), s)
    BY <2>2, <1>s, PrunedGhostless
  <2> QED
    BY <2>1, <2>3, <1>s, BecomeGhostless
<1>3. CASE handle_list(a)
  BY <1>3, <1>s, CrashGhostless, NothingGhostless DEF handle_list, s
<1>4. ASSUME NEW c \in Channel, handle_join(a, c)
      PROVE  GhostlessServers'
  <2>1. Become(s, cli_join(srv[s], a, c))
    BY <1>4 DEF handle_join, s
  <2>2. Ghostless(cli_join(srv[s], a, c), s)
    BY <1>s, JoinGhostless
  <2> QED
    BY <2>1, <2>2, <1>s, BecomeGhostless
<1>5. ASSUME NEW c \in Channel, handle_leave(a, c)
      PROVE  GhostlessServers'
  <2> DEFINE st == cli_leave(srv[s], a, c)
  <2>1. Crash(s, "client") \/ Become(s, Pruned(st))
    BY <1>5 DEF handle_leave, s
  <2>2. Ghostless(st, s) /\ SoundState(st, s)
    BY <1>s, LeaveGhostless, LeaveSound
  <2> HIDE DEF st
  <2>3. Ghostless(Pruned(st), s)
    BY <2>2, <1>s, PrunedGhostless
  <2> QED
    BY <2>1, <2>3, <1>s, BecomeGhostless, CrashGhostless
<1>6. ASSUME NEW c \in Channel, handle_say(a, c) \/ handle_who(a, c)
      PROVE  GhostlessServers'
  BY <1>6, <1>s, CrashGhostless, NothingGhostless DEF handle_say, handle_who, s
<1> QED
  BY <1>1, <1>2, <1>3, <1>4, <1>5, <1>6

LEMMA ReceiptLeavesNoGhost ==
    ASSUME UsersInv, GhostlessServers, NEW m \in net, Receive(m)
    PROVE  GhostlessServers'
<1> DEFINE s == m.dst
           c == m.channel
<1>s. /\ s \in Server /\ c \in Channel /\ SoundState(srv[s], s)
      /\ WellKept(srv[s]) /\ Ghostless(srv[s], s)
  BY DEF UsersInv, Inv, SoundDatagram, GhostlessServers
<1>m. SoundDatagram(m) /\ m.src \in Server
  BY DEF UsersInv, Inv, SoundDatagram
<1> HIDE DEF s, c
<1>1. CASE handle_s2s_join(m)
  <2>1. \/ Crash(s, "s2s_join")
        \/ m.src \in Adj[s] /\ Become(s, s2s_join(srv[s], m.src, c))
    BY <1>1 DEF handle_s2s_join, s, c
  <2>2. ASSUME m.src \in Adj[s]
        PROVE  Ghostless(s2s_join(srv[s], m.src, c), s)
    <3>1. Linked(s, m.src)
      BY <2>2, <1>m DEF SoundDatagram, Linked, s
    <3> QED
      BY <3>1, <1>s, <1>m, ServerJoinGhostless
  <2> QED
    BY <2>1, <2>2, <1>s, BecomeGhostless, CrashGhostless
<1>2. CASE handle_s2s_leave(m)
  <2>1. m.src \in Adj[s] /\ Linked(s, m.src)
    BY <1>2, <1>m DEF handle_s2s_leave, Arrived, SoundDatagram, Linked, s
  <2>2. Become(s, s2s_leave(srv[s], m.src, c))
    BY <1>2, <2>1 DEF handle_s2s_leave, s, c
  <2>3. Ghostless(s2s_leave(srv[s], m.src, c), s)
    BY <2>1, <1>s, <1>m, ServerLeaveGhostless
  <2> QED
    BY <2>2, <2>3, <1>s, BecomeGhostless
<1>3. CASE handle_s2s_say(m)
  <2>1. \/ Crash(s, "s2s_say")
        \/ UNCHANGED srv
        \/ Become(s, Pruned(srv[s]))
    BY <1>3 DEF handle_s2s_say, PassOn, s
  <2>2. Ghostless(Pruned(srv[s]), s)
    BY <1>s, PrunedGhostless
  <2> QED
    BY <2>1, <2>2, <1>s, BecomeGhostless, CrashGhostless, NothingGhostless
<1>4. CASE Vanish(m)
  BY <1>4, NothingGhostless DEF Vanish
<1> QED
  BY <1>1, <1>2, <1>3, <1>4 DEF Receive

LEMMA LoopsLeaveNoGhost ==
    ASSUME UsersInv, GhostlessServers, TimerLoop
    PROVE  GhostlessServers'
<1> SUFFICES ASSUME NEW s \in Server,
                    \/ join_send_loop(s)
                    \/ \E dead : server_timeout_loop(s, dead)
                    \/ \E silent : user_timeout_loop(s, silent)
             PROVE  GhostlessServers'
  BY DEF TimerLoop
<1>s. SoundState(srv[s], s) /\ WellKept(srv[s]) /\ Ghostless(srv[s], s)
  BY DEF UsersInv, Inv, GhostlessServers
<1>1. CASE join_send_loop(s)
  BY <1>1, NothingGhostless DEF join_send_loop
<1>2. ASSUME NEW dead, server_timeout_loop(s, dead)
      PROVE  GhostlessServers'
  <2>1. Crash(s, "last_seen") \/ Become(s, DropServers(srv[s], dead))
    BY <1>2 DEF server_timeout_loop
  <2> QED
    BY <2>1, <1>s, DropServersGhostless, BecomeGhostless, CrashGhostless
<1>3. ASSUME NEW silent, user_timeout_loop(s, silent)
      PROVE  GhostlessServers'
  <2>1. Become(s, DropUsers(srv[s], silent))
    BY <1>3 DEF user_timeout_loop
  <2> QED
    BY <2>1, <1>s, DropUsersGhostless, BecomeGhostless
<1> QED
  BY <1>1, <1>2, <1>3

GhostInv == UsersInv /\ GhostlessServers

LEMMA InitGhostInv == Init => GhostInv
<1>1. Init => GhostlessServers
  BY NewStateGhostless DEF Init, GhostlessServers
<1> QED
  BY <1>1, InitUsersInv DEF GhostInv

LEMMA NextKeepsGhostInv == GhostInv /\ [Next]_vars /\ [~TakesOver]_vars => GhostInv'
<1> SUFFICES ASSUME GhostInv, [Next]_vars, [~TakesOver]_vars
             PROVE  GhostInv'
  OBVIOUS
<1>1. UsersInv'
  BY NextKeepsUsersInv DEF GhostInv
<1>2. GhostlessServers'
  <2>1. CASE UNCHANGED vars
    BY <2>1, NothingGhostless DEF GhostInv, vars
  <2>2. CASE Next /\ ~TakesOver
    BY <2>2, ClientLeavesNoGhost, ReceiptLeavesNoGhost, LoopsLeaveNoGhost DEF Next, GhostInv
  <2> QED
    BY <2>1, <2>2
<1> QED
  BY <1>1, <1>2 DEF GhostInv

LEMMA GhostInvAlways == Spec /\ NoTakeover => []GhostInv
BY InitGhostInv, NextKeepsGhostInv, PTL DEF Spec, NoTakeover

LEMMA GhostInvGivesLogins == GhostInv => ChannelUsersLoggedIn
BY DEF GhostInv, GhostlessServers, Ghostless, Part, ChannelUsersLoggedIn, OpenChannels, Exists

\* Ghosts come of takeovers alone: as long as no login takes a name or an address from
\* another session, every user on a channel is logged in, on every topology and whatever
\* is logged out, left or found silent.
THEOREM GhostsNeedATakeover == Spec /\ NoTakeover => []ChannelUsersLoggedIn
BY GhostInvAlways, GhostInvGivesLogins, PTL
-------------------------------------------------------------------------------
\* Topologies without a cycle.

LEMMA BeyondHasNext ==
    ASSUME NEW s \in Server, NEW t \in Server PROVE t \in Beyond(s, t)
BY DEF Beyond

LEMMA BeyondIsClosed ==
    ASSUME NEW s \in Server, NEW t \in Server, NEW y \in Beyond(s, t),
           NEW z \in Neighbours(y), z # s
    PROVE  z \in Beyond(s, t)
BY DEF Beyond, Neighbours

\* Every set with the two properties has all of Beyond(s, t).
LEMMA BeyondIsLeast ==
    ASSUME NEW s, NEW t, NEW S \in SUBSET Server, t \in S,
           \A y \in S : Neighbours(y) \ {s} \subseteq S
    PROVE  Beyond(s, t) \subseteq S
BY DEF Beyond

LEMMA BeyondIsAway ==
    ASSUME NEW s \in Server, NEW t \in Server, s # t
    PROVE  s \notin Beyond(s, t)
<1> DEFINE S == Server \ {s}
<1>1. S \in SUBSET Server /\ t \in S /\ \A y \in S : Neighbours(y) \ {s} \subseteq S
  BY DEF Neighbours
<1> HIDE DEF S
<1>2. Beyond(s, t) \subseteq S
  BY <1>1, BeyondIsLeast
<1> QED
  BY <1>2 DEF S

LEMMA NeighboursAreMutual ==
    ASSUME NEW s \in Server, NEW t \in Neighbours(s)
    PROVE  t \in Server /\ s \in Neighbours(t)
BY DEF Neighbours, Linked

\* What is beyond the next server is beyond this one.
LEMMA BeyondShrinks ==
    ASSUME Forest, NEW s \in Server, NEW t \in Neighbours(s), NEW r \in Neighbours(t), r # s
    PROVE  Beyond(t, r) \subseteq Beyond(s, t)
<1> DEFINE S == Beyond(s, t) \cap Beyond(t, r)
<1>1. t \in Server /\ r \in Server /\ s \in Neighbours(t)
  BY NeighboursAreMutual
<1>2. s \notin Beyond(t, r)
  BY <1>1 DEF Forest
<1>3. r \in S
  BY <1>1, BeyondHasNext, BeyondIsClosed
<1>4. ASSUME NEW y \in S, NEW z \in Neighbours(y), z # t
      PROVE  z \in S
  <2>1. z \in Beyond(t, r)
    BY <1>1, <1>4, BeyondIsClosed
  <2>2. z # s
    BY <2>1, <1>2
  <2> QED
    BY <1>1, <1>4, <2>1, <2>2, BeyondIsClosed
<1>5. S \in SUBSET Server
  BY DEF Beyond
<1> HIDE DEF S
<1>6. Beyond(t, r) \subseteq S
  BY <1>3, <1>4, <1>5, BeyondIsLeast
<1> QED
  BY <1>6 DEF S

\* What is beyond one neighbour is not beyond another.
LEMMA BeyondsAreDisjoint ==
    ASSUME Forest, NEW t \in Server, NEW r \in Neighbours(t), NEW q \in Neighbours(t), r # q
    PROVE  Beyond(t, r) \cap Beyond(t, q) = {}
<1> DEFINE S == Beyond(t, q) \ Beyond(t, r)
<1>1. r \in Server /\ q \in Server
  BY DEF Neighbours
<1>2. q \in S
  BY <1>1, BeyondHasNext DEF Forest
<1>3. ASSUME NEW y \in S, NEW z \in Neighbours(y), z # t
      PROVE  z \in S
  <2>1. y \in Server /\ z \in Server /\ y \in Neighbours(z)
    BY <1>3 DEF Beyond, Neighbours, Linked
  <2>2. z \in Beyond(t, q)
    BY <1>1, <1>3, BeyondIsClosed
  <2>3. y # t
    <3>1. t # q
      BY DEF Forest
    <3> QED
      BY <1>1, <3>1, BeyondIsAway
  <2>4. z \notin Beyond(t, r)
    BY <1>1, <2>1, <2>3, BeyondIsClosed
  <2> QED
    BY <2>2, <2>4
<1>4. S \in SUBSET Server
  BY DEF Beyond
<1> HIDE DEF S
<1>5. Beyond(t, q) \subseteq S
  BY <1>2, <1>3, <1>4, BeyondIsLeast
<1> QED
  BY <1>5 DEF S
-------------------------------------------------------------------------------
\* A message on its way.

SaysInFlight == {m \in net : m.type = "SAY"}

\* No client beyond the server that the datagram is for has got its message.
Unreached(m) ==
    \A a \in Addr : Home[a] \in Beyond(m.src, m.dst) => copies[m.uid][a] = 0

OnItsWay ==
    /\ AtMostOnce
    /\ \A uid \in Uid : uid > said => \A a \in Addr : copies[uid][a] = 0
    /\ \A m \in SaysInFlight : m.uid <= said /\ Unreached(m)
    /\ \A m, k \in SaysInFlight : m.uid = k.uid /\ m # k =>
          Beyond(m.src, m.dst) \cap Beyond(k.src, k.dst) = {}

\* broadcast_say finds a client on a user set that agrees with its indexes once at most.
LEMMA SentOnce ==
    ASSUME NEW us, Agree(us), NEW a \in Addr
    PROVE  /\ SentTo(us, a) \in {0, 1}
           /\ (\A u \in Users(us) : u.addr # a) => SentTo(us, a) = 0
<1> DEFINE I == {i \in 1..Len(us.user_list) : us.user_list[i].addr = a}
<1>1. SentTo(us, a) = Cardinality(I)
  BY DEF SentTo
<1>2. \A i, j \in I : i = j
  <2>1. ASSUME NEW i \in I, NEW j \in I
        PROVE  i = j
    <3>1. us.user_list[i] \in Users(us) /\ us.user_list[j] \in Users(us)
      BY DEF Users
    <3>2. us.user_list[i] = us.user_list[j]
      BY <3>1 DEF Agree, IndexesComplete
    <3>3. us.user_list \in Seq(User)
      BY DEF Agree, UserSets
    <3> QED
      BY <3>2, <3>3 DEF Agree, IndexesComplete, IsInjective
  <2> QED
    BY <2>1
<1>3. (\A u \in Users(us) : u.addr # a) => I = {}
  BY DEF Users
<1> HIDE DEF I
<1>4. I = {} \/ \E i : I = {i}
  BY <1>2
<1> QED
  BY <1>1, <1>3, <1>4, FS_EmptySet, FS_Singleton

\* The users of the set are clients of server s.
ClientsOf(us, s) == \A u \in Users(us) : Home[u.addr] = s

\* The users of one server alone are sent a message there, once each.
LEMMA CountedOnce ==
    ASSUME copies \in Counts, NEW uid \in Uid, NEW s, NEW us, Agree(us),
           ClientsOf(us, s), CountCopies(uid, us)
    PROVE  \A v \in Uid, a \in Addr :
              /\ copies'[v][a] <= copies[v][a] + 1
              /\ v # uid \/ Home[a] # s => copies'[v][a] = copies[v][a]
<1> SUFFICES ASSUME NEW v \in Uid, NEW a \in Addr
             PROVE  /\ copies'[v][a] <= copies[v][a] + 1
                    /\ v # uid \/ Home[a] # s => copies'[v][a] = copies[v][a]
  OBVIOUS
<1> DEFINE n == SentTo(us, a)
<1>1. n \in {0, 1} /\ (Home[a] # s => n = 0)
  BY SentOnce DEF ClientsOf
<1>2. copies[v][a] \in 0..COPY_CAP /\ COPY_CAP \in Nat
  BY BoundsAreNats DEF Counts
<1>3. copies'[v][a] = IF v # uid THEN copies[v][a]
                      ELSE IF copies[v][a] + n < COPY_CAP THEN copies[v][a] + n
                      ELSE COPY_CAP
  BY DEF CountCopies, Counts
<1> HIDE DEF n
<1> QED
  BY <1>1, <1>2, <1>3

\* Nothing is said or passed on.
LEMMA NothingSaid ==
    ASSUME OnItsWay, UNCHANGED <<said, copies>>, SaysInFlight' \subseteq SaysInFlight
    PROVE  OnItsWay'
<1>1. AtMostOnce'
  BY DEF OnItsWay, AtMostOnce
<1>2. \A m : Unreached(m)' <=> Unreached(m)
  BY DEF Unreached
<1> QED
  BY <1>1, <1>2 DEF OnItsWay

\* Server s sends message uid to the user set us and on to some of its neighbours, with
\* the messages of rest in flight beside it: none of its users and nobody beyond those
\* neighbours has the message, or is about to get it of another server.
Spreads(s, c, uid, targets, us, rest) ==
    /\ targets \subseteq Neighbours(s)
    /\ Agree(us) /\ ClientsOf(us, s)
    /\ CountCopies(uid, us)
    /\ \A a \in Addr : Home[a] = s => copies[uid][a] = 0
    /\ \A t \in targets, a \in Addr : Home[a] \in Beyond(s, t) => copies[uid][a] = 0
    /\ rest \subseteq SaysInFlight
    /\ \A k \in rest : k.uid \in Uid
    /\ \A k \in rest : k.uid = uid =>
          /\ s \notin Beyond(k.src, k.dst)
          /\ \A t \in targets : Beyond(s, t) \cap Beyond(k.src, k.dst) = {}
    /\ SaysInFlight' = rest \cup Says(s, targets, c, uid)

LEMMA SaySpreads ==
    ASSUME Forest, OnItsWay, copies \in Counts,
           said \in Nat, said' \in Nat, said <= said',
           NEW s \in Server, NEW c, NEW uid \in Uid, uid <= said',
           NEW targets, NEW us, NEW rest, Spreads(s, c, uid, targets, us, rest)
    PROVE  OnItsWay'
<1> DEFINE new == Says(s, targets, c, uid)
<1>a. targets \subseteq Neighbours(s) /\ SaysInFlight' = rest \cup Says(s, targets, c, uid)
  BY DEF Spreads
<1>b. Agree(us) /\ ClientsOf(us, s) /\ CountCopies(uid, us)
  BY DEF Spreads
<1>c. \A t \in targets, a \in Addr : Home[a] \in Beyond(s, t) => copies[uid][a] = 0
  BY DEF Spreads
<1>d. \A a \in Addr : Home[a] = s => copies[uid][a] = 0
  BY DEF Spreads
<1>e. rest \subseteq SaysInFlight /\ \A k \in rest : k.uid \in Uid
  BY DEF Spreads
<1>f. \A k \in rest : k.uid = uid =>
         /\ s \notin Beyond(k.src, k.dst)
         /\ \A t \in targets : Beyond(s, t) \cap Beyond(k.src, k.dst) = {}
  BY DEF Spreads
<1>0. Uid \subseteq Nat
  BY UidsAreCounted, BoundsAreNats
<1>1. \A v \in Uid, a \in Addr :
         /\ copies[v][a] \in Nat /\ copies'[v][a] \in Nat
         /\ copies'[v][a] <= copies[v][a] + 1
         /\ v # uid \/ Home[a] # s => copies'[v][a] = copies[v][a]
  <2>1. us \in UserSets
    BY <1>b DEF Agree
  <2>2. copies' \in Counts
    BY <2>1, <1>b, CountsTyped
  <2>3. \A v \in Uid, a \in Addr : copies[v][a] \in Nat /\ copies'[v][a] \in Nat
    BY <2>2, BoundsAreNats DEF Counts
  <2>4. \A v \in Uid, a \in Addr :
           /\ copies'[v][a] <= copies[v][a] + 1
           /\ v # uid \/ Home[a] # s => copies'[v][a] = copies[v][a]
    BY <1>b, CountedOnce
  <2> QED
    BY <2>3, <2>4
<1>2. \A t \in targets : t \in Server /\ t \in Neighbours(s) /\ s # t /\ s \notin Beyond(s, t)
  BY <1>a, BeyondIsAway DEF Forest, Neighbours
<1>3. \A m \in new : /\ m.src = s /\ m.dst \in targets /\ m.uid = uid
                     /\ m = SayTo(s, m.dst, c, uid)
  BY DEF Says, SayTo
<1> HIDE DEF new
<1>4. AtMostOnce'
  BY <1>1, <1>d DEF OnItsWay, AtMostOnce
<1>5. ASSUME NEW v \in Uid, v > said', NEW a \in Addr
      PROVE  copies'[v][a] = 0
  <2>1. v > said /\ v # uid
    BY <1>0, <1>5
  <2> QED
    BY <2>1, <1>1 DEF OnItsWay
<1>6. ASSUME NEW m \in rest
      PROVE  m.uid <= said' /\ Unreached(m)'
  <2>1. m.uid <= said /\ Unreached(m) /\ m.uid \in Uid
    BY <1>e, <1>6 DEF OnItsWay
  <2>2. m.uid <= said'
    <3>1. m.uid \in Nat /\ m.uid <= said
      BY <2>1, <1>0
    <3> HIDE DEF SaysInFlight
    <3> QED
      BY <3>1
  <2>3. ASSUME NEW a \in Addr, Home[a] \in Beyond(m.src, m.dst)
        PROVE  copies'[m.uid][a] = 0
    <3>1. m.uid # uid \/ Home[a] # s
      BY <2>3, <1>f
    <3> QED
      BY <3>1, <2>1, <2>3, <1>1 DEF Unreached
  <2> QED
    BY <2>2, <2>3 DEF Unreached
<1>7. ASSUME NEW m \in new
      PROVE  m.uid <= said' /\ Unreached(m)'
  <2>1. m.src = s /\ m.dst \in targets /\ m.uid = uid
    BY <1>3
  <2>2. ASSUME NEW a \in Addr, Home[a] \in Beyond(s, m.dst)
        PROVE  copies'[uid][a] = 0
    <3>1. Home[a] # s
      BY <2>1, <2>2, <1>2
    <3>2. copies'[uid][a] = copies[uid][a]
      BY <3>1, <1>1
    <3> QED
      BY <3>2, <2>1, <2>2, <1>c
  <2> QED
    BY <2>1, <2>2 DEF Unreached
<1>8. ASSUME NEW m \in rest \cup new, NEW k \in rest \cup new, m.uid = k.uid, m # k
      PROVE  Beyond(m.src, m.dst) \cap Beyond(k.src, k.dst) = {}
  <2>1. CASE m \in rest /\ k \in rest
    BY <2>1, <1>8, <1>e DEF OnItsWay
  <2>2. CASE m \in new /\ k \in rest
    BY <2>2, <1>3, <1>8, <1>f
  <2>3. CASE m \in rest /\ k \in new
    BY <2>3, <1>3, <1>8, <1>f
  <2>4. CASE m \in new /\ k \in new
    <3>1. m.src = s /\ k.src = s /\ m.dst # k.dst
      BY <2>4, <1>3, <1>8
    <3>2. m.dst \in Neighbours(s) /\ k.dst \in Neighbours(s)
      BY <2>4, <1>2, <1>3
    <3> QED
      BY <3>1, <3>2, BeyondsAreDisjoint
  <2> QED
    BY <2>1, <2>2, <2>3, <2>4, <1>8
<1>9. SaysInFlight' = rest \cup new
  BY <1>a DEF new
<1> QED
  BY <1>4, <1>5, <1>6, <1>7, <1>8, <1>9 DEF OnItsWay
-------------------------------------------------------------------------------
\* The steps of the servers.

\* Joins and leaves are not messages.
LEMMA ControlSaysNothing ==
    ASSUME NEW s, NEW st, NEW targets, NEW c
    PROVE  /\ \A m \in Joins(s, targets, c) : m.type # "SAY"
           /\ \A m \in Leaves(s, targets, c) : m.type # "SAY"
           /\ \A m \in PruneLeaves(s, st) : m.type # "SAY"
BY DEF Joins, Join, Leaves, Leave, PruneLeaves

LEMMA SayIsSound ==
    ASSUME UsersInv, NEW m \in SaysInFlight
    PROVE  /\ m \in net /\ m.type = "SAY" /\ m.uid \in Uid
           /\ m.src \in Server /\ m.channel \in Channel /\ m.dst \in Neighbours(m.src)
BY DEF SaysInFlight, UsersInv, RestTyped, Datagrams, Inv, SoundDatagram, Neighbours, Linked

\* The users of a channel of a server are its own clients, on a list without repeats.
LEMMA ChannelUsersAreOwn ==
    ASSUME GhostInv, NEW s \in Server, NEW c \in Channel, Exists(srv[s], c)
    PROVE  /\ Agree(srv[s].cset[c].uset)
           /\ ClientsOf(srv[s].cset[c].uset, s)
BY DEF ClientsOf, GhostInv, GhostlessServers, Ghostless, Part, Exists

LEMMA RoutesAreNeighbours ==
    ASSUME UsersInv, NEW s \in Server, NEW c \in Channel, Exists(srv[s], c)
    PROVE  srv[s].cset[c].sset \subseteq Neighbours(s)
BY RoutesLinked DEF UsersInv, Inv, Neighbours

LEMMA ClientSays ==
    ASSUME Forest, GhostInv, OnItsWay, ClientRequest
    PROVE  OnItsWay'
<1> SUFFICES ASSUME NEW a \in Addr,
                    \/ \E n \in Username : handle_login(n, a)
                    \/ handle_logout(a)
                    \/ handle_list(a)
                    \/ \E c \in Channel : \/ handle_join(a, c) \/ handle_leave(a, c)
                                          \/ handle_say(a, c) \/ handle_who(a, c)
             PROVE  OnItsWay'
  BY DEF ClientRequest
<1> DEFINE s == Home[a]
<1>s. s \in Server /\ UsersInv /\ RestTyped
  BY HomeIsServer DEF GhostInv, UsersInv
<1>1. CASE \/ \E n \in Username : handle_login(n, a)
           \/ handle_list(a)
           \/ \E c \in Channel : handle_who(a, c)
  <2>1. UNCHANGED <<net, said, copies>>
    BY <1>1 DEF handle_login, handle_list, handle_who
  <2> QED
    BY <2>1, NothingSaid DEF SaysInFlight
<1>2. CASE handle_logout(a)
  <2>1. /\ net' = net \cup PruneLeaves(s, cli_logout(srv[s], a))
        /\ UNCHANGED <<said, copies>>
    BY <1>2 DEF handle_logout
  <2> QED
    BY <2>1, ControlSaysNothing, NothingSaid DEF SaysInFlight
<1>3. ASSUME NEW c \in Channel, handle_join(a, c)
      PROVE  OnItsWay'
  <2>1. net' = net \cup Joins(s, Adj[s], c) /\ UNCHANGED <<said, copies>>
    BY <1>3 DEF handle_join
  <2> QED
    BY <2>1, ControlSaysNothing, NothingSaid DEF SaysInFlight
<1>4. ASSUME NEW c \in Channel, handle_leave(a, c)
      PROVE  OnItsWay'
  <2>1. /\ net' = net \/ net' = net \cup PruneLeaves(s, cli_leave(srv[s], a, c))
        /\ UNCHANGED <<said, copies>>
    BY <1>4 DEF handle_leave
  <2> QED
    BY <2>1, ControlSaysNothing, NothingSaid DEF SaysInFlight
<1>5. ASSUME NEW c \in Channel, handle_say(a, c)
      PROVE  OnItsWay'
  <2>1. CASE NoUsersFor(a, c)
    <3>1. UNCHANGED <<net, said, copies>>
      BY <1>5, <2>1 DEF handle_say
    <3> QED
      BY <3>1, NothingSaid DEF SaysInFlight
  <2>2. CASE ~NoUsersFor(a, c)
    <3> DEFINE us == srv[s].cset[c].uset
               targets == srv[s].cset[c].sset
               uid == said + 1
    <3>1. /\ said < MAX_SAYS /\ said' = uid
          /\ CountCopies(uid, us)
          /\ net' = net \cup Says(s, targets, c, uid)
      BY <1>5, <2>2 DEF handle_say
    <3>2. said \in Nat /\ uid \in Uid /\ uid > said /\ said <= uid /\ uid \in Nat /\ uid <= uid
      BY <1>s, <3>1, UidsAreCounted, BoundsAreNats DEF RestTyped
    <3>3. Exists(srv[s], c)
      BY <2>2 DEF NoUsersFor
    <3>4. Agree(us) /\ ClientsOf(us, s)
      BY <1>s, <3>3, ChannelUsersAreOwn
    <3>5. targets \subseteq Neighbours(s)
      BY <1>s, <3>3, RoutesAreNeighbours
    <3>6. \A b \in Addr : copies[uid][b] = 0
      BY <3>2 DEF OnItsWay
    <3>7. \A k \in SaysInFlight : k.uid \in Uid /\ k.uid # uid
      <4>1. \A k \in SaysInFlight : k.uid \in Uid /\ k.uid <= said
        BY <1>s, SayIsSound DEF OnItsWay
      <4> QED
        BY <4>1, <3>2, UidsAreCounted
    <3>8. SaysInFlight' = SaysInFlight \cup Says(s, targets, c, uid)
      BY <3>1 DEF SaysInFlight, Says, SayTo
    <3>9. copies \in Counts
      BY <1>s DEF RestTyped
    <3>10. \A t \in targets, b \in Addr : Home[b] \in Beyond(s, t) => copies[uid][b] = 0
      BY <3>6
    <3> HIDE DEF us, targets, uid, s
    <3>12. Spreads(s, c, uid, targets, us, SaysInFlight)
      BY <3>1, <3>4, <3>5, <3>6, <3>7, <3>8, <3>10 DEF Spreads
    <3> QED
      BY <1>s, <3>1, <3>2, <3>9, <3>12, SaySpreads
  <2> QED
    BY <2>1, <2>2
<1> QED
  BY <1>1, <1>2, <1>3, <1>4, <1>5

LEMMA ReceiptSays ==
    ASSUME Forest, DUPLICATES = FALSE, GhostInv, OnItsWay, NEW m \in net, Receive(m)
    PROVE  OnItsWay'
<1> DEFINE s == m.dst
           c == m.channel
<1>s. UsersInv /\ RestTyped
  BY DEF GhostInv, UsersInv
<1>r. Remaining(m) = {net \ {m}}
  BY DEF Remaining
<1>1. CASE handle_s2s_join(m)
  <2>1. /\ \/ net' = net \ {m}
           \/ net' = (net \ {m}) \cup {}
           \/ net' = (net \ {m}) \cup Joins(s, Adj[s], c)
        /\ UNCHANGED <<said, copies>>
    BY <1>1, <1>r DEF handle_s2s_join
  <2>2. SaysInFlight' \subseteq SaysInFlight
    BY <2>1, ControlSaysNothing DEF SaysInFlight
  <2> QED
    BY <2>1, <2>2, NothingSaid
<1>2. CASE handle_s2s_leave(m)
  <2>1. net' = net \ {m} /\ UNCHANGED <<said, copies>>
    BY <1>2, <1>r DEF handle_s2s_leave
  <2> QED
    BY <2>1, NothingSaid DEF SaysInFlight
<1>3. CASE Vanish(m)
  <2>1. net' = net \ {m} /\ UNCHANGED <<said, copies>>
    BY <1>3 DEF Vanish
  <2> QED
    BY <2>1, NothingSaid DEF SaysInFlight
<1>4. CASE handle_s2s_say(m)
  <2>0. /\ m \in SaysInFlight /\ UNCHANGED said
        /\ s \in Server /\ c \in Channel /\ m.src \in Server /\ s \in Neighbours(m.src)
        /\ m.uid \in Uid
    BY <1>4, <1>s, SayIsSound DEF handle_s2s_say, Arrived, SaysInFlight, Neighbours
  <2>1. CASE ~Exists(srv[s], c)
    <3>1. net' = net \ {m} /\ UNCHANGED copies
      BY <1>4, <2>1, <1>r DEF handle_s2s_say
    <3> QED
      BY <2>0, <3>1, NothingSaid DEF SaysInFlight
  <2>2. CASE Exists(srv[s], c) /\ channel_already_got_message(srv[s], c, m.uid)
    <3>1. net' = (net \ {m}) \cup Leaves(s, {m.src}, c) /\ UNCHANGED copies
      BY <1>4, <2>2, <1>r DEF handle_s2s_say
    <3>2. SaysInFlight' \subseteq SaysInFlight
      BY <3>1, ControlSaysNothing DEF SaysInFlight
    <3> QED
      BY <2>0, <3>1, <3>2, NothingSaid
  <2>3. CASE Exists(srv[s], c) /\ ~channel_already_got_message(srv[s], c, m.uid)
    <3> DEFINE us == srv[s].cset[c].uset
               targets == srv[s].cset[c].sset \ {m.src}
               uid == m.uid
               rest == SaysInFlight \ {m}
    <3>1. /\ net' = (net \ {m}) \cup Says(s, targets, c, uid) \cup PruneLeaves(s, srv[s])
          /\ CountCopies(uid, us)
      BY <1>4, <2>3, <1>r DEF handle_s2s_say, PassOn
    <3>2. said \in Nat /\ said' \in Nat /\ said <= said' /\ uid <= said'
      BY <1>s, <2>0, BoundsAreNats DEF RestTyped, OnItsWay
    <3>3. Agree(us) /\ ClientsOf(us, s)
      BY <2>0, <2>3, ChannelUsersAreOwn
    <3>4. targets \subseteq Neighbours(s) /\ m.src \notin targets
      BY <1>s, <2>0, <2>3, RoutesAreNeighbours
    <3>5. s \in Beyond(m.src, s)
      BY <2>0, BeyondHasNext
    <3>6. \A t \in targets : Beyond(s, t) \subseteq Beyond(m.src, s)
      BY <2>0, <3>4, BeyondShrinks
    <3>7. Unreached(m)
      BY <2>0 DEF OnItsWay
    <3>8. \A a \in Addr : Home[a] = s => copies[uid][a] = 0
      BY <3>5, <3>7 DEF Unreached
    <3>9. \A t \in targets, a \in Addr : Home[a] \in Beyond(s, t) => copies[uid][a] = 0
      BY <3>6, <3>7 DEF Unreached
    <3>10. \A k \in rest : k.uid \in Uid
      BY <1>s, SayIsSound
    <3>11. ASSUME NEW k \in rest, k.uid = uid
           PROVE  /\ s \notin Beyond(k.src, k.dst)
                  /\ \A t \in targets : Beyond(s, t) \cap Beyond(k.src, k.dst) = {}
      <4>1. Beyond(m.src, s) \cap Beyond(k.src, k.dst) = {}
        BY <2>0, <3>11 DEF OnItsWay
      <4> QED
        BY <4>1, <3>5, <3>6
    <3>12. SaysInFlight' = rest \cup Says(s, targets, c, uid)
      <4>1. \A k \in Says(s, targets, c, uid) : k.type = "SAY"
        BY DEF Says, SayTo
      <4> HIDE DEF targets, uid
      <4> QED
        BY <3>1, <4>1, ControlSaysNothing DEF SaysInFlight
    <3>13. copies \in Counts /\ rest \subseteq SaysInFlight
      BY <1>s DEF RestTyped
    <3> HIDE DEF us, targets, uid, rest, s, c
    <3>14. Spreads(s, c, uid, targets, us, rest)
      BY <3>1, <3>3, <3>4, <3>8, <3>9, <3>10, <3>11, <3>12, <3>13 DEF Spreads
    <3>15. uid \in Uid
      BY <2>0 DEF uid
    <3> QED
      BY <2>0, <3>2, <3>13, <3>14, <3>15, SaySpreads
  <2> QED
    BY <2>1, <2>2, <2>3
<1> QED
  BY <1>1, <1>2, <1>3, <1>4 DEF Receive

LEMMA LoopsSayNothing ==
    ASSUME OnItsWay, TimerLoop
    PROVE  OnItsWay'
<1>1. UNCHANGED <<said, copies>>
  BY DEF TimerLoop, join_send_loop, server_timeout_loop, user_timeout_loop
<1>2. \A m \in net' : m \in net \/ m.type # "SAY"
  <2>1. ASSUME NEW s \in Server, join_send_loop(s)
        PROVE  \A m \in net' : m \in net \/ m.type # "SAY"
    <3>1. \A m \in net' : m \in net \/ \E c \in Channel : m \in Joins(s, Routes(srv[s], c), c)
      BY <2>1 DEF join_send_loop
    <3> QED
      BY <3>1, ControlSaysNothing
  <2>2. (\E s \in Server : join_send_loop(s)) \/ UNCHANGED net
    BY DEF TimerLoop, server_timeout_loop, user_timeout_loop
  <2> QED
    BY <2>1, <2>2
<1> QED
  BY <1>1, <1>2, NothingSaid DEF SaysInFlight

LEMMA InitOnItsWay == Init => OnItsWay
BY DEF Init, OnItsWay, AtMostOnce, SaysInFlight

LEMMA NextKeepsOnItsWay ==
    ASSUME Forest, DUPLICATES = FALSE
    PROVE  GhostInv /\ OnItsWay /\ [Next]_vars => OnItsWay'
<1> SUFFICES ASSUME GhostInv, OnItsWay, [Next]_vars
             PROVE  OnItsWay'
  OBVIOUS
<1>1. CASE UNCHANGED vars
  BY <1>1, NothingSaid DEF vars, SaysInFlight
<1>2. CASE Next
  BY <1>2, ClientSays, ReceiptSays, LoopsSayNothing DEF Next
<1> QED
  BY <1>1, <1>2

\* Where the servers form a forest, the network delivers nothing twice and no login takes
\* a name or an address from another session, a client is sent a message once at most,
\* whatever the routes are and however they change while it travels.
THEOREM AtMostOnceOnForests ==
    ASSUME Forest, DUPLICATES = FALSE
    PROVE  Spec /\ NoTakeover => []AtMostOnce
<1>1. OnItsWay => AtMostOnce
  BY DEF OnItsWay
<1>2. GhostInv /\ OnItsWay /\ [Next]_vars => OnItsWay'
  BY NextKeepsOnItsWay
<1> QED
  BY <1>1, <1>2, InitOnItsWay, GhostInvAlways, PTL DEF Spec
==============================================================================
