--------------------------- MODULE LinkedList_proofs ---------------------------
(***************************************************************************)
(* The ring and the free list, for every number of nodes and any failure   *)
(* of malloc: the pointers stay closed, no node is lost or in two places,  *)
(* and the calls implement the sequence of AbstractList.                   *)
(*                                                                         *)
(* The inductive invariant gives the nodes of the ring, and the nodes of   *)
(* the free list, as sequences that the pointers spell out.                *)
(***************************************************************************)
EXTENDS LinkedList, DataLemmas

LLists ==
    [size : Int, freel : LLNode \cup {NULL}, malloced : 0..MAX_NODES,
     next : [LLNode -> LLNode \cup {NULL}], prev : [LLNode -> LLNode],
     element : [Node -> Element \cup {NULL}]]

\* The i-th node of the ring r; the sentinel is before the first and behind the last.
At(r, i) == IF i \in 1..Len(r) THEN r[i] ELSE SENTINEL

\* The i-th node of the free list f, and what its end is marked with.
FreeAt(f, i) == IF i \in 1..Len(f) THEN f[i] ELSE NULL

RingOf(d, r) ==
    /\ r \in Seq(Node) /\ IsInjective(r)
    /\ d.size = Len(r)
    /\ \A i \in 0..Len(r) : d.next[At(r, i)] = At(r, i + 1) /\ d.prev[At(r, i + 1)] = At(r, i)

FreeOf(d, f) ==
    /\ f \in Seq(Node) /\ IsInjective(f)
    /\ d.freel = FreeAt(f, 1)
    /\ \A i \in 1..Len(f) : d.next[f[i]] = FreeAt(f, i + 1)

Parted(d, r, f) ==
    /\ Entries(r) \cap Entries(f) = {}
    /\ Entries(r) \cup Entries(f) = 1..d.malloced
    /\ Len(r) + Len(f) = d.malloced

Shaped(d, r, f) == d \in LLists /\ RingOf(d, r) /\ FreeOf(d, f) /\ Parted(d, r, f)

ListShape(d) == \E r, f : Shaped(d, r, f)
-------------------------------------------------------------------------------
\* The nodes of a ring and of a free list.

LEMMA NodeNumbers ==
    /\ MAX_NODES \in Nat /\ FL_INCREMENT \in Nat /\ FL_INCREMENT > 0
    /\ SENTINEL = 0 /\ SENTINEL \in LLNode /\ SENTINEL \notin Node
    /\ Node \subseteq LLNode /\ LLNode \subseteq Int /\ NULL \notin LLNode
BY NodeBounds, NullIsNoNode DEF SENTINEL, Node, LLNode

LEMMA SeqFacts ==
    ASSUME NEW r \in Seq(Node)
    PROVE  Len(r) \in Nat /\ DOMAIN r = 1..Len(r) /\ \A i \in 1..Len(r) : r[i] \in Node
BY LenProperties

\* The places of a ring are different nodes, counted from the sentinel before it or to
\* the one behind it.
LEMMA AtFacts ==
    ASSUME NEW r \in Seq(Node), IsInjective(r)
    PROVE  /\ \A i \in Int : At(r, i) \in LLNode
           /\ \A i \in 1..Len(r) : At(r, i) = r[i] /\ At(r, i) \in Node /\ At(r, i) \in Entries(r)
           /\ At(r, 0) = SENTINEL /\ At(r, Len(r) + 1) = SENTINEL
           /\ \A i, j \in 0..Len(r) : At(r, i) = At(r, j) => i = j
           /\ \A i, j \in 1..Len(r) + 1 : At(r, i) = At(r, j) => i = j
           /\ \A p \in Node : p \notin Entries(r) => \A i \in Int : At(r, i) # p
<1>1. Len(r) \in Nat /\ DOMAIN r = 1..Len(r) /\ \A i \in 1..Len(r) : r[i] \in Node
  BY SeqFacts
<1>2. \A i \in 1..Len(r) : r[i] # SENTINEL
  BY <1>1, NodeNumbers
<1>3. \A i, j \in 1..Len(r) : r[i] = r[j] => i = j
  BY <1>1 DEF IsInjective
<1>4. \A i \in 0..Len(r) : i # 0 => i \in 1..Len(r)
  BY <1>1
<1>5. \A i \in 1..Len(r) + 1 : i # Len(r) + 1 => i \in 1..Len(r)
  BY <1>1
<1>6. 0 \notin 1..Len(r) /\ Len(r) + 1 \notin 1..Len(r)
  BY <1>1
<1>7. \A i \in Int : At(r, i) \in LLNode
  BY <1>1, NodeNumbers DEF At
<1>8. \A i \in 1..Len(r) : At(r, i) = r[i] /\ At(r, i) \in Node /\ At(r, i) \in Entries(r)
  BY <1>1 DEF At, Entries
<1>9. \A p \in Node : p \notin Entries(r) => \A i \in Int : At(r, i) # p
  BY <1>1, NodeNumbers DEF At, Entries
<1>10. At(r, 0) = SENTINEL /\ At(r, Len(r) + 1) = SENTINEL
  BY <1>6 DEF At
<1>11. \A i, j \in 0..Len(r) : At(r, i) = At(r, j) => i = j
  BY <1>2, <1>3, <1>4, <1>8, <1>10
<1>12. \A i, j \in 1..Len(r) + 1 : At(r, i) = At(r, j) => i = j
  BY <1>2, <1>3, <1>5, <1>8, <1>10
<1> QED
  BY <1>7, <1>8, <1>9, <1>10, <1>11, <1>12

LEMMA FreeAtFacts ==
    ASSUME NEW f \in Seq(Node)
    PROVE  /\ \A i \in Int : FreeAt(f, i) \in Node \cup {NULL}
           /\ \A i \in 1..Len(f) : FreeAt(f, i) = f[i] /\ FreeAt(f, i) # NULL
BY SeqFacts, NodeNumbers DEF FreeAt
\* A node more, or one less, in a sequence of different nodes.
LEMMA NodeInserted ==
    ASSUME NEW r \in Seq(Node), IsInjective(r), NEW i \in 1..Len(r) + 1,
           NEW p \in Node, p \notin Entries(r)
    PROVE  /\ InsertAt(r, i, p) \in Seq(Node) /\ IsInjective(InsertAt(r, i, p))
           /\ Len(InsertAt(r, i, p)) = Len(r) + 1
           /\ Entries(InsertAt(r, i, p)) = Entries(r) \cup {p}
<1>1. InsertAt(r, i, p) \in Seq(Node) /\ Len(InsertAt(r, i, p)) = Len(r) + 1
  BY InsertAtProperties DEF Widened
<1>2. IsInjective(InsertAt(r, i, p)) /\ Entries(InsertAt(r, i, p)) = Entries(r) \cup {p}
  BY InsertAtEntries
<1> QED
  BY <1>1, <1>2

LEMMA NodeRemoved ==
    ASSUME NEW r \in Seq(Node), IsInjective(r), NEW i \in 1..Len(r)
    PROVE  /\ RemoveAt(r, i) \in Seq(Node) /\ IsInjective(RemoveAt(r, i))
           /\ Len(RemoveAt(r, i)) = Len(r) - 1
           /\ Entries(RemoveAt(r, i)) = Entries(r) \ {r[i]}
<1>1. RemoveAt(r, i) \in Seq(Node) /\ Len(RemoveAt(r, i)) = Len(r) - 1
  BY RemoveAtProperties
<1>2. /\ IsInjective(RemoveAt(r, i)) /\ r[i] \notin Entries(RemoveAt(r, i))
      /\ Entries(RemoveAt(r, i)) \subseteq Entries(r)
      /\ Entries(r) \ {r[i]} \subseteq Entries(RemoveAt(r, i))
  BY RemoveAtEntries
<1> QED
  BY <1>1, <1>2
-------------------------------------------------------------------------------
\* One more node for the free list, and many.

LEMMA PutParts ==
    ASSUME NEW d \in LLists, NEW p \in Node
    PROVE  /\ putEntry(d, p) \in LLists
           /\ putEntry(d, p).freel = p
           /\ putEntry(d, p).size = d.size /\ putEntry(d, p).malloced = d.malloced
           /\ putEntry(d, p).prev = d.prev
           /\ \A q \in LLNode : putEntry(d, p).next[q] = IF q = p THEN d.freel ELSE d.next[q]
           /\ \A q \in Node : putEntry(d, p).element[q] = IF q = p THEN NULL ELSE d.element[q]
BY NodeNumbers DEF LLists, putEntry

\* The node becomes the first of the free list.
LEMMA PutFrees ==
    ASSUME NEW d \in LLists, NEW f, FreeOf(d, f), NEW p \in Node, p \notin Entries(f)
    PROVE  FreeOf(putEntry(d, p), InsertAt(f, 1, p))
<1> DEFINE g == InsertAt(f, 1, p)
           e == putEntry(d, p)
<1>0. f \in Seq(Node) /\ Len(f) \in Nat /\ IsInjective(f) /\ \A i \in 1..Len(f) : f[i] \in Node
  BY SeqFacts DEF FreeOf
<1>1. 1 \in 1..Len(f) + 1
  BY <1>0
<1>2. /\ g \in Seq(Node) /\ Len(g) = Len(f) + 1 /\ IsInjective(g)
      /\ \A j \in 1..Len(f) + 1 : g[j] = IF j = 1 THEN p ELSE f[j - 1]
  <2>1. /\ g \in Seq(Node) /\ Len(g) = Len(f) + 1
        /\ \A j \in 1..Len(f) + 1 : g[j] = IF j < 1 THEN f[j] ELSE IF j = 1 THEN p ELSE f[j - 1]
    BY <1>0, <1>1, InsertAtProperties DEF Widened
  <2>2. IsInjective(g)
    BY <1>0, <1>1, InsertAtEntries
  <2> HIDE DEF g
  <2> QED
    BY <2>1, <2>2
<1>3. /\ e.freel = p
      /\ \A q \in LLNode : e.next[q] = IF q = p THEN d.freel ELSE d.next[q]
  BY PutParts
<1> HIDE DEF g, e
<1>4. \A i \in 1..Len(f) + 1 : FreeAt(g, i + 1) = FreeAt(f, i)
  <2> SUFFICES ASSUME NEW i \in 1..Len(f) + 1
               PROVE  FreeAt(g, i + 1) = FreeAt(f, i)
    OBVIOUS
  <2>1. CASE i \in 1..Len(f)
    <3>1. i + 1 \in 1..Len(f) + 1 /\ i + 1 # 1 /\ (i + 1) - 1 = i
      BY <2>1, <1>0
    <3> QED
      BY <3>1, <2>1, <1>2 DEF FreeAt
  <2>2. CASE i \notin 1..Len(f)
    <3>1. i + 1 \notin 1..Len(f) + 1
      BY <2>2, <1>0
    <3> QED
      BY <3>1, <2>2, <1>2 DEF FreeAt
  <2> QED
    BY <2>1, <2>2
<1>5. FreeAt(g, 1) = p
  BY <1>1, <1>2 DEF FreeAt
<1>6. ASSUME NEW i \in 1..Len(g)
      PROVE  e.next[g[i]] = FreeAt(g, i + 1)
  <2>1. CASE i = 1
    <3>1. g[1] = p /\ p \in LLNode
      BY <1>1, <1>2, NodeNumbers
    <3> QED
      BY <3>1, <2>1, <1>1, <1>3, <1>4 DEF FreeOf
  <2>2. CASE i # 1
    <3>1. i - 1 \in 1..Len(f) /\ g[i] = f[i - 1] /\ i \in 1..Len(f) + 1 /\ (i - 1) + 1 = i
      BY <2>2, <1>0, <1>2
    <3>2. f[i - 1] \in LLNode /\ f[i - 1] # p
      BY <3>1, <1>0, NodeNumbers DEF Entries
    <3>3. d.next[f[i - 1]] = FreeAt(f, i)
      BY <3>1 DEF FreeOf
    <3> QED
      BY <3>1, <3>2, <3>3, <1>3, <1>4
  <2> QED
    BY <2>1, <2>2
<1>7. FreeOf(e, g)
  BY <1>2, <1>3, <1>5, <1>6 DEF FreeOf
<1> QED
  BY <1>7 DEF e, g

PutChain(c, d, ps) ==
    /\ c \in [0..Len(ps) -> LLists]
    /\ c[0] = d
    /\ \A k \in 0..Len(ps) : k < Len(ps) => c[k + 1] = putEntry(c[k], ps[k + 1])
    /\ FoldLeft(putEntry, d, ps) = c[Len(ps)]

\* The nodes are put one after the other.
LEMMA PutsAreChain ==
    ASSUME NEW d \in LLists, NEW ps \in Seq(Node)
    PROVE  \E c : PutChain(c, d, ps)
<1> DEFINE N == Len(ps)
           F == [q \in (1..N) \X LLists |-> putEntry(q[2], ps[q[1]])]
           Is(g) == g = [s \in SUBSET (1..N) |->
                            IF s = {} THEN d ELSE putEntry(g[s \ {Max(s)}], ps[Max(s)])]
           iter == CHOOSE g : Is(g)
<1>n. N \in Nat /\ DOMAIN ps = 1..N /\ \A i \in 1..N : ps[i] \in Node
  BY SeqFacts
<1>1. F \in [(1..N) \X LLists -> LLists]
  BY <1>n, PutParts
<1>2. FoldLeft(putEntry, d, ps) = iter[1..N]
  BY <1>n DEF FoldLeft, MapThenFoldSet
<1>3. \E g : Is(g)
  <2>1. PICK g \in [SUBSET (1..N) -> LLists] : \A s \in SUBSET (1..N) :
           g[s] = IF s = {} THEN d ELSE F[<<Max(s), g[s \ {Max(s)}]>>]
    <3> HIDE DEF F, N
    <3>1. F \in Steps(N, LLists)
      BY <1>1 DEF Steps
    <3>2. \E g : Recurses(g, N, LLists, d, F)
      BY <3>1, <1>n, SubsetRecursion
    <3> QED
      BY <3>2 DEF Recurses
  <2>2. ASSUME NEW s \in SUBSET (1..N), s # {}
        PROVE  F[<<Max(s), g[s \ {Max(s)}]>>] = putEntry(g[s \ {Max(s)}], ps[Max(s)])
    <3>1. Max(s) \in 1..N
      BY <1>n, <2>2, MaxUpTo, s \subseteq 0..N
    <3>2. g[s \ {Max(s)}] \in LLists
      BY <2>1
    <3> QED
      BY <3>1, <3>2
  <2> HIDE DEF F, N
  <2> QED
    BY <2>1, <2>2
<1>4. Is(iter)
  <2> HIDE DEF Is
  <2> QED
    BY <1>3
<1> HIDE DEF iter
<1> DEFINE c == [k \in 0..N |-> iter[1..k]]
<1>5. c[0] = d
  <2>1. 1..0 = {} /\ 0 \in 0..N
    BY <1>n
  <2> QED
    BY <2>1, <1>4
<1>6. ASSUME NEW k \in 0..N, k < N
      PROVE  c[k + 1] = putEntry(c[k], ps[k + 1])
  <2>0. k \in Nat /\ k + 1 \in 0..N
    BY <1>n, <1>6
  <2>1. 1..k + 1 \in SUBSET (1..N) /\ 1..k + 1 # {}
    <3>1. k + 1 \in 1..k + 1 /\ \A i \in 1..k + 1 : i \in 1..N
      BY <2>0
    <3> QED
      BY <3>1
  <2>2. iter[1..k + 1] = putEntry(iter[(1..k + 1) \ {Max(1..k + 1)}], ps[Max(1..k + 1)])
    BY <2>1, <1>4
  <2>3. Max(1..k + 1) = k + 1 /\ (1..k + 1) \ {k + 1} = 1..k
    BY <2>0, MaxOfInterval
  <2> QED
    BY <2>0, <2>2, <2>3
<1>7. c \in [0..N -> LLists]
  <2> DEFINE T == {k \in 0..N : c[k] \in LLists}
  <2>1. 0 \in T
    BY <1>5, <1>n
  <2>2. ASSUME NEW k \in 0..N, k < N, k \in T
        PROVE  k + 1 \in T
    <3>1. c[k + 1] = putEntry(c[k], ps[k + 1]) /\ ps[k + 1] \in Node /\ k + 1 \in 0..N
      BY <1>6, <1>n, <2>2
    <3> HIDE DEF c
    <3> QED
      BY <3>1, <2>2, PutParts
  <2>3. 0..N \subseteq T
    <3> HIDE DEF T, N
    <3> QED
      BY <2>1, <2>2, <1>n, UpToInduction
  <2> QED
    BY <2>3
<1>8. FoldLeft(putEntry, d, ps) = c[N]
  BY <1>2, <1>n
<1> HIDE DEF c, F
<1> QED
  BY <1>5, <1>6, <1>7, <1>8 DEF PutChain

\* e is d with n nodes P more on the free list, which was f and is g.
Freed(d, f, e, g, P, n) ==
    /\ e \in LLists /\ FreeOf(e, g)
    /\ Entries(g) = Entries(f) \cup P /\ Len(g) = Len(f) + n
    /\ e.size = d.size /\ e.malloced = d.malloced /\ e.prev = d.prev
    /\ \A q \in LLNode \ P : e.next[q] = d.next[q]
    /\ \A q \in Node \ P : e.element[q] = d.element[q]

LEMMA PutsFree ==
    ASSUME NEW d \in LLists, NEW f, FreeOf(d, f),
           NEW ps \in Seq(Node), IsInjective(ps), Entries(ps) \cap Entries(f) = {}
    PROVE  \E g : Freed(d, f, FoldLeft(putEntry, d, ps), g, Entries(ps), Len(ps))
<1> DEFINE N == Len(ps)
           done(k) == {ps[i] : i \in 1..k}
<1>n. N \in Nat /\ DOMAIN ps = 1..N /\ \A i \in 1..N : ps[i] \in Node
  BY SeqFacts
<1>1. PICK c : PutChain(c, d, ps)
  BY PutsAreChain
<1>2. /\ c[0] = d /\ FoldLeft(putEntry, d, ps) = c[N]
      /\ \A k \in 0..N : k < N => c[k + 1] = putEntry(c[k], ps[k + 1])
  BY <1>1 DEF PutChain
<1> DEFINE T == {k \in 0..N : \E g : Freed(d, f, c[k], g, done(k), k)}
<1>3. 0 \in T
  <2>1. done(0) = {}
    OBVIOUS
  <2> HIDE DEF done
  <2>2. Len(f) \in Nat
    BY DEF FreeOf
  <2>3. Freed(d, f, c[0], f, done(0), 0)
    BY <2>1, <2>2, <1>2 DEF Freed
  <2> QED
    BY <2>3, <1>n
<1>4. ASSUME NEW k \in 0..N, k < N, k \in T
      PROVE  k + 1 \in T
  <2> DEFINE p == ps[k + 1]
             e == putEntry(c[k], p)
  <2>1. k + 1 \in 1..N /\ k + 1 \in 0..N /\ k \in Nat
    BY <1>n, <1>4
  <2>2. p \in Node /\ p \notin done(k) /\ p \notin Entries(f) /\ done(k + 1) = done(k) \cup {p}
    <3>1. \A i \in 1..k : i \in 1..N /\ i # k + 1
      BY <2>1, <1>n
    <3>2. p \in Entries(ps)
      BY <2>1 DEF Entries
    <3> QED
      BY <2>1, <3>1, <3>2, <1>n DEF IsInjective
  <2>3. c[k + 1] = e
    BY <1>2, <1>4
  <2> HIDE DEF p, done
  <2>4. PICK g : Freed(d, f, c[k], g, done(k), k)
    BY <1>4
  <2>5. c[k] \in LLists /\ FreeOf(c[k], g) /\ p \notin Entries(g)
    BY <2>2, <2>4 DEF Freed
  <2>6. FreeOf(e, InsertAt(g, 1, p))
    BY <2>2, <2>5, PutFrees
  <2>7. Entries(InsertAt(g, 1, p)) = Entries(g) \cup {p} /\ Len(InsertAt(g, 1, p)) = Len(g) + 1
    <3>1. g \in Seq(Node) /\ 1 \in 1..Len(g) + 1
      BY <2>5, SeqFacts DEF FreeOf
    <3> QED
      BY <3>1, <2>2, InsertAtEntries, InsertAtProperties DEF Widened
  <2>8. Len(f) \in Nat
    BY DEF FreeOf
  <2>9. /\ e \in LLists /\ e.size = c[k].size /\ e.malloced = c[k].malloced
        /\ e.prev = c[k].prev
        /\ \A q \in LLNode : q # p => e.next[q] = c[k].next[q]
        /\ \A q \in Node : q # p => e.element[q] = c[k].element[q]
    BY <2>2, <2>5, PutParts
  <2> HIDE DEF e
  <2>10. Freed(d, f, e, InsertAt(g, 1, p), done(k + 1), k + 1)
    BY <2>1, <2>2, <2>4, <2>6, <2>7, <2>8, <2>9 DEF Freed
  <2> QED
    BY <2>1, <2>3, <2>10
<1>5. 0..N \subseteq T
  <2> HIDE DEF T, N
  <2> QED
    BY <1>n, <1>3, <1>4, UpToInduction
<1>6. N \in T
  <2> HIDE DEF T, N
  <2> QED
    BY <1>5, <1>n
<1>7. done(N) = Entries(ps)
  BY DEF Entries
<1> QED
  BY <1>2, <1>6, <1>7
-------------------------------------------------------------------------------
\* Each operation on the nodes keeps the shape.

LEMMA CreateShapes == Shaped(LinkedList_create, <<>>, <<>>)
<1> DEFINE d == LinkedList_create
           none == <<>>
<1>1. none \in Seq(Node) /\ Len(none) = 0 /\ IsInjective(none) /\ Entries(none) = {}
  BY EmptySeq DEF IsInjective, Entries
<1>2. /\ d \in LLists
      /\ d.size = 0 /\ d.freel = NULL /\ d.malloced = 0
      /\ \A p \in LLNode : d.next[p] = SENTINEL /\ d.prev[p] = SENTINEL
  BY NodeNumbers DEF LinkedList_create, LLists
<1> HIDE DEF d, none
<1>3. \A i \in Int : At(none, i) = SENTINEL /\ FreeAt(none, i) = NULL
  BY <1>1 DEF At, FreeAt
<1>4. RingOf(d, none) /\ FreeOf(d, none) /\ Parted(d, none, none)
  BY <1>1, <1>2, <1>3, NodeNumbers DEF RingOf, FreeOf, Parted
<1> QED
  BY <1>2, <1>4 DEF Shaped, d, none

\* e has the ring of d with the elements in it, and any free list.
Refilled(d, r, e, g) ==
    Shaped(e, r, g) /\ \A q \in Entries(r) : e.element[q] = d.element[q]

LEMMA RefillShapes ==
    ASSUME NEW d, NEW r, NEW f, Shaped(d, r, f), d.freel = NULL, NEW e \in Refills(d)
    PROVE  \E g : Refilled(d, r, e, g)
<1> DEFINE m == d.malloced
<1>0. d \in LLists /\ RingOf(d, r) /\ FreeOf(d, f) /\ Parted(d, r, f)
  BY DEF Shaped
<1>1. m \in Nat /\ m <= MAX_NODES
  BY <1>0, NodeNumbers DEF LLists
<1>2. PICK n \in m..MAX_NODES :
         e = FoldLeft(putEntry, [d EXCEPT !.malloced = n], [i \in 1..n - m |-> m + i])
  <2>1. PICK n \in d.malloced..IF d.malloced + FL_INCREMENT < MAX_NODES
                                THEN d.malloced + FL_INCREMENT ELSE MAX_NODES :
           e = FoldLeft(putEntry, [d EXCEPT !.malloced = n],
                        [i \in 1..n - d.malloced |-> d.malloced + i])
    BY DEF Refills
  <2>2. n \in m..MAX_NODES
    BY <1>1, NodeNumbers
  <2> QED
    BY <2>1, <2>2
<1> DEFINE ps == [i \in 1..n - m |-> m + i]
           b  == [d EXCEPT !.malloced = n]
<1>3. /\ b \in LLists /\ b.malloced = n /\ b.size = d.size /\ b.freel = NULL
      /\ b.next = d.next /\ b.prev = d.prev /\ b.element = d.element
  BY <1>0, <1>1, NodeNumbers DEF LLists
<1>4. /\ ps \in Seq(Node) /\ Len(ps) = n - m /\ IsInjective(ps)
      /\ \A p : p \in Entries(ps) <=> p \in m + 1..n
  <2>1. n - m \in Nat /\ \A i \in 1..n - m : m + i \in Node
    BY <1>1, NodeNumbers DEF Node
  <2>2. ps \in Seq(Node) /\ Len(ps) = n - m
    BY <2>1
  <2>3. \A i \in 1..n - m : ps[i] = m + i
    OBVIOUS
  <2>4. DOMAIN ps = 1..n - m
    OBVIOUS
  <2> HIDE DEF ps
  <2>5. IsInjective(ps)
    BY <2>1, <2>3, <2>4, <1>1 DEF IsInjective
  <2>6. ASSUME NEW p \in m + 1..n
        PROVE  p \in Entries(ps)
    <3>1. p - m \in 1..n - m /\ ps[p - m] = p
      BY <1>1, <2>3
    <3> QED
      BY <3>1, <2>2 DEF Entries
  <2>7. ASSUME NEW p \in Entries(ps)
        PROVE  p \in m + 1..n
    <3>1. PICK i \in 1..n - m : p = ps[i]
      BY <2>2 DEF Entries
    <3> HIDE DEF m
    <3> QED
      BY <3>1, <1>1, <2>3
  <2> QED
    BY <2>2, <2>5, <2>6, <2>7
<1>5. e = FoldLeft(putEntry, b, ps)
  BY <1>2
<1> HIDE DEF ps, b, m
<1>6. r \in Seq(Node) /\ IsInjective(r) /\ Len(r) \in Nat /\ f \in Seq(Node) /\ Len(f) \in Nat
  BY <1>0, SeqFacts DEF RingOf, FreeOf
<1>7. Len(f) = 0 /\ Entries(f) = {}
  <2>1. FreeAt(f, 1) = NULL
    BY <1>0 DEF FreeOf
  <2>2. 1 \notin 1..Len(f)
    BY <2>1, <1>6, FreeAtFacts
  <2> QED
    BY <2>2, <1>6 DEF Entries
<1>8. Entries(r) = 1..m /\ Len(r) = m
  BY <1>0, <1>6, <1>7 DEF Parted, m
<1>9. FreeOf(b, f)
  BY <1>0, <1>3 DEF FreeOf
<1>10. PICK g : Freed(b, f, e, g, Entries(ps), n - m)
  BY <1>3, <1>4, <1>5, <1>7, <1>9, PutsFree
<1>11. \A i \in Int : At(r, i) \in LLNode \ Entries(ps)
  <2>1. \A p \in Entries(ps) : p \in Node /\ p \notin Entries(r)
    BY <1>1, <1>4, <1>8, NodeNumbers DEF Node
  <2> QED
    BY <2>1, <1>6, AtFacts
<1>12. RingOf(e, r)
  BY <1>0, <1>3, <1>6, <1>10, <1>11 DEF RingOf, Freed
<1>13. Parted(e, r, g)
  BY <1>1, <1>3, <1>4, <1>6, <1>7, <1>8, <1>10 DEF Parted, Freed
<1>14. \A q \in Entries(r) : q \in Node \ Entries(ps)
  BY <1>1, <1>4, <1>8, NodeNumbers DEF Node
<1> QED
  BY <1>3, <1>10, <1>12, <1>13, <1>14 DEF Refilled, Shaped, Freed

LEMMA AtInserted ==
    ASSUME NEW r \in Seq(Node), NEW k \in 0..Len(r), NEW p \in Node
    PROVE  \A i \in Int : At(InsertAt(r, k + 1, p), i)
              = IF i <= k THEN At(r, i) ELSE IF i = k + 1 THEN p ELSE At(r, i - 1)
<1> DEFINE g == InsertAt(r, k + 1, p)
<1>1. Len(r) \in Nat /\ k + 1 \in 1..Len(r) + 1
  BY SeqFacts
<1>2. /\ Len(g) = Len(r) + 1
      /\ \A j \in 1..Len(r) + 1 : g[j] = IF j < k + 1 THEN r[j] ELSE IF j = k + 1 THEN p ELSE r[j - 1]
  <2>1. Widened(g, r, k + 1, p)
    BY <1>1, InsertAtProperties, Zenon
  <2> HIDE DEF g
  <2> QED
    BY <2>1 DEF Widened
<1> HIDE DEF g
<1>3. ASSUME NEW i \in Int
      PROVE  At(g, i) = IF i <= k THEN At(r, i) ELSE IF i = k + 1 THEN p ELSE At(r, i - 1)
  <2>1. CASE i \notin 1..Len(r) + 1
    <3>1. i \notin 1..Len(r) /\ i - 1 \notin 1..Len(r) /\ i # k + 1
      BY <2>1, <1>1
    <3> QED
      BY <3>1, <2>1, <1>2 DEF At
  <2>2. CASE i \in 1..Len(r) + 1
    <3>1. At(g, i) = IF i < k + 1 THEN r[i] ELSE IF i = k + 1 THEN p ELSE r[i - 1]
      BY <2>2, <1>2 DEF At
    <3>2. i <= k <=> i < k + 1
      BY <1>1
    <3>3. i <= k => i \in 1..Len(r)
      BY <1>1, <2>2
    <3>4. i > k + 1 => i - 1 \in 1..Len(r)
      BY <1>1, <2>2
    <3> QED
      BY <3>1, <3>2, <3>3, <3>4, <1>1 DEF At
  <2> QED
    BY <2>1, <2>2
<1> QED
  BY <1>3 DEF g

LEMMA AtRemoved ==
    ASSUME NEW r \in Seq(Node), NEW k \in 1..Len(r)
    PROVE  \A i \in Nat : At(RemoveAt(r, k), i) = IF i < k THEN At(r, i) ELSE At(r, i + 1)
<1> DEFINE g == RemoveAt(r, k)
<1>1. Len(r) \in Nat
  BY SeqFacts
<1>2. /\ Len(g) = Len(r) - 1
      /\ \A j \in 1..Len(r) - 1 : g[j] = IF j < k THEN r[j] ELSE r[j + 1]
  BY RemoveAtProperties
<1> HIDE DEF g
<1>3. ASSUME NEW i \in Nat
      PROVE  At(g, i) = IF i < k THEN At(r, i) ELSE At(r, i + 1)
  <2>1. CASE i \notin 1..Len(r) - 1
    <3>1. i < k => i \notin 1..Len(r)
      BY <2>1, <1>1
    <3>2. ~(i < k) => i + 1 \notin 1..Len(r)
      BY <2>1, <1>1
    <3> QED
      BY <3>1, <3>2, <2>1, <1>2 DEF At
  <2>2. CASE i \in 1..Len(r) - 1
    <3>1. At(g, i) = IF i < k THEN r[i] ELSE r[i + 1]
      BY <2>2, <1>2 DEF At
    <3>2. i \in 1..Len(r) /\ i + 1 \in 1..Len(r)
      BY <1>1, <2>2
    <3> QED
      BY <3>1, <3>2 DEF At
  <2> QED
    BY <2>1, <2>2
<1> QED
  BY <1>3 DEF g

\* A node p between two neighbours of a ring.
LEMMA RingInserts ==
    ASSUME NEW d \in LLists, NEW r, RingOf(d, r), NEW k \in 0..Len(r),
           NEW p \in Node, p \notin Entries(r), NEW e, e.size = d.size + 1,
           \A q \in LLNode : e.next[q] = IF q = At(r, k) THEN p
                                       ELSE IF q = p THEN At(r, k + 1) ELSE d.next[q],
           \A q \in LLNode : e.prev[q] = IF q = At(r, k + 1) THEN p
                                       ELSE IF q = p THEN At(r, k) ELSE d.prev[q]
    PROVE  RingOf(e, InsertAt(r, k + 1, p))
<1> DEFINE g == InsertAt(r, k + 1, p)
<1>0. r \in Seq(Node) /\ IsInjective(r) /\ Len(r) \in Nat /\ d.size = Len(r)
  BY SeqFacts DEF RingOf
<1>1. k + 1 \in 1..Len(r) + 1 /\ k \in 0..Len(r) /\ k \in Int
  BY <1>0
<1>2. g \in Seq(Node) /\ IsInjective(g) /\ Len(g) = Len(r) + 1
  BY <1>0, <1>1, NodeInserted
<1>3. \A i \in Int : At(g, i)
         = IF i <= k THEN At(r, i) ELSE IF i = k + 1 THEN p ELSE At(r, i - 1)
  BY <1>0, AtInserted
<1> HIDE DEF g
<1>4. /\ \A i \in Int : At(r, i) \in LLNode /\ At(r, i) # p
      /\ \A i, j \in 0..Len(r) : At(r, i) = At(r, j) => i = j
      /\ \A i, j \in 1..Len(r) + 1 : At(r, i) = At(r, j) => i = j
      /\ p \in LLNode
  BY <1>0, AtFacts, NodeNumbers
<1>5. ASSUME NEW i \in 0..Len(r) + 1
      PROVE  e.next[At(g, i)] = At(g, i + 1) /\ e.prev[At(g, i + 1)] = At(g, i)
  <2>0. i \in Int /\ i + 1 \in Int /\ (i + 1) - 1 = i /\ i - 1 \in Int
    OBVIOUS
  <2>1. CASE i < k
    <3>1. At(g, i) = At(r, i) /\ At(g, i + 1) = At(r, i + 1)
      BY <2>0, <2>1, <1>1, <1>3
    <3>2. i \in 0..Len(r) /\ i # k /\ i + 1 \in 1..Len(r) + 1 /\ i + 1 # k + 1
      BY <2>1, <1>0, <1>1
    <3>3. At(r, i) # At(r, k) /\ At(r, i + 1) # At(r, k + 1)
      BY <3>2, <1>1, <1>4
    <3> QED
      BY <3>1, <3>2, <3>3, <2>0, <1>4 DEF RingOf
  <2>2. CASE i = k
    <3>1. At(g, i) = At(r, k) /\ At(g, i + 1) = p
      BY <2>0, <2>2, <1>1, <1>3
    <3>2. At(r, k + 1) # p
      BY <1>1, <1>4
    <3> QED
      BY <3>1, <3>2, <1>1, <1>4
  <2>3. CASE i = k + 1
    <3>1. At(g, i) = p /\ At(g, i + 1) = At(r, k + 1)
      BY <2>0, <2>3, <1>1, <1>3
    <3>2. At(r, k) # p
      BY <1>1, <1>4
    <3> QED
      BY <3>1, <3>2, <1>1, <1>4
  <2>4. CASE i > k + 1
    <3>1. At(g, i) = At(r, i - 1) /\ At(g, i + 1) = At(r, i)
      BY <2>0, <2>4, <1>1, <1>3
    <3>2. /\ i - 1 \in 0..Len(r) /\ i - 1 # k /\ i \in 1..Len(r) + 1 /\ i # k + 1
          /\ (i - 1) + 1 = i
      BY <2>4, <1>0, <1>1
    <3>3. At(r, i - 1) # At(r, k) /\ At(r, i) # At(r, k + 1)
      BY <3>2, <1>1, <1>4
    <3>4. d.next[At(r, i - 1)] = At(r, i) /\ d.prev[At(r, i)] = At(r, i - 1)
      BY <3>2 DEF RingOf
    <3> QED
      BY <3>1, <3>3, <3>4, <2>0, <1>4
  <2> QED
    BY <2>0, <2>1, <2>2, <2>3, <2>4, <1>1
<1>6. RingOf(e, g)
  BY <1>0, <1>2, <1>5 DEF RingOf
<1> QED
  BY <1>6 DEF g

\* The k-th node of a ring bridged by its neighbours.
LEMMA RingRemoves ==
    ASSUME NEW d \in LLists, NEW r, RingOf(d, r), NEW k \in 1..Len(r),
           NEW e, e.size = d.size - 1,
           \A q \in LLNode : q # r[k] => e.next[q] = IF q = At(r, k - 1) THEN At(r, k + 1)
                                                   ELSE d.next[q],
           \A q \in LLNode : q # r[k] => e.prev[q] = IF q = At(r, k + 1) THEN At(r, k - 1)
                                                   ELSE d.prev[q]
    PROVE  RingOf(e, RemoveAt(r, k))
<1> DEFINE g == RemoveAt(r, k)
<1>0. r \in Seq(Node) /\ IsInjective(r) /\ Len(r) \in Nat /\ d.size = Len(r)
  BY SeqFacts DEF RingOf
<1>1. k \in Nat /\ k - 1 \in 0..Len(r) /\ k + 1 \in 1..Len(r) + 1 /\ k - 1 \in Nat
  BY <1>0
<1>2. g \in Seq(Node) /\ IsInjective(g) /\ Len(g) = Len(r) - 1
  BY <1>0, NodeRemoved
<1>3. \A i \in Nat : At(g, i) = IF i < k THEN At(r, i) ELSE At(r, i + 1)
  BY <1>0, AtRemoved
<1> HIDE DEF g
<1>4. /\ \A i \in Int : At(r, i) \in LLNode
      /\ \A i, j \in 0..Len(r) : At(r, i) = At(r, j) => i = j
      /\ \A i, j \in 1..Len(r) + 1 : At(r, i) = At(r, j) => i = j
      /\ At(r, k) = r[k]
  BY <1>0, AtFacts
<1>5. ASSUME NEW i \in 0..Len(r) - 1
      PROVE  e.next[At(g, i)] = At(g, i + 1) /\ e.prev[At(g, i + 1)] = At(g, i)
  <2>0. i \in Nat /\ i + 1 \in Nat /\ (i + 1) - 1 = i /\ (i + 1) + 1 \in Nat
    OBVIOUS
  <2>1. CASE i < k - 1
    <3>1. At(g, i) = At(r, i) /\ At(g, i + 1) = At(r, i + 1)
      BY <2>0, <2>1, <1>1, <1>3
    <3>2. /\ i \in 0..Len(r) /\ i # k - 1 /\ i # k /\ k \in 0..Len(r)
          /\ i + 1 \in 1..Len(r) + 1 /\ i + 1 # k /\ i + 1 # k + 1 /\ k \in 1..Len(r) + 1
      BY <2>1, <1>0, <1>1
    <3>3. /\ At(r, i) # At(r, k - 1) /\ At(r, i + 1) # At(r, k + 1)
          /\ At(r, i) # At(r, k) /\ At(r, i + 1) # At(r, k)
      BY <3>2, <1>1, <1>4
    <3> QED
      BY <3>1, <3>2, <3>3, <2>0, <1>4 DEF RingOf
  <2>2. CASE i = k - 1
    <3>1. At(g, i) = At(r, k - 1) /\ At(g, i + 1) = At(r, k + 1)
      BY <2>0, <2>2, <1>1, <1>3
    <3>2. k \in 0..Len(r) /\ k \in 1..Len(r) + 1 /\ k # k - 1 /\ k # k + 1
      BY <1>0, <1>1
    <3>3. At(r, k - 1) # At(r, k) /\ At(r, k + 1) # At(r, k)
      BY <3>2, <1>1, <1>4
    <3> QED
      BY <3>1, <3>3, <1>1, <1>4
  <2>3. CASE i >= k
    <3>1. At(g, i) = At(r, i + 1) /\ At(g, i + 1) = At(r, (i + 1) + 1)
      BY <2>0, <2>3, <1>1, <1>3
    <3>2. /\ i + 1 \in 0..Len(r) /\ i + 1 # k - 1 /\ i + 1 # k /\ k \in 0..Len(r)
          /\ (i + 1) + 1 \in 1..Len(r) + 1 /\ (i + 1) + 1 # k + 1 /\ (i + 1) + 1 # k
          /\ k \in 1..Len(r) + 1
      BY <2>3, <1>0, <1>1
    <3>3. /\ At(r, i + 1) # At(r, k - 1) /\ At(r, i + 1) # At(r, k)
          /\ At(r, (i + 1) + 1) # At(r, k + 1) /\ At(r, (i + 1) + 1) # At(r, k)
      BY <3>2, <1>1, <1>4
    <3>4. d.next[At(r, i + 1)] = At(r, (i + 1) + 1) /\ d.prev[At(r, (i + 1) + 1)] = At(r, i + 1)
      BY <3>2 DEF RingOf
    <3> QED
      BY <3>1, <3>3, <3>4, <2>0, <1>4
  <2> QED
    BY <2>0, <2>1, <2>2, <2>3, <1>1
<1>6. RingOf(e, g)
  BY <1>0, <1>2, <1>5 DEF RingOf
<1> QED
  BY <1>6 DEF g

LEMMA PutInParts ==
    ASSUME NEW d \in LLists, NEW p \in Node, d.freel = p, NEW before \in LLNode,
           NEW after \in LLNode, d.next[before] = after, before # p, after # p, NEW x \in Element
    PROVE  /\ PutIn(d, x, before) \in LLists
           /\ PutIn(d, x, before).size = d.size + 1
           /\ PutIn(d, x, before).malloced = d.malloced
           /\ PutIn(d, x, before).freel = d.next[p]
           /\ \A q \in LLNode : PutIn(d, x, before).next[q]
                = IF q = before THEN p ELSE IF q = p THEN after ELSE d.next[q]
           /\ \A q \in LLNode : PutIn(d, x, before).prev[q]
                = IF q = after THEN p ELSE IF q = p THEN before ELSE d.prev[q]
           /\ \A q \in Node : PutIn(d, x, before).element[q] = IF q = p THEN x ELSE d.element[q]
<1> DEFINE t == TakeFree(d)
           filled == [t EXCEPT !.element[p] = x, !.size = @ + 1]
           e == PutIn(d, x, before)
<1>0. p \in LLNode /\ d.next[p] \in LLNode \cup {NULL}
  BY NodeNumbers DEF LLists
<1>1. /\ t \in LLists /\ t.size = d.size /\ t.freel = d.next[p] /\ t.malloced = d.malloced
      /\ t.next = d.next /\ t.prev = d.prev /\ t.element = d.element
  BY <1>0 DEF TakeFree, LLists
<1> HIDE DEF t
<1>2. /\ filled \in LLists /\ filled.size = t.size + 1 /\ filled.freel = t.freel
      /\ filled.malloced = t.malloced /\ filled.next = t.next /\ filled.prev = t.prev
      /\ \A q \in Node : filled.element[q] = IF q = p THEN x ELSE t.element[q]
  <2> DEFINE put == [t EXCEPT !.element[p] = x]
  <2>1. /\ put \in LLists /\ put.size = t.size /\ put.freel = t.freel
        /\ put.malloced = t.malloced /\ put.next = t.next /\ put.prev = t.prev
        /\ \A q \in Node : put.element[q] = IF q = p THEN x ELSE t.element[q]
    BY <1>1 DEF LLists
  <2>2. filled = [put EXCEPT !.size = @ + 1]
    BY <1>1 DEF LLists
  <2> HIDE DEF put, filled
  <2> QED
    BY <2>1, <2>2 DEF LLists
<1>4. e = link(filled, before, p, after)
  BY DEF PutIn, t
<1> HIDE DEF filled, e
<1>5. /\ e \in LLists /\ e.size = filled.size /\ e.freel = filled.freel
      /\ e.malloced = filled.malloced /\ e.element = filled.element
      /\ \A q \in LLNode : e.next[q] = IF q = before THEN p
                                       ELSE IF q = p THEN after ELSE filled.next[q]
      /\ \A q \in LLNode : e.prev[q] = IF q = after THEN p
                                       ELSE IF q = p THEN before ELSE filled.prev[q]
  BY <1>0, <1>2, <1>4 DEF link, LLists
<1> QED
  BY <1>1, <1>2, <1>5 DEF e

\* The first node of the free list goes, with x, behind the k-th of the ring.
LEMMA PutInShapes ==
    ASSUME NEW d, NEW r, NEW f, Shaped(d, r, f), d.freel # NULL,
           NEW k \in 0..Len(r), NEW x \in Element
    PROVE  /\ f[1] \in Node /\ f[1] \notin Entries(r)
           /\ Shaped(PutIn(d, x, At(r, k)), InsertAt(r, k + 1, f[1]), RemoveAt(f, 1))
           /\ \A q \in Node : PutIn(d, x, At(r, k)).element[q]
                               = IF q = f[1] THEN x ELSE d.element[q]
<1> DEFINE p == f[1]
           e == PutIn(d, x, At(r, k))
<1>0. d \in LLists /\ RingOf(d, r) /\ FreeOf(d, f) /\ Parted(d, r, f)
  BY DEF Shaped
<1>1. /\ r \in Seq(Node) /\ IsInjective(r) /\ Len(r) \in Nat
      /\ f \in Seq(Node) /\ IsInjective(f) /\ Len(f) \in Nat
      /\ k \in Int /\ k + 1 \in 1..Len(r) + 1
  BY <1>0, SeqFacts DEF RingOf, FreeOf
<1>2. 1 \in 1..Len(f) /\ d.freel = p /\ d.next[p] = FreeAt(f, 2)
  BY <1>0, <1>1 DEF FreeOf, FreeAt
<1>3. p \in Node /\ p \in Entries(f) /\ p \notin Entries(r) /\ p \in LLNode
  BY <1>0, <1>1, <1>2, SeqFacts, NodeNumbers DEF Parted, Entries
<1>4. /\ d.next[At(r, k)] = At(r, k + 1)
      /\ At(r, k) \in LLNode /\ At(r, k + 1) \in LLNode
      /\ At(r, k) # p /\ At(r, k + 1) # p
  BY <1>0, <1>1, <1>3, AtFacts DEF RingOf
<1> HIDE DEF p
<1>5. /\ e \in LLists /\ e.size = d.size + 1 /\ e.malloced = d.malloced
      /\ e.freel = FreeAt(f, 2)
      /\ \A q \in LLNode : e.next[q] = IF q = At(r, k) THEN p
                                       ELSE IF q = p THEN At(r, k + 1) ELSE d.next[q]
      /\ \A q \in LLNode : e.prev[q] = IF q = At(r, k + 1) THEN p
                                       ELSE IF q = p THEN At(r, k) ELSE d.prev[q]
      /\ \A q \in Node : e.element[q] = IF q = p THEN x ELSE d.element[q]
  BY <1>0, <1>2, <1>3, <1>4, PutInParts
<1> HIDE DEF e
<1>6. RingOf(e, InsertAt(r, k + 1, p))
  BY <1>0, <1>3, <1>5, RingInserts
<1> DEFINE g == RemoveAt(f, 1)
<1>7. /\ g \in Seq(Node) /\ IsInjective(g) /\ Len(g) = Len(f) - 1
      /\ \A j \in 1..Len(f) - 1 : g[j] = f[j + 1]
      /\ Entries(g) = Entries(f) \ {p}
  <2>1. /\ g \in Seq(Node) /\ Len(g) = Len(f) - 1
        /\ \A j \in 1..Len(f) - 1 : g[j] = IF j < 1 THEN f[j] ELSE f[j + 1]
    BY <1>1, <1>2, RemoveAtProperties
  <2>2. /\ Entries(g) \subseteq Entries(f) /\ Entries(f) \ {f[1]} \subseteq Entries(g)
        /\ IsInjective(g) /\ f[1] \notin Entries(g)
    BY <1>1, <1>2, RemoveAtEntries
  <2> HIDE DEF g
  <2> QED
    BY <2>1, <2>2, <1>1 DEF p
<1> HIDE DEF g
<1>8. FreeOf(e, g)
  <2>1. \A i \in 1..Len(f) : FreeAt(g, i) = FreeAt(f, i + 1)
    <3> SUFFICES ASSUME NEW i \in 1..Len(f)
                 PROVE  FreeAt(g, i) = FreeAt(f, i + 1)
      OBVIOUS
    <3>1. i \in 1..Len(f) - 1 <=> i + 1 \in 1..Len(f)
      BY <1>1
    <3> QED
      BY <3>1, <1>7 DEF FreeAt
  <2>2. e.freel = FreeAt(g, 1)
    BY <2>1, <1>2, <1>5
  <2>3. ASSUME NEW i \in 1..Len(g)
        PROVE  e.next[g[i]] = FreeAt(g, i + 1)
    <3>1. i \in 1..Len(f) - 1 /\ i + 1 \in 1..Len(f)
      BY <1>1, <1>7
    <3>2. g[i] = f[i + 1] /\ d.next[f[i + 1]] = FreeAt(f, (i + 1) + 1)
      BY <3>1, <1>0, <1>7 DEF FreeOf
    <3>3. g[i] \in Node /\ g[i] \in Entries(f) /\ g[i] # p
      BY <1>1, <1>7, SeqFacts DEF Entries
    <3>4. g[i] # At(r, k) /\ g[i] \in LLNode
      <4>1. g[i] \notin Entries(r)
        BY <3>3, <1>0 DEF Parted
      <4>2. \A j \in Int : At(r, j) # g[i]
        BY <4>1, <3>3, <1>1, AtFacts
      <4> QED
        BY <4>2, <3>3, <1>1, NodeNumbers
    <3> QED
      BY <3>1, <3>2, <3>3, <3>4, <2>1, <1>5
  <2> QED
    BY <2>2, <2>3, <1>7 DEF FreeOf
<1>9. Parted(e, InsertAt(r, k + 1, p), g)
  <2>1. Entries(InsertAt(r, k + 1, p)) = Entries(r) \cup {p}
    BY <1>1, <1>3, InsertAtEntries
  <2>2. Len(InsertAt(r, k + 1, p)) = Len(r) + 1
    BY <1>1, <1>3, InsertAtProperties DEF Widened
  <2>3. Entries(r) \cap Entries(f) = {} /\ Entries(r) \cup Entries(f) = 1..e.malloced
    BY <1>0, <1>5 DEF Parted
  <2>4. (Entries(r) \cup {p}) \cap (Entries(f) \ {p}) = {}
    BY <2>3
  <2>5. (Entries(r) \cup {p}) \cup (Entries(f) \ {p}) = 1..e.malloced
    BY <2>3, <1>3
  <2>6. (Len(r) + 1) + (Len(f) - 1) = e.malloced
    BY <1>0, <1>1, <1>5 DEF Parted
  <2> QED
    BY <2>1, <2>2, <2>4, <2>5, <2>6, <1>7 DEF Parted
<1>10. /\ p \in Node /\ p \notin Entries(r) /\ Shaped(e, InsertAt(r, k + 1, p), g)
       /\ \A q \in Node : e.element[q] = IF q = p THEN x ELSE d.element[q]
  BY <1>3, <1>5, <1>6, <1>8, <1>9 DEF Shaped
<1> QED
  BY <1>10 DEF p, e, g

LEMMA UnlinkParts ==
    ASSUME NEW d \in LLists, NEW p \in Node, NEW before \in LLNode, NEW after \in LLNode,
           d.prev[p] = before, d.next[p] = after
    PROVE  /\ unlink(d, p) \in LLists
           /\ unlink(d, p).size = d.size /\ unlink(d, p).malloced = d.malloced
           /\ unlink(d, p).freel = d.freel /\ unlink(d, p).element = d.element
           /\ \A q \in LLNode : unlink(d, p).next[q] = IF q = before THEN after ELSE d.next[q]
           /\ \A q \in LLNode : unlink(d, p).prev[q] = IF q = after THEN before ELSE d.prev[q]
<1> DEFINE u == unlink(d, p)
           half == [d EXCEPT !.next[before] = after]
<1>1. /\ half \in LLists /\ half.size = d.size /\ half.malloced = d.malloced
      /\ half.freel = d.freel /\ half.element = d.element /\ half.prev = d.prev
      /\ \A q \in LLNode : half.next[q] = IF q = before THEN after ELSE d.next[q]
  BY DEF LLists
<1>2. u = [half EXCEPT !.prev[after] = before]
  BY DEF unlink, LLists
<1> HIDE DEF half, u
<1>3. /\ u \in LLists /\ u.size = half.size /\ u.malloced = half.malloced
      /\ u.freel = half.freel /\ u.element = half.element /\ u.next = half.next
      /\ \A q \in LLNode : u.prev[q] = IF q = after THEN before ELSE half.prev[q]
  BY <1>1, <1>2 DEF LLists
<1> QED
  BY <1>1, <1>3 DEF u

\* The k-th node of the ring goes to the front of the free list.
LEMMA TakeOutShapes ==
    ASSUME NEW d, NEW r, NEW f, Shaped(d, r, f), NEW k \in 1..Len(r)
    PROVE  /\ Shaped(TakeOut(d, r[k]), RemoveAt(r, k), InsertAt(f, 1, r[k]))
           /\ \A q \in Node : q # r[k] => TakeOut(d, r[k]).element[q] = d.element[q]
<1> DEFINE p == r[k]
           u == unlink(d, p)
           v == putEntry(u, p)
           e == TakeOut(d, p)
<1>0. d \in LLists /\ RingOf(d, r) /\ FreeOf(d, f) /\ Parted(d, r, f)
  BY DEF Shaped
<1>1. /\ r \in Seq(Node) /\ IsInjective(r) /\ Len(r) \in Nat
      /\ f \in Seq(Node) /\ IsInjective(f) /\ Len(f) \in Nat
      /\ k - 1 \in 0..Len(r) /\ k \in 0..Len(r) /\ (k - 1) + 1 = k
      /\ 1 \in 1..Len(f) + 1 /\ k - 1 \in Int /\ k + 1 \in Int
  BY <1>0, SeqFacts DEF RingOf, FreeOf
<1>2. p \in Node /\ p \in Entries(r) /\ p \notin Entries(f) /\ p = At(r, k)
  BY <1>0, <1>1, AtFacts DEF Parted
<1>3. /\ d.prev[p] = At(r, k - 1) /\ d.next[p] = At(r, k + 1)
      /\ At(r, k - 1) \in LLNode /\ At(r, k + 1) \in LLNode
  BY <1>0, <1>1, <1>2, AtFacts DEF RingOf
<1> HIDE DEF p
<1>4. /\ u \in LLists /\ u.size = d.size /\ u.malloced = d.malloced
      /\ u.freel = d.freel /\ u.element = d.element
      /\ \A q \in LLNode : u.next[q] = IF q = At(r, k - 1) THEN At(r, k + 1) ELSE d.next[q]
      /\ \A q \in LLNode : u.prev[q] = IF q = At(r, k + 1) THEN At(r, k - 1) ELSE d.prev[q]
  BY <1>0, <1>2, <1>3, UnlinkParts
<1> HIDE DEF u
<1>5. FreeOf(u, f)
  <2>1. ASSUME NEW i \in 1..Len(f)
        PROVE  u.next[f[i]] = d.next[f[i]]
    <3>1. f[i] \in Node /\ f[i] \notin Entries(r)
      BY <1>0, <1>1, SeqFacts DEF Parted, Entries
    <3>2. \A j \in Int : At(r, j) # f[i]
      BY <3>1, <1>1, AtFacts
    <3> QED
      BY <3>1, <3>2, <1>1, <1>4, NodeNumbers
  <2> QED
    BY <2>1, <1>0, <1>4 DEF FreeOf
<1>6. /\ v \in LLists /\ v.size = u.size /\ v.malloced = u.malloced /\ v.prev = u.prev
      /\ \A q \in LLNode : q # p => v.next[q] = u.next[q]
      /\ \A q \in Node : q # p => v.element[q] = u.element[q]
  BY <1>2, <1>4, PutParts
<1>7. FreeOf(v, InsertAt(f, 1, p))
  BY <1>2, <1>4, <1>5, PutFrees
<1>8. e = [v EXCEPT !.size = @ - 1]
  BY DEF TakeOut, v, u
<1> HIDE DEF v, e
<1>9. /\ e \in LLists /\ e.size = v.size - 1 /\ e.malloced = v.malloced /\ e.freel = v.freel
      /\ e.prev = v.prev /\ e.next = v.next /\ e.element = v.element
  BY <1>6, <1>8 DEF LLists
<1>10. RingOf(e, RemoveAt(r, k))
  <2>1. /\ e.size = d.size - 1
        /\ \A q \in LLNode : q # r[k] => e.next[q] = IF q = At(r, k - 1) THEN At(r, k + 1)
                                                    ELSE d.next[q]
        /\ \A q \in LLNode : q # r[k] => e.prev[q] = IF q = At(r, k + 1) THEN At(r, k - 1)
                                                    ELSE d.prev[q]
    BY <1>4, <1>6, <1>9 DEF p
  <2> QED
    BY <2>1, <1>0, RingRemoves
<1>11. FreeOf(e, InsertAt(f, 1, p))
  BY <1>7, <1>9 DEF FreeOf
<1>12. Parted(e, RemoveAt(r, k), InsertAt(f, 1, p))
  <2>1. Entries(RemoveAt(r, k)) = Entries(r) \ {p} /\ Len(RemoveAt(r, k)) = Len(r) - 1
    BY <1>1, NodeRemoved DEF p
  <2>2. Entries(InsertAt(f, 1, p)) = Entries(f) \cup {p} /\ Len(InsertAt(f, 1, p)) = Len(f) + 1
    BY <1>1, <1>2, NodeInserted
  <2>3. Entries(r) \cap Entries(f) = {} /\ Entries(r) \cup Entries(f) = 1..e.malloced
    BY <1>0, <1>4, <1>6, <1>9 DEF Parted
  <2>4. (Entries(r) \ {p}) \cap (Entries(f) \cup {p}) = {}
    BY <2>3
  <2>5. (Entries(r) \ {p}) \cup (Entries(f) \cup {p}) = 1..e.malloced
    BY <2>3, <1>2
  <2>6. (Len(r) - 1) + (Len(f) + 1) = e.malloced
    BY <1>0, <1>1, <1>4, <1>6, <1>9 DEF Parted
  <2> QED
    BY <2>1, <2>2, <2>4, <2>5, <2>6 DEF Parted
<1>13. /\ Shaped(e, RemoveAt(r, k), InsertAt(f, 1, p))
       /\ \A q \in Node : q # p => e.element[q] = d.element[q]
  BY <1>4, <1>6, <1>9, <1>10, <1>11, <1>12 DEF Shaped
<1> QED
  BY <1>13 DEF e, p
-------------------------------------------------------------------------------
\* Walks along the pointers.

\* A walk starts at p and takes one pointer after the other.
LEMMA WalkSteps ==
    ASSUME NEW V, NEW pointer, \A q \in V : pointer[q] \in V, NEW p \in V
    PROVE  /\ \A n \in Nat : Walk(pointer, p, n) \in V
           /\ Walk(pointer, p, 0) = p
           /\ \A n \in Nat : Walk(pointer, p, n + 1) = pointer[Walk(pointer, p, n)]
<1> DEFINE Is(g) == g = [i \in Nat |-> IF i = 0 THEN p ELSE pointer[g[i - 1]]]
           step == CHOOSE g : Is(g)
<1>1. \E g : Is(g)
  <2> DEFINE F == [q \in V |-> pointer[q]]
  <2>1. \E g : Iterates(g, V, p, F)
    <3>1. F \in Maps(V)
      BY DEF Maps
    <3> HIDE DEF F
    <3> QED
      BY <3>1, NatRecursion
  <2>2. PICK g : /\ g \in [Nat -> V] /\ g[0] = p
                 /\ \A n \in Nat : g[n + 1] = pointer[g[n]]
    BY <2>1 DEF Iterates
  <2>3. \A i \in Nat : g[i] = IF i = 0 THEN p ELSE pointer[g[i - 1]]
    <3> SUFFICES ASSUME NEW i \in Nat, i # 0
                 PROVE  g[i] = pointer[g[i - 1]]
      BY <2>2
    <3>1. i - 1 \in Nat /\ (i - 1) + 1 = i
      OBVIOUS
    <3> QED
      BY <3>1, <2>2
  <2> QED
    BY <2>2, <2>3
<1>2. Is(step)
  <2> HIDE DEF Is
  <2> QED
    BY <1>1
<1>3. \A n : Walk(pointer, p, n) = step[n]
  BY DEF Walk
<1> HIDE DEF step
<1>4. \A i \in Nat : step[i] = IF i = 0 THEN p ELSE pointer[step[i - 1]]
  BY <1>2
<1>5. step[0] = p /\ \A n \in Nat : step[n + 1] = pointer[step[n]]
  <2>1. \A n \in Nat : n + 1 \in Nat /\ n + 1 # 0 /\ (n + 1) - 1 = n
    OBVIOUS
  <2> QED
    BY <2>1, <1>4
<1>6. Nat \subseteq {n \in Nat : step[n] \in V}
  <2> DEFINE S == {n \in Nat : step[n] \in V}
  <2>1. 0 \in S /\ \A n \in Nat : n \in S => n + 1 \in S
    BY <1>5
  <2> HIDE DEF S
  <2>2. Nat \subseteq S
    BY <2>1, NatSetInduction
  <2> QED
    BY <2>2 DEF S
<1> QED
  BY <1>3, <1>5, <1>6

LEMMA RingWalk ==
    ASSUME NEW d, NEW r, NEW f, Shaped(d, r, f)
    PROVE  \A i \in 0..Len(r) : NodeAt(d, i) = At(r, i + 1)
<1> DEFINE N == Len(r)
           V == {At(r, i) : i \in 0..N}
           start == d.next[SENTINEL]
           at(i) == Walk(d.next, start, i)
<1>0. r \in Seq(Node) /\ IsInjective(r) /\ N \in Nat /\ RingOf(d, r)
  BY SeqFacts DEF Shaped, RingOf
<1>1. At(r, 0) = SENTINEL /\ At(r, N + 1) = SENTINEL
  BY <1>0, AtFacts
<1>2. \A i \in 0..N : d.next[At(r, i)] = At(r, i + 1) /\ At(r, i + 1) \in V
  <2> SUFFICES ASSUME NEW i \in 0..N
               PROVE  d.next[At(r, i)] = At(r, i + 1) /\ At(r, i + 1) \in V
    OBVIOUS
  <2>1. i + 1 \in 0..N \/ i + 1 = N + 1
    BY <1>0
  <2>2. At(r, N + 1) = At(r, 0) /\ 0 \in 0..N
    BY <1>0, <1>1
  <2> QED
    BY <2>1, <2>2, <1>0 DEF RingOf
<1>3. \A q \in V : d.next[q] \in V
  BY <1>2
<1>4. start = At(r, 1) /\ start \in V
  <2>1. 0 \in 0..N /\ 0 + 1 = 1
    BY <1>0
  <2> QED
    BY <2>1, <1>1, <1>2
<1> HIDE DEF V, start
<1>5. at(0) = start /\ \A n \in Nat : at(n + 1) = d.next[at(n)]
  BY <1>3, <1>4, WalkSteps
<1> DEFINE T == {i \in 0..N : at(i) = At(r, i + 1)}
<1> HIDE DEF at
<1>6. 0 \in T
  BY <1>0, <1>4, <1>5
<1>7. ASSUME NEW i \in 0..N, i < N, i \in T
      PROVE  i + 1 \in T
  <2>1. i + 1 \in 0..N /\ i \in Nat
    BY <1>0, <1>7
  <2> QED
    BY <2>1, <1>2, <1>5, <1>7
<1>8. 0..N \subseteq T
  <2> HIDE DEF T, N
  <2> QED
    BY <1>0, <1>6, <1>7, UpToInduction
<1> QED
  BY <1>8 DEF NodeAt, at, start

\* The ring and the elements that the pointers spell out.
LEMMA RingIsNodes ==
    ASSUME NEW d, NEW r, NEW f, Shaped(d, r, f)
    PROVE  /\ Ring(d) = r
           /\ NodeAt(d, d.size) = SENTINEL
           /\ Elements(d) = [i \in 1..Len(r) |-> d.element[r[i]]]
           /\ d.size = Len(r)
<1>0. r \in Seq(Node) /\ IsInjective(r) /\ Len(r) \in Nat /\ d.size = Len(r)
  BY SeqFacts DEF Shaped, RingOf
<1>1. \A i \in 1..Len(r) : NodeAt(d, i - 1) = r[i]
  <2> SUFFICES ASSUME NEW i \in 1..Len(r)
               PROVE  NodeAt(d, i - 1) = r[i]
    OBVIOUS
  <2>1. i - 1 \in 0..Len(r) /\ (i - 1) + 1 = i
    BY <1>0
  <2> QED
    BY <2>1, RingWalk DEF At
<1>2. r = [i \in 1..Len(r) |-> r[i]]
  BY <1>0, LenProperties
<1>3. NodeAt(d, Len(r)) = At(r, Len(r) + 1) /\ At(r, Len(r) + 1) = SENTINEL
  BY <1>0, RingWalk, AtFacts
<1> QED
  BY <1>0, <1>1, <1>2, <1>3 DEF Ring, Elements

\* The free list that the pointers spell out.
LEMMA FreeWalk ==
    ASSUME NEW d, NEW r, NEW f, Shaped(d, r, f)
    PROVE  FreeNodes(d) = Entries(f)
<1> DEFINE M == d.malloced
           V == LLNode \cup {NULL}
           pointer == [q \in LLNode \cup {NULL} |-> IF q = NULL THEN NULL ELSE d.next[q]]
           at(n) == Walk(pointer, d.freel, n)
<1>0. /\ d \in LLists /\ FreeOf(d, f) /\ f \in Seq(Node) /\ Len(f) \in Nat
      /\ r \in Seq(Node) /\ Len(r) \in Nat
  BY SeqFacts DEF Shaped, FreeOf, RingOf
<1>1. M \in Nat /\ Len(f) <= M
  BY <1>0 DEF Shaped, Parted
<1>2. (\A q \in V : pointer[q] \in V) /\ d.freel \in V
  BY <1>0, NodeNumbers DEF LLists
<1>3. \A i \in Int : FreeAt(f, i) \in Node \cup {NULL}
  BY <1>0, FreeAtFacts
<1>4. \A i \in Nat : i > 0 => pointer[FreeAt(f, i)] = FreeAt(f, i + 1)
  <2> SUFFICES ASSUME NEW i \in Nat, i > 0
               PROVE  pointer[FreeAt(f, i)] = FreeAt(f, i + 1)
    OBVIOUS
  <2>1. CASE i \in 1..Len(f)
    <3>1. FreeAt(f, i) = f[i] /\ f[i] \in LLNode /\ f[i] # NULL
      BY <2>1, <1>0, SeqFacts, NodeNumbers DEF FreeAt
    <3> QED
      BY <2>1, <3>1, <1>0 DEF FreeOf
  <2>2. CASE i \notin 1..Len(f)
    <3>1. FreeAt(f, i) = NULL /\ i + 1 \notin 1..Len(f)
      BY <2>2, <1>0 DEF FreeAt
    <3> QED
      BY <3>1 DEF FreeAt
  <2> QED
    BY <2>1, <2>2
<1> HIDE DEF V, pointer
<1>5. at(0) = d.freel /\ \A n \in Nat : at(n + 1) = pointer[at(n)]
  BY <1>2, WalkSteps
<1> DEFINE T == {n \in Nat : at(n) = FreeAt(f, n + 1)}
<1> HIDE DEF at
<1>6. 0 \in T
  BY <1>0, <1>5 DEF FreeOf
<1>7. \A n \in Nat : n \in T => n + 1 \in T
  BY <1>4, <1>5
<1>8. Nat \subseteq T
  <2> HIDE DEF T
  <2> QED
    BY <1>6, <1>7, NatSetInduction
<1>9. FreeNodes(d) = {p \in Node : \E n \in 0..M : d.freel # NULL /\ p = at(n)}
  BY DEF FreeNodes, at, pointer
<1>10. ASSUME NEW p \in FreeNodes(d)
       PROVE  p \in Entries(f)
  <2>1. PICK n \in 0..M : p \in Node /\ p = at(n)
    BY <1>9
  <2>2. n + 1 \in Int /\ p = FreeAt(f, n + 1) /\ p # NULL
    BY <2>1, <1>1, <1>8, NodeNumbers
  <2> QED
    BY <2>2 DEF FreeAt, Entries
<1>11. ASSUME NEW p \in Entries(f)
       PROVE  p \in FreeNodes(d)
  <2>1. PICK i \in 1..Len(f) : p = f[i]
    BY DEF Entries
  <2>2. p \in Node /\ i - 1 \in 0..M /\ i - 1 \in Nat /\ (i - 1) + 1 = i
    BY <2>1, <1>0, <1>1, SeqFacts
  <2>3. p = at(i - 1)
    BY <2>1, <2>2, <1>8 DEF FreeAt
  <2>4. d.freel # NULL
    <3>1. 1 \in 1..Len(f)
      BY <1>0
    <3> QED
      BY <3>1, <1>0, SeqFacts, NodeNumbers DEF FreeOf, FreeAt
  <2> QED
    BY <2>2, <2>3, <2>4, <1>9
<1> QED
  BY <1>10, <1>11
-------------------------------------------------------------------------------
\* The elements that each operation leaves.

Values == Element \cup {NULL}

LEMMA ElementsAreSeq ==
    ASSUME NEW d, NEW r, NEW f, Shaped(d, r, f)
    PROVE  /\ Elements(d) \in Seq(Values) /\ Len(Elements(d)) = Len(r) /\ d.size = Len(r)
           /\ DOMAIN Elements(d) = 1..Len(r)
           /\ \A i \in 1..Len(r) : Elements(d)[i] = d.element[r[i]]
<1> DEFINE s == [i \in 1..Len(r) |-> d.element[r[i]]]
<1>1. d \in LLists /\ Len(r) \in Nat /\ \A i \in 1..Len(r) : r[i] \in Node
  BY SeqFacts DEF Shaped, RingOf
<1>2. \A i \in 1..Len(r) : d.element[r[i]] \in Values
  BY <1>1 DEF LLists, Values
<1>3. s \in Seq(Values) /\ Len(s) = Len(r) /\ DOMAIN s = 1..Len(r)
  BY <1>1, <1>2
<1>4. Elements(d) = s /\ d.size = Len(r)
  BY RingIsNodes
<1> QED
  BY <1>3, <1>4

\* Two lists with equal elements in equal places.
LEMMA SameElements ==
    ASSUME NEW s \in Seq(Values), NEW t \in Seq(Values), Len(s) = Len(t),
           \A i \in 1..Len(s) : s[i] = t[i]
    PROVE  s = t
BY SeqEqual

\* A sequence is known by its elements.
LEMMA InsertAtKnown ==
    ASSUME NEW s \in Seq(Values), NEW u \in Seq(Values), NEW i \in 1..Len(s) + 1,
           NEW x \in Values, Len(u) = Len(s) + 1,
           \A j \in 1..Len(s) + 1 : u[j] = IF j < i THEN s[j] ELSE IF j = i THEN x ELSE s[j - 1]
    PROVE  u = InsertAt(s, i, x)
<1> DEFINE t == InsertAt(s, i, x)
<1>1. /\ t \in Seq(Values) /\ Len(t) = Len(s) + 1
      /\ \A j \in 1..Len(s) + 1 : t[j] = IF j < i THEN s[j] ELSE IF j = i THEN x ELSE s[j - 1]
  <2>1. t \in Seq(Values) /\ Widened(t, s, i, x)
    BY InsertAtProperties, Zenon
  <2> HIDE DEF t
  <2> QED
    BY <2>1 DEF Widened
<1> HIDE DEF t
<1>2. u = t
  BY <1>1, SameElements
<1> QED
  BY <1>2 DEF t

LEMMA RemoveAtKnown ==
    ASSUME NEW s \in Seq(Values), NEW u \in Seq(Values), NEW i \in 1..Len(s),
           Len(u) = Len(s) - 1,
           \A j \in 1..Len(s) - 1 : u[j] = IF j < i THEN s[j] ELSE s[j + 1]
    PROVE  u = RemoveAt(s, i)
<1> DEFINE t == RemoveAt(s, i)
<1>1. /\ t \in Seq(Values) /\ Len(t) = Len(s) - 1
      /\ \A j \in 1..Len(s) - 1 : t[j] = IF j < i THEN s[j] ELSE s[j + 1]
  BY RemoveAtProperties
<1> HIDE DEF t
<1>2. u = t
  BY <1>1, SameElements
<1> QED
  BY <1>2 DEF t

\* What the nodes of r hold, with one node more among them, or one less.
LEMMA HeldWithOneMore ==
    ASSUME NEW r \in Seq(Node), NEW held, NEW i \in 1..Len(r) + 1, NEW p \in Node
    PROVE  \A j \in 1..Len(r) + 1 : held[InsertAt(r, i, p)[j]]
              = IF j < i THEN held[r[j]] ELSE IF j = i THEN held[p] ELSE held[r[j - 1]]
<1> DEFINE g == InsertAt(r, i, p)
<1>1. \A j \in 1..Len(r) + 1 : g[j] = IF j < i THEN r[j] ELSE IF j = i THEN p ELSE r[j - 1]
  BY InsertAtProperties DEF Widened
<1> HIDE DEF g
<1>2. \A j \in 1..Len(r) + 1 : held[g[j]]
         = IF j < i THEN held[r[j]] ELSE IF j = i THEN held[p] ELSE held[r[j - 1]]
  BY <1>1
<1> QED
  BY <1>2 DEF g

LEMMA HeldWithOneLess ==
    ASSUME NEW r \in Seq(Node), NEW held, NEW i \in 1..Len(r)
    PROVE  \A j \in 1..Len(r) - 1 :
              held[RemoveAt(r, i)[j]] = IF j < i THEN held[r[j]] ELSE held[r[j + 1]]
<1> DEFINE g == RemoveAt(r, i)
<1>1. \A j \in 1..Len(r) - 1 : g[j] = IF j < i THEN r[j] ELSE r[j + 1]
  BY RemoveAtProperties
<1> HIDE DEF g
<1>2. \A j \in 1..Len(r) - 1 : held[g[j]] = IF j < i THEN held[r[j]] ELSE held[r[j + 1]]
  BY <1>1
<1> QED
  BY <1>2 DEF g

LEMMA PutInElements ==
    ASSUME NEW d, NEW r, NEW f, Shaped(d, r, f), d.freel # NULL,
           NEW k \in 0..Len(r), NEW x \in Element
    PROVE  Elements(PutIn(d, x, At(r, k))) = InsertAt(Elements(d), k + 1, x)
<1> DEFINE p == f[1]
           e == PutIn(d, x, At(r, k))
           g == InsertAt(r, k + 1, p)
           held == e.element
           s == Elements(d)
           u == Elements(e)
<1>1. /\ p \in Node /\ p \notin Entries(r) /\ Shaped(e, g, RemoveAt(f, 1))
      /\ \A q \in Node : held[q] = IF q = p THEN x ELSE d.element[q]
  BY PutInShapes
<1>2. /\ r \in Seq(Node) /\ Len(r) \in Nat /\ k + 1 \in 1..Len(r) + 1
      /\ \A i \in 1..Len(r) : r[i] \in Node /\ r[i] # p
  BY <1>1, SeqFacts DEF Shaped, RingOf, Entries
<1> HIDE DEF p
<1>3. Len(g) = Len(r) + 1
  BY <1>1, <1>2, InsertAtProperties DEF Widened
<1>4. /\ s \in Seq(Values) /\ Len(s) = Len(r)
      /\ \A i \in 1..Len(r) : s[i] = d.element[r[i]]
  BY ElementsAreSeq
<1>5. x \in Values
  BY DEF Values
<1> HIDE DEF e
<1>6. /\ u \in Seq(Values) /\ Len(u) = Len(r) + 1
      /\ \A j \in 1..Len(r) + 1 : u[j] = held[g[j]]
  <2> HIDE DEF g
  <2> QED
    BY <1>1, <1>3, ElementsAreSeq
<1> HIDE DEF s, u, held
<1>7. held[p] = x /\ \A i \in 1..Len(r) : s[i] = held[r[i]]
  BY <1>1, <1>2, <1>4
<1>8. \A j \in 1..Len(r) + 1 : held[g[j]]
         = IF j < k + 1 THEN held[r[j]] ELSE IF j = k + 1 THEN held[p] ELSE held[r[j - 1]]
  BY <1>1, <1>2, HeldWithOneMore
<1> HIDE DEF g
<1>9. ASSUME NEW j \in 1..Len(r) + 1
      PROVE  u[j] = IF j < k + 1 THEN s[j] ELSE IF j = k + 1 THEN x ELSE s[j - 1]
  <2>1. CASE j < k + 1
    <3>1. j \in 1..Len(r)
      BY <1>2, <2>1
    <3> QED
      BY <3>1, <2>1, <1>6, <1>7, <1>8
  <2>2. CASE j = k + 1
    BY <2>2, <1>6, <1>7, <1>8
  <2>3. CASE j > k + 1
    <3>1. j - 1 \in 1..Len(r) /\ ~(j < k + 1) /\ j # k + 1
      BY <1>2, <2>3
    <3>2. held[g[j]] = held[r[j - 1]]
      BY <3>1, <1>8
    <3> QED
      BY <3>1, <3>2, <1>6, <1>7
  <2> QED
    BY <2>1, <2>2, <2>3, <1>2
<1>10. u = InsertAt(s, k + 1, x)
  BY <1>2, <1>4, <1>5, <1>6, <1>9, InsertAtKnown
<1> QED
  BY <1>10 DEF e, s, u

LEMMA TakeOutElements ==
    ASSUME NEW d, NEW r, NEW f, Shaped(d, r, f), NEW k \in 1..Len(r)
    PROVE  Elements(TakeOut(d, r[k])) = RemoveAt(Elements(d), k)
<1> DEFINE p == r[k]
           e == TakeOut(d, p)
           g == RemoveAt(r, k)
           held == e.element
           s == Elements(d)
           u == Elements(e)
<1>1. /\ Shaped(e, g, InsertAt(f, 1, p))
      /\ \A q \in Node : q # p => held[q] = d.element[q]
  BY TakeOutShapes
<1>2. /\ r \in Seq(Node) /\ Len(r) \in Nat
      /\ \A i \in 1..Len(r) : r[i] \in Node /\ (i # k => r[i] # p)
  BY SeqFacts DEF Shaped, RingOf, IsInjective
<1>3. Len(g) = Len(r) - 1
  BY <1>2, RemoveAtProperties
<1>4. /\ s \in Seq(Values) /\ Len(s) = Len(r)
      /\ \A i \in 1..Len(r) : s[i] = d.element[r[i]]
  BY ElementsAreSeq
<1> HIDE DEF e, p
<1>6. /\ u \in Seq(Values) /\ Len(u) = Len(r) - 1
      /\ \A j \in 1..Len(r) - 1 : u[j] = held[g[j]]
  <2> HIDE DEF g
  <2> QED
    BY <1>1, <1>3, ElementsAreSeq
<1> HIDE DEF s, u, held
<1>7. \A i \in 1..Len(r) : i # k => s[i] = held[r[i]]
  BY <1>1, <1>2, <1>4
<1>8. \A j \in 1..Len(r) - 1 : held[g[j]] = IF j < k THEN held[r[j]] ELSE held[r[j + 1]]
  BY <1>2, HeldWithOneLess
<1> HIDE DEF g
<1>9. ASSUME NEW j \in 1..Len(r) - 1
      PROVE  u[j] = IF j < k THEN s[j] ELSE s[j + 1]
  <2>0. j \in 1..Len(r) /\ j + 1 \in 1..Len(r)
    BY <1>2
  <2>1. CASE j < k
    BY <2>0, <2>1, <1>6, <1>7, <1>8
  <2>2. CASE ~(j < k)
    <3>1. j + 1 # k /\ held[g[j]] = held[r[j + 1]]
      BY <2>2, <2>0, <1>2, <1>8
    <3> QED
      BY <3>1, <2>0, <2>2, <1>6, <1>7
  <2> QED
    BY <2>1, <2>2
<1>10. u = RemoveAt(s, k)
  BY <1>2, <1>4, <1>6, <1>9, RemoveAtKnown
<1> QED
  BY <1>10 DEF e, s, u, p

\* Other nodes on the free list and other elements off the ring change nothing.
LEMMA RefillElements ==
    ASSUME NEW d, NEW r, NEW f, Shaped(d, r, f), NEW e, NEW g, Refilled(d, r, e, g)
    PROVE  Elements(e) = Elements(d)
<1>1. Shaped(e, r, g) /\ \A i \in 1..Len(r) : e.element[r[i]] = d.element[r[i]]
  BY DEF Refilled, Entries
<1>2. /\ Elements(d) = [i \in 1..Len(r) |-> d.element[r[i]]]
      /\ Elements(e) = [i \in 1..Len(r) |-> e.element[r[i]]]
  BY <1>1, RingIsNodes
<1> QED
  BY <1>1, <1>2

\* An element of the ring is overwritten.
LEMMA SetElements ==
    ASSUME NEW d, NEW r, NEW f, Shaped(d, r, f), NEW e, Shaped(e, r, f),
           NEW k \in 1..Len(r), NEW x \in Element,
           \A q \in Node : e.element[q] = IF q = r[k] THEN x ELSE d.element[q]
    PROVE  Elements(e) = ReplaceAt(Elements(d), k, x)
<1>1. \A i \in 1..Len(r) : r[i] \in Node /\ (i # k => r[i] # r[k])
  BY SeqFacts DEF Shaped, RingOf, IsInjective
<1>2. Elements(d) = [i \in 1..Len(r) |-> d.element[r[i]]]
  BY RingIsNodes
<1>3. Elements(e) = [i \in 1..Len(r) |-> e.element[r[i]]]
  BY RingIsNodes
<1>4. \A i \in 1..Len(r) : e.element[r[i]] = IF i = k THEN x ELSE d.element[r[i]]
  BY <1>1
<1>5. ReplaceAt(Elements(d), k, x) = [i \in 1..Len(r) |-> IF i = k THEN x ELSE d.element[r[i]]]
  BY <1>2 DEF ReplaceAt
<1> QED
  BY <1>3, <1>4, <1>5

LEMMA SetShapes ==
    ASSUME NEW d, NEW r, NEW f, Shaped(d, r, f), NEW k \in 1..Len(r), NEW x \in Element
    PROVE  /\ Shaped([d EXCEPT !.element[r[k]] = x], r, f)
           /\ Elements([d EXCEPT !.element[r[k]] = x]) = ReplaceAt(Elements(d), k, x)
<1> DEFINE e == [d EXCEPT !.element[r[k]] = x]
<1>0. /\ d \in LLists /\ RingOf(d, r) /\ FreeOf(d, f) /\ Parted(d, r, f)
      /\ r \in Seq(Node) /\ r[k] \in Node
  BY SeqFacts DEF Shaped, RingOf
<1>1. /\ e \in LLists /\ e.size = d.size /\ e.malloced = d.malloced /\ e.freel = d.freel
      /\ e.next = d.next /\ e.prev = d.prev
      /\ \A q \in Node : e.element[q] = IF q = r[k] THEN x ELSE d.element[q]
  BY <1>0 DEF LLists
<1> HIDE DEF e
<1>2. Shaped(e, r, f)
  BY <1>0, <1>1 DEF Shaped, RingOf, FreeOf, Parted
<1>3. Elements(e) = ReplaceAt(Elements(d), k, x)
  BY <1>1, <1>2, SetElements
<1> QED
  BY <1>2, <1>3 DEF e

\* A list without nodes on its ring.
LEMMA NoElements ==
    ASSUME NEW d, NEW f, Shaped(d, <<>>, f)
    PROVE  Elements(d) = <<>>
<1>1. Elements(d) \in Seq(Values) /\ Len(Elements(d)) = 0
  <2>1. Len(<<>>) = 0
    OBVIOUS
  <2> QED
    BY <2>1, ElementsAreSeq
<1> QED
  BY <1>1, EmptySeq

\* All nodes go to the free list.
LEMMA ClearShapes ==
    ASSUME NEW d, NEW r, NEW f, Shaped(d, r, f)
    PROVE  \E g : Shaped([purge(d) EXCEPT !.size = 0, !.next[SENTINEL] = SENTINEL,
                                          !.prev[SENTINEL] = SENTINEL], <<>>, g)
<1> DEFINE none == <<>>
           c == purge(d)
           e == [c EXCEPT !.size = 0, !.next[SENTINEL] = SENTINEL, !.prev[SENTINEL] = SENTINEL]
<1>0. /\ d \in LLists /\ RingOf(d, r) /\ FreeOf(d, f) /\ Parted(d, r, f)
      /\ r \in Seq(Node) /\ IsInjective(r) /\ Len(r) \in Nat /\ f \in Seq(Node) /\ Len(f) \in Nat
  BY SeqFacts DEF Shaped, RingOf, FreeOf
<1>1. c = FoldLeft(putEntry, d, r)
  BY RingIsNodes DEF purge
<1> HIDE DEF c
<1>2. PICK g : Freed(d, f, c, g, Entries(r), Len(r))
  <2>1. Entries(r) \cap Entries(f) = {}
    BY <1>0 DEF Parted
  <2> QED
    BY <2>1, <1>0, <1>1, PutsFree
<1>3. /\ c \in LLists /\ FreeOf(c, g) /\ c.malloced = d.malloced
      /\ Entries(g) = 1..d.malloced /\ Len(g) = d.malloced
  BY <1>0, <1>2 DEF Freed, Parted
<1>4. /\ e \in LLists /\ e.size = 0 /\ e.malloced = d.malloced /\ e.freel = c.freel
      /\ e.next[SENTINEL] = SENTINEL /\ e.prev[SENTINEL] = SENTINEL
      /\ \A q \in Node : e.next[q] = c.next[q]
  <2> DEFINE a == [c EXCEPT !.size = 0]
             b == [a EXCEPT !.next[SENTINEL] = SENTINEL]
  <2>1. /\ a \in LLists /\ a.size = 0 /\ a.malloced = d.malloced /\ a.freel = c.freel
        /\ a.next = c.next
    BY <1>3 DEF LLists
  <2>2. e = [b EXCEPT !.prev[SENTINEL] = SENTINEL]
    BY <1>3 DEF LLists
  <2> HIDE DEF a, e
  <2>3. /\ b \in LLists /\ b.size = 0 /\ b.malloced = d.malloced /\ b.freel = c.freel
        /\ b.next[SENTINEL] = SENTINEL /\ \A q \in Node : b.next[q] = c.next[q]
    BY <2>1, NodeNumbers DEF LLists
  <2> HIDE DEF b
  <2> QED
    BY <2>2, <2>3, NodeNumbers DEF LLists
<1> HIDE DEF e
<1>5. none \in Seq(Node) /\ Len(none) = 0 /\ IsInjective(none) /\ Entries(none) = {}
  BY EmptySeq DEF IsInjective, Entries
<1> HIDE DEF none
<1>6. RingOf(e, none)
  <2>1. \A i \in Int : At(none, i) = SENTINEL
    BY <1>5 DEF At
  <2> QED
    BY <2>1, <1>4, <1>5 DEF RingOf
<1>7. FreeOf(e, g)
  <2>1. \A i \in 1..Len(g) : g[i] \in Node
    BY <1>3, SeqFacts DEF FreeOf
  <2> QED
    BY <2>1, <1>3, <1>4 DEF FreeOf
<1>8. Parted(e, none, g)
  BY <1>0, <1>3, <1>4, <1>5 DEF Parted, LLists
<1>9. Shaped(e, none, g)
  BY <1>4, <1>6, <1>7, <1>8 DEF Shaped
<1> QED
  BY <1>9 DEF e, c, none
-------------------------------------------------------------------------------
\* The calls.  Each keeps the shape, and is the call of AbstractList on the elements.

\* The places of the ring as the calls reach them.
LEMMA Reached ==
    ASSUME NEW d, NEW r, NEW f, Shaped(d, r, f)
    PROVE  /\ d.size = Len(r) /\ Len(r) \in Nat
           /\ \A i \in 0..Len(r) - 1 : NodeAt(d, i) = r[i + 1]
           /\ d.next[SENTINEL] = At(r, 1) /\ d.prev[SENTINEL] = At(r, Len(r))
           /\ At(r, 0) = SENTINEL
           /\ \A i \in 1..Len(r) : At(r, i) = r[i] /\ r[i] # SENTINEL
           /\ Len(r) = 0 => At(r, 1) = SENTINEL /\ At(r, Len(r)) = SENTINEL
<1>1. /\ RingOf(d, r) /\ r \in Seq(Node) /\ IsInjective(r) /\ Len(r) \in Nat /\ d.size = Len(r)
  BY SeqFacts DEF Shaped, RingOf
<1>2. /\ At(r, 0) = SENTINEL /\ At(r, Len(r) + 1) = SENTINEL
      /\ \A i \in 1..Len(r) : At(r, i) = r[i] /\ At(r, i) \in Node
  BY <1>1, AtFacts
<1>3. Ring(d) = r
  BY RingIsNodes
<1>4. ASSUME NEW i \in 0..Len(r) - 1
      PROVE  NodeAt(d, i) = r[i + 1]
  <2>1. i + 1 \in 1..Len(r) /\ (i + 1) - 1 = i
    BY <1>1
  <2>2. Ring(d)[i + 1] = NodeAt(d, (i + 1) - 1)
    BY <2>1, <1>1 DEF Ring
  <2> QED
    BY <2>1, <2>2, <1>3
<1>5. d.next[SENTINEL] = At(r, 1) /\ d.prev[SENTINEL] = At(r, Len(r))
  <2>1. \A i \in 0..Len(r) : d.next[At(r, i)] = At(r, i + 1) /\ d.prev[At(r, i + 1)] = At(r, i)
    BY <1>1 DEF RingOf
  <2>2. d.next[At(r, 0)] = At(r, 0 + 1) /\ d.prev[At(r, Len(r) + 1)] = At(r, Len(r))
    BY <2>1, <1>1
  <2> QED
    BY <2>2, <1>2
<1>6. \A i \in 1..Len(r) : r[i] # SENTINEL
  BY <1>2, NodeNumbers
<1> QED
  BY <1>1, <1>2, <1>4, <1>5, <1>6

\* The helpers of AbstractList are those of this module.
LEMMA SameHelpers ==
    ASSUME NEW s, NEW i, NEW x
    PROVE  /\ AsList!InsertAt(s, i, x) = InsertAt(s, i, x)
           /\ AsList!RemoveAt(s, i) = RemoveAt(s, i)
           /\ AsList!ReplaceAt(s, i, x) = ReplaceAt(s, i, x)
<1>1. AsList!InsertAt(s, i, x) = InsertAt(s, i, x)
  BY DEF AsList!InsertAt, InsertAt
<1>2. AsList!RemoveAt(s, i) = RemoveAt(s, i)
  BY DEF AsList!RemoveAt, RemoveAt
<1>3. AsList!ReplaceAt(s, i, x) = ReplaceAt(s, i, x)
  BY DEF AsList!ReplaceAt, ReplaceAt
<1> QED
  BY <1>1, <1>2, <1>3

LEMMA FailStep ==
    ASSUME ListShape(lld), NEW call, Fail(call)
    PROVE  ListShape(lld') /\ AsList!Fails(call)
BY DEF Fail, AsList!Fails, Returned, AsList!Returned

LEMMA ReadStep ==
    ASSUME NEW r, NEW f, Shaped(lld, r, f), NEW k \in 1..Len(r), NEW call, Read(call, r[k])
    PROVE  ListShape(lld') /\ AsList!ReadAt(call, k - 1)
<1>1. k \in DOMAIN Elements(lld) /\ Elements(lld)[k] = lld.element[r[k]] /\ (k - 1) + 1 = k
  BY ElementsAreSeq
<1> QED
  BY <1>1 DEF Read, ListShape, AsList!ReadAt, AsList!Within, Returned, AsList!Returned

LEMMA DeleteStep ==
    ASSUME NEW r, NEW f, Shaped(lld, r, f), NEW k \in 1..Len(r), NEW call, Delete(call, r[k])
    PROVE  ListShape(lld') /\ AsList!DeleteAt(call, k - 1)
<1>1. k \in DOMAIN Elements(lld) /\ Elements(lld)[k] = lld.element[r[k]] /\ (k - 1) + 1 = k
  BY ElementsAreSeq
<1>2. ListShape(lld')
  BY TakeOutShapes DEF Delete, ListShape
<1>3. Elements(lld') = RemoveAt(Elements(lld), k)
  BY TakeOutElements DEF Delete
<1> QED
  BY <1>1, <1>2, <1>3, SameHelpers DEF Delete, AsList!DeleteAt, AsList!Within, Returned, AsList!Returned

LEMMA SetStep ==
    ASSUME NEW r, NEW f, Shaped(lld, r, f), NEW k \in 1..Len(r), NEW call, NEW e \in Element,
           lld' = [lld EXCEPT !.element[r[k]] = e],
           ll_ret' = Returned(call, 1, lld.element[r[k]])
    PROVE  ListShape(lld') /\ AsList!Overwrite(call, k - 1, e)
<1>1. k \in DOMAIN Elements(lld) /\ Elements(lld)[k] = lld.element[r[k]] /\ (k - 1) + 1 = k
  BY ElementsAreSeq
<1>2. ListShape(lld')
  BY SetShapes DEF ListShape
<1>3. Elements(lld') = ReplaceAt(Elements(lld), k, e)
  BY SetShapes
<1> QED
  BY <1>1, <1>2, <1>3, SameHelpers DEF AsList!Overwrite, AsList!Within, Returned, AsList!Returned

\* The list an addition starts from, refilled or not.
LEMMA StockedShapes ==
    ASSUME NEW d, NEW r, NEW f, Shaped(d, r, f), NEW e \in Stocked(d)
    PROVE  \E g : Refilled(d, r, e, g)
<1>1. CASE d.freel = NULL
  BY <1>1, RefillShapes DEF Stocked
<1>2. CASE d.freel # NULL
  BY <1>2 DEF Stocked, Refilled
<1> QED
  BY <1>1, <1>2

LEMMA AddStep ==
    ASSUME NEW r, NEW f, Shaped(lld, r, f), NEW k \in 0..Len(r), NEW call, NEW e \in Element,
           AddBehind(call, At(r, k), e)
    PROVE  ListShape(lld') /\ AsList!AddAt(call, k, e)
<1>1. PICK d \in Stocked(lld) :
         IF d.freel = NULL THEN lld' = d /\ ll_ret' = Returned(call, 0, NULL)
         ELSE lld' = PutIn(d, e, At(r, k)) /\ ll_ret' = Returned(call, 1, NULL)
  BY DEF AddBehind
<1>2. PICK g : Refilled(lld, r, d, g)
  BY StockedShapes
<1>3. Shaped(d, r, g) /\ Elements(d) = Elements(lld)
  BY <1>2, RefillElements DEF Refilled
<1>4. CASE d.freel = NULL
  <2>1. ListShape(lld') /\ Elements(lld') = Elements(lld)
    BY <1>1, <1>3, <1>4 DEF ListShape
  <2> QED
    BY <2>1, <1>1, <1>4 DEF AsList!AddAt, AsList!Fails, Returned, AsList!Returned
<1>5. CASE d.freel # NULL
  <2>1. lld' = PutIn(d, e, At(r, k)) /\ ll_ret' = Returned(call, 1, NULL)
    BY <1>1, <1>5
  <2>2. ListShape(lld')
    BY <2>1, <1>3, <1>5, PutInShapes DEF ListShape
  <2>3. Elements(lld') = InsertAt(Elements(lld), k + 1, e)
    BY <2>1, <1>3, <1>5, PutInElements
  <2>4. k <= Len(Elements(lld))
    BY SeqFacts, ElementsAreSeq DEF Shaped, RingOf
  <2> QED
    BY <2>1, <2>2, <2>3, <2>4, SameHelpers DEF AsList!AddAt, Returned, AsList!Returned
<1> QED
  BY <1>4, <1>5

\* An index within the list, and one that is not.
LEMMA WithinList ==
    ASSUME NEW r, NEW f, Shaped(lld, r, f), NEW i \in Int
    PROVE  AsList!Within(i) <=> i \in 0..Len(r) - 1
BY ElementsAreSeq, SeqFacts DEF AsList!Within, Shaped, RingOf

LEMMA FailsWithout ==
    ASSUME NEW r, NEW f, Shaped(lld, r, f), NEW i \in Int, i \notin 0..Len(r) - 1,
           NEW call, Fail(call)
    PROVE  /\ ListShape(lld')
           /\ AsList!ReadAt(call, i) /\ AsList!DeleteAt(call, i)
           /\ \A e \in Element : AsList!Overwrite(call, i, e)
<1>1. ListShape(lld') /\ AsList!Fails(call)
  BY FailStep DEF ListShape
<1>2. ~AsList!Within(i)
  BY WithinList
<1> QED
  BY <1>1, <1>2 DEF AsList!ReadAt, AsList!DeleteAt, AsList!Overwrite

LEMMA InsertCall ==
    ASSUME NEW r, NEW f, Shaped(lld, r, f), NEW index \in 0..lld.size + 1,
           NEW e \in Element, ll_insert(index, e)
    PROVE  ListShape(lld') /\ AsList!AddAt(<<"insert", index>>, index, e)
<1> DEFINE call == <<"insert", index>>
<1>0. lld.size = Len(r) /\ Len(r) \in Nat /\ index \in Nat
  BY Reached
<1>1. CASE index <= lld.size
  <2>1. (IF index = 0 THEN SENTINEL ELSE NodeAt(lld, index - 1)) = At(r, index)
    <3>1. CASE index = 0
      BY <3>1, Reached
    <3>2. CASE index # 0
      <4>1. index - 1 \in 0..Len(r) - 1 /\ index \in 1..Len(r) /\ (index - 1) + 1 = index
        BY <1>0, <1>1, <3>2
      <4>2. NodeAt(lld, index - 1) = r[(index - 1) + 1] /\ At(r, index) = r[index]
        BY <4>1, Reached
      <4> QED
        BY <3>2, <4>1, <4>2
    <3> QED
      BY <3>1, <3>2
  <2>2. AddBehind(call, At(r, index), e) /\ index \in 0..Len(r)
    BY <1>0, <1>1, <2>1 DEF ll_insert
  <2> HIDE DEF call
  <2>3. ListShape(lld') /\ AsList!AddAt(call, index, e)
    BY <2>2, AddStep
  <2> QED
    BY <2>3 DEF call
<1>2. CASE ~(index <= lld.size)
  <2>1. Fail(call)
    BY <1>2 DEF ll_insert
  <2> HIDE DEF call
  <2>2. ListShape(lld') /\ AsList!Fails(call)
    BY <2>1, FailStep DEF ListShape
  <2> QED
    BY <2>2 DEF AsList!AddAt, call
<1> QED
  BY <1>1, <1>2

\* The calls that look at the node with a number, and those that look at an end.
LEMMA IndexedCalls ==
    ASSUME NEW r, NEW f, Shaped(lld, r, f), NEW index \in 0..lld.size + 1
    PROVE  /\ ll_get(index) => ListShape(lld') /\ AsList!ReadAt(<<"get", index>>, index)
           /\ ll_remove(index) => ListShape(lld') /\ AsList!DeleteAt(<<"remove", index>>, index)
           /\ \A e \in Element : ll_set(index, e) =>
                 ListShape(lld') /\ AsList!Overwrite(<<"set", index>>, index, e)
<1>0. lld.size = Len(r) /\ Len(r) \in Nat /\ index \in Nat
  BY Reached
<1>1. CASE index < lld.size
  <2>1. NodeAt(lld, index) = r[index + 1] /\ index + 1 \in 1..Len(r) /\ (index + 1) - 1 = index
    BY <1>0, <1>1, Reached
  <2> DEFINE k == index + 1
  <2>2. k \in 1..Len(r) /\ k - 1 = index /\ NodeAt(lld, index) = r[k]
    BY <2>1
  <2> HIDE DEF k
  <2>3. ASSUME ll_get(index)
        PROVE  ListShape(lld') /\ AsList!ReadAt(<<"get", index>>, index)
    <3> DEFINE call == <<"get", index>>
    <3>1. Read(call, r[k])
      BY <2>3, <1>1, <2>2 DEF ll_get
    <3> HIDE DEF call
    <3>2. ListShape(lld') /\ AsList!ReadAt(call, k - 1)
      BY <3>1, <2>2, ReadStep
    <3> QED
      BY <3>2, <2>2 DEF call
  <2>4. ASSUME ll_remove(index)
        PROVE  ListShape(lld') /\ AsList!DeleteAt(<<"remove", index>>, index)
    <3> DEFINE call == <<"remove", index>>
    <3>1. Delete(call, r[k])
      BY <2>4, <1>1, <2>2 DEF ll_remove
    <3> HIDE DEF call
    <3>2. ListShape(lld') /\ AsList!DeleteAt(call, k - 1)
      BY <3>1, <2>2, DeleteStep
    <3> QED
      BY <3>2, <2>2 DEF call
  <2>5. ASSUME NEW e \in Element, ll_set(index, e)
        PROVE  ListShape(lld') /\ AsList!Overwrite(<<"set", index>>, index, e)
    <3> DEFINE call == <<"set", index>>
    <3>1. /\ lld' = [lld EXCEPT !.element[r[k]] = e]
          /\ ll_ret' = Returned(call, 1, lld.element[r[k]])
      BY <2>5, <1>1, <2>2 DEF ll_set
    <3> HIDE DEF call
    <3>2. ListShape(lld') /\ AsList!Overwrite(call, k - 1, e)
      BY <3>1, <2>2, SetStep
    <3> QED
      BY <3>2, <2>2 DEF call
  <2> QED
    BY <2>3, <2>4, <2>5
<1>2. CASE ~(index < lld.size)
  <2>1. index \in Int /\ index \notin 0..Len(r) - 1
    BY <1>0, <1>2
  <2>2. /\ ll_get(index) => Fail(<<"get", index>>)
        /\ ll_remove(index) => Fail(<<"remove", index>>)
        /\ \A e \in Element : ll_set(index, e) => Fail(<<"set", index>>)
    BY <1>2 DEF ll_get, ll_remove, ll_set
  <2> QED
    BY <2>1, <2>2, FailsWithout
<1> QED
  BY <1>1, <1>2

LEMMA FirstCalls ==
    ASSUME NEW r, NEW f, Shaped(lld, r, f)
    PROVE  /\ ll_getFirst => ListShape(lld') /\ AsList!ReadAt(<<"getFirst">>, 0)
           /\ ll_removeFirst => ListShape(lld') /\ AsList!DeleteAt(<<"removeFirst">>, 0)
<1>0. Len(r) \in Nat /\ lld.next[SENTINEL] = At(r, 1)
  BY Reached
<1>1. CASE Len(r) = 0
  <2>1. lld.next[SENTINEL] = SENTINEL
    BY <1>0, <1>1, Reached
  <2>2. 0 \in Int /\ 0 \notin 0..Len(r) - 1
    BY <1>1
  <2>3. /\ ll_getFirst => Fail(<<"getFirst">>)
        /\ ll_removeFirst => Fail(<<"removeFirst">>)
    BY <2>1 DEF ll_getFirst, ll_removeFirst
  <2> QED
    BY <2>2, <2>3, FailsWithout
<1>2. CASE Len(r) # 0
  <2>1. 1 \in 1..Len(r) /\ 1 - 1 = 0
    BY <1>0, <1>2
  <2>2. lld.next[SENTINEL] = r[1] /\ r[1] # SENTINEL
    BY <1>0, <2>1, Reached
  <2>3. /\ ll_getFirst => Read(<<"getFirst">>, r[1])
        /\ ll_removeFirst => Delete(<<"removeFirst">>, r[1])
    BY <2>2 DEF ll_getFirst, ll_removeFirst
  <2>4. /\ ll_getFirst => ListShape(lld') /\ AsList!ReadAt(<<"getFirst">>, 1 - 1)
        /\ ll_removeFirst => ListShape(lld') /\ AsList!DeleteAt(<<"removeFirst">>, 1 - 1)
    BY <2>1, <2>3, ReadStep, DeleteStep
  <2> QED
    BY <2>1, <2>4
<1> QED
  BY <1>1, <1>2

LEMMA LastCalls ==
    ASSUME NEW r, NEW f, Shaped(lld, r, f)
    PROVE  /\ ll_getLast =>
                 ListShape(lld') /\ AsList!ReadAt(<<"getLast">>, Len(r) - 1)
           /\ ll_removeLast =>
                 ListShape(lld') /\ AsList!DeleteAt(<<"removeLast">>, Len(r) - 1)
<1>0. Len(r) \in Nat /\ lld.prev[SENTINEL] = At(r, Len(r))
  BY Reached
<1>1. CASE Len(r) = 0
  <2>1. lld.prev[SENTINEL] = SENTINEL
    BY <1>0, <1>1, Reached
  <2>2. Len(r) - 1 \in Int /\ Len(r) - 1 \notin 0..Len(r) - 1
    BY <1>1
  <2>3. /\ ll_getLast => Fail(<<"getLast">>)
        /\ ll_removeLast => Fail(<<"removeLast">>)
    BY <2>1 DEF ll_getLast, ll_removeLast
  <2> QED
    BY <2>2, <2>3, FailsWithout
<1>2. CASE Len(r) # 0
  <2>1. Len(r) \in 1..Len(r)
    BY <1>0, <1>2
  <2>2. lld.prev[SENTINEL] = r[Len(r)] /\ r[Len(r)] # SENTINEL
    BY <1>0, <2>1, Reached
  <2>3. /\ ll_getLast => Read(<<"getLast">>, r[Len(r)])
        /\ ll_removeLast => Delete(<<"removeLast">>, r[Len(r)])
    BY <2>2 DEF ll_getLast, ll_removeLast
  <2> QED
    BY <2>1, <2>3, ReadStep, DeleteStep
<1> QED
  BY <1>1, <1>2

LEMMA EndAdditions ==
    ASSUME NEW r, NEW f, Shaped(lld, r, f), NEW e \in Element
    PROVE  /\ ll_addFirst(e) => ListShape(lld') /\ AsList!AddAt(<<"addFirst">>, 0, e)
           /\ ll_addLast(e) => ListShape(lld') /\ AsList!AddAt(<<"addLast">>, Len(r), e)
<1>1. /\ 0 \in 0..Len(r) /\ Len(r) \in 0..Len(r)
      /\ SENTINEL = At(r, 0) /\ lld.prev[SENTINEL] = At(r, Len(r))
  BY Reached
<1>2. /\ ll_addFirst(e) => AddBehind(<<"addFirst">>, At(r, 0), e)
      /\ ll_addLast(e) => AddBehind(<<"addLast">>, At(r, Len(r)), e)
  BY <1>1 DEF ll_addFirst, ll_addLast
<1> QED
  BY <1>1, <1>2, AddStep

LEMMA WholeListCalls ==
    ASSUME NEW r, NEW f, Shaped(lld, r, f)
    PROVE  /\ ll_clear => ListShape(lld') /\ AsList!Clear
           /\ ll_destroy => ListShape(lld') /\ AsList!Clear
           /\ ll_toArray => ListShape(lld') /\ AsList!ToArray
<1>1. ASSUME ll_clear
      PROVE  ListShape(lld') /\ AsList!Clear
  <2>1. PICK g : Shaped(lld', <<>>, g)
    BY <1>1, ClearShapes DEF ll_clear
  <2>2. Elements(lld') = <<>>
    BY <2>1, NoElements
  <2> QED
    BY <1>1, <2>1, <2>2 DEF ll_clear, ListShape, AsList!Clear
<1>2. ASSUME ll_destroy
      PROVE  ListShape(lld') /\ AsList!Clear
  <2>1. Shaped(lld', <<>>, <<>>)
    BY <1>2, CreateShapes DEF ll_destroy
  <2>2. Elements(lld') = <<>>
    BY <2>1, NoElements
  <2> QED
    BY <1>2, <2>1, <2>2 DEF ll_destroy, ListShape, AsList!Clear
<1>3. ASSUME ll_toArray
      PROVE  ListShape(lld') /\ AsList!ToArray
  <2>1. lld.size > 0 => Elements(lld) # <<>>
    <3>1. Len(<<>>) = 0 /\ Len(Elements(lld)) = lld.size
      BY ElementsAreSeq
    <3> QED
      BY <3>1
  <2> QED
    BY <1>3, <2>1 DEF ll_toArray, ListShape, AsList!ToArray
<1> QED
  BY <1>1, <1>2, <1>3
-------------------------------------------------------------------------------
\* The shape is inductive, and every step is a step of the sequence.

LEMMA ShapeInit == ListInit => ListShape(lld) /\ AsList!Init
<1> SUFFICES ASSUME ListInit
             PROVE  ListShape(lld) /\ AsList!Init
  OBVIOUS
<1>1. Shaped(lld, <<>>, <<>>)
  BY CreateShapes DEF ListInit
<1>2. Elements(lld) = <<>>
  BY <1>1, NoElements
<1> QED
  BY <1>1, <1>2 DEF ListInit, ListShape, AsList!Init

LEMMA ShapeStep ==
    ListShape(lld) /\ [ListNext]_listVars => ListShape(lld)' /\ [AsList!Next]_AsList!abstractList
<1> SUFFICES ASSUME ListShape(lld), [ListNext]_listVars
             PROVE  ListShape(lld') /\ [AsList!Next]_AsList!abstractList
  OBVIOUS
<1>1. PICK r, f : Shaped(lld, r, f)
  BY DEF ListShape
<1>2. Len(Elements(lld)) = Len(r) /\ lld.size = Len(r)
  BY <1>1, ElementsAreSeq
<1>3. ASSUME NEW index \in 0..lld.size + 1, ll_get(index)
      PROVE  ListShape(lld') /\ AsList!Next
  BY <1>1, <1>2, <1>3, IndexedCalls DEF AsList!Next
<1>4. ASSUME NEW index \in 0..lld.size + 1, ll_remove(index)
      PROVE  ListShape(lld') /\ AsList!Next
  BY <1>1, <1>2, <1>4, IndexedCalls DEF AsList!Next
<1>5. ASSUME NEW index \in 0..lld.size + 1, NEW e \in Element, ll_insert(index, e)
      PROVE  ListShape(lld') /\ AsList!Next
  BY <1>1, <1>2, <1>5, InsertCall DEF AsList!Next
<1>6. ASSUME NEW index \in 0..lld.size + 1, NEW e \in Element, ll_set(index, e)
      PROVE  ListShape(lld') /\ AsList!Next
  BY <1>1, <1>2, <1>6, IndexedCalls DEF AsList!Next
<1>7. ASSUME NEW e \in Element, ll_addFirst(e) \/ ll_addLast(e)
      PROVE  ListShape(lld') /\ AsList!Next
  BY <1>1, <1>2, <1>7, EndAdditions DEF AsList!Next
<1>8. ASSUME ll_getFirst \/ ll_removeFirst
      PROVE  ListShape(lld') /\ AsList!Next
  BY <1>1, <1>8, FirstCalls DEF AsList!Next
<1>9. ASSUME ll_getLast \/ ll_removeLast
      PROVE  ListShape(lld') /\ AsList!Next
  BY <1>1, <1>2, <1>9, LastCalls DEF AsList!Next
<1>10. ASSUME ll_clear \/ ll_destroy \/ ll_toArray
       PROVE  ListShape(lld') /\ AsList!Next
  BY <1>1, <1>10, WholeListCalls DEF AsList!Next
<1>11. ASSUME UNCHANGED listVars
       PROVE  ListShape(lld') /\ UNCHANGED AsList!abstractList
  BY <1>11 DEF listVars, AsList!abstractList
<1> QED
  BY <1>3, <1>4, <1>5, <1>6, <1>7, <1>8, <1>9, <1>10, <1>11 DEF ListNext

LEMMA ShapeInvariant == ListSpec => []ListShape(lld)
<1>1. ListInit => ListShape(lld)
  BY ShapeInit
<1>2. ListShape(lld) /\ [ListNext]_listVars => ListShape(lld)'
  BY ShapeStep
<1> QED
  BY <1>1, <1>2, PTL DEF ListSpec

LEMMA ShapeCloses == ListShape(lld) => RingClosed
<1> SUFFICES ASSUME NEW r, NEW f, Shaped(lld, r, f)
             PROVE  RingClosed
  BY DEF ListShape
<1>1. /\ Ring(lld) = r /\ NodeAt(lld, lld.size) = SENTINEL
      /\ r \in Seq(Node) /\ IsInjective(r) /\ Len(r) \in Nat /\ DOMAIN r = 1..Len(r)
      /\ \A i \in 0..Len(r) : lld.next[At(r, i)] = At(r, i + 1) /\ lld.prev[At(r, i + 1)] = At(r, i)
  BY RingIsNodes, SeqFacts DEF Shaped, RingOf
<1>2. At(r, 0) = SENTINEL /\ At(r, Len(r) + 1) = SENTINEL /\ \A i \in 1..Len(r) : At(r, i) = r[i]
  BY <1>1, AtFacts
<1>3. ASSUME NEW i \in 0..Len(r)
      PROVE  lld.prev[lld.next[At(r, i)]] = At(r, i)
  BY <1>1
<1>4. ASSUME NEW i \in 1..Len(r) + 1
      PROVE  lld.next[lld.prev[At(r, i)]] = At(r, i)
  <2>1. i - 1 \in 0..Len(r) /\ (i - 1) + 1 = i
    BY <1>1
  <2> QED
    BY <2>1, <1>1
<1>5. ASSUME NEW p \in ToSet(r) \cup {SENTINEL}
      PROVE  lld.prev[lld.next[p]] = p /\ lld.next[lld.prev[p]] = p
  <2>1. CASE p = SENTINEL
    <3>1. 0 \in 0..Len(r) /\ Len(r) + 1 \in 1..Len(r) + 1
      BY <1>1
    <3> QED
      BY <3>1, <2>1, <1>2, <1>3, <1>4
  <2>2. CASE p \in ToSet(r)
    <3>1. PICK i \in 1..Len(r) : p = r[i]
      BY <2>2, <1>1 DEF ToSet
    <3>2. i \in 0..Len(r) /\ i \in 1..Len(r) + 1 /\ At(r, i) = p
      BY <3>1, <1>1, <1>2
    <3> QED
      BY <3>2, <1>3, <1>4
  <2> QED
    BY <2>1, <2>2
<1> QED
  BY <1>1, <1>5 DEF RingClosed

LEMMA ShapeParts == ListShape(lld) => NodesPartitioned
<1> SUFFICES ASSUME NEW r, NEW f, Shaped(lld, r, f)
             PROVE  NodesPartitioned
  BY DEF ListShape
<1>1. Ring(lld) = r /\ FreeNodes(lld) = Entries(f)
  BY RingIsNodes, FreeWalk
<1>2. r \in Seq(Node) /\ IsInjective(r) /\ DOMAIN r = 1..Len(r)
  BY SeqFacts DEF Shaped, RingOf
<1>3. ToSet(r) = Entries(r)
  BY <1>2 DEF ToSet, Entries
<1> QED
  BY <1>1, <1>2, <1>3 DEF NodesPartitioned, Shaped, Parted

\* Whatever is inserted, removed, purged and reused, the ring of linkedlist.c reads
\* the same forwards and backwards, and closes after size nodes.
THEOREM RingStaysClosed == ListSpec => []RingClosed
<1>1. ListSpec => []ListShape(lld)
  BY ShapeInvariant
<1> QED
  BY <1>1, ShapeCloses, PTL

\* No node that malloc returned is lost, is twice in the ring, or is in the ring and
\* on the free list: ll_destroy frees each once.
THEOREM NodesStayPartitioned == ListSpec => []NodesPartitioned
<1>1. ListSpec => []ListShape(lld)
  BY ShapeInvariant
<1> QED
  BY <1>1, ShapeParts, PTL

\* linkedlist.c does what linkedlist.h promises: each call is the call of AbstractList
\* on the sequence of the elements, and returns what that returns.
THEOREM ListIsSequence == ListSpec => ImplementsList
<1>1. ListInit => ListShape(lld) /\ AsList!Init
  BY ShapeInit
<1>2. ListShape(lld) /\ [ListNext]_listVars
         => ListShape(lld)' /\ [AsList!Next]_AsList!abstractList
  BY ShapeStep
<1> QED
  BY <1>1, <1>2, PTL DEF ListSpec, ImplementsList, AsList!Spec
==============================================================================
