------------------------------ MODULE DataLemmas ------------------------------
(***************************************************************************)
(* Induction on the natural numbers and recursion on them and on their     *)
(* finite sets, stated of sets and functions instead of operators, and     *)
(* sequences into which an element is put or out of which one is taken.    *)
(* The folds and recursive functions of the other modules are reasoned     *)
(* about with these lemmas.                                                *)
(***************************************************************************)
EXTENDS Integers, SequencesExt, SequenceTheorems, WellFoundedInduction, TLAPS

\* A set that has 0, and with every natural number the next one, has them all.
LEMMA NatSetInduction ==
    ASSUME NEW S, 0 \in S, \A n \in Nat : n \in S => n + 1 \in S
    PROVE  Nat \subseteq S
<1> DEFINE T == Nat \ S
           R == {p \in Nat \X Nat : p[1] < p[2]}
<1> SUFFICES ASSUME T # {}
             PROVE  FALSE
  OBVIOUS
<1>1. IsWellFoundedOn(R, Nat)
  BY NatLessThanWellFounded DEF OpToRel
<1>2. T \subseteq Nat
  OBVIOUS
<1>3. PICK x \in T : \A y \in T : ~ (<<y, x>> \in R)
  <2> HIDE DEF T, R
  <2> QED
    BY <1>1, <1>2, WFMin
<1>4. x # 0 /\ x - 1 \in Nat /\ x - 1 < x
  OBVIOUS
<1>5. x - 1 \notin T
  <2>1. \A m, n \in Nat : m < n => <<m, n>> \in R
    OBVIOUS
  <2> QED
    BY <1>3, <1>4, <2>1
<1> QED
  BY <1>4, <1>5

\* The same up to a bound.
LEMMA UpToInduction ==
    ASSUME NEW N \in Nat, NEW S, 0 \in S, \A n \in 0..N : n < N /\ n \in S => n + 1 \in S
    PROVE  0..N \subseteq S
<1> DEFINE T == {n \in Nat : n <= N => n \in S}
<1>1. 0 \in T
  OBVIOUS
<1>2. \A n \in Nat : n \in T => n + 1 \in T
  OBVIOUS
<1>3. Nat \subseteq T
  <2> HIDE DEF T
  <2> QED
    BY <1>1, <1>2, NatSetInduction
<1> QED
  BY <1>3

\* A nonempty set of natural numbers has a least element.
LEMMA LeastNat ==
    ASSUME NEW T, T \subseteq Nat, T # {}
    PROVE  \E x \in T : \A y \in T : x <= y
<1> DEFINE S == {n \in Nat : \A y \in T : n <= y}
<1>1. 0 \in S
  OBVIOUS
<1>2. PICK t \in T : TRUE
  OBVIOUS
<1>3. t + 1 \in Nat /\ t + 1 \notin S
  BY <1>2
<1>4. PICK n \in Nat : n \in S /\ n + 1 \notin S
  <2> HIDE DEF S
  <2> QED
    BY <1>1, <1>3, NatSetInduction
<1>5. n \in T
  BY <1>4
<1> QED
  BY <1>4, <1>5

\* Min picks the least element.
LEMMA MinNat ==
    ASSUME NEW T, T \subseteq Nat, T # {}
    PROVE  Min(T) \in T /\ \A y \in T : Min(T) <= y
BY LeastNat DEF Min

\* A nonempty set of numbers up to N has a greatest element, and Max picks it.
LEMMA MaxUpTo ==
    ASSUME NEW N \in Nat, NEW T, T \subseteq 0..N, T # {}
    PROVE  Max(T) \in T /\ \A y \in T : y <= Max(T)
<1> DEFINE U == {n \in Nat : \A y \in T : y <= n}
<1>1. N \in U
  OBVIOUS
<1>2. PICK x \in U : \A y \in U : x <= y
  <2> HIDE DEF U
  <2> QED
    BY <1>1, LeastNat, U \subseteq Nat DEF U
<1>3. x \in T
  <2> SUFFICES ASSUME x \notin T
               PROVE  FALSE
    OBVIOUS
  <2>1. PICK t \in T : TRUE
    OBVIOUS
  <2>2. x # 0
    BY <2>1
  <2>3. x - 1 \in U
    BY <2>2
  <2> QED
    BY <2>3, <1>2
<1>4. \A y \in T : x >= y
  BY <1>2
<1>5. \E z \in T : \A y \in T : z >= y
  BY <1>3, <1>4
<1> QED
  BY <1>5 DEF Max

LEMMA MaxOfInterval ==
    ASSUME NEW k \in Nat
    PROVE  Max(1..k + 1) = k + 1 /\ (1..k + 1) \ {k + 1} = 1..k
<1>1. Max(1..k + 1) \in 1..k + 1 /\ \A y \in 1..k + 1 : y <= Max(1..k + 1)
  BY MaxUpTo
<1> QED
  BY <1>1
-------------------------------------------------------------------------------
\* g is the function on the sets of numbers up to N that takes the greatest element
\* away and goes on with the rest.
Recurses(g, N, V, base, F) ==
    /\ g \in [SUBSET (1..N) -> V]
    /\ \A s \in SUBSET (1..N) :
          g[s] = IF s = {} THEN base ELSE F[<<Max(s), g[s \ {Max(s)}]>>]

Steps(N, V) == [(1..N) \X V -> V]

\* There is such a function.
LEMMA SubsetRecursion ==
    ASSUME NEW N \in Nat, NEW V, NEW base \in V, NEW F \in Steps(N, V)
    PROVE  \E g : Recurses(g, N, V, base, F)
<1> DEFINE Def(g, s) == g[s] = IF s = {} THEN base ELSE F[<<Max(s), g[s \ {Max(s)}]>>]
           Defined == {k \in 0..N : \E g \in [SUBSET (1..k) -> V] :
                                       \A s \in SUBSET (1..k) : Def(g, s)}
<1>0. F \in [(1..N) \X V -> V]
  BY DEF Steps
<1>1. 0 \in Defined
  <2> DEFINE z == 0
             g == [s \in SUBSET (1..z) |-> base]
  <2>1. g \in [SUBSET (1..z) -> V] /\ \A s \in SUBSET (1..z) : Def(g, s)
    OBVIOUS
  <2>2. z \in 0..N
    OBVIOUS
  <2> HIDE DEF g, z
  <2>3. z \in Defined
    BY <2>1, <2>2
  <2> QED
    BY <2>3 DEF z
<1>2. ASSUME NEW k \in 0..N, k < N, k \in Defined
      PROVE  k + 1 \in Defined
  <2>1. PICK g \in [SUBSET (1..k) -> V] : \A s \in SUBSET (1..k) : Def(g, s)
    BY <1>2
  <2> DEFINE h == [s \in SUBSET (1..k + 1) |->
                      IF k + 1 \in s THEN F[<<k + 1, g[s \ {k + 1}]>>] ELSE g[s]]
  <2>2. h \in [SUBSET (1..k + 1) -> V]
    <3> SUFFICES ASSUME NEW s \in SUBSET (1..k + 1)
                 PROVE  IF k + 1 \in s THEN F[<<k + 1, g[s \ {k + 1}]>>] \in V ELSE g[s] \in V
      OBVIOUS
    <3>1. CASE k + 1 \in s
      <4>1. s \ {k + 1} \in SUBSET (1..k) /\ k + 1 \in 1..N
        BY <1>2
      <4> QED
        BY <3>1, <4>1, <1>0
    <3>2. CASE k + 1 \notin s
      <4>1. s \in SUBSET (1..k)
        BY <3>2
      <4> QED
        BY <3>2, <4>1
    <3> QED
      BY <3>1, <3>2
  <2>3. ASSUME NEW s \in SUBSET (1..k + 1)
        PROVE  Def(h, s)
    <3>1. CASE k + 1 \in s
      <4> HIDE DEF h
      <4>1. Max(s) \in s /\ \A y \in s : y <= Max(s)
        <5>1. k + 1 \in Nat /\ s \subseteq 0..k + 1 /\ s # {}
          BY <3>1
        <5> QED
          BY <5>1, MaxUpTo
      <4>2. Max(s) = k + 1
        <5> DEFINE m == Max(s)
        <5>1. m \in s /\ \A y \in s : y <= m
          BY <4>1
        <5> HIDE DEF m
        <5>2. m \in 1..k + 1 /\ k + 1 <= m
          BY <3>1, <5>1
        <5>3. m = k + 1
          BY <5>2
        <5> QED
          BY <5>3 DEF m
      <4>3. s \ {k + 1} \in SUBSET (1..k) /\ h[s \ {k + 1}] = g[s \ {k + 1}]
        BY DEF h
      <4>4. h[s] = F[<<k + 1, g[s \ {k + 1}]>>]
        BY <3>1 DEF h
      <4> QED
        BY <3>1, <4>2, <4>3, <4>4
    <3>2. CASE k + 1 \notin s
      <4>1. s \in SUBSET (1..k) /\ h[s] = g[s]
        BY <3>2
      <4>2. h[s \ {Max(s)}] = g[s \ {Max(s)}]
        BY <3>2, <4>1
      <4>3. Def(g, s)
        BY <4>1, <2>1
      <4> HIDE DEF h
      <4> QED
        BY <4>1, <4>2, <4>3
    <3> QED
      BY <3>1, <3>2
  <2> HIDE DEF h
  <2>4. k + 1 \in 0..N
    BY <1>2
  <2> QED
    BY <2>2, <2>3, <2>4
<1>3. 0..N \subseteq Defined
  <2> HIDE DEF Defined
  <2> QED
    BY <1>1, <1>2, UpToInduction
<1>4. N \in Defined
  <2> HIDE DEF Defined
  <2> QED
    BY <1>3
<1> QED
  BY <1>4 DEF Recurses
\* g is the function on the natural numbers that starts with base and goes on by F.
Iterates(g, V, base, F) ==
    /\ g \in [Nat -> V]
    /\ g[0] = base
    /\ \A n \in Nat : g[n + 1] = F[g[n]]

Maps(V) == [V -> V]

\* There is such a function.
LEMMA NatRecursion ==
    ASSUME NEW V, NEW base \in V, NEW F \in Maps(V)
    PROVE  \E g : Iterates(g, V, base, F)
<1> DEFINE Chain(h, k) == /\ h \in [0..k -> V]
                          /\ h[0] = base
                          /\ \A n \in 0..k : n < k => h[n + 1] = F[h[n]]
           Long == {k \in Nat : \E h : Chain(h, k)}
           chain(k) == CHOOSE h : Chain(h, k)
           g == [n \in Nat |-> chain(n)[n]]
<1>0. F \in [V -> V]
  BY DEF Maps
<1>1. 0 \in Long
  <2> DEFINE h == [n \in 0..0 |-> base]
  <2>1. Chain(h, 0)
    OBVIOUS
  <2> HIDE DEF h, Chain
  <2> QED
    BY <2>1
<1>2. ASSUME NEW k \in Nat, k \in Long
      PROVE  k + 1 \in Long
  <2>1. PICK h : Chain(h, k)
    BY <1>2
  <2> DEFINE e == [n \in 0..k + 1 |-> IF n = k + 1 THEN F[h[k]] ELSE h[n]]
  <2>2. \A n \in 0..k + 1 : e[n] = IF n = k + 1 THEN F[h[k]] ELSE h[n]
    OBVIOUS
  <2>3. h[k] \in V /\ e \in [0..k + 1 -> V]
    <3>1. h[k] \in V /\ F[h[k]] \in V
      BY <2>1, <1>0
    <3> QED
      BY <3>1, <2>1
  <2>4. e[0] = base
    BY <2>1, <2>2
  <2> HIDE DEF e
  <2>5. ASSUME NEW n \in 0..k + 1, n < k + 1
        PROVE  e[n + 1] = F[e[n]]
    <3>1. n \in 0..k /\ n + 1 \in 0..k + 1 /\ e[n] = h[n]
      BY <2>2, <2>5
    <3>2. CASE n = k
      BY <3>1, <3>2, <2>2
    <3>3. CASE n < k
      BY <3>1, <3>3, <2>1, <2>2
    <3> QED
      BY <3>1, <3>2, <3>3
  <2>6. Chain(e, k + 1)
    BY <2>3, <2>4, <2>5
  <2> HIDE DEF Chain
  <2> QED
    BY <2>6
<1>3. Nat \subseteq Long
  <2> HIDE DEF Long
  <2> QED
    BY <1>1, <1>2, NatSetInduction
<1>4. \A k \in Nat : Chain(chain(k), k)
  <2> HIDE DEF Chain
  <2> QED
    BY <1>3
<1> HIDE DEF chain, Long
<1>5. ASSUME NEW k \in Nat
      PROVE  chain(k + 1)[k] = chain(k)[k]
  <2> DEFINE longer == chain(k + 1)
             shorter == chain(k)
             T == {n \in 0..k : longer[n] = shorter[n]}
  <2>0. Chain(longer, k + 1) /\ Chain(shorter, k)
    <3> HIDE DEF Chain
    <3>1. k + 1 \in Nat
      OBVIOUS
    <3> QED
      BY <3>1, <1>4
  <2> HIDE DEF longer, shorter
  <2>1. 0 \in T
    BY <2>0
  <2>2. ASSUME NEW n \in 0..k, n < k, n \in T
        PROVE  n + 1 \in T
    <3>1. longer[n + 1] = F[longer[n]] /\ shorter[n + 1] = F[shorter[n]] /\ n + 1 \in 0..k
      BY <2>0, <2>2
    <3> QED
      BY <3>1, <2>2
  <2>3. 0..k \subseteq T
    <3> HIDE DEF T
    <3> QED
      BY <2>1, <2>2, UpToInduction
  <2> QED
    BY <2>3 DEF longer, shorter
<1>6. g \in [Nat -> V] /\ g[0] = base
  BY <1>4
<1>7. ASSUME NEW n \in Nat
      PROVE  g[n + 1] = F[g[n]]
  <2>1. chain(n + 1)[n + 1] = F[chain(n + 1)[n]]
    BY <1>4
  <2> QED
    BY <2>1, <1>5
<1> HIDE DEF g
<1> QED
  BY <1>6, <1>7 DEF Iterates
-------------------------------------------------------------------------------
\* A sequence without its i-th element.
LEMMA RemoveAtProperties ==
    ASSUME NEW S, NEW s \in Seq(S), NEW i \in 1..Len(s)
    PROVE  /\ RemoveAt(s, i) \in Seq(S)
           /\ Len(RemoveAt(s, i)) = Len(s) - 1
           /\ \A j \in 1..Len(s) - 1 : RemoveAt(s, i)[j] = IF j < i THEN s[j] ELSE s[j + 1]
<1> DEFINE before == SubSeq(s, 1, i - 1)
           behind == SubSeq(s, i + 1, Len(s))
<1>1. /\ before \in Seq(S) /\ Len(before) = i - 1
      /\ \A j \in 1..i - 1 : before[j] = s[j]
  BY SubSeqProperties
<1>2. /\ behind \in Seq(S) /\ Len(behind) = Len(s) - i
      /\ \A j \in 1..Len(s) - i : behind[j] = s[i + j]
  BY SubSeqProperties
<1>3. RemoveAt(s, i) = before \o behind
  BY DEF RemoveAt
<1> HIDE DEF before, behind
<1>4. /\ before \o behind \in Seq(S)
      /\ Len(before \o behind) = Len(before) + Len(behind)
      /\ \A j \in 1..Len(before) + Len(behind) : (before \o behind)[j]
              = IF j <= Len(before) THEN before[j] ELSE behind[j - Len(before)]
  BY <1>1, <1>2, ConcatProperties
<1>5. Len(s) \in Nat /\ Len(before) + Len(behind) = Len(s) - 1
  BY <1>1, <1>2
<1>6. ASSUME NEW j \in 1..Len(s) - 1
      PROVE  (before \o behind)[j] = IF j < i THEN s[j] ELSE s[j + 1]
  <2>1. (before \o behind)[j] = IF j <= i - 1 THEN before[j] ELSE behind[j - (i - 1)]
    BY <1>1, <1>4, <1>5
  <2>2. CASE j < i
    BY <2>1, <2>2, <1>1
  <2>3. CASE ~(j < i)
    <3>1. j - (i - 1) \in 1..Len(s) - i /\ i + (j - (i - 1)) = j + 1
      BY <2>3, <1>5
    <3>2. behind[j - (i - 1)] = s[i + (j - (i - 1))]
      BY <3>1, <1>2
    <3> QED
      BY <2>1, <2>3, <3>1, <3>2
  <2> QED
    BY <2>2, <2>3
<1> QED
  BY <1>3, <1>4, <1>5, <1>6

\* RemoveFirst leaves a sequence without the element alone, and takes one entry of
\* the element out of any other.
LEMMA RemoveFirstProperties ==
    ASSUME NEW S, NEW s \in Seq(S), NEW e
    PROVE  \/ /\ \A i \in 1..Len(s) : s[i] # e
              /\ RemoveFirst(s, e) = s
           \/ \E i \in 1..Len(s) : s[i] = e /\ RemoveFirst(s, e) = RemoveAt(s, i)
<1>1. CASE \A i \in 1..Len(s) : s[i] # e
  BY <1>1 DEF RemoveFirst
<1>2. CASE \E i \in 1..Len(s) : s[i] = e
  <2> DEFINE I == {i \in 1..Len(s) : s[i] = e}
  <2>1. I \subseteq Nat /\ I # {}
    BY <1>2
  <2>2. Min(I) \in I
    <3> HIDE DEF I
    <3> QED
      BY <2>1, MinNat
  <2>3. RemoveFirst(s, e) = RemoveAt(s, Min(I))
    BY <1>2, <2>1 DEF RemoveFirst, SelectInSeq
  <2> HIDE DEF I
  <2>4. Min(I) \in 1..Len(s) /\ s[Min(I)] = e
    BY <2>2 DEF I
  <2> QED
    BY <2>3, <2>4
<1> QED
  BY <1>1, <1>2

\* The entries of a sequence when one of them is taken out, or none.
Entries(s) == {s[i] : i \in 1..Len(s)}

LEMMA RemoveAtEntries ==
    ASSUME NEW S, NEW s \in Seq(S), NEW i \in 1..Len(s)
    PROVE  /\ Entries(RemoveAt(s, i)) \subseteq Entries(s)
           /\ Entries(s) \ {s[i]} \subseteq Entries(RemoveAt(s, i))
           /\ IsInjective(s) => /\ IsInjective(RemoveAt(s, i))
                               /\ s[i] \notin Entries(RemoveAt(s, i))
<1> DEFINE r == RemoveAt(s, i)
<1>1. /\ r \in Seq(S) /\ Len(r) = Len(s) - 1
      /\ \A j \in 1..Len(s) - 1 : r[j] = IF j < i THEN s[j] ELSE s[j + 1]
  BY RemoveAtProperties
<1>2. Len(s) \in Nat /\ DOMAIN s = 1..Len(s) /\ DOMAIN r = 1..Len(s) - 1
  BY <1>1, LenProperties
<1> HIDE DEF r
<1>3. Entries(r) \subseteq Entries(s)
  <2> SUFFICES ASSUME NEW j \in 1..Len(s) - 1
               PROVE  r[j] \in Entries(s)
    BY <1>1 DEF Entries
  <2>1. j \in 1..Len(s) /\ j + 1 \in 1..Len(s)
    BY <1>2
  <2> QED
    BY <2>1, <1>1 DEF Entries
<1>4. ASSUME NEW k \in 1..Len(s), k # i
      PROVE  s[k] \in Entries(r)
  <2>1. CASE k < i
    <3>1. k \in 1..Len(s) - 1 /\ r[k] = s[k]
      BY <2>1, <1>1, <1>2
    <3> QED
      BY <3>1, <1>1 DEF Entries
  <2>2. CASE k > i
    <3>1. k - 1 \in 1..Len(s) - 1 /\ r[k - 1] = s[(k - 1) + 1] /\ (k - 1) + 1 = k
      BY <2>2, <1>1, <1>2
    <3> QED
      BY <3>1, <1>1 DEF Entries
  <2> QED
    BY <2>1, <2>2, <1>4
<1>5. Entries(s) \ {s[i]} \subseteq Entries(r)
  BY <1>4 DEF Entries
<1>6. ASSUME IsInjective(s)
      PROVE  IsInjective(r) /\ s[i] \notin Entries(r)
  <2>1. \A j, k \in 1..Len(s) : s[j] = s[k] => j = k
    BY <1>2, <1>6 DEF IsInjective
  <2>2. \A j, k \in 1..Len(s) - 1 : r[j] = r[k] => j = k
    <3> SUFFICES ASSUME NEW j \in 1..Len(s) - 1, NEW k \in 1..Len(s) - 1, r[j] = r[k]
                 PROVE  j = k
      OBVIOUS
    <3> DEFINE at(n) == IF n < i THEN n ELSE n + 1
    <3>1. at(j) \in 1..Len(s) /\ at(k) \in 1..Len(s)
      BY <1>2
    <3>2. r[j] = s[at(j)] /\ r[k] = s[at(k)]
      BY <1>1
    <3>3. at(j) = at(k)
      <4> HIDE DEF at
      <4> QED
        BY <3>1, <3>2, <2>1
    <3> QED
      BY <3>3, <1>2
  <2>3. \A j \in 1..Len(s) - 1 : r[j] # s[i]
    <3> SUFFICES ASSUME NEW j \in 1..Len(s) - 1
                 PROVE  r[j] # s[i]
      OBVIOUS
    <3>1. j \in 1..Len(s) /\ j + 1 \in 1..Len(s)
      BY <1>2
    <3>2. CASE j < i
      BY <3>1, <3>2, <2>1, <1>1
    <3>3. CASE ~(j < i)
      BY <3>1, <3>3, <2>1, <1>1
    <3> QED
      BY <3>2, <3>3
  <2> QED
    BY <2>2, <2>3, <1>1, <1>2 DEF IsInjective, Entries
<1> QED
  BY <1>3, <1>5, <1>6 DEF r

LEMMA RemoveFirstEntries ==
    ASSUME NEW S, NEW s \in Seq(S), NEW e
    PROVE  /\ RemoveFirst(s, e) \in Seq(S)
           /\ Entries(RemoveFirst(s, e)) \subseteq Entries(s)
           /\ Entries(s) \ {e} \subseteq Entries(RemoveFirst(s, e))
           /\ IsInjective(s) => /\ IsInjective(RemoveFirst(s, e))
                               /\ e \notin Entries(RemoveFirst(s, e))
<1>1. CASE (\A i \in 1..Len(s) : s[i] # e) /\ RemoveFirst(s, e) = s
  BY <1>1 DEF Entries
<1>2. CASE \E i \in 1..Len(s) : s[i] = e /\ RemoveFirst(s, e) = RemoveAt(s, i)
  <2>1. PICK i \in 1..Len(s) : s[i] = e /\ RemoveFirst(s, e) = RemoveAt(s, i)
    BY <1>2
  <2>2. RemoveAt(s, i) \in Seq(S)
    BY RemoveAtProperties
  <2> QED
    BY <2>1, <2>2, RemoveAtEntries
<1> QED
  BY <1>1, <1>2, RemoveFirstProperties

\* A sequence with e as its i-th element.
Widened(t, s, i, e) ==
    /\ Len(t) = Len(s) + 1
    /\ \A j \in 1..Len(s) + 1 : t[j] = IF j < i THEN s[j] ELSE IF j = i THEN e ELSE s[j - 1]

LEMMA InsertAtProperties ==
    ASSUME NEW S, NEW s \in Seq(S), NEW i \in 1..Len(s) + 1, NEW e \in S
    PROVE  InsertAt(s, i, e) \in Seq(S) /\ Widened(InsertAt(s, i, e), s, i, e)
<1> DEFINE before == SubSeq(s, 1, i - 1)
           behind == SubSeq(s, i, Len(s))
           one    == <<e>>
<1>0. Len(s) \in Nat /\ i \in Nat
  OBVIOUS
<1>1. /\ before \in Seq(S) /\ Len(before) = i - 1
      /\ \A j \in 1..i - 1 : before[j] = s[j]
  BY SubSeqProperties
<1>2. /\ behind \in Seq(S) /\ Len(behind) = Len(s) - i + 1
      /\ \A j \in 1..Len(s) - i + 1 : behind[j] = s[i + j - 1]
  BY SubSeqProperties
<1>3. one \in Seq(S) /\ Len(one) = 1 /\ one[1] = e
  OBVIOUS
<1>4. InsertAt(s, i, e) = (before \o one) \o behind
  BY DEF InsertAt
<1> HIDE DEF before, behind, one
<1> DEFINE front == before \o one
<1>5. /\ front \in Seq(S) /\ Len(front) = i
      /\ \A j \in 1..i : front[j] = IF j <= i - 1 THEN before[j] ELSE one[j - (i - 1)]
  <2>1. /\ front \in Seq(S) /\ Len(front) = Len(before) + Len(one)
        /\ \A j \in 1..Len(before) + Len(one) :
              front[j] = IF j <= Len(before) THEN before[j] ELSE one[j - Len(before)]
    BY <1>1, <1>3, ConcatProperties
  <2> HIDE DEF front
  <2> QED
    BY <2>1, <1>0, <1>1, <1>3
<1> HIDE DEF front
<1> DEFINE all == front \o behind
<1>6. /\ all \in Seq(S) /\ Len(all) = Len(s) + 1
      /\ \A j \in 1..Len(s) + 1 : all[j] = IF j <= i THEN front[j] ELSE behind[j - i]
  <2>1. /\ all \in Seq(S) /\ Len(all) = Len(front) + Len(behind)
        /\ \A j \in 1..Len(front) + Len(behind) :
              all[j] = IF j <= Len(front) THEN front[j] ELSE behind[j - Len(front)]
    BY <1>2, <1>5, ConcatProperties
  <2> HIDE DEF all
  <2>2. Len(all) = Len(s) + 1 /\ Len(front) + Len(behind) = Len(s) + 1
    BY <2>1, <1>0, <1>2, <1>5
  <2> QED
    BY <2>1, <2>2, <1>5
<1> HIDE DEF all
<1>7. ASSUME NEW j \in 1..Len(s) + 1
      PROVE  all[j] = IF j < i THEN s[j] ELSE IF j = i THEN e ELSE s[j - 1]
  <2>0. all[j] = IF j <= i THEN front[j] ELSE behind[j - i]
    BY <1>6
  <2>1. CASE j < i
    <3>1. j \in 1..i /\ j \in 1..i - 1 /\ j <= i - 1 /\ j <= i
      BY <2>1, <1>0
    <3>2. front[j] = s[j]
      BY <3>1, <1>1, <1>5
    <3> QED
      BY <2>0, <2>1, <3>1, <3>2
  <2>2. CASE j = i
    <3>1. j \in 1..i /\ ~(j <= i - 1) /\ ~(j < i) /\ j <= i /\ j - (i - 1) = 1
      BY <2>2, <1>0
    <3>2. front[j] = e
      BY <3>1, <1>3, <1>5
    <3> QED
      BY <2>0, <2>2, <3>1, <3>2
  <2>3. CASE j > i
    <3>1. /\ j - i \in 1..Len(s) - i + 1 /\ i + (j - i) - 1 = j - 1
          /\ ~(j <= i) /\ ~(j < i) /\ j # i
      BY <2>3, <1>0
    <3>2. behind[j - i] = s[j - 1]
      BY <3>1, <1>2
    <3> QED
      BY <2>0, <3>1, <3>2
  <2>4. j < i \/ j = i \/ j > i
    BY <1>0
  <2> QED
    BY <2>1, <2>2, <2>3, <2>4
<1>8. InsertAt(s, i, e) = all
  BY <1>4 DEF all, front
<1>9. Widened(all, s, i, e)
  BY <1>6, <1>7 DEF Widened
<1> QED
  BY <1>6, <1>8, <1>9

LEMMA InsertAtEntries ==
    ASSUME NEW S, NEW s \in Seq(S), NEW i \in 1..Len(s) + 1, NEW e \in S
    PROVE  /\ Entries(InsertAt(s, i, e)) = Entries(s) \cup {e}
           /\ IsInjective(s) /\ e \notin Entries(s) => IsInjective(InsertAt(s, i, e))
<1> DEFINE r == InsertAt(s, i, e)
<1>1. /\ r \in Seq(S) /\ Len(r) = Len(s) + 1
      /\ \A j \in 1..Len(s) + 1 : r[j] = IF j < i THEN s[j] ELSE IF j = i THEN e ELSE s[j - 1]
  BY InsertAtProperties DEF Widened
<1>2. Len(s) \in Nat /\ DOMAIN s = 1..Len(s) /\ DOMAIN r = 1..Len(s) + 1
  BY <1>1, LenProperties
<1> HIDE DEF r
<1>3. ASSUME NEW j \in 1..Len(s) + 1
      PROVE  r[j] \in Entries(s) \cup {e}
  <2>1. j < i => j \in 1..Len(s)
    BY <1>2
  <2>2. j > i => j - 1 \in 1..Len(s)
    BY <1>2
  <2> QED
    BY <2>1, <2>2, <1>1 DEF Entries
<1>4. ASSUME NEW k \in 1..Len(s)
      PROVE  s[k] \in Entries(r)
  <2>1. CASE k < i
    <3>1. k \in 1..Len(s) + 1 /\ r[k] = s[k]
      BY <2>1, <1>1, <1>2
    <3> QED
      BY <3>1, <1>1 DEF Entries
  <2>2. CASE k >= i
    <3>1. k + 1 \in 1..Len(s) + 1 /\ r[k + 1] = s[(k + 1) - 1] /\ (k + 1) - 1 = k
      BY <2>2, <1>1, <1>2
    <3> QED
      BY <3>1, <1>1 DEF Entries
  <2> QED
    BY <2>1, <2>2, <1>2
<1>5. e \in Entries(r)
  BY <1>1 DEF Entries
<1>6. Entries(r) = Entries(s) \cup {e}
  BY <1>1, <1>3, <1>4, <1>5 DEF Entries
<1>7. ASSUME IsInjective(s), e \notin Entries(s)
      PROVE  IsInjective(r)
  <2>1. \A j, k \in 1..Len(s) : s[j] = s[k] => j = k
    BY <1>2, <1>7 DEF IsInjective
  <2>2. \A j \in 1..Len(s) : s[j] # e
    BY <1>7 DEF Entries
  <2> DEFINE at(n) == IF n < i THEN n ELSE n - 1
  <2>3. \A n \in 1..Len(s) + 1 : n # i => at(n) \in 1..Len(s) /\ r[n] = s[at(n)]
    BY <1>1, <1>2
  <2>4. \A j, k \in 1..Len(s) + 1 : r[j] = r[k] => j = k
    <3> SUFFICES ASSUME NEW j \in 1..Len(s) + 1, NEW k \in 1..Len(s) + 1, r[j] = r[k]
                 PROVE  j = k
      OBVIOUS
    <3>1. r[i] = e
      BY <1>1
    <3>2. CASE j = i \/ k = i
      <4> HIDE DEF at
      <4> QED
        BY <3>1, <3>2, <2>2, <2>3
    <3>3. CASE j # i /\ k # i
      <4>1. at(j) = at(k)
        <5> HIDE DEF at
        <5> QED
          BY <3>3, <2>1, <2>3
      <4> QED
        BY <4>1, <3>3, <1>2
    <3> QED
      BY <3>2, <3>3
  <2> QED
    BY <2>4, <1>2 DEF IsInjective
<1> QED
  BY <1>6, <1>7 DEF r
==============================================================================
