----------------------------- MODULE HashMap_proofs -----------------------------
(***************************************************************************)
(* The chains and the counts of the hash map, for any keys and capacities: *)
(* no entry is lost, in the wrong bucket or there twice, and the counts    *)
(* that keyArray allocates by and resizing goes by are those of the        *)
(* entries.                                                                *)
(***************************************************************************)
EXTENDS HashMap, DataLemmas, FiniteSetTheorems

-------------------------------------------------------------------------------
\* Chains.

\* No key is twice in a chain, or in any sequence of entries.
DistinctKeys(s) == \A i, j \in 1..Len(s) : s[i].key = s[j].key => i = j

Arrays(n) == [0..n - 1 -> Seq(Entry)]

\* c is a chain of entries that hash to h.
Bucket(c, n, h) ==
    /\ c \in Seq(Entry)
    /\ DistinctKeys(c)
    /\ \A e \in Entries(c) : hash(e.key, n) = h

\* The array b of n chains, each of which has the entries its bucket is for.
Chained(b, n) ==
    /\ b \in Arrays(n)
    /\ \A h \in 0..n - 1 : Bucket(b[h], n, h)

\* The entries of the first n chains, and the keys of entries.
Content(b, n) == UNION {Entries(b[h]) : h \in 0..n - 1}

KeysIn(C) == {e.key : e \in C}

\* The entries of a sequence.
LEMMA EntriesAreEntries ==
    ASSUME NEW s \in Seq(Entry)
    PROVE  /\ Entries(s) \subseteq Entry /\ Len(s) \in Nat /\ DOMAIN s = 1..Len(s)
           /\ \A i \in 1..Len(s) : s[i] \in Entry /\ s[i] \in Entries(s)
           /\ DistinctKeys(s) => IsInjective(s)
           /\ \A i \in 1..Len(s) : DistinctKeys(s) =>
                 \A e \in Entries(s) : e.key = s[i].key => e = s[i]
<1>1. Len(s) \in Nat /\ DOMAIN s = 1..Len(s) /\ \A i \in 1..Len(s) : s[i] \in Entry
  BY LenProperties
<1> QED
  BY <1>1 DEF Entries, DistinctKeys, IsInjective

\* The entries of an array have different keys and hash to their chains.
LEMMA ContentFacts ==
    ASSUME NEW n \in Nat, NEW b, Chained(b, n)
    PROVE  /\ Content(b, n) \subseteq Entry
           /\ \A e \in Content(b, n) :
                 hash(e.key, n) \in 0..n - 1 /\ e \in Entries(b[hash(e.key, n)])
           /\ \A e, f \in Content(b, n) : e.key = f.key => e = f
<1>1. \A h \in 0..n - 1 : b[h] \in Seq(Entry)
  BY DEF Chained, Bucket, Arrays
<1>2. \A h \in 0..n - 1 : Entries(b[h]) \subseteq Entry
  BY <1>1, EntriesAreEntries
<1>3. ASSUME NEW e \in Content(b, n)
      PROVE  hash(e.key, n) \in 0..n - 1 /\ e \in Entries(b[hash(e.key, n)])
  BY DEF Chained, Bucket, Content
<1>4. ASSUME NEW e \in Content(b, n), NEW f \in Content(b, n), e.key = f.key
      PROVE  e = f
  <2> DEFINE h == hash(e.key, n)
  <2>1. h \in 0..n - 1 /\ e \in Entries(b[h]) /\ f \in Entries(b[h])
    BY <1>3, <1>4
  <2> HIDE DEF h
  <2>2. PICK i \in 1..Len(b[h]) : e = b[h][i]
    BY <2>1 DEF Entries
  <2>3. DistinctKeys(b[h]) /\ b[h] \in Seq(Entry)
    BY <2>1, <1>1 DEF Chained, Bucket
  <2> QED
    BY <1>4, <2>1, <2>2, <2>3, EntriesAreEntries
<1> QED
  BY <1>2, <1>3, <1>4 DEF Content

\* The array with another h-th chain.
Swap(b, h, c) == [b EXCEPT ![h] = c]

Swapped(new, b, n, h, c) ==
    /\ Chained(new, n)
    /\ Content(new, n) = (Content(b, n) \ Entries(b[h])) \cup Entries(c)

\* A chain is replaced by one with other entries of its bucket.
LEMMA OneChain ==
    ASSUME NEW n \in Nat, NEW b, Chained(b, n), NEW h \in 0..n - 1,
           NEW c, Bucket(c, n, h)
    PROVE  Swapped(Swap(b, h, c), b, n, h, c)
<1> DEFINE new == Swap(b, h, c)
<1>1. new \in Arrays(n)
  BY DEF Chained, Bucket, Arrays, Swap
<1>2. new[h] = c /\ \A g \in 0..n - 1 : g # h => new[g] = b[g]
  BY DEF Chained, Arrays, Swap
<1> HIDE DEF new
<1>3. Chained(new, n)
  BY <1>1, <1>2 DEF Chained
<1>4. \A g \in 0..n - 1 : g # h => \A e \in Entries(b[g]) : e \notin Entries(b[h])
  BY DEF Chained, Bucket
<1>5. Content(new, n) = (Content(b, n) \ Entries(b[h])) \cup Entries(c)
  <2>1. ASSUME NEW e \in Content(new, n)
        PROVE  e \in (Content(b, n) \ Entries(b[h])) \cup Entries(c)
    <3>1. PICK g \in 0..n - 1 : e \in Entries(new[g])
      BY DEF Content
    <3> QED
      BY <3>1, <1>2, <1>4 DEF Content
  <2>2. ASSUME NEW e \in Content(b, n), e \notin Entries(b[h])
        PROVE  e \in Content(new, n)
    BY <1>2, <2>2 DEF Content
  <2>3. Entries(c) \subseteq Content(new, n)
    BY <1>2 DEF Content
  <2> QED
    BY <2>1, <2>2, <2>3
<1> QED
  BY <1>3, <1>5 DEF new, Swapped

\* The array b of n chains has the entries C.
Holds(b, n, C) == Chained(b, n) /\ Content(b, n) = C

\* The array with the entry at the head of its chain.
PutHead(b, e, n) == [b EXCEPT ![hash(e.key, n)] = <<e>> \o b[hash(e.key, n)]]

\* The array without the i-th entry of chain h, and with another element there.
TakeOutOf(b, h, i) == [b EXCEPT ![h] = RemoveAt(b[h], i)]

Rewrite(b, h, i, v) == [b EXCEPT ![h][i].element = v]

\* An entry is put at the head of its chain.
LEMMA ChainedPut ==
    ASSUME NEW n \in Nat, NEW b, Chained(b, n), NEW e \in Entry,
           hash(e.key, n) \in 0..n - 1, e.key \notin KeysIn(Content(b, n))
    PROVE  Holds(PutHead(b, e, n), n, Content(b, n) \cup {e})
<1> DEFINE h == hash(e.key, n)
           new == PutHead(b, e, n)
           c == <<e>> \o b[h]
<1>0. new = [b EXCEPT ![h] = c] /\ h \in 0..n - 1 /\ h = hash(e.key, n)
  BY DEF PutHead
<1> HIDE DEF h, new
<1>1. b[h] \in Seq(Entry) /\ <<e>> \in Seq(Entry) /\ Len(<<e>>) = 1 /\ <<e>>[1] = e
  BY <1>0 DEF Chained, Bucket, Arrays
<1>2. /\ c \in Seq(Entry) /\ Len(c) = Len(b[h]) + 1 /\ Len(b[h]) \in Nat
      /\ \A i \in 1..Len(b[h]) + 1 : c[i] = IF i <= 1 THEN <<e>>[i] ELSE b[h][i - 1]
  BY <1>1, ConcatProperties, LenProperties
<1> HIDE DEF c
<1>3. c[1] = e /\ \A i \in 1..Len(b[h]) : c[i + 1] = b[h][i]
  <2>1. 1 \in 1..Len(b[h]) + 1
    BY <1>2
  <2>2. ASSUME NEW i \in 1..Len(b[h])
        PROVE  c[i + 1] = b[h][i]
    <3>1. i + 1 \in 1..Len(b[h]) + 1 /\ ~(i + 1 <= 1) /\ (i + 1) - 1 = i
      BY <1>2
    <3> QED
      BY <3>1, <1>2
  <2> QED
    BY <2>1, <2>2, <1>1, <1>2
<1>4. \A i \in 1..Len(c) : i = 1 \/ \E j \in 1..Len(b[h]) : i = j + 1
  <2> SUFFICES ASSUME NEW i \in 1..Len(c), i # 1
               PROVE  i - 1 \in 1..Len(b[h]) /\ i = (i - 1) + 1
    OBVIOUS
  <2> QED
    BY <1>2
<1>5. Entries(c) = {e} \cup Entries(b[h])
  <2>1. 1 \in 1..Len(c) /\ \A j \in 1..Len(b[h]) : j + 1 \in 1..Len(c)
    BY <1>2
  <2>2. ASSUME NEW f \in Entries(c)
        PROVE  f \in {e} \cup Entries(b[h])
    <3>1. PICK i \in 1..Len(c) : f = c[i]
      BY <2>2 DEF Entries
    <3>2. CASE i = 1
      BY <3>1, <3>2, <1>3
    <3>3. CASE i # 1
      <4>1. PICK j \in 1..Len(b[h]) : i = j + 1
        BY <3>3, <1>4
      <4> QED
        BY <3>1, <4>1, <1>3 DEF Entries
    <3> QED
      BY <3>2, <3>3
  <2>3. e \in Entries(c)
    BY <2>1, <1>3 DEF Entries
  <2>4. ASSUME NEW j \in 1..Len(b[h])
        PROVE  b[h][j] \in Entries(c)
    BY <2>1, <1>3 DEF Entries
  <2> QED
    BY <2>2, <2>3, <2>4 DEF Entries
<1>6. Entries(b[h]) \subseteq Content(b, n)
  BY <1>0 DEF Content
<1>7. DistinctKeys(c)
  <2>1. \A j \in 1..Len(b[h]) : b[h][j].key # e.key
    BY <1>6 DEF KeysIn, Entries
  <2>2. DistinctKeys(b[h])
    BY <1>0 DEF Chained, Bucket
  <2>4. ASSUME NEW i \in 1..Len(c), i # 1
        PROVE  c[i].key # e.key
    <3>1. PICK j \in 1..Len(b[h]) : i = j + 1
      BY <1>4, <2>4
    <3> QED
      BY <3>1, <2>1, <1>3
  <2>3. ASSUME NEW i \in 1..Len(c), NEW j \in 1..Len(c), c[i].key = c[j].key
        PROVE  i = j
    <3>1. CASE i = 1
      BY <2>3, <2>4, <3>1, <1>3
    <3>3. CASE j = 1
      BY <2>3, <2>4, <3>3, <1>3
    <3>2. CASE i # 1 /\ j # 1
      <4>1. PICK k \in 1..Len(b[h]), l \in 1..Len(b[h]) : i = k + 1 /\ j = l + 1
        BY <3>2, <1>4
      <4>2. b[h][k].key = b[h][l].key
        BY <4>1, <2>3, <1>3
      <4> QED
        BY <4>1, <4>2, <2>2 DEF DistinctKeys
    <3> QED
      BY <3>1, <3>2, <3>3
  <2> QED
    BY <2>3 DEF DistinctKeys
<1>8. \A f \in Entries(c) : hash(f.key, n) = h
  BY <1>0, <1>5 DEF Chained, Bucket
<1>9. new = Swap(b, h, c)
  BY <1>0 DEF c, Swap
<1>10. Bucket(c, n, h)
  BY <1>2, <1>7, <1>8 DEF Bucket
<1>11. Chained(new, n) /\ Content(new, n) = (Content(b, n) \ Entries(b[h])) \cup Entries(c)
  <2>1. Swapped(Swap(b, h, c), b, n, h, c)
    BY <1>0, <1>10, OneChain
  <2> QED
    BY <1>9, <2>1 DEF Swapped
<1> QED
  BY <1>5, <1>6, <1>11 DEF Holds, new

\* An entry is taken out of its chain.
LEMMA ChainedRemove ==
    ASSUME NEW n \in Nat, NEW b, Chained(b, n), NEW h \in 0..n - 1, NEW i \in 1..Len(b[h])
    PROVE  Holds(TakeOutOf(b, h, i), n, Content(b, n) \ {b[h][i]})
<1> DEFINE c == RemoveAt(b[h], i)
           new == TakeOutOf(b, h, i)
<1>0. new = [b EXCEPT ![h] = c]
  BY DEF TakeOutOf
<1> HIDE DEF new
<1>1. /\ b[h] \in Seq(Entry) /\ DistinctKeys(b[h]) /\ IsInjective(b[h]) /\ Len(b[h]) \in Nat
      /\ b[h][i] \in Entries(b[h])
  BY EntriesAreEntries DEF Chained, Bucket, Arrays
<1>2. /\ c \in Seq(Entry) /\ Len(c) = Len(b[h]) - 1
      /\ \A j \in 1..Len(b[h]) - 1 : c[j] = IF j < i THEN b[h][j] ELSE b[h][j + 1]
  BY <1>1, RemoveAtProperties
<1>3. Entries(c) = Entries(b[h]) \ {b[h][i]}
  BY <1>1, RemoveAtEntries
<1> HIDE DEF c
<1>4. DistinctKeys(c)
  <2> SUFFICES ASSUME NEW j \in 1..Len(c), NEW k \in 1..Len(c), c[j].key = c[k].key
               PROVE  j = k
    BY DEF DistinctKeys
  <2> DEFINE at(x) == IF x < i THEN x ELSE x + 1
  <2>1. \A x \in 1..Len(c) : at(x) \in 1..Len(b[h]) /\ c[x] = b[h][at(x)]
    BY <1>1, <1>2
  <2>2. at(j) = at(k)
    <3>1. b[h][at(j)].key = b[h][at(k)].key
      BY <2>1
    <3> HIDE DEF at
    <3> QED
      BY <2>1, <3>1, <1>1 DEF DistinctKeys
  <2> QED
    BY <2>2, <1>1, <1>2
<1>5. \A e \in Entries(c) : hash(e.key, n) = h
  BY <1>3 DEF Chained, Bucket
<1>6. new = Swap(b, h, c)
  BY <1>0 DEF c, Swap
<1>9. Bucket(c, n, h)
  BY <1>2, <1>4, <1>5 DEF Bucket
<1>7. Chained(new, n) /\ Content(new, n) = (Content(b, n) \ Entries(b[h])) \cup Entries(c)
  <2>1. Swapped(Swap(b, h, c), b, n, h, c)
    BY <1>9, OneChain
  <2> QED
    BY <1>6, <2>1 DEF Swapped
<1>8. Entries(b[h]) \subseteq Content(b, n)
  BY DEF Content
<1> QED
  BY <1>1, <1>3, <1>7, <1>8 DEF Holds, new

\* The element of an entry is replaced.
LEMMA ChainedReplace ==
    ASSUME NEW n \in Nat, NEW b, Chained(b, n), NEW h \in 0..n - 1, NEW i \in 1..Len(b[h]),
           NEW v \in Element
    PROVE  Holds(Rewrite(b, h, i, v), n,
                 (Content(b, n) \ {b[h][i]}) \cup {[key |-> b[h][i].key, element |-> v]})
<1> DEFINE new == Rewrite(b, h, i, v)
           e == [key |-> b[h][i].key, element |-> v]
           c == [b[h] EXCEPT ![i] = e]
<1>1. /\ b[h] \in Seq(Entry) /\ DistinctKeys(b[h]) /\ Len(b[h]) \in Nat /\ IsInjective(b[h])
      /\ b[h][i] \in Entry /\ b[h][i] \in Entries(b[h]) /\ DOMAIN b[h] = 1..Len(b[h])
  BY EntriesAreEntries DEF Chained, Bucket, Arrays
<1>2. e \in Entry /\ e = [b[h][i] EXCEPT !.element = v] /\ e.key = b[h][i].key
  BY <1>1 DEF Entry
<1>3. new = Swap(b, h, c)
  BY <1>2 DEF Swap, Rewrite
<1> HIDE DEF e, new
<1>4. c \in Seq(Entry) /\ Len(c) = Len(b[h])
  BY <1>1, <1>2
<1>5. c[i] = e /\ \A j \in 1..Len(b[h]) : j # i => c[j] = b[h][j]
  BY <1>1
<1> HIDE DEF c
<1>6. \A j \in 1..Len(c) : c[j].key = b[h][j].key
  BY <1>2, <1>4, <1>5
<1>7. DistinctKeys(c)
  BY <1>1, <1>4, <1>6 DEF DistinctKeys
<1>8. Entries(c) = (Entries(b[h]) \ {b[h][i]}) \cup {e}
  <2>1. \A j \in 1..Len(b[h]) : j # i => b[h][j] # b[h][i]
    BY <1>1 DEF IsInjective
  <2> QED
    BY <2>1, <1>4, <1>5 DEF Entries
<1>9. \A f \in Entries(c) : hash(f.key, n) = h
  BY <1>1, <1>2, <1>8 DEF Chained, Bucket
<1>13. Bucket(c, n, h)
  BY <1>4, <1>7, <1>9 DEF Bucket
<1>10. Chained(new, n) /\ Content(new, n) = (Content(b, n) \ Entries(b[h])) \cup Entries(c)
  <2>1. Swapped(Swap(b, h, c), b, n, h, c)
    BY <1>13, OneChain
  <2> QED
    BY <1>3, <2>1 DEF Swapped
<1>11. Content(b, n) \subseteq Entry /\ \A f \in Content(b, n) : f = b[h][i] => f \in Entries(b[h])
  BY <1>1, ContentFacts
<1>12. Entries(b[h]) \subseteq Content(b, n)
  BY DEF Content
<1> QED
  BY <1>8, <1>10, <1>11, <1>12 DEF e, new, Holds
-------------------------------------------------------------------------------
\* All chains in one sequence.

\* f[k] is the first k sequences in one.
Flattens(f, seqs) ==
    /\ DOMAIN f = 1..Len(seqs)
    /\ f = [i \in 1..Len(seqs) |-> IF i = 1 THEN seqs[i] ELSE f[i - 1] \o seqs[i]]

\* There is such a function, and FlattenSeq has its last value.
LEMMA FlatteningExists ==
    ASSUME NEW seqs, Len(seqs) \in Nat \ {0}
    PROVE  \E f : Flattens(f, seqs)
<1> DEFINE Upto(h, k) == h = [i \in 1..k |-> IF i = 1 THEN seqs[i] ELSE h[i - 1] \o seqs[i]]
           Long == {k \in Nat : \E h : Upto(h, k)}
<1>1. 0 \in Long
  <2> DEFINE h == [i \in 1..0 |-> seqs]
  <2>1. Upto(h, 0)
    OBVIOUS
  <2> HIDE DEF h, Upto
  <2> QED
    BY <2>1
<1>2. ASSUME NEW k \in Nat, k \in Long
      PROVE  k + 1 \in Long
  <2>1. PICK h : Upto(h, k)
    BY <1>2
  <2> DEFINE e == [i \in 1..k + 1 |-> IF i = 1 THEN seqs[i] ELSE h[i - 1] \o seqs[i]]
  <2>2. ASSUME NEW i \in 1..k
        PROVE  e[i] = h[i]
    <3>1. h[i] = IF i = 1 THEN seqs[i] ELSE h[i - 1] \o seqs[i]
      BY <2>1
    <3>2. i \in 1..k + 1
      OBVIOUS
    <3>3. e[i] = IF i = 1 THEN seqs[i] ELSE h[i - 1] \o seqs[i]
      BY <3>2
    <3> HIDE DEF e, Upto
    <3> QED
      BY <3>1, <3>3
  <2>3. ASSUME NEW i \in 1..k + 1
        PROVE  e[i] = IF i = 1 THEN seqs[i] ELSE e[i - 1] \o seqs[i]
    <3>1. e[i] = IF i = 1 THEN seqs[i] ELSE h[i - 1] \o seqs[i]
      OBVIOUS
    <3>2. i # 1 => i - 1 \in 1..k
      OBVIOUS
    <3> HIDE DEF e
    <3> QED
      BY <2>2, <3>1, <3>2
  <2>4. e = [i \in 1..k + 1 |-> e[i]]
    OBVIOUS
  <2> HIDE DEF e
  <2>5. Upto(e, k + 1)
    BY <2>3, <2>4
  <2> HIDE DEF Upto
  <2> QED
    BY <2>5
<1>3. Nat \subseteq Long
  <2> HIDE DEF Long
  <2> QED
    BY <1>1, <1>2, NatSetInduction
<1>4. PICK h : Upto(h, Len(seqs))
  <2> HIDE DEF Upto
  <2> QED
    BY <1>3
<1>5. DOMAIN h = 1..Len(seqs)
  BY <1>4
<1> QED
  BY <1>4, <1>5 DEF Flattens

LEMMA Flattening ==
    ASSUME NEW seqs, Len(seqs) \in Nat \ {0}
    PROVE  \E f : Flattens(f, seqs) /\ FlattenSeq(seqs) = f[Len(seqs)]
<1> DEFINE Is(g) == g = [i \in 1..Len(seqs) |-> IF i = 1 THEN seqs[i] ELSE g[i - 1] \o seqs[i]]
           flatten == CHOOSE g : Is(g)
<1>1. FlattenSeq(seqs) = flatten[Len(seqs)]
  BY DEF FlattenSeq
<1>2. \E g : Is(g)
  BY FlatteningExists DEF Flattens
<1>3. Is(flatten)
  <2> HIDE DEF Is
  <2> QED
    BY <1>2
<1> HIDE DEF flatten
<1>4. Flattens(flatten, seqs)
  BY <1>3 DEF Flattens
<1> QED
  BY <1>1, <1>4

\* Two sequences of entries in one.
LEMMA EntriesJoined ==
    ASSUME NEW s \in Seq(Entry), NEW t \in Seq(Entry), DistinctKeys(s), DistinctKeys(t),
           \A e \in Entries(s), f \in Entries(t) : e.key # f.key
    PROVE  /\ s \o t \in Seq(Entry) /\ DistinctKeys(s \o t)
           /\ Entries(s \o t) = Entries(s) \cup Entries(t)
<1> DEFINE r == s \o t
<1>1. /\ r \in Seq(Entry) /\ Len(r) = Len(s) + Len(t) /\ Len(s) \in Nat /\ Len(t) \in Nat
      /\ \A i \in 1..Len(s) + Len(t) : r[i] = IF i <= Len(s) THEN s[i] ELSE t[i - Len(s)]
  BY ConcatProperties, LenProperties
<1> HIDE DEF r
<1>2. \A i \in 1..Len(s) : i \in 1..Len(r) /\ r[i] = s[i]
  BY <1>1
<1>3. ASSUME NEW j \in 1..Len(t)
      PROVE  Len(s) + j \in 1..Len(r) /\ r[Len(s) + j] = t[j]
  <2>1. Len(s) + j \in 1..Len(s) + Len(t) /\ ~(Len(s) + j <= Len(s)) /\ (Len(s) + j) - Len(s) = j
    BY <1>1
  <2> QED
    BY <2>1, <1>1
<1>4. ASSUME NEW i \in 1..Len(r)
      PROVE  i \in 1..Len(s) \/ \E j \in 1..Len(t) : i = Len(s) + j
  <2>1. i \notin 1..Len(s) => i - Len(s) \in 1..Len(t) /\ i = Len(s) + (i - Len(s))
    BY <1>1
  <2> QED
    BY <2>1
<1>5. Entries(r) = Entries(s) \cup Entries(t)
  <2>1. ASSUME NEW i \in 1..Len(r)
        PROVE  r[i] \in Entries(s) \cup Entries(t)
    <3>1. CASE i \in 1..Len(s)
      BY <3>1, <1>2 DEF Entries
    <3>2. ASSUME NEW j \in 1..Len(t), i = Len(s) + j
          PROVE  r[i] \in Entries(t)
      <4>1. r[i] = t[j]
        BY <3>2, <1>3
      <4> QED
        BY <4>1 DEF Entries
    <3> QED
      BY <3>1, <3>2, <1>4
  <2>2. \A i \in 1..Len(s) : s[i] \in Entries(r)
    BY <1>2 DEF Entries
  <2>3. \A j \in 1..Len(t) : t[j] \in Entries(r)
    BY <1>3 DEF Entries
  <2> QED
    BY <2>1, <2>2, <2>3 DEF Entries
<1>6. ASSUME NEW i \in 1..Len(r), NEW j \in 1..Len(r), r[i].key = r[j].key
      PROVE  i = j
  <2>1. CASE i \in 1..Len(s) /\ j \in 1..Len(s)
    BY <1>2, <1>6, <2>1 DEF DistinctKeys
  <2>2. ASSUME NEW k \in 1..Len(s), NEW l \in 1..Len(t)
        PROVE  r[k].key # r[Len(s) + l].key
    BY <1>2, <1>3 DEF Entries
  <2>3. CASE i \notin 1..Len(s) /\ j \notin 1..Len(s)
    <3>1. PICK k \in 1..Len(t) : i = Len(s) + k
      BY <1>4, <2>3
    <3>2. PICK l \in 1..Len(t) : j = Len(s) + l
      BY <1>4, <2>3
    <3>3. t[k].key = t[l].key
      BY <3>1, <3>2, <1>3, <1>6
    <3> QED
      BY <3>1, <3>2, <3>3 DEF DistinctKeys
  <2>4. CASE i \in 1..Len(s) /\ j \notin 1..Len(s)
    BY <1>4, <1>6, <2>2, <2>4
  <2>5. CASE i \notin 1..Len(s) /\ j \in 1..Len(s)
    BY <1>4, <1>6, <2>2, <2>5
  <2> QED
    BY <2>1, <2>3, <2>4, <2>5
<1>7. DistinctKeys(r)
  BY <1>6 DEF DistinctKeys
<1> QED
  BY <1>1, <1>5, <1>7 DEF r

\* The sequence s has the entries of C, each once.
Lists(s, C) == s \in Seq(Entry) /\ DistinctKeys(s) /\ Entries(s) = C

\* Flattening an array lists its entries.
LEMMA ArrayFlattened ==
    ASSUME NEW n \in Nat \ {0}, NEW b, Chained(b, n)
    PROVE  Lists(FlattenSeq([i \in 1..n |-> b[i - 1]]), Content(b, n))
<1> DEFINE seqs == [i \in 1..n |-> b[i - 1]]
<1>1. \A h \in 0..n - 1 : /\ b[h] \in Seq(Entry) /\ DistinctKeys(b[h])
                          /\ \A e \in Entries(b[h]) : hash(e.key, n) = h
  BY DEF Chained, Bucket
<1>2. Len(seqs) = n /\ \A i \in 1..n : seqs[i] = b[i - 1]
  <2>1. DOMAIN seqs = 1..n /\ \A i \in 1..n : i - 1 \in 0..n - 1
    OBVIOUS
  <2>2. seqs \in Seq(Seq(Entry))
    BY <1>1, <2>1
  <2> QED
    BY <2>1, <2>2
<1> HIDE DEF seqs
<1>3. PICK f : Flattens(f, seqs) /\ FlattenSeq(seqs) = f[n]
  BY <1>2, Flattening
<1>4. \A i \in 1..n : f[i] = IF i = 1 THEN seqs[i] ELSE f[i - 1] \o seqs[i]
  BY <1>2, <1>3 DEF Flattens
<1> HIDE DEF Content
<1> DEFINE T == {k \in 0..n : k = 0 \/ Lists(f[k], Content(b, k))}
<1>5. 0 \in T
  OBVIOUS
<1>6. ASSUME NEW k \in 0..n, k < n, k \in T
      PROVE  k + 1 \in T
  <2>1. k + 1 \in 1..n /\ k \in 0..n - 1 /\ (k + 1) - 1 = k /\ k + 1 \in 0..n
    BY <1>6
  <2>2. Content(b, k + 1) = Content(b, k) \cup Entries(b[k])
    <3>1. 0..(k + 1) - 1 = (0..k - 1) \cup {k}
      BY <2>1
    <3> QED
      BY <3>1 DEF Content
  <2>3. f[k + 1] = IF k = 0 THEN b[k] ELSE f[k] \o b[k]
    BY <2>1, <1>2, <1>4
  <2>4. CASE k = 0
    <3>1. Content(b, k) = {}
      BY <2>4 DEF Content
    <3>2. Lists(f[k + 1], Content(b, k + 1))
      BY <3>1, <2>1, <2>2, <2>3, <2>4, <1>1 DEF Lists
    <3> QED
      BY <3>2, <2>1
  <2>5. CASE k # 0
    <3>1. Lists(f[k], Content(b, k))
      BY <1>6, <2>5
    <3>2. ASSUME NEW e \in Entries(f[k]), NEW g \in Entries(b[k])
          PROVE  e.key # g.key
      <4>1. PICK h \in 0..k - 1 : e \in Entries(b[h])
        BY <3>1 DEF Lists, Content
      <4>2. h \in 0..n - 1 /\ h # k
        BY <2>1
      <4> QED
        BY <4>1, <4>2, <2>1, <1>1
    <3>3. Lists(f[k] \o b[k], Content(b, k + 1))
      BY <3>1, <3>2, <2>1, <2>2, <1>1, EntriesJoined DEF Lists
    <3> QED
      BY <3>3, <2>1, <2>3, <2>5
  <2> QED
    BY <2>4, <2>5
<1>7. 0..n \subseteq T
  <2> HIDE DEF T
  <2> QED
    BY <1>5, <1>6, UpToInduction
<1>8. Lists(f[n], Content(b, n))
  BY <1>7
<1> QED
  BY <1>3, <1>8 DEF seqs

\* As many as the sequence is long.
LEMMA ListedCount ==
    ASSUME NEW C, NEW s, Lists(s, C)
    PROVE  /\ Len(s) \in Nat
           /\ IsFiniteSet(C) /\ Cardinality(C) = Len(s)
           /\ IsFiniteSet(KeysIn(C)) /\ Cardinality(KeysIn(C)) = Len(s)
<1> DEFINE N == Len(s)
           keys == [i \in 1..N |-> s[i].key]
<1>1. /\ N \in Nat /\ s \in [1..N -> Entry] /\ DOMAIN s = 1..N
      /\ C = {s[i] : i \in 1..N} /\ \A i, j \in 1..N : s[i].key = s[j].key => i = j
  BY LenProperties DEF Lists, DistinctKeys, Entries
<1>2. IsFiniteSet(1..N) /\ Cardinality(1..N) = N
  BY <1>1, FS_Interval
<1>3. s \in Surjection(1..N, C) /\ s \in Injection(1..N, C)
  BY <1>1 DEF Surjection, Injection, IsInjective
<1>4. keys \in Surjection(1..N, KeysIn(C)) /\ keys \in Injection(1..N, KeysIn(C))
  <2>1. \A i \in 1..N : keys[i] = s[i].key /\ s[i].key \in KeysIn(C)
    BY <1>1 DEF KeysIn
  <2>2. keys \in [1..N -> KeysIn(C)] /\ DOMAIN keys = 1..N
    BY <2>1
  <2>3. \A k \in KeysIn(C) : \E i \in 1..N : keys[i] = k
    BY <1>1 DEF KeysIn
  <2> HIDE DEF keys
  <2> QED
    BY <1>1, <2>1, <2>2, <2>3 DEF Surjection, Injection, IsInjective
<1> HIDE DEF N, keys
<1>5. IsFiniteSet(C) /\ Cardinality(C) = N
  BY <1>2, <1>3, FS_Surjection
<1>6. IsFiniteSet(KeysIn(C)) /\ Cardinality(KeysIn(C)) = N
  BY <1>2, <1>4, FS_Surjection
<1> QED
  BY <1>1, <1>5, <1>6 DEF N
-------------------------------------------------------------------------------
\* The entries put one after the other into a new array.

Fits(s, n) == \A e \in Entries(s) : hash(e.key, n) \in 0..n - 1

\* c[k] is the array of n chains after the first k entries of s.
Fillings(c, s, n) ==
    /\ c \in [0..Len(s) -> Arrays(n)]
    /\ c[0] = [i \in 0..n - 1 |-> <<>>]
    /\ \A k \in 0..Len(s) : k < Len(s) => c[k + 1] = PutHead(c[k], s[k + 1], n)
    /\ Redistribute(s, n) = c[Len(s)]

\* An entry that fits is put into an array.
LEMMA PutHeadType ==
    ASSUME NEW n \in Nat, NEW b \in Arrays(n), NEW e \in Entry, hash(e.key, n) \in 0..n - 1
    PROVE  PutHead(b, e, n) \in Arrays(n)
<1>1. <<e>> \o b[hash(e.key, n)] \in Seq(Entry)
  BY ConcatProperties DEF Arrays
<1> QED
  BY <1>1 DEF PutHead, Arrays

\* Such arrays there are, and Redistribute is the last of them.
LEMMA RedistributeFills ==
    ASSUME NEW n \in Nat, NEW s \in Seq(Entry), Fits(s, n)
    PROVE  \E c : Fillings(c, s, n)
<1> DEFINE N == Len(s)
           base == [i \in 0..n - 1 |-> <<>>]
           F == [q \in (1..N) \X Arrays(n) |-> PutHead(q[2], s[q[1]], n)]
           Is(g) == g = [S \in SUBSET (1..N) |->
                            IF S = {} THEN base ELSE PutHead(g[S \ {Max(S)}], s[Max(S)], n)]
           iter == CHOOSE g : Is(g)
<1>n. /\ N \in Nat /\ DOMAIN s = 1..N
      /\ \A i \in 1..N : s[i] \in Entry /\ hash(s[i].key, n) \in 0..n - 1
  BY LenProperties DEF Fits, Entries
<1>0. base \in Arrays(n)
  BY EmptySeq DEF Arrays
<1>1. F \in [(1..N) \X Arrays(n) -> Arrays(n)]
  <2> HIDE DEF N
  <2> QED
    BY <1>n, PutHeadType
<1>2. Redistribute(s, n) = iter[1..N]
  BY <1>n DEF Redistribute, FoldLeft, MapThenFoldSet, PutHead
<1> HIDE DEF base
<1>3. \E g : Is(g)
  <2>1. PICK g \in [SUBSET (1..N) -> Arrays(n)] : \A S \in SUBSET (1..N) :
           g[S] = IF S = {} THEN base ELSE F[<<Max(S), g[S \ {Max(S)}]>>]
    <3> HIDE DEF F, N
    <3>1. F \in Steps(N, Arrays(n))
      BY <1>1 DEF Steps
    <3>2. \E g : Recurses(g, N, Arrays(n), base, F)
      BY <3>1, <1>n, <1>0, SubsetRecursion
    <3> QED
      BY <3>2 DEF Recurses
  <2>2. ASSUME NEW S \in SUBSET (1..N), S # {}
        PROVE  F[<<Max(S), g[S \ {Max(S)}]>>] = PutHead(g[S \ {Max(S)}], s[Max(S)], n)
    <3>1. Max(S) \in 1..N
      BY <1>n, <2>2, MaxUpTo, S \subseteq 0..N
    <3>2. g[S \ {Max(S)}] \in Arrays(n)
      BY <2>1
    <3> QED
      BY <3>1, <3>2
  <2> HIDE DEF F, N
  <2> QED
    BY <2>1, <2>2
<1>4. Is(iter)
  <2> HIDE DEF Is
  <2> QED
    BY <1>3
<1> HIDE DEF iter
<1> DEFINE c == [k \in 0..N |-> iter[1..k]]
<1>5. c[0] = base
  <2>1. 1..0 = {} /\ 0 \in 0..N
    BY <1>n
  <2> QED
    BY <2>1, <1>4
<1>6. ASSUME NEW k \in 0..N, k < N
      PROVE  c[k + 1] = PutHead(c[k], s[k + 1], n)
  <2>0. k \in Nat /\ k + 1 \in 0..N
    BY <1>n, <1>6
  <2>1. 1..k + 1 \in SUBSET (1..N) /\ 1..k + 1 # {}
    <3>1. k + 1 \in 1..k + 1 /\ \A i \in 1..k + 1 : i \in 1..N
      BY <2>0
    <3> QED
      BY <3>1
  <2>2. iter[1..k + 1] = PutHead(iter[(1..k + 1) \ {Max(1..k + 1)}], s[Max(1..k + 1)], n)
    BY <2>1, <1>4
  <2>3. Max(1..k + 1) = k + 1 /\ (1..k + 1) \ {k + 1} = 1..k
    BY <2>0, MaxOfInterval
  <2> QED
    BY <2>0, <2>2, <2>3
<1>7. c \in [0..N -> Arrays(n)]
  <2> DEFINE T == {k \in 0..N : c[k] \in Arrays(n)}
  <2>1. 0 \in T
    BY <1>0, <1>5, <1>n
  <2>2. ASSUME NEW k \in 0..N, k < N, k \in T
        PROVE  k + 1 \in T
    <3>1. /\ c[k + 1] = PutHead(c[k], s[k + 1], n) /\ k + 1 \in 0..N
          /\ s[k + 1] \in Entry /\ hash(s[k + 1].key, n) \in 0..n - 1
      BY <1>6, <1>n, <2>2
    <3> HIDE DEF c
    <3> QED
      BY <3>1, <2>2, PutHeadType
  <2>3. 0..N \subseteq T
    <3> HIDE DEF T, N
    <3> QED
      BY <2>1, <2>2, <1>n, UpToInduction
  <2> QED
    BY <2>3
<1>8. Redistribute(s, n) = c[N]
  BY <1>2, <1>n
<1> HIDE DEF c, F
<1> QED
  BY <1>5, <1>6, <1>7, <1>8 DEF Fillings, base

\* An empty array has no entries.
LEMMA EmptyArray ==
    ASSUME NEW n \in Nat, NEW b, b = [i \in 0..n - 1 |-> <<>>]
    PROVE  Holds(b, n, {})
<1>1. Len(<<>>) = 0 /\ <<>> \in Seq(Entry) /\ 1..0 = {}
  BY EmptySeq
<1>2. Entries(<<>>) = {}
  BY <1>1 DEF Entries
<1>3. \A h \in 0..n - 1 : b[h] = <<>>
  OBVIOUS
<1>4. b \in Arrays(n)
  BY <1>1 DEF Arrays
<1> QED
  BY <1>1, <1>2, <1>3, <1>4 DEF Holds, Chained, Bucket, Content, DistinctKeys

\* Redistributing keeps all entries.
LEMMA Redistributed ==
    ASSUME NEW n \in Nat, NEW C, NEW s, Lists(s, C), Fits(s, n)
    PROVE  Holds(Redistribute(s, n), n, C)
<1> DEFINE N == Len(s)
           done(k) == {s[i] : i \in 1..k}
<1>n. /\ N \in Nat /\ s \in Seq(Entry) /\ C = done(N)
      /\ \A i \in 1..N : s[i] \in Entry /\ hash(s[i].key, n) \in 0..n - 1
      /\ \A i, j \in 1..N : s[i].key = s[j].key => i = j
  BY LenProperties DEF Lists, Fits, Entries, DistinctKeys
<1>1. PICK c : Fillings(c, s, n)
  BY <1>n, RedistributeFills
<1>2. /\ c \in [0..N -> Arrays(n)] /\ c[0] = [i \in 0..n - 1 |-> <<>>]
      /\ Redistribute(s, n) = c[N]
      /\ \A k \in 0..N : k < N => c[k + 1] = PutHead(c[k], s[k + 1], n)
  BY <1>1 DEF Fillings
<1> HIDE DEF N
<1> DEFINE T == {k \in 0..N : Chained(c[k], n) /\ Content(c[k], n) = done(k)}
<1>3. 0 \in T
  <2>1. done(0) = {}
    OBVIOUS
  <2> QED
    BY <2>1, <1>n, <1>2, EmptyArray DEF Holds
<1>4. ASSUME NEW k \in 0..N, k < N, k \in T
      PROVE  k + 1 \in T
  <2> DEFINE e == s[k + 1]
  <2>1. k + 1 \in 1..N /\ k + 1 \in 0..N /\ k \in Nat
    BY <1>n, <1>4
  <2>2. done(k + 1) = done(k) \cup {e}
    <3>1. 1..k + 1 = (1..k) \cup {k + 1}
      BY <2>1
    <3> QED
      BY <3>1
  <2>3. e.key \notin KeysIn(done(k))
    <3>1. \A i \in 1..k : i \in 1..N /\ i # k + 1
      BY <2>1, <1>n
    <3> QED
      BY <3>1, <2>1, <1>n DEF KeysIn
  <2>4. Chained(c[k], n) /\ Content(c[k], n) = done(k)
    BY <1>4
  <2>5. c[k + 1] = PutHead(c[k], e, n)
    BY <1>2, <1>4
  <2>6. e \in Entry /\ hash(e.key, n) \in 0..n - 1
    BY <2>1, <1>n
  <2> HIDE DEF e, done
  <2>7. Holds(PutHead(c[k], e, n), n, Content(c[k], n) \cup {e})
    BY <2>3, <2>4, <2>6, ChainedPut
  <2> QED
    BY <2>1, <2>2, <2>4, <2>5, <2>7 DEF Holds
<1>5. 0..N \subseteq T
  <2> HIDE DEF T
  <2> QED
    BY <1>3, <1>4, <1>n, UpToInduction
<1> HIDE DEF done
<1> QED
  BY <1>2, <1>5, <1>n DEF Holds
-------------------------------------------------------------------------------
\* The capacities: the divisors of MAX_CAPACITY, of which a smaller one can be doubled.

LEMMA Cancels ==
    ASSUME NEW n \in Nat \ {0}, NEW a \in Int, NEW b \in Int, n * a = n * b
    PROVE  a = b
OBVIOUS

LEMMA Divides ==
    ASSUME NEW m \in Nat, NEW n \in Nat \ {0}, m % n = 0
    PROVE  m \div n \in Nat /\ m = n * (m \div n)
OBVIOUS

\* With twice the capacity an entry counts for half as much.
LEMMA CapacityDoubles ==
    ASSUME NEW n \in 1..MAX_CAPACITY, MAX_CAPACITY % n = 0, n # MAX_CAPACITY
    PROVE  /\ 2 * n \in 1..MAX_CAPACITY /\ MAX_CAPACITY % (2 * n) = 0
           /\ Increment(2 * n) \in Nat /\ Increment(n) = 2 * Increment(2 * n)
<1> DEFINE p == MAX_CAPACITY \div n
           q == MAX_CAPACITY \div (2 * n)
<1>a. MAX_CAPACITY \in Nat /\ MAX_CAPACITY # 0
  BY MapBounds
<1>b. n \in 1..MAX_CAPACITY - 1 /\ n \in Nat \ {0} /\ 2 * n \in Nat \ {0}
  BY <1>a
<1>c. MAX_CAPACITY % (2 * n) = 0
  BY <1>b, CapacitiesDouble, Zenon
<1>1. /\ MAX_CAPACITY \in Nat /\ n \in Nat \ {0} /\ 2 * n \in Nat \ {0}
      /\ MAX_CAPACITY % (2 * n) = 0 /\ MAX_CAPACITY # 0
  BY <1>a, <1>b, <1>c
<1>2. p \in Nat /\ MAX_CAPACITY = n * p
  BY <1>1, Divides
<1>3. q \in Nat /\ MAX_CAPACITY = (2 * n) * q
  BY <1>1, Divides
<1>4. Increment(n) = p /\ Increment(2 * n) = q
  BY DEF Increment
<1> HIDE DEF p, q
<1>5. (2 * n) * q = n * (2 * q) /\ 2 * q \in Nat
  BY <1>1, <1>3
<1>6. p = 2 * q
  BY <1>1, <1>2, <1>3, <1>5, Cancels
<1>7. q # 0
  BY <1>1, <1>3
<1>8. 2 * n <= (2 * n) * q
  BY <1>1, <1>3, <1>7
<1>9. 2 * n <= MAX_CAPACITY
  BY <1>3, <1>8
<1> QED
  BY <1>1, <1>3, <1>4, <1>6, <1>9

\* Increment and its multiples.
LEMMA IncrementType ==
    ASSUME NEW n \in 1..MAX_CAPACITY, MAX_CAPACITY % n = 0
    PROVE  Increment(n) \in Nat
BY MapBounds, Divides DEF Increment

LEMMA OneMore ==
    ASSUME NEW a \in Nat, NEW i \in Nat
    PROVE  /\ a * i \in Nat /\ (a + 1) * i = a * i + i
           /\ (a * (2 * i)) \div 2 = a * i
<1> DEFINE x == a * i
<1>1. x \in Nat /\ (a + 1) * i = x + i /\ a * (2 * i) = 2 * x
  OBVIOUS
<1> HIDE DEF x
<1>2. (2 * x) \div 2 = x
  BY <1>1
<1> QED
  BY <1>1, <1>2 DEF x
-------------------------------------------------------------------------------
\* The inductive invariant.

Tables == UNION {Arrays(n) : n \in 1..MAX_CAPACITY}

MapRecords == [size : Nat, capacity : 1..MAX_CAPACITY, changes : Nat, load : Nat,
               buckets : Tables]

ContentOf(d) == Content(d.buckets, d.capacity)

\* Every entry is in its chain, once, and is counted in size and in load.
Sound(d) ==
    /\ d \in MapRecords
    /\ MAX_CAPACITY % d.capacity = 0
    /\ Chained(d.buckets, d.capacity)
    /\ d.size = Cardinality(ContentOf(d))
    /\ d.load = d.size * Increment(d.capacity)

SoundWith(d, C) == Sound(d) /\ ContentOf(d) = C

\* What follows of the capacity, the counts and the entries.
LEMMA SoundFacts ==
    ASSUME NEW d, Sound(d)
    PROVE  /\ d.size \in Nat /\ d.capacity \in 1..MAX_CAPACITY /\ d.capacity \in Nat \ {0}
           /\ d.changes \in Nat /\ d.load \in Nat
           /\ Chained(d.buckets, d.capacity) /\ Increment(d.capacity) \in Nat
           /\ Lists(AllEntries(d), ContentOf(d))
           /\ IsFiniteSet(ContentOf(d)) /\ ContentOf(d) \subseteq Entry
           /\ \A e, f \in ContentOf(d) : e.key = f.key => e = f
           /\ Len(AllEntries(d)) = d.size
<1>1. /\ d.size \in Nat /\ d.capacity \in 1..MAX_CAPACITY /\ d.capacity \in Nat \ {0}
      /\ d.changes \in Nat /\ d.load \in Nat
  BY MapBounds DEF Sound, MapRecords
<1>2. Chained(d.buckets, d.capacity) /\ Increment(d.capacity) \in Nat
  BY <1>1, IncrementType DEF Sound
<1>3. Lists(AllEntries(d), ContentOf(d))
  BY <1>1, <1>2, ArrayFlattened DEF AllEntries, ContentOf
<1>4. IsFiniteSet(ContentOf(d)) /\ Cardinality(ContentOf(d)) = Len(AllEntries(d))
  BY <1>3, ListedCount
<1>5. /\ ContentOf(d) \subseteq Entry
      /\ \A e, f \in ContentOf(d) : e.key = f.key => e = f
  BY <1>1, <1>2, ContentFacts DEF ContentOf
<1>6. Len(AllEntries(d)) = d.size
  BY <1>4 DEF Sound
<1> QED
  BY <1>1, <1>2, <1>3, <1>4, <1>5, <1>6

\* What is left to show of a map with other chains.
LEMMA SoundAgain ==
    ASSUME NEW d, NEW n \in 1..MAX_CAPACITY, MAX_CAPACITY % n = 0, NEW C, NEW b, Holds(b, n, C),
           NEW size \in Nat, size = Cardinality(C), NEW changes \in Nat,
           NEW load \in Nat, load = size * Increment(n),
           d = [size |-> size, capacity |-> n, changes |-> changes, load |-> load, buckets |-> b]
    PROVE  SoundWith(d, C)
<1>1. b \in Tables
  BY DEF Holds, Chained, Tables
<1>2. d \in MapRecords /\ d.size = size /\ d.capacity = n /\ d.load = load /\ d.buckets = b
  BY <1>1 DEF MapRecords
<1> QED
  BY <1>2 DEF SoundWith, Sound, Holds, ContentOf

\* The map d with other chains and counts.
Changed(d, b, size, changes, load) ==
    [size |-> size, capacity |-> d.capacity, changes |-> changes, load |-> load, buckets |-> b]

LEMMA SoundChange ==
    ASSUME NEW d, Sound(d), NEW C, NEW b, Holds(b, d.capacity, C),
           NEW size \in Nat, size = Cardinality(C), NEW changes \in Nat,
           NEW load \in Nat, load = size * Increment(d.capacity)
    PROVE  SoundWith(Changed(d, b, size, changes, load), C)
BY SoundFacts, SoundAgain DEF Changed, Sound

\* What findKey finds of a key: its only entry, if it has one.
LEMMA FoundFacts ==
    ASSUME NEW d, Sound(d), NEW key \in Key, InBounds(key, d.capacity)
    PROVE  /\ Found(d, key) = {} <=> key \notin KeysIn(ContentOf(d))
           /\ \A i \in Found(d, key) :
                 /\ i \in 1..Len(d.buckets[hash(key, d.capacity)])
                 /\ Chain(d, key)[i] \in ContentOf(d) /\ Chain(d, key)[i].key = key
                 /\ Chain(d, key)[i] \in Entry
           /\ \A i, j \in Found(d, key) : i = j
<1> DEFINE h == hash(key, d.capacity)
           c == d.buckets[h]
<1>1. h \in 0..d.capacity - 1 /\ Chain(d, key) = c
  BY DEF InBounds, Chain
<1>2. Bucket(c, d.capacity, h) /\ Entries(c) \subseteq ContentOf(d)
  BY <1>1 DEF Sound, Chained, ContentOf, Content
<1>3. c \in Seq(Entry) /\ DistinctKeys(c)
  BY <1>2 DEF Bucket
<1>c. Len(c) \in Nat /\ \A i \in 1..Len(c) : c[i] \in Entries(c) /\ c[i] \in Entry
  BY <1>3, EntriesAreEntries
<1>4. Found(d, key) = {i \in 1..Len(c) : c[i].key = key}
  <2>1. ASSUME NEW i \in 1..Len(c), c[i].key = key, NEW j \in 1..i - 1
        PROVE  c[j].key # key
    <3>1. j \in 1..Len(c) /\ j # i
      BY <1>c
    <3> QED
      BY <2>1, <3>1, <1>3 DEF DistinctKeys
  <2> HIDE DEF c
  <2> QED
    BY <2>1, <1>1 DEF Found
<1>5. ASSUME NEW e \in ContentOf(d), e.key = key
      PROVE  \E i \in 1..Len(c) : c[i] = e
  <2>1. d.capacity \in Nat /\ Chained(d.buckets, d.capacity)
    BY SoundFacts
  <2>2. e \in Entries(c)
    BY <2>1, <1>5, ContentFacts DEF ContentOf
  <2> QED
    BY <2>2 DEF Entries
<1>6. \A i, j \in Found(d, key) : i = j
  BY <1>3, <1>4 DEF DistinctKeys
<1>7. Found(d, key) = {} <=> key \notin KeysIn(ContentOf(d))
  <2>1. ASSUME NEW i \in 1..Len(c), c[i].key = key
        PROVE  key \in KeysIn(ContentOf(d))
    BY <2>1, <1>2, <1>c DEF KeysIn
  <2>2. ASSUME key \in KeysIn(ContentOf(d))
        PROVE  \E i \in 1..Len(c) : c[i].key = key
    <3>1. PICK e \in ContentOf(d) : e.key = key
      BY <2>2 DEF KeysIn
    <3> QED
      BY <3>1, <1>5
  <2> QED
    BY <2>1, <2>2, <1>4
<1> QED
  BY <1>1, <1>2, <1>c, <1>4, <1>6, <1>7
-------------------------------------------------------------------------------
\* What the calls make of a map.

NewEntry(key, e) == [key |-> key, element |-> e]

\* insertEntry
LEMMA InsertedSound ==
    ASSUME NEW d, Sound(d), NEW key \in Key, NEW e \in Element, InBounds(key, d.capacity),
           Found(d, key) = {}
    PROVE  SoundWith(Inserted(d, key, e), ContentOf(d) \cup {NewEntry(key, e)})
<1> DEFINE entry == NewEntry(key, e)
           C == ContentOf(d) \cup {entry}
           b == PutHead(d.buckets, entry, d.capacity)
           size == d.size + 1
           load == d.load + Increment(d.capacity)
<1>1. entry \in Entry /\ entry.key = key
  BY DEF Entry, NewEntry
<1>2. Inserted(d, key, e) = Changed(d, b, size, d.changes + 1, load)
  <2>1. b = [d.buckets EXCEPT ![hash(key, d.capacity)] = <<[key |-> key, element |-> e]>> \o @]
    BY DEF PutHead, NewEntry
  <2> HIDE DEF b
  <2>2. Inserted(d, key, e) = [d EXCEPT !.buckets = b, !.size = size, !.changes = d.changes + 1,
                                        !.load = load]
    BY <2>1 DEF Inserted
  <2> HIDE DEF size, load
  <2> QED
    BY <2>2 DEF Changed, Sound, MapRecords
<1>3. hash(entry.key, d.capacity) \in 0..d.capacity - 1 /\ entry.key \notin KeysIn(ContentOf(d))
  BY <1>1, FoundFacts DEF InBounds
<1>4. Holds(b, d.capacity, C)
  <2> HIDE DEF entry
  <2> QED
    BY <1>1, <1>3, SoundFacts, ChainedPut DEF ContentOf
<1>5. entry \notin ContentOf(d)
  BY <1>3 DEF KeysIn
<1>6. size \in Nat /\ size = Cardinality(C)
  <2>1. IsFiniteSet(ContentOf(d)) /\ d.size = Cardinality(ContentOf(d)) /\ d.size \in Nat
    BY SoundFacts DEF Sound
  <2> HIDE DEF entry
  <2>2. Cardinality(C) = Cardinality(ContentOf(d)) + 1
    BY <1>5, <2>1, FS_AddElement
  <2> QED
    BY <2>1, <2>2
<1>7. load \in Nat /\ load = size * Increment(d.capacity)
  BY SoundFacts, OneMore DEF Sound
<1>8. d.changes + 1 \in Nat
  BY SoundFacts
<1> HIDE DEF entry, C, b, size, load
<1>9. SoundWith(Changed(d, b, size, d.changes + 1, load), C)
  BY <1>4, <1>6, <1>7, <1>8, SoundChange
<1> QED
  BY <1>2, <1>9 DEF C, entry

\* hm_put of a key that is there
LEMMA RewriteSound ==
    ASSUME NEW d, Sound(d), NEW key \in Key, NEW e \in Element, InBounds(key, d.capacity),
           NEW i \in Found(d, key), NEW new,
           new = [d EXCEPT !.buckets[hash(key, d.capacity)][i].element = e]
    PROVE  SoundWith(new, (ContentOf(d) \ {Chain(d, key)[i]}) \cup {NewEntry(key, e)})
<1> DEFINE h == hash(key, d.capacity)
           old == Chain(d, key)[i]
           entry == NewEntry(key, e)
           C == (ContentOf(d) \ {old}) \cup {entry}
           b == Rewrite(d.buckets, h, i, e)
<1>1. h \in 0..d.capacity - 1 /\ old = d.buckets[h][i] /\ i \in 1..Len(d.buckets[h])
  BY FoundFacts DEF InBounds, Chain
<1>2. old \in ContentOf(d) /\ old.key = key
  BY FoundFacts
<1>3. new = Changed(d, b, d.size, d.changes, d.load)
  BY <1>1 DEF Changed, Rewrite, Sound, MapRecords
<1>4. Holds(b, d.capacity, C)
  <2>1. Holds(b, d.capacity, (Content(d.buckets, d.capacity) \ {d.buckets[h][i]})
                                  \cup {[key |-> d.buckets[h][i].key, element |-> e]})
    <3> HIDE DEF h
    <3> QED
      BY <1>1, SoundFacts, ChainedReplace
  <2> QED
    BY <2>1, <1>1, <1>2 DEF NewEntry, ContentOf
<1>5. d.size = Cardinality(C)
  <2>1. entry \notin ContentOf(d) \ {old}
    <3>1. entry.key = key
      BY DEF NewEntry
    <3> HIDE DEF entry
    <3> QED
      BY <3>1, <1>2, SoundFacts
  <2>2. /\ IsFiniteSet(ContentOf(d) \ {old})
        /\ Cardinality(ContentOf(d) \ {old}) = Cardinality(ContentOf(d)) - 1
    BY <1>2, SoundFacts, FS_RemoveElement
  <2>3. Cardinality(C) = Cardinality(ContentOf(d) \ {old}) + 1
    <3> DEFINE rest == ContentOf(d) \ {old}
    <3>1. IsFiniteSet(rest) /\ entry \notin rest /\ C = rest \cup {entry}
      BY <2>1, <2>2
    <3> HIDE DEF rest, entry, C
    <3>2. Cardinality(C) = Cardinality(rest) + 1
      BY <3>1, FS_AddElement
    <3> QED
      BY <3>2 DEF rest
  <2> HIDE DEF C, old
  <2> QED
    BY <2>2, <2>3, SoundFacts DEF Sound
<1> HIDE DEF entry, C, b
<1>6. SoundWith(Changed(d, b, d.size, d.changes, d.load), C)
  BY <1>4, <1>5, SoundFacts, SoundChange DEF Sound
<1> QED
  BY <1>3, <1>6 DEF C, entry

\* hm_remove of a key that is there
LEMMA RemoveSound ==
    ASSUME NEW d, Sound(d), NEW key \in Key, InBounds(key, d.capacity),
           NEW i \in Found(d, key), NEW new,
           new = [d EXCEPT !.buckets[hash(key, d.capacity)] = RemoveAt(@, i),
                           !.size = @ - 1, !.changes = @ + 1,
                           !.load = @ - Increment(d.capacity)]
    PROVE  SoundWith(new, ContentOf(d) \ {Chain(d, key)[i]})
<1> DEFINE h == hash(key, d.capacity)
           old == Chain(d, key)[i]
           C == ContentOf(d) \ {old}
           b == TakeOutOf(d.buckets, h, i)
           size == d.size - 1
           load == d.load - Increment(d.capacity)
<1>1. h \in 0..d.capacity - 1 /\ old = d.buckets[h][i] /\ i \in 1..Len(d.buckets[h])
  BY FoundFacts DEF InBounds, Chain
<1>2. old \in ContentOf(d)
  BY FoundFacts
<1>3. new = Changed(d, b, size, d.changes + 1, load)
  BY <1>1 DEF Changed, TakeOutOf, Sound, MapRecords
<1>4. Holds(b, d.capacity, C)
  <2> HIDE DEF h
  <2> QED
    BY <1>1, SoundFacts, ChainedRemove DEF ContentOf
<1>5. size \in Nat /\ size = Cardinality(C)
  <2>1. IsFiniteSet(C) /\ Cardinality(C) = Cardinality(ContentOf(d)) - 1
    <3> HIDE DEF old
    <3> QED
      BY <1>2, SoundFacts, FS_RemoveElement
  <2>2. Cardinality(C) \in Nat
    BY <2>1, FS_CardinalityType
  <2> HIDE DEF C
  <2> QED
    BY <2>1, <2>2, SoundFacts DEF Sound
<1>6. load \in Nat /\ load = size * Increment(d.capacity)
  <2>1. /\ Increment(d.capacity) \in Nat /\ d.size = size + 1
        /\ d.load = d.size * Increment(d.capacity)
    BY <1>5, SoundFacts DEF Sound
  <2> HIDE DEF size
  <2>2. /\ d.load = size * Increment(d.capacity) + Increment(d.capacity)
        /\ size * Increment(d.capacity) \in Nat
    BY <2>1, <1>5, OneMore
  <2> QED
    BY <2>1, <2>2
<1>7. d.changes + 1 \in Nat
  BY SoundFacts
<1> HIDE DEF C, b, size, load
<1>8. SoundWith(Changed(d, b, size, d.changes + 1, load), C)
  BY <1>4, <1>5, <1>6, <1>7, SoundChange
<1> QED
  BY <1>3, <1>8 DEF C

\* hm_clear, and HashMap_create
LEMMA ClearSound ==
    ASSUME NEW d, Sound(d), NEW new,
           new = [d EXCEPT !.buckets = [i \in DOMAIN @ |-> <<>>], !.size = 0,
                           !.load = 0, !.changes = 0]
    PROVE  SoundWith(new, {})
<1> DEFINE b == [i \in 0..d.capacity - 1 |-> <<>>]
           none == 0
<1>1. DOMAIN d.buckets = 0..d.capacity - 1
  BY DEF Sound, Chained, Arrays
<1>2. new = Changed(d, b, none, none, none)
  BY <1>1 DEF Changed, Sound, MapRecords
<1>3. Holds(b, d.capacity, {})
  BY SoundFacts, EmptyArray
<1>4. none \in Nat /\ none = Cardinality({}) /\ none = none * Increment(d.capacity)
  BY SoundFacts, FS_EmptySet
<1> HIDE DEF b, none
<1>5. SoundWith(Changed(d, b, none, none, none), {})
  BY <1>3, <1>4, SoundChange
<1> QED
  BY <1>2, <1>5

LEMMA CreateSound == SoundWith(HashMap_create, {})
<1> DEFINE b == [i \in 0..CAPACITY - 1 |-> <<>>]
<1>1. CAPACITY \in 1..MAX_CAPACITY /\ CAPACITY \in Nat /\ MAX_CAPACITY % CAPACITY = 0
  <2>1. /\ CAPACITY \in Nat \ {0} /\ MAX_CAPACITY \in Nat \ {0} /\ MAX_CAPACITY % CAPACITY = 0
    BY MapBounds
  <2>2. MAX_CAPACITY \div CAPACITY \in Nat /\ MAX_CAPACITY = CAPACITY * (MAX_CAPACITY \div CAPACITY)
    BY <2>1, Divides
  <2> DEFINE p == MAX_CAPACITY \div CAPACITY
  <2> HIDE DEF p
  <2>3. p \in Nat /\ MAX_CAPACITY = CAPACITY * p
    BY <2>2 DEF p
  <2>4. p # 0
    BY <2>1, <2>3
  <2>5. CAPACITY <= CAPACITY * p
    BY <2>1, <2>3, <2>4
  <2> QED
    BY <2>1, <2>3, <2>5
<1>2. Holds(b, CAPACITY, {})
  BY <1>1, EmptyArray
<1>3. Cardinality({}) = 0 /\ Increment(CAPACITY) \in Nat /\ 0 = 0 * Increment(CAPACITY)
  BY <1>1, IncrementType, FS_EmptySet
<1>4. HashMap_create = [size |-> 0, capacity |-> CAPACITY, changes |-> 0, load |-> 0, buckets |-> b]
  BY DEF HashMap_create
<1> HIDE DEF b
<1> QED
  BY <1>1, <1>2, <1>3, <1>4, SoundAgain

\* The map in which the changes are noted, and the resized one.
LEMMA NotedSound ==
    ASSUME NEW d, Sound(d), NEW noted, noted = [d EXCEPT !.changes = 0]
    PROVE  /\ SoundWith(noted, ContentOf(d)) /\ AllEntries(noted) = AllEntries(d)
           /\ noted.capacity = d.capacity
<1>1. noted = Changed(d, d.buckets, d.size, 0, d.load)
  BY DEF Changed, Sound, MapRecords
<1>2. Holds(d.buckets, d.capacity, ContentOf(d))
  BY DEF Holds, Sound, ContentOf
<1>5. /\ d.size \in Nat /\ d.size = Cardinality(ContentOf(d)) /\ 0 \in Nat
      /\ d.load \in Nat /\ d.load = d.size * Increment(d.capacity)
  BY SoundFacts DEF Sound
<1>3. SoundWith(Changed(d, d.buckets, d.size, 0, d.load), ContentOf(d))
  BY <1>2, <1>5, SoundChange
<1>4. AllEntries(noted) = AllEntries(d) /\ noted.capacity = d.capacity
  BY <1>1 DEF AllEntries, Changed
<1> QED
  BY <1>1, <1>3, <1>4

LEMMA ResizeSound ==
    ASSUME NEW d, Sound(d), DoubledCapacity(d) # d.capacity,
           Fits(AllEntries(d), DoubledCapacity(d))
    PROVE  SoundWith(resize(d), ContentOf(d))
<1> DEFINE n == 2 * d.capacity
           s == AllEntries(d)
           b == Redistribute(s, n)
           load == d.load \div 2
<1>0. d.capacity \in 1..MAX_CAPACITY /\ MAX_CAPACITY % d.capacity = 0 /\ MAX_CAPACITY \in Nat
  BY SoundFacts, MapBounds DEF Sound
<1>1. d.capacity # MAX_CAPACITY
  BY <1>0 DEF DoubledCapacity
<1>2. /\ n \in 1..MAX_CAPACITY /\ MAX_CAPACITY % n = 0
      /\ Increment(n) \in Nat /\ Increment(d.capacity) = 2 * Increment(n)
  BY <1>0, <1>1, CapacityDoubles
<1>3. DoubledCapacity(d) = n /\ n \in Nat
  BY <1>0, <1>2 DEF DoubledCapacity
<1>4. Holds(b, n, ContentOf(d))
  <2> HIDE DEF n, s
  <2>1. Lists(s, ContentOf(d)) /\ Fits(s, n)
    BY <1>3, SoundFacts DEF s
  <2> QED
    BY <2>1, <1>3, Redistributed
<1>5. load \in Nat /\ load = d.size * Increment(n)
  <2>1. d.load = d.size * (2 * Increment(n)) /\ d.size \in Nat
    BY <1>2, SoundFacts DEF Sound
  <2> HIDE DEF n
  <2> QED
    BY <2>1, <1>2, OneMore
<1>6. d.size \in Nat /\ d.size = Cardinality(ContentOf(d))
  BY SoundFacts DEF Sound
<1>7. resize(d) = [size |-> d.size, capacity |-> n, changes |-> 0, load |-> load, buckets |-> b]
  <2> HIDE DEF n
  <2>1. resize(d) = [d EXCEPT !.capacity = n, !.load = load, !.changes = 0, !.buckets = b]
    BY <1>3 DEF resize
  <2> HIDE DEF load, b
  <2> QED
    BY <2>1 DEF Sound, MapRecords
<1> HIDE DEF n, s, b, load
<1> QED
  BY <1>2, <1>4, <1>5, <1>6, <1>7, SoundAgain

\* What the check leaves has the same entries.
LEMMA CheckedSound ==
    ASSUME NEW m, Sound(m), NEW d \in Checked(m)
    PROVE  SoundWith(d, ContentOf(m))
<1> DEFINE noted == [m EXCEPT !.changes = 0]
<1>1. /\ SoundWith(noted, ContentOf(m)) /\ AllEntries(noted) = AllEntries(m)
      /\ noted.capacity = m.capacity
  BY NotedSound
<1>2. d = m \/ d = noted \/ (Due(m) /\ ~ResizeGoesWild(m) /\ d = resize(noted))
  BY DEF Checked
<1> HIDE DEF noted
<1>3. CASE d = m
  BY <1>3 DEF SoundWith
<1>4. CASE d = noted
  BY <1>1, <1>4
<1>5. CASE Due(m) /\ ~ResizeGoesWild(m) /\ d = resize(noted)
  <2>1. Sound(noted) /\ ContentOf(noted) = ContentOf(m)
    BY <1>1 DEF SoundWith
  <2>2. DoubledCapacity(noted) = DoubledCapacity(m)
    BY <1>1 DEF DoubledCapacity
  <2>3. DoubledCapacity(noted) # noted.capacity
    BY <1>1, <1>5, <2>2 DEF Due
  <2>4. Fits(AllEntries(m), DoubledCapacity(m))
    BY <1>5 DEF Fits, ResizeGoesWild, Entries, InBounds
  <2> QED
    BY <1>1, <1>5, <2>1, <2>2, <2>3, <2>4, ResizeSound
<1> QED
  BY <1>2, <1>3, <1>4, <1>5
-------------------------------------------------------------------------------
\* The map as a partial function.

DictOf(C) == [k \in KeysIn(C) |-> (CHOOSE e \in C : e.key = k).element]

Functional(C) == C \subseteq Entry /\ \A e, f \in C : e.key = f.key => e = f

\* Its keys and elements are those of the entries.
LEMMA DictFacts ==
    ASSUME NEW C, Functional(C)
    PROVE  /\ DOMAIN DictOf(C) = KeysIn(C) /\ KeysIn(C) \subseteq Key
           /\ \A e \in C : e.key \in KeysIn(C) /\ DictOf(C)[e.key] = e.element
           /\ \A k \in KeysIn(C) : \E e \in C : e.key = k
<1>1. ASSUME NEW e \in C
      PROVE  e.key \in KeysIn(C) /\ DictOf(C)[e.key] = e.element
  <2>1. e.key \in KeysIn(C)
    BY DEF KeysIn
  <2>2. (CHOOSE f \in C : f.key = e.key) = e
    BY DEF Functional
  <2> QED
    BY <2>1, <2>2 DEF DictOf
<1>2. KeysIn(C) \subseteq Key
  BY DEF KeysIn, Functional, Entry
<1> QED
  BY <1>1, <1>2 DEF DictOf, KeysIn

\* f is a function that has the elements of the entries C.
IsDict(f, C) ==
    /\ f = [k \in KeysIn(C) |-> f[k]]
    /\ \A e \in C : f[e.key] = e.element

LEMMA DictKnown ==
    ASSUME NEW C, Functional(C), NEW f, IsDict(f, C)
    PROVE  DictOf(C) = f
<1>0. f = [k \in KeysIn(C) |-> f[k]] /\ \A e \in C : f[e.key] = e.element
  BY DEF IsDict
<1>1. \A k \in KeysIn(C) : DictOf(C)[k] = f[k]
  BY <1>0, DictFacts
<1>2. DictOf(C) = [k \in KeysIn(C) |-> DictOf(C)[k]]
  BY DEF DictOf
<1> QED
  BY <1>0, <1>1, <1>2

\* What findKey finds is the function of the entries.
LEMMA MappingIs ==
    ASSUME NEW d, Sound(d)
    PROVE  Mapping(d) = DictOf(ContentOf(d)) /\ Functional(ContentOf(d))
<1> DEFINE C == ContentOf(d)
           K == {k \in Key : InBounds(k, d.capacity) /\ Found(d, k) # {}}
           f == Mapping(d)
<1>1. Functional(C)
  BY SoundFacts DEF Functional
<1>2. ASSUME NEW e \in C
      PROVE  e.key \in Key /\ InBounds(e.key, d.capacity) /\ e.key \in KeysIn(C)
  <2>1. d.capacity \in Nat /\ Chained(d.buckets, d.capacity)
    BY SoundFacts
  <2>2. hash(e.key, d.capacity) \in 0..d.capacity - 1
    BY <2>1, ContentFacts DEF ContentOf
  <2>3. e \in Entry
    BY SoundFacts
  <2> QED
    BY <2>2, <2>3 DEF InBounds, KeysIn, Entry
<1>3. K = KeysIn(C)
  <2>1. ASSUME NEW k \in KeysIn(C)
        PROVE  k \in K
    <3>1. PICK e \in C : k = e.key
      BY DEF KeysIn
    <3> QED
      BY <3>1, <1>2, FoundFacts
  <2>2. ASSUME NEW k \in K
        PROVE  k \in KeysIn(C)
    BY FoundFacts
  <2> QED
    BY <2>1, <2>2
<1>4. f = [key \in K |-> Chain(d, key)[CHOOSE i \in Found(d, key) : TRUE].element]
  BY DEF Mapping
<1>5. ASSUME NEW e \in C
      PROVE  f[e.key] = e.element
  <2> DEFINE i == CHOOSE i \in Found(d, e.key) : TRUE
  <2>1. e.key \in K /\ e.key \in Key /\ InBounds(e.key, d.capacity)
    BY <1>2, <1>3
  <2>2. i \in Found(d, e.key)
    BY <2>1
  <2> HIDE DEF i
  <2>3. Chain(d, e.key)[i] \in C /\ Chain(d, e.key)[i].key = e.key
    BY <2>1, <2>2, FoundFacts
  <2>4. Chain(d, e.key)[i] = e
    BY <2>3, <1>1 DEF Functional
  <2>5. f[e.key] = Chain(d, e.key)[i].element
    BY <2>1, <1>4 DEF i
  <2> QED
    BY <2>4, <2>5
<1>6. f = [k \in KeysIn(C) |-> f[k]]
  <2> HIDE DEF K, f
  <2> QED
    BY <1>3, <1>4
<1> HIDE DEF C, f
<1>i. IsDict(f, C)
  BY <1>5, <1>6 DEF IsDict
<1>7. DictOf(C) = f
  BY <1>i, <1>1, DictKnown
<1> QED
  BY <1>1, <1>7 DEF C, f

\* An entry is added, or takes the place of the old one.
LEMMA DictBind ==
    ASSUME NEW C, Functional(C), NEW key \in Key, NEW e \in Element, NEW D, Functional(D),
           D = {x \in C : x.key # key} \cup {NewEntry(key, e)}
    PROVE  DictOf(D) = [k \in KeysIn(C) \cup {key} |-> IF k = key THEN e ELSE DictOf(C)[k]]
<1> DEFINE entry == NewEntry(key, e)
           f == [k \in KeysIn(C) \cup {key} |-> IF k = key THEN e ELSE DictOf(C)[k]]
<1>1. entry.key = key /\ entry.element = e
  BY DEF NewEntry
<1> HIDE DEF entry
<1>2. D = {x \in C : x.key # key} \cup {entry}
  BY DEF entry
<1>3. KeysIn(D) = KeysIn(C) \cup {key}
  BY <1>1, <1>2 DEF KeysIn
<1>4. \A x \in C : x.key \in KeysIn(C) /\ DictOf(C)[x.key] = x.element
  BY DictFacts
<1>5. \A x \in D : f[x.key] = x.element
  <2>1. f[key] = e
    OBVIOUS
  <2>2. ASSUME NEW x \in C, x.key # key
        PROVE  f[x.key] = x.element
    BY <2>2, <1>4
  <2> HIDE DEF f
  <2> QED
    BY <2>1, <2>2, <1>1, <1>2
<1>6. f = [k \in KeysIn(D) |-> f[k]]
  BY <1>3
<1> HIDE DEF f
<1>i. IsDict(f, D)
  BY <1>5, <1>6 DEF IsDict
<1>7. DictOf(D) = f
  BY <1>i, DictKnown
<1> QED
  BY <1>7 DEF f

\* An entry is taken out.
LEMMA DictDrop ==
    ASSUME NEW C, Functional(C), NEW old \in C, NEW D, D = C \ {old}
    PROVE  DictOf(D) = [k \in KeysIn(C) \ {old.key} |-> DictOf(C)[k]]
<1> DEFINE f == [k \in KeysIn(C) \ {old.key} |-> DictOf(C)[k]]
<1>1. Functional(D)
  BY DEF Functional
<1>2. KeysIn(D) = KeysIn(C) \ {old.key}
  BY DEF KeysIn, Functional
<1>3. \A x \in D : x.key \in KeysIn(D) /\ f[x.key] = x.element
  <2>1. \A x \in D : x.key \in KeysIn(D) /\ DictOf(C)[x.key] = x.element
    BY DictFacts DEF KeysIn
  <2> QED
    BY <2>1, <1>2
<1>4. f = [k \in KeysIn(D) |-> f[k]]
  BY <1>2
<1> HIDE DEF f
<1>i. IsDict(f, D)
  BY <1>3, <1>4 DEF IsDict
<1>5. DictOf(D) = f
  BY <1>i, <1>1, DictKnown
<1> QED
  BY <1>5 DEF f

\* The entries in a sequence, the entries and the keys are as many as size says.
LEMMA SoundCounts ==
    ASSUME NEW d, Sound(d)
    PROVE  /\ ToSet(AllEntries(d)) = ContentOf(d)
           /\ Keys(d) = KeysIn(ContentOf(d))
           /\ Cardinality(KeysIn(ContentOf(d))) = d.size
           /\ d.size > 0 => KeysIn(ContentOf(d)) # {}
<1>1. Lists(AllEntries(d), ContentOf(d)) /\ Len(AllEntries(d)) = d.size /\ d.size \in Nat
  BY SoundFacts
<1>2. DOMAIN AllEntries(d) = 1..Len(AllEntries(d))
  BY <1>1, LenProperties DEF Lists
<1>3. ToSet(AllEntries(d)) = ContentOf(d)
  BY <1>1, <1>2 DEF ToSet, Lists, Entries
<1>4. Cardinality(KeysIn(ContentOf(d))) = d.size
  BY <1>1, ListedCount
<1>5. Keys(d) = KeysIn(ContentOf(d))
  BY <1>3 DEF Keys, KeysIn
<1>6. KeysIn(ContentOf(d)) = {} => d.size = 0
  BY <1>4, FS_EmptySet
<1> QED
  BY <1>1, <1>3, <1>4, <1>5, <1>6
-------------------------------------------------------------------------------
\* Every call is a call of the partial function.

\* What the partial function takes from Adt and FiniteSets is the same.
LEMMA SameAnswer == \A call, status, e : AsMap!Returned(call, status, e) = Returned(call, status, e)
BY DEF AsMap!Returned, Returned

LEMMA SameCount == \A S : AsMap!Cardinality(S) = Cardinality(S)
BY DEF AsMap!Cardinality, Cardinality

\* An insertion into the map after the check.
LEMMA InsertionStep ==
    ASSUME Sound(hmd), NEW key \in Key, NEW e \in Element, NEW d \in Checked(hmd),
           InBounds(key, d.capacity), Found(d, key) = {}, NEW name, Insertion(d, key, e, name)
    PROVE  /\ key \notin AsMap!Present
           /\ Sound(hmd')
           /\ \/ /\ Mapping(hmd') = AsMap!Bind(key, e)
                 /\ hm_ret' = Returned(<<name, key>>, 1, NULL)
              \/ /\ Mapping(hmd') = Mapping(hmd)
                 /\ hm_ret' = Returned(<<name, key>>, 0, NULL)
<1> DEFINE C == ContentOf(hmd)
           D == C \cup {NewEntry(key, e)}
<1>1. Mapping(hmd) = DictOf(C) /\ Functional(C) /\ DOMAIN DictOf(C) = KeysIn(C)
  BY MappingIs, DictFacts
<1>2. Sound(d) /\ ContentOf(d) = C
  BY CheckedSound DEF SoundWith
<1>3. key \notin KeysIn(C)
  BY <1>2, FoundFacts
<1>4. key \notin AsMap!Present
  BY <1>1, <1>3 DEF AsMap!Present
<1>5. CASE hmd' = Inserted(d, key, e) /\ hm_ret' = Returned(<<name, key>>, 1, NULL)
  <2>1. Sound(hmd') /\ ContentOf(hmd') = D
    BY <1>2, <1>5, InsertedSound DEF SoundWith
  <2>2. D = {x \in C : x.key # key} \cup {NewEntry(key, e)}
    BY <1>3 DEF KeysIn
  <2> HIDE DEF C, D
  <2>3. Mapping(hmd') = DictOf(D) /\ Functional(D)
    BY <2>1, MappingIs
  <2>4. DictOf(D) = [k \in KeysIn(C) \cup {key} |-> IF k = key THEN e ELSE DictOf(C)[k]]
    BY <1>1, <2>2, <2>3, DictBind
  <2>5. Mapping(hmd') = AsMap!Bind(key, e)
    BY <1>1, <2>3, <2>4 DEF AsMap!Bind, AsMap!Present
  <2> QED
    BY <1>4, <1>5, <2>1, <2>5
<1>6. CASE hmd' = d /\ hm_ret' = Returned(<<name, key>>, 0, NULL)
  <2>1. Mapping(hmd') = DictOf(C)
    BY <1>2, <1>6, MappingIs
  <2> QED
    BY <1>1, <1>2, <1>4, <1>6, <2>1
<1> QED
  BY <1>5, <1>6 DEF Insertion

\* The puts, of a new key and of one that is there.
LEMMA PutUniqueStep ==
    ASSUME Sound(hmd), NEW key \in Key, NEW e \in Element, NEW d \in Checked(hmd),
           InBounds(key, d.capacity), hm_putUnique(d, key, e)
    PROVE  Sound(hmd') /\ AsMap!PutUnique(key, e)
<1>1. CASE Found(d, key) = {}
  <2>1. Insertion(d, key, e, "putUnique")
    BY <1>1 DEF hm_putUnique
  <2> QED
    BY SameAnswer, <1>1, <2>1, InsertionStep DEF AsMap!PutUnique, AsMap!Answers
<1>2. CASE Found(d, key) # {}
  <2>1. hmd' = d /\ hm_ret' = Returned(<<"putUnique", key>>, 0, NULL)
    BY <1>2 DEF hm_putUnique
  <2>2. Sound(d) /\ ContentOf(d) = ContentOf(hmd)
    BY CheckedSound DEF SoundWith
  <2>3. Mapping(hmd') = Mapping(hmd)
    BY <2>1, <2>2, MappingIs
  <2> QED
    BY SameAnswer, <2>1, <2>2, <2>3 DEF AsMap!PutUnique, AsMap!Answers
<1> QED
  BY <1>1, <1>2

LEMMA PutStep ==
    ASSUME Sound(hmd), NEW key \in Key, NEW e \in Element, NEW d \in Checked(hmd),
           InBounds(key, d.capacity), hm_put(d, key, e, TRUE)
    PROVE  Sound(hmd') /\ AsMap!Put(key, e)
<1> DEFINE C == ContentOf(hmd)
<1>1. CASE Found(d, key) = {}
  <2>1. Insertion(d, key, e, "put")
    BY <1>1 DEF hm_put
  <2> QED
    BY SameAnswer, <1>1, <2>1, InsertionStep DEF AsMap!Put, AsMap!Answers
<1>2. CASE Found(d, key) # {}
  <2>1. PICK i \in Found(d, key) :
           /\ hmd' = [d EXCEPT !.buckets[hash(key, d.capacity)][i].element = e]
           /\ hm_ret' = Returned(<<"put", key>>, 1, Chain(d, key)[i].element)
    BY <1>2 DEF hm_put
  <2> DEFINE old == Chain(d, key)[i]
             D == (C \ {old}) \cup {NewEntry(key, e)}
  <2>2. Sound(d) /\ ContentOf(d) = C
    BY CheckedSound DEF SoundWith
  <2>3. old \in C /\ old.key = key
    BY <2>2, FoundFacts
  <2>4. Sound(hmd') /\ ContentOf(hmd') = D
    BY <2>1, <2>2, RewriteSound DEF SoundWith
  <2>5. Mapping(hmd) = DictOf(C) /\ Functional(C) /\ DOMAIN DictOf(C) = KeysIn(C)
    BY MappingIs, DictFacts
  <2>6. D = {x \in C : x.key # key} \cup {NewEntry(key, e)}
    BY <2>3, <2>5 DEF Functional
  <2>7. DictOf(C)[key] = old.element /\ key \in KeysIn(C)
    BY <2>3, <2>5, DictFacts
  <2>9. hm_ret' = Returned(<<"put", key>>, 1, old.element)
    BY <2>1
  <2> HIDE DEF C, D, old
  <2>8. Mapping(hmd') = DictOf(D) /\ Functional(D)
    BY <2>4, MappingIs
  <2>10. DictOf(D) = [k \in KeysIn(C) \cup {key} |-> IF k = key THEN e ELSE DictOf(C)[k]]
    BY <2>5, <2>6, <2>8, DictBind
  <2>11. Mapping(hmd') = AsMap!Bind(key, e)
    BY <2>5, <2>8, <2>10 DEF AsMap!Bind, AsMap!Present
  <2>12. key \in AsMap!Present /\ Mapping(hmd)[key] = old.element
    BY <2>5, <2>7 DEF AsMap!Present
  <2> QED
    BY SameAnswer, <2>4, <2>9, <2>11, <2>12 DEF AsMap!Put
<1> QED
  BY <1>1, <1>2

\* Looking a key up.
LEMMA LookupSteps ==
    ASSUME Sound(hmd), NEW key \in Key, InBounds(key, hmd.capacity)
    PROVE  /\ hm_get(key) => Sound(hmd') /\ AsMap!Lookup(key)
           /\ hm_containsKey(key) => Sound(hmd') /\ AsMap!ContainsKey(key)
<1> DEFINE C == ContentOf(hmd)
<1>1. Mapping(hmd) = DictOf(C) /\ Functional(C) /\ DOMAIN DictOf(C) = KeysIn(C)
  BY MappingIs, DictFacts
<1>2. key \in AsMap!Present <=> Found(hmd, key) # {}
  BY <1>1, FoundFacts DEF AsMap!Present
<1>3. \A i \in Found(hmd, key) : Mapping(hmd)[key] = Chain(hmd, key)[i].element
  BY <1>1, FoundFacts, DictFacts
<1>4. ASSUME hm_get(key)
      PROVE  Sound(hmd') /\ AsMap!Lookup(key)
  <2>1. hmd' = hmd
    BY <1>4 DEF hm_get
  <2>2. CASE Found(hmd, key) = {}
    BY SameAnswer, <1>2, <1>4, <2>1, <2>2 DEF hm_get, AsMap!Lookup, AsMap!Answers
  <2>3. CASE Found(hmd, key) # {}
    <3>1. hm_ret' = Returned(<<"get", key>>, 1, Mapping(hmd)[key])
      BY <1>3, <1>4, <2>3 DEF hm_get
    <3> QED
      BY SameAnswer, <1>2, <2>1, <2>3, <3>1 DEF AsMap!Lookup, AsMap!Answers
  <2> QED
    BY <2>2, <2>3
<1>5. ASSUME hm_containsKey(key)
      PROVE  Sound(hmd') /\ AsMap!ContainsKey(key)
  BY SameAnswer, <1>2, <1>5 DEF hm_containsKey, AsMap!ContainsKey, AsMap!Answers
<1> QED
  BY <1>4, <1>5

\* A key is removed, if it is there.
LEMMA RemoveStep ==
    ASSUME Sound(hmd), NEW key \in Key, InBounds(key, hmd.capacity), hm_remove(key)
    PROVE  Sound(hmd') /\ AsMap!Remove(key)
<1> DEFINE C == ContentOf(hmd)
<1>1. Mapping(hmd) = DictOf(C) /\ Functional(C) /\ DOMAIN DictOf(C) = KeysIn(C)
  BY MappingIs, DictFacts
<1>2. CASE Found(hmd, key) = {}
  <2>1. key \notin AsMap!Present
    BY <1>1, <1>2, FoundFacts DEF AsMap!Present
  <2> QED
    BY SameAnswer, <1>2, <2>1 DEF hm_remove, AsMap!Remove, AsMap!Answers
<1>3. CASE Found(hmd, key) # {}
  <2>1. PICK i \in Found(hmd, key) :
           /\ hmd' = [hmd EXCEPT !.buckets[hash(key, hmd.capacity)] = RemoveAt(@, i),
                                 !.size = @ - 1, !.changes = @ + 1,
                                 !.load = @ - Increment(hmd.capacity)]
           /\ hm_ret' = Returned(<<"remove", key>>, 1, Chain(hmd, key)[i].element)
    BY <1>3 DEF hm_remove
  <2> DEFINE old == Chain(hmd, key)[i]
             D == C \ {old}
  <2>2. old \in C /\ old.key = key
    BY FoundFacts
  <2>3. Sound(hmd') /\ ContentOf(hmd') = D
    <3>1. SoundWith(hmd', ContentOf(hmd) \ {Chain(hmd, key)[i]})
      BY <2>1, RemoveSound
    <3> QED
      BY <3>1 DEF SoundWith
  <2>4. DictOf(C)[key] = old.element /\ key \in KeysIn(C)
    BY <2>2, <1>1, DictFacts
  <2>5. hm_ret' = Returned(<<"remove", key>>, 1, old.element)
    BY <2>1
  <2>6. DictOf(D) = [k \in KeysIn(C) \ {key} |-> DictOf(C)[k]]
    <3> HIDE DEF C, old
    <3> QED
      BY <2>2, <1>1, DictDrop
  <2> HIDE DEF C, D, old
  <2>7. Mapping(hmd') = DictOf(D)
    BY <2>3, MappingIs
  <2>8. Mapping(hmd') = [k \in AsMap!Present \ {key} |-> Mapping(hmd)[k]]
    BY <1>1, <2>6, <2>7 DEF AsMap!Present
  <2>9. key \in AsMap!Present /\ Mapping(hmd)[key] = old.element
    BY <1>1, <2>4 DEF AsMap!Present
  <2> QED
    BY SameAnswer, <2>3, <2>5, <2>8, <2>9 DEF AsMap!Remove
<1> QED
  BY <1>2, <1>3

\* The keys and entries, and the purge.
LEMMA ArraySteps ==
    ASSUME Sound(hmd)
    PROVE  /\ hm_keyArray => Sound(hmd') /\ AsMap!KeyArray
           /\ hm_entryArray => Sound(hmd') /\ AsMap!EntryArray
<1> DEFINE C == ContentOf(hmd)
<1>1. Mapping(hmd) = DictOf(C) /\ Functional(C) /\ DOMAIN DictOf(C) = KeysIn(C)
  BY MappingIs, DictFacts
<1>2. /\ ToSet(AllEntries(hmd)) = C /\ Cardinality(AsMap!Present) = hmd.size
      /\ hmd.size > 0 => AsMap!Present # {}
      /\ AsMap!Present = KeysIn(C)
  BY <1>1, SoundCounts DEF AsMap!Present
<1>3. {<<e.key, e.element>> : e \in C} = {<<k, Mapping(hmd)[k]>> : k \in AsMap!Present}
  <2>1. ASSUME NEW e \in C
        PROVE  e.key \in AsMap!Present /\ Mapping(hmd)[e.key] = e.element
    BY <1>1, <1>2, DictFacts
  <2>2. ASSUME NEW k \in AsMap!Present
        PROVE  \E e \in C : k = e.key /\ Mapping(hmd)[k] = e.element
    BY <1>1, <1>2, DictFacts
  <2> HIDE DEF C
  <2> QED
    BY <2>1, <2>2
<1>4. {e.key : e \in C} = AsMap!Present
  BY <1>2 DEF KeysIn
<1>5. ASSUME hm_keyArray
      PROVE  Sound(hmd') /\ AsMap!KeyArray
  <2>1. hmd' = hmd
    BY <1>5 DEF hm_keyArray
  <2> HIDE DEF C
  <2> QED
    BY SameAnswer, SameCount, <1>2, <1>4, <1>5, <2>1 DEF hm_keyArray, AsMap!KeyArray, AsMap!Answers
<1>6. ASSUME hm_entryArray
      PROVE  Sound(hmd') /\ AsMap!EntryArray
  <2>1. hmd' = hmd
    BY <1>6 DEF hm_entryArray
  <2> HIDE DEF C
  <2> QED
    BY SameAnswer, SameCount, <1>2, <1>3, <1>6, <2>1
       DEF hm_entryArray, AsMap!EntryArray, AsMap!Answers
<1> QED
  BY <1>5, <1>6

LEMMA ClearSteps ==
    ASSUME Sound(hmd), hm_clear \/ hm_destroy
    PROVE  Sound(hmd') /\ AsMap!Clear
<1>1. SoundWith(hmd', {})
  BY ClearSound, CreateSound DEF hm_clear, hm_destroy
<1>2. Mapping(hmd') = <<>>
  <2>1. Mapping(hmd') = DictOf({})
    BY <1>1, MappingIs DEF SoundWith
  <2> QED
    BY <2>1 DEF DictOf, KeysIn
<1>3. Len(AllEntries(hmd)) = Cardinality(AsMap!Present)
  BY MappingIs, DictFacts, SoundCounts, SoundFacts DEF AsMap!Present
<1> QED
  BY SameAnswer, SameCount, <1>1, <1>2, <1>3 DEF hm_clear, hm_destroy, AsMap!Clear, SoundWith
-------------------------------------------------------------------------------
\* The invariant is inductive, and every step is a step of the partial function.

\* The callers give hm_put a place for the element it replaces.
AlwaysPrevious == WANTS_PREVIOUS \subseteq {TRUE}

LEMMA SoundInit == MapInit => Sound(hmd) /\ AsMap!Init
<1> SUFFICES ASSUME MapInit
             PROVE  Sound(hmd) /\ AsMap!Init
  OBVIOUS
<1>1. SoundWith(hmd, {})
  BY CreateSound DEF MapInit
<1>2. Mapping(hmd) = DictOf({})
  BY <1>1, MappingIs DEF SoundWith
<1>3. DictOf({}) = <<>>
  BY DEF DictOf, KeysIn
<1> QED
  BY <1>1, <1>2, <1>3 DEF MapInit, SoundWith, AsMap!Init

LEMMA SoundStep ==
    ASSUME AlwaysPrevious, Sound(hmd), [MapNext]_mapVars
    PROVE  Sound(hmd') /\ [AsMap!Next]_AsMap!abstractMap
<1>1. ASSUME NEW key \in Key, NEW e \in Element, NEW d \in Checked(hmd), InBounds(key, d.capacity),
             hm_putUnique(d, key, e) \/ \E wants \in WANTS_PREVIOUS : hm_put(d, key, e, wants)
      PROVE  Sound(hmd') /\ AsMap!Next
  <2>1. hm_putUnique(d, key, e) \/ hm_put(d, key, e, TRUE)
    BY <1>1 DEF AlwaysPrevious
  <2>2. Sound(hmd') /\ (AsMap!PutUnique(key, e) \/ AsMap!Put(key, e))
    BY <1>1, <2>1, PutUniqueStep, PutStep
  <2> QED
    BY <2>2 DEF AsMap!Next
<1>2. ASSUME NEW key \in Key, InBounds(key, hmd.capacity),
             hm_get(key) \/ hm_containsKey(key) \/ hm_remove(key)
      PROVE  Sound(hmd') /\ AsMap!Next
  <2>1. Sound(hmd') /\ (AsMap!Lookup(key) \/ AsMap!ContainsKey(key) \/ AsMap!Remove(key))
    BY <1>2, LookupSteps, RemoveStep
  <2> QED
    BY <2>1 DEF AsMap!Next
<1>3. ASSUME hm_keyArray \/ hm_entryArray \/ hm_clear \/ hm_destroy
      PROVE  Sound(hmd') /\ AsMap!Next
  <2>1. Sound(hmd') /\ (AsMap!KeyArray \/ AsMap!EntryArray \/ AsMap!Clear)
    BY <1>3, ArraySteps, ClearSteps
  <2> QED
    BY <2>1 DEF AsMap!Next
<1>4. ASSUME UNCHANGED <<hmd, hm_ret>>
      PROVE  Sound(hmd') /\ UNCHANGED AsMap!abstractMap
  BY <1>4 DEF AsMap!abstractMap
<1>5. MapCall => Sound(hmd') /\ AsMap!Next
  BY <1>1, <1>2, <1>3 DEF MapCall
<1> QED
  BY <1>4, <1>5 DEF MapNext, mapVars

LEMMA SoundAccounts == Sound(hmd) => MapAccounting
<1> SUFFICES ASSUME Sound(hmd)
             PROVE  MapAccounting
  OBVIOUS
<1>1. hmd.size = Len(AllEntries(hmd)) /\ hmd.load = hmd.size * Increment(hmd.capacity)
  BY SoundFacts DEF Sound
<1>2. Cardinality(Keys(hmd)) = hmd.size
  BY SoundCounts
<1>3. ASSUME NEW i \in 0..hmd.capacity - 1, NEW j \in 1..Len(hmd.buckets[i])
      PROVE  hash(hmd.buckets[i][j].key, hmd.capacity) = i
  BY DEF Sound, Chained, Bucket, Entries
<1> QED
  BY <1>1, <1>2, <1>3 DEF MapAccounting

\* The counts of hashmap.c agree with its chains whatever is put, removed and resized,
\* at any capacity and for any keys: size, by which keyArray and entryArray allocate
\* what they then fill with one key or entry after the other, is the number of
\* entries, and no key has two.
THEOREM MapCountsAgree ==
    ASSUME AlwaysPrevious
    PROVE  MapSpec => []MapAccounting
<1>1. MapInit => Sound(hmd)
  BY SoundInit
<1>2. Sound(hmd) /\ [MapNext]_mapVars => Sound(hmd)'
  BY SoundStep
<1>3. MapSpec => []Sound(hmd)
  BY <1>1, <1>2, PTL DEF MapSpec
<1> QED
  BY <1>3, SoundAccounts, PTL

\* hashmap.c does what hashmap.h promises: each call is the call of AbstractMap on the
\* partial function that the chains are, and returns what that returns; a resize
\* changes nothing of it.
THEOREM MapIsFunction ==
    ASSUME AlwaysPrevious
    PROVE  MapSpec => ImplementsMap
<1>1. MapInit => Sound(hmd) /\ AsMap!Init
  BY SoundInit
<1>2. Sound(hmd) /\ [MapNext]_mapVars => Sound(hmd)' /\ [AsMap!Next]_AsMap!abstractMap
  BY SoundStep
<1> QED
  BY <1>1, <1>2, PTL DEF MapSpec, ImplementsMap, AsMap!Spec
-------------------------------------------------------------------------------
\* Keys of plain ASCII.

PlainKeys == Key \subseteq Seq(1..127)

\* A step of hash on a char that is not negative.
LEMMA RemainderBounded ==
    ASSUME NEW n \in Nat \ {0}, NEW ans \in 0..n - 1, NEW char \in 1..127
    PROVE  Remainder(7 * ans + char, n) \in 0..n - 1
<1> DEFINE x == 7 * ans + char
<1>1. x \in Nat /\ ~(x < 0)
  OBVIOUS
<1> HIDE DEF x
<1>2. x % n \in 0..n - 1
  BY <1>1
<1> QED
  BY <1>1, <1>2 DEF Remainder, x

\* What hash returns for such a key is the index of a bucket.
LEMMA PlainHash ==
    ASSUME PlainKeys, NEW key \in Key, NEW n \in 1..MAX_CAPACITY
    PROVE  InBounds(key, n)
<1> DEFINE N == Len(key)
           V == 0..n - 1
           F == [q \in (1..N) \X V |-> Remainder(7 * q[2] + key[q[1]], n)]
           Is(g) == g = [S \in SUBSET (1..N) |->
                            IF S = {} THEN 0
                            ELSE Remainder(7 * g[S \ {Max(S)}] + key[Max(S)], n)]
           iter == CHOOSE g : Is(g)
<1>n. /\ N \in Nat /\ DOMAIN key = 1..N /\ \A i \in 1..N : key[i] \in 1..127
      /\ n \in Nat \ {0} /\ 0 \in V
  <2>1. key \in Seq(1..127)
    BY DEF PlainKeys
  <2>2. N \in Nat /\ DOMAIN key = 1..N /\ \A i \in 1..N : key[i] \in 1..127
    BY <2>1, LenProperties
  <2>3. n \in Nat \ {0} /\ 0 \in V
    BY MapBounds
  <2> QED
    BY <2>2, <2>3
<1>1. F \in [(1..N) \X V -> V]
  <2> HIDE DEF N
  <2> QED
    BY <1>n, RemainderBounded
<1>2. hash(key, n) = iter[1..N]
  BY <1>n DEF hash, HashOf, FoldLeft, MapThenFoldSet
<1>3. \E g : Is(g)
  <2>1. PICK g \in [SUBSET (1..N) -> V] : \A S \in SUBSET (1..N) :
           g[S] = IF S = {} THEN 0 ELSE F[<<Max(S), g[S \ {Max(S)}]>>]
    <3> HIDE DEF F, N, V
    <3>1. F \in Steps(N, V)
      BY <1>1 DEF Steps
    <3>2. \E g : Recurses(g, N, V, 0, F)
      BY <3>1, <1>n, SubsetRecursion
    <3> QED
      BY <3>2 DEF Recurses
  <2>2. ASSUME NEW S \in SUBSET (1..N), S # {}
        PROVE  F[<<Max(S), g[S \ {Max(S)}]>>]
                  = Remainder(7 * g[S \ {Max(S)}] + key[Max(S)], n)
    <3>1. Max(S) \in 1..N
      BY <1>n, <2>2, MaxUpTo, S \subseteq 0..N
    <3>2. g[S \ {Max(S)}] \in V
      BY <2>1
    <3> QED
      BY <3>1, <3>2
  <2> HIDE DEF F, N
  <2> QED
    BY <2>1, <2>2
<1>4. Is(iter)
  <2> HIDE DEF Is
  <2> QED
    BY <1>3
<1> HIDE DEF iter, F
<1> DEFINE T == {k \in 0..N : iter[1..k] \in V}
<1>5. 0 \in T
  <2>1. 1..0 = {} /\ 0 \in 0..N
    BY <1>n
  <2> QED
    BY <2>1, <1>4, <1>n
<1>6. ASSUME NEW k \in 0..N, k < N, k \in T
      PROVE  k + 1 \in T
  <2>0. k \in Nat /\ k + 1 \in 0..N /\ k + 1 \in 1..N
    BY <1>n, <1>6
  <2>1. 1..k + 1 \in SUBSET (1..N) /\ 1..k + 1 # {}
    <3>1. k + 1 \in 1..k + 1 /\ \A i \in 1..k + 1 : i \in 1..N
      BY <2>0
    <3> QED
      BY <3>1
  <2>2. iter[1..k + 1] = Remainder(7 * iter[(1..k + 1) \ {Max(1..k + 1)}]
                                     + key[Max(1..k + 1)], n)
    BY <2>1, <1>4
  <2>3. Max(1..k + 1) = k + 1 /\ (1..k + 1) \ {k + 1} = 1..k
    BY <2>0, MaxOfInterval
  <2>4. iter[1..k] \in V /\ key[k + 1] \in 1..127
    BY <1>6, <1>n, <2>0
  <2>5. iter[1..k + 1] = Remainder(7 * iter[1..k] + key[k + 1], n)
    BY <2>2, <2>3
  <2>6. Remainder(7 * iter[1..k] + key[k + 1], n) \in V
    BY <2>4, <1>n, RemainderBounded
  <2> QED
    BY <2>0, <2>5, <2>6
<1>7. 0..N \subseteq T
  <2> HIDE DEF T, N
  <2> QED
    BY <1>5, <1>6, <1>n, UpToInduction
<1> QED
  BY <1>2, <1>7, <1>n DEF InBounds

LEMMA PlainKeysNotWild ==
    ASSUME PlainKeys, Sound(hmd), NEW key \in Key
    PROVE  ~GoesWild(key)
<1> DEFINE n == DoubledCapacity(hmd)
<1>1. hmd.capacity \in 1..MAX_CAPACITY /\ n \in 1..MAX_CAPACITY
  BY SoundFacts, MapBounds DEF DoubledCapacity
<1>2. ~ResizeGoesWild(hmd)
  <2>1. \A i \in 1..Len(AllEntries(hmd)) : AllEntries(hmd)[i].key \in Key
    <3>1. AllEntries(hmd) \in Seq(Entry)
      BY SoundFacts DEF Lists
    <3>2. \A i \in 1..Len(AllEntries(hmd)) : AllEntries(hmd)[i] \in Entry
      BY <3>1, LenProperties
    <3> QED
      BY <3>2 DEF Entry
  <2> QED
    BY <2>1, <1>1, PlainHash DEF ResizeGoesWild
<1>3. ASSUME NEW d \in Checked(hmd) \cup {hmd}
      PROVE  InBounds(key, d.capacity)
  <2>1. d.capacity \in 1..MAX_CAPACITY
    BY CheckedSound, SoundFacts DEF SoundWith
  <2> QED
    BY <2>1, PlainHash
<1> QED
  BY <1>2, <1>3 DEF GoesWild

\* hash keeps its promise, of an index within the array, for keys of plain ASCII: no such
\* key takes a call or a resize outside the buckets, at any capacity.
THEOREM PlainKeysStayInBounds ==
    ASSUME AlwaysPrevious, PlainKeys
    PROVE  MapSpec => []BucketsInBounds
<1> DEFINE J == Sound(hmd) /\ BucketsInBounds
<1>1. MapInit => J
  BY SoundInit DEF MapInit, BucketsInBounds
<1>2. J /\ [MapNext]_mapVars => J'
  <2>1. J /\ [MapNext]_mapVars => Sound(hmd)'
    BY SoundStep
  <2>2. J /\ [MapNext]_mapVars => BucketsInBounds'
    BY PlainKeysNotWild DEF MapNext, mapVars, BucketsInBounds
  <2> QED
    BY <2>1, <2>2
<1>3. J => BucketsInBounds
  OBVIOUS
<1> HIDE DEF J
<1> QED
  BY <1>1, <1>2, <1>3, PTL DEF MapSpec
==============================================================================
