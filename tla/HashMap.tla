------------------------------- MODULE HashMap -------------------------------
(***************************************************************************)
(* The hash map of adts/hashmap.c: an array of chains that is doubled when *)
(* it is found too full, which is looked at only when more than TRIGGER    *)
(* entries came or went.  Every call is one action, for the map is only    *)
(* used under the lock of the server.                                      *)
(*                                                                         *)
(* A key is the sequence of its chars, which are signed: for a key that is *)
(* not plain ASCII the remainder, and with it the index of the bucket, may *)
(* be negative.  hm_wild is set by an access outside of the array, and     *)
(* nothing is said of what happens after one.                              *)
(***************************************************************************)
EXTENDS Adt, Integers, SequencesExt, FiniteSets

CONSTANTS Key,
          CAPACITY, LF_NUM, LF_DEN,  \* HashMap_create(CAPACITY, LF_NUM / LF_DEN)
          MAX_CAPACITY, TRIGGER,     \* the limits of hashmap.c
          WANTS_PREVIOUS             \* may a put be given a place for the old element?

ASSUME KeysAreStrings == \A k \in Key : \A i \in 1..Len(k) : k[i] \in (-128..127) \ {0}
ASSUME MapBounds ==
    /\ CAPACITY \in Nat \ {0} /\ TRIGGER \in Nat
    /\ LF_NUM \in Nat \ {0} /\ LF_DEN \in Nat \ {0}
    /\ MAX_CAPACITY \in Nat \ {0} /\ MAX_CAPACITY % CAPACITY = 0
\* MAX_CAPACITY is a power of two: what divides it can be doubled.
ASSUME CapacitiesDouble ==
    \A n \in 1..MAX_CAPACITY - 1 : MAX_CAPACITY % n = 0 => MAX_CAPACITY % (2 * n) = 0
ASSUME PreviousIsBoolean == WANTS_PREVIOUS \subseteq BOOLEAN

VARIABLES
    hmd,       \* the private data of the map
    hm_ret,    \* the latest call, and what it returned
    hm_wild    \* the array of buckets was accessed outside its bounds

mapVars == <<hmd, hm_ret, hm_wild>>

Entry == [key : Key, element : Element]

\* The load is counted in units of 1 / MAX_CAPACITY.
Increment(capacity) == MAX_CAPACITY \div capacity

HashMap_create ==
    [size |-> 0, capacity |-> CAPACITY, changes |-> 0, load |-> 0,
     buckets |-> [i \in 0..CAPACITY - 1 |-> <<>>]]

\* C's %, which has the sign of its left side.
Remainder(x, n) == IF x < 0 THEN -((-x) % n) ELSE x % n

HashOf == [n \in 1..MAX_CAPACITY |-> [key \in Key |->
              FoldLeft(LAMBDA ans, c : Remainder(7 * ans + c, n), 0, key)]]

hash(key, n) == HashOf[n][key]

InBounds(key, n) == hash(key, n) \in 0..n - 1

Chain(d, key) == d.buckets[hash(key, d.capacity)]

\* Where findKey finds the key in its chain: the first entry, as a set.
Found(d, key) == {i \in 1..Len(Chain(d, key)) : /\ Chain(d, key)[i].key = key
                                                /\ \A j \in 1..i - 1 : Chain(d, key)[j].key # key}

\* The entries in the order keys and entries go over them, bucket by bucket.
AllEntries(d) == FlattenSeq([i \in 1..d.capacity |-> d.buckets[i - 1]])
-------------------------------------------------------------------------------
DoubledCapacity(d) ==
    IF 2 * d.capacity > MAX_CAPACITY THEN MAX_CAPACITY ELSE 2 * d.capacity

\* The chains of the new array: an entry goes to the head of its new chain.
Redistribute(entries, n) ==
    FoldLeft(LAMBDA array, e : [array EXCEPT ![hash(e.key, n)] = <<e>> \o @],
             [i \in 0..n - 1 |-> <<>>], entries)

\* Fault: the chains are moved as they are.
FaultKeepsBuckets(d) ==
    [d EXCEPT !.capacity = DoubledCapacity(d), !.load = @ \div 2, !.changes = 0,
              !.buckets = [i \in 0..DoubledCapacity(d) - 1 |->
                              IF i < d.capacity THEN d.buckets[i] ELSE <<>>]]

resize(d) ==
    [d EXCEPT !.capacity = DoubledCapacity(d), !.load = @ \div 2, !.changes = 0,
              !.buckets = Redistribute(AllEntries(d), DoubledCapacity(d))]

TooFull(d) == d.load * LF_DEN > LF_NUM * MAX_CAPACITY

Due(d) == d.changes > TRIGGER /\ TooFull(d) /\ DoubledCapacity(d) # d.capacity

\* A resize indexes the new array with every key.
ResizeGoesWild(d) ==
    Due(d) /\ \E i \in 1..Len(AllEntries(d)) :
                 ~InBounds(AllEntries(d)[i].key, DoubledCapacity(d))

\* What hm_put and hm_putUnique do first: the map as it is, or the resized one if
\* it is due for it and there is memory.
Checked(d) ==
    IF d.changes <= TRIGGER THEN {d}
    ELSE LET noted == [d EXCEPT !.changes = 0]
         IN  {noted} \cup IF Due(d) /\ ~ResizeGoesWild(d) THEN {resize(noted)} ELSE {}

\* insertEntry, if malloc and strdup return memory
Inserted(d, key, e) ==
    [d EXCEPT !.buckets[hash(key, d.capacity)] = <<[key |-> key, element |-> e]>> \o @,
              !.size = @ + 1, !.changes = @ + 1, !.load = @ + Increment(d.capacity)]
-------------------------------------------------------------------------------
\* An insertion into the map d, or a failed one.
Insertion(d, key, e, name) ==
    \/ hmd' = Inserted(d, key, e) /\ hm_ret' = Returned(<<name, key>>, 1, NULL)
    \/ hmd' = d /\ hm_ret' = Returned(<<name, key>>, 0, NULL)

\* d is the map after the check.  Without a place for the old element the new entry
\* is put before the old one, which stays.
hm_put(d, key, e, wants) ==
    IF Found(d, key) # {} /\ wants
    THEN \E i \in Found(d, key) :
            /\ hmd' = [d EXCEPT !.buckets[hash(key, d.capacity)][i].element = e]
            /\ hm_ret' = Returned(<<"put", key>>, 1, Chain(d, key)[i].element)
    ELSE Insertion(d, key, e, "put")

hm_putUnique(d, key, e) ==
    IF Found(d, key) = {}
    THEN Insertion(d, key, e, "putUnique")
    ELSE hmd' = d /\ hm_ret' = Returned(<<"putUnique", key>>, 0, NULL)

hm_get(key) ==
    /\ IF Found(hmd, key) = {} THEN hm_ret' = Returned(<<"get", key>>, 0, NULL)
       ELSE \E i \in Found(hmd, key) :
               hm_ret' = Returned(<<"get", key>>, 1, Chain(hmd, key)[i].element)
    /\ UNCHANGED hmd

hm_containsKey(key) ==
    /\ hm_ret' = Returned(<<"containsKey", key>>, IF Found(hmd, key) = {} THEN 0 ELSE 1, NULL)
    /\ UNCHANGED hmd

\* Fault: the load is left as it was.
FaultKeepsLoad(key) ==
    IF Found(hmd, key) = {} THEN hm_ret' = Returned(<<"remove", key>>, 0, NULL) /\ UNCHANGED hmd
    ELSE \E i \in Found(hmd, key) :
            /\ hmd' = [hmd EXCEPT !.buckets[hash(key, hmd.capacity)] = RemoveAt(@, i),
                                  !.size = @ - 1, !.changes = @ + 1]
            /\ hm_ret' = Returned(<<"remove", key>>, 1, Chain(hmd, key)[i].element)

hm_remove(key) ==
    IF Found(hmd, key) = {} THEN hm_ret' = Returned(<<"remove", key>>, 0, NULL) /\ UNCHANGED hmd
    ELSE \E i \in Found(hmd, key) :
            /\ hmd' = [hmd EXCEPT !.buckets[hash(key, hmd.capacity)] = RemoveAt(@, i),
                                  !.size = @ - 1, !.changes = @ + 1,
                                  !.load = @ - Increment(hmd.capacity)]
            /\ hm_ret' = Returned(<<"remove", key>>, 1, Chain(hmd, key)[i].element)

\* keys and entries allocate room for size of them.
hm_keyArray ==
    /\ \/ /\ hmd.size > 0
          /\ hm_ret' = [keys |-> {e.key : e \in ToSet(AllEntries(hmd))}, len |-> hmd.size]
       \/ hm_ret' = [keys |-> NULL]
    /\ UNCHANGED hmd

hm_entryArray ==
    /\ \/ /\ hmd.size > 0
          /\ hm_ret' = [entries |-> {<<e.key, e.element>> : e \in ToSet(AllEntries(hmd))},
                        len |-> hmd.size]
       \/ hm_ret' = [entries |-> NULL]
    /\ UNCHANGED hmd

\* hm_clear keeps the capacity; hm_destroy purges the same entries.
hm_clear ==
    /\ hmd' = [hmd EXCEPT !.buckets = [i \in DOMAIN @ |-> <<>>], !.size = 0,
                          !.load = 0, !.changes = 0]
    /\ hm_ret' = [cleared |-> Len(AllEntries(hmd))]

hm_destroy ==
    /\ hmd' = HashMap_create
    /\ hm_ret' = [cleared |-> Len(AllEntries(hmd))]

MapInit == hmd = HashMap_create /\ hm_ret = NULL /\ hm_wild = FALSE

\* A call with the key, or the resize before it, goes outside the array.
GoesWild(key) ==
    \/ ResizeGoesWild(hmd)
    \/ \E d \in Checked(hmd) \cup {hmd} : ~InBounds(key, d.capacity)

MapCall ==
    \/ \E key \in Key, e \in Element, d \in Checked(hmd) :
          /\ InBounds(key, d.capacity)
          /\ hm_putUnique(d, key, e) \/ \E wants \in WANTS_PREVIOUS : hm_put(d, key, e, wants)
    \/ \E key \in Key :
          /\ InBounds(key, hmd.capacity)
          /\ hm_get(key) \/ hm_containsKey(key) \/ hm_remove(key)
    \/ hm_keyArray \/ hm_entryArray \/ hm_clear \/ hm_destroy

MapNext ==
    /\ ~hm_wild
    /\ \/ MapCall /\ UNCHANGED hm_wild
       \/ (\E key \in Key : GoesWild(key)) /\ hm_wild' = TRUE /\ UNCHANGED <<hmd, hm_ret>>

MapSpec == MapInit /\ [][MapNext]_mapVars
-------------------------------------------------------------------------------
\* Properties.

\* hash: "value returned in range of 0..N-1", so that findKey and resize stay inside
\* the array of buckets.
BucketsInBounds == ~hm_wild

Keys(d) == {e.key : e \in ToSet(AllEntries(d))}

\* The counts agree with the chains: size, which keyArray allocates by, and load,
\* which resizing goes by, count the entries; every entry is in the bucket its key
\* has at the present capacity; and no key has two.
MapAccounting ==
    /\ hmd.size = Len(AllEntries(hmd))
    /\ hmd.load = hmd.size * Increment(hmd.capacity)
    /\ \A i \in 0..hmd.capacity - 1 : \A j \in 1..Len(hmd.buckets[i]) :
          hash(hmd.buckets[i][j].key, hmd.capacity) = i
    /\ Cardinality(Keys(hmd)) = hmd.size

\* The partial function that the chains of d are.
Mapping(d) ==
    [key \in {k \in Key : InBounds(k, d.capacity) /\ Found(d, k) # {}} |->
        Chain(d, key)[CHOOSE i \in Found(d, key) : TRUE].element]

AsMap == INSTANCE AbstractMap WITH dict <- Mapping(hmd)

\* The chains, counts and resizes implement the partial function of hashmap.h,
\* with what each call returns.
ImplementsMap == AsMap!Spec
==============================================================================
