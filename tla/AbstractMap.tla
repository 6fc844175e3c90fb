----------------------------- MODULE AbstractMap -----------------------------
(***************************************************************************)
(* What hashmap.h promises: a partial function from keys to elements.  A   *)
(* call that needs memory may fail, and then changes nothing.  hm_ret is   *)
(* the latest call, and what it returned.                                  *)
(***************************************************************************)
EXTENDS Adt, Naturals, FiniteSets

CONSTANT Key

VARIABLES dict, hm_ret

abstractMap == <<dict, hm_ret>>

Present == DOMAIN dict

Bind(k, e) == [key \in Present \cup {k} |-> IF key = k THEN e ELSE dict[key]]

Answers(answer) == hm_ret' = answer /\ UNCHANGED dict

\* A mapping that was there is replaced, and its element returned.
Put(k, e) ==
    \/ /\ dict' = Bind(k, e)
       /\ hm_ret' = Returned(<<"put", k>>, 1, IF k \in Present THEN dict[k] ELSE NULL)
    \/ k \notin Present /\ Answers(Returned(<<"put", k>>, 0, NULL))

PutUnique(k, e) ==
    \/ /\ k \notin Present
       /\ dict' = Bind(k, e)
       /\ hm_ret' = Returned(<<"putUnique", k>>, 1, NULL)
    \/ Answers(Returned(<<"putUnique", k>>, 0, NULL))

Lookup(k) ==
    IF k \in Present THEN Answers(Returned(<<"get", k>>, 1, dict[k]))
    ELSE Answers(Returned(<<"get", k>>, 0, NULL))

ContainsKey(k) ==
    Answers(Returned(<<"containsKey", k>>, IF k \in Present THEN 1 ELSE 0, NULL))

Remove(k) ==
    \/ /\ k \in Present
       /\ dict' = [key \in Present \ {k} |-> dict[key]]
       /\ hm_ret' = Returned(<<"remove", k>>, 1, dict[k])
    \/ k \notin Present /\ Answers(Returned(<<"remove", k>>, 0, NULL))

\* The keys, or the entries, and how many there are; or NULL, for want of memory
\* or of keys.
KeyArray == \/ Present # {} /\ Answers([keys |-> Present, len |-> Cardinality(Present)])
            \/ Answers([keys |-> NULL])

EntryArray ==
    \/ /\ Present # {}
       /\ Answers([entries |-> {<<k, dict[k]>> : k \in Present}, len |-> Cardinality(Present)])
    \/ Answers([entries |-> NULL])

Clear == dict' = <<>> /\ hm_ret' = [cleared |-> Cardinality(Present)]

Init == dict = <<>> /\ hm_ret = NULL

Next ==
    \/ \E k \in Key :
          \/ \E e \in Element : Put(k, e) \/ PutUnique(k, e)
          \/ Lookup(k) \/ ContainsKey(k) \/ Remove(k)
    \/ KeyArray \/ EntryArray \/ Clear

Spec == Init /\ [][Next]_abstractMap
==============================================================================
