----------------------------- MODULE LinkedList -----------------------------
(***************************************************************************)
(* The linked list of adts/linkedlist.c: a ring of nodes through a         *)
(* sentinel, and a list of spare nodes that is refilled FL_INCREMENT at a  *)
(* time and threaded through the same next pointers.                       *)
(*                                                                         *)
(* A node is a number, in the order malloc returned them; malloc may fail  *)
(* at any call, and does after MAX_NODES.  Every call is one action, for   *)
(* the list is only used under the lock of the server.                     *)
(***************************************************************************)
EXTENDS Adt, Integers, SequencesExt

CONSTANTS FL_INCREMENT,   \* how many nodes a refill of the free list asks for
          MAX_NODES       \* bound: nodes malloc returns to one list

ASSUME NodeBounds == FL_INCREMENT \in Nat \ {0} /\ MAX_NODES \in Nat

VARIABLES lld,       \* the nodes and the private data of the list
          ll_ret     \* the latest call, and what it returned

listVars == <<lld, ll_ret>>

SENTINEL == 0
Node     == 1..MAX_NODES
LLNode   == Node \cup {SENTINEL}

ASSUME NullIsNoNode == NULL \notin LLNode

LinkedList_create ==
    [size |-> 0, freel |-> NULL, malloced |-> 0,
     next    |-> [p \in LLNode |-> SENTINEL],
     prev    |-> [p \in LLNode |-> SENTINEL],
     element |-> [p \in Node |-> NULL]]
-------------------------------------------------------------------------------
\* The free list.

putEntry(d, p) == [d EXCEPT !.element[p] = NULL, !.next[p] = d.freel, !.freel = p]

\* The free list is filled with as many nodes as malloc returns, in vain if none.
Refills(d) ==
    {FoldLeft(putEntry, [d EXCEPT !.malloced = n], [i \in 1..n - d.malloced |-> d.malloced + i]) :
        n \in d.malloced..IF d.malloced + FL_INCREMENT < MAX_NODES
                          THEN d.malloced + FL_INCREMENT ELSE MAX_NODES}

\* getEntry: the lists from which the first node can be taken, or NULL.
Stocked(d) == IF d.freel = NULL THEN Refills(d) ELSE {d}

TakeFree(d) == [d EXCEPT !.freel = d.next[@]]
-------------------------------------------------------------------------------
\* The ring.

\* Fault: the node after p still points back over it.
FaultForgetsPrev(d, before, p, after) ==
    [d EXCEPT !.next = [@ EXCEPT ![p] = after, ![before] = p], !.prev[p] = before]

\* p goes between before and after, which may both be the sentinel.
link(d, before, p, after) ==
    [d EXCEPT !.next = [@ EXCEPT ![p] = after, ![before] = p],
              !.prev = [@ EXCEPT ![p] = before, ![after] = p]]

unlink(d, p) == [d EXCEPT !.next[d.prev[p]] = d.next[p], !.prev[d.next[p]] = d.prev[p]]

\* n steps from p along the pointers.
Walk(pointer, p, n) ==
    LET step[i \in Nat] == IF i = 0 THEN p ELSE pointer[step[i - 1]] IN step[n]

NodeAt(d, index) == Walk(d.next, d.next[SENTINEL], index)

Ring(d) == [i \in 1..d.size |-> NodeAt(d, i - 1)]

Elements(d) == [i \in 1..d.size |-> d.element[NodeAt(d, i - 1)]]

\* The nodes of the ring go to the free list, first to last.
purge(d) == FoldLeft(putEntry, d, Ring(d))

\* Fault: the node is not given back.
FaultLeaksNode(d, p) == [unlink(d, p) EXCEPT !.size = @ - 1]

\* What all three removals do to the node p.
TakeOut(d, p) == [putEntry(unlink(d, p), p) EXCEPT !.size = @ - 1]

\* What all three additions do, given the node to put the new one behind.
PutIn(d, e, before) ==
    LET p      == d.freel
        filled == [TakeFree(d) EXCEPT !.element[p] = e, !.size = @ + 1]
    IN  link(filled, before, p, d.next[before])
-------------------------------------------------------------------------------
Fail(call) == ll_ret' = Returned(call, 0, NULL) /\ UNCHANGED lld

\* The node p is looked at.
Read(call, p) == ll_ret' = Returned(call, 1, lld.element[p]) /\ UNCHANGED lld

\* e goes behind the node before, if there is a node for it.
AddBehind(call, before, e) ==
    \E d \in Stocked(lld) :
        IF d.freel = NULL THEN lld' = d /\ ll_ret' = Returned(call, 0, NULL)
        ELSE lld' = PutIn(d, e, before) /\ ll_ret' = Returned(call, 1, NULL)

Delete(call, p) ==
    /\ lld' = TakeOut(lld, p)
    /\ ll_ret' = Returned(call, 1, lld.element[p])

\* Fault: one node too far.
FaultInsertsLate(index, e) ==
    IF index <= lld.size THEN AddBehind(<<"insert", index>>, NodeAt(lld, index), e)
    ELSE Fail(<<"insert", index>>)

ll_insert(index, e) ==
    IF index <= lld.size
    THEN AddBehind(<<"insert", index>>, IF index = 0 THEN SENTINEL ELSE NodeAt(lld, index - 1), e)
    ELSE Fail(<<"insert", index>>)

ll_addFirst(e) == AddBehind(<<"addFirst">>, SENTINEL, e)
ll_addLast(e)  == AddBehind(<<"addLast">>, lld.prev[SENTINEL], e)

ll_get(index) ==
    IF index < lld.size THEN Read(<<"get", index>>, NodeAt(lld, index))
    ELSE Fail(<<"get", index>>)

ll_getFirst ==
    IF lld.next[SENTINEL] # SENTINEL THEN Read(<<"getFirst">>, lld.next[SENTINEL])
    ELSE Fail(<<"getFirst">>)

ll_getLast ==
    IF lld.prev[SENTINEL] # SENTINEL THEN Read(<<"getLast">>, lld.prev[SENTINEL])
    ELSE Fail(<<"getLast">>)

ll_remove(index) ==
    IF index < lld.size THEN Delete(<<"remove", index>>, NodeAt(lld, index))
    ELSE Fail(<<"remove", index>>)

ll_removeFirst ==
    IF lld.next[SENTINEL] # SENTINEL THEN Delete(<<"removeFirst">>, lld.next[SENTINEL])
    ELSE Fail(<<"removeFirst">>)

ll_removeLast ==
    IF lld.prev[SENTINEL] # SENTINEL THEN Delete(<<"removeLast">>, lld.prev[SENTINEL])
    ELSE Fail(<<"removeLast">>)

ll_set(index, e) ==
    IF index < lld.size
    THEN /\ lld' = [lld EXCEPT !.element[NodeAt(lld, index)] = e]
         /\ ll_ret' = Returned(<<"set", index>>, 1, lld.element[NodeAt(lld, index)])
    ELSE Fail(<<"set", index>>)

ll_clear ==
    /\ lld' = [purge(lld) EXCEPT !.size = 0, !.next[SENTINEL] = SENTINEL,
                                 !.prev[SENTINEL] = SENTINEL]
    /\ ll_ret' = [freed |-> Elements(lld)]

\* The list is destroyed, every node is freed, and a new one is created.
ll_destroy ==
    /\ lld' = LinkedList_create
    /\ ll_ret' = [freed |-> Elements(lld)]

ll_toArray ==
    /\ \/ lld.size > 0 /\ ll_ret' = [array |-> Elements(lld)]
       \/ ll_ret' = [array |-> NULL]
    /\ UNCHANGED lld

ListInit == lld = LinkedList_create /\ ll_ret = NULL

ListNext ==
    \/ \E index \in 0..lld.size + 1 :
          \/ ll_get(index) \/ ll_remove(index)
          \/ \E e \in Element : ll_insert(index, e) \/ ll_set(index, e)
    \/ \E e \in Element : ll_addFirst(e) \/ ll_addLast(e)
    \/ ll_getFirst \/ ll_getLast \/ ll_removeFirst \/ ll_removeLast
    \/ ll_clear \/ ll_destroy \/ ll_toArray

ListSpec == ListInit /\ [][ListNext]_listVars
-------------------------------------------------------------------------------
\* Properties.

\* The nodes of the free list, as far as there are nodes.
FreeNodes(d) == {p \in Node : \E n \in 0..d.malloced :
                    d.freel # NULL /\ p = Walk([q \in LLNode \cup {NULL} |->
                        IF q = NULL THEN NULL ELSE d.next[q]], d.freel, n)}

\* The ring reads the same forwards and backwards, and closes: a node reached by
\* next comes back by prev, whatever was inserted, removed, purged and reused.
RingClosed ==
    /\ \A p \in ToSet(Ring(lld)) \cup {SENTINEL} :
          lld.prev[lld.next[p]] = p /\ lld.next[lld.prev[p]] = p
    /\ NodeAt(lld, lld.size) = SENTINEL

\* Every node malloc ever returned is in the ring or on the free list, and in one
\* of them only, so that destroy frees each of them once.
NodesPartitioned ==
    /\ ToSet(Ring(lld)) \cup FreeNodes(lld) = 1..lld.malloced
    /\ ToSet(Ring(lld)) \cap FreeNodes(lld) = {}
    /\ IsInjective(Ring(lld))

AsList == INSTANCE AbstractList WITH list <- Elements(lld)

\* The nodes and pointers implement the sequence of linkedlist.h, with what each
\* call returns.
ImplementsList == AsList!Spec
==============================================================================
