---------------------------- MODULE AbstractList ----------------------------
(***************************************************************************)
(* What linkedlist.h promises: a sequence of elements.  A call that needs  *)
(* memory may fail, and then changes nothing.  ll_ret is the latest call,  *)
(* and what it returned; an index counts from 0.                           *)
(***************************************************************************)
EXTENDS Adt, Integers, SequencesExt

VARIABLES list, ll_ret

abstractList == <<list, ll_ret>>

Within(index) == index + 1 \in DOMAIN list

Fails(call) == ll_ret' = Returned(call, 0, NULL) /\ UNCHANGED list

AddAt(call, index, e) ==
    \/ /\ index <= Len(list)
       /\ list' = InsertAt(list, index + 1, e)
       /\ ll_ret' = Returned(call, 1, NULL)
    \/ Fails(call)

ReadAt(call, index) ==
    \/ /\ Within(index)
       /\ ll_ret' = Returned(call, 1, list[index + 1])
       /\ UNCHANGED list
    \/ ~Within(index) /\ Fails(call)

DeleteAt(call, index) ==
    \/ /\ Within(index)
       /\ list' = RemoveAt(list, index + 1)
       /\ ll_ret' = Returned(call, 1, list[index + 1])
    \/ ~Within(index) /\ Fails(call)

Overwrite(call, index, e) ==
    \/ /\ Within(index)
       /\ list' = ReplaceAt(list, index + 1, e)
       /\ ll_ret' = Returned(call, 1, list[index + 1])
    \/ ~Within(index) /\ Fails(call)

\* Every element is handed to freeFxn, first to last.
Clear == list' = <<>> /\ ll_ret' = [freed |-> list]

\* An array of the elements, or NULL for want of memory or of elements.
ToArray ==
    /\ \/ list # <<>> /\ ll_ret' = [array |-> list]
       \/ ll_ret' = [array |-> NULL]
    /\ UNCHANGED list

Init == list = <<>> /\ ll_ret = NULL

Next ==
    \/ \E index \in 0..Len(list) + 1 :
          \/ ReadAt(<<"get", index>>, index)
          \/ DeleteAt(<<"remove", index>>, index)
          \/ \E e \in Element : \/ AddAt(<<"insert", index>>, index, e)
                               \/ Overwrite(<<"set", index>>, index, e)
    \/ \E e \in Element : AddAt(<<"addFirst">>, 0, e) \/ AddAt(<<"addLast">>, Len(list), e)
    \/ ReadAt(<<"getFirst">>, 0) \/ ReadAt(<<"getLast">>, Len(list) - 1)
    \/ DeleteAt(<<"removeFirst">>, 0) \/ DeleteAt(<<"removeLast">>, Len(list) - 1)
    \/ Clear
    \/ ToArray

Spec == Init /\ [][Next]_abstractList
==============================================================================
