-------------------------------- MODULE Adt --------------------------------
(***************************************************************************)
(* What the generic structures of adts/ have in common: they keep void     *)
(* pointers, which nothing but their caller looks into, and NULL.          *)
(***************************************************************************)
CONSTANTS Element, NULL

\* What a call returned: its status, and the element it wrote through its last
\* argument, NULL if none.
Returned(call, status, element) ==
    [call |-> call, status |-> status, element |-> element]

ASSUME NullIsNoElement == NULL \notin Element
==============================================================================
