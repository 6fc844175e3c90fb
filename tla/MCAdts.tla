------------------------------- MODULE MCAdts -------------------------------
(***************************************************************************)
(* The list and the map on small instances.  They share nothing, so that a *)
(* behaviour uses one or the other.                                        *)
(***************************************************************************)
EXTENDS LinkedList, HashMap

CONSTANTS e1, e2

\* In two buckets <<1>>, <<3>> and <<-2, 5>> collide, and <<2>> does not; in four,
\* the last of them has no bucket.  (The chars stand for letters and for a byte of
\* a name that is not plain ASCII.)
Keys4 == {<<1>>, <<3>>, <<2>>, <<-2, 5>>}

AdtInit == ListInit /\ MapInit

AdtNext ==
    \/ hm_ret = NULL /\ ~hm_wild /\ ListNext /\ UNCHANGED mapVars
    \/ ll_ret = NULL /\ MapNext /\ UNCHANGED listVars

AdtSpec == AdtInit /\ [][AdtNext]_<<listVars, mapVars>>
==============================================================================
