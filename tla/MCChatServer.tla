----------------------------- MODULE MCChatServer -----------------------------
(***************************************************************************)
(* ChatServer on small instances.  A unit of time is a minute: the timeout *)
(* and the scan's sleep are the 120 seconds of the code, two units each.   *)
(***************************************************************************)
EXTENDS ChatServer

CONSTANTS alice, bob, a1, a2, c1, c2, p1, p2, p3

\* toArray: "returns the length of the list in `len'", so that a caller that
\* goes over that many entries stays inside the array.
ListingStaysInArray == ~crashed
==============================================================================
