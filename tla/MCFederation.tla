---------------------------- MODULE MCFederation ----------------------------
(***************************************************************************)
(* Federation on small topologies: one server with several clients, alone  *)
(* or with a neighbour that may not know it; a line and a triangle of      *)
(* servers with a client at two of them.                                   *)
(***************************************************************************)
EXTENDS Federation

CONSTANTS A, B, R, D, u, v, ca, cb, c1

Alone    == [s \in Server |-> {}]
Line     == [s \in Server |-> IF s = R THEN Server \ {R} ELSE {R}]
Stray    == [s \in Server |-> IF s = A THEN {D} ELSE {}]
Triangle == [s \in Server |-> {A, B, R} \ {s}]

AtA     == [a \in Addr |-> A]
AtEnds  == [a \in Addr |-> IF a = ca THEN A ELSE B]

\* The links of a line make no cycle, those of a triangle do.
ASSUME LineIsForest      == R \in Server /\ Adj = Line => Forest
ASSUME TriangleIsNoForest == {A, B, R} = Server /\ Adj = Triangle => ~Forest

\* state.cxx reports "Channel does not exist" of a message that reaches a server
\* without the channel, and an address that "does not map to user" of a request of a
\* client that is not logged in, so that neither is the end of the server.
ServersSurvive == \A s \in Server : fate[s] \notin {"s2s_say", "client"}
==============================================================================
