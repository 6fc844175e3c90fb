--------------------------- MODULE MCClientServer ---------------------------
(***************************************************************************)
(* One client and its server.  A unit of time is half a minute: the client *)
(* sleeps for two of them, and the server's timeout and scan are four.     *)
(***************************************************************************)
EXTENDS ClientServer

CONSTANT p1

Prompt == [delay |-> 0, drift |-> 0, lossy |-> FALSE, fifo |-> TRUE]

\* A link that is as good as can be, one that is late, and one of which nothing is
\* certain.
SomeLinks == {Prompt,
              [Prompt EXCEPT !.delay = 1, !.drift = 1],
              [Prompt EXCEPT !.lossy = TRUE, !.fifo = FALSE]}
====
