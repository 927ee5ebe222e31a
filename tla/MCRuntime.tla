------------------------------ MODULE MCRuntime -------------------------------
(***************************************************************************)
(* Instances of Runtime for TLC.                                           *)
(***************************************************************************)
EXTENDS Runtime

Call(f, async, spawns, loc, n) == 
  [f |-> f, async |-> async, spawns |-> spawns, loc |-> loc, n |-> n]

\* single calls at the other locality, loops over nothing, over less than a
\* chunk and over chunks that do not come out even
McCalls == 
  {Call("executeAt", FALSE, FALSE, 1, 1), Call("executeAt", TRUE, TRUE, 1, 1),
   Call("dma", FALSE, FALSE, 1, 1), Call("dma", TRUE, FALSE, 0, 1),
   Call("executeOnAll", FALSE, FALSE, 0, 1), 
   Call("executeOnAll", TRUE, TRUE, 0, 1)}
  \cup {Call(f, async, FALSE, 1, n) : f \in {"forEachAt", "forEachOnAll"},
                                      async \in BOOLEAN, n \in {0, 5}}
  \cup {Call("forEachAt", TRUE, TRUE, 0, 2)}
=============================================================================
