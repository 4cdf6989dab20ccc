------------------------------ MODULE MCDevice ------------------------------
(***************************************************************************)
(* The graph device: how its logs are judged and how the evidence is kept, *)
(*   one part at a time: `part` says which of them runs, the others stay   *)
(*   as they are at first.                                                 *)
(*                                                                         *)
(* trace: a stencil of one cell, profiles of two and one cells, three      *)
(*   programs of a load and a store per cell.                              *)
(* evidence: two processes, two requests and five commands over two        *)
(*   directories, with an edit of the sources.                             *)
(***************************************************************************)
EXTENDS DeviceTrace, DeviceEvidence, TLC

CONSTANT Parts

VARIABLE part

----------------------------------------------------------------------------
Shape(r, c, i, o, n) == [rows |-> r, columns |-> c, input_stride |-> i, output_stride |-> o,
                         active_outputs |-> n]
MCProfiles == [baseline |-> Shape(2, 1, 3, 1, 2), compact |-> Shape(1, 1, 3, 1, 1)]
MCShapes == {Shape(r, c, i, o, n) : r \in 0 .. 3, c \in 0 .. 3, i \in 2 .. 7, o \in 1 .. 4,
                                    n \in {1, 2, 3, 4, 6, 9}}
MCGraphs == <<"five-point", "horizontal", "vertical">>
MCInput(seed, address) == (3 * seed + 5 * address) % 16
At(g) == CHOOSE n \in 1 .. 3 : Graphs[n] = g
MCProgram(graph, seed) ==
  [i \in 1 .. (IF graph = "horizontal" THEN 4 ELSE 2) |->
     IF i % 2 = 1 THEN Tx(FALSE, At(graph) + i, 0)
                  ELSE Tx(TRUE, InputWords + i \div 2, Input(seed, At(graph) + i))]

----------------------------------------------------------------------------
Sym == Permutations(Procs) \cup Permutations(Requests)

----------------------------------------------------------------------------
\* A part that is not selected stays in one of its initial states.
DeviceInit ==
  /\ part \in Parts
  /\ TraceInit /\ EvidenceInit

DeviceNext ==
  /\ UNCHANGED part
  /\ \/ part = "trace" /\ TraceNext /\ UNCHANGED evars
     \/ part = "evidence" /\ EvidenceNext /\ UNCHANGED tvars

DeviceSpec == DeviceInit /\ [][DeviceNext]_<<part, tvars, evars>>
=============================================================================
