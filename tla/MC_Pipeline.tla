---------------------------- MODULE MC_Pipeline ----------------------------
(* Small instance of Pipeline: two decode stages one decoder wide, a       *)
(* two-entry uopQ and ROB, a one-stage pre-commit pipe, and Mops that are *)
(* a branch, a fused pair or a three-uop microsequenced flow.              *)
EXTENDS Pipeline

Branch    == [len |-> 1, fused |-> FALSE, ctrl |-> TRUE, complex |-> FALSE,
              ms |-> FALSE, sta |-> {}, std |-> {}]
FusedPair == [len |-> 2, fused |-> TRUE, ctrl |-> FALSE, complex |-> FALSE,
              ms |-> FALSE, sta |-> {}, std |-> {}]
\* as long as the ROB and the pre-commit pipe together (2 + 1): the longest
\* flow that can still complete before its first uop commits
MSTriple  == [len |-> 3, fused |-> FALSE, ctrl |-> FALSE, complex |-> TRUE,
              ms |-> TRUE, sta |-> {}, std |-> {}]
MCShapes == {Branch, FusedPair, MSTriple}

\* Exploration stops where recover(Mop) left ROB_tail negative (the run
\* rob_tail_underflow shows that state).
TailNotUnderflowed == ROB_tail >= 0
====
