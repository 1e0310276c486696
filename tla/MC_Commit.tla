----------------------------- MODULE MC_Commit -----------------------------
(* Small instance of Commit: a 3-entry ROB (so that the ring wraps), a     *)
(* two-wide pre-commit pipe two stages deep, and Mops that are a branch,   *)
(* a fused pair or two plain uops.                                         *)
EXTENDS Commit

Branch == [len |-> 1, fused |-> FALSE, ctrl |-> TRUE, sta |-> {}, std |-> {}]
FusedPair == [len |-> 2, fused |-> TRUE, ctrl |-> FALSE, sta |-> {}, std |-> {}]
PlainPair == [len |-> 2, fused |-> FALSE, ctrl |-> FALSE, sta |-> {}, std |-> {}]
MCShapes == {Branch, FusedPair, PlainPair}

\* Exploration stops at the first state whose ROB_tail went negative in
\* recover(Mop); the run RobTailUnderflow examines that state.
TailNotUnderflowed == ROB_tail >= 0
====
