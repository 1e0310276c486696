----------------------------- MODULE MC_Decode -----------------------------
(* Model-checking instance of Decode: three flows, a branch, a fused pair  *)
(* and a complex microsequenced pair.                                      *)
EXTENDS Decode

Branch    == [len |-> 1, fused |-> FALSE, ctrl |-> TRUE, complex |-> FALSE, ms |-> FALSE]
FusedPair == [len |-> 2, fused |-> TRUE, ctrl |-> FALSE, complex |-> FALSE, ms |-> FALSE]
MSPair    == [len |-> 2, fused |-> FALSE, ctrl |-> FALSE, complex |-> TRUE, ms |-> TRUE]
MCShapes == {Branch, FusedPair, MSPair}
====
