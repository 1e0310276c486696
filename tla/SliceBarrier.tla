---------------------------- MODULE SliceBarrier ----------------------------
(***************************************************************************)
(* What the feeder's slice API promises to the timing simulator when several *)
(* processes are simulated together (feeder.h, "Pause/Resume API", and the *)
(* comments of StartSimSlice / EndSimSlice): every process finishes fast-   *)
(* forwarding before a slice starts, the slice is started once, every       *)
(* process finishes simulating before the slice ends, and the slice is      *)
(* ended once.  A process is "ff" (fast-forwarding), "ffb" (gathered at the *)
(* start of a slice), "sim" (simulating), "seb" (gathered at the end of a   *)
(* slice) or "done".  The last process to gather releases everyone at once. *)
(***************************************************************************)
EXTENDS Naturals, Sequences

CONSTANTS Procs,       \* the simulated processes
          Rounds,      \* slices each process goes through
          SliceNum(_)  \* the slice number a process passes in its r-th slice

VARIABLES phase, round, msgs

vars == <<phase, round, msgs>>

SliceStart(s) == [kind |-> "SliceStart", slice |-> s]
SliceEnd(s) == [kind |-> "SliceEnd", slice |-> s]

Init ==
    /\ phase = [p \in Procs |-> "ff"]
    /\ round = [p \in Procs |-> 0]
    /\ msgs = <<>>

\* p reaches the start of its next slice; the last one starts the slice.
GatherStart(p) ==
    /\ phase[p] = "ff"
    /\ round[p] < Rounds
    /\ round' = [round EXCEPT ![p] = @ + 1]
    /\ IF \A q \in Procs \ {p} : phase[q] = "ffb"
         THEN /\ phase' = [q \in Procs |-> "sim"]
              /\ msgs' = Append(msgs, SliceStart(SliceNum(round[p] + 1)))
         ELSE /\ phase' = [phase EXCEPT ![p] = "ffb"]
              /\ UNCHANGED msgs

\* p reaches the end of its slice; the last one ends the slice.
GatherEnd(p) ==
    /\ phase[p] = "sim"
    /\ IF \A q \in Procs \ {p} : phase[q] = "seb"
         THEN /\ phase' = [q \in Procs |-> "ff"]
              /\ msgs' = Append(msgs, SliceEnd(SliceNum(round[p])))
         ELSE /\ phase' = [phase EXCEPT ![p] = "seb"]
              /\ UNCHANGED msgs
    /\ UNCHANGED round

\* p leaves after its last slice.
Leave(p) ==
    /\ phase[p] = "ff"
    /\ round[p] = Rounds
    /\ phase' = [phase EXCEPT ![p] = "done"]
    /\ UNCHANGED <<round, msgs>>

Next == \E p \in Procs : GatherStart(p) \/ GatherEnd(p) \/ Leave(p)

Spec == Init /\ [][Next]_vars

=============================================================================
