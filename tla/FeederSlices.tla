---------------------------- MODULE FeederSlices ----------------------------
(***************************************************************************)
(* The feeder's simulation slices across processes (pintool/               *)
(* feeder_zesto.cpp).  Every simulated process runs PPointHandler: on a    *)
(* CONTROL_START it calls StartSimSlice (FastForwardBarrier, then          *)
(* ResumeSimulation), on a CONTROL_STOP PauseSimulation and EndSimSlice    *)
(* (SliceEndBarrier).  The two barriers share, through shared memory, a    *)
(* counter of arrived processes, an epoch and a lock each.  Every critical *)
(* section of a barrier runs under its lock from lk_lock to lk_unlock, so  *)
(* each one is one atomic action here; between them a waiting process     *)
(* sleeps, unlocked.                                                      *)
(*                                                                         *)
(* pc[p]: "ff" fast-forwarding, "ffb_wait" sleeping in the loop of         *)
(* FastForwardBarrier, "sim" simulating, "seb_wait" sleeping in the loop   *)
(* of SliceEndBarrier, "done" exited.  processes_at_barrier[p] is the      *)
(* barrier's local of the same name, msgs the IPC messages sent to the     *)
(* timing simulator in the order they were sent.                          *)
(***************************************************************************)
EXTENDS Naturals, Sequences, FiniteSets

CONSTANTS Procs,           \* the processes (*num_processes of them)
          Rounds,          \* CONTROL_START/CONTROL_STOP pairs each one meets
          PinPointsActive  \* control.PinPointsActive()

ASSUME Rounds \in Nat \ {0} /\ PinPointsActive \in BOOLEAN

VARIABLES pc, round, processes_at_barrier,
          num_done_fastforward, fastforward_epoch,
          num_done_slice, slice_epoch,
          producers_sleep, msgs

vars == <<pc, round, processes_at_barrier, num_done_fastforward,
          fastforward_epoch, num_done_slice, slice_epoch, producers_sleep, msgs>>

num_processes == Cardinality(Procs)

\* PPointHandler: slice_num is 1 unless PinPoints are active; then it is
\* control.CurrentPp(tid), the PinPoints being reached in order 1, 2, ...
SliceNumZeroBased(r) == IF PinPointsActive THEN r - 1 ELSE 1
SliceNum(r) == IF PinPointsActive THEN r ELSE 1

SliceStart(s) == [kind |-> "SliceStart", slice |-> s]
SliceEnd(s) == [kind |-> "SliceEnd", slice |-> s]

\* disable_producers / enable_producers, with *sleeping_enabled set by main.
disable_producers(p) == producers_sleep' = [producers_sleep EXCEPT ![p] = TRUE]
enable_producers(p) == producers_sleep' = [producers_sleep EXCEPT ![p] = FALSE]

\* ResumeSimulation allocates cores and schedules the process's threads:
\* from here on the process simulates (its steps are modelled in FeederPause).
ResumeSimulation(p) == pc' = [pc EXCEPT ![p] = "sim"]

\* PauseSimulation disables the producers, waits until the sim threads
\* have drained their run queues (modelled in FeederPause), and enables the
\* producers again.
PauseSimulation(p) == enable_producers(p)

(* The end of FastForwardBarrier, entered with the lock held: the last     *)
(* process to arrive bumps the epoch, resets the counter and sends         *)
(* SliceStart; then producers are enabled and StartSimSlice returns to     *)
(* ResumeSimulation.  n is *num_done_fastforward as seen under the lock.   *)
FFReleaseNoReset(p, r, atb, n) ==
    /\ IF atb = num_processes
         THEN /\ fastforward_epoch' = fastforward_epoch + 1
              /\ num_done_fastforward' = n
              /\ msgs' = Append(msgs, SliceStart(SliceNum(r)))
         ELSE /\ num_done_fastforward' = n
              /\ UNCHANGED <<fastforward_epoch, msgs>>
    /\ enable_producers(p)
    /\ ResumeSimulation(p)

FFReleaseNoEpoch(p, r, atb, n) ==
    /\ IF atb = num_processes
         THEN /\ num_done_fastforward' = 0
              /\ msgs' = Append(msgs, SliceStart(SliceNum(r)))
         ELSE num_done_fastforward' = n /\ UNCHANGED msgs
    /\ UNCHANGED fastforward_epoch
    /\ enable_producers(p)
    /\ ResumeSimulation(p)

FFRelease(p, r, atb, n) ==
    /\ IF atb = num_processes
         THEN /\ fastforward_epoch' = fastforward_epoch + 1
              /\ num_done_fastforward' = 0
              /\ msgs' = Append(msgs, SliceStart(SliceNum(r)))
         ELSE /\ num_done_fastforward' = n
              /\ UNCHANGED <<fastforward_epoch, msgs>>
    /\ enable_producers(p)
    /\ ResumeSimulation(p)

(* CONTROL_START: StartSimSlice enters FastForwardBarrier, counts itself   *)
(* and tests the loop condition under the lock; if it holds, it unlocks,   *)
(* disables its producers and sleeps.                                      *)
StartSimSlice(p) ==
    /\ pc[p] = "ff"
    /\ round[p] < Rounds
    /\ LET r == round[p] + 1
           n == num_done_fastforward + 1
       IN /\ round' = [round EXCEPT ![p] = r]
          /\ processes_at_barrier' = [processes_at_barrier EXCEPT ![p] = n]
          /\ IF fastforward_epoch < SliceNum(r) /\ n < num_processes
               THEN /\ num_done_fastforward' = n
                    /\ pc' = [pc EXCEPT ![p] = "ffb_wait"]
                    /\ disable_producers(p)
                    /\ UNCHANGED <<fastforward_epoch, msgs>>
               ELSE FFRelease(p, r, n, n)
    /\ UNCHANGED <<num_done_slice, slice_epoch>>

(* A sleeping process re-takes the lock and finds the loop condition       *)
(* false.  (Finding it true, it unlocks and sleeps again: no state         *)
(* changes.)                                                               *)
FFWakeup(p) ==
    /\ pc[p] = "ffb_wait"
    /\ ~(fastforward_epoch < SliceNum(round[p])
         /\ num_done_fastforward < num_processes)
    /\ FFRelease(p, round[p], processes_at_barrier[p], num_done_fastforward)
    /\ UNCHANGED <<round, processes_at_barrier, num_done_slice, slice_epoch>>

(* The end of SliceEndBarrier, entered with the lock held: the last        *)
(* process bumps the epoch, resets the counter and sends SliceEnd; then    *)
(* EndSimSlice sets ExecMode to fast-forward.  Unlike FastForwardBarrier   *)
(* it does not enable producers.                                           *)
SEBReleaseNoReset(p, r, atb, n) ==
    /\ IF atb = num_processes
         THEN /\ slice_epoch' = slice_epoch + 1
              /\ num_done_slice' = n
              /\ msgs' = Append(msgs, SliceEnd(SliceNum(r)))
         ELSE /\ num_done_slice' = n
              /\ UNCHANGED <<slice_epoch, msgs>>
    /\ pc' = [pc EXCEPT ![p] = "ff"]

SEBRelease(p, r, atb, n) ==
    /\ IF atb = num_processes
         THEN /\ slice_epoch' = slice_epoch + 1
              /\ num_done_slice' = 0
              /\ msgs' = Append(msgs, SliceEnd(SliceNum(r)))
         ELSE /\ num_done_slice' = n
              /\ UNCHANGED <<slice_epoch, msgs>>
    /\ pc' = [pc EXCEPT ![p] = "ff"]

\* The loop condition of SliceEndBarrier; the mutant reads the other
\* barrier's epoch.
SEBWaitsOnFFEpoch(r, n) ==
    fastforward_epoch < SliceNum(r) /\ n < num_processes
SEBWaits(r, n) == slice_epoch < SliceNum(r) /\ n < num_processes

(* CONTROL_STOP: PauseSimulation disables the producers, waits for the sim *)
(* threads to drain and enables them again; then EndSimSlice enters        *)
(* SliceEndBarrier, counts itself and tests the loop condition; if it      *)
(* holds, it unlocks, disables its producers and sleeps.                   *)
EndSimSlice(p) ==
    /\ pc[p] = "sim"
    /\ LET n == num_done_slice + 1
       IN /\ processes_at_barrier' = [processes_at_barrier EXCEPT ![p] = n]
          /\ IF SEBWaits(round[p], n)
               THEN /\ num_done_slice' = n
                    /\ pc' = [pc EXCEPT ![p] = "seb_wait"]
                    /\ disable_producers(p)
                    /\ UNCHANGED <<slice_epoch, msgs>>
               ELSE /\ SEBRelease(p, round[p], n, n)
                    /\ PauseSimulation(p)
    /\ UNCHANGED <<round, num_done_fastforward, fastforward_epoch>>

\* A process sleeping in SliceEndBarrier re-takes the lock and finds the
\* loop condition false.
SEBWakeup(p) ==
    /\ pc[p] = "seb_wait"
    /\ ~SEBWaits(round[p], num_done_slice)
    /\ SEBRelease(p, round[p], processes_at_barrier[p], num_done_slice)
    /\ UNCHANGED <<round, processes_at_barrier, num_done_fastforward,
                   fastforward_epoch, producers_sleep>>

(* After its last slice a process leaves: PPointHandler exits the process  *)
(* after the last PinPoint (or with a length control), otherwise the       *)
(* application runs on in fast-forward to its end.                         *)
Finish(p) ==
    /\ pc[p] = "ff"
    /\ round[p] = Rounds
    /\ pc' = [pc EXCEPT ![p] = "done"]
    /\ UNCHANGED <<round, processes_at_barrier, num_done_fastforward,
                   fastforward_epoch, num_done_slice, slice_epoch,
                   producers_sleep, msgs>>

\* Every process has exited: the run is over.
Terminated == (\A p \in Procs : pc[p] = "done") /\ UNCHANGED vars

\* Shared-memory counters and epochs start at zero; main enables the
\* producers of every process before PIN_StartProgram.
Init ==
    /\ pc = [p \in Procs |-> "ff"]
    /\ round = [p \in Procs |-> 0]
    /\ processes_at_barrier = [p \in Procs |-> 0]
    /\ num_done_fastforward = 0
    /\ fastforward_epoch = 0
    /\ num_done_slice = 0
    /\ slice_epoch = 0
    /\ producers_sleep = [p \in Procs |-> FALSE]
    /\ msgs = <<>>

ProcStep(p) ==
    \/ StartSimSlice(p)
    \/ FFWakeup(p)
    \/ EndSimSlice(p)
    \/ SEBWakeup(p)
    \/ Finish(p)

Next == (\E p \in Procs : ProcStep(p)) \/ Terminated

Spec == Init /\ [][Next]_vars

(* Each process is its own thread of control: the application reaches its *)
(* next control event, and a sleeping process polls its barrier again      *)
(* every 100 ms.                                                           *)
FairSpec == Spec /\ \A p \in Procs : WF_vars(ProcStep(p))

-----------------------------------------------------------------------------
TypeOK ==
    /\ pc \in [Procs -> {"ff", "ffb_wait", "sim", "seb_wait", "done"}]
    /\ round \in [Procs -> 0..Rounds]
    /\ processes_at_barrier \in [Procs -> 0..num_processes]
    /\ num_done_fastforward \in 0..num_processes
    /\ num_done_slice \in 0..num_processes
    /\ fastforward_epoch \in 0..Rounds
    /\ slice_epoch \in 0..Rounds
    /\ producers_sleep \in [Procs -> BOOLEAN]
    /\ msgs \in Seq([kind : {"SliceStart", "SliceEnd"}, slice : 0..Rounds])

(* A process simulates only inside its slice: when StartSimSlice has      *)
(* returned for the r-th time, the timing simulator has been told         *)
(* SliceStart of that slice and, since, nothing else (2r-1 messages).     *)
(* This is what the comment of FastForwardBarrier, "Wait until all        *)
(* processes have gathered at this barrier", is for.                      *)
SimulatesInsideSlice ==
    \A p \in Procs :
        pc[p] = "sim" =>
            /\ Len(msgs) = 2 * round[p] - 1
            /\ msgs[Len(msgs)] = SliceStart(SliceNum(round[p]))

\* The processes a barrier still holds: asleep in its loop, and the slice
\* they wait for not yet started (ended).
FFHeld == {p \in Procs : pc[p] = "ffb_wait" /\ fastforward_epoch < round[p]}
SEBHeld == {p \in Procs : pc[p] = "seb_wait" /\ slice_epoch < round[p]}

(* The shared arrival counters of FastForwardBarrier and SliceEndBarrier  *)
(* count exactly the processes the barrier still holds: the last arrival  *)
(* resets them to zero together with the epoch bump, and processes that   *)
(* wake up later do not touch them.                                       *)
BarrierCountsArrivals ==
    /\ num_done_fastforward = Cardinality(FFHeld)
    /\ num_done_slice = Cardinality(SEBHeld)

(* Every process eventually gets through all its slices and exits, and    *)
(* the timing simulator has by then been told the start and the end of   *)
(* every slice: no process is left sleeping in a barrier.                 *)
AllSlicesFinish ==
    <>(/\ \A p \in Procs : pc[p] = "done"
       /\ Len(msgs) = 2 * Rounds)

(* The barriers implement the slice API's promise (module SliceBarrier): *)
(* a process still held by a barrier is gathered there, one released but *)
(* not yet awake has already passed it.                                   *)
AbsPhase ==
    [p \in Procs |->
        CASE pc[p] = "ffb_wait" -> IF p \in FFHeld THEN "ffb" ELSE "sim"
          [] pc[p] = "seb_wait" -> IF p \in SEBHeld THEN "seb" ELSE "ff"
          [] OTHER -> pc[p]]

Abstract == INSTANCE SliceBarrier WITH phase <- AbsPhase

SliceBarrierSpec == Abstract!Spec

=============================================================================
