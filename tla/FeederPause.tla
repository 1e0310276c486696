----------------------------- MODULE FeederPause -----------------------------
(***************************************************************************)
(* The feeder's Pause/Resume API inside one simulated process              *)
(* (feeder_zesto.cpp, feeder.h).  The thread Main is the application      *)
(* thread on which the PinPoints control events fire (PPointHandler); every *)
(* thread, Main included, runs instrumentation callbacks that produce       *)
(* handshakes (GrabInstructionContext).  The timing simulator's side, not  *)
(* in this repository, is the environment: a per-thread flag "simulating"   *)
(* (IsSHMThreadSimulatingMaybe), the IPC requests to schedule threads, and  *)
(* a consumer per thread that takes handshakes off its buffer while the     *)
(* thread is scheduled and de-schedules it on a give-up handshake.          *)
(*                                                                         *)
(* A handshake is abstracted to its kind and to the slice in which its     *)
(* instruction passed CheckIgnoreConditions.  The slice barriers are those *)
(* of FeederSlices seen from one process: with MultiProcess the process    *)
(* may have to wait at either barrier (and then disables its producers).   *)
(* The NPC a REP instruction's producer call fills in (FixRepInstructionNPC) *)
(* is a pure function of the call's arguments, in RepNPC.                 *)
(***************************************************************************)
EXTENDS Naturals, Sequences, FiniteSets, RepNPC

LOCAL INSTANCE SequencesExt

CONSTANTS Threads,      \* application threads of the process
          Main,         \* the thread that reaches the PinPoints
          Unborn,       \* threads the application creates later
          Rounds,       \* PinPoints (simulation slices)
          MaxInsns,     \* handshakes a thread produces in the whole run
          MultiProcess  \* other processes share the slice barriers

ASSUME /\ Main \in Threads
       /\ Unborn \subseteq Threads \ {Main}
       /\ Rounds \in Nat \ {0}
       /\ MaxInsns \in Nat
       /\ MultiProcess \in BOOLEAN

VARIABLES
    ExecMode,          \* "invalid" before the first slice, "ff" or "sim"
    producers_sleep,   \* the static flag of disable/enable_producers
    producers_sem,     \* producers_sem is set
    thread_list,       \* thread_list, in order of ThreadStart
    ignore,            \* tstate->ignore
    ignore_all,        \* tstate->ignore_all
    pc,                \* where each application thread is
    affine,            \* PauseSimulation: threads of its loop still to visit
    scheduled_threads, \* ResumeSimulation: the threads it asked for
    made,              \* handshakes each thread has finalised
    grabSlice,         \* slice in which a thread's open handshake passed the check
    slice,             \* slices started so far (SliceStart messages)
    sched,             \* timing simulator: IsSHMThreadSimulatingMaybe(tid)
    pending,           \* timing simulator: scheduling requests not yet handled
    buf                \* timing simulator: handshakes produced, not consumed

vars == <<ExecMode, producers_sleep, producers_sem, thread_list, ignore,
          ignore_all, pc, affine, scheduled_threads, made, grabSlice, slice,
          sched, pending, buf>>

Handshake(kind, s) == [kind |-> kind, slice |-> s]

ignored(t) == ignore[t] \/ ignore_all[t]

-----------------------------------------------------------------------------
(* Producer sleep (feeder_zesto.cpp, sleeping_enabled is set by main).     *)

disable_producers ==
    /\ producers_sem' = (producers_sem /\ producers_sleep)
    /\ producers_sleep' = TRUE

enable_producers ==
    /\ producers_sem' = (producers_sem \/ producers_sleep)
    /\ producers_sleep' = FALSE

-----------------------------------------------------------------------------
(* Instrumentation callbacks of thread t.  Analysis calls exist only in    *)
(* code instrumented in SIMULATE mode.  GrabCall is CheckIgnoreConditions  *)
(* up to its verdict (wait_producers first; a call that is ignored changes *)
(* nothing); Finalize is the rest of GrabInstructionContext, from          *)
(* GetProperBuffer to FinalizeBuffer.                                      *)

GrabCall(t) ==
    /\ pc[t] = "app"
    /\ ExecMode = "sim"
    /\ made[t] < MaxInsns
    /\ \/ /\ producers_sleep
          /\ pc' = [pc EXCEPT ![t] = "wait"]
          /\ UNCHANGED grabSlice
       \/ /\ ~producers_sleep
          /\ ~ignored(t)
          /\ pc' = [pc EXCEPT ![t] = "grab"]
          /\ grabSlice' = [grabSlice EXCEPT ![t] = slice]
    /\ UNCHANGED <<ExecMode, producers_sleep, producers_sem, thread_list, ignore,
                   ignore_all, affine, scheduled_threads, made, slice, sched,
                   pending, buf>>

\* PIN_SemaphoreWait returns once the semaphore is set; then the ignore check.
WaitDone(t) ==
    /\ pc[t] = "wait"
    /\ producers_sem
    /\ IF ignored(t)
         THEN pc' = [pc EXCEPT ![t] = "app"] /\ UNCHANGED grabSlice
         ELSE /\ pc' = [pc EXCEPT ![t] = "grab"]
              /\ grabSlice' = [grabSlice EXCEPT ![t] = slice]
    /\ UNCHANGED <<ExecMode, producers_sleep, producers_sem, thread_list, ignore,
                   ignore_all, affine, scheduled_threads, made, slice, sched,
                   pending, buf>>

Finalize(t) ==
    /\ pc[t] = "grab"
    /\ buf' = [buf EXCEPT ![t] = Append(@, Handshake("real", grabSlice[t]))]
    /\ made' = [made EXCEPT ![t] = @ + 1]
    /\ pc' = [pc EXCEPT ![t] = "app"]
    /\ UNCHANGED <<ExecMode, producers_sleep, producers_sem, thread_list, ignore,
                   ignore_all, affine, scheduled_threads, grabSlice, slice,
                   sched, pending>>

-----------------------------------------------------------------------------
(* ThreadStart of a thread the application creates (ScheduleThread, then   *)
(* the flags, then thread_list).                                           *)

TSCall(t) ==
    /\ pc[t] = "unborn"
    /\ IF ExecMode = "sim"
         THEN /\ pending' = pending \cup {t}
              /\ pc' = [pc EXCEPT ![t] = "start_sched"]
         ELSE /\ pc' = [pc EXCEPT ![t] = "start_fin"]
              /\ UNCHANGED pending
    /\ UNCHANGED <<ExecMode, producers_sleep, producers_sem, thread_list, ignore,
                   ignore_all, affine, scheduled_threads, made, grabSlice, slice,
                   sched, buf>>

\* ScheduleThread's spin: while (!IsSHMThreadSimulatingMaybe(tid)) ;
TSScheduled(t) ==
    /\ pc[t] = "start_sched"
    /\ sched[t]
    /\ pc' = [pc EXCEPT ![t] = "start_fin"]
    /\ UNCHANGED <<ExecMode, producers_sleep, producers_sem, thread_list, ignore,
                   ignore_all, affine, scheduled_threads, made, grabSlice, slice,
                   sched, pending, buf>>

TSFinish(t) ==
    /\ pc[t] = "start_fin"
    /\ IF ExecMode = "sim"
         THEN /\ ignore' = [ignore EXCEPT ![t] = FALSE]
              /\ ignore_all' = [ignore_all EXCEPT ![t] = FALSE]
         ELSE UNCHANGED <<ignore, ignore_all>>
    /\ thread_list' = Append(thread_list, t)
    /\ pc' = [pc EXCEPT ![t] = "app"]
    /\ UNCHANGED <<ExecMode, producers_sleep, producers_sem, affine,
                   scheduled_threads, made, grabSlice, slice, sched, pending, buf>>

-----------------------------------------------------------------------------
(* PPointHandler on Main.  CONTROL_START: StartSimSlice (FastForwardBarrier, *)
(* then SIMULATE mode) and ResumeSimulation.  CONTROL_STOP:                 *)
(* PauseSimulation, then EndSimSlice (SliceEndBarrier, then FASTFORWARD     *)
(* mode), and PIN_ExitProcess after the last PinPoint.                      *)

\* Threads ordered by virtual affinity: every thread has INVALID_CORE, and
\* the stable sort keeps the order of thread_list.
GetAffineThreads == thread_list

CtlStart ==
    /\ pc[Main] = "app"
    /\ ExecMode # "sim"
    /\ slice < Rounds
    /\ pc' = [pc EXCEPT ![Main] = "ffb"]
    /\ UNCHANGED <<ExecMode, producers_sleep, producers_sem, thread_list, ignore,
                   ignore_all, affine, scheduled_threads, slice, pending>>
    /\ UNCHANGED <<made, grabSlice, sched, buf>>

\* FastForwardBarrier: other processes still fast-forwarding; sleep.
FFWait ==
    /\ pc[Main] = "ffb"
    /\ MultiProcess
    /\ disable_producers
    /\ pc' = [pc EXCEPT ![Main] = "ffb_wait"]
    /\ UNCHANGED <<ExecMode, thread_list, ignore, ignore_all, affine,
                   scheduled_threads, slice, pending>>
    /\ UNCHANGED <<made, grabSlice, sched, buf>>

\* Leaving FastForwardBarrier (SliceStart, enable_producers), then the rest
\* of StartSimSlice.
FFPass ==
    /\ pc[Main] \in {"ffb", "ffb_wait"}
    /\ slice' = slice + 1
    /\ enable_producers
    /\ ExecMode' = "sim"
    /\ pc' = [pc EXCEPT ![Main] = "resume"]
    /\ UNCHANGED <<thread_list, ignore, ignore_all, affine, scheduled_threads,
                   pending>>
    /\ UNCHANGED <<made, grabSlice, sched, buf>>

\* ResumeSimulation up to ScheduleProcessThreads: clear the ignore flags of
\* every thread, then ask for all threads ordered by affinity.
ResumeFlags ==
    /\ pc[Main] = "resume"
    /\ ignore' = [t \in Threads |-> IF t \in Range(thread_list) THEN FALSE ELSE ignore[t]]
    /\ ignore_all' = [t \in Threads |-> IF t \in Range(thread_list) THEN FALSE ELSE ignore_all[t]]
    /\ scheduled_threads' = Range(GetAffineThreads)
    /\ pending' = pending \cup Range(thread_list)
    /\ pc' = [pc EXCEPT ![Main] = "resume_wait"]
    /\ UNCHANGED <<ExecMode, producers_sleep, producers_sem, thread_list, affine,
                   slice>>
    /\ UNCHANGED <<made, grabSlice, sched, buf>>

\* "Wait until all threads have been scheduled."
ResumeDone ==
    /\ pc[Main] = "resume_wait"
    /\ \A t \in scheduled_threads : sched[t]
    /\ pc' = [pc EXCEPT ![Main] = "app"]
    /\ UNCHANGED <<ExecMode, producers_sleep, producers_sem, thread_list, ignore,
                   ignore_all, affine, scheduled_threads, slice, pending>>
    /\ UNCHANGED <<made, grabSlice, sched, buf>>

\* PauseSimulation: disable_producers, then GetAffineThreads.
CtlStop ==
    /\ pc[Main] = "app"
    /\ ExecMode = "sim"
    /\ disable_producers
    /\ affine' = GetAffineThreads
    /\ pc' = [pc EXCEPT ![Main] = "pause_loop"]
    /\ UNCHANGED <<ExecMode, thread_list, ignore, ignore_all, scheduled_threads,
                   slice, pending>>
    /\ UNCHANGED <<made, grabSlice, sched, buf>>

PauseThreadNoGiveUp ==
    /\ pc[Main] = "pause_loop"
    /\ affine # <<>>
    /\ LET t == Head(affine) IN
         /\ ignore_all' = [ignore_all EXCEPT ![t] = TRUE]
         /\ buf' = IF sched[t]
                     THEN [buf EXCEPT ![t] = Append(@, Handshake("trap", 0))]
                     ELSE buf
    /\ affine' = Tail(affine)
    /\ UNCHANGED <<ExecMode, producers_sleep, producers_sem, thread_list, ignore,
                   pc, scheduled_threads, made, grabSlice, slice, sched, pending>>

\* One iteration of the loop over the affine threads: ignore_all, and for a
\* thread the scheduler still runs a trap and a give-up handshake.
PauseThread ==
    /\ pc[Main] = "pause_loop"
    /\ affine # <<>>
    /\ LET t == Head(affine) IN
         /\ ignore_all' = [ignore_all EXCEPT ![t] = TRUE]
         /\ buf' = IF sched[t]
                     THEN [buf EXCEPT ![t] = @ \o <<Handshake("trap", 0),
                                                    Handshake("giveup", 0)>>]
                     ELSE buf
    /\ affine' = Tail(affine)
    /\ UNCHANGED <<ExecMode, producers_sleep, producers_sem, thread_list, ignore,
                   pc, scheduled_threads, made, grabSlice, slice, sched, pending>>

ThreadsDoneLastOnly ==
    ~sched[thread_list[Len(thread_list)]]

\* The drain loop: threads_done &= !IsSHMThreadSimulatingMaybe over thread_list.
ThreadsDone ==
    \A t \in Range(thread_list) : ~sched[t]

\* The drain loop ends; enable_producers; DeallocateCores; SliceEndBarrier.
PauseDrain ==
    /\ pc[Main] = "pause_loop"
    /\ affine = <<>>
    /\ ThreadsDone
    /\ enable_producers
    /\ pc' = [pc EXCEPT ![Main] = "seb"]
    /\ UNCHANGED <<ExecMode, thread_list, ignore, ignore_all, affine,
                   scheduled_threads, slice, pending>>
    /\ UNCHANGED <<made, grabSlice, sched, buf>>

\* SliceEndBarrier: other processes still simulating; sleep.
SEBWait ==
    /\ pc[Main] = "seb"
    /\ MultiProcess
    /\ disable_producers
    /\ pc' = [pc EXCEPT ![Main] = "seb_wait"]
    /\ UNCHANGED <<ExecMode, thread_list, ignore, ignore_all, affine,
                   scheduled_threads, slice, pending>>
    /\ UNCHANGED <<made, grabSlice, sched, buf>>

\* Leaving SliceEndBarrier (SliceEnd), FASTFORWARD mode, and the exit after
\* the last PinPoint.
SEBPass ==
    /\ pc[Main] \in {"seb", "seb_wait"}
    /\ ExecMode' = "ff"
    /\ pc' = [pc EXCEPT ![Main] = IF slice = Rounds THEN "done" ELSE "app"]
    /\ UNCHANGED <<producers_sleep, producers_sem, thread_list, ignore,
                   ignore_all, affine, scheduled_threads, slice, pending>>
    /\ UNCHANGED <<made, grabSlice, sched, buf>>

-----------------------------------------------------------------------------
(* The timing simulator, modelled from its interface: a scheduling request *)
(* is handled at some later time; a scheduled thread's consumer takes its  *)
(* handshakes in order and a give-up handshake de-schedules it.            *)

ScheduleOne(t) ==
    /\ t \in pending
    /\ sched' = [sched EXCEPT ![t] = TRUE]
    /\ pending' = pending \ {t}
    /\ UNCHANGED <<ExecMode, producers_sleep, producers_sem, thread_list, ignore,
                   ignore_all, pc, affine, scheduled_threads, made, grabSlice,
                   slice, buf>>

Consume(t) ==
    /\ sched[t]
    /\ buf[t] # <<>>
    /\ buf' = [buf EXCEPT ![t] = Tail(@)]
    /\ sched' = [sched EXCEPT ![t] = Head(buf[t]).kind # "giveup"]
    /\ UNCHANGED <<ExecMode, producers_sleep, producers_sem, thread_list, ignore,
                   ignore_all, pc, affine, scheduled_threads, made, grabSlice,
                   slice, pending>>

\* PIN_ExitProcess after the last slice ends the run.
Terminated ==
    /\ pc[Main] = "done"
    /\ UNCHANGED vars

-----------------------------------------------------------------------------

\* Threads started before the program runs are in thread_list with both
\* ignore flags set (thread_state_t's constructor); main enables producers
\* while producers_sleep is still false, so the semaphore stays clear.
Init ==
    /\ ExecMode = "invalid"
    /\ producers_sleep = FALSE
    /\ producers_sem = FALSE
    /\ thread_list = <<Main>> \o SetToSeq(Threads \ (Unborn \cup {Main}))
    /\ ignore = [t \in Threads |-> TRUE]
    /\ ignore_all = [t \in Threads |-> TRUE]
    /\ pc = [t \in Threads |-> IF t \in Unborn THEN "unborn" ELSE "app"]
    /\ affine = <<>>
    /\ scheduled_threads = {}
    /\ made = [t \in Threads |-> 0]
    /\ grabSlice = [t \in Threads |-> 0]
    /\ slice = 0
    /\ sched = [t \in Threads |-> FALSE]
    /\ pending = {}
    /\ buf = [t \in Threads |-> <<>>]

MainCtl ==
    \/ CtlStart \/ FFWait \/ FFPass \/ ResumeFlags \/ ResumeDone
    \/ CtlStop \/ PauseThread \/ PauseDrain \/ SEBWait \/ SEBPass

Producer(t) == GrabCall(t) \/ WaitDone(t) \/ Finalize(t)

ThreadStart(t) == TSCall(t) \/ TSScheduled(t) \/ TSFinish(t)

Next ==
    \/ MainCtl
    \/ \E t \in Threads : Producer(t) \/ ScheduleOne(t) \/ Consume(t)
    \/ Terminated

Spec == Init /\ [][Next]_vars

\* Main reaches its next control event and leaves each wait once it may;
\* every thread returns from its analysis call; the timing simulator
\* handles every request and its consumers keep consuming.
Fairness ==
    /\ WF_vars(MainCtl)
    /\ \A t \in Threads : /\ WF_vars(WaitDone(t) \/ Finalize(t))
                          /\ WF_vars(ScheduleOne(t))
                          /\ WF_vars(Consume(t))

FairSpec == Spec /\ Fairness

(* Analysis calls exist only in code instrumented in SIMULATE mode, and  *)
(* so does the REP instructions' FixRepInstructionNPC call.  While the     *)
(* process simulates, the NPC that call gives a REP string instruction is  *)
(* the next PC x86 takes in every case but one (RepNPC): a REPE/REPNE SCAS *)
(* iteration, not the last by count, whose accumulator has bits above the *)
(* operand size while its low part equals the memory operand.  There the  *)
(* code compares with the whole of rAX, sees ZF clear where x86 sets it,  *)
(* and hands the simulator the wrong NPC (the loop goes on under REPNE,   *)
(* stops under REPE).                                                      *)
RepNPCMatchesX86ExceptWideAccumulator ==
    ExecMode = "sim" => NPCDiffersOnlyOnWideAccumulator

\* The same process when its application creates threads at any time.
SpawnNext == Next \/ \E t \in Unborn : ThreadStart(t)

SpawnSpec == Init /\ [][SpawnNext]_vars
             /\ Fairness /\ \A t \in Unborn : WF_vars(ThreadStart(t))

-----------------------------------------------------------------------------
(* Properties.                                                             *)

\* The drain loop waits on every listed thread, so outside a slice (before
\* the first, in fast-forward, and from the return of PauseSimulation on) no
\* thread is scheduled and no trap or give-up handshake is left over, as
\* feeder.h promises ("after this call, all sim threads are spinning in
\* SimulatorLoop"); and once ResumeSimulation returns every listed thread
\* is scheduled.
ScheduledExactlyInsideSlice ==
    /\ (ExecMode # "sim" \/ pc[Main] \in {"seb", "seb_wait"}) =>
          \A t \in Threads :
             /\ ~sched[t]
             /\ \A i \in DOMAIN buf[t] : buf[t][i].kind = "real"
    /\ (ExecMode = "sim" /\ pc[Main] = "app") =>
          \A t \in Range(thread_list) : sched[t]

\* PauseSimulation drains every thread's buffer (feeder.h: "Make sure that
\* all sim threads drain any handshake buffers ... Start ignoring all
\* produced instructions"): no handshake of an instruction checked in one
\* slice is still waiting to be consumed once another slice has begun.
NoHandshakeOutlivesSlice ==
    \A t \in Threads : \A i \in DOMAIN buf[t] :
        buf[t][i].kind = "real" => buf[t][i].slice = slice

\* PauseSimulation re-enables producers "so they can continue ignoring
\* instructions until the next slice": while Main fast-forwards, no thread
\* is held in wait_producers by a clear semaphore.
NoProducerBlockedInFastForward ==
    (ExecMode = "ff" /\ pc[Main] = "app") =>
        \A t \in Threads : pc[t] = "wait" => producers_sem

\* Every slice is started and ended and the process exits after the last:
\* neither PauseSimulation's drain, ResumeSimulation's wait nor a barrier
\* blocks for good.
SimulationEnds == <>(pc[Main] = "done")

=============================================================================
