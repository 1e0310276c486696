# TLA+ models of XIOSim

XIOSim is a cycle-level x86 simulator: a Pin tool (the *feeder*, under
`src/xiosim/pintool/` and `src/pintool/`) runs the program and hands
instruction contexts ("handshakes") through shared buffers to the timing
simulator (Zesto), whose pipeline stages are plug-ins selected by knobs
(`src/xiosim/ZPIPE-*`, `src/xiosim/ZCOMPS-*`).  This directory holds TLA+
modules for the parts of that code whose correctness depends on
interleavings, ring arithmetic and recovery, the TLC configurations that
check them, and `PROJECT.json`, which maps every definition to the source
lines it models.

## 1. Inventory

| Part | Source | State | Operations | Status |
|---|---|---|---|---|
| In-order commit | `ZPIPE-commit/commit-IO-DPM.cpp` | `ROB` ring (`ROB_head`, `ROB_tail`, `ROB_num`, `ROB_eff_num`), `pre_commit_pipe` shift array, per-uop `alloc.ROB_index`, per-Mop `commit.complete_index`, `commit.commit_index` | `pre_commit_insert`, `pre_commit_fused_insert`, `pre_commit_step`, `ROB_insert`, `ROB_fuse_insert`, `IO_step`, `squash_uop`, `recover(Mop)`, `recover()`, `pre_commit_recover` | modelled in `Commit` (except `pre_commit_recover`, the watchdog, statistics) |
| Decode | `ZPIPE-decode/decode-DPM.cpp` | `pipe[depth][width]`, `occupancy[]`, the `uopQ` ring (`uopQ_head/tail/num/eff_num`) | `step` (drain to uopQ, stage advance, first-stage admit), `check_target`, `check_flush`, `recover`, `recover_uopQ`, `recover_decode_pipe`, `uop_available/peek/consume` | modelled in `Decode` (statistics left out) |
| Oracle | `zesto-oracle.h` | `MopQ`, dependence map, `spec_mode` | `exec`, `consume`, `commit_uop`, `commit`, `recover`, `complete_flush` | header only: environment actions, `spec_modelled` |
| Fetch | `ZPIPE-fetch/fetch-none.cpp` | none | `do_fetch` calls `oracle->exec`/`consume` | abstracted into `FetchMop` |
| Predictors | `ZCOMPS-bpred/bpred-nottaken.cpp`, `ZCOMPS-btb/btb-perfect.cpp` | none | constant lookups | not modelled: no state |
| Handshake buffers | `src/pintool/BufferManager.cpp` | per-thread produce/consume buffers, `queueSizes_`, `handshake_pool_`, `locks_` | `push`, `pop`, `front`, `empty`, `back`, `getPooledHandshake`, `releasePooledHandshake`, `copyProducerToConsumer`, `checkFirstAccess` | modelled in `HandshakeBuffers`, except `back` and the read-only `hasThread`/`size`/`isFirstInsn` |
| Feeder scheduling | `pintool/feeder_zesto.cpp`, `feeder.h` | shared `num_done_fastforward`/`num_done_slice` counters and epochs, `producers_sleep` | `PPointHandler` (CONTROL_START/STOP), `StartSimSlice`, `EndSimSlice`, `FastForwardBarrier`, `SliceEndBarrier`, `disable/enable_producers`, `PauseSimulation`, `ResumeSimulation` | modelled in `FeederSlices` (refines `SliceBarrier`); inside Pause/Resume only the producer flag and the mode switch |
| Feeder Pause/Resume and thread scheduling | `pintool/feeder_zesto.cpp`, `feeder.h` | `ExecMode`, `producers_sleep`/`producers_sem`, `thread_list`, per-thread `ignore`/`ignore_all`, `affine_threads`, `scheduled_threads` | `PauseSimulation`, `ResumeSimulation`, `GetAffineThreads`, `ThreadStart`, `GrabInstructionContext`/`FinalizeHandshake`, `CheckIgnoreConditions`, `wait_producers`, the barrier waits seen from one process | partly, in `FeederPause`: the timing simulator's side is spec-modelled; `ThreadFini`, `SyncWithTimingSim`, HELIX and core allocation are left out |
| Core pipeline (decode + alloc + commit) | `decode-DPM.cpp`, `commit-IO-DPM.cpp` | both stages' state, shared Mop numbering | decode `step`, alloc's `uop_consume` + `pre_commit_insert`, `pre_commit_step`, `IO_step`, a jeclear's `recover(Mop)` in both stages, a trap's `recover()` in both | partly, in `Pipeline` (refines `Retire`); exec and alloc are environment actions |
| REP string instructions' NPC | `pintool/feeder_zesto.cpp` | none (a pure function of the call's arguments) | `FixRepInstructionNPC` | modelled in `RepNPC`, checked against x86's REP semantics |
| IPC, memory, uncore headers, `test.cpp` | `interface.h`, `memory.h`, `zesto-uncore.h`, `pintool/test.cpp` | declarations | none | not modelled |

How the parts interact: fetch asks the oracle for the next Mop; decode
splits it into uops and fills the uop queue; alloc (not in `src/`) moves
uops into exec and the pre-commit pipe; exec completes them and, on a
mispredicted branch, raises a jeclear; commit retires uops oldest first and
tells the oracle (`commit_uop`, `commit`).  A jeclear or a trap calls
`recover` on every stage, which must squash exactly the uops younger than
the branch.

Hard behaviours of the commit stage:
- the ROB is a ring whose tail is rewound by `recover(Mop)` with C's `%`;
- fused uops (a fusion head and its body) take one ROB entry but count
  individually in `ROB_eff_num`, and commit them without counting width;
- `pre_commit_step` drains up to `width` stages into the ROB, stopping
  part-way if the ROB fills, then shifts the pipe by `width`;
- a Mop retires only when every uop of its flow has completed, checked by
  a walk (`complete_index`) that also allocates store-queue entries and may
  stall half-way;
- a Mop with a jeclear in flight must not retire.

What makes commit correct: the ring stays a ring; `ROB_eff_num` counts
exactly the live uops holding a ROB index; uops enter the ROB and reach
the oracle in program order; a Mop retires atomically once complete; a
recovery to Mop m removes exactly the younger uops.

The feeder side: every simulated process runs a Pin tool whose
`PPointHandler` brackets each simulation slice with `StartSimSlice`
(gather all processes in `FastForwardBarrier`, tell the timing simulator
`SliceStart`) and `EndSimSlice` (gather in `SliceEndBarrier`, send
`SliceEnd`).  The barriers are shared-memory counters and epochs guarded by
a lock.  `BufferManager` is the older per-thread handshake queue between a
producer (instrumentation) thread and a consumer (simulator) thread; the
current feeder uses `BufferManagerProducer`, which is not in `src/`.

## 2. Plan

1. `Commit` (done): the commit stage with its collaborators as environment
   actions.
2. `Decode` (done): the decode pipe and uop queue, `check_target`/
   `check_flush` and the recover functions, with the same Mop/uop naming.
3. `FeederSlices` (done) with its abstract `SliceBarrier`.
4. `HandshakeBuffers` (done).
5. `FeederPause` (done): Pause/Resume against producers and thread start.
6. `Pipeline` (done): decode and commit composed over shared Mop numbering,
   with cross-stage jeclear recovery and traps, refining the abstract
   in-order-retirement spec `Retire`.
7. `Pipeline` at the flow-length boundary (done): a flow as long as the
   ROB plus the pre-commit pipe.
8. `RepNPC` (done): the REP string instructions' NPC against x86.
9. Next: store flows in `MC_Commit`.

## 3. Modules

### `Commit` (`commit-IO-DPM.cpp`)

A Mop is its oracle sequence number (1..`MaxSeq`); a uop is `<<seq, k>>`
with k its place in the flow.  `shape[m]` is the decoded flow: its length,
whether its uops are fused, whether it is a branch, which positions are STA
and STD uops.

- Variables are the class fields of the same name plus the per-uop and
  per-Mop fields commit reads (`ROB_index`, `complete_index`,
  `commit_index`), the sets `completed`, `jeclear`, `squashed` standing for
  `when_completed`, `jeclear_in_flight` and the action ids, and two history
  variables of what the oracle was told (`committedUops`, `retired`).
- `pre_commit_step` is the whole function: `DrainToROB` is the drain loop
  (with `stage -= j` as `DrainStage(j)`), including the early return on a
  full ROB, and `Shuffle` the shift.
- `IO_step` is the whole commit loop (`CommitLoop`): the EMPTY,
  JECLEAR_INFLIGHT, MAX_BRANCHES, NOT_READY/PARTIAL and STQ stalls, the
  completion walk (`CompleteWalk`), and the commit of the head uop
  (`CommitHeadUop`) including fusion bodies.  Its inputs `stqFree` and
  `stdOk` are the answers of exec's store queue, chosen freely.
- `JeclearRecover(m)` is `recover(Mop)`; `TrapFlush` is `recover()`.
- Environment actions, modelled from the spec because their code is not in
  `src/`: `FetchMop` (oracle exec), `AllocInsert` (alloc calling
  `pre_commit_insert` / `pre_commit_fused_insert`), `Complete` (exec) and
  `Mispredict` (exec raising a jeclear).

`MC_Commit` instantiates it with three flows: a one-uop branch, a fused
pair and a plain pair.  Stores are not among them: the walk's STA/STD
handling is in the model but a store flow makes the state space too large
with the other flows (see "Not modelled").

### `Decode` (`decode-DPM.cpp`)

Same Mop/uop naming as `Commit`; `shape[m]` also says whether a flow is
complex (decoder 0 only) or microsequenced (waits for the MS).

- Variables are the fields `pipe`, `occupancy`, `last_stage_index`, the
  `uopQ` ring and its counters, plus `IQ` (the fetch queue decode reads),
  `misfetch` (Mops whose predicted next PC is wrong, found by
  `check_target`), `msWait` (Mops waiting for `when_MS_started`) and the
  histories `admitted`, `delivered` (what alloc consumed) and `squashedM`.
- `step` is the whole function, computed on a record `State` and installed
  by `Become`: `DrainRow`/`DrainMop` drain the last stage into the uopQ
  uop by uop (fusion bodies take no slot, `last_stage_index` resumes a Mop
  cut short by a full uopQ); `Advance`/`MoveRow` move each stage into an
  empty later one, oldest first, stopping at an MS wait; `check_flush` at
  the target stage recovers and returns from `step` (`ret`); `Admit`/`Take`
  fill the first stage within the decoder limits and the branch limit.
- `recover(Mop)` is `recoverMop` (`recover_decode_pipe`, a RECURSIVE walk
  that stops at the Mop, then `recover_uopQ` popping from the tail);
  `recover()` is `DecodeFlush`.
- Environment: `FetchMop` (oracle and fetch), `MSDone` (the MS latency
  elapsing), `uop_consume` (alloc); `DecodeRecover(m)` is a jeclear from
  exec for a delivered branch.

### `FeederSlices` and `SliceBarrier` (`feeder_zesto.cpp`)

`pc[p]` is where process p is: fast-forwarding, asleep in one of the two
barrier loops, simulating, or exited.  Each lock-protected stretch of a
barrier is one action, as nothing else can happen to the shared counters
while it runs: `StartSimSlice` (CONTROL_START: count in, and either sleep or
pass), `FFWakeup` (the re-locked loop test failing), `EndSimSlice`
(CONTROL_STOP: `PauseSimulation` then count in at the end barrier),
`SEBWakeup`, `Finish` (after the last slice).  `FFRelease`/`SEBRelease` are
the code after each loop: the last arrival (its own `processes_at_barrier`
equal to `*num_processes`) bumps the epoch, resets the counter and sends the
message.  `SliceNum(r)` is the slice number `PPointHandler` passes: the
PinPoint number with PinPoints, 1 otherwise.

`SliceBarrier` is what the slice API promises: the last process to reach a
slice boundary releases everyone at once and the simulator is told once.
`FeederSlices` maps onto it by calling a sleeper whose slice has been
released "passed" already (`AbsPhase`); the run checks `Abstract!Spec` as
a property.

### `HandshakeBuffers` (`pintool/BufferManager.cpp`)

One thread id with its producer (calls `push`) and consumer (polls `empty`,
then `front`, then `pop`).  Containers are numbers; `pool`,
`produceBuffer`, `consumeBuffer` are sequences of them, `content` and
`isFirst` what a container holds.  Every method starts with the unlocked
`checkFirstAccess` (`CheckFirstAccess`, `FirstAccessInit` after the
`sleep(5)`, `AssertSizes`); `lockVer` is which lock object `locks_[tid]`
points to, because a second initialisation replaces it.  Critical sections
are split exactly where the unlocked assertion can see a difference: push
into `PushEnqueue` (`getPooledHandshake` and `produceBuffer_->push`) and
`PushCount` (`queueSizes_++`, unlock), pop into `PopLocked` and
`PopCount`.  A failed assertion ends the process (`Abort`).  In the
release build (`AssertsOn = FALSE`) the asserts of `front` and `pop` are
compiled out, and what those calls do on an empty buffer depends on the
`Buffer` class, which is not in `src/`: the model stops the run there in a
separate outcome (`Undefined`) and checks nothing past it.  The run reaches
it only after a second first access has emptied the queues.  The run starts
before either thread's first access: `NoContainerShared` holds even when
both create the buffers; `HandoffInOrder`, `ContainerConservation` and
`AllDelivered` are stated for behaviours in which the buffers were created
once (`CreatedOnce`, `lockVer <= 1`), since a second creation discards what
was queued (hazard at line 126).  The callers
of `BufferManager` are not in `src/`, so the threads' loops (`Producer`,
`Consumer`) are marked as modelled from the spec.

### `FeederPause` (`pintool/feeder_zesto.cpp`, `feeder.h`)

One process: `Main` is the thread whose `PPointHandler` runs the slice
control, the other threads only run instrumented code.  `pc[t]` is where a
thread is: in the application (`app`), asleep in `wait_producers`
(`wait`), between `CheckIgnoreConditions` and the end of
`FinalizeHandshake` (`grab`), in one of the steps of `ThreadStart`, or,
for `Main`, in a step of the slice control.  A handshake is abstracted to
its kind (a real instruction, a trap, a give-up) and the slice it was
produced in; `buf[t]` is the thread's buffer as the timing simulator reads
it.

- `disable_producers`/`enable_producers` are the two functions with
  `producers_sem` the semaphore `wait_producers` waits on; `GrabCall`
  (the ignore check and the sleep test), `WaitDone` (waking, re-checking
  the ignore flags) and `Finalize` (the handshake reaches the buffer) are
  the steps of an instrumentation callback.
- `CtlStart`, `FFWait`, `FFPass` are CONTROL_START with
  `FastForwardBarrier`; `ResumeFlags` and `ResumeDone` are
  `ResumeSimulation` (clear the flags, ask the simulator to schedule each
  affine thread, wait until it has); `CtlStop`, `PauseThread`,
  `PauseDrain` are CONTROL_STOP with `PauseSimulation` (snapshot the affine
  threads, set `ignore_all` and append trap and give-up handshakes per
  thread, wait until no listed thread is scheduled, re-enable producers);
  `SEBWait`/`SEBPass` are `SliceEndBarrier`.  With `MultiProcess` the
  barriers wait for other processes and call `disable_producers` while
  they do.
- `TSCall`, `TSScheduled`, `TSFinish` are `ThreadStart`: in simulation it
  asks the simulator to schedule the new thread and waits, and only then
  clears the flags and appends the thread to `thread_list`.
- The timing simulator, whose code is not in `src/`, is spec-modelled:
  `ScheduleOne` answers a scheduling request, `Consume` takes the head of
  a scheduled thread's buffer and de-schedules the thread on a give-up.

### `RepNPC` (`FixRepInstructionNPC`, `feeder_zesto.cpp` 526-617)

For a REP string instruction the producer computes the NPC itself: the
instruction again (`pc`, the loop goes on) or the next one (`tpc`).
`FixRepInstructionNPC` is that decision as an operator of the call's
arguments: the count register, the REP/REPNE prefix, the opcode group,
the memory operands and rAX.  `ZfCode` is the zero flag as the switch
computes it: CMPS compares the two operands; SCAS compares the operand
with `rax_value`, the full register; the other groups leave it false.
`X86NextPC` is the reference, x86's REP semantics.  A zero count does
nothing.  Otherwise the loop ends when the decremented count is 0, or for
CMPS/SCAS on ZF clear under REPE or set under REPNE.  SCAS compares the
accumulator cut to the operand size.  The machine is scaled down: 2-bit
bytes, 1- and 2-byte operands and a 2-byte rAX.  That keeps the one
property of the code that matters, an accumulator wider than the operand.
`FeederPause` extends `RepNPC`, and the `pause_resume` run checks it in
every state where the process simulates, the only mode whose code carries
the call: it is one of the producer's analysis calls, and its ignore check and
`FinalizeBuffer` are the producer steps that module models.

The property says where the code and x86 differ, and nowhere else.  It
holds: the two disagree exactly on SCAS iterations that are not the last
by count, whose rAX has bits above the operand size, and whose low part
equals the memory operand.  There the code sees ZF clear because it
compares with all of RAX (line 575, "0-extended anyways").  So it keeps
looping under REPNE where x86 stops, and stops under REPE where x86 goes
on.  The simulator then follows the wrong path for a `repne scasb` with
a dirty upper rAX, for example after `mov al, c` leaves the
upper bytes of RAX set.

### `Pipeline` and `Retire` (decode and commit together)

`Pipeline` instantiates `Decode` (as `D`) and `Commit` (as `C`) on one set
of variables: the oracle's `nextSeq` and the flows `shape` are shared, and
commit's own alloc cursor `allocNext` stays `NULL` because alloc is now
`Alloc`: the uop at the uopQ head (`uop_consume`, decode-DPM.cpp 548-569)
goes into the pre-commit slot `pre_commit_insert` picks.  `DecodeStep`,
`PreCommitStep` and `CommitStep` are the stages' step functions, each
leaving the other stage alone; `Complete` and `Mispredict` are exec
(a branch resolves once, recorded in `resolved`).  `Jeclear(m)` is the
front end handling a jeclear: commit's `recover(Mop)` and decode's
`recover(Mop)` in one step, fetch and the oracle dropping the younger Mops;
`Flush` is a trap, `recover()` in both stages.  `Retire` is what the
pipeline promises with none of its buffers: Mops are handed out in order,
retire oldest first, a recovery to m discards only younger, unretired
Mops.  The mapping is `fetched <- nextSeq - 1`, `done <- retired`,
`dead <- squashedM \ Range(retired)`.

## 4. Runs

| Run | Config | Result | What it shows |
|---|---|---|---|
| `commit_safety` | `MC_Commit.cfg` | pass (344,633 states) | `TypeOK`; `FusionAccounting` (`ROB_eff_num`/`ROB_num` exact after inserts, fused commits and squashes); `RetirementOrder` (ROB then pre-commit pipe in program order); `AtomicInOrderCommit` (the oracle sees uops oldest first, never squashed ones, only of fully completed Mops, and each Mop retired once after all its uops); `RecoverSquashesYounger` (a jeclear recovery to m removes exactly the uops of younger Mops) |
| `rob_tail_underflow` | `RobTailUnderflow.cfg` | violation of `RobRing` | `recover(Mop)` computes `(ROB_tail - squashed) % ROB_size` with C's `%`: after the tail wraps to 0 and two entries are squashed, `ROB_tail = -2` (12 states) |
| `precommit_width3` | `PreCommitWidth3.cfg` | violation of `RetirementOrder` | with `width = 3`, `stage -= j` drains stages D-1, D-2, D-4 and never D-3, so the second uop of a Mop reaches the ROB before the first |
| `decode_safety` | `MC_Decode.cfg` | pass (51,413 states) | under `FairSpec`: `OccupancyExact` (occupancy counts the filled slots); `UopQAccounting` (ring counters, `uopQ_eff_num` counts fused groups in full); `EveryUopOnceInOrder` (what alloc got, the uopQ and the rest of the pipe, read in that order, are each admitted Mop's uops once, oldest first); `WrongPathPurged` (no squashed Mop stays in the uopQ); `DecodeProgress` (every admitted Mop is eventually delivered in full or squashed) |
| `slices_pinpoints` | `FeederSlices.cfg` | pass (628 states) | 3 processes, 3 PinPoints slices: `SimulatesInsideSlice` (a process simulates only between its slice's SliceStart and SliceEnd); `BarrierCountsArrivals` (each shared counter equals the processes its barrier still holds); `SliceBarrierSpec` (refinement of `SliceBarrier`); `AllSlicesFinish` |
| `slices_without_pinpoints` | `SliceNumFixed.cfg` | violation of `SimulatesInsideSlice` | with `slice_num` always 1, the second `FastForwardBarrier` no longer waits: a process simulates while another is still in the first slice's end barrier (7 states) |
| `handshake_buffers` | `HandshakeBuffers.cfg` | pass (1,771 states) | from before either first access: `NoContainerShared` (no container queued twice or handed out while queued, even when both threads create the buffers); while created once, `HandoffInOrder` (every handshake reaches the consumer once, in order, only the first marked `isFirstInsn`), `ContainerConservation` (no container lost, the count right outside the lock) and `AllDelivered` |
| `pipeline` | `MC_Pipeline.cfg` | pass (70,935 states) | under `FairSpec`: `PreciseState` (ROB, pre-commit pipe, uopQ and decode pipe in program order; every uop alloc took of an unsquashed Mop is held by commit or committed with its fusion group; no squashed Mop's uop is held anywhere); `RetireSpec` (refinement of `Retire`); `RetireOrSquash` (every admitted Mop is eventually retired or squashed, even a flow as long as the ROB and the pre-commit pipe together) |
| `pause_resume` | `FeederPause.cfg` | pass (3,679 states) | `ScheduledExactlyInsideSlice` (outside a slice and after `PauseSimulation` no thread is scheduled and only instruction handshakes are left; once `ResumeSimulation` returns every listed thread is scheduled); `SimulationEnds` (every slice starts and ends, and the process reaches the end); `RepNPCMatchesX86ExceptWideAccumulator` (the REP NPC is x86's except on SCAS with bits of rAX above the operand) |
| `pause_stale_handshake` | `PauseStaleHandshake.cfg` | violation of `NoHandshakeOutlivesSlice` | a producer past `CheckIgnoreConditions` when `PauseSimulation` sets `ignore_all` finishes its handshake after the give-up; the simulator consumes it in the next slice (line 936) |
| `producers_asleep_in_ff` | `ProducersAsleepInFF.cfg` | violation of `NoProducerBlockedInFastForward` | `SliceEndBarrier` disables the producers that `PauseSimulation` re-enabled and nothing enables them before the next slice: threads stay blocked through fast-forward (line 1322) |
| `thread_start_during_pause` | `ThreadStartDuringPause.cfg` | violation of `SimulationEnds` | a thread started after the `GetAffineThreads` snapshot is scheduled but gets no give-up handshake, and blocks in `wait_producers`: `PauseSimulation` and the thread wait on each other (line 854) |

Bounds.  Commit: `ROBSize = 3` with `Width = 2` lets the ROB fill, wrap
and stall mid-wavefront; `PreDepth = 4` gives two wavefronts; `MaxSeq = 3`
Mops with a branch flow give a younger Mop to squash behind an older one
and a fused group next to plain ones; `BranchLimit = 1` reaches the
MAX_BRANCHES stall.  Because of the tail bug every behaviour with a partial
squash of a wrapped ROB leaves the ring; the passing run carries the
constraint `TailNotUnderflowed` so that it explores the behaviours up to
that point and does not go on from a corrupt ROB (the failing run shows
that state).  Decode: 3 stages of 2 decoders, a 2-entry uopQ (smaller than
a fused pair plus another Mop, so the drain stops mid-Mop), the target
check at stage 1, 3 Mops among a branch, a fused pair and a microsequenced
pair.  Feeder: 3 processes (so a sleeper, a late arrival and the last one
coexist) and 3 slices (the counter reset is reused twice).  Handshake
buffers: 4 pushes through a consume buffer of 2 (front stops copying when
full); the pool is as large as the run, as 50000 is in practice.  Feeder
Pause/Resume: two threads (one producer besides the controlling thread,
so a producer step can fall between any two steps of `PauseSimulation`),
two PinPoints (a slice after a Pause, so a left-over handshake or a
sleeping producer meets the next slice), at most two instructions per
thread (one produced before and one racing with the Pause).  Pipeline: 2 decode stages of 1 decoder, a
2-entry uopQ and ROB, a 1-stage pre-commit pipe, width 1, and 2 Mops among
a branch, a fused pair and a microsequenced triple.  That gives a branch
with a younger Mop behind it in the decode pipe, the uopQ or the pre-commit
pipe when its jeclear arrives, a full uopQ and ROB, and a trap anywhere.
In this instance a jeclear that squashes a ROB entry always finds the
branch at entry 0 and the tail wrapped to 0, so it drives `ROB_tail` below
zero (the underflow of `rob_tail_underflow`), so the
`TailNotUnderflowed` constraint cuts every such behaviour.  The joint
recovery is therefore checked here only for younger Mops outside the ROB.
The ROB half of `recover(Mop)` is checked by `RecoverSquashesYounger` in
`commit_safety`.  The triple is as long as the ROB and
the pre-commit pipe together (line 974: a uop leaves the pre-commit pipe
only into a free ROB entry, alloc fills the pipe only into a free slot, and
commit waits for a Mop's last uop, so the first uops of a longer flow hold
every entry its last uop needs).
It is the longest flow that can still complete, and `RetireOrSquash`
holds for it.  A four-uop flow stops the pipeline for good, and nothing in
`src/` rejects one; only the deadlock watchdog ends the run.  A third Mop
multiplies the state space beyond a few minutes.
The `TailNotUnderflowed` constraint is carried as in `commit_safety`.

Fairness.  `decode_safety` runs under `FairSpec`: weak fairness of `step` (the core
calls it every cycle; written as `[]<>~StepChanges \/ []<><<step>>_vars`,
the same condition without TLC re-evaluating the recursive step under
ENABLED), of `uop_consume` (alloc keeps consuming) and of `MSDone` (the MS
latency elapses).  `FeederSlices` has weak fairness per process: each is
its own OS process, the application reaches its next control event, and a
sleeper polls every 100 ms.  `HandshakeBuffers` has weak fairness of each
thread; `PIN_LOCK` is a spin lock, and a lock that stays free is taken.
`FeederPause` has weak fairness of `Main`'s control steps (the application
reaches its next control event; the barrier loops poll), of each thread's
return from `wait_producers` and from its analysis call, and of the
simulator's `ScheduleOne` and `Consume` (its threads serve IPC requests
and consume scheduled buffers continually).  Producers are not forced to
start a new instruction: an application may stop producing.  `Pipeline`
has the stages' steps weakly fair in the same hand-written form (the core
calls decode, pre-commit and commit every cycle), and weak fairness of
alloc, of each uop's completion (exec completes what was allocated), of
the MS latency and of the jeclear reaching the front end.  Fetch,
mispredictions and traps are never forced.

## 5. Not modelled

- `pre_commit_recover`: it has no caller in `src/`; it also never
  terminates on an empty slot (`continue` without `stage--`, line 1030).
- The deadlock watchdog, statistics, power counters and the branch
  predictor update in `IO_step`: no effect on the modelled state.
- Store flows in `MC_Commit`: the STQ allocation during the walk is
  modelled but not among the enumerated shapes yet.
- Exec, alloc, the oracle implementation and the uncore: not in `src/`.
- `BufferManager::back`: no caller in `src/`.  The per-thread log files.
- `FeederSlices` abstracts `PauseSimulation`/`ResumeSimulation` to the
  producer flag and the mode switch; `FeederPause` has their internals.
- In `FeederPause`: `ThreadFini` (its effect hangs on what the timing
  simulator does with the kill handshake and with a later scheduling
  request for an exited thread, which neither `src/` nor the spec says;
  `thread_list` never drops the thread), `SyncWithTimingSim` and the
  Blocked and Affinity handshakes (no caller in `src/`), HELIX and core
  allocation (`AllocateCores`), and processes other than the one seen
  (the barriers are its view of them).
- In `RepNPC`: the `ASSERTX` on the number of memory operands and on an
  unknown opcode, and `PIN_SafeCopy` failing on an unmapped address (it
  leaves the operand 0); operand sizes of 4 and 8 bytes, which the scaled
  1- and 2-byte sizes stand for.
- The handshake manager's side of `PauseSimulation` (`BufferManagerProducer`
  sharing containers between threads, line 923): not in `src/`.
- `BufferManagerProducer`, which the current feeder uses: not in `src/`.
