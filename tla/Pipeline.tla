------------------------------ MODULE Pipeline ------------------------------
(***************************************************************************)
(* The decode and commit stages of XIOSim's detailed pipeline composed     *)
(* over one oracle: the Decode and Commit modules instantiated on shared   *)
(* Mop numbering (nextSeq) and flows (shape).  Alloc, which is not in      *)
(* src/, moves the uop at the uopQ head into the pre-commit pipe; a        *)
(* jeclear from exec makes commit, decode, fetch and the oracle recover    *)
(* to the branch together; a trap flushes every stage.  Each stage's own   *)
(* steps leave the other stage alone.                                      *)
(***************************************************************************)
EXTENDS Integers, Sequences, FiniteSets
LOCAL INSTANCE SequencesExt

CONSTANTS
  Depth, DWidth, TargetStage, UopQSize, DecodeBranchLimit, IQSize,
  ROBSize, PreDepth, Width, CommitBranchLimit,
  MaxSeq,
  Shapes,  \* flows: [len, fused, ctrl, complex, ms, sta, std]
  NULL

VARIABLES
  \* decode (Decode)
  pipe, occupancy, last_stage_index, uopQ, uopQ_head, uopQ_tail, uopQ_num,
  uopQ_eff_num, IQ, misfetch, msWait, admitted, delivered, squashedM,
  \* commit (Commit)
  ROB, ROB_head, ROB_tail, ROB_num, ROB_eff_num, pre_commit_pipe, ROB_index,
  complete_index, commit_index, completed, jeclear, squashed, committedUops,
  retired,
  \* commit's alloc cursor: alloc hands uops over directly from the uopQ,
  \* so it stays NULL
  allocNext,
  \* the oracle's Mop numbering and the flows it decoded
  shape, nextSeq,
  \* Mops whose branch exec has resolved (a branch executes once)
  resolved

decodeVars == <<pipe, occupancy, last_stage_index, uopQ, uopQ_head, uopQ_tail,
                uopQ_num, uopQ_eff_num, IQ, misfetch, msWait, admitted,
                delivered, squashedM>>
commitVars == <<ROB, ROB_head, ROB_tail, ROB_num, ROB_eff_num, pre_commit_pipe,
                ROB_index, complete_index, commit_index, completed, jeclear,
                squashed, allocNext, committedUops, retired>>
vars == <<decodeVars, commitVars, shape, nextSeq, resolved>>

D == INSTANCE Decode WITH BranchLimit <- DecodeBranchLimit
C == INSTANCE Commit WITH BranchLimit <- CommitBranchLimit

Mops == 1..MaxSeq
NoShape == [len |-> 0, fused |-> FALSE, ctrl |-> FALSE, complex |-> FALSE,
            ms |-> FALSE, sta |-> {}, std |-> {}]

(***************************************************************************)
(* Actions.                                                                *)
(***************************************************************************)
Fetch == D!FetchMop /\ UNCHANGED <<commitVars, resolved>>

MSDone(m) == D!MSDone(m) /\ UNCHANGED <<commitVars, resolved>>

DecodeStep == D!step /\ UNCHANGED <<commitVars, resolved>>

\* alloc takes the uop at the uopQ head (uop_available, uop_peek,
\* uop_consume) when the pre-commit pipe has a free slot, and inserts it
\* (pre_commit_insert; a fusion head stands for its group as in
\* pre_commit_fused_insert)
Alloc ==
  /\ D!uop_consume
  /\ C!pre_commit_available
  /\ pre_commit_pipe' = [pre_commit_pipe EXCEPT ![C!InsertSlot] = uopQ[uopQ_head]]
  /\ UNCHANGED <<ROB, ROB_head, ROB_tail, ROB_num, ROB_eff_num, ROB_index,
                 complete_index, commit_index, completed, jeclear, squashed,
                 committedUops, retired, allocNext, resolved>>

Complete(u) == C!Complete(u) /\ UNCHANGED <<decodeVars, resolved>>

\* exec resolves branch m, once, as mispredicted
Mispredict(m) ==
  /\ m \notin resolved
  /\ C!Mispredict(m)
  /\ resolved' = resolved \cup {m}
  /\ UNCHANGED decodeVars

PreCommitStep == C!pre_commit_step /\ UNCHANGED <<decodeVars, resolved>>

CommitStep == C!IO_step /\ UNCHANGED <<decodeVars, resolved>>

\* the jeclear of m reaches the front end: commit recovers (recover(Mop)),
\* decode recovers (recover(Mop)), fetch and the oracle drop the younger Mops
Jeclear(m) == C!JeclearRecover(m) /\ D!DecodeRecover(m) /\ UNCHANGED resolved

\* a trap: recover() in commit and in decode
Flush == C!TrapFlush /\ D!DecodeFlush /\ UNCHANGED resolved

Init ==
  /\ pipe = [st \in D!Stages |-> [i \in D!Slots |-> NULL]]
  /\ occupancy = [st \in D!Stages |-> 0]
  /\ last_stage_index = [m \in Mops |-> 0]
  /\ uopQ = [i \in D!Ring |-> NULL]
  /\ uopQ_head = 0 /\ uopQ_tail = 0 /\ uopQ_num = 0 /\ uopQ_eff_num = 0
  /\ IQ = <<>> /\ misfetch = {} /\ msWait = {}
  /\ admitted = {} /\ delivered = <<>> /\ squashedM = {}
  /\ ROB = [i \in 0..ROBSize - 1 |-> NULL]
  /\ ROB_head = 0 /\ ROB_tail = 0 /\ ROB_num = 0 /\ ROB_eff_num = 0
  /\ pre_commit_pipe = [i \in 0..PreDepth - 1 |-> NULL]
  /\ ROB_index = [u \in C!Uops |-> -1]
  /\ complete_index = [m \in Mops |-> 0]
  /\ commit_index = [m \in Mops |-> 0]
  /\ completed = {} /\ jeclear = {} /\ squashed = {}
  /\ committedUops = <<>> /\ retired = <<>> /\ allocNext = NULL
  /\ shape = [m \in Mops |-> NoShape]
  /\ nextSeq = 1
  /\ resolved = {}

Next ==
  \/ Fetch
  \/ \E m \in Mops : MSDone(m)
  \/ DecodeStep
  \/ Alloc
  \/ \E u \in C!Uops : Complete(u)
  \/ \E m \in Mops : Mispredict(m)
  \/ PreCommitStep
  \/ CommitStep
  \/ \E m \in Mops : Jeclear(m)
  \/ Flush

Spec == Init /\ [][Next]_vars

\* The core calls decode's step, pre_commit_step and IO_step every cycle
\* (each written as weak fairness with ENABLED computed as "the step would
\* change the state"); alloc takes a uop whenever one is ready and the
\* pre-commit pipe has room; exec completes every allocated uop; the
\* microsequencer latency runs out; a raised jeclear reaches the front end.
\* Fetch, mispredictions and traps are not forced to happen.
Fairness ==
  /\ []<>~D!StepChanges \/ []<><<DecodeStep>>_vars
  /\ []<>~C!PreChanges \/ []<><<PreCommitStep>>_vars
  /\ []<>~C!IOChanges \/ []<><<CommitStep>>_vars
  /\ WF_vars(Alloc)
  /\ \A u \in C!Uops : WF_vars(Complete(u))
  /\ WF_vars(\E m \in Mops : MSDone(m))
  /\ WF_vars(\E m \in Mops : Jeclear(m))

FairSpec == Spec /\ Fairness

(***************************************************************************)
(* Properties.                                                             *)
(***************************************************************************)
\* the flows decode has still to queue, oldest Mop first
PipeRemaining == FlattenSeq([j \in DOMAIN D!PipeMops |-> D!Remaining(D!PipeMops[j])])
\* every uop the machine holds, in the order of the buffers: ROB from head,
\* pre-commit pipe from its last stage, uopQ from head, decode pipe
InFlightSeq == C!RobSeq \o C!PreSeq \o D!QSeq \o PipeRemaining
CommittedSet == C!Logged(committedUops)

\* Precise state across the stages.  The buffers (ROB, pre-commit pipe,
\* uopQ, decode pipe) hold uops in program order across every hand-over;
\* each uop alloc took from the uopQ, with its fusion group, is held by
\* commit or has been committed unless a recovery squashed its Mop; and no
\* uop of a squashed Mop is held by commit, the uopQ, the decode pipe or
\* fetch's queue after the jeclear recoveries, check_target resteers and
\* traps of both stages.
PreciseState ==
  /\ \A i, j \in DOMAIN InFlightSeq : i < j => C!Older(InFlightSeq[i], InFlightSeq[j])
  /\ \A i \in DOMAIN delivered :
       delivered[i][1] \notin squashedM =>
         C!FusionGroup(delivered[i]) \subseteq C!HeldUops \cup CommittedSet
  /\ \A u \in C!HeldUops : u[1] \notin squashedM
  /\ D!WrongPathPurged

\* Every Mop decode takes from fetch is eventually retired by commit
\* (oracle->commit) or squashed by a recovery: nothing is stranded between
\* the uopQ, alloc, the pre-commit pipe and the ROB.
RetireOrSquash ==
  \A m \in Mops : (m \in admitted) ~> (m \in Range(retired) \/ m \in squashedM)

\* The composed pipeline implements Retire: Mops retire oldest first, never
\* after being squashed, and a recovery never discards a retired Mop.
Abstract == INSTANCE Retire WITH fetched <- nextSeq - 1, done <- retired,
                                 dead <- squashedM \ Range(retired)
RetireSpec == Abstract!Spec
=============================================================================
