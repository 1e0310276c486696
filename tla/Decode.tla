------------------------------- MODULE Decode -------------------------------
(***************************************************************************)
(* The decode stage of XIOSim's detailed pipeline model, core_decode_DPM_t *)
(* (src/xiosim/ZPIPE-decode/decode-DPM.cpp): a depth x width pipe of       *)
(* decoders that advances a whole stage at a time, the target check at     *)
(* target_stage, and the uop queue (uopQ) it fills for alloc.              *)
(*                                                                         *)
(* Mops and uops are named as in Commit: a Mop by its oracle sequence      *)
(* number, a uop by <<seq, k>>.  Fetch's instruction queue, alloc taking   *)
(* uops, the microsequencer latency running out and the recoveries the     *)
(* back end starts are environment actions.                                *)
(***************************************************************************)
EXTENDS Integers, Sequences, FiniteSets
LOCAL INSTANCE SequencesExt

CONSTANTS
  Depth,          \* knobs->decode.depth
  DWidth,         \* knobs->decode.width
  TargetStage,    \* knobs->decode.target_stage
  UopQSize,       \* knobs->decode.uopQ_size
  BranchLimit,    \* knobs->decode.branch_decode_limit (0: no limit)
  IQSize,         \* bound on the Mops fetch holds for decode
  MaxSeq,         \* bound on the Mop sequence numbers fetch hands out
  Shapes,         \* flows: [len, fused, ctrl, complex, ms]
  NULL

ASSUME Depth \in Nat \ {0} /\ DWidth \in Nat \ {0} /\ UopQSize \in Nat \ {0}
ASSUME TargetStage \in 1..Depth - 1
ASSUME BranchLimit \in Nat /\ IQSize \in Nat \ {0} /\ MaxSeq \in Nat \ {0}

Mops == 1..MaxSeq
MaxFlow == CHOOSE n \in {s.len : s \in Shapes} : \A s \in Shapes : s.len <= n
Uops == Mops \X (0..MaxFlow - 1)
Stages == 0..Depth - 1
Slots == 0..DWidth - 1
Ring == 0..UopQSize - 1
NoShape == [len |-> 0, fused |-> FALSE, ctrl |-> FALSE, complex |-> FALSE, ms |-> FALSE]

VARIABLES
  pipe,              \* stage -> decoder -> Mop in it
  occupancy,         \* stage -> Mops counted in it
  last_stage_index,  \* Mop -> decode.last_stage_index (first uop not queued)
  uopQ, uopQ_head, uopQ_tail, uopQ_num, uopQ_eff_num,
  IQ,                \* fetch's queue of Mops for decode (Mop_peek/Mop_consume)
  shape,             \* Mop -> its flow
  misfetch,          \* Mops whose fetch.pred_NPC check_target will correct
  msWait,            \* Mops with when_MS_started not yet passed
  nextSeq,           \* oracle Mop_seq
  admitted,          \* history: Mops decode took from fetch
  delivered,         \* history: uops alloc took with uop_consume
  squashedM          \* history: Mops a recovery made wrong-path

vars == <<pipe, occupancy, last_stage_index, uopQ, uopQ_head, uopQ_tail,
          uopQ_num, uopQ_eff_num, IQ, shape, misfetch, msWait, nextSeq,
          admitted, delivered, squashedM>>

(***************************************************************************)
(* Flows.  A fused Mop is one fusion group: its uop 0 is the head, the     *)
(* rest are the body, which is not queued (uop->decode.in_fusion).         *)
(***************************************************************************)
FlowLength(m) == shape[m].len
IsFusionBody(u) == shape[u[1]].fused /\ u[2] > 0
fusion_size(u) == IF shape[u[1]].fused THEN FlowLength(u[1]) ELSE 1
Heads(m) == {<<m, k>> : k \in {j \in 0..FlowLength(m) - 1 : ~IsFusionBody(<<m, j>>)}}

modinc(i, n) == (i + 1) % n
moddec(i, n) == (i - 1 + n) % n

(***************************************************************************)
(* Environment.                                                            *)
(***************************************************************************)
\* fetch queues the next Mop; its predicted next PC may be wrong
FetchMop ==
  /\ nextSeq <= MaxSeq
  /\ Len(IQ) < IQSize
  /\ \E s \in Shapes, wrong \in BOOLEAN :
       /\ shape' = [shape EXCEPT ![nextSeq] = s]
       /\ misfetch' = IF wrong THEN misfetch \cup {nextSeq} ELSE misfetch
  /\ IQ' = Append(IQ, nextSeq)
  /\ nextSeq' = nextSeq + 1
  /\ UNCHANGED <<pipe, occupancy, last_stage_index, uopQ, uopQ_head, uopQ_tail,
                 uopQ_num, uopQ_eff_num, msWait, admitted, delivered, squashedM>>

\* sim_cycle passes a microsequenced Mop's when_MS_started
MSDone(m) ==
  /\ m \in msWait
  /\ msWait' = msWait \ {m}
  /\ UNCHANGED <<pipe, occupancy, last_stage_index, uopQ, uopQ_head, uopQ_tail,
                 uopQ_num, uopQ_eff_num, IQ, shape, misfetch, nextSeq,
                 admitted, delivered, squashedM>>

\* uop_available, uop_peek and uop_consume, called by alloc
uop_consume ==
  LET uop == uopQ[uopQ_head] IN
  /\ uopQ_num > 0
  /\ uopQ' = [uopQ EXCEPT ![uopQ_head] = NULL]
  /\ uopQ_num' = uopQ_num - 1
  /\ uopQ_eff_num' = uopQ_eff_num - fusion_size(uop)
  /\ uopQ_head' = modinc(uopQ_head, UopQSize)
  /\ delivered' = Append(delivered, uop)
  /\ UNCHANGED <<pipe, occupancy, last_stage_index, uopQ_tail, IQ, shape,
                 misfetch, msWait, nextSeq, admitted, squashedM>>

(***************************************************************************)
(* The recover functions, on a record holding the stage's state: pipe,     *)
(* occ (occupancy), q, qh, qt, qn, qe (uopQ and its head, tail, num and    *)
(* eff_num).  A flag "found" tells recover(Mop) whether the walk met Mop.  *)
(***************************************************************************)
\* the p-th slot recover_decode_pipe visits: stage 0 first (youngest), and
\* in each stage decoder width-1 down to 0
WalkStage(p) == p \div DWidth
WalkSlot(p) == DWidth - 1 - (p % DWidth)

\* mutant: recover_decode_pipe(Mop) forgetting occupancy[stage]--
RECURSIVE recover_decode_pipeNoOcc(_, _, _)
recover_decode_pipeNoOcc(s, m, p) ==
  IF p >= Depth * DWidth THEN [s EXCEPT !.found = FALSE]
  ELSE LET st == WalkStage(p)
           i  == WalkSlot(p)
       IN IF s.occ[st] = 0 \/ s.pipe[st][i] = NULL THEN recover_decode_pipeNoOcc(s, m, p + 1)
          ELSE IF s.pipe[st][i] = m THEN [s EXCEPT !.found = TRUE]
          ELSE recover_decode_pipeNoOcc([s EXCEPT !.pipe[st][i] = NULL], m, p + 1)

\* recover_decode_pipe(Mop): empty every slot younger than Mop, stopping at
\* Mop; stages whose occupancy is 0 are skipped
RECURSIVE recover_decode_pipe(_, _, _)
recover_decode_pipe(s, m, p) ==
  IF p >= Depth * DWidth THEN [s EXCEPT !.found = FALSE]
  ELSE LET st == WalkStage(p)
           i  == WalkSlot(p)
       IN IF s.occ[st] = 0 \/ s.pipe[st][i] = NULL THEN recover_decode_pipe(s, m, p + 1)
          ELSE IF s.pipe[st][i] = m THEN [s EXCEPT !.found = TRUE]
          ELSE recover_decode_pipe([s EXCEPT !.pipe[st][i] = NULL, !.occ[st] = @ - 1],
                                   m, p + 1)

\* recover_uopQ(Mop): pop uops from the tail until one of Mop's is found
RECURSIVE recover_uopQ(_, _)
recover_uopQ(s, m) ==
  IF s.qn = 0 THEN [s EXCEPT !.qe = 0]
  ELSE LET index == moddec(s.qt, UopQSize) IN
    IF s.q[index][1] = m THEN s
    ELSE recover_uopQ([s EXCEPT !.qe = @ - fusion_size(s.q[index]), !.qn = @ - 1,
                                !.q[index] = NULL, !.qt = index], m)

\* recover_uopQ(): blow away the whole uopQ
recover_uopQAll(s) ==
  [s EXCEPT !.q = [i \in Ring |-> NULL], !.qh = 0, !.qt = 0, !.qn = 0, !.qe = 0]

\* recover_decode_pipe(): empty every stage whose occupancy is non-zero
recover_decode_pipeAll(s) ==
  [s EXCEPT !.pipe = [st \in Stages |->
                        IF s.occ[st] = 0 THEN s.pipe[st] ELSE [i \in Slots |-> NULL]],
            !.occ = [st \in Stages |->
                       IF s.occ[st] = 0 THEN 0
                       ELSE s.occ[st] - Cardinality({i \in Slots : s.pipe[st][i] # NULL})]]

\* mutant: recover(Mop) returning after the pipe walk whether or not it met Mop
recoverMopPipeOnly(s, m) == recover_decode_pipe(s, m, 0)

\* decode->recover(Mop): the pipe walk and, if Mop was not in the pipe,
\* recover_uopQ(Mop)
recoverMop(s, m) ==
  LET t == recover_decode_pipe(s, m, 0) IN IF t.found THEN t ELSE recover_uopQ(t, m)

(***************************************************************************)
(* step(): drain the last stage into the uopQ, advance the stages from the *)
(* back (check_flush at the stage after target_stage may resteer and end   *)
(* the step), then admit Mops from fetch into the first stage.  The record *)
(* also carries last (last_stage_index), iq, misfetch, msWait, admitted,   *)
(* squashedM and "ret", set when check_flush returns from step.            *)
(***************************************************************************)
LastStage == Depth - 1

\* mutant: uopQ_eff_num++ for every uop, fusion heads included
EnqueueNoFusion(s, u) ==
  [s EXCEPT !.q[s.qt] = u, !.qt = modinc(@, UopQSize), !.qn = @ + 1, !.qe = @ + 1]

\* queue uop at the uopQ tail
Enqueue(s, u) ==
  [s EXCEPT !.q[s.qt] = u, !.qt = modinc(@, UopQSize), !.qn = @ + 1,
            !.qe = @ + fusion_size(u)]

\* mutant: the drain loop testing "uopQ_num <= uopQ_size" (one uop too many)
RECURSIVE DrainMopOverfill(_, _)
DrainMopOverfill(s, i) ==
  IF s.qn > UopQSize THEN s
  ELSE LET m  == s.pipe[LastStage][i]
           u  == <<m, s.last[m]>>
           t1 == [s EXCEPT !.last[m] = @ + 1]
           t2 == IF IsFusionBody(u) THEN t1 ELSE Enqueue(t1, u)
       IN IF t2.last[m] >= FlowLength(m)
          THEN [t2 EXCEPT !.pipe[LastStage][i] = NULL, !.occ[LastStage] = @ - 1]
          ELSE DrainMopOverfill(t2, i)

\* the while loop over the uops of the Mop in decoder i of the last stage
RECURSIVE DrainMop(_, _)
DrainMop(s, i) ==
  IF s.qn >= UopQSize THEN s
  ELSE LET m  == s.pipe[LastStage][i]
           u  == <<m, s.last[m]>>
           t1 == [s EXCEPT !.last[m] = @ + 1]
           t2 == IF IsFusionBody(u) THEN t1 ELSE Enqueue(t1, u)
       IN IF t2.last[m] >= FlowLength(m)
          THEN [t2 EXCEPT !.pipe[LastStage][i] = NULL, !.occ[LastStage] = @ - 1]
          ELSE DrainMop(t2, i)

\* mutant: the drain visiting the last stage's decoders from width-1 down
RECURSIVE DrainRowBackward(_, _)
DrainRowBackward(s, i) ==
  LET d == DWidth - 1 - i IN
  IF i >= DWidth THEN s
  ELSE IF s.pipe[LastStage][d] = NULL THEN DrainRowBackward(s, i + 1)
  ELSE LET t == DrainMop(s, d) IN IF t.qn >= UopQSize THEN t ELSE DrainRowBackward(t, i + 1)

RECURSIVE DrainRow(_, _)
DrainRow(s, i) ==
  IF i >= DWidth THEN s
  ELSE IF s.pipe[LastStage][i] = NULL THEN DrainRow(s, i + 1)
  ELSE LET t == DrainMop(s, i) IN IF t.qn >= UopQSize THEN t ELSE DrainRow(t, i + 1)

\* move the Mop of decoder i from stage-1 to stage
MoveSlot(s, stage, i) ==
  IF s.pipe[stage - 1][i] = NULL THEN s
  ELSE [s EXCEPT !.pipe[stage][i] = s.pipe[stage - 1][i], !.pipe[stage - 1][i] = NULL,
                 !.occ[stage] = @ + 1, !.occ[stage - 1] = @ - 1]

\* check_flush(stage, i) with check_target: a Mop leaving target_stage with
\* a wrong predicted next PC makes the oracle and fetch recover to it
\* (oracle->recover, fetch->recover), empties the younger decode slots
\* (recover_decode_pipe) and moves on alone
check_flush(s, stage, i) ==
  LET M == s.pipe[stage - 1][i] IN
  IF M # NULL /\ stage - 1 = TargetStage /\ M \in s.misfetch
  THEN LET t == recover_decode_pipe(s, M, 0)
       IN [MoveSlot(t, stage, i) EXCEPT
             !.misfetch = @ \ {M},
             !.iq = <<>>,
             !.squashedM = @ \cup {x \in 1..nextSeq - 1 : x > M},
             !.ret = TRUE]
  ELSE s

RECURSIVE MoveRow(_, _, _)
MoveRow(s, stage, i) ==
  IF i >= DWidth THEN s
  ELSE LET t == check_flush(s, stage, i) IN
       IF t.ret THEN t ELSE MoveRow(MoveSlot(s, stage, i), stage, i + 1)

\* mutant: the MS test without "when_MS_started != TICK_T_MAX", so that the
\* TICK_T_MAX default of every non-microsequenced Mop also holds the pipe
MSHoldsNoMaxCheck(s, M) == M \in s.msWait \/ ~shape[M].ms
\* when_MS_started is set and sim_cycle has not passed it yet
MSHolds(s, M) == M \in s.msWait

\* the walk from the last stage back to stage 1; a stage advances only when
\* it is empty, and a microsequenced Mop in decoder 0 of the stage before it
\* holds back everything behind it
RECURSIVE Advance(_, _)
Advance(s, stage) ==
  IF stage <= 0 THEN s
  ELSE IF s.occ[stage] # 0 THEN Advance(s, stage - 1)
  ELSE IF s.pipe[stage - 1][0] # NULL /\ MSHolds(s, s.pipe[stage - 1][0]) THEN s
  ELSE IF s.occ[stage - 1] = 0 THEN Advance(s, stage - 1)
  ELSE LET t == MoveRow(s, stage, 0) IN IF t.ret THEN t ELSE Advance(t, stage - 1)

\* the Mop at the head of fetch's queue enters decoder i
Take(s, i) ==
  LET M == Head(s.iq) IN
  [s EXCEPT !.pipe[0][i] = M, !.occ[0] = @ + 1, !.iq = Tail(@),
            !.admitted = @ \cup {M},
            !.msWait = IF i = 0 /\ shape[M].ms THEN @ \cup {M} ELSE @]

\* the first stage reads Mops from fetch; only decoder 0 takes complex
\* flows, and at most branch_decode_limit branches enter per cycle
RECURSIVE Admit(_, _, _)
Admit(s, i, branches) ==
  IF i >= DWidth \/ s.iq = <<>> THEN s
  ELSE IF s.pipe[0][i] # NULL THEN Admit(s, i + 1, branches)
  ELSE LET M  == Head(s.iq)
           br == IF shape[M].ctrl THEN branches + 1 ELSE branches
       IN IF shape[M].ctrl /\ BranchLimit > 0 /\ branches >= BranchLimit THEN s
          ELSE IF i = 0 \/ ~shape[M].complex THEN Admit(Take(s, i), i + 1, br)
          ELSE s

State == [pipe |-> pipe, occ |-> occupancy, last |-> last_stage_index,
          q |-> uopQ, qh |-> uopQ_head, qt |-> uopQ_tail, qn |-> uopQ_num,
          qe |-> uopQ_eff_num, iq |-> IQ, misfetch |-> misfetch, msWait |-> msWait,
          admitted |-> admitted, squashedM |-> squashedM, ret |-> FALSE,
          found |-> FALSE]

\* assign the stage's variables from a record
Become(s) ==
  /\ pipe' = s.pipe /\ occupancy' = s.occ /\ last_stage_index' = s.last
  /\ uopQ' = s.q /\ uopQ_head' = s.qh /\ uopQ_tail' = s.qt
  /\ uopQ_num' = s.qn /\ uopQ_eff_num' = s.qe
  /\ IQ' = s.iq /\ misfetch' = s.misfetch /\ msWait' = s.msWait
  /\ admitted' = s.admitted /\ squashedM' = s.squashedM

\* the state one call of step() leaves
StepResult ==
  LET s1 == IF State.occ[LastStage] # 0 THEN DrainRow(State, 0) ELSE State
      s2 == Advance(s1, LastStage)
  IN IF s2.ret THEN s2 ELSE Admit(s2, 0, 0)

step ==
  /\ Become(StepResult)
  /\ UNCHANGED <<shape, nextSeq, delivered>>

\* the back end recovers to branch m (a jeclear): decode->recover(Mop),
\* fetch and the oracle drop everything younger than m
DecodeRecover(m) ==
  /\ shape[m].ctrl
  /\ m \notin squashedM
  /\ \E k \in DOMAIN delivered : delivered[k][1] = m
  /\ Become([recoverMop(State, m) EXCEPT !.iq = <<>>,
                                         !.squashedM = @ \cup {x \in 1..nextSeq - 1 : x > m}])
  /\ UNCHANGED <<shape, nextSeq, delivered>>

\* a trap or nuke: decode->recover() and fetch drops its queue
DecodeFlush ==
  /\ Become([recover_decode_pipeAll(recover_uopQAll(State)) EXCEPT
               !.iq = <<>>, !.squashedM = @ \cup (1..nextSeq - 1)])
  /\ UNCHANGED <<shape, nextSeq, delivered>>

Init ==
  /\ pipe = [st \in Stages |-> [i \in Slots |-> NULL]]
  /\ occupancy = [st \in Stages |-> 0]
  /\ last_stage_index = [m \in Mops |-> 0]
  /\ uopQ = [i \in Ring |-> NULL]
  /\ uopQ_head = 0 /\ uopQ_tail = 0 /\ uopQ_num = 0 /\ uopQ_eff_num = 0
  /\ IQ = <<>> /\ shape = [m \in Mops |-> NoShape]
  /\ misfetch = {} /\ msWait = {} /\ nextSeq = 1
  /\ admitted = {} /\ delivered = <<>> /\ squashedM = {}

Next ==
  \/ FetchMop
  \/ \E m \in Mops : MSDone(m)
  \/ uop_consume
  \/ step
  \/ \E m \in Mops : DecodeRecover(m)
  \/ DecodeFlush

Spec == Init /\ [][Next]_vars

\* The core calls decode's step every cycle, and sim_cycle eventually
\* passes every when_MS_started; alloc is assumed to keep taking uops
\* while the uopQ holds some.
\* WF_vars(step) is written out as []<>~ENABLED <<step>>_vars \/ []<><<step>>_vars,
\* with ENABLED <<step>>_vars computed as "step changes the state" (step is
\* deterministic and changes nothing but the record's variables).
StepChanges == [StepResult EXCEPT !.ret = FALSE, !.found = FALSE] # State
FairSpec ==
  /\ Spec
  /\ ([]<>~StepChanges \/ []<><<step>>_vars)
  /\ WF_vars(uop_consume)
  /\ WF_vars(\E m \in Mops : MSDone(m))

(***************************************************************************)
(* Properties.                                                             *)
(***************************************************************************)
\* program order of uops: Mop_seq first, then position in the flow
Older(u, v) == u[1] < v[1] \/ (u[1] = v[1] /\ u[2] < v[2])

\* the uopQ from head to tail
QSeq == [j \in 1..uopQ_num |-> uopQ[(uopQ_head + j - 1) % UopQSize]]
\* the Mops in the pipe, oldest first: last stage first, decoder 0 first
PipeMops == SelectSeq([p \in 1..Depth * DWidth |->
                         pipe[LastStage - (p - 1) \div DWidth][(p - 1) % DWidth]],
                      LAMBDA x : x # NULL)
\* the uops of m decode has still to queue
Remaining(m) == SelectSeq([k \in 1..FlowLength(m) |-> <<m, k - 1>>],
                          LAMBDA u : u[2] >= last_stage_index[m] /\ ~IsFusionBody(u))
\* every queued uop alloc has taken, then the uopQ, then what the pipe holds
Stream == delivered \o QSeq \o FlattenSeq([j \in DOMAIN PipeMops |-> Remaining(PipeMops[j])])
\* the uops a queued uop stands for: its fusion group, or itself
EffUops(u) == IF shape[u[1]].fused THEN {<<u[1], k>> : k \in 0..FlowLength(u[1]) - 1} ELSE {u}
InQueues(m) == (\E i \in Ring : uopQ[i] # NULL /\ uopQ[i][1] = m)
               \/ (\E st \in Stages, i \in Slots : pipe[st][i] = m)
               \/ (\E j \in DOMAIN IQ : IQ[j] = m)

TypeOK ==
  /\ pipe \in [Stages -> [Slots -> Mops \cup {NULL}]]
  /\ occupancy \in [Stages -> Int]
  /\ last_stage_index \in [Mops -> 0..MaxFlow]
  /\ uopQ \in [Ring -> Uops \cup {NULL}]
  /\ uopQ_head \in Ring /\ uopQ_tail \in Ring /\ uopQ_num \in 0..UopQSize
  /\ uopQ_eff_num \in Int
  /\ IQ \in Seq(Mops) /\ misfetch \subseteq Mops /\ msWait \subseteq Mops
  /\ nextSeq \in 1..MaxSeq + 1

\* occupancy[stage], kept by hand in step, check_flush and the recover
\* walks, counts exactly the Mops in the stage, so the stage-skipping tests
\* "if(occupancy[stage])" never skip a stage holding a Mop.
OccupancyExact ==
  \A st \in Stages : occupancy[st] = Cardinality({i \in Slots : pipe[st][i] # NULL})

\* The uopQ is a ring from uopQ_head holding uopQ_num uops, and
\* uopQ_eff_num counts them with every fusion head weighing its
\* fusion_size, after enqueues, uop_consume and both recover_uopQ.
UopQAccounting ==
  /\ uopQ_tail = (uopQ_head + uopQ_num) % UopQSize
  /\ \A i \in Ring : uopQ[i] # NULL <=> (i - uopQ_head) % UopQSize < uopQ_num
  /\ uopQ_eff_num = Cardinality(UNION {EffUops(uopQ[i]) : i \in {j \in Ring : uopQ[j] # NULL}})

\* Alloc receives uops strictly in program order: what it has taken, then
\* the uopQ, then the flows still in the decode pipe form one ordered
\* stream; and every Mop decode took from fetch and no recovery squashed
\* has each of its queued uops in that stream, so the drain, the stage
\* advance, check_flush and the recover walks neither lose nor repeat one.
EveryUopOnceInOrder ==
  /\ \A i, j \in DOMAIN Stream : i < j => Older(Stream[i], Stream[j])
  /\ \A m \in admitted \ squashedM :
       {Stream[i] : i \in {j \in DOMAIN Stream : Stream[j][1] = m}} = Heads(m)

\* After recover(Mop), recover() or a check_target resteer no Mop younger
\* than the recovery point remains in fetch's queue, the decode pipe or the
\* uopQ.
WrongPathPurged == \A m \in squashedM : ~InQueues(m)

\* Every Mop decode takes from fetch is eventually handed to alloc in
\* full, one uop_consume per queued uop, unless a recovery squashes it: no
\* stage, decoder or uopQ slot holds a Mop forever (the non-serpentine
\* advance, the microsequencer wait and the branch limit all clear).
DecodeProgress ==
  \A m \in Mops :
    m \in admitted ~> (m \in squashedM \/ Heads(m) \subseteq {delivered[i] : i \in DOMAIN delivered})
====
