------------------------------- MODULE Commit -------------------------------
(***************************************************************************)
(* The in-order commit stage of XIOSim's detailed pipeline model,          *)
(* core_commit_IO_DPM_t (src/xiosim/ZPIPE-commit/commit-IO-DPM.cpp): the   *)
(* pre-commit shift array, the ROB ring, IO_step, squash_uop and the two   *)
(* recover functions.                                                      *)
(*                                                                         *)
(* A Mop is named by its oracle sequence number, a uop by <<seq, k>>, k    *)
(* its position in the Mop's flow.  The collaborators that drive commit    *)
(* are environment actions: the oracle handing out Mops (FetchMop), alloc  *)
(* inserting uops into the pre-commit pipe (AllocInsert), exec completing  *)
(* uops (Complete) and detecting mispredictions (Mispredict), and the      *)
(* front end acting on a jeclear (JeclearRecover) or a trap (TrapFlush).   *)
(***************************************************************************)
EXTENDS Integers, Sequences, FiniteSets

CONSTANTS
  ROBSize,      \* knobs->commit.ROB_size
  PreDepth,     \* knobs->commit.pre_commit_depth
  Width,        \* knobs->commit.width
  BranchLimit,  \* knobs->commit.branch_limit (0: no limit)
  MaxSeq,       \* bound on the Mop sequence numbers the oracle hands out
  Shapes,       \* uop flows a Mop may have: [len, fused, ctrl, sta, std]
  NULL

ASSUME ROBSize \in Nat \ {0}
ASSUME Width \in Nat \ {0} /\ PreDepth >= Width
ASSUME BranchLimit \in Nat /\ MaxSeq \in Nat \ {0}

Mops == 1..MaxSeq
MaxFlow == CHOOSE n \in {s.len : s \in Shapes} : \A s \in Shapes : s.len <= n
Uops == Mops \X (0..MaxFlow - 1)
NoShape == [len |-> 0, fused |-> FALSE, ctrl |-> FALSE, sta |-> {}, std |-> {}]

VARIABLES
  ROB, ROB_head, ROB_tail, ROB_num, ROB_eff_num,
  pre_commit_pipe,
  ROB_index,       \* uop -> alloc.ROB_index (-1: not in the ROB)
  complete_index,  \* Mop -> commit.complete_index (-1: all uops done)
  commit_index,    \* Mop -> commit.commit_index (-1: Mop retired)
  shape,           \* Mop -> its decoded uop flow
  completed,       \* uops with when_completed <= sim_cycle
  jeclear,         \* Mops with commit.jeclear_in_flight set
  squashed,        \* uops passed through squash_uop
  allocNext,       \* next uop alloc will hand to the pre-commit pipe
  nextSeq,         \* oracle Mop_seq
  committedUops,   \* history: uops given to oracle->commit_uop
  retired          \* history: Mops given to oracle->commit

vars == <<ROB, ROB_head, ROB_tail, ROB_num, ROB_eff_num, pre_commit_pipe,
          ROB_index, complete_index, commit_index, shape, completed, jeclear,
          squashed, allocNext, nextSeq, committedUops, retired>>

(***************************************************************************)
(* Uop flows and fusion links (uop->decode).                               *)
(***************************************************************************)
FlowLength(m) == shape[m].len
InFusion(u) == shape[u[1]].fused
FusionHead(u) == IF InFusion(u) THEN <<u[1], 0>> ELSE u
FusionNext(u) ==
  IF InFusion(u) /\ u[2] + 1 < FlowLength(u[1]) THEN <<u[1], u[2] + 1>> ELSE NULL
FusionGroup(u) ==
  IF InFusion(u) THEN {<<u[1], k>> : k \in 0..FlowLength(u[1]) - 1} ELSE {u}
IsCtrl(m) == shape[m].ctrl
IsSta(u) == u[2] \in shape[u[1]].sta
IsStd(u) == u[2] \in shape[u[1]].std

\* program order of uops: Mop_seq first, then position in the flow
Older(u, v) == u[1] < v[1] \/ (u[1] = v[1] /\ u[2] < v[2])

modinc(i, n) == (i + 1) % n
\* C's % truncates toward zero: a negative dividend gives a negative result
CRem(a, n) == IF a >= 0 THEN a % n ELSE -((-a) % n)

(***************************************************************************)
(* ROB_available, ROB_insert, ROB_fuse_insert, pre_commit_available and    *)
(* pre_commit_insert.                                                      *)
(***************************************************************************)
\* mutant: an off-by-one in the ROB-full test
ROBHasRoomOffByOne(num) == num <= ROBSize
\* mutant: the ring kept with one entry always free (full at ROBSize - 1)
ROBHasRoomKeepOneFree(num) == num < ROBSize - 1
\* ROB_available: a ROB holding num entries can take one more
ROBHasRoom(num) == num < ROBSize
ROB_available == ROBHasRoom(ROB_num)

pre_commit_available == \E i \in 0..Width - 1 : pre_commit_pipe[i] = NULL

\* mutant: pre_commit_insert scanning its slots upward from 0
InsertSlotUpward ==
  CHOOSE i \in 0..Width - 1 :
    pre_commit_pipe[i] = NULL /\ \A j \in 0..i - 1 : pre_commit_pipe[j] # NULL
\* pre_commit_insert scans from width-1 down and takes the first free slot
InsertSlot ==
  CHOOSE i \in 0..Width - 1 :
    pre_commit_pipe[i] = NULL /\ \A j \in i + 1..Width - 1 : pre_commit_pipe[j] # NULL

\* the ROB entries IO_step and recover visit: head up to tail, do-while style
RobWalk(head, tail) ==
  {(head + j) % ROBSize : j \in 0..(((tail - head - 1) % ROBSize) + 1) - 1}

\* get_num_eff_uops_in_ROB: the members of u's fusion group holding a ROB index
EffUopsInROB(u) == {v \in FusionGroup(u) : ROB_index[v] >= 0}

(***************************************************************************)
(* Environment: the collaborators that feed and redirect commit.           *)
(***************************************************************************)
\* oracle->exec hands out the next Mop; alloc will start on it
FetchMop ==
  /\ allocNext = NULL
  /\ nextSeq <= MaxSeq
  /\ \E s \in Shapes : shape' = [shape EXCEPT ![nextSeq] = s]
  /\ allocNext' = <<nextSeq, 0>>
  /\ nextSeq' = nextSeq + 1
  /\ UNCHANGED <<ROB, ROB_head, ROB_tail, ROB_num, ROB_eff_num, pre_commit_pipe,
                 ROB_index, complete_index, commit_index, completed, jeclear,
                 squashed, committedUops, retired>>

\* alloc inserts the next uop (pre_commit_insert) or a whole fused group
\* through its head (pre_commit_fused_insert)
AllocInsert ==
  /\ allocNext # NULL
  /\ pre_commit_available
  /\ pre_commit_pipe' = [pre_commit_pipe EXCEPT ![InsertSlot] = FusionHead(allocNext)]
  /\ allocNext' = IF InFusion(allocNext) \/ allocNext[2] + 1 >= FlowLength(allocNext[1])
                  THEN NULL ELSE <<allocNext[1], allocNext[2] + 1>>
  /\ UNCHANGED <<ROB, ROB_head, ROB_tail, ROB_num, ROB_eff_num, ROB_index,
                 complete_index, commit_index, shape, completed, jeclear,
                 squashed, nextSeq, committedUops, retired>>

InPreCommit(u) ==
  \E i \in 0..PreDepth - 1 :
    pre_commit_pipe[i] # NULL /\ u \in FusionGroup(pre_commit_pipe[i])
InFlight(u) == u \notin squashed /\ (ROB_index[u] >= 0 \/ InPreCommit(u))

\* exec finishes a uop that alloc has handed on
Complete(u) ==
  /\ InFlight(u)
  /\ u \notin completed
  /\ completed' = completed \cup {u}
  /\ UNCHANGED <<ROB, ROB_head, ROB_tail, ROB_num, ROB_eff_num, pre_commit_pipe,
                 ROB_index, complete_index, commit_index, shape, jeclear,
                 squashed, allocNext, nextSeq, committedUops, retired>>

\* exec resolves a mispredicted branch and enqueues a jeclear for it
Mispredict(m) ==
  /\ IsCtrl(m)
  /\ m \notin jeclear
  /\ \E k \in 0..FlowLength(m) - 1 : <<m, k>> \in completed /\ InFlight(<<m, k>>)
  /\ jeclear' = jeclear \cup {m}
  /\ UNCHANGED <<ROB, ROB_head, ROB_tail, ROB_num, ROB_eff_num, pre_commit_pipe,
                 ROB_index, complete_index, commit_index, shape, completed,
                 squashed, allocNext, nextSeq, committedUops, retired>>

(***************************************************************************)
(* squash_uop and the two recover functions.                               *)
(***************************************************************************)
\* squash_uop bumps the action id of the uop's whole fusion group (from
\* its fusion head); LDQ/STQ release and idep/odep unlinking are exec's and
\* the oracle's and are left out here
SquashSet(us) == UNION {FusionGroup(FusionHead(u)) : u \in us}

\* mutant: recover(Mop) comparing Mop_seq with >= instead of >
recoverInclusive(m) ==
  LET walk   == IF ROB_num > 0 THEN RobWalk(ROB_head, ROB_tail) ELSE {}
      dead   == {i \in walk : ROB[i][1] >= m}
      deadP  == {i \in 0..PreDepth - 1 :
                   pre_commit_pipe[i] # NULL /\ pre_commit_pipe[i][1] >= m}
      effSq  == UNION {EffUopsInROB(ROB[i]) : i \in dead}
  IN /\ ROB' = [i \in 0..ROBSize - 1 |-> IF i \in dead THEN NULL ELSE ROB[i]]
     /\ ROB_num' = ROB_num - Cardinality(dead)
     /\ ROB_eff_num' = ROB_eff_num - Cardinality(effSq)
     /\ ROB_tail' = CRem(ROB_tail - Cardinality(dead), ROBSize)
     /\ pre_commit_pipe' = [i \in 0..PreDepth - 1 |->
                              IF i \in deadP THEN NULL ELSE pre_commit_pipe[i]]
     /\ squashed' = squashed \cup SquashSet({ROB[i] : i \in dead}
                                             \cup {pre_commit_pipe[i] : i \in deadP})

\* recover(Mop): squash every ROB entry and pre-commit slot younger than m
recover(m) ==
  LET walk   == IF ROB_num > 0 THEN RobWalk(ROB_head, ROB_tail) ELSE {}
      dead   == {i \in walk : ROB[i][1] > m}
      deadP  == {i \in 0..PreDepth - 1 :
                   pre_commit_pipe[i] # NULL /\ pre_commit_pipe[i][1] > m}
      effSq  == UNION {EffUopsInROB(ROB[i]) : i \in dead}
  IN /\ ROB' = [i \in 0..ROBSize - 1 |-> IF i \in dead THEN NULL ELSE ROB[i]]
     /\ ROB_num' = ROB_num - Cardinality(dead)
     /\ ROB_eff_num' = ROB_eff_num - Cardinality(effSq)
     /\ ROB_tail' = CRem(ROB_tail - Cardinality(dead), ROBSize)
     /\ pre_commit_pipe' = [i \in 0..PreDepth - 1 |->
                              IF i \in deadP THEN NULL ELSE pre_commit_pipe[i]]
     /\ squashed' = squashed \cup SquashSet({ROB[i] : i \in dead}
                                             \cup {pre_commit_pipe[i] : i \in deadP})

\* recover(): squash the whole ROB and pre-commit pipe (traps, nukes)
recoverAll ==
  LET walk  == IF ROB_num > 0 THEN RobWalk(ROB_head, ROB_tail) ELSE {}
      live  == {ROB[i] : i \in walk} \cup
               {pre_commit_pipe[i] : i \in {j \in 0..PreDepth - 1 : pre_commit_pipe[j] # NULL}}
  IN /\ ROB' = [i \in 0..ROBSize - 1 |-> NULL]
     /\ ROB_num' = 0
     /\ ROB_eff_num' = 0
     /\ ROB_tail' = ROB_head
     /\ pre_commit_pipe' = [i \in 0..PreDepth - 1 |-> NULL]
     /\ squashed' = squashed \cup SquashSet(live)

\* the front end processes the jeclear of m: every stage recovers to m and
\* alloc drops any younger Mop it had not yet handed on
JeclearRecover(m) ==
  /\ m \in jeclear
  /\ recover(m)
  /\ jeclear' = {x \in jeclear : x < m}
  /\ allocNext' = IF allocNext # NULL /\ allocNext[1] > m THEN NULL ELSE allocNext
  /\ UNCHANGED <<ROB_head, ROB_index, complete_index, commit_index, shape,
                 completed, nextSeq, committedUops, retired>>

\* a trap or nuke flushes the whole pipeline
TrapFlush ==
  /\ recoverAll
  /\ jeclear' = {}
  /\ allocNext' = NULL
  /\ UNCHANGED <<ROB_head, ROB_index, complete_index, commit_index, shape,
                 completed, nextSeq, committedUops, retired>>

(***************************************************************************)
(* pre_commit_step: up to width slots at the end of the pipe go to the     *)
(* ROB, then the rest of the pipe shifts forward by width.  The stage of   *)
(* iteration j is reached by "stage -= j", i.e. PreDepth-1 - j(j+1)/2.     *)
(***************************************************************************)
DrainStage(j) == PreDepth - 1 - (j * (j + 1)) \div 2

\* mutant: ROB_fuse_insert forgetting ROB_eff_num++
InsertGroupNoFuseCount(s, u) ==
  LET idx == s.tail IN
  [s EXCEPT !.rob[idx] = u,
            !.num = @ + 1,
            !.eff = @ + 1,
            !.index = [v \in DOMAIN @ |-> IF v \in FusionGroup(u) THEN idx ELSE @[v]],
            !.tail = modinc(idx, ROBSize)]

\* one ROB_insert of a fusion head followed by ROB_fuse_insert of its body
InsertGroup(s, u) ==
  LET idx == s.tail IN
  [s EXCEPT !.rob[idx] = u,
            !.num = @ + 1,
            !.eff = @ + Cardinality(FusionGroup(u)),
            !.index = [v \in DOMAIN @ |-> IF v \in FusionGroup(u) THEN idx ELSE @[v]],
            !.tail = modinc(idx, ROBSize)]

RECURSIVE DrainToROB(_, _)
DrainToROB(s, j) ==
  IF j >= Width THEN s
  ELSE LET st == DrainStage(j)
           u  == s.pipe[st]
       IN IF u = NULL THEN DrainToROB([s EXCEPT !.pipe[st] = NULL], j + 1)
          ELSE IF ~ROBHasRoom(s.num) THEN [s EXCEPT !.stall = TRUE]
          ELSE DrainToROB([InsertGroup(s, u) EXCEPT !.pipe[st] = NULL], j + 1)

RECURSIVE Shuffle(_, _)
Shuffle(p, st) ==
  IF st < 0 THEN p
  ELSE Shuffle(IF p[st] # NULL THEN [p EXCEPT ![st + Width] = p[st], ![st] = NULL]
               ELSE p, st - 1)

\* the record the drain loop of pre_commit_step leaves
PreResult ==
  DrainToROB([rob |-> ROB, num |-> ROB_num, eff |-> ROB_eff_num,
              index |-> ROB_index, tail |-> ROB_tail,
              pipe |-> pre_commit_pipe, stall |-> FALSE], 0)

\* the pre-commit pipe after the step: left in place on a stall, else shuffled
PrePipe(s) == IF s.stall THEN s.pipe ELSE Shuffle(s.pipe, DrainStage(Width - 1) - 1)

pre_commit_step ==
  LET s == PreResult
  IN /\ ROB' = s.rob
     /\ ROB_num' = s.num
     /\ ROB_eff_num' = s.eff
     /\ ROB_index' = s.index
     /\ ROB_tail' = s.tail
     /\ pre_commit_pipe' = PrePipe(s)
     /\ UNCHANGED <<ROB_head, complete_index, commit_index, shape, completed,
                    jeclear, squashed, allocNext, nextSeq, committedUops, retired>>

\* ENABLED <<pre_commit_step>>_vars without evaluating the step under ENABLED
PreChanges ==
  LET s == PreResult
  IN <<s.rob, s.num, s.eff, s.index, s.tail, PrePipe(s)>>
       # <<ROB, ROB_num, ROB_eff_num, ROB_index, ROB_tail, pre_commit_pipe>>

(***************************************************************************)
(* IO_step: commit up to width uops, oldest first.  A Mop's uops commit    *)
(* only once the walk over its flow (complete_index) has found every uop   *)
(* completed; store-address uops enter the STQ during that walk            *)
(* (exec_fused_ST), which may fail.  The inputs stqFree (entries           *)
(* exec_fused_ST can still take this cycle) and stdOk (whether             *)
(* STQ_deallocate_std succeeds) stand for the exec collaborator.  The      *)
(* deadlock watchdog, statistics and the branch predictor update are left  *)
(* out: they change no state modelled here.                                *)
(***************************************************************************)
\* mutant: the walk marking the Mop done once its current uop completes
CompleteWalkShallow(s, m) ==
  LET u == <<m, s.ci[m]>> IN
  IF ~(u \in completed \/ IsSta(u) \/ IsStd(u)) THEN s
  ELSE IF IsSta(u) /\ s.stqFree = 0 THEN [s EXCEPT !.stall = "STQ"]
  ELSE [s EXCEPT !.stqFree = IF IsSta(u) THEN @ - 1 ELSE @, !.ci[m] = -1]

RECURSIVE CompleteWalk(_, _)
CompleteWalk(s, m) ==
  LET u  == <<m, s.ci[m]>>
      nx == s.ci[m] + 1
  IN IF ~(u \in completed \/ IsSta(u) \/ IsStd(u)) THEN s
     ELSE IF IsSta(u) /\ s.stqFree = 0 THEN [s EXCEPT !.stall = "STQ"]
     ELSE LET t == [s EXCEPT !.stqFree = IF IsSta(u) THEN @ - 1 ELSE @,
                             !.ci[m] = IF nx >= FlowLength(m) THEN -1 ELSE nx]
          IN IF nx >= FlowLength(m) THEN t ELSE CompleteWalk(t, m)

\* commit the uop at the ROB head: a fusion member other than the last one
\* is replaced in place by its fusion_next and does not count toward width
CommitHeadUop(s, m) ==
  LET u    == s.rob[s.head]
      nx   == s.cmi[m] + 1
      done == nx >= FlowLength(m)
      last == ~InFusion(u) \/ FusionNext(u) = NULL
  IN [s EXCEPT !.rob[s.head] = IF last THEN NULL ELSE FusionNext(u),
               !.num   = IF last THEN @ - 1 ELSE @,
               !.eff   = @ - 1,
               !.head  = IF last THEN modinc(@, ROBSize) ELSE @,
               !.count = IF last THEN @ + 1 ELSE @,
               !.index[u] = -1,
               !.log   = Append(@, u),
               !.cmi[m] = IF done THEN -1 ELSE nx,
               !.ret   = IF done THEN Append(@, m) ELSE @,
               !.br    = IF done /\ IsCtrl(m) THEN @ + 1 ELSE @]

RECURSIVE CommitLoop(_)
CommitLoop(s) ==
  IF s.count >= Width THEN s
  ELSE IF s.num <= 0 THEN [s EXCEPT !.stall = "EMPTY"]
  ELSE LET m == s.rob[s.head][1] IN
    IF m \in jeclear THEN [s EXCEPT !.stall = "JECLEAR_INFLIGHT"]
    ELSE IF IsCtrl(m) /\ BranchLimit > 0 /\ s.br >= BranchLimit
      THEN [s EXCEPT !.stall = "MAX_BRANCHES"]
    ELSE LET w == IF s.ci[m] # -1 THEN CompleteWalk(s, m) ELSE s IN
      IF w.stall # "NONE" THEN w
      ELSE IF w.ci[m] # -1
        THEN [w EXCEPT !.stall = IF w.ci[m] = 0 THEN "NOT_READY" ELSE "PARTIAL"]
      ELSE IF IsStd(w.rob[w.head]) /\ ~w.stdOk THEN [w EXCEPT !.stall = "STQ"]
      ELSE CommitLoop(CommitHeadUop(w, m))

\* the record IO_step leaves, for exec's answers stqFree and stdOk
IOResult(stqFree, stdOk) ==
  CommitLoop([rob |-> ROB, head |-> ROB_head, num |-> ROB_num,
              eff |-> ROB_eff_num, index |-> ROB_index,
              ci |-> complete_index, cmi |-> commit_index,
              log |-> committedUops, ret |-> retired,
              stqFree |-> stqFree, stdOk |-> stdOk,
              count |-> 0, br |-> 0, stall |-> "NONE"])

IO_step ==
  \E stqFree \in 0..Width, stdOk \in BOOLEAN :
    LET s == IOResult(stqFree, stdOk)
    IN /\ ROB' = s.rob
       /\ ROB_head' = s.head
       /\ ROB_num' = s.num
       /\ ROB_eff_num' = s.eff
       /\ ROB_index' = s.index
       /\ complete_index' = s.ci
       /\ commit_index' = s.cmi
       /\ committedUops' = s.log
       /\ retired' = s.ret
       /\ UNCHANGED <<ROB_tail, pre_commit_pipe, shape, completed, jeclear,
                      squashed, allocNext, nextSeq>>

\* ENABLED <<IO_step>>_vars, computed without re-evaluating the recursive
\* loop under ENABLED: some answer of exec makes IO_step change the state
IOChanges ==
  \E stqFree \in 0..Width, stdOk \in BOOLEAN :
    LET s == IOResult(stqFree, stdOk)
    IN <<s.rob, s.head, s.num, s.eff, s.index, s.ci, s.cmi, s.log, s.ret>>
         # <<ROB, ROB_head, ROB_num, ROB_eff_num, ROB_index, complete_index,
              commit_index, committedUops, retired>>

(***************************************************************************)
(* The specification.                                                      *)
(***************************************************************************)
Init ==
  /\ ROB = [i \in 0..ROBSize - 1 |-> NULL]
  /\ ROB_head = 0 /\ ROB_tail = 0 /\ ROB_num = 0 /\ ROB_eff_num = 0
  /\ pre_commit_pipe = [i \in 0..PreDepth - 1 |-> NULL]
  /\ ROB_index = [u \in Uops |-> -1]
  /\ complete_index = [m \in Mops |-> 0]
  /\ commit_index = [m \in Mops |-> 0]
  /\ shape = [m \in Mops |-> NoShape]
  /\ completed = {} /\ jeclear = {} /\ squashed = {}
  /\ allocNext = NULL
  /\ nextSeq = 1
  /\ committedUops = <<>> /\ retired = <<>>

Next ==
  \/ FetchMop
  \/ AllocInsert
  \/ \E u \in Uops : Complete(u)
  \/ \E m \in Mops : Mispredict(m)
  \/ \E m \in Mops : JeclearRecover(m)
  \/ TrapFlush
  \/ pre_commit_step
  \/ IO_step

Spec == Init /\ [][Next]_vars

(***************************************************************************)
(* Properties.                                                             *)
(***************************************************************************)
Slots == 0..ROBSize - 1
RobSeq == [j \in 1..ROB_num |-> ROB[(ROB_head + j - 1) % ROBSize]]
PreSeq == LET full == {i \in 0..PreDepth - 1 : pre_commit_pipe[i] # NULL}
              n    == Cardinality(full)
              \* the j-th occupied slot counting down from the last stage
              at(j) == CHOOSE i \in full :
                         Cardinality({x \in full : x > i}) = j - 1
          IN [j \in 1..n |-> pre_commit_pipe[at(j)]]
HeldUops == UNION ({FusionGroup(ROB[i]) : i \in {x \in Slots : ROB[x] # NULL}}
                   \cup {FusionGroup(pre_commit_pipe[i]) :
                           i \in {x \in 0..PreDepth - 1 : pre_commit_pipe[x] # NULL}})
Logged(s) == {s[i] : i \in DOMAIN s}

TypeOK ==
  /\ ROB \in [Slots -> Uops \cup {NULL}]
  /\ pre_commit_pipe \in [0..PreDepth - 1 -> Uops \cup {NULL}]
  /\ ROB_head \in Slots /\ ROB_tail \in Int /\ ROB_num \in 0..ROBSize
  /\ ROB_eff_num \in Nat
  /\ ROB_index \in [Uops -> -1..ROBSize - 1]
  /\ complete_index \in [Mops -> -1..MaxFlow] /\ commit_index \in [Mops -> -1..MaxFlow]
  /\ completed \subseteq Uops /\ squashed \subseteq Uops /\ jeclear \subseteq Mops
  /\ allocNext \in Uops \cup {NULL} /\ nextSeq \in 1..MaxSeq + 1

\* The ROB stays a ring after every insert, commit and recover: the tail is
\* head + ROB_num modulo the size and exactly those entries are occupied.
\* recover(Mop) rewinds ROB_tail by the number of squashed entries.
RobRing ==
  /\ ROB_tail = (ROB_head + ROB_num) % ROBSize
  /\ \A i \in Slots : ROB[i] # NULL <=> (i - ROB_head) % ROBSize < ROB_num

\* ROB_eff_num counts every uop holding a ROB index (fusion bodies included,
\* via ROB_fuse_insert), while ROB_num counts one entry per fusion group.
FusionAccounting ==
  /\ ROB_eff_num = Cardinality({u \in Uops : ROB_index[u] >= 0 /\ u \notin squashed})
  /\ ROB_num = Cardinality({i \in Slots : ROB[i] # NULL})

\* The ROB from head to tail, followed by the pre-commit pipe from its last
\* stage back to its first, holds uops strictly in program order, so
\* pre_commit_step hands uops to ROB_insert oldest first.
RetirementOrder ==
  LET s == RobSeq \o PreSeq
  IN \A i, j \in DOMAIN s : i < j => Older(s[i], s[j])

\* oracle->commit_uop sees uops strictly oldest first, never a squashed one,
\* and only once every uop of the uop's Mop has completed; oracle->commit
\* sees each Mop once, after all of its uops.
AtomicInOrderCommit ==
  /\ \A i, j \in DOMAIN committedUops : i < j => Older(committedUops[i], committedUops[j])
  /\ Logged(committedUops) \cap squashed = {}
  /\ \A u \in Logged(committedUops) :
       \A k \in 0..FlowLength(u[1]) - 1 : <<u[1], k>> \in completed
  /\ \A i \in DOMAIN retired :
       \A k \in 0..FlowLength(retired[i]) - 1 : <<retired[i], k>> \in Logged(committedUops)
  /\ \A i, j \in DOMAIN retired : i < j => retired[i] < retired[j]

\* A jeclear recovery to m removes from the ROB and the pre-commit pipe
\* exactly the uops of Mops younger than m, and leaves every older one.
RecoverSquashesYounger ==
  [][\A m \in Mops : JeclearRecover(m) => HeldUops' = {u \in HeldUops : u[1] <= m}]_vars
====
