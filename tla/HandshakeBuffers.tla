-------------------------- MODULE HandshakeBuffers --------------------------
(***************************************************************************)
(* BufferManager (pintool/BufferManager.cpp): the per-thread handshake     *)
(* buffers between the feeder thread that produces instruction contexts    *)
(* (push) and the simulator thread that consumes them (empty, front, pop). *)
(* One simulated thread tid is modelled, with its producer and its         *)
(* consumer.  Handshakes live in containers: the pool hands a free one to  *)
(* push, which fills it and appends it to produceBuffer_; front moves the  *)
(* produced ones into consumeBuffer_ and returns the oldest; pop returns   *)
(* it to the pool.  queueSizes_ counts the handshakes in both buffers.     *)
(*                                                                         *)
(* Every method first calls checkFirstAccess without any lock: on the      *)
(* first access it creates the buffers, the pool and the lock, and every   *)
(* time it asserts that the two buffers hold queueSizes_ handshakes.  Then *)
(* it takes locks_[tid].  A step of the model is a stretch of one method   *)
(* that no other thread can observe in between: the lock's critical       *)
(* sections are split where push and pop update the buffers and the count  *)
(* in two statements, because the unlocked assertion can read between     *)
(* them.  lockVer is the lock object locks_[tid] points to (0: none yet);  *)
(* holder[v] who holds lock object v.                                      *)
(***************************************************************************)
EXTENDS Naturals, Sequences, FiniteSets
LOCAL INSTANCE SequencesExt

CONSTANTS MaxPush,          \* handshakes the producer pushes
          PoolSize,         \* containers checkFirstAccess puts in the pool
          ConsumeCap,       \* capacity of consumeBuffer_ (Buffer::full)
          AssertsOn,        \* built without NDEBUG: assert() aborts
          StartInitialized  \* checkFirstAccess(tid) already done

ASSUME /\ MaxPush \in Nat \ {0} /\ PoolSize \in Nat \ {0}
       /\ ConsumeCap \in Nat \ {0}
       /\ AssertsOn \in BOOLEAN /\ StartInitialized \in BOOLEAN

Threads == {"producer", "consumer"}
\* Each of the two threads can run the first-access initialisation once.
Containers == 1..(2 * PoolSize)
LockVers == 1..2

VARIABLES initialized, queueSizes, produceBuffer, consumeBuffer, pool,
          nextNew, lockVer, holder, content, isFirst, didFirstInsn,
          pc, pushed, h, delivered

vars == <<initialized, queueSizes, produceBuffer, consumeBuffer, pool,
          nextNew, lockVer, holder, content, isFirst, didFirstInsn,
          pc, pushed, h, delivered>>

\* The consistency checkFirstAccess asserts, read without the lock.
SizesAgree == Len(consumeBuffer) + Len(produceBuffer) = queueSizes

\* An assert() or ASSERTX that fails ends the process: both threads stop.
Abort ==
    /\ pc' = [t \in Threads |-> "aborted"]
    /\ UNCHANGED <<initialized, queueSizes, produceBuffer, consumeBuffer,
                   pool, nextNew, lockVer, holder, content, isFirst,
                   didFirstInsn, pushed, h, delivered>>

Goto(t, l) == pc' = [pc EXCEPT ![t] = l]

(* front and pop on an empty Buffer once NDEBUG has compiled their asserts *)
(* out: the Buffer class (BufferManager.h) is not in this repository, so   *)
(* nothing defines what the call returns or leaves behind.  The run stops *)
(* there, marked "undefined", and no property looks past it.              *)
Undefined ==
    /\ pc' = [t \in Threads |-> "undefined"]
    /\ UNCHANGED <<initialized, queueSizes, produceBuffer, consumeBuffer,
                   pool, nextNew, lockVer, holder, content, isFirst,
                   didFirstInsn, pushed, h, delivered>>

\* an assert() of front or pop that fails: aborts with asserts on, and is
\* undefined behaviour without them
AssertOrUndefined == IF AssertsOn THEN Abort ELSE Undefined

\* checkFirstAccess's closing assert, with the map entry present.
AssertSizes(t, next) ==
    IF AssertsOn /\ ~SizesAgree
      THEN Abort
      ELSE /\ Goto(t, next)
           /\ UNCHANGED <<initialized, queueSizes, produceBuffer, consumeBuffer,
                          pool, nextNew, lockVer, holder, content, isFirst,
                          didFirstInsn, pushed, h, delivered>>

(* checkFirstAccess, the test: when the map has no entry for tid the      *)
(* thread goes to sleep before creating it; otherwise it asserts the      *)
(* sizes and goes on.                                                     *)
CheckFirstAccess(t, initLabel, next) ==
    IF ~initialized
      THEN /\ Goto(t, initLabel)
           /\ UNCHANGED <<initialized, queueSizes, produceBuffer, consumeBuffer,
                          pool, nextNew, lockVer, holder, content, isFirst,
                          didFirstInsn, pushed, h, delivered>>
      ELSE AssertSizes(t, next)

(* checkFirstAccess, after sleep(5): creates the count, two new buffers,  *)
(* PoolSize new containers pushed onto the (possibly existing) pool, and  *)
(* a new lock, whatever another thread did meanwhile.                     *)
FirstAccessInit(t, next) ==
    /\ initialized' = TRUE
    /\ queueSizes' = 0
    /\ consumeBuffer' = <<>>
    /\ produceBuffer' = <<>>
    /\ pool' = pool \o [i \in 1..PoolSize |-> nextNew + i - 1]
    /\ nextNew' = nextNew + PoolSize
    /\ lockVer' = lockVer + 1
    /\ Goto(t, next)
    /\ UNCHANGED <<holder, content, isFirst, didFirstInsn, pushed, h,
                   delivered>>

\* GetLock(locks_[tid]) / ReleaseLock(locks_[tid]): both read the pointer
\* anew.
LockFree == holder[lockVer] = "none"
GetLock(t) == holder' = [holder EXCEPT ![lockVer] = t]
ReleaseLock == holder' = [holder EXCEPT ![lockVer] = "none"]

(* getPooledHandshake: spins (releasing simbuffer_lock, which it does not *)
(* hold) until the pool has a container, and takes the front one; the     *)
(* first handshake of the thread is marked isFirstInsn.  push then copies *)
(* the caller's handshake into it, keeping that mark, and appends it to   *)
(* produceBuffer_.  Also checkFirstAccess's assertion is evaluated first. *)
getPooledHandshakeNoPop(c) ==
    /\ pool' = pool
    /\ isFirst' = [isFirst EXCEPT ![c] = ~didFirstInsn]
    /\ didFirstInsn' = TRUE

getPooledHandshake(c) ==
    /\ pool' = Tail(pool)
    /\ isFirst' = [isFirst EXCEPT ![c] = ~didFirstInsn]
    /\ didFirstInsn' = TRUE

PushEnqueue ==
    /\ pc["producer"] = "push_get"
    /\ IF AssertsOn /\ ~SizesAgree
         THEN Abort
         ELSE /\ pool # <<>>
              /\ LET c == Head(pool)
                 IN /\ getPooledHandshake(c)
                    /\ content' = [content EXCEPT ![c] = pushed + 1]
                    /\ produceBuffer' = Append(produceBuffer, c)
              /\ Goto("producer", "push_count")
              /\ UNCHANGED <<initialized, queueSizes, consumeBuffer, nextNew,
                             lockVer, holder, pushed, h, delivered>>

\* push, the call: checkFirstAccess.
PushCall ==
    /\ pc["producer"] = "push"
    /\ CheckFirstAccess("producer", "push_init", "push_lock")

PushInit ==
    /\ pc["producer"] = "push_init"
    /\ FirstAccessInit("producer", "push_lock")

PushLock ==
    /\ pc["producer"] = "push_lock"
    /\ LockFree
    /\ GetLock("producer")
    /\ Goto("producer", "push_get")
    /\ UNCHANGED <<initialized, queueSizes, produceBuffer, consumeBuffer, pool,
                   nextNew, lockVer, content, isFirst, didFirstInsn, pushed,
                   h, delivered>>

\* push, the end: queueSizes_[tid]++ and unlock.
PushCountNoUnlock ==
    /\ pc["producer"] = "push_count"
    /\ queueSizes' = queueSizes + 1
    /\ pushed' = pushed + 1
    /\ Goto("producer", IF pushed + 1 = MaxPush THEN "done" ELSE "push")
    /\ UNCHANGED <<initialized, produceBuffer, consumeBuffer, pool, nextNew,
                   lockVer, holder, content, isFirst, didFirstInsn, h,
                   delivered>>

PushCount ==
    /\ pc["producer"] = "push_count"
    /\ queueSizes' = queueSizes + 1
    /\ ReleaseLock
    /\ pushed' = pushed + 1
    /\ Goto("producer", IF pushed + 1 = MaxPush THEN "done" ELSE "push")
    /\ UNCHANGED <<initialized, produceBuffer, consumeBuffer, pool, nextNew,
                   lockVer, content, isFirst, didFirstInsn, h, delivered>>

\* empty: checkFirstAccess, then queueSizes_[tid] == 0 read under the lock;
\* the consumer polls it until a handshake is there.
EmptyCall ==
    /\ pc["consumer"] = "empty"
    /\ CheckFirstAccess("consumer", "empty_init", "empty_lock")

EmptyInit ==
    /\ pc["consumer"] = "empty_init"
    /\ FirstAccessInit("consumer", "empty_lock")

EmptyLocked ==
    /\ pc["consumer"] = "empty_lock"
    /\ LockFree
    /\ Goto("consumer", IF queueSizes = 0 THEN "empty" ELSE "front")
    /\ UNCHANGED <<initialized, queueSizes, produceBuffer, consumeBuffer, pool,
                   nextNew, lockVer, holder, content, isFirst, didFirstInsn,
                   pushed, h, delivered>>

(* copyProducerToConsumer(tid, all): moves produced handshakes, oldest    *)
(* first, until consumeBuffer_ is full; with all = false it leaves the   *)
(* newest one for back().  The mutant takes them from the back.          *)
copyProducerToConsumerFromBack(all) ==
    LET keep == IF all THEN 0 ELSE 1
        n == IF Len(produceBuffer) - keep < ConsumeCap - Len(consumeBuffer)
               THEN Len(produceBuffer) - keep
               ELSE ConsumeCap - Len(consumeBuffer)
        k == IF n < 0 THEN 0 ELSE n
    IN /\ consumeBuffer' = consumeBuffer
                            \o Reverse(SubSeq(produceBuffer, Len(produceBuffer) - k + 1,
                                              Len(produceBuffer)))
       /\ produceBuffer' = SubSeq(produceBuffer, 1, Len(produceBuffer) - k)

copyProducerToConsumerUnbounded(all) ==
    LET keep == IF all THEN 0 ELSE 1
        k == IF Len(produceBuffer) > keep THEN Len(produceBuffer) - keep ELSE 0
    IN /\ consumeBuffer' = consumeBuffer \o SubSeq(produceBuffer, 1, k)
       /\ produceBuffer' = SubSeq(produceBuffer, k + 1, Len(produceBuffer))

copyProducerToConsumer(all) ==
    LET keep == IF all THEN 0 ELSE 1
        n == IF Len(produceBuffer) - keep < ConsumeCap - Len(consumeBuffer)
               THEN Len(produceBuffer) - keep
               ELSE ConsumeCap - Len(consumeBuffer)
        k == IF n < 0 THEN 0 ELSE n
    IN /\ consumeBuffer' = consumeBuffer \o SubSeq(produceBuffer, 1, k)
       /\ produceBuffer' = SubSeq(produceBuffer, k + 1, Len(produceBuffer))

\* The consumer takes what front returns.
Consume(c) ==
    /\ h' = c
    /\ delivered' = Append(delivered, [insn |-> content[c], first |-> isFirst[c]])

(* front: checkFirstAccess, lock, assert a handshake is queued; if        *)
(* consumeBuffer_ is empty, copy everything produced over; unlock and     *)
(* return the oldest consumable handshake.                                *)
(* The consumer calls front and pop only after empty has returned false, *)
(* so their checkFirstAccess always finds the entry and only asserts.     *)
FrontCall ==
    /\ pc["consumer"] = "front"
    /\ AssertSizes("consumer", "front_lock")

FrontLocked ==
    /\ pc["consumer"] = "front_lock"
    /\ LockFree
    /\ IF queueSizes = 0 \/ (consumeBuffer = <<>> /\ produceBuffer = <<>>)
         THEN AssertOrUndefined
       ELSE IF consumeBuffer # <<>>
         THEN /\ Consume(Head(consumeBuffer))
              /\ UNCHANGED <<produceBuffer, consumeBuffer>>
              /\ Goto("consumer", "pop")
              /\ UNCHANGED <<initialized, queueSizes, pool, nextNew, lockVer,
                             holder, content, isFirst, didFirstInsn, pushed>>
         ELSE /\ copyProducerToConsumer(TRUE)
              /\ Consume(Head(consumeBuffer'))
              /\ Goto("consumer", "pop")
              /\ UNCHANGED <<initialized, queueSizes, pool, nextNew, lockVer,
                             holder, content, isFirst, didFirstInsn, pushed>>

(* pop: checkFirstAccess, lock, assert, pop consumeBuffer_ and give the   *)
(* container the caller passes back to the pool (releasePooledHandshake); *)
(* then queueSizes_[tid]-- and unlock.                                    *)
PopCall ==
    /\ pc["consumer"] = "pop"
    /\ AssertSizes("consumer", "pop_lock")

releasePooledHandshakeDropped(c) == pool' = pool
releasePooledHandshake(c) == pool' = Append(pool, c)

PopLocked ==
    /\ pc["consumer"] = "pop_lock"
    /\ LockFree
    /\ IF queueSizes = 0 \/ consumeBuffer = <<>>
         THEN AssertOrUndefined
         ELSE /\ GetLock("consumer")
              /\ consumeBuffer' = Tail(consumeBuffer)
              /\ releasePooledHandshake(h)
              /\ Goto("consumer", "pop_count")
              /\ UNCHANGED <<initialized, queueSizes, produceBuffer, nextNew,
                             lockVer, content, isFirst, didFirstInsn, pushed,
                             h, delivered>>

PopCount ==
    /\ pc["consumer"] = "pop_count"
    /\ queueSizes' = queueSizes - 1
    /\ ReleaseLock
    /\ Goto("consumer", IF Len(delivered) = MaxPush THEN "done" ELSE "empty")
    /\ UNCHANGED <<initialized, produceBuffer, consumeBuffer, pool, nextNew,
                   lockVer, content, isFirst, didFirstInsn, pushed, h,
                   delivered>>

\* Both threads are through, or an assertion or undefined behaviour ended
\* the process.
Terminated ==
    /\ \A t \in Threads : pc[t] \in {"done", "aborted", "undefined"}
    /\ UNCHANGED vars

Init ==
    /\ initialized = StartInitialized
    /\ queueSizes = 0
    /\ produceBuffer = <<>>
    /\ consumeBuffer = <<>>
    /\ pool = IF StartInitialized THEN [i \in 1..PoolSize |-> i] ELSE <<>>
    /\ nextNew = IF StartInitialized THEN PoolSize + 1 ELSE 1
    /\ lockVer = IF StartInitialized THEN 1 ELSE 0
    /\ holder = [v \in LockVers |-> "none"]
    /\ content = [c \in Containers |-> 0]
    /\ isFirst = [c \in Containers |-> FALSE]
    /\ didFirstInsn = FALSE
    /\ pc = [t \in Threads |-> IF t = "producer" THEN "push" ELSE "empty"]
    /\ pushed = 0
    /\ h = 0
    /\ delivered = <<>>

Producer ==
    \/ PushCall \/ PushInit \/ PushLock \/ PushEnqueue \/ PushCount

Consumer ==
    \/ EmptyCall \/ EmptyInit \/ EmptyLocked
    \/ FrontCall \/ FrontLocked
    \/ PopCall \/ PopLocked \/ PopCount

Next == Producer \/ Consumer \/ Terminated

Spec == Init /\ [][Next]_vars

\* Both are threads of their own the OS keeps scheduling; a thread waiting
\* for the lock gets it once it stays free (PIN_LOCK is a spin lock).
FairSpec == Spec /\ WF_vars(Producer) /\ WF_vars(Consumer)

-----------------------------------------------------------------------------
TypeOK ==
    /\ initialized \in BOOLEAN
    /\ queueSizes \in 0..MaxPush
    /\ produceBuffer \in Seq(Containers)
    /\ consumeBuffer \in Seq(Containers) /\ Len(consumeBuffer) <= ConsumeCap
    /\ pool \in Seq(Containers)
    /\ lockVer \in 0..2
    /\ holder \in [LockVers -> Threads \cup {"none"}]
    /\ content \in [Containers -> 0..MaxPush]
    /\ isFirst \in [Containers -> BOOLEAN]
    /\ pushed \in 0..MaxPush
    /\ h \in Containers \cup {0}

\* checkFirstAccess has created the buffers at most once so far (lockVer
\* counts the creations: each one allocates a new lock).
CreatedOnce == lockVer <= 1

(* While the buffers have been created once, the consumer gets every      *)
(* pushed handshake once, in the order they were pushed, and only the     *)
(* first carries isFirstInsn: front's copy keeps the produce order, pop   *)
(* frees only what was consumed, and a container back in the pool is not  *)
(* handed out while still queued.                                         *)
HandoffInOrder ==
    CreatedOnce =>
      delivered = [i \in 1..Len(delivered) |-> [insn |-> i, first |-> i = 1]]

\* The containers allocated so far, wherever they are.
Places == pool \o produceBuffer \o consumeBuffer

(* No container is ever in two places at once (in the pool and queued, or *)
(* queued twice): getPooledHandshake never hands out a container whose     *)
(* handshake is still waiting to be consumed, whatever the first-access    *)
(* initialisations did to the buffers.                                     *)
NoContainerShared == IsInjective(Places)

(* While the buffers have been created once, no container is lost        *)
(* either: the pool and the two buffers together hold every container     *)
(* checkFirstAccess allocated; and whenever nobody holds the lock,        *)
(* queueSizes_ is the number of handshakes in the buffers.                *)
ContainerConservation ==
    CreatedOnce =>
      /\ Range(Places) = 1..(nextNew - 1)
      /\ lockVer > 0 /\ LockFree => SizesAgree

(* Every handshake the producer pushes eventually reaches the consumer,  *)
(* unless both threads' first accesses created the buffers.              *)
AllDelivered == <>(Len(delivered) = MaxPush \/ ~CreatedOnce)

=============================================================================
