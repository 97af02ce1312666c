--------------------------- MODULE SpscPoolProofs ---------------------------
(***************************************************************************)
(* Proofs about the lock-free frame pool, for every number of frames.      *)
(*                                                                         *)
(* What the pool promises is proved under NoWrap: fewer commits than the   *)
(* int indices can count.  It is necessary: past IntMax the index tests    *)
(* change their sense, and the last theorems, which do without it, show    *)
(* that a pool that has frames then looks empty for ever.                  *)
(***************************************************************************)
EXTENDS SpscPool, FiniteSetTheorems, SequenceTheorems, TLAPS

NoWrap == MaxCommits <= IntMax

\* The inductive invariant adds to the properties where the threads are: what
\* the producer's and the consumer's locals still say about the shared indices.
IndexInv ==
  /\ write_idx = commits
  /\ read_idx \in 0 .. write_idx

ProducerInv ==
  /\ producer.pc # "idle" => producer.w = write_idx /\ commits < MaxCommits
  /\ producer.pc = "commit" => contents[SlotOf(producer.w)] = commits + 1

ConsumerInv ==
  /\ consumer.pc # "idle" => consumer.w <= write_idx
  /\ consumer.pc \in {"check", "advance"} =>
       consumer.r = read_idx /\ read_idx < write_idx

IInv == TypeOK /\ IndexInv /\ ProducerInv /\ ConsumerInv /\ OneOwner /\ FramesInOrder

-----------------------------------------------------------------------------
\* A non-negative index names a slot of the pool.
LEMMA SlotInRange == \A i \in Nat : SlotOf(i) \in Slots
  BY PoolAssumption DEF SlotOf, Slots

\* No index leaves the range of an int.
LEMMA WrapId == \A x \in 0 .. IntMax : Wrap(x) = x
  BY PoolAssumption DEF Wrap

\* The pool is created empty: bb_pool_init establishes the invariant.
LEMMA InitIInv == ASSUME NoWrap, Init PROVE IInv
<1>1. TypeOK
  BY PoolAssumption DEF Init, TypeOK, Idle, Thread, ProducerPCs, ConsumerPCs
<1>2. IndexInv /\ ProducerInv /\ ConsumerInv
  BY DEF Init, IndexInv, ProducerInv, ConsumerInv, Idle, Thread
<1>3. OneOwner /\ FramesInOrder
  BY DEF Init, OneOwner, FramesInOrder, Queued, Producing, Idle, Thread
<1>. QED BY <1>1, <1>2, <1>3 DEF IInv

-----------------------------------------------------------------------------
\* Each step of either thread preserves the invariant.
LEMMA NextIInv == ASSUME NoWrap, IInv, [Next]_vars PROVE IInv'
<1>. USE PoolAssumption DEF NoWrap, Thread, Idle, ProducerPCs, ConsumerPCs
<1>0. /\ commits \in Nat /\ write_idx \in Nat /\ read_idx \in Nat
      /\ write_idx \in 0 .. IntMax
      /\ IInv
  BY DEF IInv, TypeOK, IndexInv
<1>1. CASE AcquireLoadWrite
  BY <1>0, <1>1 DEF IInv, TypeOK, IndexInv, ProducerInv, ConsumerInv, OneOwner,
     FramesInOrder, AcquireLoadWrite, Queued, Producing
<1>2. CASE AcquireLoadRead
  BY <1>0, <1>2 DEF IInv, TypeOK, IndexInv, ProducerInv, ConsumerInv, OneOwner,
     FramesInOrder, AcquireLoadRead, Queued, Producing
<1>3. CASE AcquireClaim
  <2>. DEFINE s == SlotOf(producer.w)
  <2>1. producer.pc = "claim" /\ s \in Slots /\ producer.w = write_idx
    BY <1>0, <1>3 DEF AcquireClaim, IInv, ProducerInv
  <2>2. CASE /\ refcount[s] = 0
             /\ refcount' = [refcount EXCEPT ![s] = 1]
             /\ contents' = [contents EXCEPT ![s] = 0]
             /\ producer' = [producer EXCEPT !.pc = "fill"]
    <3>0. UNCHANGED <<write_idx, read_idx, consumer, held, commits>>
      BY <1>3 DEF AcquireClaim
    <3>1. s \notin held /\ \A i \in Queued : SlotOf(i) # s
      BY <1>0, <2>1, <2>2 DEF IInv, OneOwner
    <3>2. TypeOK'
      BY <1>0, <2>1, <2>2, <3>0 DEF IInv, TypeOK
    <3>3. (IndexInv /\ ProducerInv /\ ConsumerInv)'
      BY <1>0, <2>1, <2>2, <3>0 DEF IInv, TypeOK, IndexInv, ProducerInv, ConsumerInv
    <3>4. OneOwner'
      BY <1>0, <2>1, <2>2, <3>0, <3>1 DEF IInv, TypeOK, OneOwner, Queued, Producing
    <3>5. FramesInOrder'
      BY <1>0, <2>1, <2>2, <3>0, <3>1, SlotInRange
      DEF IInv, TypeOK, IndexInv, FramesInOrder, Queued
    <3>. QED BY <3>2, <3>3, <3>4, <3>5 DEF IInv
  <2>3. CASE refcount[s] # 0 /\ producer' = Idle /\ UNCHANGED <<refcount, contents>>
    BY <1>0, <1>3, <2>3 DEF IInv, TypeOK, IndexInv, ProducerInv, ConsumerInv,
       OneOwner, FramesInOrder, AcquireClaim, Queued, Producing
  <2>. QED BY <1>3, <2>2, <2>3 DEF AcquireClaim
<1>4. CASE Fill
  <2>. DEFINE s == SlotOf(producer.w)
  <2>1. /\ producer.pc = "fill" /\ s \in Slots /\ producer.w = write_idx
        /\ commits < MaxCommits
    BY <1>0, <1>4, SlotInRange DEF Fill, IInv, ProducerInv
  <2>2. s \notin held /\ \A i \in Queued : SlotOf(i) # s
    BY <1>0, <2>1 DEF IInv, OneOwner, Producing
  <2>3. TypeOK'
    BY <1>0, <1>4, <2>1 DEF IInv, TypeOK, Fill
  <2>4. (IndexInv /\ ProducerInv /\ ConsumerInv)'
    BY <1>0, <1>4, <2>1 DEF IInv, TypeOK, IndexInv, ProducerInv, ConsumerInv, Fill
  <2>5. OneOwner'
    BY <1>0, <1>4, <2>1 DEF IInv, TypeOK, OneOwner, Queued, Producing, Fill
  <2>6. FramesInOrder'
    BY <1>0, <1>4, <2>1, <2>2, SlotInRange
    DEF IInv, TypeOK, IndexInv, FramesInOrder, Queued, Fill
  <2>. QED BY <2>3, <2>4, <2>5, <2>6 DEF IInv
<1>5. CASE Abandon
  <2>. DEFINE s == SlotOf(producer.w)
  <2>1. producer.pc = "fill" /\ s \in Slots /\ producer.w = write_idx
    BY <1>0, <1>5, SlotInRange DEF Abandon, IInv, ProducerInv
  <2>2. s \notin held /\ \A i \in Queued : SlotOf(i) # s
    BY <1>0, <2>1 DEF IInv, OneOwner, Producing
  <2>3. TypeOK'
    BY <1>0, <1>5, <2>1 DEF IInv, TypeOK, Abandon
  <2>4. (IndexInv /\ ProducerInv /\ ConsumerInv /\ FramesInOrder)'
    BY <1>0, <1>5, <2>1 DEF IInv, TypeOK, IndexInv, ProducerInv, ConsumerInv,
       FramesInOrder, Queued, Abandon
  <2>5. OneOwner'
    BY <1>0, <1>5, <2>1, <2>2 DEF IInv, TypeOK, OneOwner, Queued, Producing, Abandon
  <2>. QED BY <2>3, <2>4, <2>5 DEF IInv
<1>6. CASE Commit
  <2>. DEFINE s == SlotOf(producer.w)
  <2>1. /\ producer.pc = "commit" /\ s \in Slots /\ producer.w = write_idx
        /\ commits < MaxCommits /\ contents[s] = commits + 1
    BY <1>0, <1>6, SlotInRange DEF Commit, IInv, ProducerInv
  <2>2. s \notin held /\ \A i \in Queued : SlotOf(i) # s
    BY <1>0, <2>1 DEF IInv, OneOwner, Producing
  <2>3. /\ write_idx' = write_idx + 1 /\ commits' = commits + 1
        /\ producer' = Idle
        /\ UNCHANGED <<refcount, read_idx, contents, consumer, held>>
    BY <1>0, <1>6, <2>1, WrapId DEF Commit, IInv, IndexInv
  <2>4. Queued' = Queued \cup {write_idx}
    BY <1>0, <2>3 DEF Queued, IInv, IndexInv
  <2>5. TypeOK'
    BY <1>0, <2>1, <2>3 DEF IInv, TypeOK, IndexInv
  <2>6. (IndexInv /\ ProducerInv /\ ConsumerInv)'
    BY <1>0, <2>1, <2>3 DEF IInv, TypeOK, IndexInv, ProducerInv, ConsumerInv
  <2>7. OneOwner'
    BY <1>0, <2>1, <2>2, <2>3, <2>4 DEF IInv, OneOwner, Producing
  <2>8. FramesInOrder'
    BY <1>0, <2>1, <2>3, <2>4 DEF IInv, TypeOK, IndexInv, FramesInOrder, Queued
  <2>. QED BY <2>5, <2>6, <2>7, <2>8 DEF IInv
<1>7. CASE DequeueLoadWrite
  BY <1>0, <1>7 DEF IInv, TypeOK, IndexInv, ProducerInv, ConsumerInv, OneOwner,
     FramesInOrder, DequeueLoadWrite, Queued, Producing
<1>8. CASE DequeueLoadRead
  BY <1>0, <1>8 DEF IInv, TypeOK, IndexInv, ProducerInv, ConsumerInv, OneOwner,
     FramesInOrder, DequeueLoadRead, Queued, Producing
<1>9. CASE DequeueCheck
  BY <1>0, <1>9 DEF IInv, TypeOK, IndexInv, ProducerInv, ConsumerInv, OneOwner,
     FramesInOrder, DequeueCheck, Queued, Producing
<1>10. CASE DequeueAdvance
  <2>1. /\ consumer.pc = "advance" /\ consumer.r = read_idx
        /\ read_idx < write_idx /\ SlotOf(read_idx) \in Slots
    BY <1>0, <1>10, SlotInRange DEF DequeueAdvance, IInv, ConsumerInv
  <2>2. /\ read_idx' = read_idx + 1
        /\ held' = held \cup {SlotOf(read_idx)}
        /\ consumer' = Idle
        /\ UNCHANGED <<refcount, write_idx, contents, producer, commits>>
    BY <1>0, <1>10, <2>1, WrapId DEF DequeueAdvance, IInv, IndexInv
  <2>3. Queued = Queued' \cup {read_idx} /\ read_idx \notin Queued'
    BY <1>0, <2>1, <2>2 DEF Queued
  <2>4. TypeOK'
    BY <1>0, <2>1, <2>2 DEF IInv, TypeOK
  <2>5. (IndexInv /\ ProducerInv /\ ConsumerInv)'
    BY <1>0, <2>1, <2>2 DEF IInv, TypeOK, IndexInv, ProducerInv, ConsumerInv
  <2>6. OneOwner'
    BY <1>0, <2>2, <2>3 DEF IInv, OneOwner, Producing
  <2>7. FramesInOrder'
    BY <1>0, <2>1, <2>2, <2>3 DEF IInv, TypeOK, IndexInv, FramesInOrder, Queued
  <2>. QED BY <2>4, <2>5, <2>6, <2>7 DEF IInv
<1>11. CASE Release
  <2>1. PICK s \in held : /\ held' = held \ {s}
                          /\ refcount' = [refcount EXCEPT ![s] = 0]
    BY <1>11 DEF Release
  <2>2. /\ UNCHANGED <<write_idx, read_idx, contents, producer, consumer, commits>>
        /\ consumer.pc = "idle" /\ s \in Slots
    BY <1>0, <1>11 DEF Release, IInv, TypeOK
  <2>3. TypeOK'
    BY <1>0, <2>1, <2>2 DEF IInv, TypeOK
  <2>4. (IndexInv /\ ProducerInv /\ ConsumerInv /\ FramesInOrder)'
    BY <1>0, <2>1, <2>2 DEF IInv, IndexInv, ProducerInv, ConsumerInv, FramesInOrder,
       Queued
  <2>5. OneOwner'
    BY <1>0, <2>1, <2>2 DEF IInv, TypeOK, OneOwner, Queued, Producing
  <2>. QED BY <2>3, <2>4, <2>5 DEF IInv
<1>12. CASE UNCHANGED vars
  BY <1>0, <1>12 DEF vars, IInv, TypeOK, IndexInv, ProducerInv, ConsumerInv, OneOwner,
     FramesInOrder, Queued, Producing
<1>. QED
  BY <1>1, <1>2, <1>3, <1>4, <1>5, <1>6, <1>7, <1>8, <1>9, <1>10, <1>11, <1>12
  DEF Next, Acquire, Dequeue

\* A slot the dequeue is about to test is queued, hence its refcount is 1.
LEMMA IInvReady == ASSUME IInv PROVE CommittedIsReady
  <1>1. ASSUME consumer.pc = "check" PROVE refcount[SlotOf(consumer.r)] = 1
    <2>1. consumer.r = read_idx /\ read_idx \in Queued /\ SlotOf(read_idx) \in Slots
      BY <1>1, SlotInRange DEF IInv, TypeOK, IndexInv, ConsumerInv, Queued
    <2>. QED BY <2>1 DEF IInv, OneOwner
  <1>. QED BY <1>1 DEF CommittedIsReady

-----------------------------------------------------------------------------
\* The invariant holds in every reachable state of the pool.
THEOREM PoolInvariant == ASSUME NoWrap PROVE Spec => []IInv
  <1>1. Init => IInv
    BY InitIInv
  <1>2. IInv /\ [Next]_vars => IInv'
    BY NextIInv
  <1>. QED BY <1>1, <1>2, PTL DEF Spec

\* The state of the pool and of its two threads is well typed.
THEOREM TypeCorrect == ASSUME NoWrap PROVE Spec => []TypeOK
  <1>1. IInv => TypeOK
    BY DEF IInv
  <1>. QED BY <1>1, PoolInvariant, PTL

\* Producer, queue and consumer never share a slot, for any number of frames:
\* bb_pool_sp_acquire never hands out a buffer that is queued or still in use.
THEOREM SlotOwnership == ASSUME NoWrap PROVE Spec => []OneOwner
  <1>1. IInv => OneOwner
    BY DEF IInv
  <1>. QED BY <1>1, PoolInvariant, PTL

\* bb_pool_sp_dequeue delivers complete frames in the order of their commits, and
\* its refcount test never hides a committed frame.
THEOREM IntactDelivery == ASSUME NoWrap PROVE Spec => []FramesIntact
  <1>1. IInv => FramesIntact
    BY IInvReady DEF IInv, FramesIntact
  <1>. QED BY <1>1, PoolInvariant, PTL

-----------------------------------------------------------------------------
(* Refinement: the pool is the bounded FIFO FrameQueue. *)

QueueSeq == [k \in 1 .. write_idx - read_idx |-> contents[SlotOf(read_idx + k - 1)]]
Kept == {contents[s] : s \in held}

\* The queued frames and the frames the consumer keeps leave the producer's
\* slot free, so they are fewer than N when it commits.
LEMMA RoomForOneMore ==
  ASSUME IInv, producer.pc = "commit"
  PROVE  write_idx - read_idx + Cardinality(Kept) < N
<1>. DEFINE QSlots == {SlotOf(i) : i \in Queued}
            P == SlotOf(producer.w)
            Others == Slots \ {P}
<1>1. /\ write_idx \in Nat /\ read_idx \in 0 .. write_idx
      /\ held \subseteq Slots /\ P \in Slots
      /\ QSlots \subseteq Slots
  BY SlotInRange DEF IInv, TypeOK, IndexInv, ProducerInv, Queued
<1>2. IsFiniteSet(Slots) /\ Cardinality(Slots) = N
  BY PoolAssumption, FS_Interval DEF Slots
<1>3. IsFiniteSet(Others) /\ Cardinality(Others) = N - 1
  BY <1>1, <1>2, FS_RemoveElement
<1>4. QSlots \cup held \subseteq Others /\ QSlots \cap held = {}
  BY <1>1 DEF IInv, OneOwner, Producing
<1>5. IsFiniteSet(held) /\ IsFiniteSet(QSlots)
  BY <1>3, <1>4, FS_Subset
<1>6. Cardinality(QSlots \cup held) = Cardinality(QSlots) + Cardinality(held)
  <2>1. Cardinality(QSlots \cup held) =
          Cardinality(QSlots) + Cardinality(held) - Cardinality(QSlots \cap held)
    BY <1>5, FS_Union
  <2>2. Cardinality(QSlots \cap held) = 0
    BY <1>4, FS_EmptySet
  <2>3. Cardinality(QSlots) \in Nat /\ Cardinality(held) \in Nat
    BY <1>5, FS_CardinalityType
  <2>. QED BY <2>1, <2>2, <2>3
<1>7. Cardinality(QSlots \cup held) <= N - 1
  BY <1>3, <1>4, FS_Subset
<1>8. IsFiniteSet(Queued) /\ Cardinality(Queued) = write_idx - read_idx
  <2>1. /\ read_idx \in Int /\ write_idx - 1 \in Int
        /\ read_idx <= write_idx /\ read_idx \in Nat
    BY <1>1
  <2>2. /\ IsFiniteSet(read_idx .. write_idx - 1)
        /\ Cardinality(read_idx .. write_idx - 1) =
             IF read_idx > write_idx - 1 THEN 0 ELSE (write_idx - 1) - read_idx + 1
    BY <2>1, FS_Interval
  <2>. QED BY <1>1, <2>1, <2>2 DEF Queued
<1>9. Cardinality(QSlots) = write_idx - read_idx
  <2>. DEFINE f == [i \in Queued |-> SlotOf(i)]
  <2>1. f \in Bijection(Queued, QSlots)
    <3>1. f \in [Queued -> QSlots]
      OBVIOUS
    <3>2. \A i, j \in Queued : f[i] = f[j] => i = j
      BY DEF IInv, OneOwner
    <3>3. \A t \in QSlots : \E i \in Queued : f[i] = t
      OBVIOUS
    <3>. QED BY <3>1, <3>2, <3>3, Zenon DEF Bijection, Injection, Surjection, IsInjective
  <2>. QED BY <1>8, <2>1, FS_Bijection DEF ExistsBijection
<1>10. IsFiniteSet(Kept) /\ Cardinality(Kept) <= Cardinality(held)
  <2>. DEFINE g == [s \in held |-> contents[s]]
  <2>1. g \in Surjection(held, Kept)
    <3>1. g \in [held -> Kept]
      BY DEF Kept
    <3>2. \A t \in Kept : \E s \in held : g[s] = t
      BY DEF Kept
    <3>. QED BY <3>1, <3>2, Zenon DEF Surjection
  <2>. QED BY <1>5, <2>1, FS_Surjection
<1>11. /\ Cardinality(Kept) \in Nat /\ Cardinality(held) \in Nat
       /\ Cardinality(QSlots) \in Nat
  BY <1>5, <1>10, FS_CardinalityType
<1>. QED
  BY <1>1, <1>6, <1>7, <1>9, <1>10, <1>11, PoolAssumption

\* Sequences written as functions on an interval: their length, what Append adds
\* and what Tail removes.
LEMMA SeqOfFunction ==
  ASSUME NEW n \in Nat, NEW f \in [1 .. n -> Int]
  PROVE  f \in Seq(Int) /\ Len(f) = n
<1>1. f \in Seq(Int)
  BY SeqDef
<1>2. Len(f) \in Nat /\ DOMAIN f = 1 .. Len(f) /\ DOMAIN f = 1 .. n
  BY <1>1, LenProperties
<1>. QED BY <1>1, <1>2

LEMMA AppendOfFunction ==
  ASSUME NEW n \in Nat, NEW f \in [1 .. n -> Int], NEW g \in [1 .. n + 1 -> Int],
         \A k \in 1 .. n : g[k] = f[k]
  PROVE  g = Append(f, g[n + 1])
<1>1. f \in Seq(Int) /\ Len(f) = n /\ g \in Seq(Int) /\ Len(g) = n + 1 /\ g[n + 1] \in Int
  BY SeqOfFunction
<1>2. /\ Append(f, g[n + 1]) \in Seq(Int)
      /\ Len(Append(f, g[n + 1])) = n + 1
      /\ \A k \in 1 .. n : Append(f, g[n + 1])[k] = f[k]
      /\ Append(f, g[n + 1])[n + 1] = g[n + 1]
  BY <1>1, AppendProperties
<1>3. \A k \in 1 .. n + 1 : g[k] = Append(f, g[n + 1])[k]
  BY <1>2
<1>. QED BY <1>1, <1>2, <1>3, SeqEqual

LEMMA TailOfFunction ==
  ASSUME NEW n \in Nat, NEW f \in [1 .. n + 1 -> Int], NEW g \in [1 .. n -> Int],
         \A k \in 1 .. n : g[k] = f[k + 1]
  PROVE  f # <<>> /\ Head(f) = f[1] /\ g = Tail(f)
<1>1. f \in Seq(Int) /\ Len(f) = n + 1 /\ g \in Seq(Int) /\ Len(g) = n
  BY SeqOfFunction
<1>2. f # <<>>
  BY <1>1, EmptySeq
<1>3. /\ Tail(f) \in Seq(Int) /\ Len(Tail(f)) = n
      /\ \A k \in 1 .. n : Tail(f)[k] = f[k + 1]
  BY <1>1, <1>2, HeadTailProperties
<1>4. g = Tail(f)
  BY <1>1, <1>3, SeqEqual
<1>. QED BY <1>1, <1>2, <1>4

\* The queued frames as a sequence of numbers.
LEMMA QueueType ==
  ASSUME IInv
  PROVE  /\ write_idx - read_idx \in Nat
         /\ QueueSeq \in [1 .. write_idx - read_idx -> Int]
<1>1. write_idx \in Nat /\ read_idx \in Nat /\ write_idx - read_idx \in Nat
  BY DEF IInv, TypeOK, IndexInv
<1>2. \A k \in 1 .. write_idx - read_idx : contents[SlotOf(read_idx + k - 1)] \in Int
  <2>1. \A k \in 1 .. write_idx - read_idx : read_idx + k - 1 \in Queued
    BY <1>1 DEF Queued
  <2>2. \A i \in Queued : SlotOf(i) \in Slots
    BY <1>1, SlotInRange DEF Queued
  <2>3. \A t \in Slots : contents[t] \in Int
    BY PoolAssumption DEF IInv, TypeOK
  <2>. QED BY <2>1, <2>2, <2>3
<1>. QED BY <1>1, <1>2 DEF QueueSeq

\* The abstract specification counts with the same Cardinality.
LEMMA SameCardinality == \A S : Abstract!Cardinality(S) = Cardinality(S)
  BY DEF Abstract!Cardinality, Cardinality

\* What the refinement mapping does to the queue: Commit appends the new frame,
\* DequeueAdvance takes the head, every other step leaves it alone.
LEMMA StepSimulation ==
  ASSUME NoWrap, IInv, IInv', [Next]_vars
  PROVE  [Abstract!Next]_(Abstract!vars)
<1>. USE PoolAssumption DEF NoWrap, Thread, Idle
<1>0. /\ commits \in Nat /\ write_idx \in Nat /\ read_idx \in 0 .. write_idx
      /\ write_idx \in 0 .. IntMax /\ write_idx = commits
      /\ held \subseteq Slots
      /\ \A i \in Queued : SlotOf(i) \in Slots
  BY SlotInRange DEF IInv, TypeOK, IndexInv, Queued
<1>1. ASSUME UNCHANGED <<commits, QueueSeq, Kept>>
      PROVE  [Abstract!Next]_(Abstract!vars)
  BY <1>1 DEF Abstract!vars, QueueSeq, Kept
<1>2. ASSUME UNCHANGED <<commits, write_idx, read_idx, held>>,
             \A s \in held : contents'[s] = contents[s],
             \A i \in Queued : contents'[SlotOf(i)] = contents[SlotOf(i)]
      PROVE  [Abstract!Next]_(Abstract!vars)
  <2>1. Kept' = Kept
    BY <1>2 DEF Kept
  <2>2. QueueSeq' = QueueSeq
    <3>1. \A k \in 1 .. write_idx - read_idx : read_idx + k - 1 \in Queued
      BY <1>0 DEF Queued
    <3>. QED BY <1>2, <3>1 DEF QueueSeq
  <2>. QED BY <1>1, <1>2, <2>1, <2>2
<1>3. CASE Commit
  <2>. DEFINE s == SlotOf(producer.w)
              n == write_idx - read_idx
  <2>1. /\ producer.pc = "commit" /\ producer.w = write_idx
        /\ commits < MaxCommits /\ contents[s] = commits + 1
    BY <1>3 DEF Commit, IInv, ProducerInv
  <2>2. /\ write_idx' = write_idx + 1 /\ commits' = commits + 1
        /\ UNCHANGED <<read_idx, contents, held>>
    BY <1>0, <1>3, <2>1, WrapId DEF Commit
  <2>3. n + Cardinality(Kept) < N
    BY <2>1, RoomForOneMore
  <2>4. n \in Nat /\ QueueSeq \in [1 .. n -> Int] /\ Len(QueueSeq) = n
    BY QueueType, SeqOfFunction
  <2>5. QueueSeq' = Append(QueueSeq, commits + 1)
    <3>1. QueueSeq' = [k \in 1 .. n + 1 |-> contents[SlotOf(read_idx + k - 1)]]
      BY <1>0, <2>2 DEF QueueSeq
    <3>2. QueueSeq'[n + 1] = commits + 1
      BY <1>0, <2>1, <2>4, <3>1
    <3>3. \A k \in 1 .. n : QueueSeq[k] \in Int /\ QueueSeq'[k] = QueueSeq[k]
      <4>1. \A k \in 1 .. n : QueueSeq[k] \in Int
        BY <2>4
      <4>2. \A k \in 1 .. n : QueueSeq'[k] = QueueSeq[k]
        BY <1>0, <2>2 DEF QueueSeq
      <4>. QED BY <4>1, <4>2
    <3>4. QueueSeq' \in [1 .. n + 1 -> Int]
      <4>1. \A k \in 1 .. n + 1 : QueueSeq'[k] \in Int
        BY <1>0, <2>4, <3>2, <3>3
      <4>. QED BY <3>1, <4>1
    <3>. QED BY <2>4, <3>2, <3>3, <3>4, AppendOfFunction
  <2>6. Kept' = Kept
    BY <2>2 DEF Kept
  <2>7. Abstract!Publish
    BY <2>1, <2>2, <2>3, <2>4, <2>5, <2>6, SameCardinality
    DEF Abstract!Publish, QueueSeq, Kept
  <2>. QED BY <2>7 DEF Abstract!Next
<1>4. CASE DequeueAdvance
  <2>. DEFINE n == write_idx - read_idx - 1
  <2>1. /\ consumer.r = read_idx /\ read_idx < write_idx
        /\ SlotOf(read_idx) \in Slots
    BY <1>0, <1>4, SlotInRange DEF DequeueAdvance, IInv, ConsumerInv
  <2>2. /\ read_idx' = read_idx + 1 /\ held' = held \cup {SlotOf(read_idx)}
        /\ UNCHANGED <<write_idx, contents, commits>>
    BY <1>0, <1>4, <2>1, WrapId DEF DequeueAdvance
  <2>3. /\ n \in Nat /\ QueueSeq \in [1 .. n + 1 -> Int]
        /\ QueueSeq[1] = contents[SlotOf(read_idx)]
    <3>1. n \in Nat /\ n + 1 = write_idx - read_idx /\ 1 \in 1 .. n + 1
      BY <1>0, <2>1
    <3>2. QueueSeq[1] = contents[SlotOf(read_idx + 1 - 1)]
      BY <1>0, <2>1 DEF QueueSeq
    <3>. QED BY <1>0, <3>1, <3>2, QueueType
  <2>4. \A k \in 1 .. n : QueueSeq[k + 1] = contents[SlotOf(read_idx + k)]
    BY <1>0, <2>1 DEF QueueSeq
  <2>5. QueueSeq # <<>> /\ Head(QueueSeq) = QueueSeq[1] /\ QueueSeq' = Tail(QueueSeq)
    <3>1. QueueSeq' = [k \in 1 .. n |-> contents[SlotOf(read_idx + k)]]
      BY <1>0, <2>2 DEF QueueSeq
    <3>2. \A k \in 1 .. n : QueueSeq'[k] = QueueSeq[k + 1] /\ QueueSeq[k + 1] \in Int
      BY <2>3, <2>4, <3>1
    <3>3. QueueSeq' \in [1 .. n -> Int]
      BY <3>1, <3>2
    <3>. QED BY <2>3, <3>2, <3>3, TailOfFunction
  <2>6. Kept' = Kept \cup {contents[SlotOf(read_idx)]}
    BY <2>2 DEF Kept
  <2>7. Abstract!Take
    BY <2>2, <2>3, <2>5, <2>6 DEF Abstract!Take, QueueSeq, Kept
  <2>. QED BY <2>7 DEF Abstract!Next
<1>5. CASE Release
  <2>1. PICK s \in held : held' = held \ {s}
    BY <1>5 DEF Release
  <2>2. UNCHANGED <<write_idx, read_idx, contents, commits>>
    BY <1>5 DEF Release
  <2>3. QueueSeq' = QueueSeq
    BY <2>2 DEF QueueSeq
  <2>4. Kept' = Kept \ {contents[s]} \/ Kept' = Kept
    BY <2>1, <2>2 DEF Kept
  <2>5. Kept' = Kept => [Abstract!Next]_(Abstract!vars)
    BY <1>1, <2>2, <2>3
  <2>6. Kept' = Kept \ {contents[s]} => Abstract!GiveBack
    BY <2>1, <2>2, <2>3 DEF Abstract!GiveBack, QueueSeq, Kept
  <2>. QED BY <2>4, <2>5, <2>6 DEF Abstract!Next
<1>6. CASE AcquireClaim
  <2>1. CASE UNCHANGED contents
    BY <1>2, <1>6, <2>1 DEF AcquireClaim
  <2>2. CASE /\ refcount[SlotOf(producer.w)] = 0
             /\ contents' = [contents EXCEPT ![SlotOf(producer.w)] = 0]
    <3>1. /\ SlotOf(producer.w) \in Slots /\ SlotOf(producer.w) \notin held
          /\ \A i \in Queued : SlotOf(i) # SlotOf(producer.w)
          /\ contents \in [Slots -> 0 .. MaxCommits]
          /\ UNCHANGED <<commits, write_idx, read_idx, held>>
      BY <1>6, <2>2 DEF AcquireClaim, IInv, OneOwner, TypeOK
    <3>. QED BY <1>0, <1>2, <2>2, <3>1
  <2>. QED BY <1>6, <2>1, <2>2 DEF AcquireClaim
<1>7. CASE Fill
  <2>1. /\ SlotOf(producer.w) \notin held
        /\ \A i \in Queued : SlotOf(i) # SlotOf(producer.w)
        /\ contents \in [Slots -> 0 .. MaxCommits]
        /\ contents' = [contents EXCEPT ![SlotOf(producer.w)] = commits + 1]
        /\ UNCHANGED <<commits, write_idx, read_idx, held>>
    BY <1>7 DEF Fill, IInv, OneOwner, TypeOK, Producing
  <2>. QED BY <1>0, <1>2, <2>1
<1>8. CASE \/ AcquireLoadWrite \/ AcquireLoadRead \/ Abandon
           \/ DequeueLoadWrite \/ DequeueLoadRead \/ DequeueCheck
           \/ UNCHANGED vars
  BY <1>2, <1>8 DEF AcquireLoadWrite, AcquireLoadRead, Abandon, DequeueLoadWrite,
     DequeueLoadRead, DequeueCheck, vars
<1>. QED
  BY <1>3, <1>4, <1>5, <1>6, <1>7, <1>8 DEF Next, Acquire, Dequeue

\* bb_pool's lock-free half is a bounded FIFO of frames: whatever the schedule
\* of the two threads, every run of the pool is a run of FrameQueue.
THEOREM PoolIsFrameQueue == ASSUME NoWrap PROVE Spec => ImplementsFrameQueue
<1>1. Init => Abstract!Init
  BY DEF Init, Abstract!Init
<1>2. IInv /\ IInv' /\ [Next]_vars => [Abstract!Next]_(Abstract!vars)
  BY StepSimulation
<1>. QED BY <1>1, <1>2, PoolInvariant, PTL DEF Spec, ImplementsFrameQueue, Abstract!Spec
-----------------------------------------------------------------------------
(* What becomes of a pool that outlives its indices. *)

\* The number of frames is an int too.
CountIsInt == N <= IntMax

\* write_idx has wrapped, and the consumer has not loaded it before.
Starved ==
  /\ write_idx < 0
  /\ consumer.pc = "idle" \/ (consumer.pc = "load_read" /\ consumer.w < 0)

\* The indices as long as the consumer has not wrapped: what each thread has loaded
\* bounds how far write_idx may go ahead of read_idx, and read_idx.
LifeInv ==
  /\ commits \in Nat /\ read_idx \in 0 .. IntMax
  /\ write_idx = Wrap(commits) /\ commits - read_idx \in 0 .. N
  /\ producer.pc \in ProducerPCs /\ producer.w \in Int
  /\ consumer.pc \in ConsumerPCs /\ consumer.w \in Int /\ consumer.r \in Int
  /\ DOMAIN producer = {"pc", "w", "r"} /\ DOMAIN consumer = {"pc", "w", "r"}
  /\ producer.pc # "idle" => producer.w = write_idx
  /\ producer.pc \in {"claim", "fill", "commit"} => commits - read_idx < N
  /\ consumer.w <= commits /\ consumer.w <= IntMax
  /\ consumer.pc \in {"check", "advance"} => consumer.r = read_idx /\ read_idx < consumer.w

\* The index after up to 2 * (IntMax + 1) commits, and the distance of the indices.
LEMMA WrapOnce ==
  ASSUME CountIsInt, NEW c \in Nat, NEW r \in 0 .. IntMax, c - r \in 0 .. N
  PROVE  /\ Wrap(c) \in Int /\ Wrap(c) <= c /\ Wrap(c) <= IntMax
         /\ Wrap(c) < 0 <=> c > IntMax
         /\ Wrap(Wrap(c) - r) = c - r
         /\ Wrap(Wrap(c) + 1) = Wrap(c + 1)
BY PoolAssumption DEF CountIsInt, Wrap

LEMMA InitLife == ASSUME CountIsInt, Init PROVE LifeInv
BY PoolAssumption DEF Init, LifeInv, Idle, Thread, Wrap, ProducerPCs, ConsumerPCs

LEMMA LifeStep ==
  ASSUME CountIsInt, LifeInv, [Next]_vars
  PROVE  LifeInv' /\ (Starved => Starved')
<1>. USE PoolAssumption DEF Thread, Idle, ProducerPCs, ConsumerPCs
<1>1. /\ commits \in Nat /\ read_idx \in 0 .. IntMax /\ commits - read_idx \in 0 .. N
      /\ write_idx \in Int /\ write_idx <= commits /\ write_idx <= IntMax
      /\ write_idx < 0 <=> commits > IntMax
      /\ Wrap(write_idx - read_idx) = commits - read_idx
      /\ Wrap(write_idx + 1) = Wrap(commits + 1)
  BY WrapOnce DEF LifeInv
<1>2. CASE AcquireLoadWrite
  BY <1>1, <1>2 DEF AcquireLoadWrite, LifeInv, Starved
<1>3. CASE AcquireLoadRead
  BY <1>1, <1>3 DEF AcquireLoadRead, LifeInv, Starved
<1>4. CASE AcquireClaim \/ Fill \/ Abandon
  BY <1>1, <1>4 DEF AcquireClaim, Fill, Abandon, LifeInv, Starved
<1>5. CASE Commit
  <2>1. /\ write_idx' = Wrap(commits + 1) /\ commits' = commits + 1 /\ commits - read_idx < N
        /\ producer' = Idle /\ UNCHANGED <<read_idx, consumer>>
    BY <1>1, <1>5 DEF Commit, LifeInv
  <2>2. write_idx < 0 => write_idx' < 0
    <3>1. Wrap(commits + 1) < 0 <=> commits + 1 > IntMax
      BY <1>1, <2>1, WrapOnce
    <3>. QED
      BY <1>1, <2>1, <3>1
  <2>. QED
    BY <1>1, <2>1, <2>2 DEF LifeInv, Starved
<1>6. CASE DequeueLoadWrite
  BY <1>1, <1>6 DEF DequeueLoadWrite, LifeInv, Starved
<1>7. CASE DequeueLoadRead
  BY <1>1, <1>7 DEF DequeueLoadRead, LifeInv, Starved
<1>8. CASE DequeueCheck
  BY <1>1, <1>8 DEF DequeueCheck, LifeInv, Starved
<1>9. CASE DequeueAdvance
  <2>1. consumer.pc = "advance" /\ read_idx < consumer.w /\ consumer.w <= commits
    BY <1>9 DEF DequeueAdvance, LifeInv
  <2>2. /\ read_idx' = read_idx + 1 /\ read_idx + 1 <= IntMax /\ consumer' = Idle
        /\ UNCHANGED <<write_idx, commits, producer>>
    BY <1>1, <1>9, <2>1, WrapId DEF DequeueAdvance, LifeInv
  <2>3. ~Starved
    BY <2>1 DEF Starved
  <2>. QED
    BY <1>1, <2>1, <2>2, <2>3 DEF LifeInv
<1>10. CASE Release
  BY <1>1, <1>10 DEF Release, LifeInv, Starved
<1>11. CASE UNCHANGED vars
  BY <1>1, <1>11 DEF vars, LifeInv, Starved
<1>. QED
  BY <1>2, <1>3, <1>4, <1>5, <1>6, <1>7, <1>8, <1>9, <1>10, <1>11 DEF Next, Acquire, Dequeue

\* However long the program would run, the pool carries no more than IntMax frames:
\* no more are delivered, and no more than N others committed.  (An acquire whose
\* index falls outside of frames is the end of the model's producer.)
THEOREM PoolWearsOut ==
  ASSUME CountIsInt PROVE Spec => [](read_idx <= IntMax /\ commits <= IntMax + N)
<1>1. Init => LifeInv
  BY InitLife
<1>2. LifeInv /\ [Next]_vars => LifeInv'
  BY LifeStep
<1>3. LifeInv => read_idx <= IntMax /\ commits <= IntMax + N
  BY PoolAssumption DEF LifeInv
<1>. QED
  BY <1>1, <1>2, <1>3, PTL DEF Spec

\* Once write_idx has wrapped, bb_pool_sp_dequeue returns NULL for ever, over frames
\* that were committed and never delivered.
THEOREM WrapStarves ==
  ASSUME CountIsInt PROVE Spec => [](Starved => [](Starved /\ read_idx < commits))
<1>1. Init => LifeInv
  BY InitLife
<1>2. LifeInv /\ [Next]_vars => LifeInv' /\ (Starved => Starved')
  BY LifeStep
<1>3. LifeInv /\ Starved => read_idx < commits
  BY WrapOnce, PoolAssumption DEF LifeInv, Starved
<1>. QED
  BY <1>1, <1>2, <1>3, PTL DEF Spec
=============================================================================
