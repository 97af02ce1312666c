------------------------------ MODULE SpscPool ------------------------------
(***************************************************************************)
(* The lock-free single-producer single-consumer half of libbb/bb_pool.c.  *)
(* Every atomic access of the C code is a step of its own, so the producer *)
(* thread and the consumer thread interleave between any two of them.      *)
(*                                                                         *)
(* The producer: bb_pool_sp_acquire (two loads and a compare-and-swap),    *)
(* fill the buffer, bb_pool_sp_commit, or bb_pool_sp_release when the read *)
(* that should have filled the buffer failed.  The consumer:               *)
(* bb_pool_sp_dequeue (three loads and an increment), use the frame,       *)
(* bb_pool_sp_release.                                                     *)
(***************************************************************************)
EXTENDS Integers, Sequences, FiniteSets

CONSTANTS N,           \* frames in the pool (p->count)
          IntMax,      \* largest value of the two atomic_int indices
          MaxCommits   \* bound on the number of commits

ASSUME PoolAssumption == /\ N \in Nat \ {0}
                         /\ IntMax \in Nat \ {0}
                         /\ MaxCommits \in Nat

VARIABLES
  refcount,   \* frames[i].refcount
  write_idx,  \* the two indices
  read_idx,
  contents,   \* number of the frame a buffer holds, 0 while it is incomplete
  producer,   \* pc of the producer, and its locals w and r
  consumer,   \* the same for the consumer
  held,       \* slots the consumer has dequeued and not released
  commits     \* frames committed so far

vars == <<refcount, write_idx, read_idx, contents, producer, consumer, held,
          commits>>

Slots == 0 .. N - 1

\* A signed atomic increment, and the difference of two ints, modulo the width.
Wrap(x) == IF x > IntMax THEN x - 2 * (IntMax + 1)
           ELSE IF x < -IntMax - 1 THEN x + 2 * (IntMax + 1) ELSE x

\* The remainder of C, which has the sign of the dividend.
SlotOf(idx) == IF idx >= 0 THEN idx % N ELSE -((-idx) % N)

Thread(pc, w, r) == [pc |-> pc, w |-> w, r |-> r]
Idle == Thread("idle", 0, 0)

ProducerPCs == {"idle", "load_read", "claim", "fill", "commit"}
ConsumerPCs == {"idle", "load_read", "check", "advance"}

Init == /\ refcount = [s \in Slots |-> 0]
        /\ write_idx = 0 /\ read_idx = 0
        /\ contents = [s \in Slots |-> 0]
        /\ producer = Idle /\ consumer = Idle
        /\ held = {}
        /\ commits = 0

-----------------------------------------------------------------------------
(* bb_pool_sp_acquire *)

AcquireLoadWrite ==
  /\ producer.pc = "idle"
  /\ commits < MaxCommits
  /\ producer' = Thread("load_read", write_idx, 0)
  /\ UNCHANGED <<refcount, write_idx, read_idx, contents, consumer, held, commits>>

\* The difference tells a full pool (NULL: the period is dropped).
AcquireLoadRead ==
  /\ producer.pc = "load_read"
  /\ producer' = IF Wrap(producer.w - read_idx) >= N
                 THEN Idle
                 ELSE Thread("claim", producer.w, read_idx)
  /\ UNCHANGED <<refcount, write_idx, read_idx, contents, consumer, held, commits>>

\* Mutant: an increment in place of the compare-and-swap.
AcquireClaim_Increment ==
  LET s == SlotOf(producer.w) IN
  /\ producer.pc = "claim"
  /\ refcount' = [refcount EXCEPT ![s] = @ + 1]
  /\ contents' = [contents EXCEPT ![s] = 0]
  /\ producer' = [producer EXCEPT !.pc = "fill"]
  /\ UNCHANGED <<write_idx, read_idx, consumer, held, commits>>

\* Mutant: a plain store, trusting the index test alone.
AcquireClaim_Store ==
  LET s == SlotOf(producer.w) IN
  /\ producer.pc = "claim"
  /\ refcount' = [refcount EXCEPT ![s] = 1]
  /\ contents' = [contents EXCEPT ![s] = 0]
  /\ producer' = [producer EXCEPT !.pc = "fill"]
  /\ UNCHANGED <<write_idx, read_idx, consumer, held, commits>>

\* The compare-and-swap 0 -> 1; a slot that is not free is NULL again.  From a
\* successful acquire on, the buffer is being overwritten.
AcquireClaim ==
  LET s == SlotOf(producer.w) IN
  /\ producer.pc = "claim"
  /\ s \in Slots
  /\ \/ /\ refcount[s] = 0
        /\ refcount' = [refcount EXCEPT ![s] = 1]
        /\ contents' = [contents EXCEPT ![s] = 0]
        /\ producer' = [producer EXCEPT !.pc = "fill"]
     \/ /\ refcount[s] # 0
        /\ producer' = Idle
        /\ UNCHANGED <<refcount, contents>>
  /\ UNCHANGED <<write_idx, read_idx, consumer, held, commits>>

\* The producer's own work between acquire and commit.
Fill ==
  /\ producer.pc = "fill"
  /\ contents' = [contents EXCEPT ![SlotOf(producer.w)] = commits + 1]
  /\ producer' = [producer EXCEPT !.pc = "commit"]
  /\ UNCHANGED <<refcount, write_idx, read_idx, consumer, held, commits>>

\* The device read failed: the slot goes back uncommitted (bb_pool_sp_release).
Abandon ==
  /\ producer.pc = "fill"
  /\ refcount' = [refcount EXCEPT ![SlotOf(producer.w)] = 0]
  /\ producer' = Idle
  /\ UNCHANGED <<write_idx, read_idx, contents, consumer, held, commits>>

Commit ==
  /\ producer.pc = "commit"
  /\ write_idx' = Wrap(write_idx + 1)
  /\ commits' = commits + 1
  /\ producer' = Idle
  /\ UNCHANGED <<refcount, read_idx, contents, consumer, held>>

-----------------------------------------------------------------------------
(* bb_pool_sp_dequeue and bb_pool_sp_release *)

DequeueLoadWrite ==
  /\ consumer.pc = "idle"
  /\ consumer' = Thread("load_read", write_idx, 0)
  /\ UNCHANGED <<refcount, write_idx, read_idx, contents, producer, held, commits>>

\* Mutant: > for >=, trusting the refcount test to find the queue empty.
DequeueLoadRead_TrustRefcount ==
  /\ consumer.pc = "load_read"
  /\ consumer' = IF read_idx > consumer.w
                 THEN Idle
                 ELSE Thread("check", consumer.w, read_idx)
  /\ UNCHANGED <<refcount, write_idx, read_idx, contents, producer, held, commits>>

DequeueLoadRead ==
  /\ consumer.pc = "load_read"
  /\ consumer' = IF read_idx >= consumer.w
                 THEN Idle
                 ELSE Thread("check", consumer.w, read_idx)
  /\ UNCHANGED <<refcount, write_idx, read_idx, contents, producer, held, commits>>

DequeueCheck ==
  LET s == SlotOf(consumer.r) IN
  /\ consumer.pc = "check"
  /\ s \in Slots
  /\ consumer' = IF refcount[s] < 1
                 THEN Idle
                 ELSE [consumer EXCEPT !.pc = "advance"]
  /\ UNCHANGED <<refcount, write_idx, read_idx, contents, producer, held, commits>>

\* Mutant: the slot is free as soon as it is dequeued.
DequeueAdvance_ReleaseEarly ==
  /\ consumer.pc = "advance"
  /\ read_idx' = Wrap(read_idx + 1)
  /\ held' = held \cup {SlotOf(consumer.r)}
  /\ refcount' = [refcount EXCEPT ![SlotOf(consumer.r)] = 0]
  /\ consumer' = Idle
  /\ UNCHANGED <<write_idx, contents, producer, commits>>

DequeueAdvance ==
  /\ consumer.pc = "advance"
  /\ read_idx' = Wrap(read_idx + 1)
  /\ held' = held \cup {SlotOf(consumer.r)}
  /\ consumer' = Idle
  /\ UNCHANGED <<refcount, write_idx, contents, producer, commits>>

\* Mutant: releases the slot read_idx names instead of the frame it was given.
Release_ByIndex ==
  /\ consumer.pc = "idle"
  /\ \E s \in held : /\ held' = held \ {s}
                     /\ refcount' = [refcount EXCEPT ![SlotOf(read_idx)] = 0]
  /\ UNCHANGED <<write_idx, read_idx, contents, producer, consumer, commits>>

Release ==
  /\ consumer.pc = "idle"
  /\ \E s \in held : /\ held' = held \ {s}
                     /\ refcount' = [refcount EXCEPT ![s] = 0]
  /\ UNCHANGED <<write_idx, read_idx, contents, producer, consumer, commits>>

-----------------------------------------------------------------------------
Acquire == AcquireLoadWrite \/ AcquireLoadRead \/ AcquireClaim
Dequeue == DequeueLoadWrite \/ DequeueLoadRead \/ DequeueCheck \/ DequeueAdvance

Next == Acquire \/ Fill \/ Abandon \/ Commit \/ Dequeue \/ Release

Spec == Init /\ [][Next]_vars

-----------------------------------------------------------------------------
(* Correctness *)

TypeOK ==
  /\ refcount \in [Slots -> 0 .. 1]
  /\ write_idx \in -IntMax - 1 .. IntMax
  /\ read_idx \in -IntMax - 1 .. IntMax
  /\ contents \in [Slots -> 0 .. MaxCommits]
  /\ producer \in [pc : ProducerPCs, w : -IntMax - 1 .. IntMax,
                   r : -IntMax - 1 .. IntMax]
  /\ consumer \in [pc : ConsumerPCs, w : -IntMax - 1 .. IntMax,
                   r : -IntMax - 1 .. IntMax]
  /\ held \subseteq Slots
  /\ commits \in 0 .. MaxCommits

Producing == producer.pc \in {"fill", "commit"}
Queued == read_idx .. write_idx - 1       \* indices committed and not dequeued

\* A slot has one owner: the producer between acquire and commit, the queue,
\* or the consumer until release; the refcount of exactly the owned slots is 1.
\* This is what makes the pool safe without a lock (the compare-and-swap of
\* bb_pool_sp_acquire against the late store of bb_pool_sp_release).
OneOwner ==
  /\ \A i \in Queued : SlotOf(i) \notin held
  /\ \A i, j \in Queued : SlotOf(i) = SlotOf(j) => i = j
  /\ Producing => /\ SlotOf(producer.w) \notin held
                  /\ \A i \in Queued : SlotOf(i) # SlotOf(producer.w)
  /\ \A s \in Slots :
       refcount[s] = 1 <=> \/ s \in held
                           \/ \E i \in Queued : SlotOf(i) = s
                           \/ Producing /\ SlotOf(producer.w) = s

\* The frames the consumer can reach are complete, and they are the last ones
\* committed in commit order: no torn, repeated, lost or overtaken frame.
FramesInOrder ==
  /\ \A s \in held : contents[s] \in 1 .. commits
  /\ \A i \in Queued : contents[SlotOf(i)] = commits - (write_idx - 1 - i)

\* The two early returns of bb_pool_sp_dequeue agree: an index below write_idx
\* always names a committed slot, so the refcount test never turns a non-empty
\* queue into NULL ("Ensure producer has committed this slot").
CommittedIsReady ==
  consumer.pc = "check" => refcount[SlotOf(consumer.r)] = 1

\* Frames reach the consumer intact and in order, and none is hidden from it.
FramesIntact == FramesInOrder /\ CommittedIsReady

\* The abstract queue this pool implements.
Abstract == INSTANCE FrameQueue WITH
  Capacity  <- N,
  MaxFrames <- MaxCommits,
  last      <- commits,
  queue     <- [k \in 1 .. write_idx - read_idx |->
                  contents[SlotOf(read_idx + k - 1)]],
  kept      <- {contents[s] : s \in held}

\* The lock-free pool is a bounded FIFO.
ImplementsFrameQueue == Abstract!Spec
=============================================================================
