------------------------------ MODULE MpscPool ------------------------------
(***************************************************************************)
(* The mutex-protected multi-producer single-consumer half of              *)
(* libbb/bb_pool.c.                                                        *)
(*                                                                         *)
(* A producer claims a frame with a compare-and-swap per slot              *)
(* (bb_pool_mp_acquire), marks it ready by a second increment BEFORE it    *)
(* takes the mutex, and only then counts it in mp_pending                  *)
(* (bb_pool_mp_enqueue).  The consumer waits for mp_pending under the      *)
(* mutex and scans the refcounts, which the producers keep changing        *)
(* (bb_pool_mp_dequeue).  The scans are modelled slot by slot.  The        *)
(* producer's critical section touches nothing but mp_pending and the      *)
(* condition variable, so it is one step taken while the mutex is free.    *)
(*                                                                         *)
(* bb_frame_ref and bb_frame_unref let another thread share the frame the  *)
(* consumer holds.                                                         *)
(***************************************************************************)
EXTENDS Integers, FiniteSets

CONSTANTS Producers,   \* threads that call mp_acquire and mp_enqueue
          N,           \* frames in the pool (p->count)
          MaxFrames,   \* bound on the number of frames enqueued
          Disciplines  \* how the users of the pool may treat shared frames

ASSUME PoolAssumption == /\ N \in Nat \ {0}
                         /\ MaxFrames \in Nat
                         /\ IsFiniteSet(Producers)

ASSUME DisciplineAssumption ==
  Disciplines \subseteq {"unshared", "unref first", "release first"}

VARIABLES
  refcount,    \* frames[i].refcount: 0 free, 1 acquired, 2 ready
  contents,    \* number of the frame in each buffer, in the order of marking
  pending,     \* mp_pending
  mutex,       \* who holds mp_mutex between two steps: "free" or "consumer"
  pc, at,      \* per producer: where it is, and its loop index or its slot
  cpc, ci,     \* the same for the consumer
  held,        \* slots dequeued and not released
  shared,      \* slots another thread uses under a bb_frame_ref of its own
  discipline,  \* no sharing, or which of unref and release comes first; fixed
  marked,      \* frames marked ready so far
  delivered    \* frames dequeued so far

vars == <<refcount, contents, pending, mutex, pc, at, cpc, ci, held, shared,
          discipline, marked, delivered>>
memory == <<refcount, contents>>
producerVars == <<pc, at, marked, discipline>>
consumerVars == <<cpc, ci, held, delivered>>

Slots == 0 .. N - 1

Init == /\ refcount = [s \in Slots |-> 0]
        /\ contents = [s \in Slots |-> 0]
        /\ pending = 0 /\ mutex = "free"
        /\ pc = [p \in Producers |-> "idle"]
        /\ at = [p \in Producers |-> 0]
        /\ cpc = "idle" /\ ci = 0
        /\ held = {} /\ shared = {} /\ discipline \in Disciplines
        /\ marked = 0 /\ delivered = {}

-----------------------------------------------------------------------------
(* bb_pool_mp_acquire *)

\* Frames that are marked or may still be, against the bound.
Outstanding == marked + Cardinality({p \in Producers : pc[p] \in {"scan", "filling"}})

AcquireStart(p) ==
  /\ pc[p] = "idle"
  /\ Outstanding < MaxFrames
  /\ pc' = [pc EXCEPT ![p] = "scan"]
  /\ at' = [at EXCEPT ![p] = 0]
  /\ UNCHANGED <<memory, pending, mutex, consumerVars, shared, discipline, marked>>

\* Mutant: tests the refcount and claims it without the compare-and-swap.
AcquireTry_Store(p) ==
  LET s == at[p] IN
  /\ pc[p] = "scan" /\ s \in Slots
  /\ \/ /\ refcount[s] # 2
        /\ refcount' = [refcount EXCEPT ![s] = 1]
        /\ pc' = [pc EXCEPT ![p] = "filling"]
        /\ UNCHANGED at
     \/ /\ refcount[s] = 2
        /\ at' = [at EXCEPT ![p] = s + 1]
        /\ UNCHANGED <<refcount, pc>>
  /\ UNCHANGED <<contents, pending, mutex, consumerVars, shared, discipline, marked>>

\* One compare-and-swap of the scan.
AcquireTry(p) ==
  LET s == at[p] IN
  /\ pc[p] = "scan" /\ s \in Slots
  /\ \/ /\ refcount[s] = 0
        /\ refcount' = [refcount EXCEPT ![s] = 1]
        /\ pc' = [pc EXCEPT ![p] = "filling"]
        /\ UNCHANGED at
     \/ /\ refcount[s] # 0
        /\ at' = [at EXCEPT ![p] = s + 1]
        /\ UNCHANGED <<refcount, pc>>
  /\ UNCHANGED <<contents, pending, mutex, consumerVars, shared, discipline, marked>>

\* No free slot was met: NULL.
AcquireFull(p) ==
  /\ pc[p] = "scan" /\ at[p] = N
  /\ pc' = [pc EXCEPT ![p] = "idle"]
  /\ at' = [at EXCEPT ![p] = 0]
  /\ UNCHANGED <<memory, pending, mutex, consumerVars, shared, discipline, marked>>

-----------------------------------------------------------------------------
(* bb_pool_mp_enqueue *)

\* The increment to 2, outside the mutex.
EnqueueMark(p) ==
  LET s == at[p] IN
  /\ pc[p] = "filling"
  /\ refcount' = [refcount EXCEPT ![s] = @ + 1]
  /\ contents' = [contents EXCEPT ![s] = marked + 1]
  /\ marked' = marked + 1
  /\ pc' = [pc EXCEPT ![p] = "marked"]
  /\ UNCHANGED <<pending, mutex, at, consumerVars, shared, discipline>>

\* Mutant: the consumer is not signalled.
EnqueuePublish_NoSignal(p) ==
  /\ pc[p] = "marked" /\ mutex = "free"
  /\ pending' = pending + 1
  /\ pc' = [pc EXCEPT ![p] = "idle"]
  /\ at' = [at EXCEPT ![p] = 0]
  /\ UNCHANGED <<memory, mutex, consumerVars, shared, discipline, marked>>

\* Lock, count, signal, unlock.
EnqueuePublish(p) ==
  /\ pc[p] = "marked" /\ mutex = "free"
  /\ pending' = pending + 1
  /\ cpc' = IF cpc = "waiting" THEN "woken" ELSE cpc
  /\ pc' = [pc EXCEPT ![p] = "idle"]
  /\ at' = [at EXCEPT ![p] = 0]
  /\ UNCHANGED <<memory, mutex, ci, held, delivered, shared, discipline, marked>>

-----------------------------------------------------------------------------
(* bb_pool_mp_dequeue and bb_pool_mp_release; the consumer releases a frame *)
(* before it asks for the next one, as playback_thread_fn does.             *)

DequeueLock ==
  /\ \/ cpc = "idle" /\ held = {}
     \/ cpc = "woken"
  /\ mutex = "free"
  /\ mutex' = "consumer"
  /\ cpc' = "test"
  /\ UNCHANGED <<memory, pending, producerVars, ci, held, delivered, shared>>

\* Mutant: the condition is tested with the wrong sense of an empty pool.
DequeueTest_NoWait ==
  /\ cpc = "test"
  /\ cpc' = "scan" /\ ci' = 0
  /\ UNCHANGED <<memory, pending, mutex, producerVars, held, delivered, shared>>

\* pthread_cond_wait gives the mutex back.
DequeueTest ==
  /\ cpc = "test"
  /\ \/ /\ pending = 0
        /\ cpc' = "waiting" /\ mutex' = "free"
        /\ UNCHANGED ci
     \/ /\ pending # 0
        /\ cpc' = "scan" /\ ci' = 0
        /\ UNCHANGED mutex
  /\ UNCHANGED <<memory, pending, producerVars, held, delivered, shared>>

\* A condition variable may wake its waiter without a signal.
SpuriousWakeup ==
  /\ cpc = "waiting"
  /\ cpc' = "woken"
  /\ UNCHANGED <<memory, pending, mutex, producerVars, ci, held, delivered, shared>>

\* Mutant: an acquired slot counts as ready.
DequeueScan_AnyUsed ==
  /\ cpc = "scan" /\ ci \in Slots
  /\ \/ /\ refcount[ci] >= 1
        /\ pending' = pending - 1
        /\ mutex' = "free"
        /\ held' = held \cup {ci}
        /\ delivered' = delivered \cup {contents[ci]}
        /\ cpc' = "idle"
        /\ UNCHANGED ci
     \/ /\ refcount[ci] < 1
        /\ ci' = ci + 1
        /\ UNCHANGED <<pending, mutex, cpc, held, delivered>>
  /\ UNCHANGED <<memory, producerVars, shared>>

\* Mutant: the frame is taken without being counted off.
DequeueScan_KeepCount ==
  /\ cpc = "scan" /\ ci \in Slots
  /\ \/ /\ refcount[ci] >= 2
        /\ mutex' = "free"
        /\ held' = held \cup {ci}
        /\ delivered' = delivered \cup {contents[ci]}
        /\ cpc' = "idle"
        /\ UNCHANGED <<pending, ci>>
     \/ /\ refcount[ci] < 2
        /\ ci' = ci + 1
        /\ UNCHANGED <<pending, mutex, cpc, held, delivered>>
  /\ UNCHANGED <<memory, producerVars, shared>>

\* The first slot with a refcount of at least 2 is the result.
DequeueScan ==
  /\ cpc = "scan" /\ ci \in Slots
  /\ \/ /\ refcount[ci] >= 2
        /\ pending' = pending - 1
        /\ mutex' = "free"
        /\ held' = held \cup {ci}
        /\ delivered' = delivered \cup {contents[ci]}
        /\ cpc' = "idle"
        /\ UNCHANGED ci
     \/ /\ refcount[ci] < 2
        /\ ci' = ci + 1
        /\ UNCHANGED <<pending, mutex, cpc, held, delivered>>
  /\ UNCHANGED <<memory, producerVars, shared>>

\* The scan met no ready slot: NULL, and one frame less is pending.
ScanExhausted == cpc = "scan" /\ ci = N

DequeueNull ==
  /\ ScanExhausted
  /\ pending' = pending - 1
  /\ mutex' = "free"
  /\ cpc' = "idle"
  /\ UNCHANGED <<memory, producerVars, ci, held, delivered, shared>>

\* The store of 0 forgets every reference.
Release ==
  /\ cpc = "idle"
  /\ \E s \in held : /\ discipline # "release first" => s \notin shared
                     /\ held' = held \ {s}
                     /\ refcount' = [refcount EXCEPT ![s] = 0]
  /\ UNCHANGED <<contents, pending, mutex, producerVars, cpc, ci, delivered, shared>>

-----------------------------------------------------------------------------
(* bb_frame_ref, bb_frame_unref *)

Ref == /\ discipline # "unshared"
       /\ \E s \in held \ shared : /\ shared' = shared \cup {s}
                                   /\ refcount' = [refcount EXCEPT ![s] = @ + 1]
       /\ UNCHANGED <<contents, pending, mutex, producerVars, consumerVars>>

Unref == /\ \E s \in shared : /\ shared' = shared \ {s}
                              /\ refcount' = [refcount EXCEPT ![s] = @ - 1]
         /\ UNCHANGED <<contents, pending, mutex, producerVars, consumerVars>>

-----------------------------------------------------------------------------
Produce(p) == \/ AcquireStart(p) \/ AcquireTry(p) \/ AcquireFull(p)
              \/ EnqueueMark(p) \/ EnqueuePublish(p)

Consume == DequeueLock \/ DequeueTest \/ DequeueScan \/ DequeueNull \/ Release

Next == \/ \E p \in Producers : Produce(p)
        \/ Consume \/ SpuriousWakeup \/ Ref \/ Unref

\* The consumer thread runs its loop; nothing obliges a producer to produce or a
\* sharer to give its frame back.
Spec == Init /\ [][Next]_vars /\ WF_vars(Consume)

-----------------------------------------------------------------------------
(* Correctness *)

Filling == {p \in Producers : pc[p] = "filling"}
InFlight == {p \in Producers : pc[p] = "marked"}     \* marked, not yet counted
Ready == {s \in Slots : refcount[s] >= 2 /\ s \notin held}

\* bb_pool_mp_release stores 0 and forgets the references of other users; the
\* pool is sound as long as nobody releases a frame that is still shared.
Sound == discipline # "release first"

Types ==
  /\ refcount \in [Slots -> 0 .. 3]
  /\ contents \in [Slots -> 0 .. MaxFrames]
  /\ pending \in 0 .. N
  /\ mutex = IF cpc \in {"test", "scan"} THEN "consumer" ELSE "free"
  /\ pc \in [Producers -> {"idle", "scan", "filling", "marked"}]
  /\ at \in [Producers -> 0 .. N]
  /\ cpc \in {"idle", "test", "waiting", "woken", "scan"}
  /\ ci \in 0 .. N
  /\ held \subseteq Slots /\ shared \subseteq held
  /\ marked \in 0 .. MaxFrames
  /\ delivered \subseteq 1 .. MaxFrames

TypeOK == discipline \in Disciplines /\ (Sound => Types)

\* A slot is filled by one producer at a time, and never while it is ready, in
\* the consumer's hands or in a sharer's (bb_pool_mp_acquire).
OneFiller ==
  Sound => /\ \A p, q \in Filling : at[p] = at[q] => p = q
           /\ \A p \in Filling : /\ refcount[at[p]] = 1
                                 /\ at[p] \notin held \cup shared

\* mp_pending counts the ready frames, but for those whose producer is still
\* between its increment and its critical section.
PendingCounted ==
  Sound => pending + Cardinality(InFlight) = Cardinality(Ready)

\* The NULL that ends bb_pool_mp_dequeue is unreachable.
NeverNull == Sound => ~ScanExhausted

\* mp_pending is right (bb_pool_mp_enqueue), so that the consumer never finds it
\* positive and no frame, although its scan races the producers.
PendingAccounting == PendingCounted /\ NeverNull

\* No lost wakeup: a consumer asleep in pthread_cond_wait has nothing pending,
\* even when premature releases have made mp_pending wrong.
NoLostWakeup == cpc = "waiting" => pending = 0

\* While frames are pending the consumer goes on delivering (a sharer may keep
\* it from releasing, so this is for a pool without sharing).
PendingServed ==
  \A n \in 0 .. MaxFrames - 1 :
    (discipline = "unshared" /\ pending > 0 /\ Cardinality(delivered) = n)
      ~> (Cardinality(delivered) > n)

\* The abstract bag this pool implements.
Abstract == INSTANCE FrameBag WITH
  Capacity <- N,
  waiting  <- {contents[s] : s \in Ready}

\* Every enqueued frame is delivered at most once, and at most N wait.
ImplementsFrameBag ==
  /\ Sound => Abstract!Init
  /\ [][Sound => Abstract!Next]_(Abstract!vars)
=============================================================================
