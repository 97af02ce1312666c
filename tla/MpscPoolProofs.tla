--------------------------- MODULE MpscPoolProofs ---------------------------
(***************************************************************************)
(* Proofs about the mutex-protected frame pool, for every set of           *)
(* producers and every number of frames.                                   *)
(*                                                                         *)
(* The inductive invariant has two parts.  NoLostWakeup holds by itself,   *)
(* whatever the users of the pool do.  Core holds while Sound does: it     *)
(* adds to the properties what the refcount of a slot says about its       *)
(* owner, that the consumer holds nothing while it dequeues, and why the   *)
(* scan cannot fail: while it is at slot ci, some slot from ci on is       *)
(* ready, because only the consumer makes a ready slot not ready.          *)
(***************************************************************************)
EXTENDS MpscPool, FiniteSetTheorems, TLAPS

Claiming == {p \in Producers : pc[p] \in {"scan", "filling"}}

CoreTypes ==
  /\ refcount \in [Slots -> 0 .. 3]
  /\ contents \in [Slots -> 0 .. MaxFrames]
  /\ pending \in Nat
  /\ mutex = IF cpc \in {"test", "scan"} THEN "consumer" ELSE "free"
  /\ pc \in [Producers -> {"idle", "scan", "filling", "marked"}]
  /\ at \in [Producers -> 0 .. N]
  /\ cpc \in {"idle", "test", "waiting", "woken", "scan"}
  /\ ci \in 0 .. N
  /\ held \subseteq Slots /\ shared \subseteq held
  /\ marked \in Nat
  /\ marked + Cardinality(Claiming) <= MaxFrames
  /\ delivered \subseteq 1 .. MaxFrames

SlotInv ==
  /\ \A p \in Filling : at[p] \in Slots
  /\ \A s \in held : refcount[s] = IF s \in shared THEN 3 ELSE 2
  /\ \A s \in Slots \ held : refcount[s] <= 2
  /\ \A s \in Ready : contents[s] \in 1 .. MaxFrames

ConsumerInv ==
  /\ cpc # "idle" => held = {}
  /\ cpc = "scan" => pending > 0 /\ \E s \in Ready : ci <= s

Core == CoreTypes /\ SlotInv /\ ConsumerInv /\ OneFiller /\ PendingCounted /\ NoLostWakeup

IInv == discipline \in Disciplines /\ NoLostWakeup /\ (Sound => Core)

-----------------------------------------------------------------------------
\* The sets whose cardinalities the invariant counts are finite.
LEMMA Finite ==
  /\ IsFiniteSet(InFlight) /\ Cardinality(InFlight) \in Nat
  /\ IsFiniteSet(Claiming) /\ Cardinality(Claiming) \in Nat
  /\ IsFiniteSet(Slots) /\ Cardinality(Slots) = N
  /\ IsFiniteSet(Ready) /\ Cardinality(Ready) \in 0 .. N
<1>1. IsFiniteSet(InFlight) /\ IsFiniteSet(Claiming)
  BY PoolAssumption, FS_Subset DEF InFlight, Claiming
<1>2. IsFiniteSet(Slots) /\ Cardinality(Slots) = N
  <2>1. 0 \in Int /\ N - 1 \in Int /\ ~(0 > N - 1)
    BY PoolAssumption
  <2>2. IsFiniteSet(0 .. N - 1) /\ Cardinality(0 .. N - 1) = (N - 1) - 0 + 1
    BY <2>1, FS_Interval
  <2>. QED BY <2>2, PoolAssumption DEF Slots
<1>3. IsFiniteSet(Ready) /\ Cardinality(Ready) <= Cardinality(Slots)
  <2>1. Ready \in SUBSET Slots
    BY DEF Ready
  <2>. QED BY <1>2, <2>1, FS_Subset
<1>4. /\ Cardinality(InFlight) \in Nat /\ Cardinality(Claiming) \in Nat
      /\ Cardinality(Ready) \in Nat
  BY <1>1, <1>3, FS_CardinalityType
<1>. QED BY <1>1, <1>2, <1>3, <1>4, PoolAssumption

\* A set with a positive count has an element.
LEMMA NonEmpty == Cardinality(Ready) > 0 => \E s \in Ready : 0 <= s
<1>1. ASSUME Cardinality(Ready) > 0 PROVE Ready # {}
  BY <1>1, Finite, FS_EmptySet
<1>2. \A s \in Ready : 0 <= s
  BY DEF Ready, Slots
<1>. QED BY <1>1, <1>2

\* bb_pool_init establishes the invariant.
LEMMA InitCore == ASSUME Init PROVE Core
<1>1. Claiming = {} /\ InFlight = {} /\ Ready = {} /\ Filling = {}
  BY DEF Init, Claiming, InFlight, Ready, Filling
<1>2. Cardinality({}) = 0
  BY FS_EmptySet
<1>3. CoreTypes
  BY <1>1, <1>2, PoolAssumption DEF Init, CoreTypes
<1>4. SlotInv /\ ConsumerInv /\ OneFiller /\ NoLostWakeup
  BY <1>1 DEF Init, SlotInv, ConsumerInv, OneFiller, NoLostWakeup
<1>5. PendingCounted
  BY <1>1, <1>2 DEF Init, PendingCounted
<1>. QED BY <1>3, <1>4, <1>5 DEF Core

-----------------------------------------------------------------------------
\* The producers' steps preserve the invariant.
LEMMA AcquireCore ==
  ASSUME Sound, Core, NEW p \in Producers,
         AcquireStart(p) \/ AcquireTry(p) \/ AcquireFull(p)
  PROVE  Core'
<1>. USE PoolAssumption DEF memory, consumerVars, producerVars
<1>1. CASE AcquireStart(p)
  <2>1. /\ pc[p] = "idle" /\ pc' = [pc EXCEPT ![p] = "scan"]
        /\ at' = [at EXCEPT ![p] = 0]
        /\ marked + Cardinality(Claiming) < MaxFrames
        /\ UNCHANGED <<refcount, contents, pending, mutex, cpc, ci, held, delivered,
                       shared, marked>>
    BY <1>1 DEF AcquireStart, Outstanding, Claiming
  <2>2. Filling' = Filling /\ InFlight' = InFlight /\ Ready' = Ready
    BY <2>1 DEF Core, CoreTypes, Filling, InFlight, Ready
  <2>3. Claiming' = Claiming \cup {p} /\ p \notin Claiming
    BY <2>1 DEF Core, CoreTypes, Claiming
  <2>4. Cardinality(Claiming') = Cardinality(Claiming) + 1
    BY <2>3, Finite, FS_AddElement
  <2>5. CoreTypes'
    BY <2>1, <2>4, Finite DEF Core, CoreTypes
  <2>6. \A q \in Filling : at'[q] = at[q]
    BY <2>1 DEF Core, CoreTypes, Filling
  <2>7. (SlotInv /\ ConsumerInv /\ OneFiller /\ PendingCounted /\ NoLostWakeup)'
    BY <2>1, <2>2, <2>6 DEF Core, SlotInv, ConsumerInv, OneFiller, PendingCounted,
       NoLostWakeup
  <2>. QED BY <2>5, <2>7 DEF Core
<1>2. CASE AcquireTry(p)
  <2>. DEFINE s == at[p]
  <2>1. /\ pc[p] = "scan" /\ s \in Slots
        /\ UNCHANGED <<contents, pending, mutex, cpc, ci, held, delivered, shared, marked>>
    BY <1>2 DEF AcquireTry
  <2>2. CASE /\ refcount[s] = 0
             /\ refcount' = [refcount EXCEPT ![s] = 1]
             /\ pc' = [pc EXCEPT ![p] = "filling"]
             /\ UNCHANGED at
    <3>1. /\ Filling' = Filling \cup {p} /\ InFlight' = InFlight
          /\ Claiming' = Claiming
      BY <2>1, <2>2 DEF Core, CoreTypes, Filling, InFlight, Claiming
    <3>2. s \notin held /\ \A q \in Filling : at[q] # s
      BY <2>1, <2>2 DEF Core, SlotInv, OneFiller, Filling
    <3>3. Ready' = Ready
      BY <2>1, <2>2 DEF Core, CoreTypes, Ready
    <3>4. CoreTypes'
      BY <2>1, <2>2, <3>1 DEF Core, CoreTypes
    <3>5. SlotInv'
      BY <2>1, <2>2, <3>1, <3>2, <3>3 DEF Core, CoreTypes, SlotInv, Filling
    <3>6. OneFiller'
      BY <2>1, <2>2, <3>1, <3>2 DEF Core, CoreTypes, OneFiller, SlotInv, Filling
    <3>7. (ConsumerInv /\ PendingCounted /\ NoLostWakeup)'
      BY <2>1, <3>1, <3>3 DEF Core, ConsumerInv, PendingCounted, NoLostWakeup
    <3>. QED BY <3>4, <3>5, <3>6, <3>7 DEF Core
  <2>3. CASE /\ at' = [at EXCEPT ![p] = s + 1]
             /\ UNCHANGED <<refcount, pc>>
    <3>1. /\ Filling' = Filling /\ InFlight' = InFlight /\ Claiming' = Claiming
          /\ Ready' = Ready
      BY <2>1, <2>3 DEF Filling, InFlight, Claiming, Ready
    <3>2. s + 1 \in 0 .. N
      BY <2>1 DEF Slots
    <3>3. \A q \in Filling : at'[q] = at[q]
      BY <2>1, <2>3 DEF Core, CoreTypes, Filling
    <3>4. CoreTypes'
      BY <2>1, <2>3, <3>1, <3>2 DEF Core, CoreTypes
    <3>5. (SlotInv /\ ConsumerInv /\ OneFiller /\ PendingCounted /\ NoLostWakeup)'
      BY <2>1, <2>3, <3>1, <3>3 DEF Core, SlotInv, ConsumerInv, OneFiller,
         PendingCounted, NoLostWakeup
    <3>. QED BY <3>4, <3>5 DEF Core
  <2>. QED BY <1>2, <2>2, <2>3 DEF AcquireTry
<1>3. CASE AcquireFull(p)
  <2>1. /\ pc[p] = "scan" /\ pc' = [pc EXCEPT ![p] = "idle"]
        /\ at' = [at EXCEPT ![p] = 0]
        /\ UNCHANGED <<refcount, contents, pending, mutex, cpc, ci, held, delivered,
                       shared, marked>>
    BY <1>3 DEF AcquireFull
  <2>2. Filling' = Filling /\ InFlight' = InFlight /\ Ready' = Ready
    BY <2>1 DEF Core, CoreTypes, Filling, InFlight, Ready
  <2>3. Claiming' = Claiming \ {p} /\ p \in Claiming
    BY <2>1 DEF Core, CoreTypes, Claiming
  <2>4. Cardinality(Claiming') = Cardinality(Claiming) - 1
    BY <2>3, Finite, FS_RemoveElement
  <2>5. CoreTypes'
    BY <2>1, <2>4, Finite DEF Core, CoreTypes
  <2>6. \A q \in Filling : at'[q] = at[q]
    BY <2>1 DEF Core, CoreTypes, Filling
  <2>7. (SlotInv /\ ConsumerInv /\ OneFiller /\ PendingCounted /\ NoLostWakeup)'
    BY <2>1, <2>2, <2>6 DEF Core, SlotInv, ConsumerInv, OneFiller, PendingCounted,
       NoLostWakeup
  <2>. QED BY <2>5, <2>7 DEF Core
<1>. QED BY <1>1, <1>2, <1>3

LEMMA EnqueueCore ==
  ASSUME Sound, Core, NEW p \in Producers, EnqueueMark(p) \/ EnqueuePublish(p)
  PROVE  Core'
<1>. USE PoolAssumption DEF memory, consumerVars, producerVars
<1>1. CASE EnqueueMark(p)
  <2>. DEFINE s == at[p]
  <2>1. /\ pc[p] = "filling" /\ p \in Filling /\ s \in Slots /\ s \notin held
        /\ refcount[s] = 1
        /\ refcount' = [refcount EXCEPT ![s] = 2]
        /\ contents' = [contents EXCEPT ![s] = marked + 1]
        /\ marked' = marked + 1
        /\ pc' = [pc EXCEPT ![p] = "marked"]
        /\ UNCHANGED <<pending, mutex, at, cpc, ci, held, delivered, shared>>
    <3>1. pc[p] = "filling" /\ p \in Filling
      BY <1>1 DEF EnqueueMark, Filling
    <3>2. s \in Slots /\ s \notin held /\ refcount[s] = 1
      BY <3>1 DEF Core, SlotInv, OneFiller
    <3>3. refcount' = [refcount EXCEPT ![s] = refcount[s] + 1]
      BY <1>1 DEF EnqueueMark
    <3>4. /\ contents' = [contents EXCEPT ![s] = marked + 1]
          /\ marked' = marked + 1
          /\ pc' = [pc EXCEPT ![p] = "marked"]
          /\ UNCHANGED <<pending, mutex, at, cpc, ci, held, delivered, shared>>
      BY <1>1 DEF EnqueueMark
    <3>. QED BY <3>1, <3>2, <3>3, <3>4
  <2>2. /\ Filling' = Filling \ {p} /\ \A q \in Filling' : at[q] # s
        /\ InFlight' = InFlight \cup {p} /\ p \notin InFlight
        /\ Claiming' = Claiming \ {p} /\ p \in Claiming
    BY <2>1 DEF Core, CoreTypes, Filling, InFlight, Claiming, OneFiller
  <2>3. Ready' = Ready \cup {s} /\ s \notin Ready
    BY <2>1 DEF Core, CoreTypes, Ready
  <2>4. /\ Cardinality(InFlight') = Cardinality(InFlight) + 1
        /\ Cardinality(Ready') = Cardinality(Ready) + 1
        /\ Cardinality(Claiming') = Cardinality(Claiming) - 1
    BY <2>2, <2>3, Finite, FS_AddElement, FS_RemoveElement
  <2>5. marked + 1 \in 1 .. MaxFrames
    <3>1. Cardinality(Claiming) # 0
      BY <2>2, Finite, FS_EmptySet
    <3>. QED BY <3>1, Finite DEF Core, CoreTypes
  <2>6. CoreTypes'
    BY <2>1, <2>4, <2>5, Finite DEF Core, CoreTypes
  <2>7. SlotInv'
    BY <2>1, <2>2, <2>3, <2>5 DEF Core, CoreTypes, SlotInv
  <2>8. OneFiller'
    BY <2>1, <2>2 DEF Core, CoreTypes, SlotInv, OneFiller
  <2>9. PendingCounted'
    BY <2>1, <2>4, Finite DEF Core, CoreTypes, PendingCounted
  <2>10. (ConsumerInv /\ NoLostWakeup)'
    BY <2>1, <2>3 DEF Core, ConsumerInv, NoLostWakeup
  <2>. QED BY <2>6, <2>7, <2>8, <2>9, <2>10 DEF Core
<1>2. CASE EnqueuePublish(p)
  <2>1. /\ pc[p] = "marked" /\ p \in InFlight /\ mutex = "free"
        /\ pending' = pending + 1
        /\ cpc' = IF cpc = "waiting" THEN "woken" ELSE cpc
        /\ pc' = [pc EXCEPT ![p] = "idle"]
        /\ at' = [at EXCEPT ![p] = 0]
        /\ UNCHANGED <<refcount, contents, mutex, ci, held, delivered, shared, marked>>
    BY <1>2 DEF EnqueuePublish, InFlight
  <2>2. /\ Filling' = Filling /\ InFlight' = InFlight \ {p}
        /\ Claiming' = Claiming /\ Ready' = Ready
    BY <2>1 DEF Core, CoreTypes, Filling, InFlight, Claiming, Ready
  <2>3. Cardinality(InFlight') = Cardinality(InFlight) - 1
    BY <2>1, <2>2, Finite, FS_RemoveElement
  <2>4. CoreTypes'
    BY <2>1, <2>2 DEF Core, CoreTypes
  <2>5. \A q \in Filling : at'[q] = at[q]
    BY <2>1 DEF Core, CoreTypes, Filling
  <2>6. (SlotInv /\ OneFiller)'
    BY <2>1, <2>2, <2>5 DEF Core, SlotInv, OneFiller
  <2>7. PendingCounted'
    BY <2>1, <2>2, <2>3, Finite DEF Core, CoreTypes, PendingCounted
  <2>8. (ConsumerInv /\ NoLostWakeup)'
    BY <2>1, <2>2 DEF Core, CoreTypes, ConsumerInv, NoLostWakeup
  <2>. QED BY <2>4, <2>6, <2>7, <2>8 DEF Core
<1>. QED BY <1>1, <1>2

\* The consumer's steps preserve the invariant; the scan cannot be exhausted.
LEMMA ConsumeCore ==
  ASSUME Sound, Core, Consume \/ SpuriousWakeup
  PROVE  Core'
<1>. USE PoolAssumption DEF memory, consumerVars, producerVars
<1>1. CASE DequeueLock \/ SpuriousWakeup
  <2>1. UNCHANGED <<refcount, contents, pending, pc, at, marked, ci, held, delivered, shared>>
    BY <1>1 DEF DequeueLock, SpuriousWakeup
  <2>2. /\ Filling' = Filling /\ InFlight' = InFlight /\ Claiming' = Claiming
        /\ Ready' = Ready
    BY <2>1 DEF Filling, InFlight, Claiming, Ready
  <2>3. (cpc' = "test" /\ mutex' = "consumer" /\ held = {}) \/ (cpc' = "woken" /\ mutex' = "free" /\ held = {})
    BY <1>1 DEF DequeueLock, SpuriousWakeup, Core, CoreTypes, ConsumerInv
  <2>4. CoreTypes'
    BY <2>1, <2>2, <2>3 DEF Core, CoreTypes
  <2>5. (SlotInv /\ ConsumerInv /\ OneFiller /\ PendingCounted /\ NoLostWakeup)'
    BY <2>1, <2>2, <2>3 DEF Core, SlotInv, ConsumerInv, OneFiller, PendingCounted,
       NoLostWakeup
  <2>. QED BY <2>4, <2>5 DEF Core
<1>2. CASE DequeueTest
  <2>1. /\ cpc = "test" /\ held = {}
        /\ UNCHANGED <<refcount, contents, pending, pc, at, marked, held, delivered, shared>>
    BY <1>2 DEF DequeueTest, Core, ConsumerInv
  <2>2. /\ Filling' = Filling /\ InFlight' = InFlight /\ Claiming' = Claiming
        /\ Ready' = Ready
    BY <2>1 DEF Filling, InFlight, Claiming, Ready
  <2>3. CASE pending = 0 /\ cpc' = "waiting" /\ mutex' = "free" /\ UNCHANGED ci
    BY <2>1, <2>2, <2>3 DEF Core, CoreTypes, SlotInv, ConsumerInv, OneFiller,
       PendingCounted, NoLostWakeup
  <2>4. CASE pending # 0 /\ cpc' = "scan" /\ ci' = 0 /\ UNCHANGED mutex
    <3>1. pending > 0 /\ Cardinality(Ready) > 0
      BY <2>4, Finite DEF Core, CoreTypes, PendingCounted
    <3>2. ConsumerInv'
      BY <2>1, <2>2, <2>4, <3>1, NonEmpty DEF ConsumerInv
    <3>3. CoreTypes'
      BY <2>1, <2>2, <2>4 DEF Core, CoreTypes
    <3>4. (SlotInv /\ OneFiller /\ PendingCounted /\ NoLostWakeup)'
      BY <2>1, <2>2, <2>4 DEF Core, SlotInv, OneFiller, PendingCounted, NoLostWakeup
    <3>. QED BY <3>2, <3>3, <3>4 DEF Core
  <2>. QED BY <1>2, <2>3, <2>4 DEF DequeueTest
<1>3. CASE DequeueScan
  <2>1. /\ cpc = "scan" /\ ci \in Slots /\ held = {} /\ shared = {} /\ mutex = "consumer"
        /\ UNCHANGED <<refcount, contents, pc, at, marked, shared>>
    BY <1>3 DEF DequeueScan, Core, CoreTypes, ConsumerInv
  <2>2. Filling' = Filling /\ InFlight' = InFlight /\ Claiming' = Claiming
    BY <2>1 DEF Filling, InFlight, Claiming
  <2>3. CASE /\ refcount[ci] >= 2
             /\ pending' = pending - 1 /\ mutex' = "free"
             /\ held' = held \cup {ci}
             /\ delivered' = delivered \cup {contents[ci]}
             /\ cpc' = "idle" /\ UNCHANGED ci
    <3>1. /\ Ready' = Ready \ {ci} /\ ci \in Ready /\ refcount[ci] = 2
      BY <2>1, <2>3 DEF Core, CoreTypes, SlotInv, Ready
    <3>2. Cardinality(Ready') = Cardinality(Ready) - 1
      BY <3>1, Finite, FS_RemoveElement
    <3>3. pending > 0
      BY <2>1 DEF Core, ConsumerInv
    <3>4. contents[ci] \in 1 .. MaxFrames
      BY <3>1 DEF Core, SlotInv
    <3>5. CoreTypes'
      <4>1. pending' \in Nat /\ delivered' \subseteq 1 .. MaxFrames
        <5>1. pending \in Nat /\ delivered \subseteq 1 .. MaxFrames
          BY DEF Core, CoreTypes
        <5>2. pending' = pending - 1 /\ pending - 1 \in Nat
          BY <2>3, <3>3, <5>1
        <5>3. delivered' \subseteq 1 .. MaxFrames
          BY <2>3, <3>4, <5>1
        <5>. QED BY <5>2, <5>3
      <4>2. held' \subseteq Slots /\ shared' \subseteq held'
        BY <2>1, <2>3
      <4>. QED BY <2>1, <2>2, <2>3, <4>1, <4>2 DEF Core, CoreTypes
    <3>6. SlotInv'
      BY <2>1, <2>2, <2>3, <3>1 DEF Core, SlotInv
    <3>7. OneFiller'
      BY <2>1, <2>2, <2>3, <3>1 DEF Core, SlotInv, OneFiller
    <3>8. PendingCounted'
      BY <2>1, <2>2, <2>3, <3>2, Finite DEF Core, CoreTypes, PendingCounted
    <3>9. (ConsumerInv /\ NoLostWakeup)'
      BY <2>3 DEF ConsumerInv, NoLostWakeup
    <3>. QED BY <3>5, <3>6, <3>7, <3>8, <3>9 DEF Core
  <2>4. CASE /\ refcount[ci] < 2 /\ ci' = ci + 1
             /\ UNCHANGED <<pending, mutex, cpc, held, delivered>>
    <3>1. Ready' = Ready /\ ci \notin Ready
      BY <2>1, <2>4 DEF Core, CoreTypes, Ready
    <3>2. \E s \in Ready : ci + 1 <= s
      <4>1. PICK s \in Ready : ci <= s
        BY <2>1 DEF Core, ConsumerInv
      <4>2. s # ci /\ s \in Int /\ ci \in Int
        BY <2>1, <3>1, <4>1 DEF Ready, Slots
      <4>. QED BY <4>1, <4>2
    <3>3. CoreTypes'
      BY <2>1, <2>2, <2>4 DEF Core, CoreTypes, Slots
    <3>4. ConsumerInv'
      BY <2>1, <2>4, <3>1, <3>2 DEF Core, ConsumerInv
    <3>5. (SlotInv /\ OneFiller /\ PendingCounted /\ NoLostWakeup)'
      BY <2>1, <2>2, <2>4, <3>1 DEF Core, SlotInv, OneFiller, PendingCounted,
         NoLostWakeup
    <3>. QED BY <3>3, <3>4, <3>5 DEF Core
  <2>. QED BY <1>3, <2>3, <2>4 DEF DequeueScan
<1>4. CASE DequeueNull
  <2>1. cpc = "scan" /\ ci = N
    BY <1>4 DEF DequeueNull, ScanExhausted
  <2>2. PICK s \in Ready : ci <= s
    BY <2>1 DEF Core, ConsumerInv
  <2>. QED BY <2>1, <2>2 DEF Ready, Slots
<1>5. CASE Release
  <2>1. PICK s \in held : /\ s \notin shared
                          /\ held' = held \ {s}
                          /\ refcount' = [refcount EXCEPT ![s] = 0]
    BY <1>5 DEF Release, Sound
  <2>2. /\ cpc = "idle" /\ s \in Slots
        /\ UNCHANGED <<contents, pending, mutex, pc, at, marked, cpc, ci, delivered, shared>>
    BY <1>5 DEF Release, Core, CoreTypes
  <2>3. Filling' = Filling /\ InFlight' = InFlight /\ Claiming' = Claiming
    BY <2>2 DEF Filling, InFlight, Claiming
  <2>4. Ready' = Ready
    BY <2>1, <2>2 DEF Core, CoreTypes, Ready
  <2>5. \A q \in Filling : at[q] # s
    BY DEF Core, OneFiller
  <2>6. CoreTypes'
    BY <2>1, <2>2, <2>3 DEF Core, CoreTypes
  <2>7. (SlotInv /\ OneFiller)'
    BY <2>1, <2>2, <2>3, <2>4, <2>5 DEF Core, CoreTypes, SlotInv, OneFiller
  <2>8. (ConsumerInv /\ PendingCounted /\ NoLostWakeup)'
    BY <2>2, <2>3, <2>4 DEF Core, ConsumerInv, PendingCounted, NoLostWakeup
  <2>. QED BY <2>6, <2>7, <2>8 DEF Core
<1>. QED BY <1>1, <1>2, <1>3, <1>4, <1>5 DEF Consume

\* Taking and giving back a reference on the held frame preserves the invariant.
LEMMA ShareCore == ASSUME Sound, Core, Ref \/ Unref PROVE Core'
<1>. USE DEF memory, consumerVars, producerVars
<1>1. PICK s \in held : \/ /\ s \notin shared /\ shared' = shared \cup {s}
                           /\ refcount' = [refcount EXCEPT ![s] = @ + 1]
                        \/ /\ s \in shared /\ shared' = shared \ {s}
                           /\ refcount' = [refcount EXCEPT ![s] = @ - 1]
  BY DEF Ref, Unref, Core, CoreTypes
<1>2. /\ UNCHANGED <<contents, pending, mutex, pc, at, marked, cpc, ci, held, delivered>>
      /\ s \in Slots
  BY <1>1 DEF Ref, Unref, Core, CoreTypes
<1>3. /\ refcount[s] = IF s \in shared THEN 3 ELSE 2
      /\ refcount' = [refcount EXCEPT ![s] = IF s \in shared' THEN 3 ELSE 2]
  BY <1>1, <1>2 DEF Core, CoreTypes, SlotInv
<1>4. /\ Filling' = Filling /\ InFlight' = InFlight /\ Claiming' = Claiming
      /\ Ready' = Ready
  BY <1>2, <1>3 DEF Core, CoreTypes, Filling, InFlight, Claiming, Ready
<1>5. CoreTypes'
  BY <1>1, <1>2, <1>3, <1>4 DEF Core, CoreTypes
<1>6. \A q \in Filling : at[q] # s
  BY DEF Core, OneFiller
<1>7. (SlotInv /\ OneFiller)'
  BY <1>1, <1>2, <1>3, <1>4, <1>6 DEF Core, CoreTypes, SlotInv, OneFiller
<1>8. (ConsumerInv /\ PendingCounted /\ NoLostWakeup)'
  BY <1>2, <1>4 DEF Core, ConsumerInv, PendingCounted, NoLostWakeup
<1>. QED BY <1>5, <1>7, <1>8 DEF Core

\* Every step of every thread preserves the invariant.
LEMMA CoreStep == ASSUME Sound, Core, [Next]_vars PROVE Core'
<1>1. CASE \E p \in Producers : Produce(p)
  BY <1>1, AcquireCore, EnqueueCore DEF Produce
<1>2. CASE Consume \/ SpuriousWakeup
  BY <1>2, ConsumeCore
<1>3. CASE Ref \/ Unref
  BY <1>3, ShareCore
<1>4. CASE UNCHANGED vars
  BY <1>4 DEF vars, Core, CoreTypes, SlotInv, ConsumerInv, OneFiller, PendingCounted,
     NoLostWakeup, Filling, InFlight, Claiming, Ready
<1>. QED BY <1>1, <1>2, <1>3, <1>4 DEF Next

\* What the invariant says of the properties that are checked.
LEMMA CoreImplies == ASSUME Sound, Core PROVE Types /\ NeverNull
<1>1. pending \in 0 .. N
  <2>1. /\ pending \in Nat /\ Cardinality(InFlight) \in Nat
        /\ Cardinality(Ready) \in 0 .. N
        /\ pending + Cardinality(InFlight) = Cardinality(Ready)
    BY Finite DEF Core, CoreTypes, PendingCounted
  <2>. QED BY <2>1, PoolAssumption
<1>2. marked \in 0 .. MaxFrames
  BY Finite, PoolAssumption DEF Core, CoreTypes
<1>3. Types
  BY <1>1, <1>2 DEF Core, CoreTypes, Types
<1>4. NeverNull
  <2>1. ASSUME cpc = "scan", ci = N PROVE FALSE
    <3>1. PICK s \in Ready : ci <= s
      BY <2>1 DEF Core, ConsumerInv
    <3>. QED BY <2>1, <3>1, PoolAssumption DEF Ready, Slots
  <2>. QED BY <2>1 DEF NeverNull, ScanExhausted
<1>. QED BY <1>3, <1>4

-----------------------------------------------------------------------------
\* No step changes how the users of the pool treat shared frames.
LEMMA DisciplineFixed == [Next]_vars => discipline' = discipline
BY DEF Next, Produce, Consume, vars, producerVars, AcquireStart, AcquireTry, AcquireFull,
   EnqueueMark, EnqueuePublish, DequeueLock, DequeueTest, DequeueScan, DequeueNull,
   Release, SpuriousWakeup, Ref, Unref

\* Every step preserves the whole invariant: the discipline is fixed, and the
\* signal under the mutex cannot fall between the consumer's test and its wait.
LEMMA NextIInv == ASSUME IInv, [Next]_vars PROVE IInv'
<1>1. discipline' = discipline
  BY DisciplineFixed
<1>2. NoLostWakeup'
  BY DEF IInv, NoLostWakeup, Next, Produce, Consume, vars, consumerVars, AcquireStart,
     AcquireTry, AcquireFull, EnqueueMark, EnqueuePublish, DequeueLock, DequeueTest,
     DequeueScan, DequeueNull, Release, SpuriousWakeup, Ref, Unref
<1>3. Sound => Core'
  BY CoreStep DEF IInv
<1>4. Sound' => Sound
  BY <1>1 DEF Sound
<1>. QED BY <1>1, <1>2, <1>3, <1>4 DEF IInv

\* The invariant holds in every reachable state of the mutex pool.
THEOREM PoolInvariant == Spec => []IInv
<1>1. Init => IInv
  BY InitCore DEF IInv, Init, NoLostWakeup
<1>2. IInv /\ [Next]_vars => IInv'
  BY NextIInv
<1>. QED BY <1>1, <1>2, PTL DEF Spec

\* The pool's state is well typed; mp_pending stays between 0 and the pool size.
THEOREM TypeCorrect == Spec => []TypeOK
<1>1. IInv => TypeOK
  BY CoreImplies DEF IInv, TypeOK
<1>. QED BY <1>1, PoolInvariant, PTL

\* bb_pool_mp_acquire never gives one slot to two producers, nor a slot that is
\* ready, in the consumer's hands or shared.
THEOREM ExclusiveFilling == Spec => []OneFiller
<1>1. IInv => OneFiller
  BY DEF IInv, Core, OneFiller
<1>. QED BY <1>1, PoolInvariant, PTL

\* mp_pending is exact up to the producers between increment and critical
\* section, for any number of producers, and bb_pool_mp_dequeue never returns
\* NULL.
THEOREM PendingExact == Spec => []PendingAccounting
<1>1. IInv => PendingCounted
  BY DEF IInv, Core, PendingCounted
<1>2. IInv => NeverNull
  BY CoreImplies DEF IInv, NeverNull
<1>3. IInv => PendingAccounting
  BY <1>1, <1>2 DEF PendingAccounting
<1>. QED BY <1>3, PoolInvariant, PTL

\* The consumer does not sleep in pthread_cond_wait while frames are pending,
\* under every discipline of sharing.
THEOREM WakeupNotLost == Spec => []NoLostWakeup
<1>1. IInv => NoLostWakeup
  BY DEF IInv
<1>. QED BY <1>1, PoolInvariant, PTL
-----------------------------------------------------------------------------
(* Refinement: the pool is the bounded bag FrameBag.                       *)
(*                                                                         *)
(* The proof needs to know that no two ready slots hold the same frame and *)
(* that no ready frame was delivered before: frames are numbered in the    *)
(* order of marking, so a new frame differs from all of them.              *)

ReadyFrames == {contents[s] : s \in Ready}

Bagged ==
  /\ \A s \in Ready : contents[s] \in 1 .. marked /\ contents[s] \notin delivered
  /\ \A s, t \in Ready : contents[s] = contents[t] => s = t
  /\ delivered \subseteq 1 .. marked

BagInv == IInv /\ (Sound => Bagged)

\* What a step of the pool does to the ready slots: nothing, ...
ReadyKept == Ready' = Ready /\ UNCHANGED <<contents, marked, delivered>>

\* ... bb_pool_mp_enqueue publishes one more frame in a slot that was not ready, ...
ReadyGained ==
  \E s \in Slots \ Ready : /\ Ready' = Ready \cup {s}
                           /\ contents' = [contents EXCEPT ![s] = marked + 1]
                           /\ marked' = marked + 1 /\ marked + 1 \in 1 .. MaxFrames
                           /\ delivered' = delivered

\* ... or bb_pool_mp_dequeue takes the frame of one of them.
ReadyTaken ==
  \E s \in Ready : /\ Ready' = Ready \ {s}
                   /\ UNCHANGED <<contents, marked>>
                   /\ delivered' = delivered \cup {contents[s]}

\* A producer's step leaves the ready slots alone or adds one.
LEMMA ProducerReady ==
  ASSUME Sound, Core, NEW p \in Producers, Produce(p)
  PROVE  ReadyKept \/ ReadyGained
<1>. USE PoolAssumption DEF memory, consumerVars
<1>1. CASE AcquireStart(p) \/ AcquireFull(p) \/ EnqueuePublish(p)
  BY <1>1 DEF AcquireStart, AcquireFull, EnqueuePublish, Ready, ReadyKept
<1>2. CASE AcquireTry(p)
  <2>. DEFINE s == at[p]
  <2>1. /\ s \in Slots /\ UNCHANGED <<contents, marked, delivered, held>>
        /\ \/ refcount[s] = 0 /\ refcount' = [refcount EXCEPT ![s] = 1]
           \/ UNCHANGED refcount
    BY <1>2 DEF AcquireTry
  <2>2. Ready' = Ready
    BY <2>1 DEF Core, CoreTypes, Ready
  <2>. QED BY <2>1, <2>2 DEF ReadyKept
<1>3. CASE EnqueueMark(p)
  <2>. DEFINE s == at[p]
  <2>1. p \in Filling /\ p \in Claiming
    BY <1>3 DEF EnqueueMark, Filling, Claiming
  <2>2. s \in Slots /\ s \notin held /\ refcount[s] = 1
    BY <2>1 DEF Core, SlotInv, OneFiller
  <2>3. /\ refcount' = [refcount EXCEPT ![s] = refcount[s] + 1]
        /\ contents' = [contents EXCEPT ![s] = marked + 1]
        /\ marked' = marked + 1
        /\ UNCHANGED <<held, delivered>>
    BY <1>3 DEF EnqueueMark
  <2>4. Ready' = Ready \cup {s} /\ s \notin Ready
    BY <2>2, <2>3 DEF Core, CoreTypes, Ready
  <2>5. marked + 1 \in 1 .. MaxFrames
    <3>1. Cardinality(Claiming) # 0
      BY <2>1, Finite, FS_EmptySet
    <3>. QED BY <3>1, Finite DEF Core, CoreTypes
  <2>. QED BY <2>2, <2>3, <2>4, <2>5 DEF ReadyGained
<1>. QED BY <1>1, <1>2, <1>3 DEF Produce

\* A step of the consumer or of a sharer leaves them alone or takes one.
LEMMA ConsumerReady ==
  ASSUME Sound, Core, Consume \/ SpuriousWakeup \/ Ref \/ Unref
  PROVE  ReadyKept \/ ReadyTaken
<1>. USE DEF memory, consumerVars, producerVars
<1>1. CASE DequeueLock \/ DequeueTest \/ DequeueNull \/ SpuriousWakeup
  BY <1>1 DEF DequeueLock, DequeueTest, DequeueNull, SpuriousWakeup, Ready, ReadyKept
<1>2. CASE DequeueScan
  <2>1. ci \in Slots /\ held = {} /\ UNCHANGED <<refcount, contents, marked>>
    BY <1>2 DEF DequeueScan, Core, ConsumerInv
  <2>2. CASE /\ refcount[ci] >= 2 /\ held' = held \cup {ci}
             /\ delivered' = delivered \cup {contents[ci]}
    <3>1. Ready' = Ready \ {ci} /\ ci \in Ready
      BY <2>1, <2>2 DEF Core, CoreTypes, Ready
    <3>. QED BY <2>1, <2>2, <3>1 DEF ReadyTaken
  <2>3. CASE UNCHANGED <<held, delivered>>
    BY <2>1, <2>3 DEF Ready, ReadyKept
  <2>. QED BY <1>2, <2>2, <2>3 DEF DequeueScan
<1>3. CASE Release
  <2>1. PICK s \in held : held' = held \ {s} /\ refcount' = [refcount EXCEPT ![s] = 0]
    BY <1>3 DEF Release
  <2>2. UNCHANGED <<contents, marked, delivered>>
    BY <1>3 DEF Release
  <2>3. Ready' = Ready
    BY <2>1 DEF Core, CoreTypes, Ready
  <2>. QED BY <2>2, <2>3 DEF ReadyKept
<1>4. CASE Ref \/ Unref
  <2>1. PICK s \in held : \E r \in Int : refcount' = [refcount EXCEPT ![s] = r]
    <3>1. PICK s \in held : \/ refcount' = [refcount EXCEPT ![s] = @ + 1]
                            \/ refcount' = [refcount EXCEPT ![s] = @ - 1]
      BY <1>4 DEF Ref, Unref, Core, CoreTypes
    <3>2. refcount[s] + 1 \in Int /\ refcount[s] - 1 \in Int
      BY <3>1 DEF Core, CoreTypes
    <3>. QED BY <3>1, <3>2
  <2>2. UNCHANGED <<contents, marked, delivered, held>>
    BY <1>4 DEF Ref, Unref
  <2>3. Ready' = Ready
    BY <2>1, <2>2 DEF Core, CoreTypes, Ready
  <2>. QED BY <2>2, <2>3 DEF ReadyKept
<1>. QED BY <1>1, <1>2, <1>3, <1>4 DEF Consume

LEMMA ReadyStep ==
  ASSUME Sound, Core, [Next]_vars
  PROVE  ReadyKept \/ ReadyGained \/ ReadyTaken
<1>1. CASE UNCHANGED vars
  BY <1>1 DEF vars, ReadyKept, Ready
<1>. QED BY <1>1, ProducerReady, ConsumerReady DEF Next

\* Frames stay distinct and undelivered until they are taken.
LEMMA BaggedStep ==
  ASSUME Sound, Core, Bagged, [Next]_vars
  PROVE  Bagged'
<1>. USE DEF Bagged
<1>1. marked \in Nat /\ contents \in [Slots -> 0 .. MaxFrames] /\ Ready \subseteq Slots
  BY DEF Core, CoreTypes, Ready
<1>2. CASE ReadyKept
  BY <1>2 DEF ReadyKept
<1>3. CASE ReadyGained
  <2>1. PICK s \in Slots \ Ready :
          /\ Ready' = Ready \cup {s}
          /\ contents' = [contents EXCEPT ![s] = marked + 1]
          /\ marked' = marked + 1
          /\ delivered' = delivered
    BY <1>3 DEF ReadyGained
  <2>2. contents'[s] = marked + 1 /\ \A t \in Ready : contents'[t] = contents[t]
    BY <1>1, <2>1
  <2>3. 1 .. marked \subseteq 1 .. marked + 1 /\ marked + 1 \notin 1 .. marked
        /\ marked + 1 \in 1 .. marked + 1
    BY <1>1
  <2>4. \A t \in Ready' : contents'[t] \in 1 .. marked' /\ contents'[t] \notin delivered'
    BY <2>1, <2>2, <2>3
  <2>5. \A t, u \in Ready' : contents'[t] = contents'[u] => t = u
    BY <2>1, <2>2, <2>3
  <2>. QED BY <2>1, <2>3, <2>4, <2>5
<1>4. CASE ReadyTaken
  BY <1>4 DEF ReadyTaken
<1>. QED BY <1>2, <1>3, <1>4, ReadyStep

\* The frames that wait are no more than the ready slots.
LEMMA WaitingCounted ==
  IsFiniteSet(ReadyFrames) /\ Cardinality(ReadyFrames) <= Cardinality(Ready)
<1>. DEFINE g == [s \in Ready |-> contents[s]]
<1>1. g \in Surjection(Ready, ReadyFrames)
  <2>1. g \in [Ready -> ReadyFrames]
    BY DEF ReadyFrames
  <2>2. \A f \in ReadyFrames : \E s \in Ready : g[s] = f
    BY DEF ReadyFrames
  <2>. QED BY <2>1, <2>2, Zenon DEF Surjection
<1>. QED BY <1>1, Finite, FS_Surjection

\* A slot that is not ready leaves room for one more frame.
LEMMA RoomForOneMore ==
  ASSUME NEW s \in Slots \ Ready
  PROVE  Cardinality(ReadyFrames) < N
<1>1. Ready \in SUBSET (Slots \ {s})
  BY DEF Ready
<1>2. IsFiniteSet(Slots \ {s}) /\ Cardinality(Slots \ {s}) = N - 1
  BY Finite, FS_RemoveElement
<1>3. Cardinality(Ready) <= N - 1
  BY <1>1, <1>2, FS_Subset
<1>4. Cardinality(ReadyFrames) \in Nat /\ Cardinality(Ready) \in Nat
  BY WaitingCounted, Finite, FS_CardinalityType
<1>. QED BY <1>3, <1>4, WaitingCounted, PoolAssumption

\* Every step of a sound pool is a step of the bag, or changes nothing in it.
LEMMA StepSimulation ==
  ASSUME Sound, Core, Bagged, [Next]_vars
  PROVE  [Abstract!Next]_(Abstract!vars)
<1>. USE DEF ReadyFrames
<1>1. marked \in Nat /\ contents \in [Slots -> 0 .. MaxFrames] /\ Ready \subseteq Slots
  BY DEF Core, CoreTypes, Ready
<1>2. CASE ReadyKept
  <2>1. ReadyFrames' = ReadyFrames /\ delivered' = delivered
    BY <1>2 DEF ReadyKept
  <2>. QED BY <2>1 DEF Abstract!vars
<1>3. CASE ReadyGained
  <2>1. PICK s \in Slots \ Ready :
          /\ Ready' = Ready \cup {s}
          /\ contents' = [contents EXCEPT ![s] = marked + 1]
          /\ marked + 1 \in 1 .. MaxFrames
          /\ delivered' = delivered
    BY <1>3 DEF ReadyGained
  <2>2. contents'[s] = marked + 1 /\ \A t \in Ready : contents'[t] = contents[t]
    BY <1>1, <2>1
  <2>3. ReadyFrames' = ReadyFrames \cup {marked + 1}
    BY <2>1, <2>2
  <2>4. marked + 1 \notin ReadyFrames \cup delivered
    BY <1>1 DEF Bagged
  <2>5. Abstract!Cardinality(ReadyFrames) < N
    <3>1. Abstract!Cardinality(ReadyFrames) = Cardinality(ReadyFrames)
      BY DEF Abstract!Cardinality, Cardinality
    <3>. QED BY <3>1, RoomForOneMore
  <2>6. \E f \in 1 .. MaxFrames \ (ReadyFrames \cup delivered) :
          ReadyFrames' = ReadyFrames \cup {f}
    BY <2>1, <2>3, <2>4
  <2>7. Abstract!Put
    BY <2>1, <2>5, <2>6, Zenon DEF Abstract!Put
  <2>. QED BY <2>7 DEF Abstract!Next
<1>4. CASE ReadyTaken
  <2>1. PICK s \in Ready : /\ Ready' = Ready \ {s}
                           /\ contents' = contents
                           /\ delivered' = delivered \cup {contents[s]}
    BY <1>4 DEF ReadyTaken
  <2>2. ReadyFrames' = ReadyFrames \ {contents[s]} /\ contents[s] \in ReadyFrames
    BY <2>1 DEF Bagged
  <2>. QED BY <2>1, <2>2 DEF Abstract!Next, Abstract!Get
<1>. QED BY <1>2, <1>3, <1>4, ReadyStep

\* The frames of the ready slots are distinct, and none was delivered before, in
\* every reachable state of a sound pool.
THEOREM ReadyFramesFresh == Spec => []BagInv
<1>1. Init => BagInv
  <2>1. ASSUME Init PROVE Bagged
    BY <2>1 DEF Init, Bagged, Ready
  <2>. QED BY <2>1, InitCore DEF BagInv, IInv, Init, NoLostWakeup
<1>2. BagInv /\ [Next]_vars => BagInv'
  <2>. SUFFICES ASSUME BagInv, [Next]_vars PROVE BagInv'
    OBVIOUS
  <2>1. IInv'
    BY NextIInv DEF BagInv
  <2>2. Sound' => Sound
    BY DisciplineFixed DEF Sound
  <2>3. Sound' => Bagged'
    BY <2>2, BaggedStep DEF BagInv, IInv
  <2>. QED BY <2>1, <2>3 DEF BagInv
<1>. QED BY <1>1, <1>2, PTL DEF Spec

\* bb_pool_mp_enqueue and bb_pool_mp_dequeue implement the bag: with any number
\* of producers, a frame that is published is delivered at most once, no frame
\* is invented, and at most N wait, as long as nobody releases a shared frame.
THEOREM PoolIsFrameBag == Spec => ImplementsFrameBag
<1>1. Init => (Sound => Abstract!Init)
  BY DEF Init, Ready, Abstract!Init
<1>2. BagInv /\ [Next]_vars => [Sound => Abstract!Next]_(Abstract!vars)
  BY StepSimulation DEF BagInv, IInv
<1>. QED BY <1>1, <1>2, ReadyFramesFresh, PTL DEF Spec, ImplementsFrameBag
=============================================================================
