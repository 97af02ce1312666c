-------------------------- MODULE AudioStreamProofs --------------------------
(***************************************************************************)
(* Proofs about the audio stream, for pools of any size, any number of     *)
(* starts and any devices.                                                 *)
(*                                                                         *)
(* The inductive invariant joins three parts.  Holding says, for each      *)
(* place the control thread may be at, what is open and which threads are  *)
(* gone.  Accounted is SlotsAccounted slot by slot; it needs Holding, for  *)
(* a thread is created when its predecessor is gone, which holds no slot.  *)
(* The types need that a thread at its limit of xruns is gone.             *)
(***************************************************************************)
EXTENDS AudioStream, FiniteSetTheorems, SequenceTheorems, TLAPS

-----------------------------------------------------------------------------
\* The scans of the locked pool: a set of slots that is not empty has a first.
LEMMA FirstSlot ==
  ASSUME NEW S \in SUBSET Slots, S # {}
  PROVE  First(S) \in S
<1>. DEFINE Upto == {0 .. x : x \in S}
<1>1. Slots \subseteq Nat
  BY StreamAssumption DEF Slots
<1>2. Upto \subseteq FiniteSubsetsOf(Nat) /\ Upto # {}
  <2>1. ASSUME NEW x \in S PROVE 0 .. x \in FiniteSubsetsOf(Nat)
    BY <1>1, FS_Interval DEF FiniteSubsetsOf
  <2>. QED
    BY <2>1
<1>3. PICK U \in Upto : \A V \in Upto : <<V, U>> \notin StrictSubsetOrdering(Nat)
  <2>. HIDE DEF Upto
  <2>. QED
    BY <1>2, FS_StrictSubsetOrderingWellFounded, WFMin
<1>4. PICK x \in S : U = 0 .. x
  OBVIOUS
<1>5. ASSUME NEW y \in S PROVE x <= y
  <2>1. SUFFICES ASSUME y < x PROVE FALSE
    BY <1>1
  <2>2. 0 .. y \subseteq 0 .. x /\ 0 .. y # 0 .. x
    BY <1>1, <2>1
  <2>3. 0 .. y \in SUBSET Nat /\ 0 .. x \in SUBSET Nat
    BY <1>1
  <2>4. <<0 .. y, 0 .. x>> \in StrictSubsetOrdering(Nat)
    BY <2>2, <2>3, Zenon DEF StrictSubsetOrdering
  <2>. QED
    BY <1>3, <1>4, <2>4
<1>. QED
  BY <1>5 DEF First

\* The values of the counters of xruns.
Counts == 0 .. XrunLimit + 1

LEMMA CountFacts ==
  /\ 0 \in Counts /\ Counts \subseteq Int /\ 0 <= XrunLimit
  /\ \A n \in Counts : n <= XrunLimit => n + 1 \in Counts
BY StreamAssumption DEF Counts

LEMMA SessionFacts ==
  /\ 0 \in 0 .. MaxStarts
  /\ \A n \in 0 .. MaxStarts : n < MaxStarts => n + 1 \in 0 .. MaxStarts
BY StreamAssumption

LEMMA SlotFacts == NoSlot \notin Slots
<1>1. Slots \subseteq Nat
  BY StreamAssumption DEF Slots
<1>. QED
  BY <1>1 DEF NoSlot

LEMMA FrameFacts ==
  /\ NoFrame \in Frames
  /\ \A f \in Frames : f.size \in {"data", "empty"}
  /\ \A f \in Frames, size \in {"data", "empty"} : [f EXCEPT !.size = size] \in Frames
  /\ \A n \in 0 .. MaxStarts, size \in {"data", "empty"} :
       [session |-> n, size |-> size] \in Frames
BY SessionFacts DEF Frames, NoFrame

-----------------------------------------------------------------------------
(* The inductive invariant *)

Everything == Devices \cup Pools \cup CodecOf

Holding ==
  /\ opened = IF ctl \in {"new", "failed", "destroyed"} THEN {} ELSE Everything
  /\ ctl \in {"new", "failed", "stopped", "destroyed", "spawn playback", "spawn codec",
              "spawn capture", "join codec", "join playback"} => Gone(cap)
  /\ ctl \in {"new", "failed", "stopped", "destroyed", "spawn playback", "spawn codec",
              "join playback"} => Gone(cdc)
  /\ ctl \in {"new", "failed", "stopped", "destroyed", "spawn playback"} => Gone(pb)
  /\ "capture" \notin spawned => Gone(cap)
  /\ "codec" \notin spawned => Gone(cdc)
  /\ "playback" \notin spawned => Gone(pb)

\* A thread gives up as soon as its count of xruns exceeds the limit.
XrunsBelowLimit == /\ ~Gone(cap) => capXruns <= XrunLimit
                   /\ ~Gone(pb) => pbXruns <= XrunLimit

\* The parts of TypeOK.
ControlTypes ==
  /\ hasCodec \in Codecs /\ running \in BOOLEAN /\ error \in BOOLEAN
  /\ opened \subseteq Devices \cup Pools \cup {"codec"} /\ dropped \in BOOLEAN
  /\ cap_dev.period_frames = pb_dev.period_frames
  /\ ctl \in {"new", "failed", "stopped", "spawn playback", "spawn codec", "spawn capture",
              "started", "join capture", "join codec", "join playback", "destroyed", "crashed"}
  /\ session \in 0 .. MaxStarts /\ spawned \subseteq Threads

ThreadTypes ==
  /\ cap \in {"none", "loop", "read", "discard", "exited"}
  /\ cdc \in {"none", "loop", "acquire", "encode", "drain", "sentinel", "exited"}
  /\ pb \in {"none", "loop", "dequeue", "write", "exited"}
  /\ capXruns \in Counts /\ pbXruns \in Counts

QueueTypes == /\ spq \in Seq(Frames) /\ SpUsed <= N
              /\ cdcFrame \in Frames

PoolTypes ==
  /\ mpState \in [Slots -> {"free", "claimed", "ready", "playing"}]
  /\ mpFrame \in [Slots -> Frames]
  /\ {cdcSlot, pbSlot} \subseteq Slots \cup {NoSlot}

Accounted ==
  /\ \A s \in Slots : mpState[s] = "claimed" <=> s = cdcSlot
  /\ \A s \in Slots : mpState[s] = "playing" <=> s = pbSlot
  /\ cdc = "encode" <=> cdcSlot # NoSlot
  /\ pb = "write" <=> pbSlot # NoSlot

IInv == /\ ControlTypes /\ ThreadTypes /\ QueueTypes /\ PoolTypes
        /\ XrunsBelowLimit /\ Holding /\ Accounted

LEMMA InitIInv == Init => IInv
<1>. SUFFICES ASSUME Init PROVE IInv
  OBVIOUS
<1>. USE DEF Init
<1>1. ControlTypes /\ ThreadTypes
  BY CountFacts, SessionFacts DEF ControlTypes, ThreadTypes
<1>2. QueueTypes
  BY StreamAssumption, FrameFacts DEF QueueTypes, SpUsed
<1>3. PoolTypes /\ Accounted
  BY FrameFacts, SlotFacts DEF PoolTypes, Accounted
<1>4. XrunsBelowLimit /\ Holding
  BY DEF XrunsBelowLimit, Holding, Gone
<1>. QED
  BY <1>1, <1>2, <1>3, <1>4 DEF IInv

-----------------------------------------------------------------------------
(* What a step leaves alone *)

\* The slots of the lock-free pool in use beside the queued ones.
Held(reader, coder) == (IF reader = "read" THEN 1 ELSE 0)
                         + (IF coder \in {"acquire", "encode"} THEN 1 ELSE 0)

LEMMA HeldSum ==
  ASSUME NEW n \in Nat, NEW reader, NEW coder
  PROVE  n + (IF reader = "read" THEN 1 ELSE 0)
           + (IF coder \in {"acquire", "encode"} THEN 1 ELSE 0) = n + Held(reader, coder)
BY DEF Held

LEMMA HeldSlots ==
  /\ \A reader, coder : Held(reader, coder) \in 0 .. 2
  /\ spq \in Seq(Frames) => Len(spq) \in Nat /\ SpUsed = Len(spq) + Held(cap, cdc)
<1>1. \A reader, coder : Held(reader, coder) \in 0 .. 2
  BY DEF Held
<1>2. ASSUME spq \in Seq(Frames)
      PROVE  Len(spq) \in Nat /\ SpUsed = Len(spq) + Held(cap, cdc)
  <2>1. Len(spq) \in Nat
    BY <1>2, LenProperties
  <2>. QED
    BY <2>1, HeldSum DEF SpUsed
<1>. QED
  BY <1>1, <1>2

LEMMA QueueFits ==
  ASSUME spq' \in Seq(Frames), cdcFrame' \in Frames, Len(spq') + Held(cap', cdc') <= N
  PROVE  QueueTypes'
<1>1. Len(spq') \in Nat
  BY LenProperties
<1>2. SpUsed' = Len(spq') + Held(cap', cdc')
  BY <1>1, HeldSum DEF SpUsed
<1>. QED
  BY <1>2 DEF QueueTypes

LEMMA QueueKept ==
  ASSUME QueueTypes, spq' \in Seq(Frames), cdcFrame' \in Frames,
         Len(spq') + Held(cap', cdc') <= Len(spq) + Held(cap, cdc)
  PROVE  QueueTypes'
<1>1. Len(spq) \in Nat /\ Len(spq) + Held(cap, cdc) <= N
  BY HeldSlots DEF QueueTypes
<1>2. Len(spq') \in Nat
  BY LenProperties
<1>. QED
  BY <1>1, <1>2, HeldSlots, QueueFits, StreamAssumption

LEMMA QueueSame ==
  ASSUME QueueTypes, UNCHANGED spq, cdcFrame' \in Frames, cap' = "read" => cap = "read",
         cdc' \in {"acquire", "encode"} => cdc \in {"acquire", "encode"}
  PROVE  QueueTypes'
<1>1. Held(cap', cdc') <= Held(cap, cdc)
  BY DEF Held
<1>2. Len(spq) \in Nat
  BY LenProperties DEF QueueTypes
<1>. QED
  BY <1>1, <1>2, HeldSlots, QueueKept DEF QueueTypes

LEMMA PoolKept ==
  ASSUME PoolTypes, Accounted, UNCHANGED <<mpState, mpFrame, cdcSlot, pbSlot>>,
         cdc' = "encode" <=> cdc = "encode", pb' = "write" <=> pb = "write"
  PROVE  PoolTypes' /\ Accounted'
BY DEF PoolTypes, Accounted

\* No thread but the control thread touches its variables.
LEMMA ControlKept ==
  ASSUME ControlTypes, UNCHANGED <<control, running>>, error' \in {error, TRUE}
  PROVE  ControlTypes'
BY DEF ControlTypes, control, devVars, Threads, Devices, Pools

-----------------------------------------------------------------------------
(* One lemma per thread, one case per action *)

\* The outcomes of bb_audio_stream_init.
LEMMA InitOutcome ==
  ASSUME InitStream
  PROVE  /\ ctl = "new"
         /\ \/ ctl' = "failed" /\ opened' = {} /\ UNCHANGED <<cap_dev, pb_dev>>
            \/ /\ ctl' = "stopped" /\ opened' = Everything
               /\ cap_dev'.period_frames = pb_dev'.period_frames
         /\ UNCHANGED <<hasCodec, running, error, session, spawned, dropped,
                        capVars, cdcVars, pbVars, spq, mpVars>>
<1>1. \A c, p : \A step \in Failures(c, p) : OpenedBefore(step) \ ClosedBy(step) = {}
  BY DEF Failures, OpenedBefore, ClosedBy, Pools, CodecOf
<1>2. PICK c, p : \/ \E step \in Failures(c, p) :
                       /\ opened' = OpenedBefore(step) \ ClosedBy(step)
                       /\ ctl' = "failed" /\ UNCHANGED <<cap_dev, pb_dev>>
                  \/ /\ c.period_frames = p.period_frames
                     /\ cap_dev' = c /\ pb_dev' = p
                     /\ opened' = Devices \cup Pools \cup CodecOf
                     /\ ctl' = "stopped"
  BY DEF InitStream
<1>. QED
  BY <1>1, <1>2 DEF InitStream, Everything

\* bb_audio_stream_init, start, stop and destroy.
LEMMA ControlStep == ASSUME IInv, InitStream \/ Start \/ Spawning \/ Stop \/ Joining \/ Destroy PROVE IInv'
<1>. USE DEF control, capVars, cdcVars, pbVars, mpVars, devVars
<1>1. CASE InitStream
  <2>. USE <1>1, InitOutcome
  <2>1. ControlTypes' /\ ThreadTypes'
    <3>1. Everything \subseteq Devices \cup Pools \cup {"codec"}
      BY DEF Everything, CodecOf
    <3>2. ControlTypes'
      BY <3>1 DEF IInv, ControlTypes
    <3>3. ThreadTypes'
      BY DEF IInv, ThreadTypes
    <3>. QED
      BY <3>2, <3>3
  <2>2. QueueTypes'
    BY FrameFacts, QueueSame DEF IInv, QueueTypes
  <2>3. PoolTypes' /\ Accounted'
    BY PoolKept DEF IInv
  <2>4. XrunsBelowLimit' /\ Holding'
    <3>1. Everything' = Everything
      BY DEF Everything, CodecOf
    <3>. QED
      BY <3>1 DEF IInv, ControlTypes, XrunsBelowLimit, Holding, Gone
  <2>. QED
    BY <2>1, <2>2, <2>3, <2>4 DEF IInv
<1>2. CASE Start
  <2>. USE <1>2 DEF Start
  <2>1. ControlTypes' /\ ThreadTypes'
    <3>1. ControlTypes'
      BY SessionFacts DEF IInv, ControlTypes, Threads
    <3>2. ThreadTypes'
      BY CountFacts DEF IInv, ThreadTypes
    <3>. QED
      BY <3>1, <3>2
  <2>2. QueueTypes'
    BY FrameFacts, QueueSame DEF IInv, QueueTypes
  <2>3. PoolTypes' /\ Accounted'
    BY PoolKept DEF IInv
  <2>4. XrunsBelowLimit' /\ Holding'
    BY CountFacts DEF IInv, ControlTypes, ThreadTypes, XrunsBelowLimit, Holding, Gone, Everything, CodecOf
  <2>. QED
    BY <2>1, <2>2, <2>3, <2>4 DEF IInv
<1>3. CASE SpawnPlayback
  <2>. USE <1>3 DEF SpawnPlayback, SpawnOutcome
  <2>1. ControlTypes' /\ ThreadTypes'
    <3>1. ControlTypes'
      BY SessionFacts DEF IInv, ControlTypes, Threads
    <3>2. ThreadTypes'
      BY CountFacts DEF IInv, ThreadTypes
    <3>. QED
      BY <3>1, <3>2
  <2>2. QueueTypes'
    BY FrameFacts, QueueSame DEF IInv, QueueTypes, Holding, Gone
  <2>3. PoolTypes' /\ Accounted'
    BY PoolKept DEF IInv, Holding, Gone
  <2>4. XrunsBelowLimit' /\ Holding'
    BY CountFacts DEF IInv, ControlTypes, ThreadTypes, XrunsBelowLimit, Holding, Gone, Everything, CodecOf
  <2>. QED
    BY <2>1, <2>2, <2>3, <2>4 DEF IInv
<1>4. CASE SpawnCodec
  <2>. USE <1>4 DEF SpawnCodec, SpawnOutcome
  <2>1. ControlTypes' /\ ThreadTypes'
    <3>1. ControlTypes'
      BY SessionFacts DEF IInv, ControlTypes, Threads
    <3>2. ThreadTypes'
      BY CountFacts DEF IInv, ThreadTypes
    <3>. QED
      BY <3>1, <3>2
  <2>2. QueueTypes'
    BY FrameFacts, QueueSame DEF IInv, QueueTypes, Holding, Gone
  <2>3. PoolTypes' /\ Accounted'
    BY PoolKept DEF IInv, Holding, Gone
  <2>4. XrunsBelowLimit' /\ Holding'
    BY CountFacts DEF IInv, ControlTypes, ThreadTypes, XrunsBelowLimit, Holding, Gone, Everything, CodecOf
  <2>. QED
    BY <2>1, <2>2, <2>3, <2>4 DEF IInv
<1>5. CASE SpawnCapture
  <2>. USE <1>5 DEF SpawnCapture, SpawnOutcome
  <2>1. ControlTypes' /\ ThreadTypes'
    <3>1. ControlTypes'
      BY SessionFacts DEF IInv, ControlTypes, Threads
    <3>2. ThreadTypes'
      BY CountFacts DEF IInv, ThreadTypes
    <3>. QED
      BY <3>1, <3>2
  <2>2. QueueTypes'
    BY FrameFacts, QueueSame DEF IInv, QueueTypes, Holding, Gone
  <2>3. PoolTypes' /\ Accounted'
    BY PoolKept DEF IInv, Holding, Gone
  <2>4. XrunsBelowLimit' /\ Holding'
    BY CountFacts DEF IInv, ControlTypes, ThreadTypes, XrunsBelowLimit, Holding, Gone, Everything, CodecOf
  <2>. QED
    BY <2>1, <2>2, <2>3, <2>4 DEF IInv
<1>6. CASE Stop
  <2>. USE <1>6 DEF Stop
  <2>1. ControlTypes' /\ ThreadTypes'
    <3>1. ControlTypes'
      BY SessionFacts DEF IInv, ControlTypes, Threads
    <3>2. ThreadTypes'
      BY CountFacts DEF IInv, ThreadTypes
    <3>. QED
      BY <3>1, <3>2
  <2>2. QueueTypes'
    BY FrameFacts, QueueSame DEF IInv, QueueTypes
  <2>3. PoolTypes' /\ Accounted'
    BY PoolKept DEF IInv
  <2>4. XrunsBelowLimit' /\ Holding'
    BY CountFacts DEF IInv, ControlTypes, ThreadTypes, XrunsBelowLimit, Holding, Gone, Everything, CodecOf
  <2>. QED
    BY <2>1, <2>2, <2>3, <2>4 DEF IInv
<1>7. CASE JoinCapture
  <2>. USE <1>7 DEF JoinCapture, Join
  <2>1. ControlTypes' /\ ThreadTypes'
    <3>1. ControlTypes'
      BY SessionFacts DEF IInv, ControlTypes, Threads
    <3>2. ThreadTypes'
      BY CountFacts DEF IInv, ThreadTypes
    <3>. QED
      BY <3>1, <3>2
  <2>2. QueueTypes'
    BY FrameFacts, QueueSame DEF IInv, QueueTypes
  <2>3. PoolTypes' /\ Accounted'
    BY PoolKept DEF IInv
  <2>4. XrunsBelowLimit' /\ Holding'
    BY CountFacts DEF IInv, ControlTypes, ThreadTypes, XrunsBelowLimit, Holding, Gone, Everything, CodecOf
  <2>. QED
    BY <2>1, <2>2, <2>3, <2>4 DEF IInv
<1>8. CASE JoinCodec
  <2>. USE <1>8 DEF JoinCodec, Join
  <2>1. ControlTypes' /\ ThreadTypes'
    <3>1. ControlTypes'
      BY SessionFacts DEF IInv, ControlTypes, Threads
    <3>2. ThreadTypes'
      BY CountFacts DEF IInv, ThreadTypes
    <3>. QED
      BY <3>1, <3>2
  <2>2. QueueTypes'
    BY FrameFacts, QueueSame DEF IInv, QueueTypes
  <2>3. PoolTypes' /\ Accounted'
    BY PoolKept DEF IInv
  <2>4. XrunsBelowLimit' /\ Holding'
    BY CountFacts DEF IInv, ControlTypes, ThreadTypes, XrunsBelowLimit, Holding, Gone, Everything, CodecOf
  <2>. QED
    BY <2>1, <2>2, <2>3, <2>4 DEF IInv
<1>9. CASE JoinPlayback
  <2>. USE <1>9 DEF JoinPlayback, Join
  <2>1. ControlTypes' /\ ThreadTypes'
    <3>1. ControlTypes'
      BY SessionFacts DEF IInv, ControlTypes, Threads
    <3>2. ThreadTypes'
      BY CountFacts DEF IInv, ThreadTypes
    <3>. QED
      BY <3>1, <3>2
  <2>2. QueueTypes'
    BY FrameFacts, QueueSame DEF IInv, QueueTypes
  <2>3. PoolTypes' /\ Accounted'
    BY PoolKept DEF IInv
  <2>4. XrunsBelowLimit' /\ Holding'
    BY CountFacts DEF IInv, ControlTypes, ThreadTypes, XrunsBelowLimit, Holding, Gone, Everything, CodecOf
  <2>. QED
    BY <2>1, <2>2, <2>3, <2>4 DEF IInv
<1>10. CASE Destroy
  <2>. USE <1>10 DEF Destroy, NoDevice
  <2>1. ControlTypes' /\ ThreadTypes'
    <3>1. ControlTypes'
      BY SessionFacts DEF IInv, ControlTypes, Threads
    <3>2. ThreadTypes'
      BY CountFacts DEF IInv, ThreadTypes
    <3>. QED
      BY <3>1, <3>2
  <2>2. QueueTypes'
    <3>1. spq' \in Seq(Frames) /\ Len(spq') = 0
      OBVIOUS
    <3>. QED
      BY <3>1, HeldSlots, QueueKept DEF IInv, QueueTypes
  <2>3. PoolTypes' /\ Accounted'
    <3>1. cdcSlot = NoSlot /\ pbSlot = NoSlot
      BY DEF IInv, Accounted, Holding, Gone
    <3>. QED
      BY <3>1, FrameFacts, SlotFacts DEF IInv, PoolTypes, Accounted
  <2>4. XrunsBelowLimit' /\ Holding'
    BY CountFacts DEF IInv, ControlTypes, ThreadTypes, XrunsBelowLimit, Holding, Gone, Everything, CodecOf
  <2>. QED
    BY <2>1, <2>2, <2>3, <2>4 DEF IInv
<1>. QED
  BY <1>1, <1>2, <1>3, <1>4, <1>5, <1>6, <1>7, <1>8, <1>9, <1>10 DEF Spawning, Joining

\* capture_thread_fn.
LEMMA CaptureStep == ASSUME IInv, Capture PROVE IInv'
<1>. USE DEF control, capVars, cdcVars, pbVars, mpVars, devVars
<1>1. CASE CaptureLoop
  <2>. USE <1>1 DEF CaptureLoop
  <2>1. ControlTypes' /\ ThreadTypes'
    <3>1. ControlTypes'
      BY ControlKept DEF IInv
    <3>2. ThreadTypes'
      BY CountFacts DEF IInv, ThreadTypes, XrunsBelowLimit, Gone
    <3>. QED
      BY <3>1, <3>2
  <2>2. QueueTypes'
    <3>1. CASE cap' = "read"
      <4>1. SpUsed < N /\ Held(cap', cdc') = Held(cap, cdc) + 1
        BY <3>1 DEF Held
      <4>2. Len(spq) \in Nat
        BY LenProperties DEF IInv, QueueTypes
      <4>3. Len(spq) + Held(cap', cdc') <= N
        BY <4>1, <4>2, HeldSlots, StreamAssumption DEF IInv, QueueTypes
      <4>. QED
        BY <4>3, QueueFits DEF IInv, QueueTypes
    <3>2. CASE cap' # "read"
      BY <3>2, QueueSame DEF IInv, QueueTypes
    <3>. QED BY <3>1, <3>2
  <2>3. PoolTypes' /\ Accounted'
    BY PoolKept DEF IInv
  <2>4. XrunsBelowLimit' /\ Holding'
    BY CountFacts DEF IInv, ControlTypes, ThreadTypes, XrunsBelowLimit, Holding, Gone, Everything, CodecOf
  <2>. QED
    BY <2>1, <2>2, <2>3, <2>4 DEF IInv
<1>2. CASE CaptureDiscard
  <2>. USE <1>2 DEF CaptureDiscard
  <2>1. ControlTypes' /\ ThreadTypes'
    <3>1. ControlTypes'
      BY ControlKept DEF IInv
    <3>2. ThreadTypes'
      BY CountFacts DEF IInv, ThreadTypes, XrunsBelowLimit, Gone
    <3>. QED
      BY <3>1, <3>2
  <2>2. QueueTypes'
    BY FrameFacts, QueueSame DEF IInv, QueueTypes
  <2>3. PoolTypes' /\ Accounted'
    BY PoolKept DEF IInv
  <2>4. XrunsBelowLimit' /\ Holding'
    BY CountFacts DEF IInv, ControlTypes, ThreadTypes, XrunsBelowLimit, Holding, Gone, Everything, CodecOf
  <2>. QED
    BY <2>1, <2>2, <2>3, <2>4 DEF IInv
<1>3. CASE CaptureXrun
  <2>. USE <1>3 DEF CaptureXrun
  <2>1. ControlTypes' /\ ThreadTypes'
    <3>1. ControlTypes'
      BY ControlKept DEF IInv
    <3>2. ThreadTypes'
      BY CountFacts DEF IInv, ThreadTypes, XrunsBelowLimit, Gone
    <3>. QED
      BY <3>1, <3>2
  <2>2. QueueTypes'
    BY FrameFacts, QueueSame DEF IInv, QueueTypes
  <2>3. PoolTypes' /\ Accounted'
    BY PoolKept DEF IInv
  <2>4. XrunsBelowLimit' /\ Holding'
    BY CountFacts DEF IInv, ControlTypes, ThreadTypes, XrunsBelowLimit, Holding, Gone, Everything, CodecOf
  <2>. QED
    BY <2>1, <2>2, <2>3, <2>4 DEF IInv
<1>4. CASE CaptureError
  <2>. USE <1>4 DEF CaptureError
  <2>1. ControlTypes' /\ ThreadTypes'
    <3>1. ControlTypes'
      BY ControlKept DEF IInv
    <3>2. ThreadTypes'
      BY CountFacts DEF IInv, ThreadTypes, XrunsBelowLimit, Gone
    <3>. QED
      BY <3>1, <3>2
  <2>2. QueueTypes'
    BY FrameFacts, QueueSame DEF IInv, QueueTypes
  <2>3. PoolTypes' /\ Accounted'
    BY PoolKept DEF IInv
  <2>4. XrunsBelowLimit' /\ Holding'
    BY CountFacts DEF IInv, ControlTypes, ThreadTypes, XrunsBelowLimit, Holding, Gone, Everything, CodecOf
  <2>. QED
    BY <2>1, <2>2, <2>3, <2>4 DEF IInv
<1>5. CASE CaptureCommit
  <2>. USE <1>5 DEF CaptureCommit
  <2>1. ControlTypes' /\ ThreadTypes'
    <3>1. ControlTypes'
      BY ControlKept DEF IInv
    <3>2. ThreadTypes'
      BY CountFacts DEF IInv, ThreadTypes, XrunsBelowLimit, Gone
    <3>. QED
      BY <3>1, <3>2
  <2>2. QueueTypes'
    <3>1. [session |-> session, size |-> "data"] \in Frames
      BY FrameFacts DEF IInv, ControlTypes
    <3>2. spq' \in Seq(Frames) /\ Len(spq') = Len(spq) + 1
      BY <3>1, AppendProperties DEF IInv, QueueTypes
    <3>3. Held(cap', cdc') = Held(cap, cdc) - 1
      BY DEF Held
    <3>. QED
      BY <3>2, <3>3, HeldSlots, QueueKept DEF IInv, QueueTypes
  <2>3. PoolTypes' /\ Accounted'
    BY PoolKept DEF IInv
  <2>4. XrunsBelowLimit' /\ Holding'
    BY CountFacts DEF IInv, ControlTypes, ThreadTypes, XrunsBelowLimit, Holding, Gone, Everything, CodecOf
  <2>. QED
    BY <2>1, <2>2, <2>3, <2>4 DEF IInv
<1>. QED
  BY <1>1, <1>2, <1>3, <1>4, <1>5 DEF Capture

\* codec_thread_fn.
LEMMA CodecStep == ASSUME IInv, Codec PROVE IInv'
<1>. USE DEF control, capVars, cdcVars, pbVars, mpVars, devVars
<1>1. CASE CodecLoop
  <2>. USE <1>1 DEF CodecLoop
  <2>1. ControlTypes' /\ ThreadTypes'
    <3>1. ControlTypes'
      BY ControlKept DEF IInv
    <3>2. ThreadTypes'
      BY CountFacts DEF IInv, ThreadTypes, XrunsBelowLimit, Gone
    <3>. QED
      BY <3>1, <3>2
  <2>2. QueueTypes'
    <3>1. CASE spq # <<>> /\ spq' = Tail(spq) /\ cdcFrame' = Head(spq)
      <4>1. spq' \in Seq(Frames) /\ Len(spq') = Len(spq) - 1 /\ Head(spq) \in Frames
        BY <3>1, HeadTailProperties DEF IInv, QueueTypes
      <4>2. Len(spq) \in Nat /\ Held(cap', cdc') <= Held(cap, cdc) + 1
        BY LenProperties DEF Held, IInv, QueueTypes
      <4>3. cdcFrame' \in Frames
        BY <3>1, <4>1 DEF IInv, QueueTypes
      <4>. QED
        BY <4>1, <4>2, <4>3, HeldSlots, QueueKept DEF IInv
    <3>2. CASE UNCHANGED <<spq, cdcFrame>> /\ cdc' = "drain"
      BY <3>2, QueueSame DEF IInv, QueueTypes
    <3>. QED BY <3>1, <3>2
  <2>3. PoolTypes' /\ Accounted'
    BY PoolKept DEF IInv
  <2>4. XrunsBelowLimit' /\ Holding'
    BY CountFacts DEF IInv, ControlTypes, ThreadTypes, XrunsBelowLimit, Holding, Gone, Everything, CodecOf
  <2>. QED
    BY <2>1, <2>2, <2>3, <2>4 DEF IInv
<1>2. CASE CodecAcquire
  <2>. USE <1>2 DEF CodecAcquire
  <2>1. ControlTypes' /\ ThreadTypes'
    <3>1. ControlTypes'
      BY ControlKept DEF IInv
    <3>2. ThreadTypes'
      BY CountFacts DEF IInv, ThreadTypes, XrunsBelowLimit, Gone
    <3>. QED
      BY <3>1, <3>2
  <2>2. QueueTypes'
    BY FrameFacts, QueueSame DEF IInv, QueueTypes
  <2>3. PoolTypes' /\ Accounted'
    <3>1. CASE Free = {}
      BY <3>1, PoolKept DEF IInv
    <3>2. CASE Free # {}
      <4>. DEFINE s == First(Free)
      <4>1. s \in Slots /\ mpState[s] = "free"
        BY <3>2, FirstSlot DEF Free
      <4>2. cdcSlot' = s /\ mpState' = [mpState EXCEPT ![s] = "claimed"] /\ cdc' = "encode"
        BY <3>2
      <4>. HIDE DEF s
      <4>. QED
        BY <4>1, <4>2, SlotFacts DEF IInv, PoolTypes, Accounted
    <3>. QED BY <3>1, <3>2
  <2>4. XrunsBelowLimit' /\ Holding'
    BY CountFacts DEF IInv, ControlTypes, ThreadTypes, XrunsBelowLimit, Holding, Gone, Everything, CodecOf
  <2>. QED
    BY <2>1, <2>2, <2>3, <2>4 DEF IInv
<1>3. CASE CodecEncode
  <2>. USE <1>3 DEF CodecEncode
  <2>1. ControlTypes' /\ ThreadTypes'
    <3>1. ControlTypes'
      BY ControlKept DEF IInv
    <3>2. ThreadTypes'
      BY CountFacts DEF IInv, ThreadTypes, XrunsBelowLimit, Gone
    <3>. QED
      BY <3>1, <3>2
  <2>2. QueueTypes'
    BY FrameFacts, QueueSame DEF IInv, QueueTypes
  <2>3. PoolTypes' /\ Accounted'
    <3>1. cdcSlot \in Slots
      BY DEF IInv, PoolTypes, Accounted
    <3>2. EncodedSizes(cdcSlot) \subseteq {"data", "empty"}
      BY FrameFacts DEF EncodedSizes, IInv, QueueTypes
    <3>3. PICK f \in Frames : mpFrame' = [mpFrame EXCEPT ![cdcSlot] = f]
      BY <3>2, FrameFacts DEF IInv, QueueTypes
    <3>. QED
      BY <3>1, <3>3, SlotFacts DEF IInv, PoolTypes, Accounted
  <2>4. XrunsBelowLimit' /\ Holding'
    BY CountFacts DEF IInv, ControlTypes, ThreadTypes, XrunsBelowLimit, Holding, Gone, Everything, CodecOf
  <2>. QED
    BY <2>1, <2>2, <2>3, <2>4 DEF IInv
<1>4. CASE CodecDrain
  <2>. USE <1>4 DEF CodecDrain
  <2>1. ControlTypes' /\ ThreadTypes'
    <3>1. ControlTypes'
      BY ControlKept DEF IInv
    <3>2. ThreadTypes'
      BY CountFacts DEF IInv, ThreadTypes, XrunsBelowLimit, Gone
    <3>. QED
      BY <3>1, <3>2
  <2>2. QueueTypes'
    <3>1. CASE spq # <<>> /\ spq' = Tail(spq)
      <4>1. spq' \in Seq(Frames) /\ Len(spq') = Len(spq) - 1 /\ Head(spq) \in Frames
        BY <3>1, HeadTailProperties DEF IInv, QueueTypes
      <4>2. Len(spq) \in Nat /\ Held(cap', cdc') <= Held(cap, cdc) + 1
        BY LenProperties DEF Held, IInv, QueueTypes
      <4>3. cdcFrame' \in Frames
        BY <3>1, <4>1 DEF IInv, QueueTypes
      <4>. QED
        BY <4>1, <4>2, <4>3, HeldSlots, QueueKept DEF IInv
    <3>2. CASE UNCHANGED spq /\ cdc' = "sentinel"
      BY <3>2, QueueSame DEF IInv, QueueTypes
    <3>. QED BY <3>1, <3>2
  <2>3. PoolTypes' /\ Accounted'
    BY PoolKept DEF IInv
  <2>4. XrunsBelowLimit' /\ Holding'
    BY CountFacts DEF IInv, ControlTypes, ThreadTypes, XrunsBelowLimit, Holding, Gone, Everything, CodecOf
  <2>. QED
    BY <2>1, <2>2, <2>3, <2>4 DEF IInv
<1>5. CASE CodecSentinel
  <2>. USE <1>5 DEF CodecSentinel
  <2>1. ControlTypes' /\ ThreadTypes'
    <3>1. ControlTypes'
      BY ControlKept DEF IInv
    <3>2. ThreadTypes'
      BY CountFacts DEF IInv, ThreadTypes, XrunsBelowLimit, Gone
    <3>. QED
      BY <3>1, <3>2
  <2>2. QueueTypes'
    BY FrameFacts, QueueSame DEF IInv, QueueTypes
  <2>3. PoolTypes' /\ Accounted'
    <3>1. CASE Free = {}
      BY <3>1, PoolKept DEF IInv
    <3>2. CASE Free # {}
      <4>. DEFINE s == First(Free)
                  f == [session |-> session, size |-> "empty"]
      <4>1. s \in Slots /\ mpState[s] = "free"
        BY <3>2, FirstSlot DEF Free
      <4>2. f \in Frames
        BY FrameFacts DEF IInv, ControlTypes
      <4>3. mpState' = [mpState EXCEPT ![s] = "ready"] /\ mpFrame' = [mpFrame EXCEPT ![s] = f]
        BY <3>2
      <4>. HIDE DEF s, f
      <4>. QED
        BY <4>1, <4>2, <4>3, SlotFacts DEF IInv, PoolTypes, Accounted
    <3>. QED BY <3>1, <3>2
  <2>4. XrunsBelowLimit' /\ Holding'
    BY CountFacts DEF IInv, ControlTypes, ThreadTypes, XrunsBelowLimit, Holding, Gone, Everything, CodecOf
  <2>. QED
    BY <2>1, <2>2, <2>3, <2>4 DEF IInv
<1>. QED
  BY <1>1, <1>2, <1>3, <1>4, <1>5 DEF Codec

\* playback_thread_fn.
LEMMA PlaybackStep == ASSUME IInv, Playback PROVE IInv'
<1>. USE DEF control, capVars, cdcVars, pbVars, mpVars, devVars
<1>1. CASE PlaybackLoop
  <2>. USE <1>1 DEF PlaybackLoop
  <2>1. ControlTypes' /\ ThreadTypes'
    <3>1. ControlTypes'
      BY ControlKept DEF IInv
    <3>2. ThreadTypes'
      BY CountFacts DEF IInv, ThreadTypes, XrunsBelowLimit, Gone
    <3>. QED
      BY <3>1, <3>2
  <2>2. QueueTypes'
    BY FrameFacts, QueueSame DEF IInv, QueueTypes
  <2>3. PoolTypes' /\ Accounted'
    BY PoolKept DEF IInv
  <2>4. XrunsBelowLimit' /\ Holding'
    BY CountFacts DEF IInv, ControlTypes, ThreadTypes, XrunsBelowLimit, Holding, Gone, Everything, CodecOf
  <2>. QED
    BY <2>1, <2>2, <2>3, <2>4 DEF IInv
<1>2. CASE PlaybackDequeue
  <2>. USE <1>2 DEF PlaybackDequeue
  <2>1. ControlTypes' /\ ThreadTypes'
    <3>1. pb' \in {"exited", "write"}
      OBVIOUS
    <3>2. ThreadTypes'
      BY <3>1 DEF IInv, ThreadTypes
    <3>3. ControlTypes'
      BY DEF IInv, ControlTypes
    <3>. QED
      BY <3>2, <3>3
  <2>2. QueueTypes'
    BY FrameFacts, QueueSame DEF IInv, QueueTypes
  <2>3. PoolTypes' /\ Accounted'
    <3>. DEFINE s == First(Ready)
    <3>1. s \in Slots /\ mpState[s] = "ready"
      BY FirstSlot DEF Ready
    <3>2. \/ /\ mpState' = [mpState EXCEPT ![s] = "free"]
             /\ pb' = "exited" /\ UNCHANGED pbSlot
          \/ /\ mpState' = [mpState EXCEPT ![s] = "playing"]
             /\ pb' = "write" /\ pbSlot' = s
      OBVIOUS
    <3>. HIDE DEF s
    <3>. QED
      BY <3>1, <3>2, SlotFacts DEF IInv, PoolTypes, Accounted
  <2>4. XrunsBelowLimit' /\ Holding'
    BY CountFacts DEF IInv, ControlTypes, ThreadTypes, XrunsBelowLimit, Holding, Gone, Everything, CodecOf
  <2>. QED
    BY <2>1, <2>2, <2>3, <2>4 DEF IInv
<1>3. CASE PlaybackFail
  <2>. USE <1>3 DEF PlaybackFail, ReleasePlayed
  <2>1. ControlTypes' /\ ThreadTypes'
    <3>1. ControlTypes'
      BY ControlKept DEF IInv
    <3>2. ThreadTypes'
      BY CountFacts DEF IInv, ThreadTypes, XrunsBelowLimit, Gone
    <3>. QED
      BY <3>1, <3>2
  <2>2. QueueTypes'
    BY FrameFacts, QueueSame DEF IInv, QueueTypes
  <2>3. PoolTypes' /\ Accounted'
    BY SlotFacts DEF IInv, PoolTypes, Accounted
  <2>4. XrunsBelowLimit' /\ Holding'
    BY CountFacts DEF IInv, ControlTypes, ThreadTypes, XrunsBelowLimit, Holding, Gone, Everything, CodecOf
  <2>. QED
    BY <2>1, <2>2, <2>3, <2>4 DEF IInv
<1>4. CASE PlaybackDone
  <2>. USE <1>4 DEF PlaybackDone, ReleasePlayed
  <2>1. ControlTypes' /\ ThreadTypes'
    <3>1. ControlTypes'
      BY ControlKept DEF IInv
    <3>2. ThreadTypes'
      BY CountFacts DEF IInv, ThreadTypes, XrunsBelowLimit, Gone
    <3>. QED
      BY <3>1, <3>2
  <2>2. QueueTypes'
    BY FrameFacts, QueueSame DEF IInv, QueueTypes
  <2>3. PoolTypes' /\ Accounted'
    BY SlotFacts DEF IInv, PoolTypes, Accounted
  <2>4. XrunsBelowLimit' /\ Holding'
    BY CountFacts DEF IInv, ControlTypes, ThreadTypes, XrunsBelowLimit, Holding, Gone, Everything, CodecOf
  <2>. QED
    BY <2>1, <2>2, <2>3, <2>4 DEF IInv
<1>. QED
  BY <1>1, <1>2, <1>3, <1>4 DEF Playback

LEMMA StutterStep == ASSUME IInv, UNCHANGED vars PROVE IInv'
<1>. USE DEF vars, control, capVars, cdcVars, pbVars, mpVars, devVars
<1>1. ControlTypes' /\ ThreadTypes'
  <2>1. ControlTypes'
    BY DEF IInv, ControlTypes
  <2>2. ThreadTypes'
    BY DEF IInv, ThreadTypes
  <2>. QED
    BY <2>1, <2>2
<1>2. QueueTypes'
  BY QueueSame DEF IInv, QueueTypes
<1>3. PoolTypes' /\ Accounted'
  BY PoolKept DEF IInv
<1>4. XrunsBelowLimit' /\ Holding'
  BY DEF IInv, XrunsBelowLimit, Holding, Gone, Everything, CodecOf
<1>. QED
  BY <1>1, <1>2, <1>3, <1>4 DEF IInv

-----------------------------------------------------------------------------
(* The rings of the devices *)

\* WholePeriods: the most whole periods that fit, and two of them where two fit.
LEMMA RoundedDown ==
  ASSUME NEW room \in Nat, NEW p \in Nat \ {0}
  PROVE  /\ WholePeriods(room, p) \in Nat /\ WholePeriods(room, p) <= room
         /\ WholePeriods(room, p) % p = 0
         /\ 2 * p <= room => 2 * p <= WholePeriods(room, p)
<1>. DEFINE d == room \div p
            r == room % p
<1>1. d \in Nat /\ r \in 0 .. p - 1 /\ room = p * d + r
  OBVIOUS
<1>2. WholePeriods(room, p) = d * p
  BY DEF WholePeriods
<1>. HIDE DEF d, r
<1>3. d * p \in Nat /\ d * p <= room
  BY <1>1
<1>4. (d * p) % p = 0
  BY <1>1
<1>5. ASSUME 2 * p <= room PROVE 2 * p <= d * p
  <2>1. d >= 2
    BY <1>1, <1>5
  <2>. QED BY <1>1, <2>1
<1>. QED BY <1>2, <1>3, <1>4, <1>5

\* The room of the buffer is a number of frames.
LEMMA RoomIsNat ==
  ASSUME NEW hw \in Hardware, NEW channels \in Nat \ {0}, NEW fmt \in Formats
  PROVE  BufferRoom(hw, channels, fmt) \in Nat
<1>1. FrameBytes(channels, fmt) \in Nat \ {0}
  <2>1. fmt_bytes(fmt) \in {2, 3, 4}
    BY DEF fmt_bytes, Formats
  <2>. QED BY <2>1 DEF FrameBytes
<1>2. hw.bytesMax \in Nat /\ hw.bufferMax \in Nat
  BY DeviceAssumption
<1>3. hw.bytesMax \div FrameBytes(channels, fmt) \in Nat
  BY <1>1, <1>2
<1>. QED BY <1>2, <1>3 DEF BufferRoom

\* bb_audio_open: a device the kernel accepts is usable.
LEMMA AcceptedUsable ==
  ASSUME NEW hw \in Hardware, NEW cfg \in Configs, NEW dir \in Devices,
         Accepts(hw, Negotiated(hw, dir, cfg))
  PROVE  Usable(Negotiated(hw, dir, cfg))
<1>. DEFINE c == Negotiated(hw, dir, cfg)
            room == BufferRoom(hw, c.channels, cfg.fmt)
<1>1. /\ c.hw = hw /\ c.fmt = cfg.fmt
      /\ c.buffer_frames = WholePeriods(room, c.period_frames)
      /\ c.start_threshold = IF dir = "capture" THEN 1 ELSE 2 * c.period_frames
  BY DEF Negotiated
<1>2. c.channels \in hw.channelsMin .. hw.channelsMax
      /\ c.period_frames \in hw.periodMin .. hw.periodMax
  BY DEF Accepts
<1>. HIDE DEF c
<1>3. c.channels \in Nat \ {0} /\ c.period_frames \in Nat \ {0} /\ cfg.fmt \in Formats
  BY <1>2, DeviceAssumption
<1>4. room \in Nat
  BY <1>3, RoomIsNat
<1>5. room = BufferRoom(c.hw, c.channels, c.fmt)
  BY <1>1
<1>. HIDE DEF room
<1>6. /\ c.buffer_frames <= room /\ c.buffer_frames % c.period_frames = 0
      /\ c.buffer_frames \in Nat
      /\ 2 * c.period_frames <= room => 2 * c.period_frames <= c.buffer_frames
  BY <1>1, <1>3, <1>4, RoundedDown
<1>7. 2 * c.period_frames <= room => c.start_threshold <= c.buffer_frames
  BY <1>1, <1>3, <1>6
<1>. QED BY <1>5, <1>6, <1>7 DEF Usable, c

\* The devices are opened once, and closed for good.
LEMMA DevicesStep == ASSUME DevicesUsable, [Next]_vars PROVE DevicesUsable'
<1>. USE DEF DevicesUsable
<1>1. CASE InitStream
  <2>1. PICK cfg \in Configs, chw \in Hardware, phw \in Hardware :
          \/ opened' = {}
          \/ /\ Accepts(chw, Negotiated(chw, "capture", cfg))
             /\ Accepts(phw, Negotiated(phw, "playback", cfg))
             /\ cap_dev' = Negotiated(chw, "capture", cfg)
             /\ pb_dev' = Negotiated(phw, "playback", cfg)
    <3>1. \A c, p : \A step \in Failures(c, p) : OpenedBefore(step) \ ClosedBy(step) = {}
      BY DEF Failures, OpenedBefore, ClosedBy, Pools, CodecOf
    <3>. QED BY <1>1, <3>1 DEF InitStream
  <2>2. {"capture", "playback"} \subseteq Devices
    BY DEF Devices
  <2>. QED BY <2>1, <2>2, AcceptedUsable
<1>2. CASE Destroy
  BY <1>2 DEF Destroy, Devices
<1>3. CASE Start \/ Spawning \/ Stop \/ Joining
  BY <1>3 DEF Start, Spawning, SpawnPlayback, SpawnCodec, SpawnCapture, Stop, Joining,
     JoinCapture, JoinCodec, JoinPlayback, Join, devVars
<1>4. CASE Capture \/ Codec \/ Playback \/ UNCHANGED vars
  <2>1. UNCHANGED control
    BY <1>4 DEF vars, Capture, CaptureLoop, CaptureDiscard, CaptureXrun, CaptureError,
       CaptureCommit, Codec, CodecLoop, CodecAcquire, CodecEncode, CodecDrain, CodecSentinel,
       Playback, PlaybackLoop, PlaybackDequeue, PlaybackFail, PlaybackDone
  <2>. QED BY <2>1 DEF control, devVars
<1>. QED BY <1>1, <1>2, <1>3, <1>4 DEF Next

-----------------------------------------------------------------------------
\* Every step of the control thread and of the three threads keeps the invariant.
THEOREM StreamInvariant == Spec => []IInv
<1>1. IInv /\ [Next]_vars => IInv'
  BY StutterStep, ControlStep, CaptureStep, CodecStep, PlaybackStep DEF Next
<1>. QED
  BY <1>1, InitIInv, PTL DEF Spec

\* The stream keeps the types of its variables, and never has more frames of the
\* lock-free pool in use than it has slots.
THEOREM TypeCorrect == Spec => []TypeOK
<1>1. IInv => TypeOK
  BY DEF IInv, TypeOK, ControlTypes, ThreadTypes, Counts, QueueTypes, PoolTypes
<1>. QED BY <1>1, StreamInvariant, PTL

\* The two users of the locked pool never lose a slot and never share one,
\* whatever fails, and however often the stream is started and stopped.
THEOREM NoSlotLost == Spec => []SlotsAccounted
<1>1. IInv => SlotsAccounted
  BY SlotFacts DEF IInv, Accounted, PoolTypes, SlotsAccounted
<1>. QED BY <1>1, StreamInvariant, PTL

\* bb_audio_stream_init and destroy leave nothing open, stop and destroy leave no
\* thread, and no thread uses what is closed.
THEOREM NothingLeftOpen == Spec => []ResourcesHeld
<1>1. ASSUME IInv PROVE ctl \in {"new", "failed", "destroyed"} => Gone(cap) /\ Gone(cdc) /\ Gone(pb)
  BY <1>1 DEF IInv, Holding
<1>2. IInv => ResourcesHeld
  BY <1>1 DEF IInv, Holding, ResourcesHeld, Everything, Devices, Pools
<1>. QED BY <1>2, StreamInvariant, PTL
\* bb_audio_open and bb_audio_stream_init: whatever the ranges of the two devices
\* and whatever is asked for, the rings of an open stream hold whole periods, and
\* playback starts by itself wherever two periods fit.
THEOREM DevicesAlwaysUsable == Spec => []DevicesUsable
<1>1. Init => DevicesUsable
  BY DEF Init, DevicesUsable
<1>2. DevicesUsable /\ [Next]_vars => DevicesUsable'
  BY DevicesStep
<1>. QED BY <1>1, <1>2, PTL DEF Spec
=============================================================================
