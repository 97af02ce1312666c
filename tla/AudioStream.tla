----------------------------- MODULE AudioStream -----------------------------
(***************************************************************************)
(* middleware/bb_audio_stream.c: a control thread that opens, starts and   *)
(* stops the stream, and the capture, codec and playback threads,          *)
(* connected by a lock-free and by a locked frame pool.  AudioDevice has   *)
(* the negotiation of the two devices.                                     *)
(*                                                                         *)
(* A pool operation is one step here.  The lock-free pool appears as the   *)
(* FIFO FrameQueue, which SpscPool implements; the locked pool as its      *)
(* array of slots, claimed and dequeued in the order of the scans of       *)
(* MpscPool.  A frame is reduced to the start it was captured after and    *)
(* to whether its size is 0, the shutdown signal.                          *)
(***************************************************************************)
EXTENDS AudioDevice, Sequences, FiniteSets

CONSTANTS
  N,             \* frames in each of the two pools (cfg.pool_frames)
  MaxStarts,     \* bound on the calls of bb_audio_stream_start
  XrunLimit,     \* the 10 of `++ctx->xrun_count > 10`
  Hardware,      \* the ranges a device may report
  Configs,       \* the requests: rate, channels and format
  Codecs,        \* the values cfg.codec_ops # NULL may have; an encoder may fail
  SpawnMayFail   \* whether pthread_create may fail (no RT permission, no memory)

ASSUME StreamAssumption == /\ N \in Nat \ {0} /\ MaxStarts \in Nat
                           /\ XrunLimit \in Nat
                           /\ Codecs \subseteq BOOLEAN /\ SpawnMayFail \in BOOLEAN

\* A device has a channel and no period without frames: bb_audio_open divides by both.
ASSUME DeviceAssumption ==
  /\ \A hw \in Hardware : /\ {hw.channelsMin, hw.periodMin} \subseteq Nat \ {0}
                         /\ {hw.channelsMax, hw.periodMax, hw.rateMin, hw.rateMax,
                             hw.bufferMin, hw.bufferMax, hw.bytesMax} \subseteq Nat
  /\ \A cfg \in Configs : {cfg.rate, cfg.channels} \subseteq Nat /\ cfg.fmt \in Formats

VARIABLES
  hasCodec,            \* fixed by the configuration
  running, error,      \* the two flags the threads share
  ctl,                 \* where the control thread is
  opened,              \* the resources the stream holds
  cap_dev, pb_dev,     \* the open devices
  dropped,             \* both devices stopped by DROP and not prepared since
  session,             \* number of the current start
  spawned,             \* threads created by this start
  cap, cdc, pb,        \* where each thread is, "none" if it does not exist
  capXruns, pbXruns,   \* ctx->xrun_count
  spq,                 \* frames queued in the lock-free pool
  cdcFrame,            \* the frame the codec thread has dequeued
  mpState, mpFrame,    \* per slot of the locked pool: its state and its frame
  cdcSlot, pbSlot      \* the slot the codec or playback thread holds

devVars  == <<opened, cap_dev, pb_dev, dropped>>
control  == <<hasCodec, ctl, session, spawned, devVars>>
capVars  == <<cap, capXruns>>
cdcVars  == <<cdc, cdcFrame, cdcSlot>>
pbVars   == <<pb, pbXruns, pbSlot>>
mpVars   == <<mpState, mpFrame>>
vars     == <<running, error, control, capVars, cdcVars, pbVars, spq, mpVars>>

Slots == 0 .. N - 1
NoSlot == -1
Devices == {"capture", "playback"}
Pools == {"sp pool", "mp pool"}
CodecOf == IF hasCodec THEN {"codec"} ELSE {}
NoDevice == [period_frames |-> 0]
Threads == {"capture", "codec", "playback"}
Frames == [session : 0 .. MaxStarts, size : {"data", "empty"}]
NoFrame == [session |-> 0, size |-> "data"]

Free  == {s \in Slots : mpState[s] = "free"}
Ready == {s \in Slots : mpState[s] = "ready"}
First(S) == CHOOSE s \in S : \A t \in S : s <= t

\* Slots of the lock-free pool in use: queued, filled by capture, or read by
\* the codec thread.
SpUsed == Len(spq) + (IF cap = "read" THEN 1 ELSE 0)
                   + (IF cdc \in {"acquire", "encode"} THEN 1 ELSE 0)

CapResults == Results("capture" \in opened, dropped)
PbResults  == Results("playback" \in opened, dropped)

Init ==
  /\ hasCodec \in Codecs
  /\ running = FALSE /\ error = FALSE
  /\ ctl = "new" /\ session = 0 /\ spawned = {}
  /\ opened = {} /\ dropped = FALSE
  /\ cap_dev = NoDevice /\ pb_dev = NoDevice
  /\ cap = "none" /\ cdc = "none" /\ pb = "none"
  /\ capXruns = 0 /\ pbXruns = 0
  /\ spq = <<>> /\ cdcFrame = NoFrame
  /\ mpState = [s \in Slots |-> "free"]
  /\ mpFrame = [s \in Slots |-> NoFrame]
  /\ cdcSlot = NoSlot /\ pbSlot = NoSlot

-----------------------------------------------------------------------------
(* The control thread *)

\* What the steps of init have opened when a step fails.
OpenedBefore(step) ==
  CASE step = "capture"  -> {}
    [] step = "playback" -> {"capture"}
    [] step \in {"match", "sp pool"} -> Devices
    [] step = "mp pool"  -> Devices \cup {"sp pool"}
    [] step = "codec"    -> Devices \cup Pools

\* Mutant: the locked pool is forgotten when the codec fails to start.
ClosedBy_Forgets(step) ==
  CASE step = "capture"  -> {}
    [] step = "playback" -> {"capture"}
    [] step \in {"match", "sp pool"} -> Devices
    [] OTHER -> {"sp pool"} \cup Devices

\* What the error path of that step gives back.
ClosedBy(step) ==
  CASE step = "capture"  -> {}
    [] step = "playback" -> {"capture"}
    [] step \in {"match", "sp pool"} -> Devices
    [] step = "mp pool"  -> {"sp pool"} \cup Devices
    [] step = "codec"    -> Pools \cup Devices

\* The steps that may fail with these two devices.
Failures(c, p) ==
  {"capture"}
    \cup (IF Accepts(c.hw, c) THEN {"playback"} ELSE {})
    \cup (IF ~(Accepts(c.hw, c) /\ Accepts(p.hw, p)) THEN {}
          ELSE IF c.period_frames # p.period_frames THEN {"match"}
          ELSE Pools \cup CodecOf)

InitStream ==
  /\ ctl = "new"
  /\ \E cfg \in Configs, chw \in Hardware, phw \in Hardware :
       LET c == Negotiated(chw, "capture", cfg)
           p == Negotiated(phw, "playback", cfg)
       IN  \/ \E step \in Failures(c, p) :
                /\ opened' = OpenedBefore(step) \ ClosedBy(step)
                /\ ctl' = "failed" /\ UNCHANGED <<cap_dev, pb_dev>>
           \/ /\ Accepts(chw, c) /\ Accepts(phw, p)
              /\ c.period_frames = p.period_frames
              /\ cap_dev' = c /\ pb_dev' = p
              /\ opened' = Devices \cup Pools \cup CodecOf
              /\ ctl' = "stopped"
  /\ UNCHANGED <<hasCodec, running, error, session, spawned, dropped,
                 capVars, cdcVars, pbVars, spq, mpVars>>

Start ==
  /\ ctl = "stopped" /\ session < MaxStarts
  /\ running' = TRUE /\ error' = FALSE
  /\ session' = session + 1
  /\ spawned' = {}
  /\ ctl' = "spawn playback"
  /\ UNCHANGED <<hasCodec, devVars, capVars, cdcVars, pbVars, spq, mpVars>>

\* bb_thread_spawn returns 0 or a positive error number and every caller tests
\* `< 0`: a failure is never noticed, and start goes on to the next thread.
SpawnOutcome(t) ==
  \/ spawned' = spawned \cup {t}
  \/ SpawnMayFail /\ spawned' = spawned

SpawnPlayback ==
  /\ ctl = "spawn playback" /\ ctl' = "spawn codec"
  /\ SpawnOutcome("playback")
  /\ pb' = IF "playback" \in spawned' THEN "loop" ELSE "none"
  /\ pbXruns' = 0
  /\ UNCHANGED <<hasCodec, devVars, running, error, session, capVars, cdcVars, pbSlot,
                 spq, mpVars>>

SpawnCodec ==
  /\ ctl = "spawn codec" /\ ctl' = "spawn capture"
  /\ SpawnOutcome("codec")
  /\ cdc' = IF "codec" \in spawned' THEN "loop" ELSE "none"
  /\ UNCHANGED <<hasCodec, devVars, running, error, session, capVars, cdcFrame,
                 cdcSlot, pbVars, spq, mpVars>>

SpawnCapture ==
  /\ ctl = "spawn capture" /\ ctl' = "started"
  /\ SpawnOutcome("capture")
  /\ cap' = IF "capture" \in spawned' THEN "loop" ELSE "none"
  /\ capXruns' = 0
  /\ UNCHANGED <<hasCodec, devVars, running, error, session, cdcVars, pbVars, spq, mpVars>>

Stop ==
  /\ ctl = "started"
  /\ running' = FALSE
  /\ ctl' = "join capture"
  /\ UNCHANGED <<hasCodec, devVars, error, session, spawned, capVars, cdcVars, pbVars, spq,
                 mpVars>>

\* pthread_join of a thread that was never created is undefined: it returns an
\* error, which is ignored, or the process crashes.  After the last join both
\* devices are stopped by DROP; only PREPARE would make them usable again.
Join(from, t, pc, to) ==
  /\ ctl = from
  /\ \/ pc = "exited" /\ ctl' = to
     \/ t \notin spawned /\ ctl' \in {to, "crashed"}
  /\ dropped' = (dropped \/ ctl' = "stopped")
  /\ UNCHANGED <<hasCodec, opened, cap_dev, pb_dev, running, error, session, spawned, capVars,
                 cdcVars, pbVars, spq, mpVars>>

\* Mutant: stop does not wait for the playback thread.
JoinCodec_Last == Join("join codec", "codec", cdc, "stopped")

JoinCapture  == Join("join capture", "capture", cap, "join codec")
JoinCodec    == Join("join codec", "codec", cdc, "join playback")
JoinPlayback == Join("join playback", "playback", pb, "stopped")

\* bb_audio_stream_destroy after its stop: everything is closed and cleared.
Destroy ==
  /\ ctl = "stopped" /\ ctl' = "destroyed"
  /\ opened' = opened \ (CodecOf \cup Pools \cup Devices)
  /\ cap_dev' = NoDevice /\ pb_dev' = NoDevice
  /\ error' = FALSE
  /\ spq' = <<>>
  /\ mpState' = [s \in Slots |-> "free"]
  /\ mpFrame' = [s \in Slots |-> NoFrame]
  /\ UNCHANGED <<hasCodec, running, session, spawned, dropped, capVars, cdcVars, pbVars>>

-----------------------------------------------------------------------------
(* capture_thread_fn *)

\* Mutant: the full test lets one frame too many in.
CaptureLoop_OffByOne ==
  /\ cap = "loop"
  /\ cap' = IF ~running THEN "exited" ELSE IF SpUsed <= N THEN "read" ELSE "discard"
  /\ UNCHANGED <<running, error, control, capXruns, cdcVars, pbVars, spq, mpVars>>

\* The loop test and the acquire.
CaptureLoop ==
  /\ cap = "loop"
  /\ cap' = IF ~running THEN "exited" ELSE IF SpUsed < N THEN "read" ELSE "discard"
  /\ UNCHANGED <<running, error, control, capXruns, cdcVars, pbVars, spq, mpVars>>

\* Pool full: one period is read and thrown away.  An xrun counts, but the
\* count is reset right after, and other errors are ignored.
CaptureDiscard ==
  /\ cap = "discard"
  /\ \/ /\ cap' = "loop" /\ capXruns' = 0
        /\ UNCHANGED error
     \/ /\ "xrun" \in CapResults /\ capXruns + 1 > XrunLimit
        /\ cap' = "exited" /\ error' = TRUE /\ capXruns' = capXruns + 1
  /\ UNCHANGED <<running, control, cdcVars, pbVars, spq, mpVars>>

\* Mutant: the frame is committed before the failure of the read is looked at.
CaptureXrun_Commit ==
  /\ cap = "read" /\ "xrun" \in CapResults
  /\ capXruns' = capXruns + 1
  /\ spq' = Append(spq, [session |-> session, size |-> "empty"])
  /\ \/ capXruns' > XrunLimit /\ cap' = "exited" /\ error' = TRUE
     \/ capXruns' <= XrunLimit /\ cap' = "loop" /\ UNCHANGED error
  /\ UNCHANGED <<running, control, cdcVars, pbVars, mpVars>>

\* An xrun: the frame is released; past the limit the thread gives up.
CaptureXrun ==
  /\ cap = "read" /\ "xrun" \in CapResults
  /\ capXruns' = capXruns + 1
  /\ \/ capXruns' > XrunLimit /\ cap' = "exited" /\ error' = TRUE
     \/ capXruns' <= XrunLimit /\ cap' = "loop" /\ UNCHANGED error
  /\ UNCHANGED <<running, control, cdcVars, pbVars, spq, mpVars>>

\* Any other error; the read of a dropped device always fails this way.
CaptureError ==
  /\ cap = "read"
  /\ cap' = "exited" /\ error' = TRUE
  /\ UNCHANGED <<running, control, capXruns, cdcVars, pbVars, spq, mpVars>>

CaptureCommit ==
  /\ cap = "read" /\ "frames" \in CapResults
  /\ spq' = Append(spq, [session |-> session, size |-> "data"])
  /\ cap' = "loop" /\ capXruns' = 0
  /\ UNCHANGED <<running, error, control, cdcVars, pbVars, mpVars>>

Capture == CaptureLoop \/ CaptureDiscard \/ CaptureXrun \/ CaptureError \/ CaptureCommit

-----------------------------------------------------------------------------
(* codec_thread_fn *)

\* The loop test and the dequeue of the lock-free pool.
CodecLoop ==
  /\ cdc = "loop"
  /\ \/ /\ ~running
        /\ cdc' = "drain" /\ UNCHANGED <<spq, cdcFrame>>
     \/ /\ running /\ spq # <<>>
        /\ cdcFrame' = Head(spq) /\ spq' = Tail(spq)
        /\ cdc' = "acquire"
  /\ UNCHANGED <<running, error, control, capVars, cdcSlot, pbVars, mpVars>>

\* Mutant: waits for a free slot instead of dropping the frame.
CodecAcquire_Wait ==
  /\ cdc = "acquire"
  /\ Free # {}
  /\ cdcSlot' = First(Free)
  /\ mpState' = [mpState EXCEPT ![First(Free)] = "claimed"]
  /\ cdc' = "encode"
  /\ UNCHANGED <<running, error, control, capVars, cdcFrame, pbVars, spq, mpFrame>>

\* Playback pool full: the frame is dropped.
CodecAcquire ==
  /\ cdc = "acquire"
  /\ \/ /\ Free # {}
        /\ cdcSlot' = First(Free)
        /\ mpState' = [mpState EXCEPT ![First(Free)] = "claimed"]
        /\ cdc' = "encode"
        /\ UNCHANGED cdcFrame
     \/ /\ Free = {}
        /\ cdc' = "loop" /\ cdcFrame' = NoFrame
        /\ UNCHANGED <<cdcSlot, mpState>>
  /\ UNCHANGED <<running, error, control, capVars, pbVars, spq, mpFrame>>

\* What encode leaves in mp_f->size: 0 after an error.  Its output capacity is
\* the size the slot's previous frame left, so an empty one makes it fail.
EncodedSizes(s) ==
  IF ~hasCodec THEN {cdcFrame.size}
  ELSE IF mpFrame[s].size = "empty" THEN {"empty"} ELSE {"data", "empty"}

\* Mutant: a frame that failed to encode stays claimed.
CodecEncode_Leak ==
  /\ cdc = "encode"
  /\ \E size \in EncodedSizes(cdcSlot) :
       /\ mpFrame' = [mpFrame EXCEPT ![cdcSlot] = [cdcFrame EXCEPT !.size = size]]
       /\ mpState' = IF size = "data" THEN [mpState EXCEPT ![cdcSlot] = "ready"]
                     ELSE mpState
  /\ cdc' = "loop" /\ cdcFrame' = NoFrame /\ cdcSlot' = NoSlot
  /\ UNCHANGED <<running, error, control, capVars, pbVars, spq>>

\* Encode or copy, release the captured frame, enqueue.
CodecEncode ==
  /\ cdc = "encode"
  /\ \E size \in EncodedSizes(cdcSlot) :
       mpFrame' = [mpFrame EXCEPT ![cdcSlot] = [cdcFrame EXCEPT !.size = size]]
  /\ mpState' = [mpState EXCEPT ![cdcSlot] = "ready"]
  /\ cdc' = "loop" /\ cdcFrame' = NoFrame /\ cdcSlot' = NoSlot
  /\ UNCHANGED <<running, error, control, capVars, pbVars, spq>>

\* Frames still queued are dequeued and released.
CodecDrain ==
  /\ cdc = "drain"
  /\ \/ spq # <<>> /\ spq' = Tail(spq) /\ UNCHANGED cdc
     \/ spq = <<>> /\ cdc' = "sentinel" /\ UNCHANGED spq
  /\ UNCHANGED <<running, error, control, capVars, cdcFrame, cdcSlot, pbVars, mpVars>>

\* Mutant: no shutdown signal.
CodecSentinel_Skip ==
  /\ cdc = "sentinel"
  /\ cdc' = "exited"
  /\ UNCHANGED <<running, error, control, capVars, cdcFrame, cdcSlot, pbVars, spq, mpVars>>

\* An empty frame wakes the playback thread.  While the pool is full this is
\* tried again every millisecond, and given up after 100 attempts.
CodecSentinel ==
  /\ cdc = "sentinel"
  /\ \/ /\ Free # {}
        /\ mpState' = [mpState EXCEPT ![First(Free)] = "ready"]
        /\ mpFrame' = [mpFrame EXCEPT ![First(Free)] =
                         [session |-> session, size |-> "empty"]]
     \/ /\ Free = {}
        /\ UNCHANGED mpVars
  /\ cdc' = "exited"
  /\ UNCHANGED <<running, error, control, capVars, cdcFrame, cdcSlot, pbVars, spq>>

Codec == CodecLoop \/ CodecAcquire \/ CodecEncode \/ CodecDrain \/ CodecSentinel

-----------------------------------------------------------------------------
(* playback_thread_fn *)

PlaybackLoop ==
  /\ pb = "loop"
  /\ pb' = IF running THEN "dequeue" ELSE "exited"
  /\ UNCHANGED <<running, error, control, capVars, cdcVars, pbXruns, pbSlot, spq, mpVars>>

\* bb_pool_mp_dequeue blocks until a slot is ready; an empty frame ends the thread.
PlaybackDequeue ==
  /\ pb = "dequeue" /\ Ready # {}
  /\ LET s == First(Ready) IN
       \/ /\ mpFrame[s].size = "empty"
          /\ mpState' = [mpState EXCEPT ![s] = "free"]
          /\ pb' = "exited"
          /\ UNCHANGED pbSlot
       \/ /\ mpFrame[s].size = "data"
          /\ mpState' = [mpState EXCEPT ![s] = "playing"]
          /\ pb' = "write" /\ pbSlot' = s
  /\ UNCHANGED <<running, error, control, capVars, cdcVars, pbXruns, spq, mpFrame>>

\* Mutant: the error path leaves without the release.
PlaybackFail_Leak ==
  /\ pb = "write"
  /\ error' = TRUE
  /\ pb' = "exited" /\ pbSlot' = NoSlot
  /\ UNCHANGED <<running, control, capVars, cdcVars, pbXruns, spq, mpVars>>

ReleasePlayed == /\ mpState' = [mpState EXCEPT ![pbSlot] = "free"]
                 /\ pbSlot' = NoSlot

\* A write error other than an xrun, or one xrun too many.
PlaybackFail ==
  /\ pb = "write"
  /\ \/ UNCHANGED pbXruns
     \/ "xrun" \in PbResults /\ pbXruns + 1 > XrunLimit /\ pbXruns' = pbXruns + 1
  /\ error' = TRUE
  /\ pb' = "exited"
  /\ ReleasePlayed
  /\ UNCHANGED <<running, control, capVars, cdcVars, spq, mpFrame>>

\* The frame is played, or lost to a recovered xrun.
PlaybackDone ==
  /\ pb = "write"
  /\ \/ "frames" \in PbResults /\ pbXruns' = 0
     \/ "xrun" \in PbResults /\ pbXruns + 1 <= XrunLimit /\ pbXruns' = pbXruns + 1
  /\ pb' = "loop"
  /\ ReleasePlayed
  /\ UNCHANGED <<running, error, control, capVars, cdcVars, spq, mpFrame>>

Playback == PlaybackLoop \/ PlaybackDequeue \/ PlaybackFail \/ PlaybackDone

-----------------------------------------------------------------------------
Spawning == SpawnPlayback \/ SpawnCodec \/ SpawnCapture
Joining == JoinCapture \/ JoinCodec \/ JoinPlayback

Next == \/ InitStream \/ Start \/ Spawning \/ Stop \/ Joining \/ Destroy
        \/ Capture \/ Codec \/ Playback

\* Every thread that can go on does: the kernel schedules them, and the device
\* calls return (with data or an error).  Nobody is obliged to start or stop.
Fairness == /\ WF_vars(Spawning) /\ WF_vars(Joining)
            /\ WF_vars(Capture) /\ WF_vars(Codec) /\ WF_vars(Playback)

Spec == Init /\ [][Next]_vars /\ Fairness

-----------------------------------------------------------------------------
(* Correctness *)

TypeOK ==
  /\ hasCodec \in Codecs /\ running \in BOOLEAN /\ error \in BOOLEAN
  /\ opened \subseteq Devices \cup Pools \cup {"codec"} /\ dropped \in BOOLEAN
  /\ cap_dev.period_frames = pb_dev.period_frames
  /\ ctl \in {"new", "failed", "stopped", "spawn playback", "spawn codec", "spawn capture",
              "started", "join capture", "join codec", "join playback", "destroyed", "crashed"}
  /\ session \in 0 .. MaxStarts /\ spawned \subseteq Threads
  /\ cap \in {"none", "loop", "read", "discard", "exited"}
  /\ cdc \in {"none", "loop", "acquire", "encode", "drain", "sentinel", "exited"}
  /\ pb \in {"none", "loop", "dequeue", "write", "exited"}
  /\ capXruns \in 0 .. XrunLimit + 1 /\ pbXruns \in 0 .. XrunLimit + 1
  /\ spq \in Seq(Frames) /\ SpUsed <= N
  /\ cdcFrame \in Frames
  /\ mpState \in [Slots -> {"free", "claimed", "ready", "playing"}]
  /\ mpFrame \in [Slots -> Frames]
  /\ {cdcSlot, pbSlot} \subseteq Slots \cup {NoSlot}

Gone(pc) == pc \in {"none", "exited"}

\* A slot of the locked pool is claimed by the codec thread or being played by
\* the playback thread exactly while that thread is about to give it up: no
\* error path, drop or shutdown leaks a slot, and no slot has two users.
SlotsAccounted ==
  /\ {s \in Slots : mpState[s] = "claimed"} = {cdcSlot} \ {NoSlot}
  /\ {s \in Slots : mpState[s] = "playing"} = {pbSlot} \ {NoSlot}
  /\ cdc = "encode" <=> cdcSlot # NoSlot
  /\ pb = "write" <=> pbSlot # NoSlot

\* stop terminates: the playback thread is never left asleep in the locked
\* pool, even when the pool was full and the shutdown signal was given up.  It
\* needs the codec thread, which sends the signal, to exist; a join of another
\* thread that was never created may crash.
StopTerminates ==
  (ctl = "join capture" /\ "codec" \in spawned) ~> (ctl \in {"stopped", "crashed"})

\* Nothing is left open by an init that fails at any step, or by destroy; what a
\* live thread uses is open; and stop and destroy leave no thread, whichever of
\* the threads could be created.
ResourcesHeld ==
  /\ ctl \in {"failed", "destroyed"} => opened = {}
  /\ ctl \in {"stopped", "destroyed"} => Gone(cap) /\ Gone(cdc) /\ Gone(pb)
  /\ ~Gone(cap) => {"capture", "sp pool"} \subseteq opened
  /\ ~Gone(cdc) => Pools \cup CodecOf \subseteq opened
  /\ ~Gone(pb)  => {"playback", "mp pool"} \subseteq opened

\* The rings of both devices of a stream are usable (see AudioDevice).
DevicesUsable ==
  "capture" \in opened => Usable(cap_dev) /\ Usable(pb_dev)

\* A started pass-through stream does not fall silent: it reaches the next
\* write, raises its error, or is stopped.  A second start raises the error,
\* since its devices are still dropped.
AudioFlows ==
  (ctl = "started" /\ ~hasCodec /\ spawned = Threads)
    ~> (pb = "write" \/ error \/ ctl # "started")

\* A stopped stream is drained ("Stop threads and drain").
DrainedWhenStopped == ctl = "stopped" => spq = <<>> /\ Ready = {}
=============================================================================
