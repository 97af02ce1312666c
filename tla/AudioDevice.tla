----------------------------- MODULE AudioDevice -----------------------------
(***************************************************************************)
(* hal/bb_hal_audio.c: what bb_audio_open makes of a request and of the    *)
(* ranges HW_REFINE reports, and when the kernel takes the result.         *)
(*                                                                         *)
(* hw has the ranges of channels, rate and period, in frames, and the      *)
(* limits of the buffer in frames and in bytes.  A request cfg is          *)
(* [rate, channels, fmt].  A pcm is the bb_audio_t of an open device, with *)
(* its hardware and its software parameters.                               *)
(***************************************************************************)
EXTENDS Integers

Formats == {"S16_LE", "S24_LE", "S32_LE"}

clamp(v, lo, hi) == IF v < lo THEN lo ELSE IF v > hi THEN hi ELSE v

fmt_bytes(fmt) == CASE fmt = "S16_LE" -> 2 [] fmt = "S24_LE" -> 3 [] OTHER -> 4

FrameBytes(channels, fmt) == channels * fmt_bytes(fmt)

\* About 10 ms, at least 16 frames, in the hardware's range.
PeriodTarget(hw, rate) ==
  LET p == clamp(rate \div 100, hw.periodMin, hw.periodMax)
      q == IF p < 16 THEN 16 ELSE p
  IN  IF q > hw.periodMax THEN hw.periodMax ELSE q

\* The frames both limits of the buffer allow.
BufferRoom(hw, channels, fmt) ==
  LET byBytes == hw.bytesMax \div FrameBytes(channels, fmt)
  IN  IF hw.bufferMax > byBytes THEN byBytes ELSE hw.bufferMax

\* Mutant: the rest that fills no period is kept.
WholePeriods_Rest(room, period) == room

WholePeriods(room, period) == (room \div period) * period

Negotiated(hw, dir, cfg) ==
  LET channels == clamp(cfg.channels, hw.channelsMin, hw.channelsMax)
      rate     == clamp(cfg.rate, hw.rateMin, hw.rateMax)
      period   == PeriodTarget(hw, rate)
      buffer   == WholePeriods(BufferRoom(hw, channels, cfg.fmt), period)
  IN  [hw |-> hw, fmt |-> cfg.fmt, rate |-> rate, channels |-> channels,
       period_frames |-> period, buffer_frames |-> buffer,
       start_threshold |-> IF dir = "capture" THEN 1 ELSE 2 * period]

\* HW_PARAMS takes a single value of each interval or refuses the request.
Accepts(hw, pcm) ==
  /\ pcm.channels \in hw.channelsMin .. hw.channelsMax
  /\ pcm.rate \in hw.rateMin .. hw.rateMax
  /\ pcm.period_frames \in hw.periodMin .. hw.periodMax
  /\ pcm.buffer_frames \in hw.bufferMin .. hw.bufferMax
  /\ pcm.buffer_frames * FrameBytes(pcm.channels, pcm.fmt) <= hw.bytesMax

\* What bb_audio_read and bb_audio_write may return: frames, -EPIPE or another
\* error.  A closed device gives -EINVAL and a dropped one -EBADFD.
Results(open, dropped) ==
  IF open /\ ~dropped THEN {"frames", "xrun", "error"} ELSE {"error"}

-----------------------------------------------------------------------------
\* The ring of an open device holds whole periods and, wherever the hardware
\* has room for two, enough of them for the stream to start by itself: the
\* threshold (2 periods for playback) is reached before the ring is full.
Usable(pcm) ==
  /\ pcm.buffer_frames % pcm.period_frames = 0
  /\ pcm.buffer_frames <= BufferRoom(pcm.hw, pcm.channels, pcm.fmt)
  /\ 2 * pcm.period_frames <= BufferRoom(pcm.hw, pcm.channels, pcm.fmt)
       => pcm.start_threshold <= pcm.buffer_frames
=============================================================================
