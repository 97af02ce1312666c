---- MODULE MCAudioStream ----
(* Two devices and two requests for the model checker. *)
EXTENDS AudioStream

\* Room for many periods of 10 ms.
Roomy == [channelsMin |-> 1, channelsMax |-> 2, rateMin |-> 8000, rateMax |-> 48000,
          periodMin |-> 32, periodMax |-> 1024,
          bufferMin |-> 64, bufferMax |-> 4096, bytesMax |-> 8192]

\* Long periods, of which only one fits, and no whole number of the bytes.
Tight == [Roomy EXCEPT !.periodMin = 600, !.bufferMax = 1100, !.bytesMax = 4000]

MCHardware == {Roomy, Tight}
MCConfigs == {[rate |-> 96000, channels |-> 2, fmt |-> "S16_LE"],
              [rate |-> 8000, channels |-> 4, fmt |-> "S24_LE"]}
====
