----------------------------- MODULE MCLedBlock -----------------------------
(* Commands of different lengths for the LED block. *)
EXTENDS LedBlock

\* The line of a command, in n pieces.
MCLine(command, n) == [i \in 1 .. n |-> [newline |-> i = n, cmd |-> command.cmd, count |-> command.count]]

Plain(cmd) == [cmd |-> cmd, count |-> 0]

\* One of them does not fit a buffer of two pieces.
MCLines == {MCLine([cmd |-> "blink", count |-> 1], 2), MCLine(Plain("blink"), 1),
            MCLine(Plain("off"), 1), MCLine(Plain("on"), 1), MCLine(Plain("on"), 3),
            MCLine(Plain("heartbeat"), 2), MCLine(Plain("status"), 1),
            MCLine(Plain("other"), 1)}
=============================================================================
