-------------------------------- MODULE Logs --------------------------------
(***************************************************************************)
(* The logs of a board together: the blocks' log files and the reports of  *)
(* fatal messages (BlockLog), and the boot and update logs (EntryLog).     *)
(* They share the power supply: a cut ends every block.                    *)
(***************************************************************************)
EXTENDS BlockLog, EntryLog

CONSTANT MaxFaults    \* bound on the power cuts and the torn appends

Init == LogInit /\ EntryInit

PowerCut == Cut /\ PowerOff

Next == \/ LogNext /\ UNCHANGED entryVars
        \/ faults < MaxFaults /\ EntryNext /\ UNCHANGED logVars
        \/ faults < MaxFaults /\ PowerCut

Spec == Init /\ [][Next]_<<logVars, entryVars>>

TypeOK == LogTypeOK /\ EntryTypeOK
=============================================================================
