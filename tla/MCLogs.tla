---- MODULE MCLogs ----
(* A block with a log file and one thread that logs fatal messages, a block with
   two that only writes to stderr. *)
EXTENDS Logs, TLC

CONSTANTS filing, plain, f1, p1, p2

MCBlocks == {filing, plain}
MCThreads == {f1, p1, p2}
MCOwner == [t \in MCThreads |-> IF t = f1 THEN filing ELSE plain]
MCMasks == [b \in MCBlocks |-> IF b = filing THEN {{"file"}, {"file", "stderr"}} ELSE {{"stderr"}}]
MCSucceeded == {1, 3}

(* The three parts have only the power supply in common: they are explored one at a
   time, each from the states in which the others have not begun, the entries while
   no block runs and the reports while no block has a file.  Reports that share a
   second are looked at in the first one. *)
Filed == \E b \in Blocks : written[b] # 0
Reported == \E s \in Secs : openings[s] # 0
Apart == /\ adds # 0 => ~Filed /\ ~Reported /\ now = 0 /\ \A b \in Blocks : ~up[b]
         /\ Reported => ~Filed /\ \A b \in Blocks : up[b] => dest_mask[b] = {"stderr"}
         /\ openings[1] < 2

Alike == Permutations({p1, p2})
====
