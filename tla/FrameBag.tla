------------------------------ MODULE FrameBag ------------------------------
(***************************************************************************)
(* What the locked frame pool of libbb/bb_pool.c really promises: every    *)
(* published frame is delivered at most once, none is invented, and at     *)
(* most Capacity frames wait.  It promises no order.                       *)
(***************************************************************************)
EXTENDS Naturals, FiniteSets

CONSTANTS Capacity,      \* buffers in the pool
          MaxFrames      \* frames are numbered 1 .. MaxFrames

VARIABLES waiting,       \* frames published and not delivered
          delivered      \* frames delivered so far

vars == <<waiting, delivered>>

Init == waiting = {} /\ delivered = {}

Put == /\ Cardinality(waiting) < Capacity
       /\ \E f \in 1 .. MaxFrames \ (waiting \cup delivered) :
            waiting' = waiting \cup {f}
       /\ UNCHANGED delivered

Get == \E f \in waiting : /\ waiting' = waiting \ {f}
                          /\ delivered' = delivered \cup {f}

Next == Put \/ Get

Spec == Init /\ [][Next]_vars
=============================================================================
