----------------------------- MODULE FrameQueue -----------------------------
(***************************************************************************)
(* What the single-producer single-consumer frame pool of libbb/bb_pool.c  *)
(* promises its two users: a bounded FIFO of numbered frames.  The         *)
(* producer publishes frames 1, 2, 3, ...; the consumer takes them in that *)
(* order, keeps each as long as it likes, and gives it back.  Published    *)
(* and kept frames never exceed the number of buffers of the pool.         *)
(***************************************************************************)
EXTENDS Naturals, Sequences, FiniteSets

CONSTANTS Capacity,      \* buffers in the pool
          MaxFrames      \* bound on the number of published frames

VARIABLES last,          \* number of the last published frame
          queue,         \* published frames, oldest first
          kept           \* frames the consumer took and has not given back

vars == <<last, queue, kept>>

Init == last = 0 /\ queue = <<>> /\ kept = {}

Publish == /\ last < MaxFrames
           /\ Len(queue) + Cardinality(kept) < Capacity
           /\ last' = last + 1
           /\ queue' = Append(queue, last + 1)
           /\ UNCHANGED kept

Take == /\ queue # <<>>
        /\ kept' = kept \cup {Head(queue)}
        /\ queue' = Tail(queue)
        /\ UNCHANGED last

GiveBack == /\ \E f \in kept : kept' = kept \ {f}
            /\ UNCHANGED <<last, queue>>

Next == Publish \/ Take \/ GiveBack

Spec == Init /\ [][Next]_vars
=============================================================================
