------------------------------ MODULE BoundedFifo ------------------------------
(***************************************************************************)
(* What a bounded single-producer, single-consumer queue promises, with no *)
(* trace of how it is stored: frames leave in the order they were          *)
(* accepted, each once, at most Cap are held, and a frame that was         *)
(* accepted is eventually taken.  CaptureRing implements it.               *)
(***************************************************************************)
EXTENDS Naturals, Sequences

CONSTANTS Frame,   \* the frames a producer may offer
          Cap      \* how many frames the queue holds

VARIABLES accepted,    \* every frame the queue has taken in, in order
          delivered    \* every frame the consumer has been given, in order

vars == <<accepted, delivered>>

Held == Len(accepted) - Len(delivered)

Init == accepted = <<>> /\ delivered = <<>>

Put(f) == /\ Held < Cap
          /\ accepted' = Append(accepted, f)
          /\ UNCHANGED delivered

Take == /\ Held > 0
        /\ delivered' = Append(delivered, accepted[Len(delivered) + 1])
        /\ UNCHANGED accepted

Next == (\E f \in Frame : Put(f)) \/ Take

SafeSpec == Init /\ [][Next]_vars

Spec == SafeSpec /\ WF_vars(Take)
================================================================================
