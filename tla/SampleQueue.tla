------------------------------- MODULE SampleQueue -------------------------------
(***************************************************************************)
(* What a playback buffer promises: a queue of samples that gives them out  *)
(* once and in order, and makes room for new ones by forgetting the oldest. *)
(* PlaybackBuffer implements it with an array and two indices.              *)
(***************************************************************************)
EXTENDS Integers, Sequences

CONSTANTS Cap,      \* how many samples it holds
          Puts,     \* what may be put into it at once
          ReadMax   \* how many samples may be taken at once

VARIABLE q

\* The last n of a sequence, or all of it.
Newest(s, n) == IF Len(s) <= n THEN s ELSE SubSeq(s, Len(s) - n + 1, Len(s))

Put(chunk) == q' = Newest(q \o chunk, Cap)
Take(n) == q' = SubSeq(q, n + 1, Len(q))
Clear == q' = <<>>

Next == (\E chunk \in Puts : Put(chunk)) \/ (\E n \in 1 .. ReadMax : Take(n)) \/ Clear

Spec == q = <<>> /\ [][Next]_q
================================================================================
