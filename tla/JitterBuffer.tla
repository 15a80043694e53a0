----------------------------- MODULE JitterBuffer -----------------------------
(***************************************************************************)
(* The slots of a jitter buffer and the operations on them                 *)
(* (rv_opus_jitter.c), as operators on the array `pk` of its slots.        *)
(***************************************************************************)
EXTENDS Integers

CONSTANTS Cap,       \* RV_OPUS_JITTER_CAP
          SeqMod     \* number of sequence numbers, 2^16

ASSUME CapAssumption == Cap \in Nat \ {0}
ASSUME SeqAssumption == SeqMod \in Nat /\ SeqMod > Cap /\ SeqMod % Cap = 0

Slots == 0 .. Cap - 1
SeqNos == 0 .. SeqMod - 1

SlotForSeq(seq) == seq % Cap

\* Mutant: a slot plays whatever it holds, its number unseen.
Mut_Holds(pk, seq) == pk[SlotForSeq(seq)].valid
Holds(pk, seq) == pk[SlotForSeq(seq)].valid /\ pk[SlotForSeq(seq)].seq = seq

\* Mutants: concealment whenever asked (the endless silence after a talk spurt
\* the code once had); a search that stops one short of the window.
Mut_FutureAlways(pk, want) == TRUE
Mut_FutureShort(pk, want) ==
  \E ahead \in 1 .. Cap - 2 : Holds(pk, (want + ahead) % SeqMod)
HasFuturePacket(pk, want) ==
  \E ahead \in 1 .. Cap - 1 : Holds(pk, (want + ahead) % SeqMod)

\* The buffer as rv_opus_jitter_init leaves it.
Empty(none) == [s \in Slots |-> [seq |-> 0, valid |-> FALSE, payload |-> none]]

\* The buffer with a packet put in its slot, over whatever was there.
\* Mutant: the slot keeps the number it had.
Mut_Stored(pk, seq, data) ==
  [pk EXCEPT ![SlotForSeq(seq)] = [@ EXCEPT !.valid = TRUE, !.payload = data]]
Stored(pk, seq, data) ==
  [pk EXCEPT ![SlotForSeq(seq)] = [seq |-> seq, valid |-> TRUE, payload |-> data]]

\* The buffer with the packet for `seq` played.
Taken(pk, seq) == [pk EXCEPT ![SlotForSeq(seq)].valid = FALSE]

\* Mutant: the number does not wrap.
Mut_NextSeq(seq) == seq + 1
NextSeq(seq) == (seq + 1) % SeqMod
===============================================================================
