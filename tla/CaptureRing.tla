------------------------------ MODULE CaptureRing ------------------------------
(***************************************************************************)
(* The capture queue of voice.c: a lock-free ring between the audio thread *)
(* (rv_ring_push, the producer) and the voice thread (rv_ring_pop, the     *)
(* consumer).  The threads interleave between every two memory accesses:   *)
(* an index load, the write or read of one half of a slot, an index store. *)
(*                                                                         *)
(* The indices are unsigned and wrap at IndexMod (2^32 in the code).  An   *)
(* acquire load may return an old value of the other thread's index, but   *)
(* none older than the one it returned last (coherence), so each thread    *)
(* keeps what it last loaded.                                              *)
(***************************************************************************)
EXTENDS Integers, Sequences

CONSTANTS Cap,          \* RV_CAPTURE_RING_CAP
          IndexMod,     \* one more than the largest index value
          MaxSamples,   \* RV_CAPTURE_MAX_SAMPLES
          Counts,       \* the sample counts a caller may pass
          Data,         \* the contents of the sample array, abstractly
          Silence,      \* the contents of a zeroed sample array
          MaxAccepted   \* bound: frames accepted in one behaviour

ASSUME CapAssumption == Cap \in Nat \ {0}
ASSUME IndexAssumption == /\ IndexMod \in Nat
                          /\ IndexMod > Cap
                          /\ IndexMod % Cap = 0
ASSUME FrameAssumption == /\ Counts \subseteq Nat /\ 0 \in Counts
                          /\ MaxSamples \in Nat
                          /\ Silence \in Data
ASSUME BoundAssumption == MaxAccepted \in Nat

Frame == [count : Counts, samples : Data]

\* rv_voice_create clears the whole engine with memset.
Zeroed == [count |-> 0, samples |-> Silence]

VARIABLES
  w, r,        \* the two atomic indices
  slots,       \* slot -> the two fields of rv_pcm_frame_t
  pPc,         \* where the producer is in rv_ring_push
  pFrame,      \* the producer's arguments
  pR,          \* the value of r the producer last loaded
  cPc,         \* where the consumer is in rv_ring_pop
  cFrame,      \* the consumer's *out
  cW,          \* the value of w the consumer last loaded
  accepted,    \* history: the frames whose push returned 1
  delivered    \* history: the frames whose pop returned 1

producerVars == <<pPc, pFrame, pR>>
consumerVars == <<cPc, cFrame, cW>>
vars == <<w, r, slots, producerVars, consumerVars, accepted, delivered>>

Index == 0 .. IndexMod - 1

\* Unsigned subtraction and addition of index values.
Minus(a, b) == IF a >= b THEN a - b ELSE a - b + IndexMod
Plus(a, n) == IF a + n < IndexMod THEN a + n ELSE a + n - IndexMod

\* Mutant: the slot number no longer follows the index at its wrap.
Mut_SlotShifted(i) == IF i = IndexMod - 1 THEN 0 ELSE i % Cap
Slot(i) == i % Cap

\* What a load may return: the current value or one not older than `seen`.
Loadable(current, seen) == {Plus(seen, n) : n \in 0 .. Minus(current, seen)}

Init == /\ w = 0 /\ r = 0
        /\ slots = [i \in 0 .. Cap - 1 |-> Zeroed]
        /\ pPc = "idle" /\ pFrame = Zeroed /\ pR = 0
        /\ cPc = "idle" /\ cFrame = Zeroed /\ cW = 0
        /\ accepted = <<>> /\ delivered = <<>>

--------------------------------------------------------------------------------
(* The producer: rv_ring_push.                                             *)

\* Mutants: a ring that takes one frame too many, as with `>`; a ring that
\* compares the indices as signed values.
Mut_FullLate(ri) == Minus(w, ri) > Cap
Mut_FullSigned(ri) == w - ri >= Cap
Full(ri) == Minus(w, ri) >= Cap

BadCount(n) == n = 0 \/ n > MaxSamples

\* The push returns 0: the ring looks full, or the sample count is refused.
PushRefuse ==
  /\ pPc = "idle"
  /\ \E ri \in Loadable(r, pR), f \in Frame :
       /\ Full(ri) \/ BadCount(f.count)
       /\ pR' = ri
  /\ UNCHANGED <<w, r, slots, pPc, pFrame, consumerVars, accepted, delivered>>

PushStart ==
  /\ pPc = "idle"
  /\ Len(accepted) < MaxAccepted
  /\ \E ri \in Loadable(r, pR), f \in Frame :
       /\ ~Full(ri) /\ ~BadCount(f.count)
       /\ pR' = ri
       /\ pFrame' = f
  /\ pPc' = "count"
  /\ UNCHANGED <<w, r, slots, consumerVars, accepted, delivered>>

PushCount ==
  /\ pPc = "count"
  /\ slots' = [slots EXCEPT ![Slot(w)].count = pFrame.count]
  /\ pPc' = "samples"
  /\ UNCHANGED <<w, r, pFrame, pR, consumerVars, accepted, delivered>>

PushSamples ==
  /\ pPc = "samples"
  /\ slots' = [slots EXCEPT ![Slot(w)].samples = pFrame.samples]
  /\ pPc' = "publish"
  /\ UNCHANGED <<w, r, pFrame, pR, consumerVars, accepted, delivered>>

PushPublish ==
  /\ pPc = "publish"
  /\ w' = Plus(w, 1)
  /\ accepted' = Append(accepted, pFrame)
  /\ pPc' = "idle"
  /\ UNCHANGED <<r, slots, pFrame, pR, consumerVars, delivered>>

Producer == PushRefuse \/ PushStart \/ PushCount \/ PushSamples \/ PushPublish

--------------------------------------------------------------------------------
(* The consumer: rv_ring_pop.                                              *)

\* The pop returns 0: no frame is visible.
PopEmpty ==
  /\ cPc = "idle"
  /\ r \in Loadable(w, cW)
  /\ cW' = r
  /\ UNCHANGED <<w, r, slots, producerVars, cPc, cFrame, accepted, delivered>>

PopStart ==
  /\ cPc = "idle"
  /\ \E wi \in Loadable(w, cW) : wi # r /\ cW' = wi
  /\ cPc' = "count"
  /\ UNCHANGED <<w, r, slots, producerVars, cFrame, accepted, delivered>>

PopCount ==
  /\ cPc = "count"
  /\ cFrame' = [cFrame EXCEPT !.count = slots[Slot(r)].count]
  /\ cPc' = "samples"
  /\ UNCHANGED <<w, r, slots, producerVars, cW, accepted, delivered>>

PopSamples ==
  /\ cPc = "samples"
  /\ cFrame' = [cFrame EXCEPT !.samples = slots[Slot(r)].samples]
  /\ cPc' = "publish"
  /\ UNCHANGED <<w, r, slots, producerVars, cW, accepted, delivered>>

\* Mutant: the pop forgets to release the slot.
Mut_PopKeepsSlot ==
  /\ cPc = "publish"
  /\ delivered' = Append(delivered, cFrame)
  /\ cPc' = "idle"
  /\ UNCHANGED <<w, r, slots, producerVars, cFrame, cW, accepted>>
PopPublish ==
  /\ cPc = "publish"
  /\ r' = Plus(r, 1)
  /\ delivered' = Append(delivered, cFrame)
  /\ cPc' = "idle"
  /\ UNCHANGED <<w, slots, producerVars, cFrame, cW, accepted>>

Consumer == PopEmpty \/ PopStart \/ PopCount \/ PopSamples \/ PopPublish

Next == Producer \/ Consumer

SafeSpec == Init /\ [][Next]_vars

--------------------------------------------------------------------------------
(* Fairness: each thread finishes a call it has begun, the voice thread    *)
(* keeps calling rv_ring_pop (every rv_voice_tick does until it returns 0) *)
(* and a store to w becomes visible to it in finite time.                  *)
Fairness ==
  /\ WF_vars(PushCount \/ PushSamples \/ PushPublish)
  /\ WF_vars(PopCount \/ PopSamples \/ PopPublish)
  /\ WF_vars(PopStart)

Spec == SafeSpec /\ Fairness

--------------------------------------------------------------------------------
(* Properties.                                                             *)

Held == Len(accepted) - Len(delivered)

\* Every variable keeps its type.
TypeOK ==
  /\ w \in Index /\ r \in Index
  /\ slots \in [0 .. Cap - 1 -> Frame]
  /\ pPc \in {"idle", "count", "samples", "publish"}
  /\ pFrame \in Frame /\ pR \in Index
  /\ cPc \in {"idle", "count", "samples", "publish"}
  /\ cFrame \in Frame /\ cW \in Index
  /\ accepted \in Seq(Frame) /\ delivered \in Seq(Frame)

\* The indices tell how many frames are held, and what a thread last loaded
\* errs only on the safe side.
IndexInv ==
  /\ Minus(w, r) = Held
  /\ Minus(w, pR) = Minus(w, r) + Minus(r, pR)
  /\ Minus(w, pR) <= Cap
  /\ Minus(w, r) = Minus(w, cW) + Minus(cW, r)
  /\ pPc # "idle" => Minus(w, pR) < Cap
  /\ cPc # "idle" => Minus(cW, r) > 0

\* The frames held are stored, in order, in the slots from r on.
ContentInv == \A i \in 1 .. Held :
                slots[Slot(Plus(r, i - 1))] = accepted[Len(delivered) + i]

\* What a thread has already copied is what it should have copied.
CopyInv ==
  /\ pPc \in {"samples", "publish"} => slots[Slot(w)].count = pFrame.count
  /\ pPc = "publish" => slots[Slot(w)] = pFrame
  /\ cPc \in {"samples", "publish"} =>
       cFrame.count = accepted[Len(delivered) + 1].count
  /\ cPc = "publish" => cFrame = accepted[Len(delivered) + 1]

\* The inductive invariant: the two wrapping indices, the stale copies of them
\* each thread decides by, the slots and the half-made copies all agree with
\* the history of what was accepted and delivered (voice.c:59-89).
IInv == TypeOK /\ IndexInv /\ ContentInv /\ CopyInv

\* The slot contents are written and read with plain memcpy while only the
\* indices are atomic (voice.c:67-68, 82-83): the two threads must never be
\* about to access the same slot at the same time.
NoDataRace == ~ /\ pPc \in {"count", "samples"}
                /\ cPc \in {"count", "samples"}
                /\ Slot(w) = Slot(r)

\* A frame that is held (pushed with result 1 and not yet popped) is never
\* overwritten, whatever the two threads do next (voice.c:63).
HeldFramesStable ==
  [][\A i \in 1 .. Held : slots'[Slot(Plus(r, i - 1))]
                            = slots[Slot(Plus(r, i - 1))]]_vars

\* The ring implements the bounded FIFO: order, no loss, no duplicate and no
\* torn frame among those accepted, at most Cap held, and every frame that
\* was accepted is eventually handed to the voice thread.
Fifo == INSTANCE BoundedFifo
FifoSpec == Fifo!Spec
FifoSafe == Fifo!SafeSpec
================================================================================
