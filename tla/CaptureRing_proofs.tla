-------------------------- MODULE CaptureRing_proofs --------------------------
(***************************************************************************)
(* Theorems about CaptureRing: its inductive invariant, the absence of a   *)
(* data race on the slots, and that it implements BoundedFifo (the safety  *)
(* part; the liveness part rests on fairness and is checked by TLC).       *)
(***************************************************************************)
EXTENDS CaptureRing, ModuloLemmas, TLAPS

--------------------------------------------------------------------------------
(* Index arithmetic.                                                        *)

\* Index differences and increments stay inside the range of the indices.
LEMMA IndexType ==
  /\ \A a, b \in Index : Minus(a, b) \in Index
  /\ \A a \in Index, n \in Index : Plus(a, n) \in Index
BY IndexAssumption, CapAssumption DEF Index, Minus, Plus

\* A slot number is a valid array subscript (voice.c:66, 82).
LEMMA SlotType == \A i \in Index : Slot(i) \in 0 .. Cap - 1
BY CapAssumption, IndexAssumption DEF Slot, Index

\* Indices less than Cap apart name different slots, also across the wrap:
\* this needs Cap to divide IndexMod (16 divides 2^32).
LEMMA SlotDistinct ==
  ASSUME NEW a \in Index, NEW b \in Index, 0 < Minus(a, b), Minus(a, b) < Cap
  PROVE  Slot(a) # Slot(b)
<1> DEFINE qa == a \div Cap
           qb == b \div Cap
           qm == IndexMod \div Cap
<1>1. /\ a = Cap * qa + Slot(a) /\ qa \in Int
      /\ b = Cap * qb + Slot(b) /\ qb \in Int
      /\ IndexMod = Cap * qm /\ qm \in Int
  BY CapAssumption, IndexAssumption DEF Slot, Index
<1> SUFFICES ASSUME Slot(a) = Slot(b) PROVE FALSE
  OBVIOUS
<1> HIDE DEF qa, qb, qm
<1>t. a \in Int /\ b \in Int /\ Slot(a) \in Int /\ Cap \in Nat \ {0}
  BY SlotType, CapAssumption, IndexAssumption DEF Index
<1>2. a - b = Cap * (qa - qb)
  BY <1>1, <1>t, SMT
<1>3. CASE a >= b
  <2>1. Cap * (qa - qb) > 0 /\ Cap * (qa - qb) < Cap
    BY <1>2, <1>3, <1>t DEF Minus
  <2> QED
    BY <2>1, <1>1, <1>t, MultipleFar
<1>4. CASE a < b
  <2>1. a - b + IndexMod = Cap * (qa - qb + qm)
    BY <1>1, <1>2, <1>t, SMT
  <2>2. Cap * (qa - qb + qm) > 0 /\ Cap * (qa - qb + qm) < Cap
    BY <2>1, <1>4, <1>t DEF Minus
  <2> QED
    BY <2>2, <1>1, <1>t, MultipleFar
<1> QED
  BY <1>3, <1>4, <1>t

\* A load moves what its thread knows closer to the current value, never past
\* it: `hi` is ahead of the index loaded, `old` is what was loaded before.
LEMMA LoadBehind ==
  ASSUME NEW hi \in Index, NEW cur \in Index, NEW old \in Index,
         Minus(hi, old) = Minus(hi, cur) + Minus(cur, old),
         NEW new \in Loadable(cur, old)
  PROVE  /\ new \in Index
         /\ Minus(hi, new) = Minus(hi, cur) + Minus(cur, new)
         /\ Minus(hi, new) <= Minus(hi, old)
<1>1. PICK n \in 0 .. Minus(cur, old) : new = Plus(old, n)
  BY DEF Loadable
<1> QED
  BY <1>1, IndexAssumption, CapAssumption DEF Index, Minus, Plus

\* The same for the consumer, whose own index `lo` is behind the one loaded.
LEMMA LoadAhead ==
  ASSUME NEW lo \in Index, NEW cur \in Index, NEW old \in Index,
         Minus(cur, lo) = Minus(cur, old) + Minus(old, lo),
         NEW new \in Loadable(cur, old)
  PROVE  /\ new \in Index
         /\ Minus(cur, lo) = Minus(cur, new) + Minus(new, lo)
         /\ new # lo => Minus(new, lo) > 0
<1>1. PICK n \in 0 .. Minus(cur, old) : new = Plus(old, n)
  BY DEF Loadable
<1> QED
  BY <1>1, IndexAssumption, CapAssumption DEF Index, Minus, Plus

\* Advancing the upper index adds one to a distance that is not at its limit.
LEMMA AdvanceHi ==
  ASSUME NEW hi \in Index, NEW lo \in Index, Minus(hi, lo) < Cap
  PROVE  Minus(Plus(hi, 1), lo) = Minus(hi, lo) + 1
BY IndexAssumption, CapAssumption DEF Index, Minus, Plus

\* Advancing the lower index takes one from a distance that is not zero.
LEMMA AdvanceLo ==
  ASSUME NEW hi \in Index, NEW lo \in Index, Minus(hi, lo) > 0
  PROVE  Minus(hi, Plus(lo, 1)) = Minus(hi, lo) - 1
BY IndexAssumption, CapAssumption DEF Index, Minus, Plus

\* The index i places after lo, for a place in use or just after the last.
LEMMA PlaceAfter ==
  ASSUME NEW hi \in Index, NEW lo \in Index, NEW i \in 0 .. Minus(hi, lo)
  PROVE  /\ Plus(lo, i) \in Index
         /\ Minus(hi, Plus(lo, i)) = Minus(hi, lo) - i
         /\ i = Minus(hi, lo) => Plus(lo, i) = hi
         /\ i > 0 => Plus(lo, i) = Plus(Plus(lo, 1), i - 1)
BY IndexAssumption, CapAssumption DEF Index, Minus, Plus

--------------------------------------------------------------------------------
(* Type correctness.                                                        *)

\* A memset frame is a frame.
LEMMA ZeroedType == Zeroed \in Frame
BY FrameAssumption DEF Zeroed, Frame

\* Every variable keeps its type in every reachable state of the ring
\* (voice.c:53-57), for every capacity that divides the index range.
THEOREM TypeCorrect == SafeSpec => []TypeOK
<1>1. Init => TypeOK
  BY ZeroedType, IndexAssumption, CapAssumption DEF Init, TypeOK, Index
<1>2. TypeOK /\ [Next]_vars => TypeOK'
  <2> SUFFICES ASSUME TypeOK, [Next]_vars PROVE TypeOK'
    OBVIOUS
  <2> USE DEF TypeOK
  <2>1. CASE PushRefuse
    <3>1. PICK ri \in Loadable(r, pR) : pR' = ri
      BY <2>1 DEF PushRefuse
    <3>2. ri \in Index
      BY <3>1, IndexAssumption, CapAssumption DEF Loadable, Index, Minus, Plus
    <3> QED
      BY <2>1, <3>1, <3>2 DEF PushRefuse, consumerVars
  <2>2. CASE PushStart
    <3>1. PICK ri \in Loadable(r, pR), f \in Frame : pR' = ri /\ pFrame' = f
      BY <2>2 DEF PushStart
    <3>2. ri \in Index
      BY <3>1, IndexAssumption, CapAssumption DEF Loadable, Index, Minus, Plus
    <3> QED
      BY <2>2, <3>1, <3>2 DEF PushStart, consumerVars
  <2>3. CASE PushCount
    <3>1. slots' \in [0 .. Cap - 1 -> Frame]
      BY <2>3, SlotType DEF PushCount, Frame
    <3> QED
      BY <2>3, <3>1 DEF PushCount, consumerVars
  <2>4. CASE PushSamples
    <3>1. slots' \in [0 .. Cap - 1 -> Frame]
      BY <2>4, SlotType DEF PushSamples, Frame
    <3> QED
      BY <2>4, <3>1 DEF PushSamples, consumerVars
  <2>5. CASE PushPublish
    <3>1. w' \in Index
      BY <2>5, IndexAssumption, CapAssumption DEF PushPublish, Index, Plus
    <3> QED
      BY <2>5, <3>1 DEF PushPublish, consumerVars
  <2>6. CASE PopEmpty
    BY <2>6 DEF PopEmpty, producerVars
  <2>7. CASE PopStart
    <3>1. PICK wi \in Loadable(w, cW) : cW' = wi
      BY <2>7 DEF PopStart
    <3>2. wi \in Index
      BY <3>1, IndexAssumption, CapAssumption DEF Loadable, Index, Minus, Plus
    <3> QED
      BY <2>7, <3>1, <3>2 DEF PopStart, producerVars
  <2>8. CASE PopCount
    <3>1. cFrame' \in Frame
      BY <2>8, SlotType DEF PopCount, Frame
    <3> QED
      BY <2>8, <3>1 DEF PopCount, producerVars
  <2>9. CASE PopSamples
    <3>1. cFrame' \in Frame
      BY <2>9, SlotType DEF PopSamples, Frame
    <3> QED
      BY <2>9, <3>1 DEF PopSamples, producerVars
  <2>10. CASE PopPublish
    <3>1. r' \in Index
      BY <2>10, IndexAssumption, CapAssumption DEF PopPublish, Index, Plus
    <3> QED
      BY <2>10, <3>1 DEF PopPublish, producerVars
  <2>11. CASE UNCHANGED vars
    BY <2>11 DEF vars, producerVars, consumerVars
  <2> QED
    BY <2>1, <2>2, <2>3, <2>4, <2>5, <2>6, <2>7, <2>8, <2>9, <2>10, <2>11
    DEF Next, Producer, Consumer
<1> QED
  BY <1>1, <1>2, PTL DEF SafeSpec

--------------------------------------------------------------------------------
(* The inductive invariant.                                                 *)

\* With two indices less than Cap apart the slot of the upper one is free.
LEMMA FreeSlot ==
  ASSUME NEW hi \in Index, NEW lo \in Index, Minus(hi, lo) < Cap,
         NEW i \in 1 .. Minus(hi, lo)
  PROVE  /\ Plus(lo, i - 1) \in Index
         /\ Slot(Plus(lo, i - 1)) # Slot(hi)
<1>1. i - 1 \in 0 .. Minus(hi, lo) /\ Minus(hi, lo) \in Index
  BY IndexType DEF Index
<1>2. Plus(lo, i - 1) \in Index /\ Minus(hi, Plus(lo, i - 1)) = Minus(hi, lo) - (i - 1)
  BY <1>1, PlaceAfter
<1>3. 0 < Minus(hi, Plus(lo, i - 1)) /\ Minus(hi, Plus(lo, i - 1)) < Cap
  BY <1>1, <1>2, CapAssumption DEF Index
<1> QED
  BY <1>2, <1>3, SlotDistinct

\* How far apart the five indices are, and what that says of the frames held.
LEMMA Distances ==
  ASSUME IInv
  PROVE  /\ Cap \in Nat /\ Cap > 0
         /\ w \in Index /\ r \in Index /\ pR \in Index /\ cW \in Index
         /\ Minus(w, r) \in Nat /\ Minus(r, pR) \in Nat /\ Minus(w, pR) \in Nat
         /\ Minus(w, cW) \in Nat /\ Minus(cW, r) \in Nat
         /\ Minus(w, r) = Held /\ Held \in 0 .. Cap
         /\ pPc # "idle" => Minus(w, r) < Cap /\ Minus(w, pR) < Cap
         /\ cPc # "idle" => Held > 0 /\ Minus(r, pR) < Cap
<1>1. /\ Minus(w, r) \in Nat /\ Minus(r, pR) \in Nat /\ Minus(w, pR) \in Nat
      /\ Minus(w, cW) \in Nat /\ Minus(cW, r) \in Nat
  BY IndexType DEF IInv, TypeOK, Index
<1> QED
  BY <1>1, CapAssumption DEF IInv, TypeOK, IndexInv

\* The invariant holds of the ring rv_ring_init leaves (voice.c:59-62).
LEMMA InvInit == Init => IInv
<1> SUFFICES ASSUME Init PROVE IInv
  OBVIOUS
<1>1. TypeOK
  BY ZeroedType, IndexAssumption, CapAssumption DEF Init, TypeOK, Index
<1>2. IndexInv /\ ContentInv /\ CopyInv
  BY CapAssumption DEF Init, IndexInv, ContentInv, CopyInv, Held, Minus
<1> QED
  BY <1>1, <1>2 DEF IInv

\* The producer's steps preserve it.
LEMMA InvProducer ==
  ASSUME IInv, TypeOK', Producer
  PROVE  IInv'
<1> USE DEF IInv
<1>1. CASE PushRefuse
  <2>1. PICK ri \in Loadable(r, pR) : pR' = ri
    BY <1>1 DEF PushRefuse
  <2>2. IndexInv'
    <3>1. /\ ri \in Index /\ Minus(w, ri) = Minus(w, r) + Minus(r, ri)
          /\ Minus(w, ri) <= Minus(w, pR)
      BY LoadBehind, Distances DEF IndexInv
    <3>2. Minus(w, ri) \in Nat
      BY <3>1, Distances, IndexType DEF Index
    <3>3. Minus(w, ri) <= Cap
      BY <3>1, <3>2, Distances DEF IndexInv
    <3> QED
      BY <1>1, <2>1, <3>1, <3>2, <3>3, Distances
      DEF PushRefuse, consumerVars, IndexInv, Held
  <2>3. ContentInv' /\ CopyInv'
    BY <1>1 DEF PushRefuse, consumerVars, ContentInv, CopyInv, Held
  <2> QED
    BY <2>2, <2>3
<1>2. CASE PushStart
  <2>1. PICK ri \in Loadable(r, pR) : pR' = ri /\ ~Full(ri)
    BY <1>2 DEF PushStart
  <2>2. IndexInv'
    <3>1. /\ ri \in Index /\ Minus(w, ri) = Minus(w, r) + Minus(r, ri)
          /\ Minus(w, ri) <= Minus(w, pR)
      BY LoadBehind, Distances DEF IndexInv
    <3>2. Minus(w, ri) \in Nat
      BY <3>1, Distances, IndexType DEF Index
    <3>3. Minus(w, ri) <= Cap
      BY <3>1, <3>2, Distances DEF IndexInv
    <3> QED
      BY <1>2, <2>1, <3>1, <3>2, <3>3, Distances
      DEF PushStart, consumerVars, IndexInv, Held, Full
  <2>3. ContentInv'
    BY <1>2 DEF PushStart, consumerVars, ContentInv, Held
  <2>4. CopyInv'
    BY <1>2 DEF PushStart, consumerVars, CopyInv
  <2> QED
    BY <2>2, <2>3, <2>4
<1>3. CASE PushCount
  <2>1. Minus(w, r) = Held /\ Held \in Nat /\ Minus(w, r) < Cap
    BY <1>3, Distances DEF PushCount
  <2>2. IndexInv'
    BY <1>3 DEF PushCount, consumerVars, IndexInv, Held
  <2>3. ContentInv'
    BY <1>3, <2>1, FreeSlot, SlotType DEF PushCount, ContentInv, Held, TypeOK
  <2>4. slots'[Slot(w)].count = pFrame.count
    BY <1>3, SlotType DEF PushCount, TypeOK, Frame
  <2>5. CopyInv'
    BY <1>3, <2>4 DEF PushCount, consumerVars, CopyInv
  <2> QED
    BY <2>2, <2>3, <2>5
<1>4. CASE PushSamples
  <2>1. Minus(w, r) = Held /\ Held \in Nat /\ Minus(w, r) < Cap
    BY <1>4, Distances DEF PushSamples
  <2>2. IndexInv'
    BY <1>4 DEF PushSamples, consumerVars, IndexInv, Held
  <2>3. ContentInv'
    BY <1>4, <2>1, FreeSlot, SlotType DEF PushSamples, ContentInv, Held, TypeOK
  <2>4. slots'[Slot(w)].count = pFrame.count /\ slots'[Slot(w)] = pFrame
    BY <1>4, SlotType DEF PushSamples, CopyInv, TypeOK, Frame
  <2>5. CopyInv'
    BY <1>4, <2>4 DEF PushSamples, consumerVars, CopyInv
  <2> QED
    BY <2>2, <2>3, <2>5
<1>5. CASE PushPublish
  <2>1. /\ Minus(w, r) = Held /\ Held \in Nat /\ Minus(w, r) < Cap
        /\ Minus(w, pR) < Cap /\ Minus(w, cW) \in Nat /\ Minus(w, cW) < Cap
    BY <1>5, Distances DEF PushPublish, IndexInv
  <2>2. Held' = Held + 1
    BY <1>5 DEF PushPublish, Held, TypeOK
  <2>3. IndexInv'
    <3>1. /\ Minus(w', r) = Minus(w, r) + 1 /\ Minus(w', pR) = Minus(w, pR) + 1
          /\ Minus(w', cW) = Minus(w, cW) + 1
      BY <1>5, <2>1, AdvanceHi, Distances DEF PushPublish
    <3>2. /\ Minus(w, pR) + 1 = (Minus(w, r) + 1) + Minus(r, pR)
          /\ Minus(w, r) + 1 = (Minus(w, cW) + 1) + Minus(cW, r)
          /\ Minus(w, pR) + 1 <= Cap
      BY <2>1, Distances DEF IndexInv
    <3> QED
      BY <1>5, <2>1, <2>2, <3>1, <3>2 DEF PushPublish, consumerVars, IndexInv
  <2>4. \A i \in 1 .. Held : accepted'[Len(delivered) + i] = accepted[Len(delivered) + i]
    BY <1>5 DEF PushPublish, Held, TypeOK
  <2>5. accepted'[Len(delivered) + Held'] = pFrame
    BY <1>5, <2>2 DEF PushPublish, Held, TypeOK
  <2>6. slots[Slot(Plus(r, Held' - 1))] = pFrame
    BY <1>5, <2>1, <2>2, PlaceAfter DEF PushPublish, CopyInv, TypeOK
  <2>7. ASSUME NEW i \in 1 .. Held'
        PROVE  slots[Slot(Plus(r, i - 1))] = accepted'[Len(delivered) + i]
    <3>1. i \in 1 .. Held \/ i = Held'
      BY <2>1, <2>2
    <3> QED
      BY <3>1, <2>4, <2>5, <2>6 DEF ContentInv
  <2>9. ContentInv'
    BY <1>5, <2>7 DEF PushPublish, ContentInv
  <2>8. CopyInv'
    <3>1. cPc # "idle" => 1 \in 1 .. Held
      BY Distances
    <3>2. cPc # "idle" =>
            accepted'[Len(delivered) + 1] = accepted[Len(delivered) + 1]
      BY <3>1, <2>4
    <3> QED
      BY <1>5, <3>2 DEF PushPublish, consumerVars, CopyInv
  <2> QED
    BY <2>3, <2>8, <2>9
<1> QED
  BY <1>1, <1>2, <1>3, <1>4, <1>5 DEF Producer

\* The consumer's steps preserve it.
LEMMA InvConsumer ==
  ASSUME IInv, TypeOK', Consumer
  PROVE  IInv'
<1> USE DEF IInv
<1>1. CASE PopEmpty
  <2>1. IndexInv'
    BY <1>1, LoadAhead, IndexAssumption, CapAssumption, IndexType
    DEF PopEmpty, producerVars, IndexInv, TypeOK, Index, Held
  <2>2. ContentInv' /\ CopyInv'
    BY <1>1 DEF PopEmpty, producerVars, ContentInv, CopyInv, Held
  <2> QED
    BY <2>1, <2>2
<1>2. CASE PopStart
  <2>1. PICK wi \in Loadable(w, cW) : wi # r /\ cW' = wi
    BY <1>2 DEF PopStart
  <2>2. IndexInv'
    BY <1>2, <2>1, LoadAhead, IndexAssumption, CapAssumption, IndexType
    DEF PopStart, producerVars, IndexInv, TypeOK, Index, Held
  <2>3. ContentInv' /\ CopyInv'
    BY <1>2 DEF PopStart, producerVars, ContentInv, CopyInv, Held
  <2> QED
    BY <2>2, <2>3
<1>3. CASE PopCount
  <2>1. slots[Slot(r)] = accepted[Len(delivered) + 1]
    <3>1. 1 \in 1 .. Held
      BY <1>3, Distances DEF PopCount
    <3>2. Plus(r, 1 - 1) = r
      BY IndexAssumption DEF TypeOK, Index, Plus
    <3> QED
      BY <3>1, <3>2 DEF ContentInv
  <2>2. IndexInv' /\ ContentInv'
    BY <1>3 DEF PopCount, producerVars, IndexInv, ContentInv, Held
  <2>3. cFrame'.count = accepted[Len(delivered) + 1].count
    BY <1>3, <2>1 DEF PopCount, TypeOK, Frame
  <2>4. CopyInv'
    BY <1>3, <2>3 DEF PopCount, producerVars, CopyInv
  <2> QED
    BY <2>2, <2>4
<1>4. CASE PopSamples
  <2>1. slots[Slot(r)] = accepted[Len(delivered) + 1] /\ slots[Slot(r)] \in Frame
    <3>1. 1 \in 1 .. Held
      BY <1>4, Distances DEF PopSamples
    <3>2. Plus(r, 1 - 1) = r
      BY IndexAssumption DEF TypeOK, Index, Plus
    <3> QED
      BY <3>1, <3>2, SlotType DEF ContentInv, TypeOK
  <2>2. IndexInv' /\ ContentInv'
    BY <1>4 DEF PopSamples, producerVars, IndexInv, ContentInv, Held
  <2>3. cFrame' = accepted[Len(delivered) + 1]
    BY <1>4, <2>1 DEF PopSamples, TypeOK, Frame, CopyInv
  <2>4. CopyInv'
    BY <1>4, <2>3 DEF PopSamples, producerVars, CopyInv
  <2> QED
    BY <2>2, <2>4
<1>5. CASE PopPublish
  <2>1. /\ Minus(w, r) = Held /\ Held \in Nat /\ Held > 0 /\ Held <= Cap
        /\ Minus(cW, r) > 0 /\ Minus(r, pR) < Cap
    BY <1>5, Distances DEF PopPublish, IndexInv
  <2>2. Held' = Held - 1 /\ Len(delivered') = Len(delivered) + 1
    BY <1>5 DEF PopPublish, Held, TypeOK
  <2>3. IndexInv'
    <3>1. /\ Minus(w, r') = Minus(w, r) - 1 /\ Minus(r', pR) = Minus(r, pR) + 1
          /\ Minus(cW, r') = Minus(cW, r) - 1
      BY <1>5, <2>1, AdvanceHi, AdvanceLo, Distances DEF PopPublish
    <3>2. /\ Minus(w, pR) = (Minus(w, r) - 1) + (Minus(r, pR) + 1)
          /\ Minus(w, r) - 1 = Minus(w, cW) + (Minus(cW, r) - 1)
      BY <2>1, Distances DEF IndexInv
    <3> QED
      BY <1>5, <2>1, <2>2, <3>1, <3>2 DEF PopPublish, producerVars, IndexInv
  <2>4. ASSUME NEW i \in 1 .. Held'
        PROVE  slots[Slot(Plus(r', i - 1))] = accepted[Len(delivered') + i]
    <3>1. i + 1 \in 1 .. Held /\ i \in 0 .. Minus(w, r) /\ i > 0
      BY <2>1, <2>2
    <3>2. Plus(r, (i + 1) - 1) = Plus(r', i - 1)
      BY <1>5, <3>1, PlaceAfter DEF PopPublish, TypeOK
    <3>3. Len(delivered) + (i + 1) = Len(delivered') + i
      BY <2>2 DEF TypeOK
    <3> QED
      BY <3>1, <3>2, <3>3 DEF ContentInv
  <2>5. ContentInv'
    BY <1>5, <2>4 DEF PopPublish, ContentInv
  <2>6. CopyInv'
    BY <1>5 DEF PopPublish, producerVars, CopyInv
  <2> QED
    BY <2>3, <2>5, <2>6
<1> QED
  BY <1>1, <1>2, <1>3, <1>4, <1>5 DEF Consumer

\* A stuttering step preserves it.
LEMMA InvStutter == IInv /\ UNCHANGED vars => IInv'
BY DEF vars, producerVars, consumerVars, IInv, TypeOK, IndexInv, ContentInv,
       CopyInv, Held

\* The indices, the slots and the half-made copies of the capture ring agree
\* with the history of what was accepted and delivered (voice.c:59-89), for
\* every capacity, index range and frame contents.
THEOREM Invariance == SafeSpec => []IInv
<1>1. IInv /\ TypeOK' /\ [Next]_vars => IInv'
  BY InvProducer, InvConsumer, InvStutter DEF Next
<1> QED
  BY InvInit, <1>1, TypeCorrect, PTL DEF SafeSpec

--------------------------------------------------------------------------------
(* What the invariant is for.                                               *)

\* The audio thread and the voice thread are never about to access the same
\* slot (voice.c:67-68, 82-83), whatever the capacity and the index range.
THEOREM DataRaceFree == SafeSpec => []NoDataRace
<1>1. IInv => NoDataRace
  <2> SUFFICES ASSUME IInv, pPc \in {"count", "samples"}, cPc \in {"count", "samples"}
               PROVE  Slot(w) # Slot(r)
    BY DEF NoDataRace
  <2>1. w \in Index /\ r \in Index /\ 0 < Minus(w, r) /\ Minus(w, r) < Cap
    BY Distances
  <2> QED
    BY <2>1, SlotDistinct
<1> QED
  BY <1>1, Invariance, PTL

\* Every step of the ring is a step of the bounded FIFO or leaves it alone:
\* frames leave in the order they were accepted, whole and once, and at most
\* Cap of them are held (voice.c:59-89).
THEOREM ImplementsFifo == SafeSpec => FifoSafe
<1>1. Init => Fifo!Init
  BY DEF Init, Fifo!Init
<1>2. IInv /\ [Next]_vars => [Fifo!Next]_(Fifo!vars)
  <2> SUFFICES ASSUME IInv, [Next]_vars PROVE [Fifo!Next]_(Fifo!vars)
    OBVIOUS
  <2>0. Held = Fifo!Held
    BY DEF Held, Fifo!Held
  <2>1. CASE PushPublish
    <3>1. pFrame \in Frame
      BY DEF IInv, TypeOK
    <3>2. Fifo!Held < Cap
      BY <2>0, <2>1, Distances DEF PushPublish
    <3>3. Fifo!Put(pFrame)
      BY <2>1, <3>2 DEF PushPublish, Fifo!Put
    <3> QED
      BY <3>1, <3>3 DEF Fifo!Next
  <2>2. CASE PopPublish
    <3>1. Fifo!Held > 0
      BY <2>0, <2>2, Distances DEF PopPublish
    <3>2. cFrame = accepted[Len(delivered) + 1]
      BY <2>2 DEF PopPublish, IInv, CopyInv
    <3>3. Fifo!Take
      BY <2>2, <3>1, <3>2 DEF PopPublish, Fifo!Take
    <3> QED
      BY <3>3 DEF Fifo!Next
  <2>3. CASE \/ PushRefuse \/ PushStart \/ PushCount \/ PushSamples
             \/ PopEmpty \/ PopStart \/ PopCount \/ PopSamples
    <3>1. UNCHANGED Fifo!vars
      BY <2>3 DEF PushRefuse, PushStart, PushCount, PushSamples, PopEmpty,
                  PopStart, PopCount, PopSamples, Fifo!vars
    <3> QED
      BY <3>1
  <2>4. CASE UNCHANGED vars
    BY <2>4 DEF vars, Fifo!vars
  <2> QED
    BY <2>1, <2>2, <2>3, <2>4 DEF Next, Producer, Consumer
<1> QED
  BY <1>1, <1>2, Invariance, PTL DEF SafeSpec, FifoSafe, Fifo!SafeSpec

\* No step of either thread rewrites a slot that holds a frame (voice.c:63).
THEOREM HeldFramesKept == SafeSpec => HeldFramesStable
<1> DEFINE Kept == \A i \in 1 .. Held : slots'[Slot(Plus(r, i - 1))]
                                          = slots[Slot(Plus(r, i - 1))]
<1>1. IInv /\ [Next]_vars => [Kept]_vars
  <2> SUFFICES ASSUME IInv, Next, NEW i \in 1 .. Held
               PROVE  slots'[Slot(Plus(r, i - 1))] = slots[Slot(Plus(r, i - 1))]
    OBVIOUS
  <2>1. CASE PushCount \/ PushSamples
    <3>2. Minus(w, r) < Cap /\ Minus(w, r) = Held
      BY <2>1, Distances DEF PushCount, PushSamples
    <3>3. Plus(r, i - 1) \in Index /\ Slot(Plus(r, i - 1)) # Slot(w)
      BY <3>2, FreeSlot DEF IInv, TypeOK
    <3> QED
      BY <2>1, <3>3, SlotType DEF PushCount, PushSamples, IInv, TypeOK
  <2>2. CASE UNCHANGED slots
    BY <2>2
  <2> QED
    BY <2>1, <2>2
    DEF Next, Producer, Consumer, PushRefuse, PushStart, PushPublish, PopEmpty,
        PopStart, PopCount, PopSamples, PopPublish
<1> QED
  BY <1>1, Invariance, PTL DEF SafeSpec, HeldFramesStable
================================================================================
