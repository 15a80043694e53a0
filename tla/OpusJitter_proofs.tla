-------------------------- MODULE OpusJitter_proofs --------------------------
(***************************************************************************)
(* Theorems about OpusJitter: what is played belongs to the sequence       *)
(* number it is played for, for every network; and while a stream and the  *)
(* buffer together are no longer than the range of sequence numbers, it is *)
(* the packet of that very place and playback never runs ahead.            *)
(***************************************************************************)
EXTENDS OpusJitter, ModuloLemmas

\* The strengthening of Authentic.
IInv == TypeOK /\ BufferInv /\ Authentic

\* Slots and sequence numbers are in range (rv_opus_jitter.c:4-7).
LEMMA Ranges ==
  /\ \A n \in Nat : SeqNo(n) \in SeqNos
  /\ \A q \in SeqNos : SlotForSeq(q) \in Slots
  /\ \A q \in SeqNos : NextSeq(q) \in SeqNos
BY CapAssumption, SeqAssumption
DEF SeqNo, SeqNos, SlotForSeq, Slots, NextSeq

\* The place d further on has the sequence number d further on, modulo SeqMod.
LEMMA SeqNoAdvance ==
  ASSUME NEW n \in Nat, NEW d \in Nat
  PROVE  SeqNo(n + d) = (SeqNo(n) + d) % SeqMod
<1>1. SeqMod \in Nat \ {0}
  BY CapAssumption, SeqAssumption
<1> QED
  BY <1>1, NextRemainder DEF SeqNo

--------------------------------------------------------------------------------
(* Type correctness.                                                        *)

\* The empty buffer is well typed (rv_opus_jitter_init).
LEMMA InitType == Init => TypeOK
<1> SUFFICES ASSUME Init PROVE TypeOK
  OBVIOUS
<1>1. 0 \in SeqNos
  BY CapAssumption, SeqAssumption DEF SeqNos
<1>2. [seq |-> 0, valid |-> FALSE, payload |-> 0]
        \in [seq : SeqNos, valid : BOOLEAN, payload : Nat]
  BY <1>1
<1>3. packets \in [Slots -> [seq : SeqNos, valid : BOOLEAN, payload : Nat]]
  BY <1>2 DEF Init, Empty
<1> QED
  BY <1>1, <1>3, EnvAssumption DEF Init, TypeOK, Nothing

\* Every variable keeps its type (rv_opus_jitter.h:12-23), for every capacity,
\* number range and network.
THEOREM TypeCorrect == SafeSpec => []TypeOK
<1>1. Init => TypeOK
  BY InitType
<1>2. TypeOK /\ [Next]_vars => TypeOK'
  <2> SUFFICES ASSUME TypeOK, [Next]_vars PROVE TypeOK'
    OBVIOUS
  <2> USE DEF TypeOK
  <2>1. CASE Send
    BY <2>1 DEF Send, bufferVars
  <2>2. CASE Lose
    BY <2>2 DEF Lose, bufferVars
  <2>3. CASE Deliver
    <3>1. PICK n \in net : /\ Push(n) /\ net' \in {net, net \ {n}}
                           /\ arrived' = arrived \cup {n}
                           /\ displaced' \subseteq displaced \cup arrived
                           /\ UNCHANGED <<first, sent, last>>
      BY <2>3 DEF Deliver
    <3>2. n \in Nat /\ SeqNo(n) \in SeqNos
      BY Ranges
    <3>3. packets' \in [Slots -> [seq : SeqNos, valid : BOOLEAN, payload : Nat]]
      BY <3>1, <3>2, Ranges DEF Push, Stored
    <3> QED
      BY <3>1, <3>2, <3>3 DEF Push
  <2>4. CASE PopPlay
    <3>1. packets' \in [Slots -> [seq : SeqNos, valid : BOOLEAN, payload : Nat]]
      BY <2>4, Ranges DEF PopPlay, Taken
    <3>2. position' \in Nat /\ nextPlaySeq' \in SeqNos
      BY <2>4, Ranges DEF PopPlay, Advance
    <3>3. last' \in [kind : {"idle", "voice", "plc"}, place : Nat, payload : Nat]
      BY <2>4, Ranges DEF PopPlay
    <3> QED
      BY <2>4, <3>1, <3>2, <3>3 DEF PopPlay, netVars
  <2>5. CASE PopConceal
    BY <2>5, Ranges DEF PopConceal, Advance, netVars
  <2>6. CASE PopIdle
    BY <2>6 DEF PopIdle, Nothing, netVars, bufferVars
  <2>7. CASE UNCHANGED vars
    BY <2>7 DEF vars, netVars, bufferVars
  <2> QED
    BY <2>1, <2>2, <2>3, <2>4, <2>5, <2>6, <2>7 DEF Next, Pop
<1> QED
  BY <1>1, <1>2, PTL DEF SafeSpec

--------------------------------------------------------------------------------
(* What a slot holds belongs to the number written on it.                   *)

\* The invariant holds of the empty buffer.
LEMMA BufferInit == Init => IInv
BY InitType DEF Init, Empty, IInv, BufferInv, Authentic, Nothing

\* Every step preserves the invariant, a wrap of the sequence numbers included.
LEMMA BufferStep ==
  ASSUME IInv, TypeOK', [Next]_vars
  PROVE  IInv'
<1> USE DEF IInv
<1>1. CASE Send \/ Lose \/ UNCHANGED vars
  BY <1>1 DEF Send, Lose, vars, netVars, bufferVars, BufferInv, Authentic
<1>2. CASE Deliver
  <2>1. PICK n \in net : /\ Push(n)
                         /\ arrived' = arrived \cup {n}
                         /\ last' = last
    BY <1>2 DEF Deliver
  <2>2. n \in Nat /\ SeqNo(n) \in SeqNos /\ SlotForSeq(SeqNo(n)) \in Slots
    BY Ranges DEF TypeOK
  <2>3. BufferInv'
    BY <2>1, <2>2 DEF Push, Stored, BufferInv, TypeOK
  <2>4. Authentic'
    BY <2>1 DEF Authentic
  <2> QED
    BY <2>3, <2>4
<1>3. CASE PopPlay
  <2>1. SeqNo(position + 1) = NextSeq(nextPlaySeq)
    BY <1>3, SeqNoAdvance DEF NextSeq, PopPlay, BufferInv, TypeOK
  <2>2. SlotForSeq(nextPlaySeq) \in Slots
    BY Ranges DEF TypeOK
  <2>3. BufferInv'
    BY <1>3, <2>1, <2>2 DEF PopPlay, Taken, Advance, BufferInv, TypeOK
  <2>4. Authentic'
    BY <1>3, <2>2 DEF PopPlay, Advance, BufferInv, Authentic, Holds
  <2> QED
    BY <2>3, <2>4
<1>4. CASE PopConceal
  <2>1. SeqNo(position + 1) = NextSeq(nextPlaySeq)
    BY <1>4, SeqNoAdvance DEF NextSeq, PopConceal, BufferInv, TypeOK
  <2>2. BufferInv' /\ Authentic'
    BY <1>4, <2>1 DEF PopConceal, Advance, BufferInv, Authentic
  <2> QED
    BY <2>2
<1>5. CASE PopIdle
  BY <1>5 DEF PopIdle, netVars, bufferVars, BufferInv, Authentic, Nothing
<1> QED
  BY <1>1, <1>2, <1>3, <1>4, <1>5 DEF Next, Pop

\* The invariant holds throughout.
LEMMA BufferInvariance == SafeSpec => []IInv
<1>1. IInv /\ TypeOK' /\ [Next]_vars => IInv'
  BY BufferStep
<1> QED
  BY BufferInit, <1>1, TypeCorrect, PTL DEF SafeSpec

\* The slots and the wanted number agree with what arrived and with the place
\* playback has reached, through any number of wraps (rv_opus_jitter.c:54-94).
THEOREM BufferCoherent == SafeSpec => []BufferInv
<1>1. IInv => BufferInv
  BY DEF IInv
<1> QED
  BY <1>1, BufferInvariance, PTL

\* A packet is only played in a place with its own sequence number, whatever
\* the network and however late (rv_opus_jitter.c:85-94).
THEOREM PlaysAuthentic == SafeSpec => []Authentic
<1>1. IInv => Authentic
  BY DEF IInv
<1> QED
  BY <1>1, BufferInvariance, PTL

--------------------------------------------------------------------------------
(* Streams short enough for sequence numbers to name packets uniquely.      *)

\* Packets come from the stream, and playback stays on it.
StreamInv ==
  /\ sent \in first .. first + MaxSent
  /\ \A n \in net \cup arrived : n \in first .. sent - 1
  /\ started => position \in first .. first + MaxSent

OrderInv == StreamInv /\ NeverOvertakes /\ InOrder

\* The packet a slot holds for the number `ahead` places on is the one of that
\* place and no other.
LEMMA HeldPlace ==
  ASSUME MaxSent + Cap <= SeqMod, IInv, OrderInv, started,
         NEW ahead \in 0 .. Cap - 1,
         NEW q, q = SeqNo(position + ahead), Holds(packets, q)
  PROVE  /\ packets[SlotForSeq(q)].payload = position + ahead
         /\ position + ahead \in arrived
<1> DEFINE n == packets[SlotForSeq(q)].payload
<1>1. /\ position \in Nat /\ first \in Nat /\ sent \in Nat /\ Cap \in Nat
      /\ MaxSent \in Nat /\ SeqMod \in Nat \ {0} /\ position + ahead \in Nat
  BY CapAssumption, SeqAssumption, EnvAssumption DEF IInv, TypeOK
<1>2. q \in SeqNos /\ SlotForSeq(q) \in Slots
  BY <1>1, Ranges
<1>3. SeqNo(n) = q /\ n \in arrived /\ n \in Nat
  BY <1>2 DEF Holds, IInv, BufferInv, TypeOK
<1>4. n \in first .. sent - 1 /\ sent <= first + MaxSent
      /\ position \in first .. first + MaxSent
  BY <1>3 DEF OrderInv, StreamInv
<1> HIDE DEF n
<1>5. n - (position + ahead) < SeqMod /\ (position + ahead) - n < SeqMod
  BY <1>1, <1>3, <1>4
<1>6. n = position + ahead
  BY <1>1, <1>3, <1>5, SameRemainder DEF SeqNo
<1> QED
  BY <1>3, <1>6 DEF n

\* Every step keeps playback in order and behind the newest arrival.
LEMMA OrderStep ==
  ASSUME MaxSent + Cap <= SeqMod, IInv, TypeOK', OrderInv, [Next]_vars
  PROVE  OrderInv'
<1>0. /\ position \in Nat /\ first \in Nat /\ sent \in Nat /\ Cap \in Nat \ {0}
      /\ MaxSent \in Nat /\ net \subseteq Nat /\ arrived \subseteq Nat
  BY CapAssumption, EnvAssumption DEF IInv, TypeOK
<1>1. CASE Send
  BY <1>0, <1>1
  DEF Send, bufferVars, OrderInv, StreamInv, NeverOvertakes, InOrder
<1>2. CASE Lose
  BY <1>2 DEF Lose, bufferVars, OrderInv, StreamInv, NeverOvertakes, InOrder
<1>3. CASE Deliver
  <2>1. PICK n \in net : /\ Push(n) /\ net' \in {net, net \ {n}}
                         /\ arrived' = arrived \cup {n}
                         /\ UNCHANGED <<first, sent, last>>
    BY <1>3 DEF Deliver
  <2>2. n \in first .. sent - 1 /\ n \in Nat
    BY <1>0 DEF OrderInv, StreamInv
  <2>3. StreamInv'
    BY <1>0, <2>1, <2>2 DEF Push, OrderInv, StreamInv
  <2>4. NeverOvertakes'
    BY <1>0, <2>1, <2>2 DEF Push, OrderInv, NeverOvertakes
  <2>5. InOrder'
    BY <2>1 DEF OrderInv, InOrder
  <2> QED
    BY <2>3, <2>4, <2>5 DEF OrderInv
<1>4. CASE PopPlay
  <2>1. 0 \in 0 .. Cap - 1 /\ position + 0 = position
    BY <1>0
  <2>2. nextPlaySeq = SeqNo(position + 0)
    BY <1>4, <2>1 DEF PopPlay, IInv, BufferInv
  <2>3. /\ packets[SlotForSeq(nextPlaySeq)].payload = position
        /\ position \in arrived
    BY <1>4, <2>1, <2>2, HeldPlace DEF PopPlay
  <2>4. position \in first .. sent - 1 /\ sent \in first .. first + MaxSent
    BY <2>3 DEF OrderInv, StreamInv
  <2>5. StreamInv'
    BY <1>0, <1>4, <2>4 DEF PopPlay, Advance, netVars, OrderInv, StreamInv
  <2>6. NeverOvertakes' /\ InOrder'
    BY <1>0, <1>4, <2>3 DEF PopPlay, Advance, NeverOvertakes, InOrder
  <2> QED
    BY <2>5, <2>6 DEF OrderInv
<1>5. CASE PopConceal
  <2>1. PICK ahead \in 1 .. Cap - 1 : Holds(packets, (nextPlaySeq + ahead) % SeqMod)
    BY <1>5 DEF PopConceal, HasFuturePacket
  <2>2. (nextPlaySeq + ahead) % SeqMod = SeqNo(position + ahead)
    BY <1>0, <1>5, SeqNoAdvance DEF PopConceal, IInv, BufferInv
  <2>3. position + ahead \in arrived
    BY <1>0, <1>5, <2>1, <2>2, HeldPlace DEF PopConceal
  <2>4. position + ahead \in first .. sent - 1 /\ sent \in first .. first + MaxSent
    BY <2>3 DEF OrderInv, StreamInv
  <2>5. StreamInv'
    BY <1>0, <1>5, <2>4 DEF PopConceal, Advance, netVars, OrderInv, StreamInv
  <2>6. NeverOvertakes' /\ InOrder'
    BY <1>0, <1>5, <2>3 DEF PopConceal, Advance, NeverOvertakes, InOrder
  <2> QED
    BY <2>5, <2>6 DEF OrderInv
<1>6. CASE PopIdle
  BY <1>6 DEF PopIdle, Nothing, netVars, bufferVars, OrderInv, StreamInv,
              NeverOvertakes, InOrder
<1>7. CASE UNCHANGED vars
  BY <1>7 DEF vars, netVars, bufferVars, OrderInv, StreamInv, NeverOvertakes,
              InOrder
<1> QED
  BY <1>1, <1>2, <1>3, <1>4, <1>5, <1>6, <1>7 DEF Next, Pop

\* In a stream that, with one buffer more, is no longer than the range of
\* sequence numbers, every packet is played in its own place or not at all,
\* in order and once, whatever the network and the ticks (rv_opus_jitter.c:77-94).
THEOREM PlaysInOrder ==
  ASSUME MaxSent + Cap <= SeqMod
  PROVE  SafeSpec => []InOrder
<1>1. Init => OrderInv
  BY EnvAssumption
  DEF Init, OrderInv, StreamInv, NeverOvertakes, InOrder, Nothing
<1>2. IInv /\ TypeOK' /\ OrderInv /\ [Next]_vars => OrderInv'
  BY OrderStep
<1>3. OrderInv => InOrder
  BY DEF OrderInv
<1> QED
  BY <1>1, <1>2, <1>3, TypeCorrect, BufferInvariance, PTL DEF SafeSpec

\* In such a stream concealment never carries playback past the newest packet
\* that has arrived (rv_opus_jitter.c:17-18, 96-107).
THEOREM StaysBehindArrivals ==
  ASSUME MaxSent + Cap <= SeqMod
  PROVE  SafeSpec => []NeverOvertakes
<1>1. Init => OrderInv
  BY EnvAssumption
  DEF Init, OrderInv, StreamInv, NeverOvertakes, InOrder, Nothing
<1>2. IInv /\ TypeOK' /\ OrderInv /\ [Next]_vars => OrderInv'
  BY OrderStep
<1>3. OrderInv => NeverOvertakes
  BY DEF OrderInv
<1> QED
  BY <1>1, <1>2, <1>3, TypeCorrect, BufferInvariance, PTL DEF SafeSpec
--------------------------------------------------------------------------------
(* What is concealed is missing.                                            *)

\* A packet that is not displaced is in its slot.
Kept(pk, n) == pk[SlotOf(n)].valid /\ pk[SlotOf(n)].payload = n

\* Every packet that came in and is still to be played is kept, or displaced.
KeptInv ==
  /\ ~started => arrived = {} /\ last.kind = "idle"
  /\ \A n \in arrived \ displaced : n >= position => Kept(packets, n)

\* Putting a packet in its slot keeps it, and what is kept in other slots.
LEMMA StoringKeeps ==
  ASSUME TypeOK, NEW n \in Nat, NEW m \in Nat,
         m = n \/ (Kept(packets, m) /\ SlotOf(m) # SlotOf(n))
  PROVE  Kept(Stored(packets, SeqNo(n), n), m)
<1>1. SlotOf(n) \in Slots /\ SlotOf(m) \in Slots
  BY Ranges DEF SlotOf
<1>2. PICK pk : pk = Stored(packets, SeqNo(n), n)
  OBVIOUS
<1>3. /\ pk[SlotOf(n)].valid /\ pk[SlotOf(n)].payload = n
      /\ SlotOf(m) # SlotOf(n) => pk[SlotOf(m)] = packets[SlotOf(m)]
  BY <1>1, <1>2 DEF Stored, SlotOf, TypeOK
<1> QED
  BY <1>2, <1>3 DEF Kept

\* Every step keeps the packets that are still to be played. The one that is
\* played is the one that was wanted, so that no other leaves its slot.
LEMMA KeptStep ==
  ASSUME MaxSent + Cap <= SeqMod, IInv, TypeOK', OrderInv, KeptInv, [Next]_vars
  PROVE  KeptInv'
<1>1. /\ position \in Nat /\ Cap \in Nat \ {0} /\ net \subseteq Nat /\ arrived \subseteq Nat
      /\ TypeOK
  BY CapAssumption, EnvAssumption DEF IInv, TypeOK
<1>2. CASE Send \/ Lose
  BY <1>2 DEF Send, Lose, bufferVars, KeptInv
<1>3. CASE Deliver
  <2>1. PICK n \in net :
          /\ Push(n) /\ arrived' = arrived \cup {n}
          /\ displaced' = (displaced \cup {m \in arrived : SlotOf(m) = SlotOf(n)}) \ {n}
    BY <1>3 DEF Deliver
  <2>2. /\ packets' = Stored(packets, SeqNo(n), n) /\ started' = TRUE
        /\ started => position' = position
    BY <2>1 DEF Push
  <2>3. ASSUME NEW m \in arrived' \ displaced', m >= position'
        PROVE  Kept(packets', m)
    <3>1. m \in Nat /\ n \in Nat
      BY <1>1, <2>1
    <3>2. CASE m = n
      BY <1>1, <2>2, <3>1, <3>2, StoringKeeps
    <3>3. CASE m # n
      <4>1. m \in arrived /\ m \notin displaced /\ SlotOf(m) # SlotOf(n)
        BY <2>1, <3>3
      <4>2. Kept(packets, m)
        BY <2>2, <2>3, <4>1 DEF KeptInv
      <4> QED
        BY <1>1, <2>2, <3>1, <4>1, <4>2, StoringKeeps
    <3> QED
      BY <3>2, <3>3
  <2> QED
    BY <2>2, <2>3 DEF KeptInv
<1>4. CASE PopPlay
  <2>1. 0 \in 0 .. Cap - 1 /\ position + 0 = position
    BY <1>1
  <2>2. nextPlaySeq = SeqNo(position + 0)
    BY <1>4, <2>1 DEF PopPlay, IInv, BufferInv
  <2>3. packets[SlotForSeq(nextPlaySeq)].payload = position
    BY <1>4, <2>1, <2>2, HeldPlace DEF PopPlay
  <2>4. ASSUME NEW n \in arrived \ displaced, n >= position + 1
        PROVE  Kept(packets', n)
    <3>1. n >= position /\ n # position /\ n \in Nat
      BY <1>1, <2>4
    <3>2. Kept(packets, n)
      BY <3>1 DEF KeptInv
    <3>3. SlotForSeq(nextPlaySeq) \in Slots /\ SlotOf(n) \in Slots
      BY <1>1, <3>1, Ranges DEF TypeOK, SlotOf
    <3>4. SlotOf(n) # SlotForSeq(nextPlaySeq) => packets'[SlotOf(n)] = packets[SlotOf(n)]
      BY <1>1, <1>4, <3>3 DEF PopPlay, Taken, TypeOK
    <3> QED
      BY <2>3, <3>1, <3>2, <3>4 DEF Kept
  <2>5. position' = position + 1 /\ arrived' = arrived /\ displaced' = displaced /\ started'
    BY <1>4 DEF PopPlay, Advance
  <2> QED
    BY <2>4, <2>5 DEF KeptInv
<1>5. CASE PopConceal
  <2>1. /\ position' = position + 1 /\ arrived' = arrived /\ displaced' = displaced
        /\ packets' = packets /\ started'
    BY <1>5 DEF PopConceal, Advance
  <2>2. \A n \in arrived : n >= position + 1 => n >= position
    BY <1>1
  <2> QED
    BY <2>1, <2>2 DEF KeptInv
<1>6. CASE PopIdle
  BY <1>6 DEF PopIdle, Nothing, bufferVars, KeptInv
<1>7. CASE UNCHANGED vars
  BY <1>7 DEF vars, bufferVars, KeptInv
<1> QED
  BY <1>2, <1>3, <1>4, <1>5, <1>6, <1>7 DEF Next, Pop

\* When a frame is concealed, its packet has not come in or is displaced.
LEMMA ConcealedIsMissing ==
  ASSUME IInv, KeptInv, [Next]_vars, position' # position, last'.kind = "plc"
  PROVE  position \notin arrived \/ position \in displaced
<1>1. PopConceal
  <2>1. CASE Deliver
    BY <2>1 DEF Deliver, Push, KeptInv
  <2>2. CASE PopPlay
    BY <2>2 DEF PopPlay
  <2> QED
    BY <2>1, <2>2 DEF Next, Pop, Send, Lose, PopIdle, vars
<1>2. started /\ ~Holds(packets, nextPlaySeq) /\ nextPlaySeq = SeqNo(position)
  BY <1>1 DEF PopConceal, IInv, BufferInv
<1>3. SUFFICES ASSUME position \in arrived \ displaced PROVE FALSE
  OBVIOUS
<1>4. position >= position /\ SlotOf(position) \in Slots
  BY Ranges DEF IInv, TypeOK, SlotOf
<1>5. packets[SlotOf(position)].valid /\ packets[SlotOf(position)].payload = position
  BY <1>3, <1>4 DEF KeptInv, Kept
<1>6. packets[SlotOf(position)].seq = SeqNo(position)
  BY <1>4, <1>5 DEF IInv, BufferInv
<1> QED
  BY <1>2, <1>5, <1>6 DEF Holds, SlotOf

\* In such a stream, over any network, only frames are concealed whose packet has
\* not come in, or has lost its slot to one that came in after it, younger or late
\* (rv_opus_jitter.c:54-66, 96-107).
THEOREM ConcealsMissing ==
  ASSUME MaxSent + Cap <= SeqMod
  PROVE  SafeSpec => ConcealsOnlyGaps
<1>1. Init => OrderInv
  BY EnvAssumption
  DEF Init, OrderInv, StreamInv, NeverOvertakes, InOrder, Nothing
<1>2. IInv /\ TypeOK' /\ OrderInv /\ [Next]_vars => OrderInv'
  BY OrderStep
<1>3. Init => KeptInv
  BY DEF Init, KeptInv, Nothing
<1>4. IInv /\ TypeOK' /\ OrderInv /\ KeptInv /\ [Next]_vars => KeptInv'
  BY KeptStep
<1>5. IInv /\ KeptInv /\ [Next]_vars =>
        [(position' # position /\ last'.kind = "plc") =>
           position \notin arrived \/ position \in displaced]_vars
  BY ConcealedIsMissing
<1> QED
  BY <1>1, <1>2, <1>3, <1>4, <1>5, TypeCorrect, BufferInvariance, PTL
  DEF SafeSpec, ConcealsOnlyGaps
================================================================================
