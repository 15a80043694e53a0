------------------------------ MODULE OpusJitter ------------------------------
(***************************************************************************)
(* The jitter buffer of one remote speaker (rv_opus_jitter.c), between a   *)
(* network that loses, duplicates, delays and reorders that speaker's      *)
(* packets and a voice thread that pops once per rv_voice_tick.            *)
(*                                                                         *)
(* Packets are named by their place in the stream, 0, 1, 2, ...; the code  *)
(* sees only SeqNo, the place modulo SeqMod (2^16).  The place a popped    *)
(* packet really has (`payload`) and the place playback has reached        *)
(* (`position`) are history: no action of the code reads them.             *)
(***************************************************************************)
EXTENDS JitterBuffer

CONSTANTS Starts,    \* places at which the receiver may come in
          MaxSent,   \* bound: packets sent in one behaviour
          MaxDelay   \* bound: how many younger packets may be sent while one
                     \* is still in flight

ASSUME EnvAssumption == /\ Starts \subseteq Nat
                        /\ MaxSent \in Nat /\ MaxDelay \in Nat

VARIABLES
  first,        \* the place of the first packet sent in this behaviour
  sent,         \* the place of the next packet to be sent
  net,          \* places of the packets in flight
  packets,      \* jb->packets
  nextPlaySeq,  \* jb->next_play_seq
  started,      \* jb->started
  position,     \* history: the place playback has reached
  arrived,      \* history: the places of the packets pushed
  displaced,    \* history: those whose slot another packet has taken since
  last          \* history: what the last pop returned

netVars == <<first, sent, net>>
bufferVars == <<packets, nextPlaySeq, started>>
vars == <<netVars, bufferVars, position, arrived, displaced, last>>

SeqNo(place) == place % SeqMod

Nothing == [kind |-> "idle", place |-> 0, payload |-> 0]

Init ==
  /\ first \in Starts /\ sent = first /\ net = {}
  /\ packets = Empty(0)
  /\ nextPlaySeq = 0 /\ started = FALSE
  /\ position = 0 /\ arrived = {} /\ displaced = {} /\ last = Nothing

--------------------------------------------------------------------------------
(* The sender and the network.                                              *)

Send ==
  /\ sent < first + MaxSent
  /\ \A n \in net : sent - n < MaxDelay
  /\ net' = net \cup {sent}
  /\ sent' = sent + 1
  /\ UNCHANGED <<first, bufferVars, position, arrived, displaced, last>>

\* A packet is lost, or arrives with a length rv_opus_jitter_push refuses.
Lose == \E n \in net :
  /\ net' = net \ {n}
  /\ UNCHANGED <<first, sent, bufferVars, position, arrived, displaced, last>>

--------------------------------------------------------------------------------
(* The buffer.                                                              *)

\* rv_opus_jitter_push: the packet takes its slot, whatever is there; the first
\* one sets where playback begins.
Push(n) ==
  /\ packets' = Stored(packets, SeqNo(n), n)
  /\ started' = TRUE
  /\ nextPlaySeq' = IF started THEN nextPlaySeq ELSE SeqNo(n)
  /\ position' = IF started THEN position ELSE n

\* The slot of the packet of a place.
SlotOf(n) == SlotForSeq(SeqNo(n))

\* A packet arrives; the network may hand over the same one again later.
Deliver == \E n \in net :
  /\ Push(n)
  /\ net' \in {net, net \ {n}}
  /\ arrived' = arrived \cup {n}
  /\ displaced' = (displaced \cup {m \in arrived : SlotOf(m) = SlotOf(n)}) \ {n}
  /\ UNCHANGED <<first, sent, last>>

Advance == /\ nextPlaySeq' = NextSeq(nextPlaySeq)
           /\ position' = position + 1

\* rv_opus_jitter_pop, the wanted packet is here.
PopPlay ==
  /\ started /\ Holds(packets, nextPlaySeq)
  /\ packets' = Taken(packets, nextPlaySeq)
  /\ Advance
  /\ last' = [kind |-> "voice", place |-> position,
              payload |-> packets[SlotForSeq(nextPlaySeq)].payload]
  /\ UNCHANGED <<netVars, started, arrived, displaced>>

\* rv_opus_jitter_pop, the wanted packet is missing and a later one is here.
\* Mutants: the later packet is looked for before the wanted one; the gap is
\* concealed without being passed.
Mut_PopConceal ==
  /\ started /\ HasFuturePacket(packets, nextPlaySeq)
  /\ Advance
  /\ last' = [kind |-> "plc", place |-> position, payload |-> 0]
  /\ UNCHANGED <<netVars, packets, started, arrived, displaced>>
Mut_ConcealStays ==
  /\ started /\ ~Holds(packets, nextPlaySeq) /\ HasFuturePacket(packets, nextPlaySeq)
  /\ last' = [kind |-> "plc", place |-> position, payload |-> 0]
  /\ UNCHANGED <<netVars, bufferVars, position, arrived, displaced>>
PopConceal ==
  /\ started /\ ~Holds(packets, nextPlaySeq) /\ HasFuturePacket(packets, nextPlaySeq)
  /\ Advance
  /\ last' = [kind |-> "plc", place |-> position, payload |-> 0]
  /\ UNCHANGED <<netVars, packets, started, arrived, displaced>>

\* rv_opus_jitter_pop returns 0.
PopIdle ==
  /\ \/ ~started
     \/ ~Holds(packets, nextPlaySeq) /\ ~HasFuturePacket(packets, nextPlaySeq)
  /\ last' = Nothing
  /\ UNCHANGED <<netVars, bufferVars, position, arrived, displaced>>

Pop == PopPlay \/ PopConceal \/ PopIdle

Next == Send \/ Lose \/ Deliver \/ Pop

SafeSpec == Init /\ [][Next]_vars

\* The host ticks the engine "once per frame or fixed timestep", and every
\* tick pops every speaker's buffer once.
Spec == SafeSpec /\ WF_vars(Pop)

--------------------------------------------------------------------------------
(* Properties.                                                              *)

TypeOK ==
  /\ first \in Nat /\ sent \in Nat /\ net \subseteq Nat
  /\ packets \in [Slots -> [seq : SeqNos, valid : BOOLEAN, payload : Nat]]
  /\ nextPlaySeq \in SeqNos /\ started \in BOOLEAN
  /\ position \in Nat /\ arrived \subseteq Nat /\ displaced \subseteq Nat
  /\ last \in [kind : {"idle", "voice", "plc"}, place : Nat, payload : Nat]

\* What a slot holds belongs to the sequence number written on it, came from
\* the network, and sits in that number's slot; the wanted number is that of
\* the place playback has reached, through the wrap (rv_opus_jitter.c:54-75).
BufferInv ==
  /\ \A s \in Slots : packets[s].valid =>
       /\ SlotForSeq(packets[s].seq) = s
       /\ packets[s].seq = SeqNo(packets[s].payload)
       /\ packets[s].payload \in arrived
  /\ started => nextPlaySeq = SeqNo(position)

\* A packet is only ever played in a place with its own sequence number, and
\* only if it arrived (rv_opus_jitter.c:85-94).
Authentic == last.kind = "voice" => /\ SeqNo(last.payload) = SeqNo(last.place)
                                    /\ last.payload \in arrived

\* Playback is in order: in the behaviours of a run, shorter than the range
\* of sequence numbers, what is played is the packet of that very place, so
\* none is played twice, late, or out of turn, however the network reordered
\* and duplicated them (rv_opus_jitter.c:77-94).
InOrder == last.kind = "voice" => last.payload = last.place

\* Playback never runs past the newest packet that has arrived: silence does
\* not push the stream forward (rv_opus_jitter.c:17-18).
NeverOvertakes == started => \E n \in arrived : position <= n + 1

\* A frame is concealed only when its packet is not there: it has not arrived
\* yet, or a packet that arrived after it has taken its slot, be it a younger one,
\* because playback lagged, or a late one (rv_opus_jitter.c:54-66, 96-107).
ConcealsOnlyGaps ==
  [][(position' # position /\ last'.kind = "plc") =>
       position \notin arrived \/ position \in displaced]_vars

\* Once the stream has ended the buffer falls silent for good and emits no
\* more concealment (rv_opus_jitter.c:109-113).
StreamOver == net = {} /\ sent = first + MaxSent
FallsSilent == StreamOver ~> [](last.kind = "idle")

\* The window of the search: the places whose packets can be reached.
Reachable(n) == started /\ position <= n /\ n < position + Cap /\ n \in arrived

\* A packet that is within the buffer's reach is reached, through any gap, unless a
\* packet that arrives after it, younger or late, takes its slot
\* (rv_opus_jitter.c:13-31, 54-66).
Reaches == \A n \in UNION {s .. s + MaxSent - 1 : s \in Starts} :
             Reachable(n) ~> (position > n \/ n \in displaced)

\* The comment of has_future_packet: "If a later packet is already buffered,
\* allow PLC for the missing sequence so playback can advance through a real
\* packet-loss gap" (rv_opus_jitter.c:13-15).
LaterPacketLetsPlaybackAdvance ==
  /\ started /\ position \notin arrived
  /\ \E s \in Slots : packets[s].valid /\ packets[s].payload > position
  => HasFuturePacket(packets, nextPlaySeq)
================================================================================
