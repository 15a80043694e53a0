--------------------------- MODULE VoiceEngine_proofs ---------------------------
(***************************************************************************)
(* Theorems about VoiceEngine, for any host, capture ring, queues, number   *)
(* of speakers and clock: types, what is sent, that the engine is a         *)
(* VoiceSession to its transport, and what it tells its host and lets it    *)
(* hear.                                                                   *)
(***************************************************************************)
EXTENDS VoiceEngine, ModuloLemmas, SequenceTheorems, WellFoundedInduction

LocalType == [ptt : BOOLEAN, radio : BOOLEAN]

\* What may be in the event queue.
Texts == {"", "initialized", "join refused", "encode failed", "dropping voice"}
Messages == [type : {"log", "error"}, text : Texts, buf : {0, 1}]
Samples == Packets \cup {NoSamples} \cup (Players \X {Concealed})
FlagValues == {0} \cup {FlagsOf[n] : n \in Nat}
PcmEvents == [type : {"pcm"}, speaker : Players, flags : FlagValues,
              samples : Players, payload : Samples, live : BOOLEAN]
Events == Messages \cup PcmEvents
          \cup [type : {"connection"}, on : BOOLEAN]
          \cup [type : {"speaking"}, speaker : Players, on : BOOLEAN]

LinkType ==
  /\ connected \in BOOLEAN /\ sinceLink \in 0 .. MaxUnseen + 1
  /\ who \in Identities \cup {NoOne} /\ announced \in Identities \cup {NoOne}
  /\ joinRefused \in BOOLEAN /\ late \in Nat
  /\ captureMode \in CaptureModes /\ local \in LocalType
  /\ ring \in 0 .. RingCap /\ unseen \in 0 .. MaxUnseen /\ ring + unseen <= RingCap
  /\ outq \in Seq(OutPackets) /\ Len(outq) <= OutCap /\ seq \in 0 .. SeqMod - 1
  /\ game \in {"idle", "drain", "speakers"} /\ audio \in {"idle", "push"}
  /\ turn \in Players \cup {0} /\ (game = "speakers" <=> turn \in Players)

EventType ==
  /\ evq \in Seq(Events) /\ Len(evq) <= EventCap /\ evDropped \in BOOLEAN
  /\ msgBuf \in [{0, 1} -> Texts] /\ msgFlip \in {0, 1}

JitterPackets == [seq : Jitter!SeqNos, valid : BOOLEAN, payload : Nat]

ReceiveType ==
  /\ packets \in [Players -> [Jitter!Slots -> JitterPackets]]
  /\ nextPlay \in [Players -> Jitter!SeqNos] /\ started \in [Players -> BOOLEAN]
  /\ speaking \in [Players -> BOOLEAN]
  /\ lastRxMs \in [Players -> 0 .. ClockMod - 1]
  /\ lastRxFlags \in [Players -> FlagValues]
  /\ clock \in 0 .. MaxTime /\ rxAt \in [Players -> 0 .. MaxTime]
  /\ pcmBuf \in [Players -> Samples] /\ pcmCount \in [Players -> {0, 1}]

\* An engine that was never connected has no frames and gets none.
Unconnected == who \notin Identities =>
                 ~connected /\ sinceLink = MaxUnseen + 1 /\ ring = 0 /\ audio = "idle"

\* What a speaker's buffer holds is a packet of his.
StoredKnown == \A i \in Players, s \in Jitter!Slots :
                 packets[i][s].valid => <<i, packets[i][s].payload>> \in Packets

TypeInv == LinkType /\ EventType /\ ReceiveType /\ Unconnected /\ StoredKnown

--------------------------------------------------------------------------------
(* Numbers.                                                                 *)

\* One more than a number in 0 .. m - 1, or its next in the ring of remainders.
LEMMA NextInRange ==
  ASSUME NEW m \in Nat \ {0}, NEW n \in 0 .. m - 1 PROVE (n + 1) % m \in 0 .. m - 1
BY RemainderRange

--------------------------------------------------------------------------------
(* Types: identity, ring, packet queue and threads.                          *)

\* A new engine is not connected and has nothing captured or queued (voice.c:367-441).
LEMMA LinkInit == Init => LinkType /\ Unconnected
<1> SUFFICES ASSUME Init PROVE LinkType /\ Unconnected
  OBVIOUS
<1>1. outq \in Seq(OutPackets) /\ Len(outq) = 0
  BY EmptySeq DEF Init
<1>2. connected = FALSE /\ sinceLink = MaxUnseen + 1 /\ who = NoOne /\ announced = NoOne
      /\ joinRefused = FALSE /\ late = 0 /\ captureMode \in CaptureModes
      /\ ring = 0 /\ unseen = 0 /\ seq = 0 /\ game = "idle" /\ turn = 0 /\ audio = "idle"
  BY DEF Init
<1>3. local \in LocalType
  BY DEF Init, LocalType
<1>4. turn \notin Players
  BY <1>2 DEF Players
<1>5. sinceLink \in 0 .. MaxUnseen + 1 /\ ring \in 0 .. RingCap /\ unseen \in 0 .. MaxUnseen
      /\ ring + unseen <= RingCap /\ seq \in 0 .. SeqMod - 1 /\ Len(outq) <= OutCap
  BY <1>1, <1>2, EngineAssumption
<1> QED
  BY <1>1, <1>2, <1>3, <1>4, <1>5 DEF LinkType, Unconnected

\* What a JOIN or a voice packet queued by the code looks like (voice.c:280-311, 452).
LEMMA JoinIsPacket ==
  ASSUME NEW id \in Identities PROVE [type |-> "join", id |-> id] \in OutPackets
BY DEF OutPackets

\* What tick makes of a frame is a voice packet.
LEMMA VoiceIsPacket ==
  ASSUME LinkType, who \in Identities
  PROVE  [type |-> "voice", player |-> who[2], seq |-> seq, flags |-> local] \in OutPackets
BY DEF OutPackets, LinkType, LocalType

\* A packet put into a queue with room, and one taken from it.
LEMMA QueuePacket ==
  ASSUME LinkType, NEW p \in OutPackets, Len(outq) < OutCap, outq' = Append(outq, p)
  PROVE  /\ outq' \in Seq(OutPackets) /\ Len(outq') = Len(outq) + 1 /\ Len(outq') <= OutCap
         /\ \A k \in 1 .. Len(outq) : outq'[k] = outq[k]
         /\ outq'[Len(outq) + 1] = p
<1>1. outq \in Seq(OutPackets) /\ Len(outq) \in Nat
  BY LenProperties DEF LinkType
<1> QED
  BY <1>1, AppendProperties, EngineAssumption

\* The queue without its first packet.
LEMMA TakePacket ==
  ASSUME LinkType, outq # <<>>, outq' = Tail(outq)
  PROVE  /\ outq' \in Seq(OutPackets) /\ Len(outq') = Len(outq) - 1 /\ Len(outq) \in Nat \ {0}
         /\ \A k \in 1 .. Len(outq') : outq'[k] = outq[k + 1]
         /\ Head(outq) = outq[1] /\ Head(outq) \in OutPackets
<1>1. outq \in Seq(OutPackets) /\ Len(outq) \in Nat
  BY LenProperties DEF LinkType
<1>2. Len(outq) # 0
  BY <1>1, EmptySeq
<1> QED
  BY <1>1, <1>2, HeadTailProperties

\* Steps of the drain, as far as ring and identity go.
LEMMA DrainLink ==
  ASSUME LinkType, Unconnected, Draining, UNCHANGED drainLeaves
  PROVE  /\ ring' \in 0 .. RingCap /\ unseen' \in 0 .. MaxUnseen /\ ring' + unseen' <= RingCap
         /\ sinceLink' \in 0 .. MaxUnseen + 1
         /\ who \in Identities /\ Unconnected'
BY EngineAssumption DEF LinkType, Unconnected, Draining, drainLeaves, Least

\* Every step keeps identity, ring, packet queue and threads in their ranges; an
\* engine that was never connected has no frames.
LEMMA LinkStep ==
  ASSUME LinkType, Unconnected, [Next]_vars
  PROVE  LinkType' /\ Unconnected'
<1> USE DEF linkVars, captureVars, sendVars, threadVars
<1>0. ASSUME NEW on \in BOOLEAN, SetConnected(on)
      PROVE  connected' = on /\ sinceLink' \in 0 .. MaxUnseen + 1
             /\ (on = connected => sinceLink' = sinceLink)
  BY <1>0, EngineAssumption DEF SetConnected, LinkType
<1>1. ASSUME NEW id \in Identities, Connect(id)
      PROVE  LinkType' /\ Unconnected'
  <2>1. outq' \in Seq(OutPackets) /\ Len(outq') <= OutCap
    BY <1>1, JoinIsPacket, QueuePacket DEF Connect
  <2> QED
    BY <1>0, <1>1, <2>1 DEF Connect, GameFree, LinkType, Unconnected
<1>2. ASSUME NEW id \in Identities, ConnectRefused(id)
      PROVE  LinkType' /\ Unconnected'
  BY <1>2 DEF ConnectRefused, GameFree, LinkType, Unconnected
<1>3. CASE Disconnect
  BY <1>0, <1>3 DEF Disconnect, GameFree, LinkType, Unconnected
<1>4. ASSUME NEW st \in LocalStates, SetLocalState(st)
      PROVE  LinkType' /\ Unconnected'
  BY <1>4, EngineAssumption DEF SetLocalState, LinkType, LocalType, Unconnected
<1>5. CASE SubmitCheck
  BY <1>5, EngineAssumption DEF SubmitCheck, MayReadConnected, LinkType, Unconnected
<1>6. CASE SubmitPush
  <2>1. who \in Identities /\ ring \in Nat /\ unseen \in Nat /\ RingCap \in Nat
        /\ MaxUnseen \in Nat /\ unseen <= MaxUnseen /\ ring + unseen <= RingCap
    BY <1>6, EngineAssumption DEF SubmitPush, LinkType, Unconnected
  <2>2. PICK u \in 0 .. unseen : unseen' = u /\ ring' = IF ring + u < RingCap THEN ring + 1 ELSE ring
    BY <1>6 DEF SubmitPush
  <2>3. unseen' \in 0 .. MaxUnseen /\ ring' \in 0 .. RingCap /\ ring' + unseen' <= RingCap
    BY <2>1, <2>2
  <2> QED
    BY <1>6, <2>1, <2>3 DEF SubmitPush, LinkType, Unconnected
<1>7. CASE TickBegin
  <2>1. "drain" # "speakers" /\ game' = "drain" /\ game # "speakers"
    BY <1>7 DEF TickBegin, GameFree
  <2> QED
    BY <1>7, <2>1 DEF TickBegin, LinkType, Unconnected
<1>8. CASE DrainMuted
  BY <1>8, DrainLink DEF DrainMuted, LinkType, drainLeaves
<1>9. CASE DrainEncodeFails
  BY <1>9, DrainLink DEF DrainEncodeFails, LinkType, drainLeaves
<1>10. CASE DrainQueues
  <2>1. ring' \in 0 .. RingCap /\ unseen' \in 0 .. MaxUnseen /\ ring' + unseen' <= RingCap
        /\ sinceLink' \in 0 .. MaxUnseen + 1 /\ who \in Identities /\ Unconnected'
    BY <1>10, DrainLink DEF DrainQueues, QueueVoice
  <2>2. outq' \in Seq(OutPackets) /\ Len(outq') <= OutCap
    BY <1>10, <2>1, VoiceIsPacket, QueuePacket DEF DrainQueues, QueueVoice
  <2>3. seq' \in 0 .. SeqMod - 1
    BY <1>10, NextInRange, EngineAssumption DEF DrainQueues, TakeSeq, LinkType
  <2>4. late' \in Nat
    BY <1>10 DEF DrainQueues, QueueVoice, LinkType
  <2> QED
    BY <1>10, <2>1, <2>2, <2>3, <2>4 DEF DrainQueues, QueueVoice, LinkType, drainLeaves
<1>11. CASE DrainDrops
  <2>1. ring' \in 0 .. RingCap /\ unseen' \in 0 .. MaxUnseen /\ ring' + unseen' <= RingCap
        /\ sinceLink' \in 0 .. MaxUnseen + 1 /\ Unconnected'
    BY <1>11, DrainLink DEF DrainDrops
  <2>2. seq' \in 0 .. SeqMod - 1
    BY <1>11, NextInRange, EngineAssumption DEF DrainDrops, TakeSeq, LinkType
  <2> QED
    BY <1>11, <2>1, <2>2 DEF DrainDrops, LinkType, drainLeaves
<1>12. CASE DrainEnd
  <2>1. 1 \in Players
    BY EngineAssumption DEF Players
  <2> QED
    BY <1>12, <2>1 DEF DrainEnd, LinkType, Unconnected
<1>13. ASSUME NEW i \in Players, SpeakerTurn(i)
       PROVE  game' \in {"idle", "drain", "speakers"} /\ turn' \in Players \cup {0}
              /\ (game' = "speakers" <=> turn' \in Players)
              /\ UNCHANGED <<linkVars, captureVars, sendVars, audio>>
  <2>1. 0 \notin Players
    BY DEF Players
  <2> QED
    BY <1>13, <2>1 DEF SpeakerTurn, EndTurn
<1>14. ASSUME NEW i \in Players, SpeakerSilent(i) \/ SpeakerDecodeFails(i) \/ SpeakerPlays(i)
       PROVE  LinkType' /\ Unconnected'
  BY <1>13, <1>14 DEF SpeakerSilent, SpeakerDecodeFails, SpeakerPlays, LinkType, Unconnected
<1>15. ASSUME NEW i, NEW n, NEW fits, Ingest(i, n, fits)
       PROVE  LinkType' /\ Unconnected'
  BY <1>15 DEF Ingest, LinkType, Unconnected
<1>16. CASE PollOutgoing
  <2>1. outq' \in Seq(OutPackets) /\ Len(outq') <= OutCap /\ Head(outq) \in OutPackets
    <3>1. outq' \in Seq(OutPackets) /\ Len(outq') = Len(outq) - 1 /\ Len(outq) \in Nat
          /\ Head(outq) \in OutPackets
      BY <1>16, TakePacket DEF PollOutgoing
    <3> QED
      BY <3>1, EngineAssumption DEF LinkType
  <2>2. announced' \in Identities \cup {NoOne}
    BY <1>16, <2>1 DEF PollOutgoing, OutPackets, LinkType
  <2> QED
    BY <1>16, <2>1, <2>2 DEF PollOutgoing, LinkType, Unconnected
<1>17. CASE PollEvent
  BY <1>17 DEF PollEvent, LinkType, Unconnected
<1>18. CASE TimePasses
  BY <1>18 DEF TimePasses, LinkType, Unconnected
<1>19. CASE UNCHANGED vars
  BY <1>19 DEF vars, LinkType, Unconnected
<1> QED
  BY <1>1, <1>2, <1>3, <1>4, <1>5, <1>6, <1>7, <1>8, <1>9, <1>10, <1>11, <1>12, <1>14,
     <1>15, <1>16, <1>17, <1>18, <1>19 DEF Next, Tick, Submit, Host

--------------------------------------------------------------------------------
(* Types: events and messages.                                               *)

\* A sequence cut to n elements keeps the ones it had before others were put
\* behind them, if there were not more than n.
LEMMA CutSequence ==
  ASSUME NEW S, NEW a \in Seq(S), NEW b \in Seq(S), NEW n \in Nat, Len(a) <= n,
         NEW c, c = SubSeq(a \o b, 1, IF Len(a \o b) > n THEN n ELSE Len(a \o b))
  PROVE  /\ c \in Seq(S) /\ Len(c) <= n /\ Len(a) <= Len(c) /\ Len(c) <= Len(a) + Len(b)
         /\ Len(a \o b) = Len(a) + Len(b) /\ Len(c) \in Nat
         /\ \A k \in 1 .. Len(a) : c[k] = a[k]
         /\ \A k \in Len(a) + 1 .. Len(c) : c[k] = b[k - Len(a)]
         /\ (Len(a \o b) <= n => Len(c) = Len(a) + Len(b)) /\ (Len(a \o b) > n => Len(c) = n)
<1> DEFINE all == a \o b
           m == IF Len(all) > n THEN n ELSE Len(all)
<1>1. /\ all \in Seq(S) /\ Len(all) = Len(a) + Len(b) /\ Len(a) \in Nat /\ Len(b) \in Nat
      /\ \A k \in 1 .. Len(all) : all[k] = IF k <= Len(a) THEN a[k] ELSE b[k - Len(a)]
  BY ConcatProperties, LenProperties
<1>2. m \in Nat /\ m <= Len(all) /\ Len(a) <= m /\ m <= n /\ c = SubSeq(all, 1, m)
  BY <1>1
<1>3. c = [k \in 1 .. m |-> all[k]]
  BY <1>2
<1>4. c \in Seq(S) /\ Len(c) = m
  BY <1>1, <1>2, <1>3
<1> HIDE DEF all, m
<1>5. \A k \in 1 .. m : c[k] = all[k]
  BY <1>3
<1> QED
  BY <1>1, <1>2, <1>4, <1>5 DEF all, m

\* What rv_eventq_push does with one or two events (rv_event_queue.c): the queue
\* keeps what it had, gets the first of them, and all if none was lost.
LEMMA EmitEffect ==
  ASSUME EventType, NEW es \in Seq(Events), Emit(es)
  PROVE  /\ evq' \in Seq(Events) /\ Len(evq') <= EventCap /\ evDropped' \in BOOLEAN
         /\ Len(evq) \in Nat /\ Len(evq') \in Nat /\ Len(es) \in Nat
         /\ Len(evq) <= Len(evq') /\ Len(evq') <= Len(evq) + Len(es)
         /\ \A k \in 1 .. Len(evq) : evq'[k] = evq[k]
         /\ \A k \in Len(evq) + 1 .. Len(evq') : evq'[k] = es[k - Len(evq)]
         /\ (~evDropped' => ~evDropped /\ Len(evq') = Len(evq) + Len(es))
         /\ Len(evq') = Len(evq) + Len(es) \/ Len(evq') = EventCap
<1>1. PICK c : c = evq' /\ c = SubSeq(evq \o es, 1,
                              IF Len(evq \o es) > EventCap THEN EventCap ELSE Len(evq \o es))
  BY DEF Emit
<1>2. evq \in Seq(Events) /\ Len(evq) <= EventCap /\ EventCap \in Nat
      /\ Len(evq) \in Nat /\ Len(es) \in Nat /\ evDropped \in BOOLEAN
  BY EngineAssumption, LenProperties DEF EventType
<1>3. /\ c \in Seq(Events) /\ Len(c) <= EventCap /\ Len(evq) <= Len(c)
      /\ Len(c) <= Len(evq) + Len(es) /\ Len(evq \o es) = Len(evq) + Len(es) /\ Len(c) \in Nat
      /\ \A k \in 1 .. Len(evq) : c[k] = evq[k]
      /\ \A k \in Len(evq) + 1 .. Len(c) : c[k] = es[k - Len(evq)]
      /\ (Len(evq \o es) <= EventCap => Len(c) = Len(evq) + Len(es))
      /\ (Len(evq \o es) > EventCap => Len(c) = EventCap)
  BY <1>1, <1>2, CutSequence
<1> DEFINE over == Len(evq \o es) > EventCap
<1>4. over \in BOOLEAN /\ (~over => Len(evq \o es) <= EventCap)
  BY <1>2, <1>3
<1>5. evDropped' = (evDropped \/ over)
  BY DEF Emit
<1> HIDE DEF over
<1>6. evDropped' \in BOOLEAN /\ (~evDropped' => ~evDropped /\ ~over)
  BY <1>2, <1>4, <1>5
<1> QED
  BY <1>1, <1>2, <1>3, <1>4, <1>6

\* A sequence of one.
LEMMA OneIsSequence ==
  ASSUME NEW S, NEW e \in S
  PROVE  <<e>> \in Seq(S) /\ Len(<<e>>) = 1 /\ <<e>>[1] = e
OBVIOUS

\* The events the code emits are events: of the connection, of a speaker, of a
\* message and of a frame.
LEMMA ConnectionIsEvent ==
  ASSUME NEW on \in BOOLEAN
  PROVE  ConnectionEvent(on) \in Events /\ <<ConnectionEvent(on)>> \in Seq(Events)
<1>1. ConnectionEvent(on) \in Events
  BY DEF ConnectionEvent, Events
<1> QED
  BY <1>1, OneIsSequence

\* A speaking event is an event.
LEMMA SpeakingIsEvent ==
  ASSUME NEW i \in Players, NEW on \in BOOLEAN
  PROVE  SpeakingEvent(i, on) \in Events /\ <<SpeakingEvent(i, on)>> \in Seq(Events)
<1>1. SpeakingEvent(i, on) \in Events
  BY DEF SpeakingEvent, Events
<1> QED
  BY <1>1, OneIsSequence

\* The events of a speaker's turn before its frame: one, if the speaker timed out.
LEMMA OffEventsType ==
  ASSUME NEW i \in Players
  PROVE  /\ OffEvents(i) \in Seq(Events) /\ Len(OffEvents(i)) \in {0, 1}
         /\ (Len(OffEvents(i)) = 1 <=> TimedOut(i))
         /\ (TimedOut(i) => OffEvents(i)[1] = SpeakingEvent(i, FALSE))
<1>1. CASE TimedOut(i)
  BY <1>1, SpeakingIsEvent, OneIsSequence DEF OffEvents
<1>2. CASE ~TimedOut(i)
  <2>1. OffEvents(i) = << >>
    BY <1>2 DEF OffEvents
  <2>2. OffEvents(i) \in Seq(Events) /\ Len(OffEvents(i)) = 0
    BY <2>1, EmptySeq
  <2>3. Len(OffEvents(i)) \in {0, 1} /\ Len(OffEvents(i)) # 1
    BY <2>2
  <2> QED
    BY <1>2, <2>2, <2>3
<1> QED
  BY <1>1, <1>2

\* The event rv_emit_log and rv_emit_error queue (voice.c:156-190).
MessageEvent(kind, text) == [type |-> kind, text |-> text, buf |-> msgFlip]

\* The message is written to one of the two buffers, the other is next, and the
\* event is put into the queue if there is room.
LEMMA SayEffect ==
  ASSUME EventType, NEW kind \in {"log", "error"}, NEW text \in Texts, Say(kind, text)
  PROVE  /\ EventType' /\ MessageEvent(kind, text) \in Events
         /\ <<MessageEvent(kind, text)>> \in Seq(Events) /\ Emit(<<MessageEvent(kind, text)>>)
<1>1. MessageEvent(kind, text) \in Events
  BY DEF EventType, Messages, Events, MessageEvent
<1>2. <<MessageEvent(kind, text)>> \in Seq(Events)
  BY <1>1, OneIsSequence
<1>3. Emit(<<MessageEvent(kind, text)>>)
  BY DEF Say, MessageEvent
<1>4. evq' \in Seq(Events) /\ Len(evq') <= EventCap /\ evDropped' \in BOOLEAN
  BY <1>2, <1>3, EmitEffect
<1>5. msgBuf' \in [{0, 1} -> Texts] /\ msgFlip' \in {0, 1}
  BY DEF Say, EventType
<1> QED
  BY <1>1, <1>2, <1>3, <1>4, <1>5 DEF EventType

\* Slots and numbers of the jitter buffer (rv_opus_jitter.c).
LEMMA SlotInRange ==
  ASSUME NEW q \in Jitter!SeqNos
  PROVE  Jitter!SlotForSeq(q) \in Jitter!Slots /\ Jitter!NextSeq(q) \in Jitter!SeqNos
<1>1. q \in Int /\ q + 1 \in Int
  BY DEF Jitter!SeqNos
<1> QED
  BY <1>1, RemainderRange, EngineAssumption
     DEF Jitter!SlotForSeq, Jitter!Slots, Jitter!NextSeq, Jitter!SeqNos

\* What the jitter buffer gives for a speaker is a packet of his, or a concealed
\* one (voice.c:606-627).
LEMMA PoppedIsSample ==
  ASSUME ReceiveType, StoredKnown, NEW i \in Players
  PROVE  <<i, Popped(i)>> \in Samples
<1>1. CASE Playable(i)
  <2>1. Jitter!SlotForSeq(nextPlay[i]) \in Jitter!Slots
    BY SlotInRange DEF ReceiveType
  <2> QED
    BY <1>1, <2>1 DEF Playable, Popped, Jitter!Holds, StoredKnown, Samples
<1>2. CASE ~Playable(i)
  BY <1>2 DEF Popped, Samples
<1> QED
  BY <1>1, <1>2

\* The event of a played frame (voice.c:629-640).
PlayEvent(i) == [type |-> "pcm", speaker |-> i, flags |-> lastRxFlags[i],
                 samples |-> BufferOf(i), payload |-> <<i, Popped(i)>>, live |-> TRUE]

\* A decoded frame is an event, which may follow that one.
LEMMA PlayIsEvent ==
  ASSUME ReceiveType, StoredKnown, NEW i \in Players
  PROVE  /\ PlayEvent(i) \in PcmEvents /\ PlayEvent(i) \in Events
         /\ OffEvents(i) \o <<PlayEvent(i)>> \in Seq(Events)
         /\ Len(OffEvents(i) \o <<PlayEvent(i)>>) = Len(OffEvents(i)) + 1
<1>1. PlayEvent(i) \in PcmEvents
  BY PoppedIsSample DEF PlayEvent, PcmEvents, ReceiveType, BufferOf
<1>2. PlayEvent(i) \in Events
  BY <1>1 DEF Events
<1>3. <<PlayEvent(i)>> \in Seq(Events) /\ Len(<<PlayEvent(i)>>) = 1
  BY <1>2, OneIsSequence
<1> QED
  BY <1>1, <1>2, <1>3, OffEventsType, ConcatProperties

\* What each call and each step of a tick emits.
LEMMA QueueKeepsType ==
  ASSUME EventType, NEW es \in Seq(Events), Emit(es), UNCHANGED msgVars
  PROVE  EventType'
<1>1. evq' \in Seq(Events) /\ Len(evq') <= EventCap /\ evDropped' \in BOOLEAN
  BY EmitEffect
<1> QED
  BY <1>1 DEF EventType, msgVars

\* A new tick spoils the events of frames in place, and the host takes events from
\* the front (voice.c:588-592, 649-660).
LEMMA SpoiledEvents ==
  ASSUME EventType, TickBegin
  PROVE  /\ evq' \in Seq(Events) /\ Len(evq') = Len(evq) /\ Len(evq) \in Nat
         /\ \A k \in 1 .. Len(evq) :
              evq'[k] = IF evq[k].type = "pcm" THEN [evq[k] EXCEPT !.live = FALSE] ELSE evq[k]
<1> DEFINE Spoiled(e) == IF e.type = "pcm" THEN [e EXCEPT !.live = FALSE] ELSE e
<1>1. evq \in Seq(Events) /\ Len(evq) \in Nat /\ DOMAIN evq = 1 .. Len(evq)
      /\ \A k \in 1 .. Len(evq) : evq[k] \in Events
  BY LenProperties, ElementOfSeq DEF EventType
<1>2. evq' = [k \in 1 .. Len(evq) |-> Spoiled(evq[k])]
  BY <1>1 DEF TickBegin
<1>3. ASSUME NEW e \in Events PROVE Spoiled(e) \in Events
  <2>1. CASE e \in PcmEvents
    BY <2>1 DEF Events, PcmEvents
  <2>2. CASE e \notin PcmEvents
    BY <2>2 DEF Events, Messages
  <2> QED
    BY <2>1, <2>2
<1> HIDE DEF Spoiled
<1>4. evq' \in Seq(Events) /\ Len(evq') = Len(evq)
  BY <1>1, <1>2, <1>3
<1> QED
  BY <1>1, <1>2, <1>4 DEF Spoiled

\* The event queue without its first event.
LEMMA TakenEvent ==
  ASSUME EventType, PollEvent
  PROVE  /\ evq' \in Seq(Events) /\ Len(evq') = Len(evq) - 1 /\ Len(evq) \in Nat \ {0}
         /\ \A k \in 1 .. Len(evq') : evq'[k] = evq[k + 1]
         /\ Head(evq) = evq[1] /\ Head(evq) \in Events
<1>1. evq \in Seq(Events) /\ evq # << >> /\ evq' = Tail(evq) /\ Len(evq) \in Nat
  BY LenProperties DEF EventType, PollEvent
<1>2. Len(evq) # 0
  BY <1>1, EmptySeq
<1> QED
  BY <1>1, <1>2, HeadTailProperties

\* The queue of a new engine holds the message that it is initialised.
LEMMA EventInit == Init => EventType
<1> SUFFICES ASSUME Init PROVE EventType
  OBVIOUS
<1> DEFINE first == [type |-> "log", text |-> "initialized", buf |-> 0]
<1>1. first \in Events
  BY DEF Events, Messages, Texts
<1>2. evq = <<first>> /\ evDropped = FALSE
  BY DEF Init
<1>3. msgBuf \in [{0, 1} -> Texts] /\ msgFlip \in {0, 1}
  BY DEF Init, Texts
<1> HIDE DEF first
<1>4. evq \in Seq(Events) /\ Len(evq) = 1
  BY <1>1, <1>2, OneIsSequence
<1>5. Len(evq) <= EventCap
  BY <1>4, EngineAssumption
<1> QED
  BY <1>2, <1>3, <1>4, <1>5 DEF EventType

\* The event queue never holds more than its capacity, and only events.
LEMMA EventStep ==
  ASSUME EventType, ReceiveType, StoredKnown, [Next]_vars
  PROVE  EventType'
<1> USE DEF eventVars, queueVars
<1>1. ASSUME NEW id \in Identities, Connect(id)
      PROVE  EventType'
  BY <1>1, ConnectionIsEvent, QueueKeepsType DEF Connect
<1>2. ASSUME NEW id \in Identities, ConnectRefused(id)
      PROVE  EventType'
  BY <1>2, SayEffect DEF ConnectRefused, Texts
<1>3. CASE Disconnect
  BY <1>3, ConnectionIsEvent, QueueKeepsType DEF Disconnect
<1>4. CASE TickBegin
  BY <1>4, SpoiledEvents DEF TickBegin, EventType, msgVars
<1>5. CASE DrainEncodeFails
  BY <1>5, SayEffect DEF DrainEncodeFails, Texts
<1>6. CASE DrainDrops
  BY <1>6, SayEffect DEF DrainDrops, Texts
<1>7. ASSUME NEW i \in Players, SpeakerSilent(i) \/ SpeakerDecodeFails(i)
      PROVE  EventType'
  <2>1. Emit(OffEvents(i)) /\ UNCHANGED msgVars
    BY <1>7 DEF SpeakerSilent, SpeakerDecodeFails, SpeakerTurn
  <2> QED
    BY <2>1, OffEventsType, QueueKeepsType
<1>8. ASSUME NEW i \in Players, SpeakerPlays(i)
      PROVE  EventType'
  <2>1. Emit(OffEvents(i) \o <<PlayEvent(i)>>) /\ UNCHANGED msgVars
    BY <1>8 DEF SpeakerPlays, SpeakerTurn, PlayEvent
  <2> QED
    BY <2>1, PlayIsEvent, QueueKeepsType
<1>9. ASSUME NEW p \in Packets, NEW fits \in BOOLEAN, Ingest(p[1], p[2], fits)
      PROVE  EventType'
  <2>1. p[1] \in Players
    BY EngineAssumption DEF Players
  <2>2. CASE speaking[p[1]]
    <3>1. Emit(<< >>) /\ UNCHANGED msgVars
      BY <1>9, <2>2 DEF Ingest
    <3> QED
      BY <3>1, EmptySeq, QueueKeepsType
  <2>3. CASE ~speaking[p[1]]
    <3>1. Emit(<<SpeakingEvent(p[1], TRUE)>>) /\ UNCHANGED msgVars
      BY <1>9, <2>3 DEF Ingest
    <3> QED
      BY <2>1, <3>1, SpeakingIsEvent, QueueKeepsType
  <2> QED
    BY <2>2, <2>3
<1>10. CASE PollEvent
  <2>1. Len(evq') <= EventCap
    BY <1>10, TakenEvent, EngineAssumption DEF EventType
  <2> QED
    BY <1>10, <2>1, TakenEvent DEF PollEvent, EventType, msgVars
<1>11. CASE UNCHANGED eventVars
  BY <1>11 DEF EventType, msgVars
<1>12. CASE DrainMuted \/ DrainQueues \/ DrainEnd \/ Submit \/ PollOutgoing \/ TimePasses
            \/ UNCHANGED vars
  BY <1>11, <1>12 DEF DrainMuted, DrainQueues, QueueVoice, DrainEnd, Submit, SubmitCheck,
                      SubmitPush, PollOutgoing, TimePasses, vars
<1>13. ASSUME NEW st \in LocalStates, SetLocalState(st)
       PROVE  EventType'
  BY <1>11, <1>13 DEF SetLocalState
<1> QED
  BY <1>1, <1>2, <1>3, <1>4, <1>5, <1>6, <1>7, <1>8, <1>9, <1>10, <1>12, <1>13
     DEF Next, Tick, Host

--------------------------------------------------------------------------------
(* Types: speakers.                                                          *)

\* A new engine has heard nobody.
LEMMA ReceiveInit == Init => ReceiveType /\ StoredKnown
<1> SUFFICES ASSUME Init PROVE ReceiveType /\ StoredKnown
  OBVIOUS
<1>0. 0 \in Jitter!SeqNos /\ 0 \in 0 .. ClockMod - 1 /\ 0 \in 0 .. MaxTime
  BY EngineAssumption DEF Jitter!SeqNos
<1>1. packets \in [Players -> [Jitter!Slots -> JitterPackets]] /\ StoredKnown
  <2>1. packets = [i \in Players |-> Jitter!Empty(0)]
    BY DEF Init
  <2>2. Jitter!Empty(0) \in [Jitter!Slots -> JitterPackets]
    BY <1>0 DEF Jitter!Empty, JitterPackets
  <2>3. \A s \in Jitter!Slots : ~Jitter!Empty(0)[s].valid
    BY DEF Jitter!Empty
  <2> QED
    BY <2>1, <2>2, <2>3 DEF StoredKnown
<1>2. nextPlay \in [Players -> Jitter!SeqNos] /\ started \in [Players -> BOOLEAN]
      /\ speaking \in [Players -> BOOLEAN]
  BY <1>0 DEF Init
<1>3. lastRxMs \in [Players -> 0 .. ClockMod - 1] /\ lastRxFlags \in [Players -> FlagValues]
      /\ clock \in 0 .. MaxTime /\ rxAt \in [Players -> 0 .. MaxTime]
  BY <1>0 DEF Init, FlagValues
<1>4. pcmBuf \in [Players -> Samples] /\ pcmCount \in [Players -> {0, 1}]
  BY DEF Init, Samples
<1> QED
  BY <1>1, <1>2, <1>3, <1>4 DEF ReceiveType

\* Playing and concealing keep the buffers of a speaker in order (rv_opus_jitter.c:76-107).
LEMMA PopKeepsType ==
  ASSUME ReceiveType, StoredKnown, NEW i \in Players, PopJitter(i)
  PROVE  /\ packets' \in [Players -> [Jitter!Slots -> JitterPackets]] /\ StoredKnown'
         /\ nextPlay' \in [Players -> Jitter!SeqNos] /\ started' = started
<1>1. Jitter!SlotForSeq(nextPlay[i]) \in Jitter!Slots /\ Jitter!NextSeq(nextPlay[i]) \in Jitter!SeqNos
  BY SlotInRange DEF ReceiveType
<1>2. packets' \in [Players -> [Jitter!Slots -> JitterPackets]] /\ StoredKnown'
  <2>1. CASE Playable(i)
    <3> DEFINE q == nextPlay[i]
               pk == Jitter!Taken(packets[i], q)
    <3>1. packets[i] \in [Jitter!Slots -> JitterPackets] /\ packets' = [packets EXCEPT ![i] = pk]
      BY <2>1 DEF PopJitter, ReceiveType
    <3>2. pk \in [Jitter!Slots -> JitterPackets]
          /\ \A s \in Jitter!Slots : pk[s].payload = packets[i][s].payload
                                    /\ (pk[s].valid => packets[i][s].valid)
      BY <1>1, <3>1 DEF Jitter!Taken, JitterPackets
    <3> HIDE DEF pk
    <3> QED
      BY <3>1, <3>2 DEF ReceiveType, StoredKnown
  <2>2. CASE ~Playable(i)
    BY <2>2 DEF PopJitter, ReceiveType, StoredKnown
  <2> QED
    BY <2>1, <2>2
<1>3. nextPlay' \in [Players -> Jitter!SeqNos] /\ started' = started
  BY <1>1 DEF PopJitter, ReceiveType
<1> QED
  BY <1>2, <1>3

\* What the host's clock shows is in its range.
LEMMA NowInRange == ASSUME ReceiveType PROVE Now \in 0 .. ClockMod - 1
<1>1. ClockStart + clock \in Int /\ ClockMod \in Nat \ {0}
  BY EngineAssumption DEF ReceiveType
<1> QED
  BY <1>1, RemainderRange DEF Now

\* So does a packet that comes in (voice.c:529-577).
LEMMA IngestKeepsType ==
  ASSUME ReceiveType, StoredKnown, NEW p \in Packets, NEW fits \in BOOLEAN,
         Ingest(p[1], p[2], fits)
  PROVE  ReceiveType' /\ StoredKnown'
<1>1. PICK i \in Players, n \in Nat : p = <<i, n>> /\ i = p[1] /\ n = p[2]
  BY EngineAssumption DEF Players
<1>2. Ingest(i, n, fits)
  BY <1>1
<1>3. n % SeqMod \in Jitter!SeqNos /\ Jitter!SlotForSeq(n % SeqMod) \in Jitter!Slots
  <2>1. n % SeqMod \in Jitter!SeqNos
    <3>1. n \in Int /\ SeqMod \in Nat \ {0}
      BY EngineAssumption
    <3>2. n % SeqMod \in 0 .. SeqMod - 1
      BY <3>1, RemainderRange
    <3> QED
      BY <3>2 DEF Jitter!SeqNos
  <2> QED
    BY <2>1, SlotInRange
<1>4. Now \in 0 .. ClockMod - 1
  BY NowInRange
<1>5. packets' \in [Players -> [Jitter!Slots -> JitterPackets]] /\ StoredKnown'
      /\ nextPlay' \in [Players -> Jitter!SeqNos] /\ started' \in [Players -> BOOLEAN]
  <2>1. CASE fits
    <3>1. [seq |-> n % SeqMod, valid |-> TRUE, payload |-> n] \in JitterPackets
      BY <1>3 DEF JitterPackets
    <3>2. packets' = [packets EXCEPT ![i] = Jitter!Stored(@, n % SeqMod, n)]
          /\ started' = [started EXCEPT ![i] = TRUE]
          /\ nextPlay' = [nextPlay EXCEPT ![i] = IF started[i] THEN @ ELSE n % SeqMod]
      BY <1>2, <2>1 DEF Ingest
    <3>3. packets' \in [Players -> [Jitter!Slots -> JitterPackets]] /\ StoredKnown'
      BY <1>1, <1>3, <3>1, <3>2 DEF ReceiveType, Jitter!Stored, StoredKnown
    <3> QED
      BY <1>3, <3>2, <3>3 DEF ReceiveType
  <2>2. CASE ~fits
    BY <1>2, <2>2 DEF Ingest, jitterVars, ReceiveType, StoredKnown
  <2> QED
    BY <2>1, <2>2
<1>6. lastRxFlags' \in [Players -> FlagValues]
  <2>1. FlagsOf[n] \in FlagValues
    BY <1>1 DEF FlagValues
  <2> QED
    BY <1>2, <2>1 DEF Ingest, ReceiveType
<1>7. lastRxMs' \in [Players -> 0 .. ClockMod - 1] /\ rxAt' \in [Players -> 0 .. MaxTime]
      /\ speaking' \in [Players -> BOOLEAN]
  <2>1. lastRxMs' = [lastRxMs EXCEPT ![i] = Now] /\ rxAt' = [rxAt EXCEPT ![i] = clock]
        /\ speaking' = [speaking EXCEPT ![i] = TRUE]
    BY <1>2 DEF Ingest
  <2> QED
    BY <1>4, <2>1 DEF ReceiveType
<1>8. UNCHANGED <<clock, pcmBuf, pcmCount>>
  BY <1>2 DEF Ingest, hostVars, pcmVars
<1> QED
  BY <1>5, <1>6, <1>7, <1>8 DEF ReceiveType

\* Every step keeps clock, jitter buffers and frames of the speakers in their
\* ranges, and in a speaker's buffer only packets of his.
LEMMA ReceiveStep ==
  ASSUME ReceiveType, StoredKnown, [Next]_vars
  PROVE  ReceiveType' /\ StoredKnown'
<1> USE DEF receiveVars, jitterVars, rxVars, pcmVars, hostVars
<1>1. CASE UNCHANGED <<receiveVars, clock>>
  BY <1>1 DEF ReceiveType, StoredKnown
<1>2. ASSUME NEW id \in Identities, Connect(id) \/ ConnectRefused(id)
      PROVE  ReceiveType' /\ StoredKnown'
  BY <1>1, <1>2 DEF Connect, ConnectRefused
<1>3. ASSUME NEW st \in LocalStates, SetLocalState(st)
      PROVE  ReceiveType' /\ StoredKnown'
  BY <1>1, <1>3 DEF SetLocalState
<1>4. CASE Disconnect \/ Submit \/ PollOutgoing \/ PollEvent \/ UNCHANGED vars
  BY <1>1, <1>4 DEF Disconnect, Submit, SubmitCheck, SubmitPush, PollOutgoing, PollEvent, vars
<1>5. CASE DrainMuted \/ DrainEncodeFails \/ DrainQueues \/ DrainDrops
  BY <1>1, <1>5 DEF DrainMuted, DrainEncodeFails, DrainQueues, QueueVoice, DrainDrops, drainLeaves
<1>6. CASE TickBegin
  BY <1>6 DEF TickBegin, ReceiveType, StoredKnown
<1>7. CASE DrainEnd
  BY <1>7 DEF DrainEnd, NoFrames, ReceiveType, StoredKnown
<1>8. ASSUME NEW i \in Players, SpeakerTurn(i)
      PROVE  /\ speaking' \in [Players -> BOOLEAN] /\ UNCHANGED <<rxVars, clock>>
  BY <1>8 DEF SpeakerTurn, ReceiveType
<1>9. ASSUME NEW i \in Players, SpeakerSilent(i)
      PROVE  ReceiveType' /\ StoredKnown'
  BY <1>8, <1>9 DEF SpeakerSilent, ReceiveType, StoredKnown
<1>10. ASSUME NEW i \in Players, SpeakerDecodeFails(i)
       PROVE  ReceiveType' /\ StoredKnown'
  BY <1>8, <1>10, PopKeepsType DEF SpeakerDecodeFails, ReceiveType
<1>11. ASSUME NEW i \in Players, SpeakerPlays(i)
       PROVE  ReceiveType' /\ StoredKnown'
  <2>1. pcmBuf' \in [Players -> Samples] /\ pcmCount' \in [Players -> {0, 1}]
    BY <1>11, PoppedIsSample DEF SpeakerPlays, ReceiveType
  <2> QED
    BY <1>8, <1>11, <2>1, PopKeepsType DEF SpeakerPlays, ReceiveType
<1>12. ASSUME NEW p \in Packets, NEW fits \in BOOLEAN, Ingest(p[1], p[2], fits)
       PROVE  ReceiveType' /\ StoredKnown'
  BY <1>12, IngestKeepsType
<1>13. CASE TimePasses
  <2>1. clock' \in 0 .. MaxTime
    BY <1>13, EngineAssumption DEF TimePasses, ReceiveType
  <2> QED
    BY <1>13, <2>1 DEF TimePasses, ReceiveType, StoredKnown
<1> QED
  BY <1>2, <1>3, <1>4, <1>5, <1>6, <1>7, <1>9, <1>10, <1>11, <1>12, <1>13 DEF Next, Tick, Host

--------------------------------------------------------------------------------
(* The type invariant.                                                       *)

\* A new engine is well typed.
LEMMA TypeInvInit == Init => TypeInv
BY LinkInit, EventInit, ReceiveInit DEF TypeInv

\* Every step keeps the types of all four parts.
LEMMA TypeInvStep == TypeInv /\ [Next]_vars => TypeInv'
BY LinkStep, EventStep, ReceiveStep DEF TypeInv

\* The engine's state is well typed, queues and ring never hold more than their
\* capacity, and the audio thread's view of the ring does not exceed it.
THEOREM TypeInvariant == SafeSpec => []TypeInv
BY TypeInvInit, TypeInvStep, PTL DEF SafeSpec

\* The parts together are the type invariant that the runs check.
LEMMA TypeInvImpliesTypeOK == TypeInv => TypeOK
<1> SUFFICES ASSUME TypeInv PROVE TypeOK
  OBVIOUS
<1> USE DEF TypeInv
<1>1. \A k \in DOMAIN outq : outq[k] \in OutPackets
  BY ElementOfSeq DEF LinkType
<1>2. \A i \in Players : /\ lastRxMs[i] \in 0 .. ClockMod - 1
                         /\ pcmBuf[i] \in Packets \cup {NoSamples} \cup (Players \X {Concealed})
  BY DEF ReceiveType, Samples
<1> QED
  BY <1>1, <1>2 DEF TypeOK, LinkType, LocalType, EventType

\* The type correctness that the runs check holds for any number of speakers and
\* any capacities.
THEOREM TypeCorrect == Spec => []TypeOK
BY TypeInvariant, TypeInvImpliesTypeOK, PTL DEF Spec

--------------------------------------------------------------------------------
(* What is sent.                                                             *)

\* The steps that sending is made of; no other step changes anything of it.
LEMMA SendCases ==
  ASSUME [Next]_vars
  PROVE  \/ \E id \in Identities : Connect(id) \/ ConnectRefused(id)
         \/ Disconnect
         \/ \E st \in LocalStates : SetLocalState(st)
         \/ SubmitCheck \/ SubmitPush
         \/ DrainMuted \/ DrainEncodeFails \/ DrainQueues \/ DrainDrops
         \/ PollOutgoing
         \/ UNCHANGED <<linkVars, captureVars, sendVars, audio>>
<1> USE DEF threadVars
<1>1. CASE TickBegin \/ DrainEnd \/ PollEvent \/ TimePasses \/ UNCHANGED vars
  BY <1>1 DEF TickBegin, DrainEnd, PollEvent, TimePasses, vars
<1>2. ASSUME NEW i \in Players, SpeakerSilent(i) \/ SpeakerDecodeFails(i) \/ SpeakerPlays(i)
      PROVE  UNCHANGED <<linkVars, captureVars, sendVars, audio>>
  BY <1>2 DEF SpeakerSilent, SpeakerDecodeFails, SpeakerPlays, SpeakerTurn
<1>3. ASSUME NEW p \in Packets, NEW fits \in BOOLEAN, Ingest(p[1], p[2], fits)
      PROVE  UNCHANGED <<linkVars, captureVars, sendVars, audio>>
  BY <1>3 DEF Ingest
<1> QED
  BY <1>1, <1>2, <1>3 DEF Next, Tick, Submit, Host

\* Packets before k of a queue q are named by the identity id: that of the last
\* JOIN among them, or if there is none the one that was announced before.
JoinsBefore(q, k) == {m \in 1 .. k - 1 : q[m].type = "join"}
NamedBy(q, before, k, id) ==
  \/ JoinsBefore(q, k) = {} /\ id = before
  \/ \E m \in JoinsBefore(q, k) : /\ \A j \in JoinsBefore(q, k) : j <= m
                                  /\ id = q[m].id

\* Unless a connect was refused, each voice packet names its player by the JOIN
\* before it, and the last JOIN queued is that of the identity as it is.
Announcing ==
  joinRefused \/
    /\ \A k \in 1 .. Len(outq) : outq[k].type = "voice" =>
         \E id : NamedBy(outq, announced, k, id) /\ outq[k].player = id[2]
    /\ NamedBy(outq, announced, Len(outq) + 1, who)

\* The JOIN that names packet k is the same when packets follow.
LEMMA NamedSame ==
  ASSUME NEW q, NEW r, NEW before, NEW id, NEW k \in Nat \ {0},
         \A j \in 1 .. k - 1 : r[j] = q[j], NamedBy(q, before, k, id)
  PROVE  NamedBy(r, before, k, id)
<1>1. JoinsBefore(r, k) = JoinsBefore(q, k)
  BY DEF JoinsBefore
<1>2. \A m \in JoinsBefore(q, k) : m \in 1 .. k - 1
  BY DEF JoinsBefore
<1> QED
  BY <1>1, <1>2 DEF NamedBy

\* A JOIN put behind k packets names those after it, a voice packet changes
\* nothing for them.
LEMMA NamedAfterJoin ==
  ASSUME NEW q, NEW before, NEW k \in Nat \ {0}, q[k].type = "join"
  PROVE  NamedBy(q, before, k + 1, q[k].id)
<1>1. k \in JoinsBefore(q, k + 1) /\ \A j \in JoinsBefore(q, k + 1) : j <= k
  BY DEF JoinsBefore
<1> QED
  BY <1>1 DEF NamedBy

\* So for a voice packet, which names nobody.
LEMMA NamedAfterVoice ==
  ASSUME NEW q, NEW before, NEW id, NEW k \in Nat \ {0}, q[k].type = "voice",
         NamedBy(q, before, k, id)
  PROVE  NamedBy(q, before, k + 1, id)
<1>1. JoinsBefore(q, k + 1) = JoinsBefore(q, k)
  BY DEF JoinsBefore
<1> QED
  BY <1>1 DEF NamedBy

\* When the first packet has left, the names of the others stay.
LEMMA NamedAfterPoll ==
  ASSUME NEW q, NEW r, NEW before, NEW id, NEW k \in Nat \ {0},
         \A j \in 1 .. k - 1 : r[j] = q[j + 1],
         NamedBy(q, before, k + 1, id),
         NEW after, after = IF q[1].type = "join" THEN q[1].id ELSE before
  PROVE  NamedBy(r, after, k, id)
<1>1. \A j \in 1 .. k - 1 : j \in JoinsBefore(r, k) <=> j + 1 \in JoinsBefore(q, k + 1)
  BY DEF JoinsBefore
<1>2. \A j \in JoinsBefore(r, k) : j \in 1 .. k - 1
  BY DEF JoinsBefore
<1>3. \A j \in JoinsBefore(q, k + 1) : j \in 1 .. k /\ (j # 1 => j - 1 \in JoinsBefore(r, k))
  BY <1>1 DEF JoinsBefore
<1>4. CASE JoinsBefore(q, k + 1) = {} /\ id = before
  <2>1. JoinsBefore(r, k) = {} /\ q[1].type # "join"
    BY <1>1, <1>2, <1>4 DEF JoinsBefore
  <2> QED
    BY <1>4, <2>1 DEF NamedBy
<1>5. ASSUME NEW m \in JoinsBefore(q, k + 1), id = q[m].id,
             \A j \in JoinsBefore(q, k + 1) : j <= m
      PROVE  NamedBy(r, after, k, id)
  <2>1. CASE m = 1
    <3>1. ASSUME NEW j \in JoinsBefore(r, k) PROVE FALSE
      <4>1. j \in 1 .. k - 1 /\ j + 1 \in JoinsBefore(q, k + 1)
        BY <1>1, <1>2
      <4>2. j + 1 <= 1
        BY <1>5, <2>1, <4>1
      <4> QED
        BY <4>1, <4>2
    <3>2. id = after
      BY <1>5, <2>1 DEF JoinsBefore
    <3>3. JoinsBefore(r, k) = {}
      BY <3>1
    <3> QED
      BY <3>2, <3>3 DEF NamedBy
  <2>2. CASE m # 1
    <3>1. m - 1 \in JoinsBefore(r, k) /\ id = r[m - 1].id
      BY <1>2, <1>3, <1>5, <2>2
    <3>2. \A j \in JoinsBefore(r, k) : j <= m - 1
      BY <1>1, <1>2, <1>3, <1>5
    <3> QED
      BY <3>1, <3>2 DEF NamedBy
  <2> QED
    BY <2>1, <2>2
<1> QED
  BY <1>4, <1>5 DEF NamedBy

\* JoinBefore is the name.
LEMMA NameIsJoinBefore ==
  ASSUME NEW k \in Nat \ {0}, NEW id, NamedBy(outq, announced, k, id)
  PROVE  JoinBefore(k) = id
<1>1. \A m \in JoinsBefore(outq, k) : m \in 1 .. k - 1
  BY DEF JoinsBefore
<1>2. CASE JoinsBefore(outq, k) = {} /\ id = announced
  BY <1>2 DEF JoinBefore, JoinsBefore
<1>3. ASSUME NEW m \in JoinsBefore(outq, k), id = outq[m].id,
             \A j \in JoinsBefore(outq, k) : j <= m
      PROVE  JoinBefore(k) = id
  <2> DEFINE c == CHOOSE n \in JoinsBefore(outq, k) : \A j \in JoinsBefore(outq, k) : j <= n
  <2>1. c \in JoinsBefore(outq, k) /\ \A j \in JoinsBefore(outq, k) : j <= c
    BY <1>3
  <2>2. c = m
    BY <1>1, <1>3, <2>1
  <2>3. JoinBefore(k) = outq[c].id
    BY <1>3 DEF JoinBefore, JoinsBefore
  <2> QED
    BY <1>3, <2>2, <2>3
<1> QED
  BY <1>2, <1>3 DEF NamedBy

\* Every step keeps each queued voice packet behind a JOIN of its player with no
\* other JOIN between, or announced by the last one polled.
LEMMA AnnouncingStep ==
  ASSUME LinkType, Unconnected, Announcing, [Next]_vars
  PROVE  Announcing'
<1>0. outq \in Seq(OutPackets) /\ Len(outq) \in Nat /\ joinRefused \in BOOLEAN
  BY LenProperties DEF LinkType
<1>1. ASSUME NEW id \in Identities, Connect(id)
      PROVE  Announcing'
  <2> DEFINE n == Len(outq)
  <2>1. PICK q : q = outq'
    OBVIOUS
  <2>2. /\ Len(q) = n + 1 /\ \A k \in 1 .. n : q[k] = outq[k]
        /\ q[n + 1] = [type |-> "join", id |-> id]
        /\ who' = id /\ announced' = announced /\ joinRefused' = joinRefused
    BY <1>1, <2>1, JoinIsPacket, QueuePacket DEF Connect
  <2>3. CASE ~joinRefused
    <3>1. ASSUME NEW k \in 1 .. n + 1, q[k].type = "voice"
          PROVE  \E x : NamedBy(q, announced, k, x) /\ q[k].player = x[2]
      <4>1. k \in 1 .. n
        BY <1>0, <2>2, <3>1
      <4>2. PICK x : NamedBy(outq, announced, k, x) /\ outq[k].player = x[2]
        BY <2>2, <2>3, <3>1, <4>1 DEF Announcing
      <4>3. NamedBy(q, announced, k, x)
        BY <1>0, <2>2, <4>1, <4>2, NamedSame
      <4> QED
        BY <2>2, <4>1, <4>2, <4>3
    <3>2. NamedBy(q, announced, n + 1 + 1, id)
      <4>1. n + 1 \in Nat \ {0} /\ q[n + 1].type = "join" /\ q[n + 1].id = id
        BY <1>0, <2>2
      <4>2. NamedBy(q, announced, n + 1 + 1, q[n + 1].id)
        BY <4>1, NamedAfterJoin
      <4> QED
        BY <4>1, <4>2
    <3> QED
      BY <2>1, <2>2, <3>1, <3>2 DEF Announcing
  <2> QED
    BY <1>0, <2>2, <2>3 DEF Announcing
<1>2. CASE DrainQueues
  <2> DEFINE n == Len(outq)
             v == [type |-> "voice", player |-> who[2], seq |-> seq, flags |-> local]
  <2>1. PICK q : q = outq'
    OBVIOUS
  <2>2. v \in OutPackets /\ v.type = "voice" /\ v.player = who[2]
    BY <1>2, DrainLink, VoiceIsPacket DEF DrainQueues, QueueVoice
  <2>3. Len(outq) < OutCap /\ q = Append(outq, v)
        /\ UNCHANGED <<who, announced, joinRefused>>
    BY <1>2, <2>1 DEF DrainQueues, QueueVoice, drainLeaves
  <2> HIDE DEF v
  <2>4. Len(q) = n + 1 /\ (\A k \in 1 .. n : q[k] = outq[k]) /\ q[n + 1] = v
    BY <2>1, <2>2, <2>3, QueuePacket
  <2>5. CASE ~joinRefused
    <3>1. NamedBy(q, announced, n + 1, who)
      <4>1. NamedBy(outq, announced, n + 1, who)
        BY <2>5 DEF Announcing
      <4> QED
        BY <1>0, <2>4, <4>1, NamedSame
    <3>2. ASSUME NEW k \in 1 .. n + 1, q[k].type = "voice"
          PROVE  \E x : NamedBy(q, announced, k, x) /\ q[k].player = x[2]
      <4>1. CASE k = n + 1
        BY <2>2, <2>4, <3>1, <4>1
      <4>2. CASE k \in 1 .. n
        <5>1. PICK x : NamedBy(outq, announced, k, x) /\ outq[k].player = x[2]
          BY <2>4, <2>5, <3>2, <4>2 DEF Announcing
        <5>2. NamedBy(q, announced, k, x)
          BY <1>0, <2>4, <4>2, <5>1, NamedSame
        <5> QED
          BY <2>4, <4>2, <5>1, <5>2
      <4> QED
        BY <1>0, <4>1, <4>2
    <3>3. NamedBy(q, announced, n + 1 + 1, who)
      BY <1>0, <2>2, <2>4, <3>1, NamedAfterVoice
    <3> QED
      BY <2>1, <2>3, <2>4, <3>2, <3>3 DEF Announcing
  <2> QED
    BY <1>0, <2>3, <2>5 DEF Announcing
<1>3. CASE PollOutgoing
  <2>1. PICK q, a : q = outq' /\ a = announced'
    OBVIOUS
  <2>2. /\ Len(q) = Len(outq) - 1 /\ Len(outq) \in Nat \ {0}
        /\ \A k \in 1 .. Len(q) : q[k] = outq[k + 1]
        /\ Head(outq) = outq[1]
    BY <1>3, <2>1, TakePacket DEF PollOutgoing
  <2>3. a = (IF outq[1].type = "join" THEN outq[1].id ELSE announced)
        /\ UNCHANGED <<who, joinRefused>>
    BY <1>3, <2>1, <2>2 DEF PollOutgoing
  <2>4. ASSUME NEW k \in 1 .. Len(q) + 1, NEW x, NamedBy(outq, announced, k + 1, x)
        PROVE  NamedBy(q, a, k, x)
    <3>1. k \in Nat \ {0} /\ \A j \in 1 .. k - 1 : q[j] = outq[j + 1]
      BY <2>2
    <3> QED
      BY <2>3, <2>4, <3>1, NamedAfterPoll
  <2>5. CASE ~joinRefused
    <3>1. ASSUME NEW k \in 1 .. Len(q), q[k].type = "voice"
          PROVE  \E x : NamedBy(q, a, k, x) /\ q[k].player = x[2]
      <4>1. k + 1 \in 1 .. Len(outq) /\ q[k] = outq[k + 1] /\ k \in 1 .. Len(q) + 1
        BY <2>2
      <4>2. PICK x : NamedBy(outq, announced, k + 1, x) /\ outq[k + 1].player = x[2]
        BY <2>5, <3>1, <4>1 DEF Announcing
      <4> QED
        BY <2>4, <4>1, <4>2
    <3>2. NamedBy(q, a, Len(q) + 1, who)
      <4>1. NamedBy(outq, announced, Len(outq) + 1, who) /\ Len(outq) + 1 = Len(q) + 1 + 1
            /\ Len(q) + 1 \in 1 .. Len(q) + 1
        BY <2>2, <2>5 DEF Announcing
      <4> QED
        BY <2>4, <4>1
    <3> QED
      BY <2>1, <2>3, <3>1, <3>2 DEF Announcing
  <2> QED
    BY <1>0, <2>3, <2>5 DEF Announcing
<1>4. CASE UNCHANGED <<outq, who, announced, joinRefused>>
  BY <1>4 DEF Announcing
<1>5. ASSUME NEW id \in Identities, ConnectRefused(id)
      PROVE  Announcing'
  BY <1>5 DEF ConnectRefused, Announcing
<1> QED
  BY <1>1, <1>2, <1>3, <1>4, <1>5, SendCases
     DEF Disconnect, SetLocalState, SubmitCheck, SubmitPush, DrainMuted,
         DrainEncodeFails, DrainDrops, drainLeaves, linkVars, sendVars

\* Whatever is connected, spoken and polled in whatever order, no voice packet
\* names a player that the JOIN before it does not (voice.c:447-461, 297).
THEOREM VoiceAnnounced == Spec => []VoiceIsAnnounced
<1>1. Init => Announcing
  <2> SUFFICES ASSUME Init PROVE Announcing
    OBVIOUS
  <2>1. Len(outq) = 0 /\ who = announced
    BY EmptySeq DEF Init
  <2>2. JoinsBefore(outq, 1) = {}
    BY DEF JoinsBefore
  <2> QED
    BY <2>1, <2>2 DEF Announcing, NamedBy
<1>2. TypeInv /\ Announcing /\ [Next]_vars => Announcing'
  BY AnnouncingStep DEF TypeInv
<1>3. TypeInv /\ Announcing => VoiceIsAnnounced
  <2> SUFFICES ASSUME TypeInv, Announcing, ~joinRefused, NEW k \in Voices
               PROVE  outq[k].player = JoinBefore(k)[2]
    BY DEF VoiceIsAnnounced
  <2>1. k \in 1 .. Len(outq) /\ outq[k].type = "voice"
    BY DEF TypeInv, LinkType, Voices
  <2>2. PICK x : NamedBy(outq, announced, k, x) /\ outq[k].player = x[2]
    BY <2>1 DEF Announcing
  <2> QED
    BY <2>1, <2>2, NameIsJoinBefore
<1> QED
  BY <1>1, <1>2, <1>3, TypeInvariant, PTL DEF Spec, SafeSpec

\* How long voice goes on after a disconnect.  While the audio thread has seen no
\* pop made since, nothing was queued but the frames of those pops; once it has, no
\* frame enters the ring that was not about to.
Pushing == IF audio = "push" THEN 1 ELSE 0
Ending ==
  /\ connected => late = 0
  /\ ~connected /\ unseen >= sinceLink => late <= sinceLink
  /\ ~connected /\ unseen < sinceLink => late + ring + Pushing <= RingCap + 1

\* A pop of the ring, of which a late voice packet may come.
LEMMA EndingDrain ==
  ASSUME LinkType, Ending, Draining, NEW l \in Nat, late' = l,
         connected' = connected, audio' = audio,
         IF connected THEN l = late ELSE l \in {late, late + 1}
  PROVE  Ending'
<1>1. /\ late \in Nat /\ ring \in Nat \ {0} /\ unseen \in 0 .. MaxUnseen /\ MaxUnseen \in Nat
      /\ sinceLink \in 0 .. MaxUnseen + 1 /\ RingCap \in Nat /\ ring + unseen <= RingCap
      /\ Pushing \in {0, 1} /\ Pushing' = Pushing
  BY EngineAssumption DEF LinkType, Draining, Pushing
<1>2. PICK r, u, n : /\ r = ring' /\ u = unseen' /\ n = sinceLink'
                     /\ r = ring - 1 /\ u = Least(unseen + 1, MaxUnseen)
                     /\ n = Least(sinceLink + 1, MaxUnseen + 1)
  BY DEF Draining
<1>3. CASE connected
  BY <1>3 DEF Ending
<1>4. CASE ~connected
  <2>1. CASE unseen < sinceLink
    <3>1. late + ring + Pushing <= RingCap + 1
      BY <1>4, <2>1 DEF Ending
    <3>2. u < n /\ l + r + Pushing <= RingCap + 1 /\ u \in Int /\ n \in Int
      BY <1>1, <1>2, <1>4, <2>1, <3>1 DEF Least
    <3> QED
      BY <1>1, <1>2, <1>4, <3>2 DEF Ending
  <2>2. CASE unseen >= sinceLink
    <3>1. late <= sinceLink
      BY <1>4, <2>2 DEF Ending
    <3>2. (u >= n => l <= n) /\ (u < n => l + r + Pushing <= RingCap + 1)
      BY <1>1, <1>2, <1>4, <2>2, <3>1 DEF Least
    <3> QED
      BY <1>1, <1>2, <1>4, <3>2 DEF Ending
  <2> QED
    BY <1>1, <2>1, <2>2
<1> QED
  BY <1>3, <1>4

\* Every step keeps the bounds on what is still sent after a disconnect.
LEMMA EndingStep ==
  ASSUME LinkType, Ending, [Next]_vars
  PROVE  Ending'
<1>0. /\ late \in Nat /\ ring \in Nat /\ unseen \in 0 .. MaxUnseen /\ MaxUnseen \in Nat
      /\ sinceLink \in 0 .. MaxUnseen + 1 /\ RingCap \in Nat /\ ring + unseen <= RingCap
      /\ connected \in BOOLEAN
  BY EngineAssumption DEF LinkType
<1>1. ASSUME NEW id \in Identities, Connect(id)
      PROVE  Ending'
  BY <1>1 DEF Connect, SetConnected, Ending
<1>2. CASE Disconnect
  <2>1. UNCHANGED <<late, ring, unseen, audio>> /\ connected' = FALSE
        /\ sinceLink' = IF connected THEN 0 ELSE sinceLink
    BY <1>0, <1>2 DEF Disconnect, SetConnected, captureVars, threadVars
  <2>2. CASE connected
    <3>1. sinceLink' = 0 /\ late = 0
      BY <2>1, <2>2 DEF Ending
    <3> QED
      BY <1>0, <2>1, <3>1 DEF Ending
  <2>3. CASE ~connected
    BY <2>1, <2>3 DEF Ending, Pushing
  <2> QED
    BY <2>2, <2>3
<1>3. CASE SubmitCheck
  <2>1. UNCHANGED <<connected, sinceLink, late, ring, unseen>> /\ (connected \/ unseen >= sinceLink)
    BY <1>3 DEF SubmitCheck, MayReadConnected, linkVars
  <2> QED
    BY <1>0, <2>1 DEF Ending
<1>4. CASE SubmitPush
  <2>1. PICK u \in 0 .. unseen : u = unseen' /\ ring' = IF ring + u < RingCap THEN ring + 1 ELSE ring
    BY <1>4 DEF SubmitPush
  <2> DEFINE r == IF ring + u < RingCap THEN ring + 1 ELSE ring
  <2>2. UNCHANGED <<connected, sinceLink, late>> /\ Pushing = 1 /\ Pushing' = 0
    BY <1>4 DEF SubmitPush, linkVars, Pushing
  <2>3. CASE ~connected /\ unseen >= sinceLink
    <3>1. late <= sinceLink
      BY <2>3 DEF Ending
    <3>2. (u >= sinceLink => late <= sinceLink) /\ (u < sinceLink => late + r + 0 <= RingCap + 1)
      BY <1>0, <2>3, <3>1
    <3> HIDE DEF r
    <3>3. ring' = r
      BY <2>1 DEF r
    <3> QED
      BY <2>1, <2>2, <2>3, <3>2, <3>3 DEF Ending
  <2>4. CASE ~connected /\ unseen < sinceLink
    <3>1. late + ring + 1 <= RingCap + 1
      BY <2>2, <2>4 DEF Ending
    <3>2. ~(u >= sinceLink) /\ late + r + 0 <= RingCap + 1
      BY <1>0, <2>4, <3>1
    <3> HIDE DEF r
    <3>3. ring' = r
      BY <2>1 DEF r
    <3> QED
      BY <2>1, <2>2, <2>4, <3>2, <3>3 DEF Ending
  <2>5. CASE connected
    BY <2>2, <2>5 DEF Ending
  <2> QED
    BY <1>0, <2>3, <2>4, <2>5
<1>5. CASE DrainMuted \/ DrainEncodeFails \/ DrainDrops
  <2>1. Draining /\ late' = late /\ connected' = connected /\ audio' = audio
    BY <1>5 DEF DrainMuted, DrainEncodeFails, DrainDrops, drainLeaves, threadVars
  <2> QED
    BY <1>0, <2>1, EndingDrain
<1>6. CASE DrainQueues
  <2>1. Draining /\ connected' = connected /\ audio' = audio
        /\ late' = IF connected THEN late ELSE late + 1
    BY <1>6 DEF DrainQueues, QueueVoice, drainLeaves, threadVars
  <2>2. PICK l \in Nat : late' = l /\ IF connected THEN l = late ELSE l \in {late, late + 1}
    BY <1>0, <2>1
  <2> QED
    BY <2>1, <2>2, EndingDrain
<1>7. CASE UNCHANGED <<connected, late, sinceLink, ring, unseen, audio>>
  BY <1>7 DEF Ending, Pushing
<1> QED
  BY <1>1, <1>2, <1>3, <1>4, <1>5, <1>6, <1>7, SendCases
     DEF ConnectRefused, SetLocalState, PollOutgoing, linkVars, captureVars, threadVars

\* After a disconnect no more voice goes out than the ring has room for and one
\* frame more, however late the audio thread notices (voice.c:476, 504-509, 63, 83).
THEOREM FewLateFrames == Spec => []FewAfterDisconnect
<1>1. Init => Ending
  <2> SUFFICES ASSUME Init PROVE Ending
    OBVIOUS
  <2>1. connected = FALSE /\ sinceLink = MaxUnseen + 1 /\ unseen = 0 /\ late = 0 /\ ring = 0
        /\ Pushing = 0
    BY DEF Init, Pushing
  <2>2. ~(0 >= MaxUnseen + 1) /\ 0 + 0 + 0 <= RingCap + 1
    BY EngineAssumption
  <2> QED
    BY <2>1, <2>2 DEF Ending
<1>2. TypeInv /\ Ending /\ [Next]_vars => Ending'
  BY EndingStep DEF TypeInv
<1>3. TypeInv /\ Ending => FewAfterDisconnect
  <2> SUFFICES ASSUME LinkType, Ending PROVE late <= RingCap + 1
    BY DEF TypeInv, FewAfterDisconnect
  <2>1. /\ late \in Nat /\ ring \in Nat /\ unseen \in Nat /\ sinceLink \in Nat /\ RingCap \in Nat
        /\ ring + unseen <= RingCap /\ connected \in BOOLEAN /\ Pushing \in {0, 1}
    BY EngineAssumption DEF LinkType, Pushing
  <2>2. CASE connected
    BY <2>1, <2>2 DEF Ending
  <2>3. CASE ~connected /\ unseen >= sinceLink
    BY <2>1, <2>3 DEF Ending
  <2>4. CASE ~connected /\ unseen < sinceLink
    BY <2>1, <2>4 DEF Ending
  <2> QED
    BY <2>1, <2>2, <2>3, <2>4
<1> QED
  BY <1>1, <1>2, <1>3, TypeInvariant, PTL DEF Spec, SafeSpec

--------------------------------------------------------------------------------
(* The engine implements a VoiceSession.                                     *)

\* A session's operations, field by field.
Record(c, w, q, n) == [connected |-> c, who |-> w, outq |-> q, seq |-> n]

\* What a VoiceSession sees of the engine.
Seen == Record(connected, who, outq, seq)

\* The four updates of a session, each of one field: whether it is connected,
LEMMA RecordConnected ==
  ASSUME NEW c, NEW w, NEW q, NEW n
  PROVE  \A v \in BOOLEAN : [Record(c, w, q, n) EXCEPT !.connected = v] = Record(v, w, q, n)
<1>1. PICK x : x = Record(c, w, q, n)
  OBVIOUS
<1>2. \A v \in BOOLEAN : [x EXCEPT !.connected = v] = Record(v, w, q, n)
  BY <1>1 DEF Record
<1> QED
  BY <1>1, <1>2

\* who speaks,
LEMMA RecordWho ==
  ASSUME NEW c, NEW w, NEW q, NEW n, NEW v
  PROVE  [Record(c, w, q, n) EXCEPT !.who = v] = Record(c, v, q, n)
<1>1. PICK x : x = Record(c, w, q, n)
  OBVIOUS
<1>2. [x EXCEPT !.who = v] = Record(c, v, q, n)
  BY <1>1 DEF Record
<1> QED
  BY <1>1, <1>2

\* what waits to be sent,
LEMMA RecordQueued ==
  ASSUME NEW c, NEW w, NEW q, NEW n, NEW p
  PROVE  Session!Queued(Record(c, w, q, n), p) = Record(c, w, Append(q, p), n)
<1>1. PICK x : x = Record(c, w, q, n)
  OBVIOUS
<1>2. Session!Queued(x, p) = Record(c, w, Append(q, p), n)
  BY <1>1 DEF Record, Session!Queued
<1> QED
  BY <1>1, <1>2

\* and the next number.
LEMMA RecordCounted ==
  ASSUME NEW c, NEW w, NEW q, NEW n
  PROVE  [Record(c, w, q, n) EXCEPT !.seq = (@ + 1) % SeqMod] = Record(c, w, q, (n + 1) % SeqMod)
<1>1. PICK x : x = Record(c, w, q, n)
  OBVIOUS
<1>2. [x EXCEPT !.seq = (@ + 1) % SeqMod] = Record(c, w, q, (n + 1) % SeqMod)
  BY <1>1 DEF Record
<1> QED
  BY <1>1, <1>2

\* TRUE as a field, by a name.
On == TRUE

\* A connect, as a session sees it.
LEMMA SessionConnected ==
  ASSUME NEW c, NEW w, NEW q, NEW n, NEW id
  PROVE  Session!Connected(Record(c, w, q, n), id) =
           IF Len(q) < OutCap
           THEN Record(On, id, Append(q, [type |-> "join", id |-> id]), n)
           ELSE Record(c, id, q, n)
<1> DEFINE p == [type |-> "join", id |-> id]
<1>1. PICK x, y, z : /\ x = Record(c, w, q, n)
                     /\ y = [x EXCEPT !.who = id] /\ z = [y EXCEPT !.connected = TRUE]
  OBVIOUS
<1>2. y = Record(c, id, q, n)
  BY <1>1, RecordWho
<1>3. \A v \in BOOLEAN : [y EXCEPT !.connected = v] = Record(v, id, q, n)
  BY <1>2, RecordConnected
<1>4. z = Record(TRUE, id, q, n)
  BY <1>1, <1>3, Zenon
<1>5. z = [x EXCEPT !.who = id, !.connected = TRUE] /\ x.outq = q
  BY <1>1 DEF Record
<1>6. \A v \in BOOLEAN : Session!Queued(Record(v, id, q, n), p) = Record(v, id, Append(q, p), n)
  BY RecordQueued
<1>7. Session!Queued(z, p) = Record(TRUE, id, Append(q, p), n)
  BY <1>4, <1>6, Zenon
<1>8. Session!Connected(x, id) = IF Len(q) < OutCap THEN Session!Queued(z, p) ELSE y
  BY <1>1, <1>5 DEF Session!Connected, Session!HasRoom, Session!JoinPacket
<1>9. Session!Queued(z, p) = Record(On, id, Append(q, p), n)
  BY <1>7, Zenon DEF On
<1> QED
  BY <1>1, <1>2, <1>8, <1>9

\* Voice, as a session sees it.
LEMMA SessionSpoken ==
  ASSUME NEW c, NEW w, NEW q, NEW n, NEW f
  PROVE  Session!Spoken(Record(c, w, q, n), f) =
           IF Len(q) < OutCap
           THEN Record(c, w, Append(q, [type |-> "voice", player |-> w[2], seq |-> n,
                                        flags |-> f]), (n + 1) % SeqMod)
           ELSE Record(c, w, q, (n + 1) % SeqMod)
<1> DEFINE p == [type |-> "voice", player |-> w[2], seq |-> n, flags |-> f]
           r == IF Len(q) < OutCap THEN Append(q, p) ELSE q
<1>1. PICK x : x = Record(c, w, q, n)
  OBVIOUS
<1>2. x.outq = q /\ Session!VoicePacket(x, f) = p
  BY <1>1 DEF Record, Session!VoicePacket
<1>3. Session!Queued(x, p) = Record(c, w, Append(q, p), n)
  BY <1>1, RecordQueued
<1>4. PICK z : z = IF Len(q) < OutCap THEN Session!Queued(x, p) ELSE x
  OBVIOUS
<1>5. Session!Spoken(x, f) = [z EXCEPT !.seq = (@ + 1) % SeqMod]
  BY <1>2, <1>4 DEF Session!Spoken, Session!HasRoom
<1>6. z = Record(c, w, r, n)
  BY <1>1, <1>3, <1>4
<1>7. Session!Spoken(x, f) = Record(c, w, r, (n + 1) % SeqMod)
  BY <1>5, <1>6, RecordCounted
<1> QED
  BY <1>1, <1>7

\* A polled packet, as a session sees it.
LEMMA SessionPolled ==
  ASSUME NEW c, NEW w, NEW q, NEW n
  PROVE  Session!Polled(Record(c, w, q, n)) = Record(c, w, Tail(q), n)
<1>1. PICK x : x = Record(c, w, q, n)
  OBVIOUS
<1>2. (\A v : [x EXCEPT !.outq = v] = Record(c, w, v, n)) /\ x.outq = q
  BY <1>1 DEF Record
<1>3. Session!Polled(x) = Record(c, w, Tail(q), n)
  BY <1>2, Zenon DEF Session!Polled
<1> QED
  BY <1>1, <1>3

\* The session's next-state relation, of what it sees.
LEMMA SessionNext ==
  ASSUME \/ \E id \in Identities : Seen' = Session!Connected(Seen, id)
         \/ Seen' = Session!Disconnected(Seen)
         \/ \E f \in LocalType : Seen' = Session!Spoken(Seen, f)
         \/ outq # << >> /\ Seen' = Session!Polled(Seen)
  PROVE  Session!Next
<1>1. Seen.outq = outq
  BY DEF Seen, Record
<1> QED
  BY <1>1, Zenon DEF Session!Next, Seen, Record, LocalType

\* A new engine is a new session.
LEMMA SessionInit == Init => Session!Init
BY DEF Init, Session!Init, Session!Fresh, Session!NoOne, NoOne

\* Each step of the engine is one of the session, or none that it shows.
LEMMA SessionStep ==
  ASSUME LinkType, Unconnected, [Next]_vars
  PROVE  Session!Next \/ UNCHANGED Seen
<1>1. ASSUME NEW id \in Identities, Connect(id)
      PROVE  Seen' = Session!Connected(Seen, id)
  <2>1. /\ Len(outq) < OutCap /\ outq' = Append(outq, [type |-> "join", id |-> id])
        /\ connected' = TRUE /\ who' = id /\ seq' = seq
    BY <1>1 DEF Connect, SetConnected
  <2> DEFINE q == Append(outq, [type |-> "join", id |-> id])
  <2>2. Session!Connected(Seen, id) =
          IF Len(outq) < OutCap THEN Record(On, id, q, seq) ELSE Record(connected, id, outq, seq)
    BY SessionConnected DEF Seen
  <2>3. Seen' = Record(connected', id, q, seq)
    BY <2>1 DEF Seen
  <2> HIDE DEF q
  <2>4. Seen' = Record(On, id, q, seq)
    BY <2>1, <2>3, Zenon DEF On
  <2> QED
    BY <2>1, <2>2, <2>4
<1>2. ASSUME NEW id \in Identities, ConnectRefused(id)
      PROVE  Seen' = Session!Connected(Seen, id)
  <2>1. /\ Len(outq) = OutCap /\ outq' = outq /\ connected' = connected
        /\ who' = id /\ seq' = seq
    BY <1>2 DEF ConnectRefused, sendVars
  <2>2. ~(Len(outq) < OutCap)
    BY <2>1, EngineAssumption
  <2> DEFINE q == Append(outq, [type |-> "join", id |-> id])
  <2>3. Session!Connected(Seen, id) =
          IF Len(outq) < OutCap THEN Record(On, id, q, seq) ELSE Record(connected, id, outq, seq)
    BY SessionConnected DEF Seen
  <2>4. Session!Connected(Seen, id) = Record(connected, id, outq, seq)
    BY <2>2, <2>3
  <2> QED
    BY <2>1, <2>4 DEF Seen
<1>3. CASE Disconnect
  <2>1. connected' = FALSE /\ UNCHANGED <<who, outq, seq>>
    BY <1>3 DEF Disconnect, SetConnected, sendVars
  <2>2. \A v \in BOOLEAN : [Seen EXCEPT !.connected = v] = Record(v, who, outq, seq)
    BY RecordConnected DEF Seen
  <2>3. Session!Disconnected(Seen) = Record(FALSE, who, outq, seq)
    BY <2>2, Zenon DEF Session!Disconnected
  <2>4. Seen' = Record(connected', who, outq, seq)
    BY <2>1 DEF Seen
  <2>5. Seen' = Session!Disconnected(Seen)
    BY <2>1, <2>3, <2>4, Zenon
  <2> QED
    BY <2>5, SessionNext
<1>4. CASE DrainQueues \/ DrainDrops
  <2> DEFINE p == [type |-> "voice", player |-> who[2], seq |-> seq, flags |-> local]
  <2>1. /\ UNCHANGED <<connected, who>> /\ seq' = (seq + 1) % SeqMod
        /\ \/ Len(outq) < OutCap /\ outq' = Append(outq, p)
           \/ Len(outq) = OutCap /\ outq' = outq
    BY <1>4 DEF DrainQueues, QueueVoice, DrainDrops, TakeSeq, drainLeaves
  <2>2. Len(outq) = OutCap => ~(Len(outq) < OutCap)
    BY EngineAssumption
  <2>3. Session!Spoken(Seen, local) =
          IF Len(outq) < OutCap
          THEN Record(connected, who, Append(outq, p), (seq + 1) % SeqMod)
          ELSE Record(connected, who, outq, (seq + 1) % SeqMod)
    BY SessionSpoken DEF Seen
  <2> HIDE DEF p
  <2>4. Seen' = Session!Spoken(Seen, local)
    BY <2>1, <2>2, <2>3 DEF Seen
  <2>5. local \in LocalType
    BY DEF LinkType
  <2> QED
    BY <2>4, <2>5, SessionNext
<1>5. CASE PollOutgoing
  <2>1. outq # << >> /\ outq' = Tail(outq) /\ UNCHANGED <<connected, who, seq>>
    BY <1>5 DEF PollOutgoing
  <2>2. Session!Polled(Seen) = Record(connected, who, Tail(outq), seq)
    BY SessionPolled DEF Seen
  <2>3. Seen' = Session!Polled(Seen)
    BY <2>1, <2>2 DEF Seen
  <2> QED
    BY <2>1, <2>3, SessionNext
<1>6. CASE UNCHANGED <<connected, who, outq, seq>>
  BY <1>6 DEF Seen
<1> QED
  BY <1>1, <1>2, <1>3, <1>4, <1>5, <1>6, SendCases, SessionNext
     DEF SetLocalState, SubmitCheck, SubmitPush, DrainMuted, DrainEncodeFails,
         drainLeaves, linkVars, sendVars

\* To its transport the engine is a VoiceSession: nothing the audio thread, a tick,
\* an event or a full queue does shows as anything else (voice.c:280-311, 447-468).
THEOREM ImplementsSession == Spec => SessionSpec
<1>1. TypeInv /\ [Next]_vars
        => [Session!Next]_([connected |-> connected, who |-> who, outq |-> outq, seq |-> seq])
  BY SessionStep DEF TypeInv, Seen, Record
<1> QED
  BY <1>1, SessionInit, TypeInvariant, PTL DEF Spec, SafeSpec, SessionSpec, Session!Spec

--------------------------------------------------------------------------------
(* The event queue.                                                          *)

\* The steps as the event queue sees them: a tick begins, the host takes an event,
\* a message is queued, the connection changes, a speaker has his turn or a packet
\* of his comes in, or the queue and what its events are about stay.
LEMMA EventCases ==
  ASSUME [Next]_vars
  PROVE  \/ TickBegin
         \/ PollEvent
         \/ \E kind \in {"log", "error"}, text \in Texts :
              Say(kind, text) /\ UNCHANGED <<connected, speaking, hostView, pcmVars, game, turn>>
         \/ \E on \in BOOLEAN :
              /\ Emit(<<ConnectionEvent(on)>>) /\ connected' = on
              /\ UNCHANGED <<msgVars, speaking, hostView, pcmVars, game, turn>>
         \/ \E i \in Players : SpeakerSilent(i) \/ SpeakerDecodeFails(i) \/ SpeakerPlays(i)
         \/ \E p \in Packets, fits \in BOOLEAN : Ingest(p[1], p[2], fits)
         \/ DrainEnd
         \/ UNCHANGED <<eventVars, connected, speaking, hostView, pcmVars, game, turn>>
<1> USE DEF eventVars, receiveVars, threadVars, hostVars
<1>1. ASSUME NEW id \in Identities, Connect(id)
      PROVE  \E on \in BOOLEAN :
               /\ Emit(<<ConnectionEvent(on)>>) /\ connected' = on
               /\ UNCHANGED <<msgVars, speaking, hostView, pcmVars, game, turn>>
  BY <1>1, Zenon DEF Connect, SetConnected
<1>2. CASE Disconnect
  <2>1. \E on \in BOOLEAN :
           /\ Emit(<<ConnectionEvent(on)>>) /\ connected' = on
           /\ UNCHANGED <<msgVars, speaking, hostView, pcmVars, game, turn>>
    BY <1>2, Zenon DEF Disconnect, SetConnected
  <2> QED
    BY <2>1
<1>3. ASSUME NEW id \in Identities, ConnectRefused(id)
      PROVE  \E kind \in {"log", "error"}, text \in Texts :
               Say(kind, text) /\ UNCHANGED <<connected, speaking, hostView, pcmVars, game, turn>>
  BY <1>3 DEF ConnectRefused, Texts
<1>4. CASE DrainEncodeFails \/ DrainDrops
  <2>1. \E kind \in {"log", "error"}, text \in Texts :
           Say(kind, text) /\ UNCHANGED <<connected, speaking, hostView, pcmVars, game, turn>>
    BY <1>4 DEF DrainEncodeFails, DrainDrops, drainLeaves, Texts
  <2> QED
    BY <2>1
<1>5. CASE DrainMuted \/ DrainQueues \/ Submit \/ PollOutgoing \/ TimePasses \/ UNCHANGED vars
  <2>1. UNCHANGED <<eventVars, connected, speaking, hostView, pcmVars, game, turn>>
    BY <1>5 DEF DrainMuted, DrainQueues, QueueVoice, drainLeaves, Submit, SubmitCheck,
                SubmitPush, PollOutgoing, TimePasses, linkVars, vars
  <2> QED
    BY <2>1
<1>6. ASSUME NEW st \in LocalStates, SetLocalState(st)
      PROVE  UNCHANGED <<eventVars, connected, speaking, hostView, pcmVars, game, turn>>
  BY <1>6 DEF SetLocalState, linkVars
<1> HIDE DEF eventVars, receiveVars, threadVars, hostVars
<1> QED
  BY <1>1, <1>2, <1>3, <1>4, <1>5, <1>6 DEF Next, Tick, Host

--------------------------------------------------------------------------------
(* Frames.                                                                   *)

\* No event of a frame is in the queue that was not there before at its place.
NoNewFrame == \A k \in 1 .. Len(evq') :
                evq'[k].type = "pcm" => k \in 1 .. Len(evq) /\ evq'[k] = evq[k]

\* Events that are none of a frame leave no new frame in the queue.
LEMMA EmitNoFrame ==
  ASSUME EventType, NEW es \in Seq(Events), Emit(es),
         \A k \in 1 .. Len(es) : es[k].type # "pcm"
  PROVE  NoNewFrame
<1>1. /\ Len(evq) \in Nat /\ Len(evq') \in Nat /\ Len(es) \in Nat
      /\ Len(evq') <= Len(evq) + Len(es)
      /\ \A k \in 1 .. Len(evq) : evq'[k] = evq[k]
      /\ \A k \in Len(evq) + 1 .. Len(evq') : evq'[k] = es[k - Len(evq)]
  BY EmitEffect
<1>2. PICK n \in Nat : n = Len(evq')
  BY <1>1
<1>3. ASSUME NEW k \in 1 .. n, evq'[k].type = "pcm"
      PROVE  k \in 1 .. Len(evq) /\ evq'[k] = evq[k]
  <2>1. CASE k \in 1 .. Len(evq)
    BY <1>1, <2>1
  <2>2. CASE k \in Len(evq) + 1 .. n
    <3>1. k - Len(evq) \in 1 .. Len(es)
      BY <1>1, <1>2, <2>2
    <3>2. evq'[k] = es[k - Len(evq)]
      BY <1>1, <1>2, <2>2
    <3> QED
      BY <1>3, <3>1, <3>2
  <2> QED
    BY <1>1, <1>2, <2>1, <2>2
<1> QED
  BY <1>2, <1>3 DEF NoNewFrame

\* The end of a speaker's speaking is an event of no frame.
LEMMA OffIsNoFrame ==
  ASSUME NEW i \in Players
  PROVE  \A k \in 1 .. Len(OffEvents(i)) : OffEvents(i)[k].type = "speaking"
<1>1. \A v \in BOOLEAN : SpeakingEvent(i, v).type = "speaking"
  BY DEF SpeakingEvent
<1>2. PICK e : e = SpeakingEvent(i, FALSE)
  OBVIOUS
<1>3. e.type = "speaking"
  BY <1>1, <1>2, Zenon
<1>4. Len(OffEvents(i)) \in {0, 1} /\ (Len(OffEvents(i)) = 1 => OffEvents(i)[1] = e)
  BY <1>2, OffEventsType, Zenon
<1> QED
  BY <1>3, <1>4

\* What a played frame and a packet that comes in have the engine tell.
LEMMA PlayedTypes ==
  ASSUME ReceiveType, StoredKnown, NEW i \in Players
  PROVE  LET es == OffEvents(i) \o <<PlayEvent(i)>>
         IN  /\ es \in Seq(Events) /\ Len(es) = Len(OffEvents(i)) + 1
             /\ \A k \in 1 .. Len(OffEvents(i)) : es[k] = OffEvents(i)[k]
             /\ es[Len(es)] = PlayEvent(i)
             /\ \A k \in 1 .. Len(es) : es[k].type \in {"speaking", "pcm"}
<1> DEFINE es == OffEvents(i) \o <<PlayEvent(i)>>
<1>1. PICK e : e = PlayEvent(i)
  OBVIOUS
<1>2. e \in Events /\ OffEvents(i) \in Seq(Events) /\ es = OffEvents(i) \o <<e>> /\ e.type = "pcm"
      /\ es \in Seq(Events) /\ Len(es) = Len(OffEvents(i)) + 1 /\ Len(OffEvents(i)) \in Nat
  BY <1>1, PlayIsEvent, OffEventsType DEF PcmEvents
<1>3. \A k \in 1 .. Len(es) : es[k] = IF k <= Len(OffEvents(i)) THEN OffEvents(i)[k] ELSE e
  <2>1. <<e>> \in Seq(Events) /\ Len(<<e>>) = 1 /\ <<e>>[1] = e
    BY <1>2, OneIsSequence
  <2> QED
    BY <1>2, <2>1, ConcatProperties
<1>4. \A k \in 1 .. Len(OffEvents(i)) : OffEvents(i)[k].type = "speaking"
  BY OffIsNoFrame
<1> HIDE DEF es
<1>5. /\ \A k \in 1 .. Len(OffEvents(i)) : es[k] = OffEvents(i)[k]
      /\ es[Len(es)] = PlayEvent(i)
      /\ \A k \in 1 .. Len(es) : es[k].type \in {"speaking", "pcm"}
  BY <1>1, <1>2, <1>3, <1>4
<1> QED
  BY <1>2, <1>5 DEF es

\* A received packet makes at most a speaking event (voice.c:554-563).
LEMMA IngestEvents ==
  ASSUME NEW p \in Packets, NEW fits, Ingest(p[1], p[2], fits)
  PROVE  \E es \in Seq(Events) : /\ Emit(es) /\ UNCHANGED msgVars
                                 /\ \A k \in 1 .. Len(es) : es[k].type = "speaking"
<1> DEFINE es == IF speaking[p[1]] THEN <<>> ELSE <<SpeakingEvent(p[1], TRUE)>>
<1>1. Emit(es) /\ UNCHANGED msgVars
  BY DEF Ingest
<1>2. p[1] \in Players
  BY EngineAssumption DEF Players
<1>3. es \in Seq(Events) /\ \A k \in 1 .. Len(es) : es[k].type = "speaking"
  <2>1. CASE speaking[p[1]]
    BY <2>1, EmptySeq
  <2>2. CASE ~speaking[p[1]]
    <3>1. \A v \in BOOLEAN : /\ <<SpeakingEvent(p[1], v)>> \in Seq(Events)
                             /\ \A k \in 1 .. Len(<<SpeakingEvent(p[1], v)>>) :
                                  <<SpeakingEvent(p[1], v)>>[k].type = "speaking"
      BY <1>2, SpeakingIsEvent DEF SpeakingEvent
    <3>2. es = <<SpeakingEvent(p[1], TRUE)>>
      BY <2>2
    <3> QED
      BY <3>1, <3>2, Zenon
  <2> QED
    BY <2>1, <2>2
<1> HIDE DEF es
<1> QED
  BY <1>1, <1>3

\* A speaker's turn is over: his place is the next, or the tick is.
LEMMA TurnPasses ==
  ASSUME NEW i \in Players, SpeakerTurn(i)
  PROVE  /\ game = "speakers" /\ turn = i
         /\ \/ game' = "speakers" /\ turn' = i + 1
            \/ game' = "idle" /\ turn' = 0
BY DEF SpeakerTurn, EndTurn

\* No other step moves a tick that is among the speakers.
LEMMA TurnCases ==
  ASSUME [Next]_vars, game = "speakers", turn' # turn
  PROVE  \E i \in Players : SpeakerTurn(i) /\ turn = i
<1>1. ASSUME NEW i \in Players, SpeakerSilent(i) \/ SpeakerDecodeFails(i) \/ SpeakerPlays(i)
      PROVE  SpeakerTurn(i) /\ turn = i
  BY <1>1 DEF SpeakerSilent, SpeakerDecodeFails, SpeakerPlays, SpeakerTurn
<1>2. ASSUME NEW p \in Packets, NEW fits \in BOOLEAN, Ingest(p[1], p[2], fits)
      PROVE  turn' = turn
  BY <1>2 DEF Ingest, threadVars
<1>3. TickBegin => turn' = turn
  BY DEF TickBegin
<1>4. PollEvent => turn' = turn
  BY DEF PollEvent, threadVars
<1>5. ~DrainEnd
  BY DEF DrainEnd
<1> QED
  BY <1>1, <1>2, <1>3, <1>4, <1>5, EventCases

\* What a tick does about frames: it begins, with all earlier frames spoiled; it
\* gives a speaker's frame to the host; or it passes a speaker by.  No other step
\* touches frames.
LEMMA FrameCases ==
  ASSUME EventType, ReceiveType, StoredKnown, [Next]_vars
  PROVE  \/ TickBegin
         \/ PollEvent
         \/ \E i \in Players : SpeakerPlays(i)
         \/ /\ NoNewFrame /\ UNCHANGED <<pcmBuf, decoded>>
            /\ \/ UNCHANGED <<pcmCount, game, turn>>
               \/ DrainEnd
               \/ \E i \in Players : SpeakerTurn(i) /\ pcmCount' = pcmCount
<1> USE DEF pcmVars
<1>1. ASSUME NEW kind \in {"log", "error"}, NEW text \in Texts, Say(kind, text)
      PROVE  NoNewFrame
  <2>1. <<MessageEvent(kind, text)>> \in Seq(Events) /\ Emit(<<MessageEvent(kind, text)>>)
    BY <1>1, SayEffect
  <2>2. \A k \in 1 .. Len(<<MessageEvent(kind, text)>>) :
          <<MessageEvent(kind, text)>>[k].type # "pcm"
    BY DEF MessageEvent
  <2> QED
    BY <2>1, <2>2, EmitNoFrame
<1>2. ASSUME NEW on \in BOOLEAN, Emit(<<ConnectionEvent(on)>>)
      PROVE  NoNewFrame
  <2>1. \A k \in 1 .. Len(<<ConnectionEvent(on)>>) : <<ConnectionEvent(on)>>[k].type # "pcm"
    BY DEF ConnectionEvent
  <2> QED
    BY <1>2, <2>1, ConnectionIsEvent, EmitNoFrame
<1>3. ASSUME NEW i \in Players, SpeakerSilent(i) \/ SpeakerDecodeFails(i)
      PROVE  NoNewFrame /\ UNCHANGED <<pcmBuf, decoded>> /\ SpeakerTurn(i) /\ pcmCount' = pcmCount
  <2>1. Emit(OffEvents(i)) /\ UNCHANGED pcmVars /\ SpeakerTurn(i)
    BY <1>3 DEF SpeakerSilent, SpeakerDecodeFails
  <2>2. \A k \in 1 .. Len(OffEvents(i)) : OffEvents(i)[k].type # "pcm"
    BY OffIsNoFrame
  <2> QED
    BY <2>1, <2>2, OffEventsType, EmitNoFrame
<1>4. ASSUME NEW p \in Packets, NEW fits \in BOOLEAN, Ingest(p[1], p[2], fits)
      PROVE  NoNewFrame /\ UNCHANGED <<pcmBuf, decoded, pcmCount, game, turn>>
  <2>1. UNCHANGED <<pcmBuf, decoded, pcmCount, game, turn>>
    BY <1>4 DEF Ingest, threadVars
  <2>2. PICK es \in Seq(Events) : Emit(es) /\ \A k \in 1 .. Len(es) : es[k].type # "pcm"
    BY <1>4, IngestEvents
  <2>3. NoNewFrame
    BY <2>2, EmitNoFrame
  <2> QED
    BY <2>1, <2>3
<1>5. DrainEnd => UNCHANGED <<evq, pcmBuf, decoded>>
  BY DEF DrainEnd, eventVars, queueVars
<1>6. UNCHANGED eventVars => UNCHANGED evq
  BY DEF eventVars, queueVars
<1>7. UNCHANGED evq => NoNewFrame
  BY DEF NoNewFrame
<1>8. CASE DrainEnd \/ UNCHANGED <<eventVars, connected, speaking, hostView, pcmVars, game, turn>>
  BY <1>5, <1>6, <1>7, <1>8
<1>9. CASE \E i \in Players : SpeakerSilent(i) \/ SpeakerDecodeFails(i) \/ SpeakerPlays(i)
  BY <1>3, <1>9
<1>10. CASE \E p \in Packets, fits \in BOOLEAN : Ingest(p[1], p[2], fits)
  BY <1>4, <1>10
<1>11. CASE \E kind \in {"log", "error"}, text \in Texts :
              Say(kind, text) /\ UNCHANGED <<connected, speaking, hostView, pcmVars, game, turn>>
  BY <1>1, <1>11
<1>12. CASE \E on \in BOOLEAN :
              /\ Emit(<<ConnectionEvent(on)>>) /\ connected' = on
              /\ UNCHANGED <<msgVars, speaking, hostView, pcmVars, game, turn>>
  BY <1>2, <1>12
<1> QED
  BY <1>8, <1>9, <1>10, <1>11, <1>12, EventCases

\* What playing a frame does: events that are none of a frame, and behind them, if
\* there is room, that of the frame (voice.c:617-640).
LEMMA PlayEffect ==
  ASSUME EventType, ReceiveType, StoredKnown, NEW i \in Players, SpeakerPlays(i)
  PROVE  /\ SpeakerTurn(i)
         /\ pcmBuf' = [pcmBuf EXCEPT ![i] = <<i, Popped(i)>>]
         /\ pcmCount' = [pcmCount EXCEPT ![i] = 1]
         /\ decoded' = decoded \cup {<<i, Popped(i)>>}
         /\ \A k \in 1 .. Len(evq') : evq'[k].type = "pcm" =>
              \/ k \in 1 .. Len(evq) /\ evq'[k] = evq[k]
              \/ evq'[k] = PlayEvent(i)
<1>1. /\ SpeakerTurn(i)
      /\ pcmBuf' = [pcmBuf EXCEPT ![i] = <<i, Popped(i)>>]
      /\ pcmCount' = [pcmCount EXCEPT ![i] = 1]
      /\ decoded' = decoded \cup {<<i, Popped(i)>>}
      /\ Emit(OffEvents(i) \o <<PlayEvent(i)>>)
  BY DEF SpeakerPlays, BufferOf, PlayEvent
<1> DEFINE es == OffEvents(i) \o <<PlayEvent(i)>>
<1>2. es \in Seq(Events) /\ Len(es) = Len(OffEvents(i)) + 1 /\ Len(OffEvents(i)) \in Nat
  BY PlayIsEvent, OffEventsType
<1>3. \A k \in 1 .. Len(es) : es[k].type = "pcm" => es[k] = PlayEvent(i)
  <2>1. /\ \A k \in 1 .. Len(OffEvents(i)) : es[k] = OffEvents(i)[k]
        /\ es[Len(es)] = PlayEvent(i)
    BY PlayedTypes
  <2>2. \A k \in 1 .. Len(OffEvents(i)) : OffEvents(i)[k].type # "pcm"
    BY OffIsNoFrame
  <2> HIDE DEF es
  <2> QED
    BY <1>2, <2>1, <2>2
<1> HIDE DEF es
<1>4. /\ Len(evq) \in Nat /\ Len(evq') \in Nat /\ Len(es) \in Nat
      /\ Len(evq') <= Len(evq) + Len(es)
      /\ \A k \in 1 .. Len(evq) : evq'[k] = evq[k]
      /\ \A k \in Len(evq) + 1 .. Len(evq') : evq'[k] = es[k - Len(evq)]
  BY <1>1, <1>2, EmitEffect DEF es
<1>5. PICK n \in Nat : n = Len(evq')
  BY <1>4
<1>6. ASSUME NEW k \in 1 .. n, evq'[k].type = "pcm"
      PROVE  (k \in 1 .. Len(evq) /\ evq'[k] = evq[k]) \/ evq'[k] = PlayEvent(i)
  <2>1. CASE k \in 1 .. Len(evq)
    BY <1>4, <2>1
  <2>2. CASE k \in Len(evq) + 1 .. n
    <3>1. k - Len(evq) \in 1 .. Len(es)
      BY <1>4, <1>5, <2>2
    <3>2. evq'[k] = es[k - Len(evq)]
      BY <1>4, <1>5, <2>2
    <3> QED
      BY <1>3, <1>6, <3>1, <3>2
  <2> QED
    BY <1>4, <1>5, <2>1, <2>2
<1> QED
  BY <1>1, <1>5, <1>6

\* The only event of a new engine is a message (voice.c:411).
LEMMA NoFrameAtFirst ==
  ASSUME Init
  PROVE  Len(evq) = 1 /\ \A k \in 1 .. Len(evq) : evq[k].type = "log"
<1> DEFINE first == [type |-> "log", text |-> "initialized", buf |-> 0]
<1>1. first.type = "log"
  OBVIOUS
<1>2. evq = <<first>>
  BY DEF Init
<1> HIDE DEF first
<1> QED
  BY <1>1, <1>2

\* An event of a frame of the latest tick names a speaker whose turn in that tick
\* is past and whose buffer still holds what was decoded for it.
FramesIntact ==
  \A k \in 1 .. Len(evq) :
    evq[k].type = "pcm" /\ evq[k].live =>
      /\ evq[k].samples = evq[k].speaker
      /\ pcmBuf[evq[k].speaker] = evq[k].payload
      /\ game # "drain"
      /\ game = "speakers" => evq[k].speaker < turn

\* Every step keeps queued frames what they were when they were decoded.
LEMMA FramesIntactStep ==
  ASSUME TypeInv, FramesIntact, [Next]_vars
  PROVE  FramesIntact'
<1> USE DEF TypeInv
<1>0. Len(evq) \in Nat /\ \A k \in 1 .. Len(evq) : evq[k] \in Events
  BY LenProperties, ElementOfSeq DEF EventType
<1>1. CASE TickBegin
  <2>1. \A k \in 1 .. Len(evq) : evq[k].type = "pcm" => evq[k] \in PcmEvents
    BY <1>0 DEF Events, Messages, PcmEvents
  <2>2. \A e \in PcmEvents : ~[e EXCEPT !.live = FALSE].live
    BY DEF PcmEvents
  <2>3. Len(evq') = Len(evq)
        /\ \A k \in 1 .. Len(evq) :
              evq'[k] = IF evq[k].type = "pcm" THEN [evq[k] EXCEPT !.live = FALSE] ELSE evq[k]
    BY <1>1, SpoiledEvents
  <2>4. \A k \in 1 .. Len(evq) : evq'[k].type = "pcm" => ~evq'[k].live
    <3> SUFFICES ASSUME NEW k \in 1 .. Len(evq), evq'[k].type = "pcm" PROVE ~evq'[k].live
      OBVIOUS
    <3>1. CASE evq[k].type = "pcm"
      BY <2>1, <2>2, <2>3, <3>1
    <3>2. CASE evq[k].type # "pcm"
      BY <2>3, <3>2
    <3> QED
      BY <3>1, <3>2
  <2> QED
    BY <2>3, <2>4 DEF FramesIntact
<1>2. CASE PollEvent
  <2>1. /\ Len(evq') = Len(evq) - 1 /\ \A k \in 1 .. Len(evq') : evq'[k] = evq[k + 1]
        /\ UNCHANGED <<pcmBuf, game, turn>>
    BY <1>2, TakenEvent DEF PollEvent, receiveVars, pcmVars, threadVars
  <2>2. PICK n \in Int : n = Len(evq')
    BY <1>0, <2>1
  <2>3. \A k \in 1 .. n : k + 1 \in 1 .. Len(evq)
    BY <1>0, <2>1, <2>2
  <2> QED
    BY <2>1, <2>2, <2>3 DEF FramesIntact
<1>3. ASSUME NEW i \in Players, SpeakerPlays(i)
      PROVE  FramesIntact'
  <2>1. /\ pcmBuf' = [pcmBuf EXCEPT ![i] = <<i, Popped(i)>>]
        /\ \A k \in 1 .. Len(evq') : evq'[k].type = "pcm" =>
              \/ k \in 1 .. Len(evq) /\ evq'[k] = evq[k]
              \/ evq'[k] = PlayEvent(i)
    BY <1>3, PlayEffect
  <2>2. /\ game = "speakers" /\ turn = i
        /\ ((game' = "speakers" /\ turn' = i + 1) \/ game' = "idle")
    BY <1>3, PlayEffect, TurnPasses
  <2>3. PICK t, g : t = turn' /\ g = game'
    OBVIOUS
  <2>4. PICK b : b = pcmBuf' /\ b = [pcmBuf EXCEPT ![i] = <<i, Popped(i)>>]
    BY <2>1
  <2>5. ASSUME NEW k \in 1 .. Len(evq'), evq'[k].type = "pcm", evq'[k].live
        PROVE  /\ evq'[k].samples = evq'[k].speaker /\ b[evq'[k].speaker] = evq'[k].payload
               /\ g # "drain" /\ (g = "speakers" => evq'[k].speaker < t)
    <3>1. CASE k \in 1 .. Len(evq) /\ evq'[k] = evq[k]
      <4>1. evq[k] \in PcmEvents
        BY <1>0, <2>5, <3>1 DEF Events, Messages, PcmEvents
      <4>2. evq[k].speaker \in Players /\ evq[k].speaker < i
            /\ evq[k].samples = evq[k].speaker /\ pcmBuf[evq[k].speaker] = evq[k].payload
        BY <2>2, <2>5, <3>1, <4>1 DEF FramesIntact, PcmEvents
      <4>3. b[evq[k].speaker] = pcmBuf[evq[k].speaker]
        BY <2>4, <4>2 DEF ReceiveType, Players
      <4> QED
        BY <2>2, <2>3, <3>1, <4>2, <4>3 DEF Players
    <3>2. CASE evq'[k] = PlayEvent(i)
      <4>1. evq'[k].samples = i /\ evq'[k].speaker = i /\ evq'[k].payload = <<i, Popped(i)>>
        BY <3>2 DEF PlayEvent, BufferOf
      <4>2. b[i] = <<i, Popped(i)>>
        BY <2>4 DEF ReceiveType
      <4> QED
        BY <2>2, <2>3, <4>1, <4>2 DEF Players
    <3> QED
      BY <2>1, <2>5, <3>1, <3>2
  <2> QED
    BY <2>3, <2>4, <2>5 DEF FramesIntact
<1>4. ASSUME NoNewFrame, pcmBuf' = pcmBuf,
             \/ UNCHANGED <<game, turn>>
             \/ DrainEnd
             \/ \E i \in Players : SpeakerTurn(i)
      PROVE  FramesIntact'
  <2>1. ASSUME NEW k \in 1 .. Len(evq'), evq'[k].type = "pcm", evq'[k].live
        PROVE  /\ k \in 1 .. Len(evq) /\ evq'[k] = evq[k] /\ evq[k] \in PcmEvents
               /\ evq[k].type = "pcm" /\ evq[k].live
    BY <1>0, <1>4, <2>1 DEF NoNewFrame, Events, Messages, PcmEvents
  <2>2. CASE UNCHANGED <<game, turn>>
    BY <1>4, <2>1, <2>2 DEF FramesIntact
  <2>3. CASE DrainEnd
    BY <2>1, <2>3 DEF FramesIntact, DrainEnd
  <2>4. ASSUME NEW i \in Players, SpeakerTurn(i)
        PROVE  FramesIntact'
    <3>1. game = "speakers" /\ turn = i
          /\ ((game' = "speakers" /\ turn' = i + 1) \/ game' = "idle")
      BY <2>4, TurnPasses
    <3>2. PICK t, g : t = turn' /\ g = game'
      OBVIOUS
    <3>3. ASSUME NEW e \in PcmEvents, e.speaker < i
          PROVE  g # "drain" /\ (g = "speakers" => e.speaker < t)
      BY <3>1, <3>2, <3>3 DEF Players, PcmEvents
    <3> QED
      BY <1>4, <2>1, <3>1, <3>2, <3>3 DEF FramesIntact
  <2> QED
    BY <1>4, <2>2, <2>3, <2>4
<1> QED
  BY <1>1, <1>2, <1>3, <1>4, FrameCases

\* No frame of a tick is written over another's before the next tick begins, for
\* any number of speakers: an event's samples are those decoded for it
\* (voice.c:617-640).
THEOREM FramesStayIntact == Spec => []PcmIntact
<1>1. Init => FramesIntact
  BY NoFrameAtFirst DEF FramesIntact
<1>2. TypeInv /\ FramesIntact /\ [Next]_vars => FramesIntact'
  BY FramesIntactStep
<1>3. TypeInv /\ FramesIntact => PcmIntact
  BY DEF TypeInv, EventType, FramesIntact, PcmIntact
<1> QED
  BY <1>1, <1>2, <1>3, TypeInvariant, PTL DEF Spec, SafeSpec

\* While a tick drains the ring nothing is decoded; while it goes through the
\* speakers, and after it, what is mixed is what it has decoded, of speakers whose
\* turn is past.
MixedIsDecoded ==
  /\ game = "drain" => decoded = {}
  /\ game # "drain" => decoded = {pcmBuf[j] : j \in Mixed}
  /\ game = "speakers" => \A j \in Mixed : j < turn

\* Every step keeps the mix made of the frames of the last tick.
LEMMA MixedIsDecodedStep ==
  ASSUME TypeInv, MixedIsDecoded, [Next]_vars
  PROVE  MixedIsDecoded'
<1> USE DEF TypeInv
<1>1. CASE TickBegin
  BY <1>1 DEF TickBegin, MixedIsDecoded
<1>2. CASE UNCHANGED <<pcmBuf, decoded, pcmCount, game, turn>>
  BY <1>2 DEF MixedIsDecoded, Mixed
<1>3. CASE PollEvent
  BY <1>2, <1>3 DEF PollEvent, receiveVars, pcmVars, threadVars
<1>4. CASE DrainEnd
  <2>1. game = "drain" /\ game' = "speakers" /\ pcmCount' = NoFrames /\ decoded' = decoded
    BY <1>4 DEF DrainEnd
  <2>2. Mixed' = {}
    BY <2>1 DEF Mixed, NoFrames
  <2> QED
    BY <2>1, <2>2 DEF MixedIsDecoded
<1>5. ASSUME NEW i \in Players, SpeakerTurn(i), UNCHANGED <<pcmBuf, decoded, pcmCount>>
      PROVE  MixedIsDecoded'
  <2>1. game = "speakers" /\ turn = i
        /\ ((game' = "speakers" /\ turn' = i + 1) \/ game' = "idle")
    BY <1>5, TurnPasses
  <2>2. Mixed' = Mixed /\ \A j \in Mixed : j \in Players /\ j < i
    BY <1>5, <2>1 DEF MixedIsDecoded, Mixed
  <2>3. PICK t : t = turn'
    OBVIOUS
  <2>4. t = i + 1 => \A j \in Mixed : j < t
    BY <2>2 DEF Players
  <2> QED
    BY <1>5, <2>1, <2>2, <2>3, <2>4 DEF MixedIsDecoded
<1>6. ASSUME NEW i \in Players, SpeakerPlays(i)
      PROVE  MixedIsDecoded'
  <2>1. game = "speakers" /\ turn = i
        /\ ((game' = "speakers" /\ turn' = i + 1) \/ game' = "idle")
    BY <1>6, PlayEffect, TurnPasses
  <2>2. PICK b, c : b = pcmBuf' /\ c = pcmCount'
    OBVIOUS
  <2>3. PICK p : p = <<i, Popped(i)>>
    OBVIOUS
  <2>4. b = [pcmBuf EXCEPT ![i] = p] /\ c = [pcmCount EXCEPT ![i] = 1]
        /\ decoded' = decoded \cup {p}
    BY <1>6, <2>2, <2>3, PlayEffect
  <2>5. \A j \in Mixed : j \in Players /\ j < i
    BY <2>1 DEF MixedIsDecoded, Mixed
  <2>6. i \in Int /\ i \notin Mixed
    BY <2>5 DEF Players
  <2>7. {j \in Players : c[j] > 0} = Mixed \cup {i}
    BY <2>4 DEF Mixed, ReceiveType
  <2>8. \A j \in Mixed : b[j] = pcmBuf[j]
    BY <2>4, <2>5, <2>6 DEF ReceiveType
  <2>9. b[i] = p
    BY <2>4 DEF ReceiveType
  <2>10. decoded = {pcmBuf[j] : j \in Mixed}
    BY <2>1 DEF MixedIsDecoded
  <2>11. decoded \cup {p} = {b[j] : j \in Mixed \cup {i}}
    BY <2>8, <2>9, <2>10
  <2>12. Mixed' = Mixed \cup {i}
    BY <2>2, <2>7 DEF Mixed
  <2>13. decoded' = {pcmBuf'[j] : j \in Mixed'}
    BY <2>2, <2>4, <2>11, <2>12
  <2>14. PICK t : t = turn'
    OBVIOUS
  <2>15. t = i + 1 => \A j \in Mixed \cup {i} : j < t
    BY <2>5 DEF Players
  <2> QED
    BY <2>1, <2>12, <2>13, <2>14, <2>15 DEF MixedIsDecoded
<1> QED
  BY <1>1, <1>2, <1>3, <1>4, <1>5, <1>6, FrameCases

\* Between two ticks the mixer adds up exactly the frames of the latest tick, for
\* any number of speakers and whatever of them decodes (voice.c:597, 669-686).
THEOREM MixStaysCurrent == Spec => []MixIsCurrent
<1>1. Init => MixedIsDecoded
  <2> SUFFICES ASSUME Init PROVE MixedIsDecoded
    OBVIOUS
  <2>1. decoded = {} /\ game = "idle" /\ pcmCount = [i \in Players |-> 0]
    BY DEF Init
  <2>2. Mixed = {}
    BY <2>1 DEF Mixed
  <2> QED
    BY <2>1, <2>2 DEF MixedIsDecoded
<1>2. TypeInv /\ MixedIsDecoded /\ [Next]_vars => MixedIsDecoded'
  BY MixedIsDecodedStep
<1>3. MixedIsDecoded => MixIsCurrent
  BY DEF MixedIsDecoded, MixIsCurrent, GameFree
<1> QED
  BY <1>1, <1>2, <1>3, TypeInvariant, PTL DEF Spec, SafeSpec

--------------------------------------------------------------------------------
(* Messages.                                                                 *)

\* The events rv_emit_log and rv_emit_error queue, and of the messages of a queue
\* the last and the last but one.
IsMessage(e) == e.type \in {"log", "error"}
IsLast(q, k) == \A m \in k + 1 .. Len(q) : ~IsMessage(q[m])
IsLastButOne(q, k) ==
  \E m \in k + 1 .. Len(q) :
    IsMessage(q[m]) /\ \A j \in k + 1 .. Len(q) : IsMessage(q[j]) => j = m

\* The last message of queue q is in the buffer that is not written next, the last
\* but one in the other, and both read as they were written.
LastTwoRead(q, flip, bufs) ==
  \A k \in 1 .. Len(q) : IsMessage(q[k]) =>
    /\ IsLast(q, k) => q[k].buf = 1 - flip /\ bufs[q[k].buf] = q[k].text
    /\ IsLastButOne(q, k) => q[k].buf = flip /\ bufs[q[k].buf] = q[k].text

\* They still do when other events are put behind them,
LEMMA LastTwoSame ==
  ASSUME NEW q, NEW r, NEW flip, NEW bufs, Len(q) \in Nat, Len(r) \in Nat, Len(q) <= Len(r),
         \A k \in 1 .. Len(r) : IsMessage(r[k]) => k <= Len(q),
         \A k \in 1 .. Len(q) : IsMessage(q[k]) => r[k] = q[k],
         \A k \in 1 .. Len(q) : IsMessage(r[k]) => r[k] = q[k],
         LastTwoRead(q, flip, bufs)
  PROVE  LastTwoRead(r, flip, bufs)
<1> SUFFICES ASSUME NEW k \in 1 .. Len(r), IsMessage(r[k])
             PROVE  /\ IsLast(r, k) => r[k].buf = 1 - flip /\ bufs[r[k].buf] = r[k].text
                    /\ IsLastButOne(r, k) => r[k].buf = flip /\ bufs[r[k].buf] = r[k].text
  BY DEF LastTwoRead
<1>1. k \in 1 .. Len(q) /\ r[k] = q[k]
  OBVIOUS
<1>2. IsLast(r, k) => IsLast(q, k)
  BY <1>1 DEF IsLast
<1>3. IsLastButOne(r, k) => IsLastButOne(q, k)
  <2> SUFFICES ASSUME NEW m \in k + 1 .. Len(r), IsMessage(r[m]),
                      \A j \in k + 1 .. Len(r) : IsMessage(r[j]) => j = m
               PROVE  IsLastButOne(q, k)
    BY DEF IsLastButOne
  <2>1. m \in k + 1 .. Len(q) /\ IsMessage(q[m])
    OBVIOUS
  <2>2. \A j \in k + 1 .. Len(q) : IsMessage(q[j]) => j = m
    BY <1>1
  <2> QED
    BY <2>1, <2>2 DEF IsLastButOne
<1> QED
  BY <1>1, <1>2, <1>3 DEF LastTwoRead

\* when the first event is taken,
LEMMA LastTwoTail ==
  ASSUME NEW q, NEW r, NEW flip, NEW bufs, Len(q) \in Nat \ {0}, Len(r) = Len(q) - 1,
         \A k \in 1 .. Len(r) : r[k] = q[k + 1],
         LastTwoRead(q, flip, bufs)
  PROVE  LastTwoRead(r, flip, bufs)
<1> SUFFICES ASSUME NEW k \in 1 .. Len(r), IsMessage(r[k])
             PROVE  /\ IsLast(r, k) => r[k].buf = 1 - flip /\ bufs[r[k].buf] = r[k].text
                    /\ IsLastButOne(r, k) => r[k].buf = flip /\ bufs[r[k].buf] = r[k].text
  BY DEF LastTwoRead
<1>1. k + 1 \in 1 .. Len(q) /\ r[k] = q[k + 1]
  OBVIOUS
<1>2. \A m \in k + 1 + 1 .. Len(q) : m - 1 \in k + 1 .. Len(r) /\ r[m - 1] = q[m]
  OBVIOUS
<1>3. IsLast(r, k) => IsLast(q, k + 1)
  BY <1>2 DEF IsLast
<1>4. IsLastButOne(r, k) => IsLastButOne(q, k + 1)
  <2> SUFFICES ASSUME NEW m \in k + 1 .. Len(r), IsMessage(r[m]),
                      \A j \in k + 1 .. Len(r) : IsMessage(r[j]) => j = m
               PROVE  IsLastButOne(q, k + 1)
    BY DEF IsLastButOne
  <2>1. m + 1 \in k + 1 + 1 .. Len(q) /\ IsMessage(q[m + 1])
    OBVIOUS
  <2>2. \A j \in k + 1 + 1 .. Len(q) : IsMessage(q[j]) => j = m + 1
    BY <1>2
  <2> QED
    BY <2>1, <2>2 DEF IsLastButOne
<1> QED
  BY <1>1, <1>3, <1>4 DEF LastTwoRead

\* and when another message is written.
LEMMA LastTwoSay ==
  ASSUME NEW q, NEW r, NEW flip \in {0, 1}, NEW bufs, NEW text,
         DOMAIN bufs = {0, 1}, Len(q) \in Nat, Len(r) = Len(q) + 1,
         \A k \in 1 .. Len(q) : r[k] = q[k],
         IsMessage(r[Len(q) + 1]), r[Len(q) + 1].buf = flip, r[Len(q) + 1].text = text,
         NEW new, new = [bufs EXCEPT ![flip] = text],
         LastTwoRead(q, flip, bufs)
  PROVE  LastTwoRead(r, 1 - flip, new)
<1> DEFINE n == Len(q) + 1
<1>1. new[flip] = text /\ new[1 - flip] = bufs[1 - flip] /\ 1 - (1 - flip) = flip
  OBVIOUS
<1>2. IsLast(r, n) => r[n].buf = 1 - (1 - flip) /\ new[r[n].buf] = r[n].text
  BY <1>1
<1>3. ~IsLastButOne(r, n)
  BY DEF IsLastButOne
<1>4. ASSUME NEW k \in 1 .. Len(q), IsMessage(r[k])
      PROVE  /\ ~IsLast(r, k)
             /\ IsLastButOne(r, k) => r[k].buf = 1 - flip /\ new[r[k].buf] = r[k].text
  <2>1. n \in k + 1 .. Len(r) /\ r[k] = q[k]
    OBVIOUS
  <2>2. ~IsLast(r, k)
    BY <2>1 DEF IsLast
  <2>3. IsLastButOne(r, k) => IsLast(q, k)
    <3> SUFFICES ASSUME NEW m \in k + 1 .. Len(r),
                        \A j \in k + 1 .. Len(r) : IsMessage(r[j]) => j = m,
                        NEW j \in k + 1 .. Len(q), IsMessage(q[j])
                 PROVE  FALSE
      BY DEF IsLast, IsLastButOne
    <3>1. j \in k + 1 .. Len(r) /\ IsMessage(r[j]) /\ j # n
      OBVIOUS
    <3> QED
      BY <2>1, <3>1
  <2> QED
    BY <1>1, <1>4, <2>1, <2>2, <2>3 DEF LastTwoRead
<1>5. \A k \in 1 .. Len(r) : k = n \/ k \in 1 .. Len(q)
  OBVIOUS
<1> QED
  BY <1>2, <1>3, <1>4, <1>5 DEF LastTwoRead

\* Every step keeps the texts of the last two messages.
LEMMA LastTwoStep ==
  ASSUME TypeInv, ~evDropped => LastTwoRead(evq, msgFlip, msgBuf), [Next]_vars
  PROVE  ~evDropped' => LastTwoRead(evq', msgFlip', msgBuf')
<1> USE DEF TypeInv
<1> PICK r : r = evq'
  OBVIOUS
<1>0. Len(evq) \in Nat /\ msgFlip \in {0, 1} /\ DOMAIN msgBuf = {0, 1}
  BY LenProperties DEF EventType
<1>1. ASSUME NEW es \in Seq(Events), Emit(es), UNCHANGED msgVars, ~evDropped',
             \A k \in 1 .. Len(es) : ~IsMessage(es[k])
      PROVE  LastTwoRead(evq', msgFlip', msgBuf')
  <2>1. /\ Len(es) \in Nat /\ Len(r) \in Nat /\ Len(r) = Len(evq) + Len(es) /\ ~evDropped
        /\ \A k \in 1 .. Len(evq) : r[k] = evq[k]
        /\ \A k \in Len(evq) + 1 .. Len(r) : r[k] = es[k - Len(evq)]
    BY <1>1, EmitEffect
  <2>2. \A k \in Len(evq) + 1 .. Len(r) : k - Len(evq) \in 1 .. Len(es)
    BY <1>0, <2>1
  <2>3. \A k \in 1 .. Len(r) : IsMessage(r[k]) => k <= Len(evq)
    BY <1>0, <1>1, <2>1, <2>2
  <2>4. LastTwoRead(r, msgFlip, msgBuf)
    BY <1>0, <2>1, <2>3, LastTwoSame
  <2> QED
    BY <1>1, <2>4 DEF msgVars
<1>2. ASSUME NEW kind \in {"log", "error"}, NEW text \in Texts, Say(kind, text), ~evDropped'
      PROVE  LastTwoRead(evq', msgFlip', msgBuf')
  <2>1. PICK e : e = MessageEvent(kind, text)
    OBVIOUS
  <2>2. IsMessage(e) /\ e.buf = msgFlip /\ e.text = text
    BY <2>1 DEF MessageEvent, IsMessage
  <2>3. <<e>> \in Seq(Events) /\ Emit(<<e>>) /\ Len(<<e>>) = 1 /\ <<e>>[1] = e
    BY <1>2, <2>1, SayEffect
  <2>4. /\ Len(r) = Len(evq) + 1 /\ ~evDropped
        /\ \A k \in 1 .. Len(evq) : r[k] = evq[k]
        /\ \A k \in Len(evq) + 1 .. Len(r) : r[k] = <<e>>[k - Len(evq)]
    BY <1>2, <2>3, EmitEffect
  <2>5. r[Len(evq) + 1] = e
    BY <1>0, <2>3, <2>4
  <2>6. PICK new : new = [msgBuf EXCEPT ![msgFlip] = text]
    OBVIOUS
  <2>7. /\ IsMessage(r[Len(evq) + 1]) /\ r[Len(evq) + 1].buf = msgFlip
        /\ r[Len(evq) + 1].text = text /\ LastTwoRead(evq, msgFlip, msgBuf)
    BY <2>2, <2>4, <2>5
  <2>8. LastTwoRead(r, 1 - msgFlip, new)
    BY <1>0, <2>4, <2>6, <2>7, LastTwoSay, Zenon
  <2> QED
    BY <1>2, <2>6, <2>8 DEF Say
<1>3. CASE TickBegin
  <2>1. /\ Len(r) = Len(evq) /\ UNCHANGED <<msgFlip, msgBuf, evDropped>>
        /\ \A k \in 1 .. Len(evq) :
              r[k] = IF evq[k].type = "pcm" THEN [evq[k] EXCEPT !.live = FALSE] ELSE evq[k]
    BY <1>3, SpoiledEvents DEF TickBegin, msgVars
  <2>2. \A k \in 1 .. Len(evq) : evq[k] \in Events
    BY <1>0, ElementOfSeq DEF EventType
  <2>3. \A k \in 1 .. Len(evq) : evq[k].type = "pcm" => r[k].type = "pcm"
    BY <2>1, <2>2 DEF Events, Messages, PcmEvents
  <2>4. \A k \in 1 .. Len(evq) : (IsMessage(evq[k]) => r[k] = evq[k])
                                /\ (IsMessage(r[k]) => r[k] = evq[k])
    BY <2>1, <2>3 DEF IsMessage
  <2>5. ~evDropped => LastTwoRead(r, msgFlip, msgBuf)
    BY <1>0, <2>1, <2>4, LastTwoSame
  <2> QED
    BY <2>1, <2>5
<1>4. CASE PollEvent
  <2>1. /\ Len(r) = Len(evq) - 1 /\ Len(evq) \in Nat \ {0}
        /\ \A k \in 1 .. Len(r) : r[k] = evq[k + 1]
        /\ UNCHANGED <<msgFlip, msgBuf, evDropped>>
    BY <1>4, TakenEvent DEF PollEvent, msgVars
  <2>2. ~evDropped => LastTwoRead(r, msgFlip, msgBuf)
    BY <2>1, LastTwoTail
  <2> QED
    BY <2>1, <2>2
<1>5. ASSUME NEW on \in BOOLEAN, Emit(<<ConnectionEvent(on)>>), UNCHANGED msgVars, ~evDropped'
      PROVE  LastTwoRead(evq', msgFlip', msgBuf')
  <2>1. \A k \in 1 .. Len(<<ConnectionEvent(on)>>) : ~IsMessage(<<ConnectionEvent(on)>>[k])
    BY DEF ConnectionEvent, IsMessage
  <2> QED
    BY <1>1, <1>5, <2>1, ConnectionIsEvent
<1>6. ASSUME NEW i \in Players, SpeakerSilent(i) \/ SpeakerDecodeFails(i) \/ SpeakerPlays(i),
             ~evDropped'
      PROVE  LastTwoRead(evq', msgFlip', msgBuf')
  <2>1. UNCHANGED msgVars
    BY <1>6 DEF SpeakerSilent, SpeakerDecodeFails, SpeakerPlays, SpeakerTurn
  <2>2. OffEvents(i) \in Seq(Events) /\ \A k \in 1 .. Len(OffEvents(i)) : ~IsMessage(OffEvents(i)[k])
    BY OffEventsType, OffIsNoFrame DEF IsMessage
  <2>3. CASE Emit(OffEvents(i))
    BY <1>1, <1>6, <2>1, <2>2, <2>3
  <2>4. CASE SpeakerPlays(i)
    <3> DEFINE es == OffEvents(i) \o <<PlayEvent(i)>>
    <3>1. Emit(es)
      BY <2>4 DEF SpeakerPlays, PlayEvent
    <3>2. es \in Seq(Events) /\ \A k \in 1 .. Len(es) : es[k].type \in {"speaking", "pcm"}
      BY PlayedTypes
    <3> HIDE DEF es
    <3>3. \A k \in 1 .. Len(es) : ~IsMessage(es[k])
      BY <3>2 DEF IsMessage
    <3> QED
      BY <1>1, <1>6, <2>1, <3>1, <3>2, <3>3
  <2> QED
    BY <1>6, <2>3, <2>4 DEF SpeakerSilent, SpeakerDecodeFails
<1>7. ASSUME NEW p \in Packets, NEW fits \in BOOLEAN, Ingest(p[1], p[2], fits), ~evDropped'
      PROVE  LastTwoRead(evq', msgFlip', msgBuf')
  <2>1. PICK es \in Seq(Events) : /\ Emit(es) /\ UNCHANGED msgVars
                                  /\ \A k \in 1 .. Len(es) : es[k].type = "speaking"
    BY <1>7, IngestEvents
  <2>2. \A k \in 1 .. Len(es) : ~IsMessage(es[k])
    BY <2>1 DEF IsMessage
  <2> QED
    BY <1>1, <1>7, <2>1, <2>2
<1>8. CASE UNCHANGED eventVars
  BY <1>8 DEF eventVars, queueVars, msgVars
<1>9. CASE DrainEnd
  BY <1>8, <1>9 DEF DrainEnd
<1> QED
  BY <1>2, <1>3, <1>4, <1>5, <1>6, <1>7, <1>8, <1>9, EventCases

\* As long as no event is lost, the last two messages in the queue read as they
\* were written, for any capacity of the queue and any calls (voice.c:170-174).
THEOREM LastMessagesIntact == Spec => []LastTwoMessagesIntact
<1> DEFINE Read == ~evDropped => LastTwoRead(evq, msgFlip, msgBuf)
<1>1. Init => Read
  <2> SUFFICES ASSUME Init PROVE LastTwoRead(evq, msgFlip, msgBuf)
    OBVIOUS
  <2>1. PICK e : e = [type |-> "log", text |-> "initialized", buf |-> 0] /\ evq = <<e>>
    BY DEF Init
  <2>2. e.buf = 0 /\ e.text = "initialized"
    BY <2>1
  <2>3. msgFlip = 1 /\ msgBuf[0] = "initialized"
    BY DEF Init
  <2>4. Len(evq) = 1 /\ evq[1] = e
    BY <2>1
  <2>5. \A k \in 1 .. Len(evq) : k = 1 /\ ~IsLastButOne(evq, k)
    BY <2>4 DEF IsLastButOne
  <2> QED
    BY <2>2, <2>3, <2>4, <2>5 DEF LastTwoRead
<1>2. TypeInv /\ Read /\ [Next]_vars => Read'
  BY LastTwoStep
<1>3. TypeInv /\ Read => LastTwoMessagesIntact
  <2> SUFFICES ASSUME TypeInv, LastTwoRead(evq, msgFlip, msgBuf), NEW k \in MessagesFrom(1),
                      \A a, b \in MessagesFrom(k + 1) : a = b
               PROVE  msgBuf[evq[k].buf] = evq[k].text
    BY DEF LastTwoMessagesIntact
  <2>1. k \in 1 .. Len(evq) /\ IsMessage(evq[k])
    BY DEF MessagesFrom, IsMessage
  <2>2. CASE MessagesFrom(k + 1) = {}
    <3>1. IsLast(evq, k)
      BY <2>2 DEF MessagesFrom, IsLast, IsMessage
    <3> QED
      BY <2>1, <3>1 DEF LastTwoRead
  <2>3. ASSUME NEW m \in MessagesFrom(k + 1)
        PROVE  msgBuf[evq[k].buf] = evq[k].text
    <3>1. IsLastButOne(evq, k)
      BY <2>3 DEF MessagesFrom, IsLastButOne, IsMessage
    <3> QED
      BY <2>1, <3>1 DEF LastTwoRead
  <2> QED
    BY <2>2, <2>3
<1> QED
  BY <1>1, <1>2, <1>3, TypeInvariant, PTL DEF Spec, SafeSpec

--------------------------------------------------------------------------------
(* When a speaker falls silent.                                              *)

\* Of whoever speaks, the engine has the time of his last packet, as the clock
\* showed it.
TimesKnown ==
  \A i \in Players : speaking[i] => /\ rxAt[i] <= clock
                                    /\ lastRxMs[i] = (ClockStart + rxAt[i]) % ClockMod

\* Every step keeps the times of the packets of those who speak.
LEMMA TimesKnownStep ==
  ASSUME ReceiveType, TimesKnown, [Next]_vars
  PROVE  TimesKnown'
<1> USE DEF receiveVars, rxVars, hostVars
<1>1. CASE UNCHANGED <<rxVars, clock>> /\ \A i \in Players : speaking'[i] => speaking[i]
  BY <1>1 DEF TimesKnown
<1>2. ASSUME NEW id \in Identities, Connect(id) \/ ConnectRefused(id)
      PROVE  TimesKnown'
  BY <1>1, <1>2 DEF Connect, ConnectRefused
<1>3. ASSUME NEW st \in LocalStates, SetLocalState(st)
      PROVE  TimesKnown'
  BY <1>1, <1>3 DEF SetLocalState
<1>4. CASE Disconnect \/ Submit \/ PollOutgoing \/ PollEvent \/ UNCHANGED vars
  BY <1>1, <1>4 DEF Disconnect, Submit, SubmitCheck, SubmitPush, PollOutgoing, PollEvent, vars
<1>5. CASE DrainMuted \/ DrainEncodeFails \/ DrainQueues \/ DrainDrops
  BY <1>1, <1>5 DEF DrainMuted, DrainEncodeFails, DrainQueues, QueueVoice, DrainDrops, drainLeaves
<1>6. CASE TickBegin \/ DrainEnd
  BY <1>1, <1>6 DEF TickBegin, DrainEnd
<1>7. ASSUME NEW i \in Players, SpeakerSilent(i) \/ SpeakerDecodeFails(i) \/ SpeakerPlays(i)
      PROVE  TimesKnown'
  <2>1. SpeakerTurn(i)
    BY <1>7 DEF SpeakerSilent, SpeakerDecodeFails, SpeakerPlays
  <2>2. \A j \in Players : speaking'[j] => speaking[j]
    BY <2>1 DEF SpeakerTurn, ReceiveType
  <2> QED
    BY <1>1, <2>1, <2>2 DEF SpeakerTurn
<1>8. ASSUME NEW p \in Packets, NEW fits \in BOOLEAN, Ingest(p[1], p[2], fits)
      PROVE  TimesKnown'
  <2>1. PICK i : i = p[1] /\ i \in Players
    BY EngineAssumption DEF Players
  <2>2. /\ lastRxMs' = [lastRxMs EXCEPT ![i] = Now] /\ rxAt' = [rxAt EXCEPT ![i] = clock]
        /\ speaking' = [speaking EXCEPT ![i] = TRUE] /\ clock' = clock
    BY <1>8, <2>1 DEF Ingest
  <2>3. Now = (ClockStart + clock) % ClockMod /\ clock <= clock
    BY DEF Now, ReceiveType
  <2> QED
    BY <2>1, <2>2, <2>3 DEF TimesKnown, ReceiveType
<1>9. CASE TimePasses
  <2>1. PICK c : c = clock'
    OBVIOUS
  <2>2. c = clock + 1 /\ UNCHANGED <<speaking, rxVars>>
    BY <1>9, <2>1 DEF TimePasses
  <2>3. \A i \in Players : rxAt[i] <= clock => rxAt[i] <= c
    BY <2>2 DEF ReceiveType
  <2> QED
    BY <2>1, <2>2, <2>3 DEF TimesKnown
<1> QED
  BY <1>2, <1>3, <1>4, <1>5, <1>6, <1>7, <1>8, <1>9 DEF Next, Tick, Host

\* The elapsed time is computed rightly across the wrap of the clock.
LEMMA ElapsedIsTrue ==
  ASSUME ReceiveType, TimesKnown, NEW i \in Players, speaking[i]
  PROVE  Elapsed(lastRxMs[i]) = clock - rxAt[i]
<1> DEFINE a == ClockStart + clock
           b == ClockStart + rxAt[i]
<1>1. a \in Nat /\ b \in Nat /\ b <= a /\ a - b < ClockMod /\ a - b = clock - rxAt[i]
  <2>1. clock \in 0 .. MaxTime /\ rxAt[i] \in 0 .. MaxTime /\ rxAt[i] <= clock
    BY DEF ReceiveType, TimesKnown
  <2> QED
    BY <2>1, EngineAssumption
<1>2. Elapsed(lastRxMs[i]) = ((a % ClockMod) - (b % ClockMod)) % ClockMod
  BY DEF Elapsed, Now, TimesKnown
<1> HIDE DEF a, b
<1>3. ((a % ClockMod) - (b % ClockMod)) % ClockMod = a - b
  BY <1>1, ElapsedRemainder, EngineAssumption
<1> QED
  BY <1>1, <1>2, <1>3

\* A turn in a tick ends a speaker's speaking if and only if the timeout has truly
\* passed, for any timeout, range and first reading of the clock (voice.c:602).
THEOREM SilenceIsTimely == Spec => SpeakingFollowsTime
<1> DEFINE InTime(i) == clock - rxAt[i] <= Timeout
<1>1. Init => TimesKnown
  BY DEF Init, TimesKnown
<1>2. TypeInv /\ TimesKnown /\ [Next]_vars => TimesKnown'
  BY TimesKnownStep DEF TypeInv
<1>3. TypeInv /\ TimesKnown /\ [Next]_vars
      => [\A i \in Players :
            game = "speakers" /\ turn = i /\ turn' # i =>
              speaking'[i] = (speaking[i] /\ clock - rxAt[i] <= Timeout)]_vars
  <2> SUFFICES ASSUME TypeInv, TimesKnown, [Next]_vars, NEW i \in Players,
                      game = "speakers", turn = i, turn' # i
               PROVE  speaking'[i] = (speaking[i] /\ InTime(i))
    OBVIOUS
  <2>1. SpeakerTurn(i)
    BY TurnCases
  <2>2. speaking'[i] = (speaking[i] /\ ~TimedOut(i)) /\ speaking[i] \in BOOLEAN
    BY <2>1 DEF SpeakerTurn, TypeInv, ReceiveType
  <2>3. InTime(i) \in BOOLEAN
    BY DEF InTime
  <2>4. speaking[i] => (TimedOut(i) <=> ~InTime(i))
    <3>1. ASSUME speaking[i] PROVE Elapsed(lastRxMs[i]) > Timeout <=> ~(clock - rxAt[i] <= Timeout)
      BY <3>1, ElapsedIsTrue, EngineAssumption DEF TypeInv, ReceiveType
    <3> QED
      BY <3>1 DEF TimedOut
  <2> HIDE DEF InTime
  <2>5. CASE speaking[i] /\ InTime(i)
    BY <2>2, <2>3, <2>4, <2>5
  <2>6. CASE ~(speaking[i] /\ InTime(i))
    BY <2>2, <2>3, <2>4, <2>6
  <2> QED
    BY <2>5, <2>6
<1> QED
  BY <1>1, <1>2, <1>3, TypeInvariant, PTL DEF Spec, SafeSpec, SpeakingFollowsTime

--------------------------------------------------------------------------------
(* What the host knows.                                                      *)

\* g is what a host that believes v believes in turn as it takes the first n events
\* of q, and x is what it believes in the end.
Telling(v, q, n, g) == g = [k \in 0 .. n |-> IF k = 0 THEN v ELSE Learned(g[k - 1], q[k])]
Told(v, q, n, x) == \E g : Telling(v, q, n, g) /\ g[n] = x

\* A telling, step by step.
Steps(v, q, n, g) == g[0] = v /\ \A k \in 1 .. n : g[k] = Learned(g[k - 1], q[k])

\* The function in Telling takes one event per step.
LEMMA TellingSteps ==
  ASSUME NEW v, NEW q, NEW n \in Nat, NEW g, Telling(v, q, n, g)
  PROVE  Steps(v, q, n, g)
<1>1. PICK h : h = g /\ h = [k \in 0 .. n |-> IF k = 0 THEN v ELSE Learned(g[k - 1], q[k])]
  BY DEF Telling
<1>2. 0 \in 0 .. n /\ \A k \in 1 .. n : k \in 0 .. n /\ k # 0
  OBVIOUS
<1>3. h[0] = v /\ \A k \in 1 .. n : h[k] = Learned(g[k - 1], q[k])
  BY <1>1, <1>2
<1> QED
  BY <1>1, <1>3 DEF Steps

Beliefs(g, n) == g = [k \in 0 .. n |-> g[k]]

\* And every function that does is that function.
LEMMA StepsTell ==
  ASSUME NEW v, NEW q, NEW n \in Nat, NEW g, Beliefs(g, n), Steps(v, q, n, g)
  PROVE  Told(v, q, n, g[n])
<1> DEFINE h == [k \in 0 .. n |-> IF k = 0 THEN v ELSE Learned(g[k - 1], q[k])]
<1>1. ASSUME NEW k \in 0 .. n
      PROVE  g[k] = h[k]
  <2>1. CASE k = 0
    BY <2>1 DEF Steps
  <2>2. CASE k # 0
    <3>1. k \in 1 .. n
      BY <2>2
    <3>2. h[k] = Learned(g[k - 1], q[k])
      BY <2>2
    <3> QED
      BY <3>1, <3>2 DEF Steps
  <2> QED
    BY <2>1, <2>2
<1>2. g = h
  BY <1>1 DEF Beliefs
<1>3. Telling(v, q, n, g)
  BY <1>2 DEF Telling
<1> QED
  BY <1>3 DEF Told

\* Nothing told, one event told, and events told after others.
LEMMA ToldNothing ==
  ASSUME NEW v, NEW q
  PROVE  Told(v, q, 0, v)
<1> DEFINE g == [k \in 0 .. 0 |-> v]
<1>1. Beliefs(g, 0) /\ Steps(v, q, 0, g) /\ g[0] = v
  BY DEF Beliefs, Steps
<1> HIDE DEF g
<1> QED
  BY <1>1, StepsTell

\* Two stretches of events, one after the other.
LEMMA ToldAfter ==
  ASSUME NEW v, NEW x, NEW y, NEW q, NEW es, NEW r, NEW n \in Nat, NEW m \in Nat,
         \A k \in 1 .. n : r[k] = q[k],
         \A k \in n + 1 .. n + m : r[k] = es[k - n],
         Told(v, q, n, x), Told(x, es, m, y)
  PROVE  Told(v, r, n + m, y)
<1>1. PICK a : Telling(v, q, n, a) /\ a[n] = x
  BY DEF Told
<1>2. PICK b : Telling(x, es, m, b) /\ b[m] = y
  BY DEF Told
<1>3. Steps(v, q, n, a)
  BY <1>1, TellingSteps
<1>4. Steps(x, es, m, b)
  BY <1>2, TellingSteps
<1> DEFINE g == [k \in 0 .. n + m |-> IF k <= n THEN a[k] ELSE b[k - n]]
<1>5. Beliefs(g, n + m)
  BY DEF Beliefs
<1>6. g[0] = v /\ (\A k \in 0 .. n : g[k] = a[k]) /\ \A k \in n .. n + m : g[k] = b[k - n]
  BY <1>1, <1>3, <1>4 DEF Steps
<1> HIDE DEF g
<1>7. ASSUME NEW k \in 1 .. n + m
      PROVE  g[k] = Learned(g[k - 1], r[k])
  <2>1. CASE k <= n
    <3>1. k \in 1 .. n /\ k \in 0 .. n /\ k - 1 \in 0 .. n
      BY <2>1
    <3> QED
      BY <1>3, <1>6, <3>1 DEF Steps
  <2>2. CASE k > n
    <3>1. k - n \in 1 .. m /\ k \in n .. n + m /\ k - 1 \in n .. n + m /\ k - 1 - n = k - n - 1
          /\ k \in n + 1 .. n + m
      BY <2>2
    <3>2. b[k - n] = Learned(b[k - n - 1], es[k - n])
      BY <1>4, <3>1 DEF Steps
    <3> QED
      BY <1>6, <3>1, <3>2
  <2> QED
    BY <2>1, <2>2
<1>8. n + m \in Nat /\ g[n + m] = y /\ Steps(v, r, n + m, g)
  BY <1>2, <1>6, <1>7 DEF Steps
<1> QED
  BY <1>5, <1>8, StepsTell

\* One event.
LEMMA ToldOne ==
  ASSUME NEW v, NEW q, NEW e, q[1] = e
  PROVE  Told(v, q, 1, Learned(v, e))
<1> DEFINE g == [k \in 0 .. 1 |-> IF k = 0 THEN v ELSE Learned(v, e)]
<1>1. Beliefs(g, 1) /\ g[0] = v /\ g[1] = Learned(v, e)
  BY DEF Beliefs
<1> HIDE DEF g
<1>2. Steps(v, q, 1, g)
  BY <1>1 DEF Steps
<1> QED
  BY <1>1, <1>2, StepsTell

\* Events that say the same tell the same, and an event taken is told no more.
LEMMA ToldSame ==
  ASSUME NEW v, NEW q, NEW r, NEW n \in Nat, NEW x,
         \A k \in 1 .. n : \A w : Learned(w, r[k]) = Learned(w, q[k]),
         Told(v, q, n, x)
  PROVE  Told(v, r, n, x)
<1>1. PICK g : Telling(v, q, n, g) /\ g[n] = x
  BY DEF Told
<1>2. Steps(v, q, n, g)
  BY <1>1, TellingSteps
<1>3. Beliefs(g, n)
  <2>1. PICK h : h = g /\ h = [k \in 0 .. n |-> IF k = 0 THEN v ELSE Learned(g[k - 1], q[k])]
    BY <1>1 DEF Telling
  <2>2. h = [k \in 0 .. n |-> h[k]]
    BY <2>1
  <2> QED
    BY <2>1, <2>2 DEF Beliefs
<1>4. Steps(v, r, n, g)
  BY <1>2 DEF Steps
<1> QED
  BY <1>1, <1>3, <1>4, StepsTell

\* What is left to be told when the first event has been.
LEMMA ToldRest ==
  ASSUME NEW v, NEW q, NEW r, NEW n \in Nat \ {0}, NEW x,
         \A k \in 1 .. n - 1 : r[k] = q[k + 1],
         Told(v, q, n, x)
  PROVE  Told(Learned(v, q[1]), r, n - 1, x)
<1>1. PICK a : Telling(v, q, n, a) /\ a[n] = x
  BY DEF Told
<1>2. Steps(v, q, n, a)
  BY <1>1, TellingSteps
<1> DEFINE g == [k \in 0 .. n - 1 |-> a[k + 1]]
<1>3. Beliefs(g, n - 1) /\ \A k \in 0 .. n - 1 : g[k] = a[k + 1]
  BY DEF Beliefs
<1> HIDE DEF g
<1>4. n - 1 \in Nat /\ g[0] = Learned(v, q[1]) /\ g[n - 1] = x
  BY <1>1, <1>2, <1>3 DEF Steps
<1>5. ASSUME NEW k \in 1 .. n - 1
      PROVE  g[k] = Learned(g[k - 1], r[k])
  <2>1. k \in 0 .. n - 1 /\ k - 1 \in 0 .. n - 1 /\ k - 1 + 1 = k /\ k + 1 \in 1 .. n
        /\ k + 1 - 1 = k
    OBVIOUS
  <2> QED
    BY <1>2, <1>3, <2>1 DEF Steps
<1>6. Steps(Learned(v, q[1]), r, n - 1, g)
  BY <1>4, <1>5 DEF Steps
<1> QED
  BY <1>3, <1>4, <1>6, StepsTell

\* What is told is told without ambiguity: of two tellings none can be the first to
\* differ.
LEMMA ToldOnce ==
  ASSUME NEW v, NEW q, NEW n \in Nat, NEW a, NEW b, Telling(v, q, n, a), Telling(v, q, n, b)
  PROVE  a[n] = b[n]
<1>1. Steps(v, q, n, a)
  BY TellingSteps
<1>2. Steps(v, q, n, b)
  BY TellingSteps
<1> DEFINE D == {k \in Nat : k <= n /\ a[k] # b[k]}
<1> SUFFICES ASSUME D # {} PROVE FALSE
  OBVIOUS
<1>3. D \subseteq Nat
  OBVIOUS
<1> HIDE DEF D
<1>4. PICK k \in D : \A j \in D : <<j, k>> \notin OpToRel(<, Nat)
  BY <1>3, WFMin, NatLessThanWellFounded, Zenon
<1>5. \A j \in Nat : j < k => j \notin D
  BY <1>3, <1>4, Zenon DEF OpToRel
<1>6. k \in Nat /\ k <= n /\ a[k] # b[k]
  BY DEF D
<1>7. k # 0
  BY <1>1, <1>2, <1>6 DEF Steps
<1>8. k \in 1 .. n /\ k - 1 \in Nat /\ k - 1 < k /\ k - 1 <= n
  BY <1>6, <1>7
<1>9. a[k - 1] = b[k - 1]
  <2>1. k - 1 \notin D
    BY <1>5, <1>8
  <2> QED
    BY <1>8, <2>1 DEF D
<1> QED
  BY <1>1, <1>2, <1>6, <1>8, <1>9 DEF Steps

\* What a host learns from each kind of event (rv_voice_event_t).
View(c, s) == [connected |-> c, speaking |-> s]

\* Messages and frames say nothing about connection and speakers.
LEMMA LearnsNothing ==
  ASSUME NEW w, NEW e, e.type \in {"log", "error", "pcm"}
  PROVE  Learned(w, e) = w
BY DEF Learned

\* A connection event sets the connection.
LEMMA LearnsConnection ==
  ASSUME NEW c, NEW s, NEW on \in BOOLEAN
  PROVE  Learned(View(c, s), ConnectionEvent(on)) = View(on, s)
<1>1. PICK w, e : w = View(c, s) /\ e = ConnectionEvent(on)
  OBVIOUS
<1>2. e.type = "connection" /\ e.on = on
  BY <1>1 DEF ConnectionEvent
<1>3. Learned(w, e) = [w EXCEPT !.connected = on]
  BY <1>2 DEF Learned
<1>4. [w EXCEPT !.connected = on] = View(on, s)
  BY <1>1 DEF View
<1> QED
  BY <1>1, <1>3, <1>4

\* A speaking event sets its speaker.
LEMMA LearnsSpeaking ==
  ASSUME NEW c, NEW s \in [Players -> BOOLEAN], NEW i \in Players, NEW on \in BOOLEAN
  PROVE  Learned(View(c, s), SpeakingEvent(i, on)) = View(c, [s EXCEPT ![i] = on])
<1>1. PICK w, e : w = View(c, s) /\ e = SpeakingEvent(i, on)
  OBVIOUS
<1>2. e.type = "speaking" /\ e.on = on /\ e.speaker = i
  BY <1>1 DEF SpeakingEvent
<1>3. Learned(w, e) = [w EXCEPT !.speaking[i] = on]
  BY <1>2 DEF Learned
<1>4. w.speaking = s /\ w.connected = c
  BY <1>1 DEF View
<1>5. PICK t : t = [s EXCEPT ![i] = on]
  OBVIOUS
<1>6. [w EXCEPT !.speaking = t] = View(c, t)
  BY <1>1 DEF View
<1>7. [w EXCEPT !.speaking[i] = on] = [w EXCEPT !.speaking = t]
  BY <1>4, <1>5
<1> QED
  BY <1>1, <1>3, <1>5, <1>6, <1>7

\* Types of events that tell of nothing that lasts.
Neutral == {"log", "error", "pcm"}

\* The subjects of the events the code emits.
LEMMA Subjects ==
  /\ \A e : e.type \in Neutral => Subject(e) = {}
  /\ \A on \in BOOLEAN : Subject(ConnectionEvent(on)) = {TheConnection}
  /\ \A i, on : Subject(SpeakingEvent(i, on)) = {i}
<1>1. ASSUME NEW on PROVE Subject(ConnectionEvent(on)) = {TheConnection}
  <2>1. PICK e : e = ConnectionEvent(on)
    OBVIOUS
  <2>2. e.type = "connection"
    BY <2>1 DEF ConnectionEvent
  <2> QED
    BY <2>1, <2>2 DEF Subject
<1>2. ASSUME NEW i, NEW on PROVE Subject(SpeakingEvent(i, on)) = {i}
  <2>1. PICK e : e = SpeakingEvent(i, on)
    OBVIOUS
  <2>2. e.type = "speaking" /\ e.speaker = i
    BY <2>1 DEF SpeakingEvent
  <2> QED
    BY <2>1, <2>2 DEF Subject
<1>3. \A e : e.type \in Neutral => Subject(e) = {}
  BY DEF Subject, Neutral
<1> QED
  BY <1>1, <1>2, <1>3

\* Of at most two events, only the first of which tells of something that lasts, that
\* one is either told after those in the queue, or lost, and its subject with it
\* (rv_event_queue.h:19-24).
LEMMA EmitTells ==
  ASSUME EventType, NEW es \in Seq(Events), Emit(es), Len(es) <= 2,
         Len(es) = 2 => es[2].type \in Neutral, NEW v, NEW x, Told(v, evq, Len(evq), x)
  PROVE  \/ Len(es) = 0 /\ untold' = untold /\ Told(v, evq', Len(evq'), x)
         \/ /\ Len(es) # 0 /\ untold' = untold \ Subject(es[1])
            /\ Told(v, evq', Len(evq'), Learned(x, es[1]))
         \/ /\ Len(es) # 0 /\ untold' = untold \cup Subject(es[1])
            /\ Told(v, evq', Len(evq'), x)
<1>1. PICK r : r = evq'
  OBVIOUS
<1>2. /\ Len(es) \in Nat /\ Len(evq) \in Nat /\ Len(r) \in Nat /\ EventCap \in Nat
      /\ Len(evq) <= Len(r) /\ Len(r) <= EventCap /\ Len(r) <= Len(evq) + Len(es)
      /\ Len(r) = Len(evq) + Len(es) \/ Len(r) = EventCap
      /\ \A k \in 1 .. Len(evq) : r[k] = evq[k]
      /\ \A k \in Len(evq) + 1 .. Len(r) : r[k] = es[k - Len(evq)]
  BY <1>1, EmitEffect, EngineAssumption
<1>3. PICK m \in 0 .. 2 : Len(r) = Len(evq) + m
  <2>1. Len(r) - Len(evq) \in 0 .. 2 /\ Len(r) = Len(evq) + (Len(r) - Len(evq))
    BY <1>2
  <2> QED
    BY <2>1
<1>4. m <= Len(es) /\ \A k \in 1 .. Len(es) : (Len(evq) + k > EventCap <=> k > m)
  BY <1>2, <1>3
<1>5. DOMAIN es = 1 .. Len(es)
  BY LenProperties
<1>6. untold' = (untold \ About(es, 1 .. Len(es))) \cup About(es, {k \in 1 .. Len(es) : k > m})
  <2>1. {k \in DOMAIN es : Len(evq) + k > EventCap} = {k \in 1 .. Len(es) : k > m}
    BY <1>4, <1>5
  <2>2. untold' = (untold \ About(es, DOMAIN es))
                  \cup About(es, {k \in DOMAIN es : Len(evq) + k > EventCap})
    BY DEF Emit
  <2> QED
    BY <1>5, <2>1, <2>2
<1>7. ASSUME NEW y, Told(x, es, m, y)
      PROVE  Told(v, evq', Len(evq'), y)
  <2>1. m \in Nat /\ \A k \in Len(evq) + 1 .. Len(evq) + m : r[k] = es[k - Len(evq)]
    BY <1>2, <1>3
  <2>2. Told(v, r, Len(evq) + m, y)
    BY <1>2, <1>7, <2>1, ToldAfter
  <2> QED
    BY <1>1, <1>3, <2>2
<1>8. Told(x, es, 0, x)
  BY ToldNothing
<1>9. Told(x, es, 1, Learned(x, es[1]))
  BY ToldOne
<1>10. CASE Len(es) = 0
  <2>1. m = 0 /\ \A K \in SUBSET (1 .. Len(es)) : K = {}
    BY <1>4, <1>10
  <2>2. untold' = untold
    BY <1>6, <1>10 DEF About
  <2> QED
    BY <1>7, <1>8, <1>10, <2>1, <2>2
<1>11. CASE Len(es) # 0
  <2>0. Len(es) \in {1, 2} /\ 1 \in 1 .. Len(es)
    <3>1. PICK n \in Nat : n = Len(es)
      BY <1>2
    <3>2. n # 0 /\ n <= 2
      BY <1>11, <3>1
    <3>3. n \in {1, 2} /\ 1 \in 1 .. n
      BY <3>2
    <3> QED
      BY <3>1, <3>3
  <2>1. \A k \in 1 .. Len(es) : k = 1 \/ Subject(es[k]) = {}
    BY <2>0, Subjects
  <2>2. ASSUME NEW K \in SUBSET (1 .. Len(es))
        PROVE  About(es, K) = IF 1 \in K THEN Subject(es[1]) ELSE {}
    BY <2>1 DEF About
  <2>3. About(es, 1 .. Len(es)) = Subject(es[1])
    BY <2>0, <2>2
  <2>4. About(es, {k \in 1 .. Len(es) : k > m}) = IF m = 0 THEN Subject(es[1]) ELSE {}
    <3>1. 1 > m <=> m = 0
      OBVIOUS
    <3>2. 1 \in {k \in 1 .. Len(es) : k > m} <=> m = 0
      BY <2>0, <3>1
    <3> QED
      BY <2>2, <3>2
  <2>5. CASE m = 0
    <3>1. untold' = untold \cup Subject(es[1])
      BY <1>6, <2>3, <2>4, <2>5
    <3> QED
      BY <1>7, <1>8, <1>11, <2>5, <3>1
  <2>6. CASE m # 0
    <3>1. untold' = untold \ Subject(es[1])
      BY <1>6, <2>3, <2>4, <2>6
    <3>2. Told(x, es, m, Learned(x, es[1]))
      <4>1. CASE m = 1
        BY <1>9, <4>1
      <4>2. CASE m = 2
        <5>1. PICK one : one[1] = es[2]
          <6>1. <<es[2]>>[1] = es[2]
            OBVIOUS
          <6> QED
            BY <6>1
        <5>2. es[2].type \in Neutral
          BY <1>4, <2>0, <4>2
        <5>3. Told(Learned(x, es[1]), one, 1, Learned(x, es[1]))
          <6>1. Learned(Learned(x, es[1]), es[2]) = Learned(x, es[1])
            BY <5>2, LearnsNothing DEF Neutral
          <6> QED
            BY <5>1, <6>1, ToldOne
        <5>4. \A k \in 1 + 1 .. 1 + 1 : es[k] = one[k - 1]
          BY <5>1
        <5>5. Told(x, es, 1 + 1, Learned(x, es[1]))
          BY <1>9, <5>3, <5>4, ToldAfter
        <5> QED
          BY <4>2, <5>5
      <4> QED
        BY <1>3, <2>6, <4>1, <4>2
    <3> QED
      BY <1>7, <1>11, <3>1, <3>2
  <2> QED
    BY <2>5, <2>6
<1> QED
  BY <1>10, <1>11

\* A belief is right of all but those whose latest event was lost.
Right(c, s) == /\ TheConnection \notin untold => c = connected
               /\ \A i \in Players \ untold : s[i] = speaking[i]

\* What a host will believe when it has taken all events in the queue is right.
Knowing == \E c \in BOOLEAN, s \in [Players -> BOOLEAN] :
             Told(hostView, evq, Len(evq), View(c, s)) /\ Right(c, s)

\* Events of which none tells of anything that lasts change no belief.
LEMMA NeutralKept ==
  ASSUME EventType, Knowing, NEW es \in Seq(Events), Emit(es), Len(es) <= 1,
         Len(es) = 1 => es[1].type \in Neutral, UNCHANGED <<connected, speaking, hostView>>
  PROVE  Knowing'
<1>1. PICK c \in BOOLEAN, s \in [Players -> BOOLEAN] :
         Told(hostView, evq, Len(evq), View(c, s)) /\ Right(c, s)
  BY DEF Knowing
<1>2. Len(es) \in Nat
  BY LenProperties
<1>3. Len(es) <= 2 /\ Len(es) # 2
  BY <1>2
<1>4. Len(es) # 0 => Subject(es[1]) = {} /\ Learned(View(c, s), es[1]) = View(c, s)
  <2>1. Len(es) = 0 \/ Len(es) = 1
    <3>1. PICK n \in Nat : n = Len(es)
      BY <1>2
    <3>2. n <= 1
      BY <3>1
    <3>3. n = 0 \/ n = 1
      BY <3>2
    <3> QED
      BY <3>1, <3>3
  <2> QED
    BY <2>1, Subjects, LearnsNothing DEF Neutral
<1>5. untold' = untold /\ Told(hostView, evq', Len(evq'), View(c, s))
  BY <1>1, <1>3, <1>4, EmitTells
<1>6. Right(c, s)'
  BY <1>1, <1>5 DEF Right
<1> QED
  BY <1>5, <1>6 DEF Knowing

\* A connection event tells of the connection, or the connection is untold.
LEMMA ConnectionKept ==
  ASSUME EventType, Knowing, NEW on \in BOOLEAN, Emit(<<ConnectionEvent(on)>>), connected' = on,
         UNCHANGED <<speaking, hostView>>
  PROVE  Knowing'
<1>1. PICK c \in BOOLEAN, s \in [Players -> BOOLEAN] :
         Told(hostView, evq, Len(evq), View(c, s)) /\ Right(c, s)
  BY DEF Knowing
<1>2. PICK e : e = ConnectionEvent(on)
  OBVIOUS
<1>3. e \in Events /\ <<e>> \in Seq(Events) /\ Emit(<<e>>) /\ Len(<<e>>) = 1 /\ <<e>>[1] = e
  BY <1>2, ConnectionIsEvent
<1>4. Subject(e) = {TheConnection} /\ Learned(View(c, s), e) = View(on, s)
  BY <1>2, Subjects, LearnsConnection
<1>5. \/ untold' = untold \ {TheConnection} /\ Told(hostView, evq', Len(evq'), View(on, s))
      \/ untold' = untold \cup {TheConnection} /\ Told(hostView, evq', Len(evq'), View(c, s))
  <2>1. PICK es \in Seq(Events) : Emit(es) /\ Len(es) = 1 /\ es[1] = e
    BY <1>3
  <2> QED
    BY <1>1, <1>4, <2>1, EmitTells
<1>6. TheConnection \notin Players
  BY DEF TheConnection, Players
<1>7. CASE untold' = untold \ {TheConnection} /\ Told(hostView, evq', Len(evq'), View(on, s))
  <2>1. Right(on, s)'
    BY <1>1, <1>6, <1>7 DEF Right
  <2> QED
    BY <1>7, <2>1 DEF Knowing
<1>8. CASE untold' = untold \cup {TheConnection} /\ Told(hostView, evq', Len(evq'), View(c, s))
  <2>1. Right(c, s)'
    BY <1>1, <1>8 DEF Right
  <2> QED
    BY <1>8, <2>1 DEF Knowing
<1> QED
  BY <1>5, <1>7, <1>8

\* Events that begin with one about a speaker tell of him, or he is untold.
LEMMA SpeakingKept ==
  ASSUME EventType, ReceiveType, Knowing, NEW i \in Players, NEW on \in BOOLEAN,
         speaking' = [speaking EXCEPT ![i] = on], UNCHANGED <<connected, hostView>>,
         NEW es \in Seq(Events), Emit(es), Len(es) # 0, Len(es) <= 2,
         Len(es) = 2 => es[2].type \in Neutral,
         NEW e, e = SpeakingEvent(i, on), es[1] = e
  PROVE  Knowing'
<1>1. PICK c \in BOOLEAN, s \in [Players -> BOOLEAN] :
         Told(hostView, evq, Len(evq), View(c, s)) /\ Right(c, s)
  BY DEF Knowing
<1>2. PICK t : t = [s EXCEPT ![i] = on]
  OBVIOUS
<1>3. t \in [Players -> BOOLEAN] /\ t[i] = on /\ \A j \in Players \ {i} : t[j] = s[j]
  BY <1>2
<1>4. Subject(e) = {i} /\ Learned(View(c, s), e) = View(c, t)
  <2>1. \A v \in BOOLEAN : Learned(View(c, s), SpeakingEvent(i, v)) = View(c, [s EXCEPT ![i] = v])
    BY LearnsSpeaking
  <2> QED
    BY <1>2, <2>1, Subjects, Zenon
<1>6. \/ untold' = untold \ {i} /\ Told(hostView, evq', Len(evq'), View(c, t))
      \/ untold' = untold \cup {i} /\ Told(hostView, evq', Len(evq'), View(c, s))
  BY <1>1, <1>4, EmitTells
<1>7. TheConnection # i
  BY DEF TheConnection, Players
<1>8. speaking'[i] = on /\ \A j \in Players \ {i} : speaking'[j] = speaking[j]
  BY DEF ReceiveType
<1>9. CASE untold' = untold \ {i} /\ Told(hostView, evq', Len(evq'), View(c, t))
  <2>1. Right(c, t)'
    BY <1>1, <1>3, <1>7, <1>8, <1>9 DEF Right
  <2> QED
    BY <1>3, <1>9, <2>1 DEF Knowing
<1>10. CASE untold' = untold \cup {i} /\ Told(hostView, evq', Len(evq'), View(c, s))
  <2>1. Right(c, s)'
    BY <1>1, <1>7, <1>8, <1>10 DEF Right
  <2> QED
    BY <1>10, <2>1 DEF Knowing
<1> QED
  BY <1>6, <1>9, <1>10

\* A speaker's turn tells when he has fallen silent, before the frame it may bring
\* (voice.c:601-643).
LEMMA TurnKept ==
  ASSUME EventType, ReceiveType, StoredKnown, Knowing, NEW i \in Players,
         SpeakerSilent(i) \/ SpeakerDecodeFails(i) \/ SpeakerPlays(i)
  PROVE  Knowing'
<1>1. SpeakerTurn(i)
  BY DEF SpeakerSilent, SpeakerDecodeFails, SpeakerPlays
<1>2. UNCHANGED <<hostView, connected>>
  BY <1>1 DEF SpeakerTurn, linkVars, hostVars
<1>3. speaking' = [speaking EXCEPT ![i] = @ /\ ~TimedOut(i)]
  BY <1>1 DEF SpeakerTurn
<1>4. PICK off : off = OffEvents(i)
  OBVIOUS
<1>5. PICK e : e = SpeakingEvent(i, FALSE)
  OBVIOUS
<1>6. /\ off \in Seq(Events) /\ Len(off) \in {0, 1} /\ (Len(off) = 1 <=> TimedOut(i))
      /\ (TimedOut(i) => off[1] = e)
  BY <1>4, <1>5, OffEventsType
<1>7. PICK es \in Seq(Events) :
         /\ Emit(es) /\ Len(es) \in {Len(off), Len(off) + 1}
         /\ \A k \in 1 .. Len(off) : es[k] = off[k]
         /\ Len(es) = Len(off) + 1 => es[Len(off) + 1].type \in Neutral
  <2>1. CASE SpeakerSilent(i) \/ SpeakerDecodeFails(i)
    <3>1. Emit(off) /\ Len(off) # Len(off) + 1
      BY <1>4, <1>6, <2>1 DEF SpeakerSilent, SpeakerDecodeFails
    <3> QED
      BY <1>6, <3>1
  <2>2. CASE SpeakerPlays(i)
    <3>1. PICK es : es = OffEvents(i) \o <<PlayEvent(i)>>
      OBVIOUS
    <3>2. Emit(es)
      BY <2>2, <3>1 DEF SpeakerPlays, PlayEvent
    <3>3. PICK f : f = PlayEvent(i)
      OBVIOUS
    <3>4. /\ es \in Seq(Events) /\ Len(es) = Len(off) + 1
          /\ \A k \in 1 .. Len(off) : es[k] = off[k]
          /\ es[Len(es)] = f
      BY <1>4, <3>1, <3>3, PlayedTypes, Zenon
    <3>5. f.type \in Neutral
      BY <3>3 DEF Neutral, PlayEvent
    <3>6. es[Len(off) + 1].type \in Neutral
      BY <3>4, <3>5
    <3> QED
      BY <3>2, <3>4, <3>6
  <2> QED
    BY <2>1, <2>2
<1>8. CASE TimedOut(i)
  <2>1. speaking' = [speaking EXCEPT ![i] = FALSE]
    BY <1>3, <1>8
  <2>2. Len(es) # 0 /\ Len(es) <= 2 /\ es[1] = e /\ (Len(es) = 2 => es[2].type \in Neutral)
    <3>1. Len(off) = 1 /\ off[1] = e
      BY <1>6, <1>8, Zenon
    <3>2. /\ Len(es) \in {1, 1 + 1} /\ (\A k \in 1 .. 1 : es[k] = off[k])
          /\ (Len(es) = 1 + 1 => es[1 + 1].type \in Neutral)
      BY <1>7, <3>1, Zenon
    <3>3. 1 \in 1 .. 1 /\ 1 + 1 = 2
      OBVIOUS
    <3>4. es[1] = e /\ Len(es) \in {1, 2} /\ (Len(es) = 2 => es[2].type \in Neutral)
      BY <3>1, <3>2, <3>3, Zenon
    <3>5. \A n \in {1, 2} : n # 0 /\ n <= 2
      OBVIOUS
    <3> QED
      BY <3>4, <3>5, Zenon
  <2> QED
    BY <1>2, <1>5, <1>7, <2>1, <2>2, SpeakingKept
<1>9. CASE ~TimedOut(i)
  <2>1. speaking' = speaking
    BY <1>3, <1>9 DEF ReceiveType
  <2>2. Len(es) <= 1 /\ (Len(es) = 1 => es[1].type \in Neutral)
    BY <1>6, <1>7, <1>9
  <2> QED
    BY <1>2, <1>7, <2>1, <2>2, NeutralKept
<1> QED
  BY <1>8, <1>9

\* A packet that comes in tells that its speaker speaks, if he did not (voice.c:555-564).
LEMMA IngestKept ==
  ASSUME EventType, ReceiveType, Knowing, NEW p \in Packets, NEW fits, Ingest(p[1], p[2], fits)
  PROVE  Knowing'
<1>1. PICK i : i = p[1] /\ i \in Players
  BY EngineAssumption DEF Players
<1>2. /\ speaking' = [speaking EXCEPT ![i] = TRUE] /\ UNCHANGED <<connected, hostView>>
      /\ Emit(IF speaking[i] THEN <<>> ELSE <<SpeakingEvent(i, TRUE)>>)
  BY <1>1 DEF Ingest, linkVars, hostVars
<1>3. CASE speaking[i]
  <2>1. PICK es : es = << >>
    OBVIOUS
  <2>2. es \in Seq(Events) /\ Len(es) = 0 /\ Emit(es)
    BY <1>2, <1>3, <2>1, EmptySeq
  <2>3. speaking' = speaking
    BY <1>1, <1>2, <1>3 DEF ReceiveType
  <2>4. Len(es) <= 1 /\ Len(es) # 1
    BY <2>2
  <2> QED
    BY <1>2, <2>2, <2>3, <2>4, NeutralKept
<1>4. CASE ~speaking[i]
  <2>1. PICK e : e = SpeakingEvent(i, TRUE)
    OBVIOUS
  <2>2. e \in Events
    <3>1. \A v \in BOOLEAN : SpeakingEvent(i, v) \in Events
      BY <1>1, SpeakingIsEvent
    <3> QED
      BY <2>1, <3>1, Zenon
  <2>3. PICK es : es = <<e>>
    OBVIOUS
  <2>4. es \in Seq(Events) /\ Len(es) = 1 /\ es[1] = e /\ Emit(es)
    BY <1>2, <1>4, <2>1, <2>2, <2>3, OneIsSequence
  <2>5. Len(es) # 0 /\ Len(es) <= 2 /\ Len(es) # 2
    BY <2>4
  <2> QED
    BY <1>1, <1>2, <2>1, <2>4, <2>5, SpeakingKept
<1> QED
  BY <1>3, <1>4

\* Every step tells of what it changes, or makes its subject untold.
LEMMA KnowingStep ==
  ASSUME TypeInv, Knowing, [Next]_vars
  PROVE  Knowing'
<1>0. EventType /\ ReceiveType /\ StoredKnown
  BY DEF TypeInv
<1>1. PICK c \in BOOLEAN, s \in [Players -> BOOLEAN] :
         Told(hostView, evq, Len(evq), View(c, s)) /\ Right(c, s)
  BY DEF Knowing
<1>2. CASE TickBegin
  <2>1. PICK r : r = evq'
    OBVIOUS
  <2>2. /\ Len(r) = Len(evq) /\ Len(evq) \in Nat
        /\ \A k \in 1 .. Len(evq) :
              r[k] = IF evq[k].type = "pcm" THEN [evq[k] EXCEPT !.live = FALSE] ELSE evq[k]
    BY <1>0, <1>2, <2>1, SpoiledEvents
  <2>3. \A k \in 1 .. Len(evq) : evq[k].type = "pcm" => r[k].type = "pcm"
    <3>1. \A k \in 1 .. Len(evq) : evq[k] \in Events
      BY <1>0, ElementOfSeq DEF EventType
    <3> QED
      BY <2>2, <3>1 DEF Events, Messages, PcmEvents
  <2>4. ASSUME NEW k \in 1 .. Len(evq), NEW w
        PROVE  Learned(w, r[k]) = Learned(w, evq[k])
    <3>1. CASE evq[k].type = "pcm"
      <4>1. r[k].type = "pcm"
        BY <2>3, <3>1
      <4>2. Learned(w, r[k]) = w /\ Learned(w, evq[k]) = w
        BY <3>1, <4>1, LearnsNothing
      <4> QED
        BY <4>2
    <3>2. CASE evq[k].type # "pcm"
      BY <2>2, <3>2
    <3> QED
      BY <3>1, <3>2
  <2>5. UNCHANGED <<untold, hostView, connected, speaking>>
    BY <1>2 DEF TickBegin, hostVars, linkVars
  <2>6. Told(hostView, r, Len(evq), View(c, s))
    BY <1>1, <2>2, <2>4, ToldSame
  <2>7. Right(c, s)'
    BY <1>1, <2>5 DEF Right
  <2> QED
    BY <2>1, <2>2, <2>5, <2>6, <2>7 DEF Knowing
<1>3. CASE PollEvent
  <2>1. PICK r : r = evq'
    OBVIOUS
  <2>2. /\ Len(r) = Len(evq) - 1 /\ Len(evq) \in Nat \ {0} /\ Head(evq) = evq[1]
        /\ \A k \in 1 .. Len(r) : r[k] = evq[k + 1]
    BY <1>0, <1>3, <2>1, TakenEvent
  <2>3. hostView' = Learned(hostView, evq[1]) /\ UNCHANGED <<untold, connected, speaking>>
    BY <1>3, <2>2 DEF PollEvent, linkVars, receiveVars
  <2>4. Told(Learned(hostView, evq[1]), r, Len(evq) - 1, View(c, s))
    BY <1>1, <2>2, ToldRest
  <2>5. Right(c, s)'
    BY <1>1, <2>3 DEF Right
  <2> QED
    BY <2>1, <2>2, <2>3, <2>4, <2>5 DEF Knowing
<1>4. ASSUME NEW kind \in {"log", "error"}, NEW text \in Texts, Say(kind, text),
             UNCHANGED <<connected, speaking, hostView>>
      PROVE  Knowing'
  <2>1. PICK e : e = MessageEvent(kind, text)
    OBVIOUS
  <2>2. e \in Events /\ <<e>> \in Seq(Events) /\ Emit(<<e>>) /\ Len(<<e>>) = 1 /\ <<e>>[1] = e
    BY <1>0, <1>4, <2>1, SayEffect
  <2>3. e.type \in Neutral
    BY <2>1 DEF MessageEvent, Neutral
  <2>4. PICK es \in Seq(Events) : Emit(es) /\ Len(es) = 1 /\ es[1] = e
    BY <2>2
  <2>5. Len(es) <= 1
    BY <2>4
  <2> QED
    BY <1>0, <1>4, <2>3, <2>4, <2>5, NeutralKept
<1>5. CASE UNCHANGED <<queueVars, connected, speaking, hostView>>
  <2>1. UNCHANGED <<evq, untold, connected, speaking, hostView>>
    BY <1>5 DEF queueVars
  <2>2. Right(c, s)'
    BY <1>1, <2>1 DEF Right
  <2> QED
    BY <1>1, <2>1, <2>2 DEF Knowing
<1>6. CASE DrainEnd
  BY <1>5, <1>6 DEF DrainEnd, eventVars, linkVars, hostVars
<1>7. CASE UNCHANGED <<eventVars, connected, speaking, hostView, pcmVars, game, turn>>
  BY <1>5, <1>7 DEF eventVars
<1> QED
  BY <1>0, <1>2, <1>3, <1>4, <1>6, <1>7, ConnectionKept, TurnKept, IngestKept, EventCases

\* A host that takes every event knows who speaks and whether the engine is
\* connected, however many events wait and were lost, but for those whose latest
\* event was lost (rv_event_queue.h:18-22).
THEOREM HostIsTold == Spec => []HostKnows
<1>1. Init => Knowing
  <2> SUFFICES ASSUME Init PROVE Knowing
    OBVIOUS
  <2>1. hostView = View(connected, speaking) /\ connected \in BOOLEAN
        /\ speaking \in [Players -> BOOLEAN]
    BY DEF Init, View
  <2>2. PICK e : e = evq[1]
    OBVIOUS
  <2>3. Len(evq) = 1 /\ e.type = "log"
    BY <2>2, NoFrameAtFirst
  <2>4. Learned(hostView, e) = hostView
    BY <2>3, LearnsNothing
  <2>5. Told(hostView, evq, 1, Learned(hostView, e))
    BY <2>2, ToldOne
  <2>6. Right(connected, speaking)
    BY DEF Right
  <2> QED
    BY <2>1, <2>3, <2>4, <2>5, <2>6 DEF Knowing
<1>2. TypeInv /\ Knowing /\ [Next]_vars => Knowing'
  BY KnowingStep
<1>3. TypeInv /\ Knowing => HostKnows
  <2> SUFFICES ASSUME TypeInv, Knowing PROVE HostKnows
    OBVIOUS
  <2> DEFINE f == CHOOSE g : Telling(hostView, evq, Len(evq), g)
  <2>1. PICK c \in BOOLEAN, s \in [Players -> BOOLEAN] :
           Told(hostView, evq, Len(evq), View(c, s)) /\ Right(c, s)
    BY DEF Knowing
  <2>2. PICK a : Telling(hostView, evq, Len(evq), a) /\ a[Len(evq)] = View(c, s)
    BY <2>1 DEF Told
  <2>3. Telling(hostView, evq, Len(evq), f)
    BY <2>2
  <2>4. Len(evq) \in Nat
    BY LenProperties DEF TypeInv, EventType
  <2>5. HostKnows <=> /\ TheConnection \notin untold => f[Len(evq)].connected = connected
                      /\ \A i \in Players \ untold : f[Len(evq)].speaking[i] = speaking[i]
    BY DEF HostKnows, Telling
  <2> HIDE DEF f
  <2>6. f[Len(evq)] = View(c, s)
    BY <2>2, <2>3, <2>4, ToldOnce
  <2>7. f[Len(evq)].connected = c /\ f[Len(evq)].speaking = s
    BY <2>6 DEF View
  <2> QED
    BY <2>1, <2>5, <2>7 DEF Right
<1> QED
  BY <1>1, <1>2, <1>3, TypeInvariant, PTL DEF Spec, SafeSpec

===============================================================================
