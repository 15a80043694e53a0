------------------------------ MODULE VoiceEngine ------------------------------
(***************************************************************************)
(* One rv_voice_t (voice.c) driven by two threads of its host: the game    *)
(* thread, which makes every API call one after the other, and the audio   *)
(* thread, which only submits captured frames.  rv_voice_tick is a         *)
(* sequence of steps of the game thread (one per captured frame, then one  *)
(* per remote speaker) between which the audio thread may run.             *)
(*                                                                         *)
(* The capture ring is a bounded queue here, as CaptureRing shows it to be; *)
(* the Opus codec is external: it may fail, and what it makes of a packet  *)
(* is that packet.  Calls the code refuses without a change of state are   *)
(* no step.                                                                *)
(***************************************************************************)
EXTENDS Integers, Sequences

CONSTANTS
  Identities,     \* <<session_id, player_id>> pairs a host connects with
  LocalStates,    \* what a host passes to rv_voice_set_local_state
  CaptureModes,   \* the values of cfg.capture_mode to look at
  MaxPlayers,     \* cfg.max_players
  Packets,        \* what remote speakers send: <<speaker, place in its stream>>
  FlagsOf,        \* place -> the flags that packet carries
  RingCap,        \* RV_CAPTURE_RING_CAP
  OutCap,         \* RV_MAX_OUT_PKTS
  EventCap,       \* RV_EVENT_QUEUE_CAP
  JitterCap,      \* RV_OPUS_JITTER_CAP
  SeqMod,         \* number of sequence numbers
  ClockMod,       \* the clock's range, 2^32 ms
  ClockStart,     \* what the host's clock shows at first
  Timeout,        \* speaking_timeout_ms
  MaxTime,        \* bound: time that passes in one behaviour
  MaxFrames,      \* bound: frames submitted in one behaviour
  MaxUnseen       \* bound: pops of the ring the audio thread lags behind

ASSUME EngineAssumption ==
  /\ MaxPlayers \in Nat \ {0} /\ Packets \subseteq (1 .. MaxPlayers) \X Nat
  /\ CaptureModes \subseteq {"always_on", "ptt_only"}
  /\ LocalStates \subseteq [ptt : BOOLEAN, radio : BOOLEAN]
  /\ RingCap \in Nat \ {0} /\ OutCap \in Nat \ {0} /\ EventCap \in Nat \ {0}
  /\ JitterCap \in Nat \ {0} /\ SeqMod \in Nat \ {0}
  /\ ClockMod \in Nat \ {0} /\ ClockStart \in Nat /\ Timeout \in Nat
  /\ MaxTime \in Nat /\ MaxTime < ClockMod /\ MaxFrames \in Nat /\ MaxUnseen \in Nat

Players == 1 .. MaxPlayers   \* remote speakers

\* What stands for the place of a packet that was lost.
Concealed == -1

\* Samples are named by the speaker they were decoded for and the place of the
\* packet.  This stands for those of a buffer never decoded into.
NoSamples == <<0, Concealed>>

\* The identity of an engine that was never connected.
NoOne == <<0, 0>>

Jitter == INSTANCE JitterBuffer WITH Cap <- JitterCap

VARIABLES
  captureMode,              \* v->cfg.capture_mode
  connected, who,           \* v->connected; v->session_id and v->player_id
  local,                    \* v->local_state, zero before it is set
  ring,                     \* frames in v->cap_q
  outq, seq,                \* v->out_q, v->seq
  evq,                      \* v->evq
  msgBuf, msgFlip,          \* v->msg_buf, v->msg_flip & 1
  packets, nextPlay, started,           \* v->jb, per speaker
  speaking, lastRxMs, lastRxFlags,      \* per speaker
  pcmBuf, pcmCount,                     \* per speaker
  decoded,                  \* history: what the latest tick has decoded so far
  game, turn,               \* where the game thread is in rv_voice_tick
  audio,                    \* where the audio thread is in the submit call
  clock,                    \* true time, of which now_ms is the remainder
  unseen,                   \* pops of the ring the audio thread has not seen
  sinceLink,                \* pops since v->connected changed, up to a maximum
  submitted,                \* history: frames that passed the submit checks
  announced,                \* history: the identity of the last JOIN sent
  joinRefused,              \* history: a connect found the queue full
  evDropped,                \* history: an event found the queue full
  untold,                   \* history: whose latest event found the queue full
  hostView,                 \* history: what the events polled have told
  late,                     \* history: voice packets queued when disconnected
  rxAt                      \* history: true time of each speaker's last packet

linkVars == <<connected, sinceLink, who, announced, joinRefused, late>>
captureVars == <<captureMode, local, ring, unseen, submitted>>
sendVars == <<outq, seq>>
queueVars == <<evq, evDropped, untold>>
msgVars == <<msgBuf, msgFlip>>
eventVars == <<queueVars, msgVars>>
jitterVars == <<packets, nextPlay, started>>
rxVars == <<lastRxMs, lastRxFlags, rxAt>>
pcmVars == <<pcmBuf, pcmCount, decoded>>
receiveVars == <<jitterVars, speaking, rxVars, pcmVars>>
threadVars == <<game, turn, audio>>
hostVars == <<clock, hostView>>
vars == <<linkVars, captureVars, sendVars, eventVars, receiveVars, threadVars,
          hostVars>>

Init ==
  /\ connected = FALSE /\ sinceLink = MaxUnseen + 1 /\ who = NoOne
  /\ announced = NoOne /\ joinRefused = FALSE /\ late = 0
  /\ captureMode \in CaptureModes
  /\ local = [ptt |-> FALSE, radio |-> FALSE]
  /\ ring = 0 /\ unseen = 0 /\ submitted = 0
  /\ outq = <<>> /\ seq = 0
  /\ evq = <<[type |-> "log", text |-> "initialized", buf |-> 0]>>
  /\ evDropped = FALSE /\ untold = {}
  /\ msgBuf = [b \in {0, 1} |-> IF b = 0 THEN "initialized" ELSE ""]
  /\ msgFlip = 1
  /\ packets = [i \in Players |-> Jitter!Empty(0)]
  /\ nextPlay = [i \in Players |-> 0] /\ started = [i \in Players |-> FALSE]
  /\ speaking = [i \in Players |-> FALSE]
  /\ lastRxMs = [i \in Players |-> 0] /\ lastRxFlags = [i \in Players |-> 0]
  /\ rxAt = [i \in Players |-> 0]
  /\ pcmBuf = [i \in Players |-> NoSamples] /\ pcmCount = [i \in Players |-> 0]
  /\ decoded = {}
  /\ game = "idle" /\ turn = 0 /\ audio = "idle"
  /\ clock = 0
  /\ hostView = [connected |-> FALSE, speaking |-> [i \in Players |-> FALSE]]

--------------------------------------------------------------------------------
(* Events.                                                                  *)

SpeakingEvent(i, on) == [type |-> "speaking", speaker |-> i, on |-> on]
ConnectionEvent(on) == [type |-> "connection", on |-> on]

\* What an event tells of: the connection, a speaker, or nothing that lasts.
TheConnection == 0
Subject(ev) == CASE ev.type = "connection" -> {TheConnection}
                 [] ev.type = "speaking" -> {ev.speaker}
                 [] OTHER -> {}
About(events, K) == UNION {Subject(events[k]) : k \in K}

\* rv_eventq_push, for each of the events in turn: those that find the queue
\* full are lost, and no caller looks at the result.
\* Mutant: the queue takes one event more than it has room for.
Mut_Emit(events) ==
  LET all == evq \o events IN
  /\ evq' = SubSeq(all, 1, IF Len(all) > EventCap + 1 THEN EventCap + 1 ELSE Len(all))
  /\ evDropped' = (evDropped \/ Len(all) > EventCap + 1)
  /\ untold' = untold \ About(events, DOMAIN events)
Emit(events) ==
  LET all == evq \o events
      lost == {k \in DOMAIN events : Len(evq) + k > EventCap}
  IN  /\ evq' = SubSeq(all, 1, IF Len(all) > EventCap THEN EventCap ELSE Len(all))
      /\ evDropped' = (evDropped \/ Len(all) > EventCap)
      /\ untold' = (untold \ About(events, DOMAIN events)) \cup About(events, lost)

\* rv_emit_log and rv_emit_error: the event points into one of two buffers
\* used in turn.  `text` is what it pointed at when it was emitted.
\* Mutant: only one buffer is ever used.
Mut_Say(kind, text) ==
  /\ msgBuf' = [msgBuf EXCEPT ![msgFlip] = text]
  /\ UNCHANGED msgFlip
  /\ Emit(<<[type |-> kind, text |-> text, buf |-> msgFlip]>>)
Say(kind, text) ==
  /\ msgBuf' = [msgBuf EXCEPT ![msgFlip] = text]
  /\ msgFlip' = 1 - msgFlip
  /\ Emit(<<[type |-> kind, text |-> text, buf |-> msgFlip]>>)

--------------------------------------------------------------------------------
(* Connection and local state.                                              *)

\* The game thread is between two API calls.
GameFree == game = "idle"

SetConnected(on) ==
  /\ connected' = on
  /\ sinceLink' = IF on = connected THEN sinceLink ELSE 0

\* rv_voice_connect, with room for the JOIN packet.
\* Mutant: the JOIN packet is built but never queued.
Mut_Connect(id) ==
  /\ GameFree /\ Len(outq) < OutCap
  /\ who' = id /\ SetConnected(TRUE) /\ late' = 0
  /\ Emit(<<ConnectionEvent(TRUE)>>)
  /\ UNCHANGED <<announced, joinRefused, captureVars, sendVars, msgVars,
                 receiveVars, threadVars, hostVars>>
Connect(id) ==
  /\ GameFree /\ Len(outq) < OutCap
  /\ who' = id /\ SetConnected(TRUE) /\ late' = 0
  /\ outq' = Append(outq, [type |-> "join", id |-> id])
  /\ Emit(<<ConnectionEvent(TRUE)>>)
  /\ UNCHANGED <<announced, joinRefused, captureVars, seq, msgVars, receiveVars,
                 threadVars, hostVars>>

\* rv_voice_connect, with the queue full: the identity has been replaced, the
\* connected flag is left as it was.
ConnectRefused(id) ==
  /\ GameFree /\ Len(outq) = OutCap
  /\ who' = id
  /\ joinRefused' = TRUE
  /\ Say("error", "join refused")
  /\ UNCHANGED <<connected, sinceLink, announced, late, captureVars, sendVars,
                 receiveVars, threadVars, hostVars>>

\* rv_voice_disconnect flushes nothing.
\* Mutant: the DISCONNECTED event is not queued.
Mut_Disconnect ==
  /\ GameFree
  /\ SetConnected(FALSE)
  /\ UNCHANGED <<who, announced, joinRefused, late, captureVars, sendVars,
                 eventVars, receiveVars, threadVars, hostVars>>
Disconnect ==
  /\ GameFree
  /\ SetConnected(FALSE)
  /\ Emit(<<ConnectionEvent(FALSE)>>)
  /\ UNCHANGED <<who, announced, joinRefused, late, captureVars, sendVars,
                 msgVars, receiveVars, threadVars, hostVars>>

SetLocalState(st) ==
  /\ GameFree
  /\ local' = st
  /\ UNCHANGED <<linkVars, captureMode, ring, unseen, submitted, sendVars, eventVars, receiveVars,
                 threadVars, hostVars>>

--------------------------------------------------------------------------------
(* rv_voice_submit_capture_pcm_async, and rv_voice_submit_capture_pcm, which *)
(* is the same call.  The audio thread reads the connected flag first and    *)
(* pushes to the ring later; what the push returns is ignored.  (A host that *)
(* submits from the game thread has some of these behaviours.)               *)

\* v->connected is read without any synchronisation: the audio thread may find
\* the value it had before, unless it has seen a pop made after it changed (the
\* ring's index is stored with release and loaded with acquire).
MayReadConnected == connected \/ unseen >= sinceLink

\* Mutant: the connected flag is not looked at.
Mut_SubmitCheck ==
  /\ audio = "idle" /\ submitted < MaxFrames
  /\ audio' = "push" /\ submitted' = submitted + 1
  /\ UNCHANGED <<linkVars, captureMode, local, ring, unseen, sendVars, eventVars,
                 receiveVars, game, turn, hostVars>>
SubmitCheck ==
  /\ audio = "idle" /\ submitted < MaxFrames
  /\ MayReadConnected
  /\ audio' = "push" /\ submitted' = submitted + 1
  /\ UNCHANGED <<linkVars, captureMode, local, ring, unseen, sendVars, eventVars,
                 receiveVars, game, turn, hostVars>>

\* The push sees some of the pops it had not seen, and drops the frame if to its
\* knowledge the ring is full.
SubmitPush ==
  /\ audio = "push"
  /\ unseen' \in 0 .. unseen
  /\ ring' = IF ring + unseen' < RingCap THEN ring + 1 ELSE ring
  /\ audio' = "idle"
  /\ UNCHANGED <<linkVars, captureMode, local, submitted, sendVars, eventVars,
                 receiveVars, game, turn, hostVars>>

--------------------------------------------------------------------------------
(* rv_voice_tick, first half: drain the capture ring.                        *)

\* rv_capture_should_transmit.
ShouldTransmit ==
  IF captureMode = "ptt_only" THEN local.ptt ELSE local.radio => local.ptt

\* The PCM events of the tick before point into memory this tick reuses.
TickBegin ==
  /\ GameFree
  /\ game' = "drain"
  /\ evq' = [k \in DOMAIN evq |-> IF evq[k].type = "pcm"
                                  THEN [evq[k] EXCEPT !.live = FALSE] ELSE evq[k]]
  /\ decoded' = {}
  /\ UNCHANGED <<linkVars, captureVars, sendVars, evDropped, untold, msgVars,
                 jitterVars, speaking, rxVars, pcmBuf, pcmCount, turn, audio, hostVars>>

Least(a, b) == IF a <= b THEN a ELSE b

\* rv_ring_pop.
Draining == /\ game = "drain" /\ ring > 0
            /\ ring' = ring - 1
            /\ unseen' = Least(unseen + 1, MaxUnseen)
            /\ sinceLink' = Least(sinceLink + 1, MaxUnseen + 1)

\* What every step of the drain leaves alone.
drainLeaves == <<connected, who, announced, joinRefused, captureMode, local, submitted,
                receiveVars, threadVars, hostVars>>

DrainMuted ==
  /\ Draining /\ ~ShouldTransmit
  /\ UNCHANGED <<drainLeaves, late, sendVars, eventVars>>

DrainEncodeFails ==
  /\ Draining /\ ShouldTransmit
  /\ Say("error", "encode failed")
  /\ UNCHANGED <<drainLeaves, late, sendVars>>

\* The sequence number is consumed before the queue is tried.
TakeSeq == seq' = (seq + 1) % SeqMod

QueueVoice ==
  /\ Draining /\ ShouldTransmit /\ Len(outq) < OutCap
  /\ outq' = Append(outq, [type |-> "voice", player |-> who[2], seq |-> seq,
                           flags |-> local])
  /\ late' = IF connected THEN late ELSE late + 1
  /\ UNCHANGED <<drainLeaves, eventVars>>

\* Mutant: the packet carries a sequence number that is not consumed.
Mut_DrainQueues == QueueVoice /\ UNCHANGED seq
DrainQueues == QueueVoice /\ TakeSeq

DrainDrops ==
  /\ Draining /\ ShouldTransmit /\ Len(outq) = OutCap
  /\ TakeSeq
  /\ Say("log", "dropping voice")
  /\ UNCHANGED <<drainLeaves, late, outq>>

\* Mutant: the counts of the tick before stay.
Mut_NoFrames == pcmCount
NoFrames == [i \in Players |-> 0]

DrainEnd ==
  /\ game = "drain" /\ ring = 0
  /\ game' = "speakers" /\ turn' = 1
  /\ pcmCount' = NoFrames
  /\ UNCHANGED <<linkVars, captureVars, sendVars, eventVars, jitterVars, speaking,
                 rxVars, pcmBuf, decoded, audio, hostVars>>

--------------------------------------------------------------------------------
(* rv_voice_tick, second half: one step per remote speaker.  now_ms is the   *)
(* argument of the tick: the clock does not move within it.                  *)

Now == (ClockStart + clock) % ClockMod

\* Mutants: the elapsed time is taken without the wrap of the 32-bit clock; the
\* timeout never comes.
Mut_ElapsedSigned(since) == Now - since
Mut_ElapsedNever(since) == 0
Elapsed(since) == (Now - since) % ClockMod

EndTurn(i) == /\ game' = IF i + 1 \in Players THEN "speakers" ELSE "idle"
              /\ turn' = IF i + 1 \in Players THEN i + 1 ELSE 0

TimedOut(i) == speaking[i] /\ Elapsed(lastRxMs[i]) > Timeout

\* The speaking timeout, and the event it leaves.
\* Mutant: the flag is cleared and the host not told.
Mut_OffEvents(i) == <<>>
OffEvents(i) == IF TimedOut(i) THEN <<SpeakingEvent(i, FALSE)>> ELSE <<>>

Playable(i) == started[i] /\ Jitter!Holds(packets[i], nextPlay[i])
Concealable(i) == /\ started[i] /\ ~Playable(i)
                  /\ Jitter!HasFuturePacket(packets[i], nextPlay[i])

\* What the jitter buffer gives for speaker i.
Popped(i) == IF Playable(i)
             THEN packets[i][Jitter!SlotForSeq(nextPlay[i])].payload
             ELSE Concealed

PopJitter(i) ==
  /\ packets' = IF Playable(i)
                THEN [packets EXCEPT ![i] = Jitter!Taken(@, nextPlay[i])] ELSE packets
  /\ nextPlay' = [nextPlay EXCEPT ![i] = Jitter!NextSeq(@)]
  /\ UNCHANGED started

SpeakerTurn(i) ==
  /\ game = "speakers" /\ turn = i
  /\ speaking' = [speaking EXCEPT ![i] = @ /\ ~TimedOut(i)]
  /\ EndTurn(i)
  /\ UNCHANGED <<linkVars, captureVars, sendVars, msgVars, rxVars, audio, hostVars>>

SpeakerSilent(i) ==
  /\ SpeakerTurn(i)
  /\ ~Playable(i) /\ ~Concealable(i)
  /\ Emit(OffEvents(i))
  /\ UNCHANGED <<jitterVars, pcmVars>>

\* The packet is gone, no frame comes of it and no event says so.
SpeakerDecodeFails(i) ==
  /\ SpeakerTurn(i)
  /\ Playable(i) \/ Concealable(i)
  /\ PopJitter(i)
  /\ Emit(OffEvents(i))
  /\ UNCHANGED pcmVars

\* Where the frame of speaker i is decoded to.
\* Mutant: all speakers share one buffer.
Mut_BufferOf(i) == 1
BufferOf(i) == i

\* `payload` and `live` are history: what was decoded, and whether the tick it
\* was decoded in is still the latest.
SpeakerPlays(i) ==
  /\ SpeakerTurn(i)
  /\ Playable(i) \/ Concealable(i)
  /\ PopJitter(i)
  /\ pcmBuf' = [pcmBuf EXCEPT ![BufferOf(i)] = <<i, Popped(i)>>]
  /\ pcmCount' = [pcmCount EXCEPT ![i] = 1]
  /\ decoded' = decoded \cup {<<i, Popped(i)>>}
  /\ Emit(OffEvents(i) \o
          <<[type |-> "pcm", speaker |-> i, flags |-> lastRxFlags[i],
             samples |-> BufferOf(i), payload |-> <<i, Popped(i)>>, live |-> TRUE]>>)

--------------------------------------------------------------------------------
(* rv_voice_ingest_packet: packet n of speaker i, in any order and any        *)
(* number of times.  A packet of another type, of no known speaker or         *)
(* malformed changes nothing; one the jitter buffer finds too long (`fits` is *)
(* FALSE) still counts as a sign of life.                                     *)

\* The last guard is the bound that leaves time for the speaker to time out.
Ingest(i, n, fits) ==
  /\ GameFree
  /\ clock + Timeout < MaxTime
  /\ lastRxFlags' = [lastRxFlags EXCEPT ![i] = FlagsOf[n]]
  /\ IF fits
     THEN /\ packets' = [packets EXCEPT ![i] = Jitter!Stored(@, n % SeqMod, n)]
          /\ started' = [started EXCEPT ![i] = TRUE]
          /\ nextPlay' = [nextPlay EXCEPT ![i] = IF started[i] THEN @ ELSE n % SeqMod]
     ELSE UNCHANGED jitterVars
  /\ lastRxMs' = [lastRxMs EXCEPT ![i] = Now]
  /\ rxAt' = [rxAt EXCEPT ![i] = clock]
  /\ speaking' = [speaking EXCEPT ![i] = TRUE]
  /\ Emit(IF speaking[i] THEN <<>> ELSE <<SpeakingEvent(i, TRUE)>>)
  /\ UNCHANGED <<linkVars, captureVars, sendVars, msgVars, pcmVars, threadVars,
                 hostVars>>

--------------------------------------------------------------------------------
(* The host.                                                                 *)

\* rv_voice_poll_outgoing, with a buffer that is large enough.
PollOutgoing ==
  /\ GameFree /\ outq # <<>>
  /\ outq' = Tail(outq)
  /\ announced' = IF Head(outq).type = "join" THEN Head(outq).id ELSE announced
  /\ UNCHANGED <<connected, sinceLink, who, joinRefused, late, captureVars, seq, eventVars, receiveVars, threadVars,
                 hostVars>>

\* What a host that believes `view` believes after an event.
Learned(view, ev) ==
  CASE ev.type = "connection" -> [view EXCEPT !.connected = ev.on]
    [] ev.type = "speaking" -> [view EXCEPT !.speaking[ev.speaker] = ev.on]
    [] OTHER -> view

\* rv_voice_poll_event; the flat variant takes the event in the same way, also
\* when it then returns -2 because the host's buffer is too small for the frame.
PollEvent ==
  /\ GameFree /\ evq # <<>>
  /\ evq' = Tail(evq)
  /\ hostView' = Learned(hostView, Head(evq))
  /\ UNCHANGED <<linkVars, captureVars, sendVars, evDropped, untold, msgVars,
                 receiveVars, threadVars, clock>>

\* rv_voice_mix_output: the speakers whose buffers it adds up.
Mixed == {i \in Players : pcmCount[i] > 0}

TimePasses ==
  /\ GameFree /\ clock < MaxTime
  /\ clock' = clock + 1
  /\ UNCHANGED <<linkVars, captureVars, sendVars, eventVars, receiveVars,
                 threadVars, hostView>>

--------------------------------------------------------------------------------
Tick == \/ TickBegin \/ DrainMuted \/ DrainEncodeFails \/ DrainQueues
        \/ DrainDrops \/ DrainEnd
        \/ \E i \in Players : SpeakerSilent(i) \/ SpeakerDecodeFails(i) \/ SpeakerPlays(i)

Submit == SubmitCheck \/ SubmitPush

Host == \/ \E id \in Identities : Connect(id) \/ ConnectRefused(id)
        \/ Disconnect
        \/ \E st \in LocalStates : SetLocalState(st)
        \/ \E p \in Packets, fits \in BOOLEAN : Ingest(p[1], p[2], fits)
        \/ PollOutgoing \/ PollEvent

Next == Tick \/ Submit \/ Host \/ TimePasses

SafeSpec == Init /\ [][Next]_vars

\* The host ticks again and again and time goes on; a submit call returns.
Spec == SafeSpec /\ WF_vars(Tick) /\ WF_vars(SubmitPush) /\ SF_vars(TimePasses)

--------------------------------------------------------------------------------
(* Properties.                                                              *)

OutPackets == [type : {"join"}, id : Identities]
              \cup [type : {"voice"}, player : {id[2] : id \in Identities},
                    seq : 0 .. SeqMod - 1, flags : [ptt : BOOLEAN, radio : BOOLEAN]]

TypeOK ==
  /\ connected \in BOOLEAN /\ sinceLink \in 0 .. MaxUnseen + 1
  /\ who \in Identities \cup {NoOne} /\ announced \in Identities \cup {NoOne}
  /\ captureMode \in CaptureModes
  /\ local \in [ptt : BOOLEAN, radio : BOOLEAN] /\ ring \in 0 .. RingCap
  /\ unseen \in 0 .. MaxUnseen /\ ring + unseen <= RingCap
  /\ Len(outq) <= OutCap /\ \A k \in DOMAIN outq : outq[k] \in OutPackets
  /\ Len(evq) <= EventCap /\ seq \in 0 .. SeqMod - 1 /\ msgFlip \in {0, 1}
  /\ \A i \in Players : /\ lastRxMs[i] \in 0 .. ClockMod - 1
                        /\ pcmBuf[i] \in Packets \cup {NoSamples} \cup (Players \X {Concealed})
  /\ game \in {"idle", "drain", "speakers"} /\ audio \in {"idle", "push"}
  /\ turn \in Players \cup {0}

Voices == {k \in DOMAIN outq : outq[k].type = "voice"}

\* The identity of the JOIN that leaves last before packet k does.
JoinBefore(k) ==
  LET joins == {m \in 1 .. k - 1 : outq[m].type = "join"}
  IN  IF joins = {} THEN announced
      ELSE outq[CHOOSE m \in joins : \A j \in joins : j <= m].id

\* A voice packet names the player of the JOIN that left last before it, however
\* connects, disconnects, captured frames and polls interleave, unless a connect
\* was refused and left its identity behind (voice.c:447-461, 297).
VoiceIsAnnounced ==
  joinRefused \/ \A k \in Voices : outq[k].player = JoinBefore(k)[2]

\* To whoever polls its packets the engine is a VoiceSession: each connection is
\* announced before its voice, packets are numbered in order and none twice, also
\* after some were dropped at a full queue or the host has reconnected (voice.c:295,
\* 308-311), and nothing a tick, an event or the audio thread does shows otherwise.
Session == INSTANCE VoiceSession
             WITH Flags <- [ptt : BOOLEAN, radio : BOOLEAN],
                  s <- [connected |-> connected, who |-> who, outq |-> outq, seq |-> seq]
SessionSpec == Session!Spec

\* What is still sent after a disconnect is little: the frames the ring had room
\* for and one the audio thread was about to push, however late that thread sees
\* the flag, which no lock protects: the ring's indices carry it
\* (voice.c:476, 504-509, 63, 83).
FewAfterDisconnect == late <= RingCap + 1

\* A host that polls every event knows who speaks and whether the engine is
\* connected, but for those whose latest event was lost at a full queue: no other
\* loss makes him wrong, and the next event that is not lost sets him right
\* (rv_event_queue.h:18-22, voice.c:465-469, 555-563, 602-610).
HostKnows ==
  LET after[k \in 0 .. Len(evq)] == IF k = 0 THEN hostView ELSE Learned(after[k - 1], evq[k])
      belief == after[Len(evq)]
  IN  /\ TheConnection \notin untold => belief.connected = connected
      /\ \A i \in Players \ untold : belief.speaking[i] = speaking[i]

\* The samples an event of the latest tick points at are the ones decoded for
\* it: no speaker's frame of the tick has overwritten another's (voice.c:617-640).
PcmIntact ==
  \A k \in DOMAIN evq :
    evq[k].type = "pcm" /\ evq[k].live => pcmBuf[evq[k].samples] = evq[k].payload

\* The mixed output is made of exactly what the latest tick decoded, each frame in
\* it once: nobody's frame of an earlier tick is heard again when his packets stop
\* or fail to decode, nobody's is missing (voice.c:597, 623-625, 669-686).
MixIsCurrent ==
  GameFree => {pcmBuf[i] : i \in Mixed} = decoded

\* Messages k and later in the queue.
MessagesFrom(k) == {m \in k .. Len(evq) : evq[m].type \in {"log", "error"}}

\* The last two messages in the queue read as they were written, as long as no
\* event was lost (voice.c:170-174); older ones may not, see MessagesIntact.
LastTwoMessagesIntact ==
  \A k \in MessagesFrom(1) :
    (~evDropped /\ \A a, b \in MessagesFrom(k + 1) : a = b)
      => msgBuf[evq[k].buf] = evq[k].text

\* A speaker's turn in a tick ends his speaking if and only if more than the
\* timeout has truly passed since his last packet, across the wrap of the
\* millisecond clock (voice.c:602).
SpeakingFollowsTime ==
  [][\A i \in Players :
       game = "speakers" /\ turn = i /\ turn' # i =>
         speaking'[i] = (speaking[i] /\ clock - rxAt[i] <= Timeout)]_vars

\* A speaker whose packets stop coming is eventually reported silent.
SpeakingEnds == \A i \in Players : speaking[i] ~> ~speaking[i]

--------------------------------------------------------------------------------
(* What the documentation says and the code does not do.                     *)

\* voice.c:142 says of the two message buffers that they are "safe across poll
\* boundaries": a queued message still reads as it was written.
MessagesIntact == \A k \in MessagesFrom(1) : msgBuf[evq[k].buf] = evq[k].text

\* DOCUMENTATION.MD:297-305, "Each decoded frame includes: [...] Flags (radio /
\* proximity)": the flags of a PCM event are those its packet carried.
FlagsAreOfTheFrame ==
  \A k \in DOMAIN evq :
    evq[k].type = "pcm" /\ evq[k].payload[2] # Concealed
      => evq[k].flags = FlagsOf[evq[k].payload[2]]
================================================================================
