------------------------------ MODULE UnityLoopback ------------------------------
(***************************************************************************)
(* A Unity client that hears itself (ResidualVoiceRig with its loopback      *)
(* transport): microphone, engine, transport and playback.  Three threads    *)
(* run: the hardware that captures, Unity's game thread with every Update,    *)
(* LateUpdate and call of the rig, and the audio thread that reads what is   *)
(* to be played.                                                           *)
(*                                                                         *)
(* The engine is the VoiceSession its transport sees, with a capture ring in *)
(* front and a jitter buffer behind; it is always on, and its codec does not  *)
(* fail (VoiceEngine says what else it does).                               *)
(***************************************************************************)
EXTENDS MicInput

CONSTANTS OutCap,            \* RV_MAX_OUT_PKTS
          SeqMod,            \* number of sequence numbers
          JitterCap,         \* RV_OPUS_JITTER_CAP
          MaxQueuedPackets,  \* of the loopback transport
          Capacity,          \* bufferCapacitySamples
          ReadSize,          \* samples the audio thread reads at a time
          Budget             \* bound: calls of the rig, and failures to read the
                             \* clip, in one behaviour

ASSUME PlaybackAssumption == /\ Capacity \in Nat \ {0} /\ ReadSize \in Nat \ {0}
                             /\ OutCap \in Nat \ {0} /\ MaxQueuedPackets \in Nat \ {0}
                             /\ JitterCap \in Nat \ {0} /\ SeqMod \in Nat \ {0}
                             /\ Budget \in Nat

VARIABLES
  running,     \* IsRunning of the transport
  immediate,   \* its DeliverImmediately, set once
  pending,     \* its _pendingPackets
  jitter,      \* the engine's buffer of its own voice: packets, nextPlay, started
  pcm,         \* the frame a PcmFrameReady handler has in hand
  buffer,      \* the playback buffer of the speaker, or NoBuffer
  left,        \* what is left of the budget
  heard        \* history: the samples the audio thread has read, in order

linkVars == <<running, immediate, pending>>
playVars == <<buffer, heard>>
vars == <<client, ring, game, micVars, micHistory, linkVars, jitter, pcm, playVars, left>>

Id == <<1, 1>>   \* sessionId and localPlayerId
NoBuffer == [count |-> 0]

Session == INSTANCE VoiceSession WITH s <- client, Identities <- {Id}, Flags <- {}
Jitter == INSTANCE JitterBuffer WITH Cap <- JitterCap
Playback == INSTANCE PlaybackBuffer

\* What the decoder makes of a packet that is missing.
Concealment == [k \in 1 .. FrameSamples |-> Silence]

\* The rig has started: it may have connected, and started the microphone.
Init ==
  /\ MicInit
  /\ client \in {Session!Fresh, Session!Connected(Session!Fresh, Id)}
  /\ running = client.connected /\ immediate \in BOOLEAN /\ pending = <<>>
  /\ jitter = [packets |-> Jitter!Empty(<<>>), nextPlay |-> 0, started |-> FALSE]
  /\ pcm = <<>> /\ buffer = NoBuffer /\ heard = <<>>
  /\ left = Budget

--------------------------------------------------------------------------------
(* The rig.                                                                  *)

Spend == left > 0 /\ left' = left - 1
RigCall == game = "free" /\ Spend

\* The engine may refuse, by an exception; the transport is started after it.
Connect ==
  /\ RigCall
  /\ client' = Session!Connected(client, Id)
  /\ running' = (running \/ Session!HasRoom(client))
  /\ UNCHANGED <<ring, game, micVars, micHistory, immediate, pending, jitter, pcm, playVars>>

\* The transport is stopped first, and forgets what it had.  The engine keeps its
\* ring and its queue.
Disconnect ==
  /\ RigCall
  /\ running' = FALSE /\ pending' = <<>>
  /\ client' = Session!Disconnected(client)
  /\ UNCHANGED <<ring, game, micVars, micHistory, immediate, jitter, pcm, playVars>>

\* ResidualVoicePlaybackSource.Clear.
Clear ==
  /\ RigCall
  /\ buffer' = NoBuffer
  /\ UNCHANGED <<client, ring, game, micVars, micHistory, linkVars, jitter, pcm, heard>>

\* ResidualVoiceMicInput's calls, which the rig makes and a game may.
MicCall == /\ RigCall
           /\ (StartCapture \/ StopCapture)
           /\ UNCHANGED <<linkVars, jitter, pcm, playVars>>

MicRuns == /\ Capture \/ PumpStart
           /\ UNCHANGED <<linkVars, jitter, pcm, playVars, left>>

Pump == /\ \/ (PumpChunk \/ PumpEnd) /\ UNCHANGED left
           \/ PumpChunkFails /\ Spend
        /\ UNCHANGED <<linkVars, jitter, pcm, playVars>>

--------------------------------------------------------------------------------
(* LateUpdate: ResidualVoiceTransportBinding.Tick.                            *)

\* rv_voice_ingest_packet takes voice and passes over a JOIN.
Ingested(j, packet) ==
  IF packet.type = "join" THEN j
  ELSE [packets |-> Jitter!Stored(j.packets, packet.seq, packet.flags),
        nextPlay |-> IF j.started THEN j.nextPlay ELSE packet.seq,
        started |-> TRUE]

\* All packets of a queue, in order.
IngestedAll(j, packets) ==
  LET after[k \in 0 .. Len(packets)] ==
        IF k = 0 THEN j ELSE Ingested(after[k - 1], packets[k])
  IN  after[Len(packets)]

\* rv_opus_jitter_pop, and the frame that is made of what it gives.
Playable(j) == j.started /\ Jitter!Holds(j.packets, j.nextPlay)
Concealable(j) == j.started /\ ~Playable(j) /\ Jitter!HasFuturePacket(j.packets, j.nextPlay)

Popped(j) ==
  IF ~Playable(j) /\ ~Concealable(j) THEN j
  ELSE [j EXCEPT !.packets = IF Playable(j) THEN Jitter!Taken(@, j.nextPlay) ELSE @,
                 !.nextPlay = Jitter!NextSeq(@)]
Frame(j) ==
  CASE Playable(j) -> j.packets[Jitter!SlotForSeq(j.nextPlay)].payload
    [] Concealable(j) -> Concealment
    [] OTHER -> <<>>

\* ResidualVoiceLoopbackTransport.Send, when it queues: the oldest make room.
Sent(queue, packet) ==
  Append(IF Len(queue) < MaxQueuedPackets THEN queue ELSE Tail(queue), packet)
SentAll(packets) ==
  LET after[k \in 0 .. Len(packets)] ==
        IF k = 0 THEN <<>> ELSE Sent(after[k - 1], packets[k])
  IN  after[Len(packets)]

\* rv_voice_tick's drain loop: every frame in the ring is encoded.
Drained(x, frames) ==
  LET after[k \in 0 .. Len(frames)] ==
        IF k = 0 THEN x ELSE Session!Spoken(after[k - 1], frames[k])
  IN  after[Len(frames)]

\* The transport hands over what waits, the engine ticks, its packets are sent,
\* and a frame it has decoded is in the handlers' hands.
LateUpdate ==
  /\ game = "free"
  /\ LET in     == IngestedAll(jitter, pending)   \* none waits when stopped
         ticked == Popped(in)
         queued == Drained(client, ring)
         out    == IF running THEN queued.outq ELSE <<>>
     IN  /\ client' = [queued EXCEPT !.outq = <<>>]
         /\ ring' = <<>>
         /\ pending' = IF immediate THEN <<>> ELSE SentAll(out)
         /\ jitter' = IF immediate THEN IngestedAll(ticked, out) ELSE ticked
         /\ pcm' = Frame(in)
         /\ game' = IF Frame(in) = <<>> THEN "free" ELSE "queue"
  /\ <<client, ring, pending, jitter, pcm>>' # <<client, ring, pending, jitter, pcm>>
  /\ UNCHANGED <<micVars, micHistory, running, immediate, playVars, left>>

--------------------------------------------------------------------------------
(* ResidualVoicePlaybackSource.  QueueFrame finds or makes the buffer under   *)
(* one lock and fills it under another; the audio thread may read between.   *)

FindBuffer ==
  /\ game = "queue"
  /\ game' = "enqueue"
  /\ buffer' = IF buffer = NoBuffer THEN Playback!New(Silence) ELSE buffer
  /\ UNCHANGED <<client, ring, micVars, micHistory, linkVars, jitter, pcm, heard, left>>

Enqueue ==
  /\ game = "enqueue"
  /\ game' = "free" /\ pcm' = <<>>
  /\ buffer' = Playback!Enqueued(buffer, pcm)
  /\ UNCHANGED <<client, ring, micVars, micHistory, linkVars, jitter, heard, left>>

\* OnAudioRead: with an empty buffer it plays silence.
OnAudioRead ==
  /\ buffer.count > 0
  /\ heard' = heard \o Playback!Found(buffer, ReadSize)
  /\ buffer' = Playback!Left(buffer, ReadSize)
  /\ UNCHANGED <<client, ring, game, micVars, micHistory, linkVars, jitter, pcm, left>>

--------------------------------------------------------------------------------
Next == Connect \/ Disconnect \/ Clear \/ MicCall \/ MicRuns \/ Pump
        \/ LateUpdate \/ FindBuffer \/ Enqueue \/ OnAudioRead

\* Update returns, LateUpdate follows every Update, and the audio thread reads.
Spec == /\ Init /\ [][Next]_vars
        /\ WF_vars(FindBuffer \/ Enqueue) /\ WF_vars(OnAudioRead)
        /\ WF_vars(Pump) /\ SF_vars(LateUpdate)

--------------------------------------------------------------------------------
(* Properties.                                                               *)

\* A sample is heard at most once, and samples are heard in the order they were
\* captured, whatever full rings, stopped transports, dropped packets, overflowing
\* buffers and reconnects leave out; concealment and unwritten parts of the clip
\* count as silence.  It is so unless the microphone was read wrongly: lapped,
\* failed, or sent again after a refusal.
HeardInOrder == (~lapped /\ ~failed /\ ~threw) => InCaptureOrder(heard)

\* The playback buffer is the queue it promises to be, to the game thread that
\* fills and clears it and the audio thread that reads it
\* (PlaybackBuffer.cs:73-94, 171-207, PlaybackSource.cs:186-199, 223-307).
Contents == IF buffer = NoBuffer THEN <<>> ELSE Playback!Held(buffer)
Queue == INSTANCE SampleQueue WITH q <- Contents, Cap <- Capacity, ReadMax <- ReadSize,
                                   Puts <- [1 .. FrameSamples -> 0 .. MaxCaptured]
QueueSpec == Queue!Spec

\* The samples on their way from the microphone to the ear.
Voice(packets) == {packets[k].flags : k \in {m \in DOMAIN packets : packets[m].type = "voice"}}
Waiting == {jitter.packets[k].payload : k \in {m \in Jitter!Slots : jitter.packets[m].valid}}
UnderWay == UNION {Range(f) : f \in Range(ring) \cup Voice(client.outq) \cup Voice(pending)
                                     \cup Waiting \cup {pcm}}
            \cup Range(Contents)

\* The jitter buffer waits for a packet that is further off than it can see: see
\* OpusJitter.
Stalled == Waiting # {} /\ ~Playable(jitter) /\ ~Concealable(jitter)

\* Whatever enters the client's queues leaves them again, heard or dropped, once
\* capture pauses (as MaxCaptured makes it do): no sample stays for ever in a ring,
\* a queue, a slot or a playback buffer, unless the jitter buffer stalls.
NothingStuck == UnderWay # {} ~> (UnderWay = {} \/ Stalled)
================================================================================
