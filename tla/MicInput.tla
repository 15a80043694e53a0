-------------------------------- MODULE MicInput --------------------------------
(***************************************************************************)
(* The microphone of a Unity client (ResidualVoiceMicInput.cs).  The        *)
(* hardware writes a looping clip all the time; Update, on the game thread,  *)
(* reads in chunks what has come since the last time, fills a frame with it  *)
(* and submits each full frame to the engine, which refuses it by an         *)
(* exception that ends Update when it is not connected.                      *)
(*                                                                         *)
(* A sample is its number: the n-th that the hardware captured.              *)
(***************************************************************************)
EXTENDS Integers, Sequences, Functions

CONSTANTS ClipSamples,     \* _microphoneClip.samples
          FrameSamples,    \* _requiredFrameSamples
          ChunkSamples,    \* maxSamplesPerUpdate
          RingCap,         \* RV_CAPTURE_RING_CAP
          MaxCaptured      \* bound: samples captured in one behaviour

ASSUME MicAssumption == /\ ClipSamples \in Nat \ {0} /\ FrameSamples \in Nat \ {0}
                        /\ ChunkSamples \in Nat \ {0} /\ RingCap \in Nat \ {0}
                        /\ MaxCaptured \in Nat

VARIABLES
  client,      \* the engine, as its transport sees it: a VoiceSession
  ring,        \* the frames in its capture ring
  game,        \* what the game thread is in the middle of
  recording,   \* _isRecording
  captured,    \* how many samples the hardware has captured
  base,        \* how many it had captured when the clip was started
  lastRead,    \* _lastReadPosition
  frame,       \* the samples in _frameSubmitBuffer
  todo,        \* the chunks Update has still to read, <<start, count>>
  position,    \* the microphone's position as Update has found it
  upTo,        \* history: the samples up to this one have been read, or given up
  aim,         \* history: those up to this one will have been when Update is done
  sent,        \* history: the samples the engine has taken, in order
  given,       \* history: the samples given up when recording stopped
  lapped,      \* history: the hardware has come round to samples not yet read
  failed,      \* history: the clip could not be read
  threw        \* history: the engine has refused a frame

micVars == <<recording, captured, base, lastRead, frame, todo, position>>
micHistory == <<upTo, aim, sent, given, lapped, failed, threw>>

MicInit ==
  /\ game = "free" /\ ring = <<>>
  /\ recording \in BOOLEAN /\ captured = 0 /\ base = 0 /\ lastRead = 0
  /\ frame = <<>> /\ todo = <<>> /\ position = 0
  /\ upTo = 0 /\ aim = 0 /\ sent = <<>> /\ given = {}
  /\ lapped = FALSE /\ failed = FALSE /\ threw = FALSE

--------------------------------------------------------------------------------
(* The hardware.                                                             *)

Silence == 0

\* Where it will write next.
Position == (captured - base) % ClipSamples

\* The samples it has written at place p of the clip: the last is there now.
WrittenAt(p) == {n \in base + 1 .. captured : (n - base - 1) % ClipSamples = p}
SampleAt(p) == IF WrittenAt(p) = {} THEN Silence
               ELSE CHOOSE n \in WrittenAt(p) : \A m \in WrittenAt(p) : m <= n

Capture ==
  /\ recording /\ captured < MaxCaptured
  /\ captured' = captured + 1
  /\ lapped' = (lapped \/ captured' - upTo > ClipSamples)
  /\ UNCHANGED <<client, ring, game, recording, base, lastRead, frame, todo, position,
                 upTo, aim, sent, given, failed, threw>>

--------------------------------------------------------------------------------
(* Recording.                                                                *)

StartCapture ==
  /\ game = "free" /\ ~recording
  /\ recording' = TRUE /\ base' = captured /\ lastRead' = 0 /\ frame' = <<>>
  /\ upTo' = captured /\ aim' = captured
  /\ UNCHANGED <<client, ring, game, captured, todo, position, sent, given, lapped,
                 failed, threw>>

\* What was not read, and what does not fill a frame, is given up.
StopCapture ==
  /\ game = "free" /\ recording
  /\ recording' = FALSE /\ lastRead' = 0 /\ frame' = <<>>
  /\ given' = given \cup Range(frame) \cup (upTo + 1 .. captured)
  /\ upTo' = captured
  /\ UNCHANGED <<client, ring, game, captured, base, todo, position, aim, sent, lapped,
                 failed, threw>>

--------------------------------------------------------------------------------
(* AccumulateAndSubmitFrames, on what it changes: x is the frame being        *)
(* filled, the ring, what was sent and whether it has thrown.                *)

Full(x) == Len(x.frame) = FrameSamples

\* SubmitFrame.  The ring drops the frame silently if it is full; an engine that
\* is not connected refuses it, and the frame stays full.
\* Mutant: a refused frame is thrown away.
Mut_Submitted(x) ==
  IF ~client.connected THEN [x EXCEPT !.threw = TRUE, !.frame = <<>>]
  ELSE [x EXCEPT !.frame = <<>>, !.sent = @ \o x.frame,
                 !.ring = IF Len(@) < RingCap THEN Append(@, x.frame) ELSE @]
Submitted(x) ==
  IF ~client.connected THEN [x EXCEPT !.threw = TRUE]
  ELSE [x EXCEPT !.frame = <<>>, !.sent = @ \o x.frame,
                 !.ring = IF Len(@) < RingCap THEN Append(@, x.frame) ELSE @]

\* One more sample.  A frame left full by an exception is submitted first.
Fed(x, sample) ==
  LET room == IF Full(x) THEN Submitted(x) ELSE x
      more == [room EXCEPT !.frame = Append(@, sample)]
  IN  IF room.threw THEN room ELSE IF Full(more) THEN Submitted(more) ELSE more

Accumulated(samples) ==
  LET fed[k \in 0 .. Len(samples)] ==
        IF k = 0 THEN [frame |-> frame, ring |-> ring, sent |-> sent, threw |-> FALSE]
        ELSE Fed(fed[k - 1], samples[k])
  IN  fed[Len(samples)]

--------------------------------------------------------------------------------
(* PumpMicrophone and ReadAndAccumulate.                                      *)

\* The chunks of a segment of the clip, in the order they are read.
Chunks(start, count) ==
  [k \in 1 .. (count + ChunkSamples - 1) \div ChunkSamples |->
     LET done == (k - 1) * ChunkSamples IN
     <<start + done, IF count - done < ChunkSamples THEN count - done ELSE ChunkSamples>>]

\* Mutant: the part before the wrap is forgotten.
Mut_Segments(from, to) ==
  IF to > from THEN Chunks(from, to - from) ELSE Chunks(0, to)
Segments(from, to) ==
  IF to > from THEN Chunks(from, to - from)
  ELSE Chunks(from, ClipSamples - from) \o Chunks(0, to)

PumpStart ==
  /\ game = "free" /\ recording /\ Position # lastRead
  /\ game' = "pump" /\ position' = Position
  /\ todo' = Segments(lastRead, Position)
  /\ aim' = captured
  /\ UNCHANGED <<client, ring, recording, captured, base, lastRead, frame, upTo, sent,
                 given, lapped, failed, threw>>

\* What the chunk holds when it is read, which may be after the hardware has
\* written more.
Samples(chunk) == [k \in 1 .. chunk[2] |-> SampleAt(chunk[1] + k - 1)]

\* The exception leaves the read position where it was.
PumpChunk ==
  /\ game = "pump" /\ todo # <<>>
  /\ LET x == Accumulated(Samples(Head(todo))) IN
     /\ frame' = x.frame /\ ring' = x.ring /\ sent' = x.sent
     /\ threw' = (threw \/ x.threw)
     /\ IF x.threw THEN game' = "free" /\ todo' = <<>>
                   ELSE game' = "pump" /\ todo' = Tail(todo)
  /\ UNCHANGED <<client, recording, captured, base, lastRead, position, upTo, aim, given,
                 lapped, failed>>

\* A chunk that cannot be read ends its segment, and nothing else: the next
\* segment starts at the beginning of the clip.
PumpChunkFails ==
  /\ game = "pump" /\ todo # <<>>
  /\ todo' = LET next == {k \in 2 .. Len(todo) : todo[k][1] = 0}
             IN  IF next = {} THEN <<>> ELSE SubSeq(todo, CHOOSE k \in next : TRUE, Len(todo))
  /\ failed' = TRUE
  /\ UNCHANGED <<client, ring, game, recording, captured, base, lastRead, frame, position,
                 upTo, aim, sent, given, lapped, threw>>

PumpEnd ==
  /\ game = "pump" /\ todo = <<>>
  /\ game' = "free" /\ lastRead' = position /\ upTo' = aim
  /\ UNCHANGED <<client, ring, recording, captured, base, frame, todo, position, aim, sent,
                 given, lapped, failed, threw>>

--------------------------------------------------------------------------------
(* Properties.                                                               *)

\* The samples of a sequence, without silence, come in the order of capture.
InCaptureOrder(samples) ==
  \A j, k \in DOMAIN samples :
    j < k => samples[j] = Silence \/ samples[k] = Silence \/ samples[j] < samples[k]

\* However the chunks, the wrap of the clip and the frames fall, and whatever is
\* captured meanwhile, every sample read goes into exactly one frame, in order and
\* with no other among them, unless the hardware has lapped the reader, the clip
\* could not be read or the engine has refused a frame (MicInput.cs:281-437).
FramesAreTheCapture ==
  (~lapped /\ ~failed /\ ~threw) =>
    /\ InCaptureOrder(sent \o frame) /\ Silence \notin Range(sent \o frame)
    /\ 1 .. upTo \subseteq Range(sent \o frame) \cup given

\* A frame the engine refuses is not lost: it is kept, and what was read with it
\* is read again.  So samples may be sent twice after a time without connection,
\* and none is skipped (MicInput.cs:331-333, 419-424).
RefusedIsKept ==
  (~lapped /\ ~failed) => 1 .. upTo \subseteq Range(sent \o frame) \cup given
================================================================================
