# A verification project for ResidualEngineAudio

ResidualEngineAudio is a voice-chat engine in C (`src/voice.c` and the files it
includes) with a Unity client in C#. A host gives it captured frames, received
packets and the time; it gives the host packets to send and events (who speaks,
decoded frames, messages). The engine opens no socket and starts no thread. What
is hard in it is what two threads, an unreliable network and a clock that wraps
do to it, and that is what these modules are about.

Paths below are those of the repository. Line numbers are of the modelled commit.

## Inventory

| Component | State | Operations | Meets others through | What makes it correct |
|---|---|---|---|---|
| Capture ring, `src/voice.c:43-85` | two atomic 32-bit indices, 16 frame slots | push (audio thread), pop (voice thread) | submit pushes, tick pops | no slot is touched by both threads; frames leave whole, once, in order; a full ring refuses |
| Event queue, `src/rv_event_queue.h`, and message buffers, `src/voice.c:142-208` | 256 events, two text buffers | push, pop, emit log / error | every engine call pushes; the host polls | a host that polls everything has the right picture; what an event points at is still there |
| Packet queue, `src/voice.c:214-239` | 256 packets | push, pop | connect and tick push; a pump polls | JOIN before the voice it announces; sequence numbers increase |
| Voice engine, `src/voice.c` | connected, identity, local state, and per speaker: speaking, last packet time and flags, decoded frame | create, destroy, connect, disconnect, set_local_state, submit (two names), ingest, tick, two polls, mix | all of the above | little sent after a disconnect, speaking follows time, events point at live samples |
| Opus jitter buffer, `src/rv_opus_jitter.c` | 128 slots by sequence number, next number, started | init, push, pop | ingest pushes, tick pops once per speaker | in order, nothing twice, gaps concealed, silence at the end, no standstill |
| Wire protocol, `src/rv_netproto.c` | none | build and parse JOIN and VOICE, pack flags | engine, relay | round trips; refuses what it did not build |
| Relay, `src/rv_relay.c`, `src/rv_relay_main.c` | 64 sessions of 16 clients | join, forward | sockets | one entry per player; voice to everyone else in the session, once |
| Transports, `src/rv_transport*.h/.c`, `src/rv_shim_*.c` | a socket | send, receive, pump in, pump out | engine's polls and ingest | a packet taken is a packet sent |
| Unity client, `unity/com.residual.voice/Runtime/Scripts` | native handle; per-speaker sample rings under a lock; microphone read position and resampling remainder; loopback queues; component lifecycle | create, connect, tick, drain; enqueue, read, clear; pump microphone; attach, detach | the flat API; Unity's audio thread | samples in order across the ring's wrap, no use after Dispose, no frame for a detached source |
| Opus wrappers, UDP sockets, crypto and DLL stubs, `src/rv_pcm_jitter.c` | | | | external, I/O, empty, or not built |

`PROJECT.json` lists the hazards with their lines and the properties that watch
them, and says of every component what is modelled and what is left out.

## Modules

- `BoundedFifo`: what a bounded queue promises, as two histories. Abstract.
- `CaptureRing`: `rv_ring_push` and `rv_ring_pop`, one action for each access to
  shared memory. It implements `BoundedFifo`.
- `JitterBuffer`: the jitter buffer's slots and the operations on them as
  operators; no state. Used by the next two.
- `OpusJitter`: one speaker's buffer between a network and the voice thread.
- `VoiceEngine`: one engine, its host's two threads, and all the queues.
- `EngineMemory`: the memory of one engine, with allocations that fail.
- `VoiceSession`: what an engine promises its transport. Abstract; `VoiceEngine`
  implements it, `VoiceNetwork` and `UnityLoopback` are made of it.
- `Relay`: the relay's tables and the packets that reach it.
- `NetProto`: builders and parsers of datagrams, as operators; no state.
- `VoiceNetwork`: hosts with engines and UDP transports, the network, the relay.
  Composes `VoiceSession`, `NetProto` and `Relay`.
- `MicInput`: the Unity microphone, a state machine that lacks only its engine.
- `PlaybackBuffer`: the Unity sample ring, as operators; no state. `SampleQueue` is the
  queue it promises to be.
- `UnityLoopback`: a Unity client that hears itself, from microphone to ear.
  Composes `MicInput`, `VoiceSession`, `JitterBuffer` and `PlaybackBuffer`.
- `CaptureRing_proofs`, `OpusJitter_proofs`, `VoiceEngine_proofs`, `EngineMemory_proofs`,
  `Relay_proofs`, `VoiceNetwork_proofs`, `UnityLoopback_proofs`: the proofs about the modules
  of those names; the last covers `MicInput` and `PlaybackBuffer` too. `ModuloLemmas` has
  the arithmetic of wrapping numbers that several of them use.
- `MCCaptureRing`, `MCOpusJitter`, `MCVoiceEngine`, `MCEngineMemory`, `MCRelay`,
  `MCVoiceNetwork`, `MCUnityLoopback`: values for the constants; each `.cfg` is one
  question asked of one of them.

### CaptureRing

`w`, `r` and `slots` are the ring. `pPc`/`cPc` say where each thread is; `pR` and
`cW` are the value each has loaded of the other's index. The code's acquire load
may return an old value, but never one older than it returned before, and that is
what `Loadable` is. A slot is written and read in two halves (`PushCount`,
`PushSamples`; `PopCount`, `PopSamples`) because the code uses plain stores and
loads there: a frame could be torn if the indices did not keep the threads apart.
Only the caller's thread writes its own index, so its relaxed load of it is exact.

### OpusJitter

Packets are named by their place in the stream; the code sees the place modulo
`SeqMod`. The network may lose a packet, deliver it twice, or deliver it after up
to `MaxDelay` younger ones were sent. `payload`, `position`, `arrived`, `displaced` and
`last` are history, so that properties can speak of the true place where the code has
only a 16-bit number. `displaced` has the packets whose slot was taken by one that
arrived later: push looks neither at what a slot holds nor at whether a packet is still
wanted (`src/rv_opus_jitter.c:54-75`), so a late packet may take the slot of one that is.
In the run packets may be later than the buffer is long (`MaxDelay > Cap`), which is where
this happens.

### VoiceEngine

The game thread makes all API calls. `rv_voice_tick` is many steps: `TickBegin`,
one `Drain...` step per captured frame, `DrainEnd`, then one `Speaker...` step per
remote speaker; the audio thread may act between any two. The audio thread's
submit is two steps, the look at `connected` and the push. `connected` is a plain
`int` that two threads use without a lock: `MayReadConnected` lets the audio thread
read the old value until it has seen a pop made after the change, since the ring's
index is stored with release and loaded with acquire. `SubmitPush` likewise may
see only some of the pops (`unseen`) and then drop a frame the ring has room for.
The ring is a counter here: `CaptureRing` shows that it is a queue, and no property
of the engine tells captured frames apart.

Who has an event or packet queue is one thread, so both queues are sequences with
a capacity. Text is the message's name; a queued message remembers (`text`) what
it pointed at when it was queued, and `msgBuf` is what is there now. Encoding and
decoding are external and may fail at any time. Calls that return an error and
change nothing are no step.

`rv_voice_get_mixed_pcm` changes nothing; `Mixed` is what it would give. The code
tells a frame of the last tick from an older one by `pcm_count`, so the history
`decoded` says whose frames the last tick made, and `MixIsCurrent` compares the two
whenever the game thread can ask, that is between two calls. (In the middle of a tick
`MixedIsDecoded`, in the proof, relates them.)

An event that finds the queue full is lost. `untold` has the subjects (the connection, or a
speaker) whose latest event was: of these, and of no others, a host that takes every event may
have a wrong picture, until the next event about them. That is `HostKnows`.

### VoiceSession

To a transport an engine is its identity, a queue of packets and the next sequence
number. A connect with a full queue changes the identity and queues nothing
(`src/voice.c:447-461`); voice uses up a number even when there is no room for it. Voice may
come at any time, since captured frames outlive a disconnect. `SessionSpec` in
`VoiceEngine` is this specification under a refinement mapping: whichever of the
engine's many steps is taken, a transport sees one of these or nothing.

### EngineMemory

`rv_voice_create` asks for an engine, an encoder, seven arrays and then two blocks per
player; each may fail. The arrays are all asked for before the first is looked at, and
`MissArrays` gives up with any proper subset. A pointer that nobody has written is
`Unset`, which is either taken for null or freed. Freeing what is not allocated is undefined:
it sets `wild`, leaves any of the blocks on the heap, and ends the behaviour.

### NetProto and VoiceNetwork

A datagram is a record of its fields as they travel: `Swap16` is applied by the builder
and again by the parser, and the flags byte is packed and unpacked by arithmetic.
Session ids, which are compared and never computed with, are left abstract.

A host's pump has a packet in hand after it polled the engine and before it sent it:
`PumpSends` and `PumpLoses` are the two ways this ends (`src/rv_transport_udp.c:75-82`).
Nothing can come between, since one thread does both. `net` is a set, so a datagram
overtakes others; the relay may leave a copy behind of what it takes (`copies`), and
`Lose` takes one away. What reaches a host is not kept: a repeated voice packet
changes nothing here that `OpusJitter` does not say. `Close` and `Open` move a host to another
address, with its engine and queue as they are. What is under way to the old address stays under way: it
is lost if nobody listens there, and reaches whoever opens that address again. (The
run's budget is too small for voice that is relayed to an address which is left and opened again; the
theorems cover it.) The relay is `Relay`'s own `Rebind` and
`Targets`. Histories: `said` and `taken` are voice queued and taken in; `joins` numbers the JOINs
that were sent, so that `overtaken` can say that the relay got one after a younger one.

### MicInput, PlaybackBuffer, UnityLoopback

A sample is the number it was captured with; silence is 0. The hardware writes the
looping clip while Update reads it in chunks, each chunk at its own moment, so what a chunk
holds may already be newer than `position`. Loops over samples, frames and packets
(`Accumulated`, `Enqueued`, `IngestedAll`, `SentAll`, `Drained`) are recursive functions of the turns
that were made. `Accumulated` fills frames: a
frame refused by an exception stays full and is submitted first next time, and the
read position is not moved. `lapped`, `failed` and `threw` are histories for the three
ways in which the microphone reads wrongly by design.

In the composition LateUpdate is one step up to the moment a frame is decoded: the
transport hands over what waits, the engine ticks, the transport sends, and the frame
is in the handlers' hands (`game = "queue"`). `QueueFrame` takes one lock to find the
buffer and another to fill it, so it is two steps, and the audio thread may read between
them. The rig's calls, Connect, Disconnect, Clear and restarts of the microphone,
come between Updates. The jitter buffer is `JitterBuffer`'s; one speaker, which is
the client itself, is enough for every buffer on the way.

### Relay

One thread, so a JOIN (`Join`, `JoinRefused`) and a voice packet (`Voice`) are one
step each. `session` and `clients` are the two tables; a loop over a table that takes
the first match is `IsFirst`. Hosts and network are free: any player may join any
session from any address, at any time and again, so repeated and reordered JOINs are
included. `joinedFrom` and `joinedAs` are history, the last accepted JOIN of a player and of
an address; `heard` is the last voice packet and the entries it was sent to.

The properties say nothing of these, which the code does and no document denies:
a player who moves to an address that another player's entry has makes voice come
there twice; a player who joins a second session stays in the first; voice from an
address that never joined is sent on; voice is routed to session 1234 whatever session
its sender joined (`src/rv_relay_main.c:71`, "Prototype routing").

## Runs

| Run | What it asks | Bounds | States |
|---|---|---|---|
| `capture_ring` | the inductive invariant, types included, no data race, held frames stable, implements the fair FIFO | 2 slots, indices modulo 4 (they wrap after 4 frames), 6 frames, sample counts 0 to 3 around a limit of 2 | 229 thousand |
| `jitter` | order, authenticity, gaps, silence, what is reached | 3 slots, 9 numbers, 6 packets from place 0 or 7, so through the wrap; a packet may arrive after 4 younger ones, one more than there are slots | 174 thousand |
| `jitter_gap` | finding | as `jitter`, but the network keeps the order | |
| `engine_send` | announced, little after a disconnect; implements `VoiceSession` | both capture modes, 2 identities, all key and radio states, 3 frames, 2 packets, audio thread up to a pop behind | 491 thousand |
| `engine_events` | the host's picture, messages | 3 events, 1 packet, 2 frames | 1288 thousand |
| `engine_speaking` | types, speaking follows time and ends, the host's picture, PCM samples, the mix | 2 speakers, one with a gap in his stream; 2 events; a clock of 8, started 1 before its wrap; timeout 1 ms | 498 thousand |
| `engine_messages`, `engine_flags` | findings | small | |
| `relay` | consistent tables, who is bound, who hears | 2 sessions of 2 clients, 3 players, 2 addresses, of which players and addresses are symmetric | 86 thousand |
| `network` | voice arrives as it was said, no echo, who joined last is bound, a JOIN gets through | 2 hosts, one of which has two addresses; 2 identities, one with both bytes of its number in use; a channel beyond 15; a foreign datagram; 3 of connects, frames, foreign datagrams and closed transports together | 254 thousand |
| `memory` | a whole engine or nothing kept, nothing freed that was not allocated | 2 players, every combination of failures | 1156 |
| `loopback` | the frames are the capture, a refused frame is kept, heard in order, implements `SampleQueue`, nothing stuck | a clip of 3 samples, chunks and frames of 2, 6 samples captured, rings of 1 frame and 3 samples, 2 calls of the rig or failed reads | 216 thousand |

Every bound is a constant: `MaxAccepted`, `MaxSent`, `MaxDelay`,
`MaxTime`, `MaxFrames`, `MaxUnseen`, `Budget`, `MaxCaptured`. Two slots already have a full, an empty and a
half-full ring, and the wrap of the index; three slots have a gap the search
passes and one it does not; queues of one to three places are found full in every
way the code handles. `engine_send` uses a VIEW: what happens to the variables
about sending does not depend on events and speakers, which only multiply the
states, and its properties are invariants that read no others.

`InOrder` needs the stream to be shorter than the range of sequence numbers less
the buffer (`MaxSent + Cap <= SeqMod`): beyond it a packet left over in a slot for a
whole turn of the numbers can be taken for a new one. With 128 slots and 65536
numbers that takes a slot missed 511 times in a row.

In `network` the budget is what makes the case: three events are a connect, a voice
packet, and one of a second connect, a move or a foreign datagram, in every order and
under every delay; two connects and a move take a JOIN past a younger one. Two
places in the queue are found full. In `loopback` a clip of three is neither a multiple
of the chunk nor of the frame, so that over six samples the wrap, the chunks and the frames
fall in every way; one place in each ring makes them overflow; concealment is
reached, while `Stalled` is not (a gap of the jitter buffer's capacity needs more
frames; `jitter_gap` shows it). The values of `memory` need no larger instance: the
second player is the loop's second turn.

`CHECK_DEADLOCK FALSE` stands where a bound or a budget ends the behaviour.

### Fairness

- A thread that has begun a push or a pop finishes it; the voice thread goes on
  popping, because every tick pops until the ring is empty; a store becomes
  visible in finite time, so that not every load of it is stale: `PopStart`, the pop that
  sees a frame, is weakly fair.
- Ticks go on: `DOCUMENTATION.MD:276`, "Call once per frame or fixed timestep."
- Time goes on. It passes between calls only, since a call takes `now_ms` once, so
  it is strongly fair.
- A submit call returns. The host owes nothing else: it need not poll, connect or
  speak.
- `network`: a host with a transport pumps again and again (`DOCUMENTATION.MD:242-250`,
  "The host polls packets" and sends each), and the relay reads what has come, since its loop only
  sleeps when there is nothing. `JoinArrives` is fair as a whole and takes datagrams for good: a
  network that repeats one datagram for ever would keep nobody else's from being read.
  The network owes nothing: it may lose everything.
- `loopback`: Update, and a handler once it has begun, return; the audio thread reads, since
  Unity calls `OnAudioRead` for as long as the source plays. LateUpdate follows every
  Update, but Update may always have begun again when we look: hence strong fairness.
  The hardware need not capture and the rig need do nothing.

### Findings

Each is a run that TLC is expected to find violated.

- `LaterPacketLetsPlaybackAdvance`: when as many packets are lost in a row as there are slots,
  a later packet is in the buffer and playback stands still, against the comment of
  `has_future_packet`. `Reaches` is what does hold: a packet less than a capacity ahead is
  reached, unless its slot is taken by one that arrives after it (`displaced`).
- `MessagesIntact`: the third message between two polls overwrites the first one's
  text, against the comment at `src/voice.c:142`. `LastTwoMessagesIntact` holds.
- `FlagsAreOfTheFrame`: PCM events carry the flags of the packet received last, not
  of the frame they bring, against `DOCUMENTATION.MD:297-305`.

Without a run of their own, because a passing run's property states the exception:

- `DOCUMENTATION.MD:218-226` says that the synchronous submit gates, encodes and
  queues at once; it is the asynchronous one under another name
  (`src/voice.c:513-522`), as the comment there says, and is modelled as such.
- When an array cannot be allocated, `rv_voice_create` calls `rv_voice_destroy` before
  `dec` and `pcm_buf` are set to zero (`src/voice.c:387-390`), so destroy reads pointers that
  nobody wrote and may free them. `FreesItsOwn` holds with `partly`, and not without.
- A JOIN is sent once and not acknowledged. One that arrives after a younger one
  rebinds its player to where he was (`src/rv_relay.c:36-50`), for good: `JoinedIsBound`
  holds with `~overtaken`, and not without.
- While the engine refuses frames each Update throws and reads the same part of the clip
  again; when it accepts them the kept frame is submitted and what was read with it is
  sent a second time (`ResidualVoiceMicInput.cs:340`, `:419-424`). `RefusedIsKept` says that
  nothing is skipped; `FramesAreTheCapture` needs `~threw`.

## Proofs

All theorems are checked by TLAPS for every value of the constants, from the
named assumptions and those a theorem states: a capacity is a positive natural number, the number
range is a larger multiple of it (65536 and 2^32 are, of 128 and of 16).

**Capture ring** (`CaptureRing_proofs`). `TypeOK` is inductive. `NoDataRace` is not,
nor is the FIFO: that the producer writes outside the held slots follows from
what it last loaded of `r`, so the invariant must relate the stale copies to the
indices. `IInv` has three parts beside the types. `IndexInv`: the distance of the indices is
the number of frames held, and a stale copy errs on the safe side. `ContentInv`:
the held slots are the accepted, not yet delivered frames, in order. `CopyInv`: a
copy that is half made is right so far. `Invariance` proves `IInv` by one step per
action; the arithmetic of slots around the wrap is in `ModuloLemmas` (two indices
less than a capacity apart have different slots). `DataRaceFree`, `HeldFramesKept` and
`ImplementsFifo` (each step is a FIFO step or a stutter) follow from it.

**Jitter buffer** (`OpusJitter_proofs`). `BufferInv` is inductive with `TypeOK`: it says
that a slot holds what its number says. `PlaysAuthentic` follows. `PlaysInOrder` adds
that arrived packets and the position lie in one stretch of the stream no longer
than the number range, in which equal numbers mean equal places.
`StaysBehindArrivals` uses that concealment needs a packet ahead. `ConcealsMissing` needs
`KeptInv`: whatever has come in and is still to be played is in its slot, or is `displaced`: has
lost it to a packet that came in after it. This holds whatever the network does, late packets
included, so the theorem assumes only that the stream is shorter than the number range.

**Relay** (`Relay_proofs`). `OneEntryPerPlayer` and `EntriesCurrent` need each other and
`OneSlotPerSession`: the entry a JOIN writes is its player's only one because it is
looked for by player first. `JoinedAreBound` also needs `UnknownNotJoined`, for a slot that is
newly given to a session. `VoiceReachesOthers` follows with `HeardIsCurrent`. The assumption
is that the routed id is an id and that a free entry is told from a used one.

**Voice engine, what is sent** (`VoiceEngine_proofs`). `TypeInv` has the types of all variables
and two facts without which they are not inductive: an engine that was never
connected has no frames (`Unconnected`; else a voice packet could name nobody), and a
slot of a jitter buffer holds a packet of its speaker (`StoredKnown`). `VoiceAnnounced` needs `Announcing`, which says
also whom the *next* voice packet will follow: the last JOIN in the queue, or the last
one polled, is of the present identity. `FewLateFrames` needs `Ending`, which counts on: while
the audio thread has seen no pop made since the disconnect, what was sent, what is in the
ring and what it is about to push fit in a ring and one frame; once it has seen one,
nothing more comes in. `ImplementsSession`: a connect, a disconnect, a poll and each encoded
frame is a step of `VoiceSession`; all others leave what a session is made of as it was.

**Voice engine, what the host sees** (`VoiceEngine_proofs`). `FramesStayIntact`: an event
of this tick names a speaker whose turn is past, so no later turn of the tick writes his
buffer. `MixStaysCurrent`: the players with a frame, in the middle of a tick, are those of
`decoded`, and all of them are before `turn`. `LastMessagesIntact`: the last message is in the buffer
that is not written next, the last but one in the other. `SilenceIsTimely`: who speaks has his
true time behind the wrapped one, and a difference of wrapped times is the true one while
less than a turn of the clock has passed (`ElapsedRemainder`). `HostIsTold` is about a belief
that is computed by recursion along the queue. `Knowing` says that a host that goes on from what
it believes now, event by event, will believe what is so of all that is not `untold`; each step puts an event
behind for what it changes (`ToldAfter`) or makes its subject untold (`EmitTells`), or takes the
first event and makes it the belief (`ToldRest`). That such a course of beliefs is unique (`ToldOnce`) is shown by the first
place at which two could differ.

**Memory** (`EngineMemory_proofs`). `MemoryInv` says for every stage of `rv_voice_create` what each
pointer is (`StageOk`: the players before `turn` have both blocks, the others null pointers) and that
the heap is exactly the blocks that destroy would find (`HeapIsFound`), until something is freed that was not allocated. Neither is inductive alone:
what a player's turn adds to the heap must be what his cells point at. `CreateIsAllOrNothing`
and `FreesOnlyItsOwn` follow, for any number of players.

**Network** (`VoiceNetwork_proofs`). `NetInv` follows voice from the queue through the pump, the
network and the relay: what is queued is meant by `said` (`HostsOk`); every datagram that has our
magic and version is one that a host built, from its address at the time, or a copy of one by the relay
(`NetOk`); and bytes swapped twice (`SwapTwice`), and flags packed and unpacked (`FlagsRoundTrip`), are what they
were. `NoEcho` needs that a host that has not moved has one address, that no other host has, and that
the relay sends nothing back to where it came from. `JoinedIsBound` is inductive with the
rest: the relay's `Rebind` leaves an entry alone unless it is of the same player or the same
address.

**Unity client** (`UnityLoopback_proofs`). The loops are recursive functions, so what they
compute is a matter of induction along a loop: `UpTo`, that what holds before the first turn and
survives each turn holds after the last, is proved from the well-foundedness of the naturals
for sets rather than predicates, and `LoopRuns` says that a loop whose turns stay in a set has a
course of values there. `TypeCorrect` has the types of all that lies between microphone and
ear, with what the steps need: a valid jitter slot holds a frame, a buffer's count is not more
than its capacity, its write index is where the samples held end.

`Refines`: a buffer's content is counted from its read index (`Content`). `AddedContent` says that a sample
put in is the last and moves no other, `HoldsNewest` that a loop of them holds the newest that fit
of what was there and what was put (`EnqueuedQueue`); `LeftQueue`, that a read takes what it found
and no more. The rest of `Next` leaves the buffer alone, or makes an empty one of none.

`RefusedKept` and `FramesFollowCapture` follow from `MicInv`, which is inductive. Neither property is: whether a
chunk continues what was read depends on where it lies in a clip that is written meanwhile.
`Piece` says which samples a chunk is of, `Spans` that the chunks still to be read hold, one after
the other, those from `upTo` to the position the Update set out for (`MicReads`; `ChunksSpan` and
`SegmentsSpan` for the chunking and the wrap). Unless the clip was lapped, a sample's place holds it until
it is read (`SampleAtPlace`), so a chunk adds what was captured. What was read is `Kept` in the frames, or given up by a stop,
and `Ordered` unless the engine threw; when it throws, the read position stays, so that `Kept` goes on to
hold of what it was.

`HeardFollowsCapture`: samples are heard in the order of their capture, whatever the queues on the way
drop. `w` is the sequence of all frames that have entered the capture ring so far, and it is `Rising`. `Numbered` says
where its frames are. `Line`: the first `client.seq` of them are numbered, the rest are the ring. `Coming`: the voice
packets that wait bring frames of `w` with the numbers of their places, in order. `InPlace`: a jitter slot holds the
frame of its number, one that is not yet played. `Past`: what is heard, in the buffer and in the handlers' hands
is in order and behind all frames from the next to play on. Each queue's loop keeps its part, and `HearInv`
is inductive with `MicInv`. That a number is its place in `w`
holds as long as the numbers have not come round, so the theorem assumes `ShortSpeech`, that fewer samples are captured
than 2^16 frames hold (22 minutes at 20 ms); `EnoughNumbers` shows that this is enough. It cannot be left
out: a frame that stays in its slot while the numbers go round once is taken for a new one. TLC
finds 8 heard before 5 with 4 numbers, a jitter buffer of 2 and 9 frames of one sample.

The assumptions are those of the modules, by name. `EngineAssumption` bounds the numbers from
below and says that a behaviour is shorter than a turn of the millisecond clock (`MaxTime <
ClockMod`, 49 days): a speaker's time is compared modulo it, and an engine that is not ticked
for longer takes an old packet for a new one. `NetworkAssumption`: ids and sequence numbers fit the 16 bits of
their fields, no two hosts share an address, and a foreign datagram lacks our magic or our version
(one that has both is a packet of ours as far as the code can tell). `ShortSpeech` is assumed by
`HeardFollowsCapture` alone; theorems about the jitter buffer's order and concealment assume
`MaxSent + Cap <= SeqMod`. The runs satisfy all of them.

Only model-checked: all liveness, that is the fairness in `FifoSpec`, `FallsSilent`, `Reaches`,
`SpeakingEnds`, `GetsThrough` and `NothingStuck`. TLAPS does not reach it. Every safety property
of a passing run is stated by a theorem.

## Not modelled

- UDP sockets (`src/rv_udp_win32.c`): operating system I/O. `VoiceNetwork` says what
  they may do to a datagram. The Steam transport is declarations.
- `src/rv_pcm_jitter.c`: not built; the Opus jitter buffer took its place. The crypto and DLL
  stubs are empty.
- Of the engine: return codes without a change of state, the getters, and the
  arithmetic of mixing, gain and clamping, which are floating point or saturation of one
  sample, and reach no decision.
- Of Unity: creating, disposing and shutting down the client, attaching and detaching
  of sources, `ClearSpeaker`, the push-to-talk key, the conversion of samples, and
  playback for several speakers (each has a buffer of his own). Encoding and decoding do not fail in
  the loopback; they do in `VoiceEngine`.
- Examples, the smoke test and scripts: they drive the engine and have no state worth
  keeping.

## Plan

Unity lifecycle: attach, detach and dispose against the two threads.
