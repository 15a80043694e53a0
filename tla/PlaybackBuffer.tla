----------------------------- MODULE PlaybackBuffer -----------------------------
(***************************************************************************)
(* The samples that wait to be played for one speaker                       *)
(* (ResidualVoicePlaybackBuffer.cs), as operators on the buffer's fields.    *)
(* Each operation holds the buffer's lock, so it is one step.               *)
(***************************************************************************)
EXTENDS Integers, Sequences

CONSTANT Capacity   \* _buffer.Length, at least 1

\* As it is constructed; `filler` stands for an element not written yet.
New(filler) ==
  [buffer |-> [k \in 0 .. Capacity - 1 |-> filler], read |-> 0, write |-> 0, count |-> 0]

After(index) == (index + 1) % Capacity

\* Enqueue makes room by dropping the oldest sample (DropOldestOnOverflow, which
\* nobody turns off).
\* Mutant: the read index stays where it was.
Mut_WithRoom(b) == IF b.count < Capacity THEN b ELSE [b EXCEPT !.count = @ - 1]
WithRoom(b) ==
  IF b.count < Capacity THEN b ELSE [b EXCEPT !.read = After(@), !.count = @ - 1]

Added(b, sample) ==
  LET room == WithRoom(b) IN
  [room EXCEPT !.buffer[room.write] = sample, !.write = After(@), !.count = @ + 1]

Enqueued(b, samples) ==
  LET after[k \in 0 .. Len(samples)] == IF k = 0 THEN b ELSE Added(after[k - 1], samples[k])
  IN  after[Len(samples)]

\* Read, ReadIntoInterleavedFloat and MixIntoInterleavedFloat take the samples in
\* the same way: what they find, and what they leave.
\* Mutant: nothing is given unless all that is wanted is there.
Mut_Found(b, wanted) ==
  [k \in 1 .. (IF b.count < wanted THEN 0 ELSE wanted) |->
     b.buffer[(b.read + k - 1) % Capacity]]
Found(b, wanted) ==
  [k \in 1 .. (IF wanted < b.count THEN wanted ELSE b.count) |->
     b.buffer[(b.read + k - 1) % Capacity]]
\* Mutant: the read index is not moved on.
Mut_Left(b, wanted) == [b EXCEPT !.count = @ - Len(Found(b, wanted))]
Left(b, wanted) ==
  LET n == Len(Found(b, wanted)) IN
  [b EXCEPT !.read = (@ + n) % Capacity, !.count = @ - n]

\* The samples held, oldest first.
Held(b) == Found(b, b.count)
================================================================================
