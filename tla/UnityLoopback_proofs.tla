-------------------------- MODULE UnityLoopback_proofs --------------------------
(***************************************************************************)
(* Theorems about a Unity client that hears itself, for any clip, chunks,   *)
(* frames, rings and buffers: that everything between microphone and ear     *)
(* holds what it should, that the playback buffer is a SampleQueue, that the  *)
(* microphone is read whole and in order, and that what is heard comes in     *)
(* the order of its capture.                                                *)
(***************************************************************************)
EXTENDS UnityLoopback, SequenceTheorems, WellFoundedInduction, ModuloLemmas

--------------------------------------------------------------------------------
(* Loops.  The code's loops over samples, packets and frames are recursive     *)
(* functions of how far they have come.                                       *)

\* What holds of 0, and of each number up to n if it does of the one before, holds
\* of all of them.
LEMMA UpTo ==
  ASSUME NEW n \in Nat, NEW S, 0 \in S, \A k \in 1 .. n : k - 1 \in S => k \in S
  PROVE  \A k \in 0 .. n : k \in S
<1> DEFINE D == {k \in Nat : k <= n /\ k \notin S}
<1> SUFFICES ASSUME D # {} PROVE FALSE
  OBVIOUS
<1>1. D \subseteq Nat
  OBVIOUS
<1> HIDE DEF D
<1>2. PICK k \in D : \A j \in D : <<j, k>> \notin OpToRel(<, Nat)
  BY <1>1, WFMin, NatLessThanWellFounded, Zenon
<1>3. \A j \in Nat : j < k => j \notin D
  BY <1>1, <1>2, Zenon DEF OpToRel
<1>4. k \in Nat /\ k <= n /\ k \notin S
  BY DEF D
<1>5. k \in 1 .. n /\ k - 1 \in Nat /\ k - 1 < k /\ k - 1 <= n
  BY <1>4
<1> QED
  BY <1>3, <1>4, <1>5 DEF D

\* The turns of a loop, and the course g it takes from b in n turns.
Turns(n, T) == [(1 .. n) \X T -> T]
Course(g, n, b, turn) == g[0] = b /\ \A k \in 1 .. n : g[k] = turn[<<k, g[k - 1]>>]

\* A loop that starts from b in T, and whose every turn leads from T to T, has a
\* course.
LEMMA LoopRuns ==
  ASSUME NEW n \in Nat, NEW T, NEW b \in T, NEW step \in Turns(n, T)
  PROVE  \E g \in [0 .. n -> T] : Course(g, n, b, step)
<1> DEFINE Runs(m, g) == g[0] = b /\ \A k \in 1 .. m : g[k] = step[<<k, g[k - 1]>>]
           S == {m \in 0 .. n : \E g \in [0 .. m -> T] : Runs(m, g)}
<1>1. 0 \in S
  <2> DEFINE g == [k \in 0 .. 0 |-> b]
  <2>1. g \in [0 .. 0 -> T] /\ Runs(0, g)
    OBVIOUS
  <2> HIDE DEF g
  <2> QED
    BY <2>1
<1>2. ASSUME NEW m \in 1 .. n, m - 1 \in S
      PROVE  m \in S
  <2>1. PICK g \in [0 .. m - 1 -> T] : Runs(m - 1, g)
    BY <1>2
  <2> DEFINE h == [k \in 0 .. m |-> IF k = m THEN step[<<m, g[m - 1]>>] ELSE g[k]]
  <2>2. m - 1 \in 0 .. m - 1 /\ g[m - 1] \in T /\ <<m, g[m - 1]>> \in (1 .. n) \X T
    BY <2>1
  <2>3. h \in [0 .. m -> T]
    BY <2>1, <2>2 DEF Turns
  <2>4. \A k \in 0 .. m - 1 : h[k] = g[k]
    OBVIOUS
  <2>5. h[m] = step[<<m, g[m - 1]>>]
    OBVIOUS
  <2> HIDE DEF h
  <2>6. Runs(m, h)
    <3>1. h[0] = b
      BY <2>1, <2>4
    <3>2. ASSUME NEW k \in 1 .. m
          PROVE  h[k] = step[<<k, h[k - 1]>>]
      <4>1. k - 1 \in 0 .. m - 1 /\ h[k - 1] = g[k - 1]
        BY <2>4
      <4>2. CASE k = m
        BY <2>5, <4>1, <4>2
      <4>3. CASE k # m
        <5>1. k \in 1 .. m - 1 /\ h[k] = g[k]
          BY <2>4, <4>3
        <5> QED
          BY <2>1, <4>1, <5>1
      <4> QED
        BY <4>2, <4>3
    <3> QED
      BY <3>1, <3>2
  <2> QED
    BY <2>3, <2>6
<1> HIDE DEF S
<1>3. n \in S
  BY <1>1, <1>2, UpTo
<1> QED
  BY <1>3 DEF S, Course

--------------------------------------------------------------------------------
(* The playback buffer.                                                       *)

Sounds == 0 .. MaxCaptured
Frames == [1 .. FrameSamples -> Sounds]

\* A buffer, field by field.
Buf(cells, read, write, count) ==
  [buffer |-> cells, read |-> read, write |-> write, count |-> count]

\* A place in the array, counted on across the wrap.
At(n) == n % Capacity

\* The write index is where the samples held end.
Buffers == {Buf(f[1], f[2], At(f[2] + f[3]), f[3]) :
              f \in [0 .. Capacity - 1 -> Sounds] \X (0 .. Capacity - 1) \X (0 .. Capacity)}
BufferOk(b) == b \in Buffers

\* The j-th of the samples held.
Content(b, j) == b.buffer[At(b.read + (j - 1))]

\* Counting on can be done before and after a wrap, and places less than a capacity
\* apart are different.
LEMMA Places ==
  /\ Capacity \in Nat \ {0}
  /\ \A n \in Nat : At(n) \in 0 .. Capacity - 1
  /\ \A n, d \in Nat : At(At(n) + d) = At(n + d)
  /\ \A n \in 0 .. Capacity - 1 : At(n) = n /\ At(n + Capacity) = n
  /\ \A p, q \in Nat : p < q /\ q - p < Capacity => At(p) # At(q)
<1>1. Capacity \in Nat \ {0}
  BY PlaybackAssumption
<1>2. \A n \in Nat : At(n) \in 0 .. Capacity - 1
  BY <1>1, RemainderRange DEF At
<1>3. \A n, d \in Nat : At(At(n) + d) = At(n + d)
  BY <1>1, NextRemainder DEF At
<1>4. ASSUME NEW n \in 0 .. Capacity - 1
      PROVE  At(n) = n /\ At(n + Capacity) = n
  <2>1. n = Capacity * 0 + n /\ n + Capacity = Capacity * 1 + n /\ n + Capacity \in Nat
    BY <1>1
  <2> QED
    BY <1>1, <2>1, RemainderUnique DEF At
<1>5. \A p, q \in Nat : p < q /\ q - p < Capacity => At(p) # At(q)
  <2> SUFFICES ASSUME NEW p \in Nat, NEW q \in Nat, p < q, q - p < Capacity, At(p) = At(q)
               PROVE  FALSE
    OBVIOUS
  <2>1. p - q < Capacity /\ p # q
    BY <1>1
  <2> QED
    BY <1>1, <2>1, SameRemainder DEF At
<1> QED
  BY <1>1, <1>2, <1>3, <1>4, <1>5

\* What a buffer is made of.
LEMMA BufferParts ==
  ASSUME NEW b
  PROVE  BufferOk(b) <=>
           \E cells \in [0 .. Capacity - 1 -> Sounds], r \in 0 .. Capacity - 1, c \in 0 .. Capacity :
             b = Buf(cells, r, At(r + c), c)
<1>1. ASSUME BufferOk(b)
      PROVE  \E cells \in [0 .. Capacity - 1 -> Sounds], r \in 0 .. Capacity - 1, c \in 0 .. Capacity :
               b = Buf(cells, r, At(r + c), c)
  BY <1>1 DEF BufferOk, Buffers
<1>2. ASSUME NEW cells \in [0 .. Capacity - 1 -> Sounds], NEW r \in 0 .. Capacity - 1,
             NEW c \in 0 .. Capacity, b = Buf(cells, r, At(r + c), c)
      PROVE  BufferOk(b)
  <2>1. PICK f : f = <<cells, r, c>>
    OBVIOUS
  <2>2. f[1] = cells /\ f[2] = r /\ f[3] = c
        /\ f \in [0 .. Capacity - 1 -> Sounds] \X (0 .. Capacity - 1) \X (0 .. Capacity)
    BY <2>1
  <2> QED
    BY <1>2, <2>2 DEF BufferOk, Buffers
<1> QED
  BY <1>1, <1>2

\* A sample is put behind those held, and the oldest is forgotten if there is no
\* room (ResidualVoicePlaybackBuffer.cs:73-94).
LEMMA AddedContent ==
  ASSUME NEW b, BufferOk(b), NEW x \in Sounds
  PROVE  LET a == Playback!Added(b, x)
         IN  /\ BufferOk(a) /\ b.count \in 0 .. Capacity
             /\ a.count = (IF b.count < Capacity THEN b.count + 1 ELSE Capacity)
             /\ Content(a, a.count) = x
             /\ \A j \in 1 .. a.count - 1 : Content(a, j) = Content(b, j + ((b.count + 1) - a.count))
<1>1. PICK cells \in [0 .. Capacity - 1 -> Sounds], r \in 0 .. Capacity - 1, c \in 0 .. Capacity :
        b = Buf(cells, r, At(r + c), c)
  BY BufferParts
<1>2. Capacity \in Nat \ {0} /\ r \in Nat /\ c \in Nat
  BY Places
<1>3. PICK w : w = At(r + c)
  OBVIOUS
<1>4. w \in 0 .. Capacity - 1 /\ At(w + 1) = At(r + (c + 1))
  <2>1. r + c \in Nat /\ (r + c) + 1 = r + (c + 1)
    BY <1>2
  <2> QED
    BY <1>3, <2>1, Places
<1>5. PICK new : new = [cells EXCEPT ![w] = x]
  OBVIOUS
<1>6. /\ new \in [0 .. Capacity - 1 -> Sounds] /\ new[w] = x
      /\ \A p \in 0 .. Capacity - 1 : p # w => new[p] = cells[p]
  BY <1>4, <1>5
<1>7. b.count = c /\ b.read = r /\ b.buffer = cells /\ b.write = w
  BY <1>1, <1>3 DEF Buf
<1>8. b = Buf(cells, r, w, c)
  BY <1>1, <1>3
<1>9. PICK v : v = At(w + 1)
  OBVIOUS
<1>10. CASE c < Capacity
  <2>1. PICK a : a = Buf(new, r, v, c + 1)
    OBVIOUS
  <2>2. Playback!Added(b, x) = a
    <3>1. Playback!WithRoom(b) = b
      BY <1>7, <1>10 DEF Playback!WithRoom
    <3>2. PICK y : y = Playback!Added(b, x)
      OBVIOUS
    <3>3. y = [b EXCEPT !.buffer = new, !.write = v, !.count = c + 1]
      BY <1>5, <1>7, <1>9, <3>1, <3>2 DEF Playback!Added, Playback!After, At
    <3> QED
      BY <1>8, <2>1, <3>2, <3>3 DEF Buf
  <2>3. a.count = c + 1 /\ a.read = r /\ a.buffer = new
    BY <2>1 DEF Buf
  <2>4. BufferOk(a)
    <3>1. c + 1 \in 0 .. Capacity /\ v = At(r + (c + 1))
      BY <1>2, <1>4, <1>9, <1>10
    <3> QED
      BY <1>6, <2>1, <3>1, BufferParts
  <2>5. Content(a, c + 1) = x
    <3>1. (c + 1) - 1 = c
      BY <1>2
    <3> QED
      BY <1>3, <1>6, <2>3, <3>1 DEF Content
  <2>6. ASSUME NEW j \in 1 .. c
        PROVE  Content(a, j) = Content(b, j)
    <3>1. j - 1 \in Nat /\ j - 1 < c /\ c - (j - 1) < Capacity /\ r + (j - 1) \in Nat
      BY <1>2, <1>10
    <3>2. r + (j - 1) < r + c /\ (r + c) - (r + (j - 1)) < Capacity /\ r + c \in Nat
      BY <1>2, <3>1
    <3>3. At(r + (j - 1)) # w /\ At(r + (j - 1)) \in 0 .. Capacity - 1
      BY <1>3, <3>1, <3>2, Places
    <3> QED
      BY <1>6, <1>7, <2>3, <3>3 DEF Content
  <2>7. \A j \in 1 .. c : j + ((c + 1) - (c + 1)) = j
    BY <1>2
  <2>8. (c + 1) - 1 = c
    BY <1>2
  <2>9. \A j \in 1 .. a.count - 1 : Content(a, j) = Content(b, j + ((b.count + 1) - a.count))
    BY <1>7, <2>3, <2>6, <2>7, <2>8
  <2> QED
    BY <1>7, <1>10, <2>2, <2>3, <2>4, <2>5, <2>9
<1>11. CASE c = Capacity
  <2>1. PICK s : s = At(r + 1)
    OBVIOUS
  <2>2. PICK a : a = Buf(new, s, v, c)
    OBVIOUS
  <2>3. Playback!Added(b, x) = a
    <3>1. PICK room : room = Buf(cells, s, w, c - 1)
      OBVIOUS
    <3>2. Playback!WithRoom(b) = room
      <4>1. Playback!WithRoom(b) = [b EXCEPT !.read = s, !.count = c - 1]
        BY <1>2, <1>7, <1>11, <2>1 DEF Playback!WithRoom, Playback!After, At
      <4> QED
        BY <1>8, <3>1, <4>1 DEF Buf
    <3>3. room.write = w /\ room.buffer = cells /\ room.count = c - 1
      BY <3>1 DEF Buf
    <3>4. (c - 1) + 1 = c
      BY <1>2
    <3>5. PICK y : y = Playback!Added(b, x)
      OBVIOUS
    <3>6. y = [room EXCEPT !.buffer = new, !.write = v, !.count = c]
      BY <1>5, <1>9, <3>2, <3>3, <3>4, <3>5 DEF Playback!Added, Playback!After, At
    <3> QED
      BY <2>2, <3>1, <3>5, <3>6 DEF Buf
  <2>4. a.count = c /\ a.read = s /\ a.buffer = new
    BY <2>2 DEF Buf
  <2>5. s \in 0 .. Capacity - 1 /\ w = r
    BY <1>2, <1>3, <1>11, <2>1, Places
  <2>6. \A j \in Nat : At(s + j) = At(r + (j + 1))
    <3>1. \A j \in Nat : (r + 1) + j = r + (j + 1)
      BY <1>2
    <3> QED
      BY <1>2, <2>1, <3>1, Places
  <2>7. BufferOk(a)
    <3>1. v = At(s + c)
      BY <1>2, <1>4, <1>9, <2>6
    <3> QED
      BY <1>6, <2>2, <2>5, <3>1, BufferParts
  <2>8. Content(a, c) = x
    <3>1. c - 1 \in Nat /\ (c - 1) + 1 = c
      BY <1>2, <1>11
    <3>2. At(s + (c - 1)) = w
      BY <1>3, <2>6, <3>1
    <3> QED
      BY <1>6, <2>4, <3>2 DEF Content
  <2>9. ASSUME NEW j \in 1 .. c - 1
        PROVE  Content(a, j) = Content(b, j + 1)
    <3>1. j - 1 \in Nat /\ (j - 1) + 1 = j /\ (j + 1) - 1 = j /\ j \in Nat /\ j < Capacity
      BY <1>2, <1>11
    <3>2. At(s + (j - 1)) = At(r + j)
      BY <2>6, <3>1
    <3>3. At(r + j) # w /\ At(r + j) \in 0 .. Capacity - 1
      <4>1. /\ r + j \in Nat /\ r + c \in Nat
            /\ r + j < r + c /\ (r + c) - (r + j) < Capacity
        BY <1>2, <1>11, <3>1
      <4> QED
        BY <1>3, <4>1, Places
    <3> QED
      BY <1>6, <1>7, <2>4, <3>1, <3>2, <3>3 DEF Content
  <2>10. \A j \in 1 .. c - 1 : j + ((c + 1) - c) = j + 1
    BY <1>2
  <2>11. \A j \in 1 .. a.count - 1 : Content(a, j) = Content(b, j + ((b.count + 1) - a.count))
    BY <1>7, <2>4, <2>9, <2>10
  <2> QED
    BY <1>2, <1>7, <1>11, <2>3, <2>4, <2>7, <2>8, <2>11
<1> QED
  BY <1>2, <1>10, <1>11

\* The samples held, as a sequence, and what reading finds.
LEMMA HeldContent ==
  ASSUME NEW b, BufferOk(b)
  PROVE  /\ b.count \in 0 .. Capacity
         /\ Playback!Held(b) \in Seq(Sounds) /\ Len(Playback!Held(b)) = b.count
         /\ \A j \in 1 .. b.count : /\ Playback!Held(b)[j] = Content(b, j)
                                    /\ Content(b, j) \in Sounds
<1>1. PICK cells \in [0 .. Capacity - 1 -> Sounds], r \in 0 .. Capacity - 1, c \in 0 .. Capacity :
        b = Buf(cells, r, At(r + c), c)
  BY BufferParts
<1>2. b.count = c /\ b.read = r /\ b.buffer = cells /\ c \in Nat
  BY <1>1, Places DEF Buf
<1>3. \A j \in 1 .. c : At(r + (j - 1)) \in 0 .. Capacity - 1
  <2>1. \A j \in 1 .. c : r + (j - 1) \in Nat
    BY <1>2, Places
  <2> QED
    BY <2>1, Places
<1>4. \A j \in 1 .. c : Content(b, j) \in Sounds
  BY <1>2, <1>3 DEF Content
<1>5. Playback!Held(b) = [j \in 1 .. c |-> Content(b, j)]
  <2>1. 1 .. (IF b.count < b.count THEN b.count ELSE b.count) = 1 .. c
    BY <1>2
  <2> QED
    BY <2>1, Zenon DEF Playback!Held, Playback!Found, Content, At
<1>6. PICK h : h = [j \in 1 .. c |-> Content(b, j)]
  OBVIOUS
<1>7. h \in [1 .. c -> Sounds] /\ \A j \in 1 .. c : h[j] = Content(b, j)
  BY <1>4, <1>6
<1>8. h \in Seq(Sounds) /\ Len(h) = c
  BY <1>2, <1>7
<1> QED
  BY <1>2, <1>4, <1>5, <1>6, <1>7, <1>8

\* The course of an Enqueue: each turn of its loop adds one sample.
LEMMA EnqueueRuns ==
  ASSUME NEW b, BufferOk(b), NEW s \in Seq(Sounds)
  PROVE  \E g : /\ g[0] = b /\ Playback!Enqueued(b, s) = g[Len(s)]
                /\ \A k \in 0 .. Len(s) : BufferOk(g[k])
                /\ \A k \in 1 .. Len(s) : g[k] = Playback!Added(g[k - 1], s[k])
<1>1. PICK n \in Nat : n = Len(s)
  BY LenProperties
<1>2. \A k \in 1 .. n : s[k] \in Sounds
  BY <1>1, ElementOfSeq
<1>3. \A b1 \in Buffers, x \in Sounds : Playback!Added(b1, x) \in Buffers
  BY AddedContent DEF BufferOk
<1>4. PICK step : step = [p \in (1 .. n) \X Buffers |-> Playback!Added(p[2], s[p[1]])]
  OBVIOUS
<1>5. step \in Turns(n, Buffers)
  <2>1. \A p \in (1 .. n) \X Buffers : p[2] \in Buffers /\ s[p[1]] \in Sounds
    BY <1>2
  <2>2. \A p \in (1 .. n) \X Buffers : Playback!Added(p[2], s[p[1]]) \in Buffers
    BY <1>3, <2>1
  <2> QED
    BY <1>4, <2>2 DEF Turns
<1>6. \A k \in 1 .. n, a \in Buffers : step[<<k, a>>] = Playback!Added(a, s[k])
  BY <1>4
<1>7. b \in Buffers
  BY DEF BufferOk
<1>8. PICK g \in [0 .. n -> Buffers] : Course(g, n, b, step)
  BY <1>5, <1>7, LoopRuns, Zenon
<1>9. g[0] = b /\ \A k \in 1 .. n : g[k] = step[<<k, g[k - 1]>>]
  BY <1>8 DEF Course
<1>10. \A k \in 1 .. n : g[k] = Playback!Added(g[k - 1], s[k])
  <2>1. \A k \in 1 .. n : k - 1 \in 0 .. n
    OBVIOUS
  <2> QED
    BY <1>6, <1>9, <2>1
<1> DEFINE Loop(f) == f = [k \in 0 .. n |-> IF k = 0 THEN b ELSE Playback!Added(f[k - 1], s[k])]
           h == CHOOSE f : Loop(f)
<1>11. Loop(g)
  <2>1. \A k \in 0 .. n : g[k] = IF k = 0 THEN b ELSE Playback!Added(g[k - 1], s[k])
    BY <1>9, <1>10
  <2> QED
    BY <1>9, <2>1
<1>12. Loop(h)
  BY <1>11
<1>13. Playback!Enqueued(b, s) = h[n]
  BY <1>1 DEF Playback!Enqueued
<1> HIDE DEF h
<1>14. h[0] = b /\ \A k \in 1 .. n : h[k] = Playback!Added(h[k - 1], s[k])
  BY <1>12
<1>15. \A k \in 0 .. n : h[k] \in Buffers
  <2> DEFINE S == {k \in 0 .. n : h[k] \in Buffers}
  <2>1. 0 \in S
    BY <1>7, <1>14
  <2>2. ASSUME NEW k \in 1 .. n, k - 1 \in S
        PROVE  k \in S
    <3>1. k \in 0 .. n /\ h[k - 1] \in Buffers /\ s[k] \in Sounds
      BY <1>1, <1>2, <2>2
    <3>2. h[k] = Playback!Added(h[k - 1], s[k])
      BY <1>14
    <3>3. h[k] \in Buffers
      BY <1>3, <3>1, <3>2
    <3> QED
      BY <3>1, <3>3
  <2> HIDE DEF S
  <2>3. \A k \in 0 .. n : k \in S
    BY <2>1, <2>2, UpTo
  <2> QED
    BY <2>3 DEF S
<1> QED
  BY <1>1, <1>13, <1>14, <1>15 DEF BufferOk

\* b holds the newest of the first m samples of w.
HoldsNewest(b, w, m) ==
  /\ BufferOk(b)
  /\ b.count = (IF m < Capacity THEN m ELSE Capacity)
  /\ \A j \in 1 .. b.count : Content(b, j) = w[(m - b.count) + j]

\* With one sample more it holds the newest of one more.
LEMMA AddedNewest ==
  ASSUME NEW b, NEW w, NEW m \in Nat, HoldsNewest(b, w, m), w[m + 1] \in Sounds
  PROVE  HoldsNewest(Playback!Added(b, w[m + 1]), w, m + 1)
<1>1. PICK x \in Sounds : x = w[m + 1]
  OBVIOUS
<1>2. PICK a : a = Playback!Added(b, x)
  OBVIOUS
<1>3. PICK c : c = b.count
  OBVIOUS
<1>4. PICK d : d = a.count
  OBVIOUS
<1>5. /\ BufferOk(a) /\ c \in 0 .. Capacity
      /\ d = (IF c < Capacity THEN c + 1 ELSE Capacity)
      /\ Content(a, d) = x
      /\ \A j \in 1 .. d - 1 : Content(a, j) = Content(b, j + ((c + 1) - d))
  BY <1>2, <1>3, <1>4, AddedContent DEF HoldsNewest
<1>6. /\ c = (IF m < Capacity THEN m ELSE Capacity)
      /\ \A j \in 1 .. c : Content(b, j) = w[(m - c) + j]
  BY <1>3 DEF HoldsNewest
<1>7. Capacity \in Nat \ {0}
  BY Places
<1>8. d = (IF m + 1 < Capacity THEN m + 1 ELSE Capacity)
  BY <1>5, <1>6, <1>7
<1>9. ASSUME NEW j \in 1 .. d
      PROVE  Content(a, j) = w[((m + 1) - d) + j]
  <2>1. CASE j = d
    <3>1. ((m + 1) - d) + j = m + 1
      BY <1>5, <1>7, <2>1
    <3> QED
      BY <1>1, <1>5, <2>1, <3>1
  <2>2. CASE j # d
    <3>1. j \in 1 .. d - 1 /\ j + ((c + 1) - d) \in 1 .. c
      BY <1>5, <1>7, <2>2
    <3>2. (m - c) + (j + ((c + 1) - d)) = ((m + 1) - d) + j
      BY <1>5, <1>7
    <3> QED
      BY <1>5, <1>6, <3>1, <3>2
  <2> QED
    BY <2>1, <2>2
<1> QED
  BY <1>1, <1>2, <1>4, <1>5, <1>8, <1>9 DEF HoldsNewest

\* What a buffer holds after an Enqueue is the newest of what it held and what was
\* put into it, as many as fit.
LEMMA EnqueuedQueue ==
  ASSUME NEW b, BufferOk(b), NEW s \in Seq(Sounds)
  PROVE  /\ BufferOk(Playback!Enqueued(b, s))
         /\ Playback!Held(Playback!Enqueued(b, s)) = Queue!Newest(Playback!Held(b) \o s, Capacity)
<1>1. PICK g : /\ g[0] = b /\ Playback!Enqueued(b, s) = g[Len(s)]
               /\ \A k \in 0 .. Len(s) : BufferOk(g[k])
               /\ \A k \in 1 .. Len(s) : g[k] = Playback!Added(g[k - 1], s[k])
  BY EnqueueRuns
<1>2. PICK n \in Nat : n = Len(s)
  BY LenProperties
<1>3. PICK h : h = Playback!Held(b)
  OBVIOUS
<1>4. PICK c : c = b.count
  OBVIOUS
<1>5. /\ c \in 0 .. Capacity /\ h \in Seq(Sounds) /\ Len(h) = c /\ Capacity \in Nat \ {0}
      /\ \A j \in 1 .. c : h[j] = Content(b, j)
  BY <1>3, <1>4, HeldContent, Places
<1>6. PICK w : w = h \o s
  OBVIOUS
<1>7. /\ w \in Seq(Sounds) /\ Len(w) = c + n
      /\ \A i \in 1 .. c + n : w[i] = IF i <= c THEN h[i] ELSE s[i - c]
  BY <1>2, <1>5, <1>6, ConcatProperties
<1>8. \A k \in 0 .. n : HoldsNewest(g[k], w, c + k)
  <2> DEFINE S == {k \in 0 .. n : HoldsNewest(g[k], w, c + k)}
  <2>1. 0 \in S
    <3>1. c = (IF c + 0 < Capacity THEN c + 0 ELSE Capacity)
      BY <1>5
    <3>2. ASSUME NEW j \in 1 .. c
          PROVE  Content(b, j) = w[((c + 0) - c) + j]
      <4>1. ((c + 0) - c) + j = j /\ j \in 1 .. c + n /\ j <= c
        BY <1>5
      <4> QED
        BY <1>5, <1>7, <4>1
    <3> QED
      BY <1>1, <1>4, <3>1, <3>2 DEF HoldsNewest
  <2>2. ASSUME NEW k \in 1 .. n, k - 1 \in S
        PROVE  k \in S
    <3>1. PICK m \in Nat : m = c + (k - 1)
      BY <1>5
    <3>2. HoldsNewest(g[k - 1], w, m)
      BY <2>2, <3>1
    <3>3. m + 1 = c + k /\ m + 1 \in 1 .. c + n /\ ~(m + 1 <= c) /\ (m + 1) - c = k
      BY <1>5, <3>1
    <3>4. w[m + 1] = s[k] /\ w[m + 1] \in Sounds
      BY <1>7, <3>3, ElementOfSeq
    <3>5. g[k] = Playback!Added(g[k - 1], w[m + 1])
      BY <1>1, <1>2, <3>4
    <3>6. HoldsNewest(Playback!Added(g[k - 1], w[m + 1]), w, m + 1)
      BY <3>2, <3>4, AddedNewest
    <3> QED
      BY <3>3, <3>5, <3>6
  <2> HIDE DEF S
  <2>3. \A k \in 0 .. n : k \in S
    BY <2>1, <2>2, UpTo
  <2> QED
    BY <2>3 DEF S
<1>9. PICK a : a = Playback!Enqueued(b, s)
  OBVIOUS
<1>10. HoldsNewest(a, w, c + n)
  BY <1>1, <1>2, <1>8, <1>9
<1>11. PICK e : e = a.count
  OBVIOUS
<1>12. PICK t : t = Playback!Held(a)
  OBVIOUS
<1>13. /\ e = (IF c + n < Capacity THEN c + n ELSE Capacity)
       /\ t \in Seq(Sounds) /\ Len(t) = e
       /\ \A j \in 1 .. e : t[j] = w[((c + n) - e) + j]
  BY <1>10, <1>11, <1>12, HeldContent DEF HoldsNewest
<1>14. t = Queue!Newest(w, Capacity)
  <2>1. CASE c + n <= Capacity
    <3>1. e = c + n
      BY <1>5, <1>13, <2>1
    <3>2. \A j \in 1 .. e : ((c + n) - e) + j = j
      BY <1>5, <3>1
    <3>3. t = w
      BY <1>7, <1>13, <3>1, <3>2, SeqEqual
    <3> QED
      BY <1>7, <2>1, <3>3 DEF Queue!Newest
  <2>2. CASE ~(c + n <= Capacity)
    <3>1. e = Capacity
      BY <1>5, <1>13, <2>2
    <3>2. PICK p \in Nat : p = ((c + n) - e) + 1
      BY <1>5, <2>2, <3>1
    <3>3. PICK r \in Nat : r = c + n
      BY <1>5
    <3>4. p \in 1 .. r /\ (r - p) + 1 = e
      BY <1>5, <2>2, <3>1, <3>2, <3>3
    <3>5. \A i \in p .. r : w[i] \in Sounds
      BY <1>7, <3>3, <3>4, ElementOfSeq
    <3>6. PICK u : u = SubSeq(w, p, r)
      OBVIOUS
    <3>7. /\ u \in Seq(Sounds) /\ Len(u) = e
          /\ \A i \in 1 .. e : u[i] = w[(p + i) - 1]
      BY <3>4, <3>5, <3>6, SubSeqProperties
    <3>8. \A i \in 1 .. e : (p + i) - 1 = ((c + n) - e) + i
      BY <1>5, <3>1, <3>2
    <3>9. t = u
      BY <1>13, <3>7, <3>8, SeqEqual
    <3>10. p = (Len(w) - Capacity) + 1 /\ r = Len(w)
      BY <1>7, <3>1, <3>2, <3>3
    <3> QED
      BY <1>7, <2>2, <3>6, <3>9, <3>10 DEF Queue!Newest
  <2> QED
    BY <2>1, <2>2
<1> QED
  BY <1>3, <1>6, <1>9, <1>10, <1>12, <1>14 DEF HoldsNewest

\* What a read leaves is all but the samples it found.
LEMMA LeftQueue ==
  ASSUME NEW b, BufferOk(b), NEW n \in Nat
  PROVE  /\ BufferOk(Playback!Left(b, n))
         /\ Playback!Held(Playback!Left(b, n)) =
              SubSeq(Playback!Held(b), (IF n < b.count THEN n ELSE b.count) + 1, Len(Playback!Held(b)))
<1>1. PICK cells \in [0 .. Capacity - 1 -> Sounds], r \in 0 .. Capacity - 1, c \in 0 .. Capacity :
        b = Buf(cells, r, At(r + c), c)
  BY BufferParts
<1>2. Capacity \in Nat \ {0} /\ r \in Nat /\ c \in Nat
  BY Places
<1>3. PICK w : w = At(r + c)
  OBVIOUS
<1>4. b.count = c /\ b.read = r /\ b.buffer = cells /\ b = Buf(cells, r, w, c)
  BY <1>1, <1>3 DEF Buf
<1>5. PICK f \in 0 .. c : f = (IF n < c THEN n ELSE c)
  BY <1>2
<1>6. Len(Playback!Found(b, n)) = f
  <2>1. Playback!Found(b, n) = [k \in 1 .. f |-> b.buffer[(b.read + k - 1) % Capacity]]
    BY <1>4, <1>5 DEF Playback!Found
  <2> QED
    BY <1>2, <1>5, <2>1
<1>7. PICK s : s = At(r + f)
  OBVIOUS
<1>8. PICK a : a = Buf(cells, s, w, c - f)
  OBVIOUS
<1>9. Playback!Left(b, n) = a
  <2>1. b = Buf(cells, r, w, c)
    BY <1>4
  <2>2. Playback!Left(b, n) = [b EXCEPT !.read = s, !.count = c - f]
    BY <1>4, <1>6, <1>7 DEF Playback!Left, At
  <2> QED
    BY <1>8, <2>1, <2>2 DEF Buf
<1>10. a.count = c - f /\ a.read = s /\ a.buffer = cells
  BY <1>8 DEF Buf
<1>11. \A d \in Nat : At(s + d) = At(r + (f + d))
  <2>1. r + f \in Nat /\ \A d \in Nat : (r + f) + d = r + (f + d)
    BY <1>2, <1>5
  <2> QED
    BY <1>7, <2>1, Places
<1>12. BufferOk(a)
  <2>1. s \in 0 .. Capacity - 1 /\ c - f \in 0 .. Capacity /\ c - f \in Nat /\ f + (c - f) = c
    <3>1. r + f \in Nat
      BY <1>2, <1>5
    <3>2. s \in 0 .. Capacity - 1
      BY <1>7, <3>1, Places
    <3> QED
      BY <1>2, <1>5, <3>2
  <2>2. w = At(s + (c - f))
    BY <1>3, <1>11, <2>1
  <2> QED
    BY <1>8, <2>1, <2>2, BufferParts
<1>13. ASSUME NEW j \in 1 .. c - f
       PROVE  Content(a, j) = Content(b, f + j)
  <2>1. j - 1 \in Nat /\ f + (j - 1) = (f + j) - 1
    BY <1>2, <1>5
  <2> QED
    BY <1>4, <1>10, <1>11, <2>1 DEF Content
<1>14. PICK h : h = Playback!Held(b)
  OBVIOUS
<1>15. PICK t : t = Playback!Held(a)
  OBVIOUS
<1>16. h \in Seq(Sounds) /\ Len(h) = c /\ \A j \in 1 .. c : h[j] = Content(b, j)
  BY <1>4, <1>14, HeldContent
<1>17. t \in Seq(Sounds) /\ Len(t) = c - f /\ \A j \in 1 .. c - f : t[j] = Content(a, j)
  BY <1>10, <1>12, <1>15, HeldContent
<1>18. PICK u : u = SubSeq(h, f + 1, c)
  OBVIOUS
<1>19. /\ u \in Seq(Sounds) /\ Len(u) = c - f
       /\ \A j \in 1 .. c - f : u[j] = h[f + j]
  <2>1. f + 1 \in Int /\ c \in Int /\ \A i \in f + 1 .. c : h[i] \in Sounds
    BY <1>2, <1>5, <1>16, ElementOfSeq
  <2>2. /\ u \in Seq(Sounds) /\ Len(u) = IF f + 1 <= c THEN (c - (f + 1)) + 1 ELSE 0
        /\ \A j \in 1 .. (c - (f + 1)) + 1 : u[j] = h[((f + 1) + j) - 1]
    BY <1>18, <2>1, SubSeqProperties
  <2>3. (c - (f + 1)) + 1 = c - f /\ \A j \in 1 .. c - f : ((f + 1) + j) - 1 = f + j
    BY <1>2, <1>5
  <2>4. Len(u) = c - f
    BY <1>2, <1>5, <2>2
  <2> QED
    BY <2>2, <2>3, <2>4
<1>20. t = u
  <2>1. \A j \in 1 .. c - f : f + j \in 1 .. c
    BY <1>2, <1>5
  <2>2. \A j \in 1 .. c - f : t[j] = u[j]
    BY <1>13, <1>16, <1>17, <1>19, <2>1
  <2> QED
    BY <1>17, <1>19, <2>2, SeqEqual
<1> QED
  BY <1>4, <1>5, <1>9, <1>12, <1>14, <1>15, <1>16, <1>18, <1>20

--------------------------------------------------------------------------------
(* What the parts of a client are made of.                                    *)

SeqNos == 0 .. SeqMod - 1
Identity == {Session!NoOne, Id}

JoinPackets == {Session!JoinPacket(Id)}
VoicePackets == [type : {"voice"}, player : {0, 1}, seq : SeqNos, flags : Frames]
Packets == JoinPackets \cup VoicePackets
Sessions == [connected : BOOLEAN, who : Identity, outq : Seq(Packets), seq : SeqNos]

\* A slot that is valid holds a frame.
JitterSlot == {x \in [seq : SeqNos, valid : BOOLEAN, payload : Frames \cup {<<>>}] :
                 x.valid => x.payload \in Frames}
Jitters == [packets : [Jitter!Slots -> JitterSlot], nextPlay : SeqNos, started : BOOLEAN]

\* What AccumulateAndSubmitFrames works on.
Feeds == {x \in [frame : Seq(Sounds), ring : Seq(Frames), sent : Seq(Sounds), threw : BOOLEAN] :
            Len(x.frame) <= FrameSamples}

TypeOK ==
  /\ client \in Sessions /\ ring \in Seq(Frames)
  /\ game \in {"free", "pump", "queue", "enqueue"}
  /\ captured \in 0 .. MaxCaptured /\ base \in 0 .. captured
  /\ lastRead \in Int /\ position \in Int /\ todo \in Seq(Int \X Int)
  /\ frame \in Seq(Sounds) /\ Len(frame) <= FrameSamples /\ sent \in Seq(Sounds)
  /\ running \in BOOLEAN /\ immediate \in BOOLEAN /\ pending \in Seq(Packets)
  /\ jitter \in Jitters
  /\ pcm \in Frames \cup {<<>>}
  /\ buffer = NoBuffer \/ BufferOk(buffer)
  /\ game \in {"queue", "enqueue"} => pcm \in Frames
  /\ game = "enqueue" => BufferOk(buffer)

--------------------------------------------------------------------------------
(* The operators keep to these sets.                                          *)

\* A packet of voice carries a frame, and any other is a JOIN.
LEMMA PacketParts ==
  /\ Session!JoinPacket(Id) \in Packets
  /\ \A who \in {0, 1}, seq \in SeqNos, f \in Frames :
       [type |-> "voice", player |-> who, seq |-> seq, flags |-> f] \in Packets
  /\ \A p \in Packets : p.type = "join" \/ (p.seq \in SeqNos /\ p.flags \in Frames)
<1>1. Session!JoinPacket(Id) \in Packets
  BY DEF Packets, JoinPackets
<1>2. ASSUME NEW who \in {0, 1}, NEW seq \in SeqNos, NEW f \in Frames
      PROVE  [type |-> "voice", player |-> who, seq |-> seq, flags |-> f] \in Packets
  BY DEF Packets, VoicePackets
<1>3. ASSUME NEW p \in Packets
      PROVE  p.type = "join" \/ (p.seq \in SeqNos /\ p.flags \in Frames)
  <2>1. CASE p \in JoinPackets
    BY <2>1 DEF JoinPackets, Session!JoinPacket
  <2>2. CASE p \in VoicePackets
    BY <2>2 DEF VoicePackets
  <2> QED
    BY <2>1, <2>2 DEF Packets
<1> QED
  BY <1>1, <1>2, <1>3

\* The engine's session, as the game thread drives it.
LEMMA SessionSteps ==
  ASSUME NEW x \in Sessions
  PROVE  /\ Session!Connected(x, Id) \in Sessions
         /\ Session!Disconnected(x) \in Sessions
         /\ [x EXCEPT !.outq = <<>>] \in Sessions
         /\ \A f \in Frames : Session!Spoken(x, f) \in Sessions
<1>1. /\ x.connected \in BOOLEAN /\ x.who \in Identity /\ x.outq \in Seq(Packets)
      /\ x.seq \in SeqNos
      /\ x = [connected |-> x.connected, who |-> x.who, outq |-> x.outq, seq |-> x.seq]
  BY DEF Sessions
<1>2. Id \in Identity /\ <<>> \in Seq(Packets)
  BY DEF Identity
<1>3. \A p \in Packets : Append(x.outq, p) \in Seq(Packets)
  BY <1>1, AppendProperties
<1>4. Session!Connected(x, Id) \in Sessions
  <2>1. Append(x.outq, Session!JoinPacket(Id)) \in Seq(Packets)
    BY <1>3, PacketParts
  <2> QED
    BY <1>1, <1>2, <2>1 DEF Session!Connected, Session!Queued, Sessions
<1>5. Session!Disconnected(x) \in Sessions
  BY <1>1 DEF Session!Disconnected, Sessions
<1>6. [x EXCEPT !.outq = <<>>] \in Sessions
  BY <1>1, <1>2 DEF Sessions
<1>7. ASSUME NEW f \in Frames
      PROVE  Session!Spoken(x, f) \in Sessions
  <2>1. x.who[2] \in {0, 1}
    BY <1>1 DEF Identity, Session!NoOne, Id
  <2>2. Append(x.outq, Session!VoicePacket(x, f)) \in Seq(Packets)
    <3>1. Session!VoicePacket(x, f) \in Packets
      BY <1>1, <2>1, PacketParts DEF Session!VoicePacket
    <3> QED
      BY <1>3, <3>1
  <2>3. (x.seq + 1) % SeqMod \in SeqNos
    <3>1. \A n \in SeqNos : (n + 1) % SeqMod \in SeqNos
      BY RemainderRange, PlaybackAssumption DEF SeqNos
    <3> QED
      BY <1>1, <3>1
  <2> QED
    BY <1>1, <2>2, <2>3 DEF Session!Spoken, Session!Queued, Sessions
<1> QED
  BY <1>4, <1>5, <1>6, <1>7

\* The jitter buffer takes packets, and gives frames.
LEMMA JitterSteps ==
  ASSUME NEW j \in Jitters
  PROVE  /\ \A p \in Packets : Ingested(j, p) \in Jitters
         /\ Popped(j) \in Jitters
         /\ Frame(j) \in Frames \cup {<<>>}
<1>1. /\ j.packets \in [Jitter!Slots -> JitterSlot] /\ j.nextPlay \in SeqNos
      /\ j.started \in BOOLEAN
      /\ j = [packets |-> j.packets, nextPlay |-> j.nextPlay, started |-> j.started]
  BY DEF Jitters
<1>2. \A n \in SeqNos : Jitter!SlotForSeq(n) \in Jitter!Slots /\ Jitter!NextSeq(n) \in SeqNos
  BY RemainderRange, PlaybackAssumption DEF SeqNos, Jitter!SlotForSeq, Jitter!Slots, Jitter!NextSeq
<1>3. ASSUME NEW p \in Packets
      PROVE  Ingested(j, p) \in Jitters
  <2>1. CASE p.type = "join"
    BY <2>1 DEF Ingested
  <2>2. CASE p.type # "join"
    <3>1. p.seq \in SeqNos /\ p.flags \in Frames
      BY <2>2, PacketParts
    <3>2. PICK k : k = Jitter!SlotForSeq(p.seq)
      OBVIOUS
    <3>3. PICK x : x = [seq |-> p.seq, valid |-> TRUE, payload |-> p.flags]
      OBVIOUS
    <3>4. x \in JitterSlot
      BY <3>1, <3>3 DEF JitterSlot
    <3>5. PICK y : y = [j.packets EXCEPT ![k] = x]
      OBVIOUS
    <3>6. y \in [Jitter!Slots -> JitterSlot]
      BY <1>1, <3>4, <3>5
    <3>7. Jitter!Stored(j.packets, p.seq, p.flags) = y
      BY <3>2, <3>3, <3>5 DEF Jitter!Stored
    <3>8. PICK next : next = IF j.started THEN j.nextPlay ELSE p.seq
      OBVIOUS
    <3>9. next \in SeqNos
      BY <1>1, <3>1, <3>8
    <3>10. Ingested(j, p) = [packets |-> y, nextPlay |-> next, started |-> TRUE]
      BY <2>2, <3>7, <3>8 DEF Ingested
    <3> QED
      BY <3>6, <3>9, <3>10 DEF Jitters
  <2> QED
    BY <2>1, <2>2
<1>4. PICK k : k = Jitter!SlotForSeq(j.nextPlay)
  OBVIOUS
<1>5. PICK x : x = j.packets[k]
  OBVIOUS
<1>6. /\ k \in Jitter!Slots /\ x \in JitterSlot
      /\ x = [seq |-> x.seq, valid |-> x.valid, payload |-> x.payload]
  BY <1>1, <1>2, <1>4, <1>5 DEF JitterSlot
<1>7. Popped(j) \in Jitters
  <2>1. PICK y : y = [j.packets EXCEPT ![k].valid = FALSE]
    OBVIOUS
  <2>2. y \in [Jitter!Slots -> JitterSlot]
    <3>1. PICK z : z = [x EXCEPT !.valid = FALSE]
      OBVIOUS
    <3>2. z \in JitterSlot
      BY <1>6, <3>1 DEF JitterSlot
    <3>3. y = [j.packets EXCEPT ![k] = z]
      BY <1>5, <2>1, <3>1
    <3> QED
      BY <1>1, <3>2, <3>3
  <2>3. Jitter!Taken(j.packets, j.nextPlay) = y
    BY <1>4, <2>1 DEF Jitter!Taken
  <2>4. Jitter!NextSeq(j.nextPlay) \in SeqNos
    BY <1>1, <1>2
  <2>5. PICK next \in SeqNos : next = Jitter!NextSeq(j.nextPlay)
    BY <2>4
  <2>6. \/ Popped(j) = j
        \/ Popped(j) = [j EXCEPT !.packets = y, !.nextPlay = next]
        \/ Popped(j) = [j EXCEPT !.packets = j.packets, !.nextPlay = next]
    BY <2>3, <2>5 DEF Popped
  <2>7. [j EXCEPT !.packets = y, !.nextPlay = next] \in Jitters
    BY <1>1, <2>2 DEF Jitters
  <2>8. [j EXCEPT !.packets = j.packets, !.nextPlay = next] \in Jitters
    BY <1>1 DEF Jitters
  <2> QED
    BY <2>6, <2>7, <2>8
<1>8. Frame(j) \in Frames \cup {<<>>}
  <2>1. Concealment \in Frames
    BY MicAssumption DEF Concealment, Frames, Sounds, Silence
  <2>2. CASE Playable(j)
    <3>1. x.valid /\ x.payload \in Frames
      BY <1>4, <1>5, <1>6, <2>2 DEF Playable, Jitter!Holds, JitterSlot
    <3>2. Frame(j) = x.payload
      BY <1>4, <1>5, <2>2, Zenon DEF Frame, Concealable
    <3> QED
      BY <3>1, <3>2
  <2>3. CASE ~Playable(j)
    BY <2>1, <2>3 DEF Frame
  <2> QED
    BY <2>2, <2>3
<1> QED
  BY <1>3, <1>7, <1>8

\* The course of a Tick of the loopback transport: each turn of its loop hands over
\* one packet.
LEMMA IngestRuns ==
  ASSUME NEW j \in Jitters, NEW s \in Seq(Packets)
  PROVE  /\ IngestedAll(j, s) \in Jitters
         /\ \E g : /\ g[0] = j /\ IngestedAll(j, s) = g[Len(s)]
                   /\ \A k \in 0 .. Len(s) : g[k] \in Jitters
                   /\ \A k \in 1 .. Len(s) : g[k] = Ingested(g[k - 1], s[k])
<1>1. PICK n \in Nat : n = Len(s)
  BY LenProperties
<1>2. \A k \in 1 .. n : s[k] \in Packets
  BY <1>1, ElementOfSeq
<1>3. \A x \in Jitters, e \in Packets : Ingested(x, e) \in Jitters
  BY JitterSteps
<1>4. PICK b \in Jitters : b = j
  OBVIOUS
<1>5. PICK turn : turn = [p \in (1 .. n) \X Jitters |-> Ingested(p[2], s[p[1]])]
  OBVIOUS
<1>6. turn \in Turns(n, Jitters)
  <2>1. \A p \in (1 .. n) \X Jitters : p[2] \in Jitters /\ s[p[1]] \in Packets
    BY <1>2
  <2>2. \A p \in (1 .. n) \X Jitters : Ingested(p[2], s[p[1]]) \in Jitters
    BY <1>3, <2>1
  <2> QED
    BY <1>5, <2>2 DEF Turns
<1>7. PICK g \in [0 .. n -> Jitters] : Course(g, n, b, turn)
  BY <1>6, LoopRuns, Zenon
<1>8. g[0] = b /\ \A k \in 1 .. n : g[k] = turn[<<k, g[k - 1]>>]
  BY <1>7 DEF Course
<1>9. \A k \in 1 .. n : g[k] = Ingested(g[k - 1], s[k])
  <2>1. \A k \in 1 .. n, x \in Jitters : turn[<<k, x>>] = Ingested(x, s[k])
    BY <1>5
  <2>2. \A k \in 1 .. n : g[k - 1] \in Jitters
    BY <1>7
  <2> QED
    BY <1>8, <2>1, <2>2
<1> DEFINE Loop(f) == f = [k \in 0 .. n |-> IF k = 0 THEN b ELSE Ingested(f[k - 1], s[k])]
           h == CHOOSE f : Loop(f)
<1>10. Loop(g)
  <2>1. \A k \in 0 .. n : g[k] = IF k = 0 THEN b ELSE Ingested(g[k - 1], s[k])
    BY <1>8, <1>9
  <2> QED
    BY <1>7, <2>1
<1>11. Loop(h)
  BY <1>10
<1>12. IngestedAll(j, s) = h[n]
  BY <1>1, <1>4 DEF IngestedAll
<1> HIDE DEF h
<1>13. h[0] = b /\ \A k \in 1 .. n : h[k] = Ingested(h[k - 1], s[k])
  BY <1>11
<1> DEFINE S == {k \in 0 .. n : h[k] \in Jitters}
<1>14. 0 \in S
  BY <1>4, <1>13
<1>15. ASSUME NEW k \in 1 .. n, k - 1 \in S
       PROVE  k \in S
  <2>1. k \in 0 .. n /\ h[k - 1] \in Jitters /\ s[k] \in Packets
    BY <1>2, <1>15
  <2>2. h[k] = Ingested(h[k - 1], s[k])
    BY <1>13
  <2>3. h[k] \in Jitters
    BY <1>3, <2>1, <2>2
  <2> QED
    BY <2>1, <2>3
<1> HIDE DEF S
<1>16. \A k \in 0 .. n : k \in S
  BY <1>14, <1>15, UpTo
<1> QED
  BY <1>1, <1>4, <1>12, <1>13, <1>16 DEF S

\* The loopback transport's queue takes a packet, and may lose its oldest.
LEMMA SentType ==
  ASSUME NEW q \in Seq(Packets), NEW p \in Packets
  PROVE  Sent(q, p) \in Seq(Packets)
<1>1. CASE Len(q) < MaxQueuedPackets
  BY <1>1, AppendProperties DEF Sent
<1>2. CASE ~(Len(q) < MaxQueuedPackets)
  <2>1. q # <<>>
    BY <1>2, PlaybackAssumption, EmptySeq
  <2>2. Tail(q) \in Seq(Packets)
    BY <2>1, HeadTailProperties
  <2> QED
    BY <1>2, <2>2, AppendProperties DEF Sent
<1> QED
  BY <1>1, <1>2

\* The course of DrainOutgoingPackets: each turn of its loop sends one packet.
LEMMA SentRuns ==
  ASSUME NEW s \in Seq(Packets)
  PROVE  /\ SentAll(s) \in Seq(Packets)
         /\ \E g : /\ g[0] = <<>> /\ SentAll(s) = g[Len(s)]
                   /\ \A k \in 0 .. Len(s) : g[k] \in Seq(Packets)
                   /\ \A k \in 1 .. Len(s) : g[k] = Sent(g[k - 1], s[k])
<1>1. PICK n \in Nat : n = Len(s)
  BY LenProperties
<1>2. \A k \in 1 .. n : s[k] \in Packets
  BY <1>1, ElementOfSeq
<1>3. \A x \in Seq(Packets), e \in Packets : Sent(x, e) \in Seq(Packets)
  BY SentType
<1>4. PICK b \in Seq(Packets) : b = <<>>
  BY EmptySeq
<1>5. PICK turn : turn = [p \in (1 .. n) \X Seq(Packets) |-> Sent(p[2], s[p[1]])]
  OBVIOUS
<1>6. turn \in Turns(n, Seq(Packets))
  <2>1. \A p \in (1 .. n) \X Seq(Packets) : p[2] \in Seq(Packets) /\ s[p[1]] \in Packets
    BY <1>2
  <2>2. \A p \in (1 .. n) \X Seq(Packets) : Sent(p[2], s[p[1]]) \in Seq(Packets)
    BY <1>3, <2>1
  <2> QED
    BY <1>5, <2>2 DEF Turns
<1>7. PICK g \in [0 .. n -> Seq(Packets)] : Course(g, n, b, turn)
  BY <1>6, LoopRuns, Zenon
<1>8. g[0] = b /\ \A k \in 1 .. n : g[k] = turn[<<k, g[k - 1]>>]
  BY <1>7 DEF Course
<1>9. \A k \in 1 .. n : g[k] = Sent(g[k - 1], s[k])
  <2>1. \A k \in 1 .. n, x \in Seq(Packets) : turn[<<k, x>>] = Sent(x, s[k])
    BY <1>5
  <2>2. \A k \in 1 .. n : g[k - 1] \in Seq(Packets)
    BY <1>7
  <2> QED
    BY <1>8, <2>1, <2>2
<1> DEFINE Loop(f) == f = [k \in 0 .. n |-> IF k = 0 THEN b ELSE Sent(f[k - 1], s[k])]
           h == CHOOSE f : Loop(f)
<1>10. Loop(g)
  <2>1. \A k \in 0 .. n : g[k] = IF k = 0 THEN b ELSE Sent(g[k - 1], s[k])
    BY <1>8, <1>9
  <2> QED
    BY <1>7, <2>1
<1>11. Loop(h)
  BY <1>10
<1>12. SentAll(s) = h[n]
  BY <1>1, <1>4 DEF SentAll
<1> HIDE DEF h
<1>13. h[0] = b /\ \A k \in 1 .. n : h[k] = Sent(h[k - 1], s[k])
  BY <1>11
<1> DEFINE S == {k \in 0 .. n : h[k] \in Seq(Packets)}
<1>14. 0 \in S
  <2>1. h[0] \in Seq(Packets)
    BY <1>4, <1>13, Zenon
  <2> QED
    BY <1>1, <2>1
<1>15. ASSUME NEW k \in 1 .. n, k - 1 \in S
       PROVE  k \in S
  <2>1. k \in 0 .. n /\ h[k - 1] \in Seq(Packets) /\ s[k] \in Packets
    BY <1>2, <1>15
  <2>2. h[k] = Sent(h[k - 1], s[k])
    BY <1>13
  <2>3. h[k] \in Seq(Packets)
    BY <1>3, <2>1, <2>2
  <2> QED
    BY <2>1, <2>3
<1> HIDE DEF S
<1>16. \A k \in 0 .. n : k \in S
  BY <1>14, <1>15, UpTo
<1> QED
  BY <1>1, <1>4, <1>12, <1>13, <1>16 DEF S

\* The course of rv_voice_tick's drain loop: each turn encodes one frame.
LEMMA DrainRuns ==
  ASSUME NEW x0 \in Sessions, NEW s \in Seq(Frames)
  PROVE  /\ Drained(x0, s) \in Sessions
         /\ \E g : /\ g[0] = x0 /\ Drained(x0, s) = g[Len(s)]
                   /\ \A k \in 0 .. Len(s) : g[k] \in Sessions
                   /\ \A k \in 1 .. Len(s) : g[k] = Session!Spoken(g[k - 1], s[k])
<1>1. PICK n \in Nat : n = Len(s)
  BY LenProperties
<1>2. \A k \in 1 .. n : s[k] \in Frames
  BY <1>1, ElementOfSeq
<1>3. \A x \in Sessions, e \in Frames : Session!Spoken(x, e) \in Sessions
  BY SessionSteps
<1>4. PICK b \in Sessions : b = x0
  OBVIOUS
<1>5. PICK turn : turn = [p \in (1 .. n) \X Sessions |-> Session!Spoken(p[2], s[p[1]])]
  OBVIOUS
<1>6. turn \in Turns(n, Sessions)
  <2>1. \A p \in (1 .. n) \X Sessions : p[2] \in Sessions /\ s[p[1]] \in Frames
    BY <1>2
  <2>2. \A p \in (1 .. n) \X Sessions : Session!Spoken(p[2], s[p[1]]) \in Sessions
    BY <1>3, <2>1
  <2> QED
    BY <1>5, <2>2 DEF Turns
<1>7. PICK g \in [0 .. n -> Sessions] : Course(g, n, b, turn)
  BY <1>6, LoopRuns, Zenon
<1>8. g[0] = b /\ \A k \in 1 .. n : g[k] = turn[<<k, g[k - 1]>>]
  BY <1>7 DEF Course
<1>9. \A k \in 1 .. n : g[k] = Session!Spoken(g[k - 1], s[k])
  <2>1. \A k \in 1 .. n, x \in Sessions : turn[<<k, x>>] = Session!Spoken(x, s[k])
    BY <1>5
  <2>2. \A k \in 1 .. n : g[k - 1] \in Sessions
    BY <1>7
  <2> QED
    BY <1>8, <2>1, <2>2
<1> DEFINE Loop(f) == f = [k \in 0 .. n |-> IF k = 0 THEN b ELSE Session!Spoken(f[k - 1], s[k])]
           h == CHOOSE f : Loop(f)
<1>10. Loop(g)
  <2>1. \A k \in 0 .. n : g[k] = IF k = 0 THEN b ELSE Session!Spoken(g[k - 1], s[k])
    BY <1>8, <1>9
  <2> QED
    BY <1>7, <2>1
<1>11. Loop(h)
  BY <1>10
<1>12. Drained(x0, s) = h[n]
  BY <1>1, <1>4 DEF Drained
<1> HIDE DEF h
<1>13. h[0] = b /\ \A k \in 1 .. n : h[k] = Session!Spoken(h[k - 1], s[k])
  BY <1>11
<1> DEFINE S == {k \in 0 .. n : h[k] \in Sessions}
<1>14. 0 \in S
  BY <1>4, <1>13
<1>15. ASSUME NEW k \in 1 .. n, k - 1 \in S
       PROVE  k \in S
  <2>1. k \in 0 .. n /\ h[k - 1] \in Sessions /\ s[k] \in Frames
    BY <1>2, <1>15
  <2>2. h[k] = Session!Spoken(h[k - 1], s[k])
    BY <1>13
  <2>3. h[k] \in Sessions
    BY <1>3, <2>1, <2>2
  <2> QED
    BY <2>1, <2>3
<1> HIDE DEF S
<1>16. \A k \in 0 .. n : k \in S
  BY <1>14, <1>15, UpTo
<1> QED
  BY <1>1, <1>4, <1>12, <1>13, <1>16 DEF S

\* SubmitFrame empties a full frame, or throws.
LEMMA SubmittedType ==
  ASSUME NEW y \in Feeds, Full(y)
  PROVE  Submitted(y) \in Feeds /\ (~Submitted(y).threw => Submitted(y).frame = <<>>)
<1>1. FrameSamples \in Nat \ {0}
  BY MicAssumption
<1>2. /\ y.frame \in Seq(Sounds) /\ y.ring \in Seq(Frames) /\ y.sent \in Seq(Sounds)
      /\ y.threw \in BOOLEAN /\ Len(y.frame) = FrameSamples
      /\ y = [frame |-> y.frame, ring |-> y.ring, sent |-> y.sent, threw |-> y.threw]
  BY DEF Feeds, Full
<1>3. y.frame \in Frames
  BY <1>2, LenProperties DEF Frames
<1>4. PICK r : r = IF Len(y.ring) < RingCap THEN Append(y.ring, y.frame) ELSE y.ring
  OBVIOUS
<1>5. r \in Seq(Frames)
  BY <1>2, <1>3, <1>4, AppendProperties
<1>6. PICK s : s = y.sent \o y.frame
  OBVIOUS
<1>7. s \in Seq(Sounds)
  BY <1>2, <1>6, ConcatProperties
<1>8. CASE client.connected
  <2>1. Submitted(y) = [y EXCEPT !.frame = <<>>, !.sent = s, !.ring = r]
    BY <1>4, <1>6, <1>8 DEF Submitted
  <2>2. <<>> \in Seq(Sounds) /\ Len(<<>>) <= FrameSamples
    BY <1>1, EmptySeq
  <2> QED
    BY <1>2, <1>5, <1>7, <2>1, <2>2 DEF Feeds
<1>9. CASE ~client.connected
  <2>1. PICK t : t = TRUE
    OBVIOUS
  <2>2. Submitted(y) = [y EXCEPT !.threw = t]
    BY <1>9, <2>1 DEF Submitted
  <2>3. t \in BOOLEAN
    BY <2>1
  <2>4. [y EXCEPT !.threw = t] \in Feeds
    BY <1>1, <1>2, <2>3 DEF Feeds
  <2>5. [y EXCEPT !.threw = t].threw = t
    BY <1>2
  <2> QED
    BY <2>1, <2>2, <2>4, <2>5
<1> QED
  BY <1>8, <1>9

\* So there is room in the frame, or it has thrown.
LEMMA RoomType ==
  ASSUME NEW x \in Feeds, NEW room, room = IF Full(x) THEN Submitted(x) ELSE x
  PROVE  room \in Feeds /\ (~room.threw => Len(room.frame) < FrameSamples)
<1>1. FrameSamples \in Nat \ {0}
  BY MicAssumption
<1>2. CASE Full(x)
  BY <1>1, <1>2, SubmittedType, EmptySeq
<1>3. CASE ~Full(x)
  <2>1. x.frame \in Seq(Sounds) /\ Len(x.frame) <= FrameSamples
    BY DEF Feeds
  <2>2. Len(x.frame) \in Nat /\ Len(x.frame) # FrameSamples
    BY <1>3, <2>1, LenProperties DEF Full
  <2> QED
    BY <1>1, <1>3, <2>1, <2>2
<1> QED
  BY <1>2, <1>3

\* A sample goes where there is room.
LEMMA AppendedType ==
  ASSUME NEW x \in Feeds, Len(x.frame) < FrameSamples, NEW e \in Sounds
  PROVE  [x EXCEPT !.frame = Append(@, e)] \in Feeds
<1>1. /\ x.frame \in Seq(Sounds) /\ x.ring \in Seq(Frames)
      /\ x.sent \in Seq(Sounds) /\ x.threw \in BOOLEAN
      /\ x = [frame |-> x.frame, ring |-> x.ring, sent |-> x.sent, threw |-> x.threw]
  BY DEF Feeds
<1>2. PICK a : a = Append(x.frame, e)
  OBVIOUS
<1>3. a \in Seq(Sounds) /\ Len(a) = Len(x.frame) + 1 /\ Len(x.frame) \in Nat
  BY <1>1, <1>2, AppendProperties, LenProperties
<1>4. Len(a) <= FrameSamples
  BY <1>3, MicAssumption
<1>5. [x EXCEPT !.frame = Append(@, e)] = [x EXCEPT !.frame = a]
  BY <1>2
<1> QED
  BY <1>1, <1>3, <1>4, <1>5 DEF Feeds

\* What AccumulateAndSubmitFrames makes of a sample.
LEMMA FedType ==
  ASSUME NEW x \in Feeds, NEW e \in Sounds
  PROVE  Fed(x, e) \in Feeds
<1>1. PICK room : room = IF Full(x) THEN Submitted(x) ELSE x
  OBVIOUS
<1>2. room \in Feeds /\ (~room.threw => Len(room.frame) < FrameSamples)
  BY <1>1, RoomType
<1>3. PICK more : more = [room EXCEPT !.frame = Append(@, e)]
  OBVIOUS
<1>4. ~room.threw => more \in Feeds
  BY <1>2, <1>3, AppendedType
<1>5. Fed(x, e) = IF room.threw THEN room ELSE IF Full(more) THEN Submitted(more) ELSE more
  BY <1>1, <1>3, Zenon DEF Fed
<1> QED
  BY <1>2, <1>4, <1>5, SubmittedType

\* The course of AccumulateAndSubmitFrames: each turn of its loop takes one sample.
LEMMA AccumulateRuns ==
  ASSUME TypeOK, NEW s \in Seq(Sounds)
  PROVE  \E g : /\ g[0] = [frame |-> frame, ring |-> ring, sent |-> sent, threw |-> FALSE]
                /\ Accumulated(s) = g[Len(s)]
                /\ \A k \in 0 .. Len(s) : g[k] \in Feeds
                /\ \A k \in 1 .. Len(s) : g[k] = Fed(g[k - 1], s[k])
<1>1. PICK n \in Nat : n = Len(s)
  BY LenProperties
<1>2. \A k \in 1 .. n : s[k] \in Sounds
  BY <1>1, ElementOfSeq
<1>3. \A x \in Feeds, e \in Sounds : Fed(x, e) \in Feeds
  BY FedType
<1>4. PICK b \in Feeds : b = [frame |-> frame, ring |-> ring, sent |-> sent, threw |-> FALSE]
  BY DEF TypeOK, Feeds
<1>5. PICK turn : turn = [p \in (1 .. n) \X Feeds |-> Fed(p[2], s[p[1]])]
  OBVIOUS
<1>6. turn \in Turns(n, Feeds)
  <2>1. \A p \in (1 .. n) \X Feeds : p[2] \in Feeds /\ s[p[1]] \in Sounds
    BY <1>2
  <2>2. \A p \in (1 .. n) \X Feeds : Fed(p[2], s[p[1]]) \in Feeds
    BY <1>3, <2>1
  <2> QED
    BY <1>5, <2>2 DEF Turns
<1>7. PICK g \in [0 .. n -> Feeds] : Course(g, n, b, turn)
  BY <1>6, LoopRuns, Zenon
<1>8. g[0] = b /\ \A k \in 1 .. n : g[k] = turn[<<k, g[k - 1]>>]
  BY <1>7 DEF Course
<1>9. \A k \in 1 .. n : g[k] = Fed(g[k - 1], s[k])
  <2>1. \A k \in 1 .. n, x \in Feeds : turn[<<k, x>>] = Fed(x, s[k])
    BY <1>5
  <2>2. \A k \in 1 .. n : g[k - 1] \in Feeds
    BY <1>7
  <2> QED
    BY <1>8, <2>1, <2>2
<1> DEFINE Loop(f) == f = [k \in 0 .. n |-> IF k = 0 THEN b ELSE Fed(f[k - 1], s[k])]
           h == CHOOSE f : Loop(f)
<1>10. Loop(g)
  <2>1. \A k \in 0 .. n : g[k] = IF k = 0 THEN b ELSE Fed(g[k - 1], s[k])
    BY <1>8, <1>9
  <2> QED
    BY <1>7, <2>1
<1>11. Loop(h)
  BY <1>10
<1>12. Accumulated(s) = h[n]
  BY <1>1, <1>4 DEF Accumulated
<1> HIDE DEF h
<1>13. h[0] = b /\ \A k \in 1 .. n : h[k] = Fed(h[k - 1], s[k])
  BY <1>11
<1> DEFINE S == {k \in 0 .. n : h[k] \in Feeds}
<1>14. 0 \in S
  BY <1>4, <1>13
<1>15. ASSUME NEW k \in 1 .. n, k - 1 \in S
       PROVE  k \in S
  <2>1. k \in 0 .. n /\ h[k - 1] \in Feeds /\ s[k] \in Sounds
    BY <1>2, <1>15
  <2>2. h[k] = Fed(h[k - 1], s[k])
    BY <1>13
  <2>3. h[k] \in Feeds
    BY <1>3, <2>1, <2>2
  <2> QED
    BY <2>1, <2>3
<1> HIDE DEF S
<1>16. \A k \in 0 .. n : k \in S
  BY <1>14, <1>15, UpTo
<1> QED
  BY <1>1, <1>4, <1>12, <1>13, <1>16 DEF S

--------------------------------------------------------------------------------
(* What the microphone reads.                                                 *)

\* Among some numbers up to n one is the greatest.
LEMMA Greatest ==
  ASSUME NEW n \in Nat, NEW W \in SUBSET (0 .. n), W # {}
  PROVE  \E k \in W : \A m \in W : m <= k
<1> DEFINE D == {n - m : m \in W}
<1>1. D \subseteq Nat /\ D # {}
  <2>1. \A m \in W : m \in 0 .. n
    OBVIOUS
  <2>2. \A m \in W : n - m \in Nat
    BY <2>1
  <2> QED
    BY <2>2
<1> HIDE DEF D
<1>2. PICK d \in D : \A j \in D : <<j, d>> \notin OpToRel(<, Nat)
  BY <1>1, WFMin, NatLessThanWellFounded, Zenon
<1>3. d \in Nat /\ \A j \in D : j \in Nat /\ ~(j < d)
  BY <1>1, <1>2, Zenon DEF OpToRel
<1>4. PICK k \in W : d = n - k
  BY <1>2 DEF D
<1>5. ASSUME NEW m \in W
      PROVE  m <= k
  <2>1. n - m \in D /\ m \in Nat /\ k \in Nat
    BY DEF D
  <2> QED
    BY <1>3, <1>4, <2>1
<1> QED
  BY <1>5

\* Whatever part of the clip is read, it holds samples that were captured, and
\* silence where nothing was written.
LEMMA SamplesType ==
  ASSUME TypeOK, NEW chunk \in Int \X Int
  PROVE  Samples(chunk) \in Seq(Sounds)
<1>1. MaxCaptured \in Nat /\ captured \in 0 .. MaxCaptured /\ base \in 0 .. captured
  BY MicAssumption DEF TypeOK
<1>2. ASSUME NEW p
      PROVE  SampleAt(p) \in Sounds
  <2>1. WrittenAt(p) \subseteq 0 .. MaxCaptured
    BY <1>1 DEF WrittenAt
  <2>2. CASE WrittenAt(p) = {}
    BY <1>1, <2>2 DEF SampleAt, Silence, Sounds
  <2>3. CASE WrittenAt(p) # {}
    <3>1. \E n \in WrittenAt(p) : \A m \in WrittenAt(p) : m <= n
      BY <1>1, <2>1, <2>3, Greatest
    <3>2. SampleAt(p) \in WrittenAt(p)
      BY <2>3, <3>1 DEF SampleAt
    <3> QED
      BY <2>1, <3>2 DEF Sounds
  <2> QED
    BY <2>2, <2>3
<1>3. PICK n \in Nat : 1 .. n = 1 .. chunk[2]
  <2>1. chunk[2] \in Int
    OBVIOUS
  <2>2. CASE chunk[2] >= 0
    BY <2>1, <2>2
  <2>3. CASE chunk[2] < 0
    <3>1. 1 .. 0 = 1 .. chunk[2]
      BY <2>1, <2>3
    <3> QED
      BY <3>1
  <2> QED
    BY <2>1, <2>2, <2>3
<1>4. Samples(chunk) \in [1 .. n -> Sounds]
  BY <1>2, <1>3, Zenon DEF Samples
<1> QED
  BY <1>4

\* A segment is read in chunks of so many samples from such a place.
LEMMA ChunksType ==
  ASSUME NEW start \in Int, NEW count \in Int
  PROVE  Chunks(start, count) \in Seq(Int \X Int)
<1>1. ChunkSamples \in Nat \ {0}
  BY MicAssumption
<1>2. PICK d \in Int : d = (count + ChunkSamples - 1) \div ChunkSamples
  BY <1>1
<1>3. PICK n \in Nat : 1 .. n = 1 .. d
  <2>1. CASE d >= 0
    BY <2>1
  <2>2. CASE d < 0
    <3>1. 1 .. 0 = 1 .. d
      BY <2>2
    <3> QED
      BY <3>1
  <2> QED
    BY <2>1, <2>2
<1>4. ASSUME NEW k \in 1 .. d
      PROVE  LET done == (k - 1) * ChunkSamples
             IN  <<start + done, IF count - done < ChunkSamples THEN count - done
                                                               ELSE ChunkSamples>> \in Int \X Int
  <2>1. PICK done \in Int : done = (k - 1) * ChunkSamples
    BY <1>1
  <2>2. start + done \in Int /\ count - done \in Int
    OBVIOUS
  <2> QED
    BY <1>1, <2>1, <2>2
<1>5. Chunks(start, count) \in [1 .. n -> Int \X Int]
  BY <1>2, <1>3, <1>4, Zenon DEF Chunks
<1> QED
  BY <1>5

\* And so is all that PumpMicrophone sets out to read, in one segment or two.
LEMMA SegmentsType ==
  ASSUME NEW from \in Int, NEW to \in Int
  PROVE  Segments(from, to) \in Seq(Int \X Int)
<1>1. CASE to > from
  BY <1>1, ChunksType DEF Segments
<1>2. CASE ~(to > from)
  <2>1. ClipSamples - from \in Int
    BY MicAssumption
  <2>2. Chunks(from, ClipSamples - from) \in Seq(Int \X Int) /\ Chunks(0, to) \in Seq(Int \X Int)
    BY <2>1, ChunksType
  <2> QED
    BY <1>2, <2>2, ConcatProperties DEF Segments
<1> QED
  BY <1>1, <1>2

--------------------------------------------------------------------------------
(* Type correctness.                                                          *)

\* A session that has done nothing.
LEMMA FreshSession ==
  Session!Fresh \in Sessions /\ Session!Fresh.seq = 0 /\ Session!Fresh.outq = <<>>
<1>1. 0 \in SeqNos /\ Session!NoOne \in Identity /\ <<>> \in Seq(Packets)
  BY PlaybackAssumption DEF SeqNos, Identity
<1>2. Session!Fresh \in Sessions
  BY <1>1 DEF Session!Fresh, Sessions
<1>3. Session!Fresh.seq = 0 /\ Session!Fresh.outq = <<>>
  BY DEF Session!Fresh
<1> QED
  BY <1>2, <1>3

\* The rig starts with every variable of its type.
LEMMA TypeInit == Init => TypeOK
<1> SUFFICES ASSUME Init PROVE TypeOK
  OBVIOUS
<1> USE MicAssumption, PlaybackAssumption
<1>1. /\ client \in Sessions
  <2>1. Session!Fresh \in Sessions
    BY FreshSession
  <2>2. Session!Connected(Session!Fresh, Id) \in Sessions
    BY <2>1, SessionSteps
  <2> QED
    BY <2>1, <2>2 DEF Init
<1>2. jitter \in Jitters
  <2>1. 0 \in SeqNos
    BY DEF SeqNos
  <2>2. PICK f : f = FALSE
    OBVIOUS
  <2>3. PICK x : x = [seq |-> 0, valid |-> f, payload |-> <<>>]
    OBVIOUS
  <2>4. x \in JitterSlot
    BY <2>1, <2>2, <2>3 DEF JitterSlot
  <2>5. Jitter!Empty(<<>>) = [s \in Jitter!Slots |-> x]
    BY <2>2, <2>3 DEF Jitter!Empty
  <2>6. PICK y : y = Jitter!Empty(<<>>)
    OBVIOUS
  <2>7. y \in [Jitter!Slots -> JitterSlot]
    BY <2>4, <2>5, <2>6
  <2>8. jitter = [packets |-> y, nextPlay |-> 0, started |-> f]
    BY <2>2, <2>6 DEF Init
  <2> QED
    BY <2>1, <2>2, <2>7, <2>8 DEF Jitters
<1>3. running \in BOOLEAN /\ immediate \in BOOLEAN
  BY <1>1 DEF Init, Sessions
<1>4. /\ game = "free" /\ ring = <<>> /\ captured = 0 /\ base = 0 /\ lastRead = 0 /\ frame = <<>>
      /\ todo = <<>> /\ position = 0 /\ sent = <<>> /\ pending = <<>> /\ pcm = <<>>
      /\ buffer = NoBuffer
  BY DEF Init, MicInit
<1>5. Len(frame) <= FrameSamples /\ captured \in 0 .. MaxCaptured /\ base \in 0 .. captured
  BY <1>4
<1> QED
  BY <1>1, <1>2, <1>3, <1>4, <1>5 DEF TypeOK

\* The buffer that FindBuffer makes holds nothing.
LEMMA NewBuffer == BufferOk(Playback!New(Silence)) /\ Playback!Held(Playback!New(Silence)) = <<>>
<1>1. PICK cells : cells = [k \in 0 .. Capacity - 1 |-> Silence]
  OBVIOUS
<1>2. cells \in [0 .. Capacity - 1 -> Sounds]
  BY <1>1, MicAssumption DEF Silence, Sounds
<1>3. PICK z : z = 0
  OBVIOUS
<1>4. z \in 0 .. Capacity - 1 /\ z \in 0 .. Capacity /\ z + z = z
  BY <1>3, Places
<1>5. At(z + z) = z
  BY <1>4, Places
<1>6. Playback!New(Silence) = Buf(cells, z, z, z)
  BY <1>1, <1>3 DEF Playback!New, Buf
<1>7. BufferOk(Playback!New(Silence))
  BY <1>2, <1>4, <1>5, <1>6, BufferParts
<1>8. Playback!New(Silence).count = 0
  BY <1>3, <1>6 DEF Buf
<1>9. PICK h \in Seq(Sounds) : h = Playback!Held(Playback!New(Silence))
  BY <1>7, HeldContent
<1>10. Len(h) = 0
  BY <1>7, <1>8, <1>9, HeldContent
<1> QED
  BY <1>7, <1>9, <1>10, EmptySeq

\* A frame is a sequence of samples.
LEMMA FramesAreSeqs == Frames \subseteq Seq(Sounds)
BY MicAssumption DEF Frames

\* Connecting, disconnecting and clearing.
LEMMA TypeRig ==
  ASSUME TypeOK, Connect \/ Disconnect \/ Clear
  PROVE  TypeOK'
<1>1. CASE Connect
  <2>1. client' \in Sessions
    BY <1>1, SessionSteps DEF Connect, TypeOK
  <2>2. running' \in BOOLEAN
    BY <1>1 DEF Connect, TypeOK
  <2> QED
    BY <1>1, <2>1, <2>2 DEF Connect, RigCall, TypeOK, micVars, micHistory, playVars
<1>2. CASE Disconnect
  <2>1. client' \in Sessions
    BY <1>2, SessionSteps DEF Disconnect, TypeOK
  <2> QED
    BY <1>2, <2>1, EmptySeq DEF Disconnect, RigCall, TypeOK, micVars, micHistory, playVars
<1>3. CASE Clear
  BY <1>3 DEF Clear, RigCall, TypeOK, micVars, micHistory, linkVars
<1> QED
  BY <1>1, <1>2, <1>3

\* The microphone, its thread and Update.
LEMMA TypeMic ==
  ASSUME TypeOK, MicCall \/ MicRuns \/ Pump
  PROVE  TypeOK'
<1> DEFINE Others == UNCHANGED <<linkVars, jitter, pcm, playVars>>
<1>1. ASSUME StartCapture \/ StopCapture \/ Capture, Others
      PROVE  TypeOK'
  <2> USE DEF linkVars, playVars
  <2>1. MaxCaptured \in Nat /\ FrameSamples \in Nat
    BY MicAssumption
  <2>2. CASE StartCapture
    BY <1>1, <2>1, <2>2, EmptySeq DEF StartCapture, TypeOK
  <2>3. CASE StopCapture
    BY <1>1, <2>1, <2>3, EmptySeq DEF StopCapture, TypeOK
  <2>4. CASE Capture
    BY <1>1, <2>1, <2>4 DEF Capture, TypeOK
  <2> QED
    BY <1>1, <2>2, <2>3, <2>4
<1>2. ASSUME PumpStart, Others
      PROVE  TypeOK'
  <2>1. Position \in Int
    <3>1. \A c \in Nat : \A b \in 0 .. c : (c - b) % ClipSamples \in Int
      BY MicAssumption, RemainderRange
    <3>2. captured \in Nat
      BY MicAssumption DEF TypeOK
    <3> QED
      BY <3>1, <3>2 DEF Position, TypeOK
  <2>2. todo' \in Seq(Int \X Int)
    BY <1>2, <2>1, SegmentsType DEF PumpStart, TypeOK
  <2> QED
    BY <1>2, <2>1, <2>2 DEF PumpStart, TypeOK, linkVars, playVars
<1>3. ASSUME PumpChunk, Others
      PROVE  TypeOK'
  <2>1. Head(todo) \in Int \X Int /\ Tail(todo) \in Seq(Int \X Int)
    BY <1>3, HeadTailProperties DEF PumpChunk, TypeOK
  <2>2. PICK x : x = Accumulated(Samples(Head(todo)))
    OBVIOUS
  <2>3. x \in Feeds
    <3>1. Samples(Head(todo)) \in Seq(Sounds)
      BY <2>1, SamplesType
    <3>2. Len(Samples(Head(todo))) \in 0 .. Len(Samples(Head(todo)))
      BY <3>1, LenProperties
    <3> QED
      BY <2>2, <3>1, <3>2, AccumulateRuns
  <2>4. frame' = x.frame /\ ring' = x.ring /\ sent' = x.sent
        /\ (\/ game' = "free" /\ todo' = <<>>
            \/ game' = "pump" /\ todo' = Tail(todo))
    BY <1>3, <2>2 DEF PumpChunk
  <2>5. /\ frame' \in Seq(Sounds) /\ Len(frame') <= FrameSamples
        /\ ring' \in Seq(Frames) /\ sent' \in Seq(Sounds)
    BY <2>3, <2>4 DEF Feeds
  <2>6. todo' \in Seq(Int \X Int) /\ game' \in {"free", "pump"}
    BY <2>1, <2>4, EmptySeq
  <2> QED
    BY <1>3, <2>5, <2>6 DEF PumpChunk, TypeOK, linkVars, playVars
<1>4. ASSUME PumpChunkFails, Others
      PROVE  TypeOK'
  <2>1. todo' \in Seq(Int \X Int)
    <3>1. PICK t \in Seq(Int \X Int) : t = todo
      BY DEF TypeOK
    <3> DEFINE next == {k \in 2 .. Len(t) : t[k][1] = 0}
    <3>2. todo' = IF next = {} THEN <<>> ELSE SubSeq(t, CHOOSE k \in next : TRUE, Len(t))
      BY <1>4, <3>1 DEF PumpChunkFails
    <3>3. PICK k : k = CHOOSE m \in next : TRUE
      OBVIOUS
    <3>4. next # {} => k \in 2 .. Len(t)
      BY <3>3
    <3> HIDE DEF next
    <3>5. ASSUME next # {}
          PROVE  SubSeq(t, k, Len(t)) \in Seq(Int \X Int)
      <4>1. Len(t) \in Nat /\ k \in Int /\ \A i \in k .. Len(t) : t[i] \in Int \X Int
        BY <3>4, <3>5, ElementOfSeq, LenProperties
      <4> QED
        BY <4>1, SubSeqProperties
    <3> QED
      BY <3>2, <3>3, <3>5, EmptySeq
  <2> QED
    BY <1>4, <2>1 DEF PumpChunkFails, TypeOK, linkVars, playVars
<1>5. ASSUME PumpEnd, Others
      PROVE  TypeOK'
  BY <1>5 DEF PumpEnd, TypeOK, linkVars, playVars
<1> HIDE DEF Others
<1>6. Others /\ (StartCapture \/ StopCapture \/ Capture \/ PumpStart \/ PumpChunk
                 \/ PumpChunkFails \/ PumpEnd)
  BY Zenon DEF MicCall, MicRuns, Pump, Others
<1> QED
  BY <1>1, <1>2, <1>3, <1>4, <1>5, <1>6

\* LateUpdate.
LEMMA TypeTick ==
  ASSUME TypeOK, LateUpdate
  PROVE  TypeOK'
<1>1. PICK in : in = IngestedAll(jitter, pending)
  OBVIOUS
<1>2. PICK queued : queued = Drained(client, ring)
  OBVIOUS
<1>3. PICK out : out = IF running THEN queued.outq ELSE <<>>
  OBVIOUS
<1>4. PICK ticked : ticked = Popped(in)
  OBVIOUS
<1>5. PICK f : f = Frame(in)
  OBVIOUS
<1>6. in \in Jitters /\ queued \in Sessions
  BY <1>1, <1>2, IngestRuns, DrainRuns DEF TypeOK
<1>7. ticked \in Jitters /\ f \in Frames \cup {<<>>}
  BY <1>4, <1>5, <1>6, JitterSteps
<1>8. out \in Seq(Packets)
  BY <1>3, <1>6, EmptySeq DEF Sessions
<1>9. /\ client' = [queued EXCEPT !.outq = <<>>]
      /\ ring' = <<>>
      /\ pending' = IF immediate THEN <<>> ELSE SentAll(out)
      /\ jitter' = IF immediate THEN IngestedAll(ticked, out) ELSE ticked
      /\ pcm' = f
      /\ game' = IF f = <<>> THEN "free" ELSE "queue"
  BY <1>1, <1>2, <1>3, <1>4, <1>5, Zenon DEF LateUpdate
<1>10. client' \in Sessions
  BY <1>6, <1>9, SessionSteps
<1>11. ring' \in Seq(Frames) /\ pending' \in Seq(Packets)
  BY <1>8, <1>9, SentRuns, EmptySeq
<1>12. jitter' \in Jitters
  BY <1>7, <1>8, <1>9, IngestRuns
<1>13. /\ pcm' \in Frames \cup {<<>>} /\ game' \in {"free", "queue"}
       /\ game' = "queue" => pcm' \in Frames
  BY <1>7, <1>9
<1> QED
  BY <1>10, <1>11, <1>12, <1>13 DEF LateUpdate, TypeOK, micVars, micHistory, playVars

\* The speaker: its frames come in and are read.
LEMMA TypePlay ==
  ASSUME TypeOK, FindBuffer \/ Enqueue \/ OnAudioRead
  PROVE  TypeOK'
<1>1. CASE FindBuffer
  <2>1. BufferOk(buffer')
    BY <1>1, NewBuffer DEF FindBuffer, TypeOK
  <2> QED
    BY <1>1, <2>1 DEF FindBuffer, TypeOK, micVars, micHistory, linkVars, BufferOk
<1>2. CASE Enqueue
  <2>1. BufferOk(buffer')
    BY <1>2, EnqueuedQueue, FramesAreSeqs DEF Enqueue, TypeOK
  <2> QED
    BY <1>2, <2>1 DEF Enqueue, TypeOK, micVars, micHistory, linkVars, BufferOk
<1>3. CASE OnAudioRead
  <2>1. buffer # NoBuffer
    BY <1>3 DEF OnAudioRead, NoBuffer
  <2>2. BufferOk(buffer')
    BY <1>3, <2>1, LeftQueue, PlaybackAssumption DEF OnAudioRead, TypeOK
  <2> QED
    BY <1>3, <2>2 DEF OnAudioRead, TypeOK, micVars, micHistory, linkVars, BufferOk
<1> QED
  BY <1>1, <1>2, <1>3

\* And every step keeps them so.
LEMMA TypeStep == TypeOK /\ [Next]_vars => TypeOK'
<1>1. CASE UNCHANGED vars
  BY <1>1 DEF vars, TypeOK, micVars, micHistory, linkVars, playVars, BufferOk
<1> QED
  BY <1>1, TypeRig, TypeMic, TypeTick, TypePlay DEF Next

\* Every queue, slot and buffer on the way from the microphone to the ear holds
\* frames of samples, and no more of them than it can.
THEOREM TypeCorrect == Spec => []TypeOK
BY TypeInit, TypeStep, PTL DEF Spec

--------------------------------------------------------------------------------
(* The playback buffer is a SampleQueue.                                      *)

\* The samples a speaker holds, with a buffer or without.
HeldIn(b) == IF b = NoBuffer THEN <<>> ELSE Playback!Held(b)

\* A buffer holds what it holds, and none holds nothing.
LEMMA HeldInBuffer ==
  /\ HeldIn(NoBuffer) = <<>>
  /\ \A b \in Buffers : HeldIn(b) = Playback!Held(b)
<1>1. HeldIn(NoBuffer) = <<>>
  BY DEF HeldIn
<1>2. ASSUME NEW b \in Buffers, b = NoBuffer
      PROVE  HeldIn(b) = Playback!Held(b)
  <2>1. b.count = 0
    BY <1>2 DEF NoBuffer
  <2>2. PICK h \in Seq(Sounds) : h = Playback!Held(b)
    BY HeldContent DEF BufferOk
  <2>3. Len(h) = 0
    BY <2>1, <2>2, HeldContent DEF BufferOk
  <2> QED
    BY <1>2, <2>2, <2>3, EmptySeq DEF HeldIn
<1>3. ASSUME NEW b \in Buffers, b # NoBuffer
      PROVE  HeldIn(b) = Playback!Held(b)
  BY <1>3 DEF HeldIn
<1> QED
  BY <1>1, <1>2, <1>3

\* An Enqueue puts its frame behind, and the newest samples are kept.
LEMMA EnqueuePuts ==
  ASSUME TypeOK, Enqueue
  PROVE  pcm \in Frames /\ HeldIn(buffer') = Queue!Newest(HeldIn(buffer) \o pcm, Capacity)
<1>1. pcm \in Frames /\ pcm \in Seq(Sounds) /\ BufferOk(buffer)
  BY FramesAreSeqs DEF Enqueue, TypeOK
<1>2. PICK b : b = buffer'
  OBVIOUS
<1>3. b = Playback!Enqueued(buffer, pcm)
  BY <1>2 DEF Enqueue
<1>4. BufferOk(b) /\ Playback!Held(b) = Queue!Newest(Playback!Held(buffer) \o pcm, Capacity)
  BY <1>1, <1>3, EnqueuedQueue
<1>5. HeldIn(b) = Playback!Held(b) /\ HeldIn(buffer) = Playback!Held(buffer)
  BY <1>1, <1>4, HeldInBuffer DEF BufferOk
<1> QED
  BY <1>1, <1>2, <1>4, <1>5

\* A read by the audio thread takes one sample at least and a request at most, from
\* the front, and they are heard.
LEMMA ReadTakes ==
  ASSUME TypeOK, OnAudioRead
  PROVE  \E n \in 1 .. ReadSize :
           /\ n <= Len(HeldIn(buffer)) /\ heard' = heard \o SubSeq(HeldIn(buffer), 1, n)
           /\ HeldIn(buffer') = SubSeq(HeldIn(buffer), n + 1, Len(HeldIn(buffer)))
<1>1. BufferOk(buffer) /\ buffer.count > 0
  BY DEF OnAudioRead, TypeOK, NoBuffer
<1>2. PICK b : b = buffer'
  OBVIOUS
<1>3. b = Playback!Left(buffer, ReadSize)
  BY <1>2 DEF OnAudioRead
<1>4. PICK n : n = IF ReadSize < buffer.count THEN ReadSize ELSE buffer.count
  OBVIOUS
<1>5. n \in 1 .. ReadSize
  <2>1. buffer.count \in 0 .. Capacity
    BY <1>1, HeldContent
  <2> QED
    BY <1>1, <1>4, <2>1, PlaybackAssumption
<1>6. BufferOk(b) /\ Playback!Held(b) = SubSeq(Playback!Held(buffer), n + 1, Len(Playback!Held(buffer)))
  BY <1>1, <1>3, <1>4, LeftQueue, PlaybackAssumption
<1>7. HeldIn(b) = Playback!Held(b) /\ HeldIn(buffer) = Playback!Held(buffer)
  BY <1>1, <1>6, HeldInBuffer DEF BufferOk
<1>8. Playback!Found(buffer, ReadSize) = SubSeq(HeldIn(buffer), 1, n) /\ n <= Len(HeldIn(buffer))
  <2>1. PICK b0 : b0 = buffer
    OBVIOUS
  <2>2. PICK h \in Seq(Sounds) : h = Playback!Held(b0)
    BY <1>1, <2>1, HeldContent
  <2>3. /\ b0.count \in Nat /\ Len(h) = b0.count /\ n <= b0.count /\ n \in Nat
        /\ \A k \in 1 .. b0.count : h[k] = b0.buffer[At(b0.read + (k - 1))]
    BY <1>1, <1>4, <1>5, <2>1, <2>2, HeldContent, PlaybackAssumption DEF Content
  <2>4. PICK f : f = Playback!Found(b0, ReadSize)
    OBVIOUS
  <2>5. DOMAIN f = 1 .. n /\ f = [k \in 1 .. n |-> f[k]]
    BY <1>4, <2>1, <2>4 DEF Playback!Found
  <2>6. \A k \in 1 .. n : f[k] = h[k]
    <3>1. ASSUME NEW k \in 1 .. n
          PROVE  f[k] = h[k]
      <4>1. f[k] = b0.buffer[(b0.read + k - 1) % Capacity]
        BY <1>4, <2>1, <2>4 DEF Playback!Found
      <4>2. k \in 1 .. b0.count /\ h[k] = b0.buffer[At(b0.read + (k - 1))]
        BY <2>3
      <4> QED
        BY <4>1, <4>2 DEF At
    <3> QED
      BY <3>1
  <2>7. SubSeq(h, 1, n) = [k \in 1 .. n |-> h[k]]
    BY <2>2, <2>3
  <2>8. f = [k \in 1 .. n |-> h[k]]
    BY <2>5, <2>6
  <2>9. HeldIn(buffer) = h
    BY <1>7, <2>1, <2>2
  <2> QED
    BY <2>1, <2>3, <2>4, <2>7, <2>8, <2>9
<1> QED
  BY <1>2, <1>5, <1>6, <1>7, <1>8 DEF OnAudioRead

\* A buffer that is found or made holds what was held.
LEMMA FindKeeps ==
  ASSUME TypeOK, FindBuffer
  PROVE  HeldIn(buffer') = HeldIn(buffer)
<1>1. PICK b : b = buffer'
  OBVIOUS
<1>2. CASE buffer = NoBuffer
  <2>1. b = Playback!New(Silence)
    BY <1>1, <1>2 DEF FindBuffer
  <2>2. HeldIn(b) = <<>>
    BY <2>1, NewBuffer, HeldInBuffer DEF BufferOk
  <2> QED
    BY <1>1, <1>2, <2>2, HeldInBuffer
<1>3. CASE buffer # NoBuffer
  <2>1. b = buffer
    BY <1>1, <1>3 DEF FindBuffer
  <2> QED
    BY <1>1, <2>1
<1> QED
  BY <1>2, <1>3

\* The playback buffer is the queue it promises to be: frames are put in whole, in
\* order and behind what waits, only the oldest samples are forgotten for want of
\* room, and the audio thread takes each sample once, from the front
\* (ResidualVoicePlaybackBuffer.cs:73-94, 171-207,
\* ResidualVoicePlaybackSource.cs:186-199, 223-307).
THEOREM Refines == Spec => QueueSpec
<1>1. Init => Contents = <<>>
  BY DEF Init, Contents
<1>2. TypeOK /\ [Next]_vars => [Queue!Next]_Contents
  <2> SUFFICES ASSUME TypeOK, [Next]_vars
               PROVE  Queue!Next \/ Contents' = Contents
    OBVIOUS
  <2>1. Contents = HeldIn(buffer) /\ Contents' = HeldIn(buffer')
    BY DEF Contents, HeldIn
  <2>2. CASE Clear
    <3>1. Contents' = <<>>
      BY <2>1, <2>2, HeldInBuffer DEF Clear
    <3> QED
      BY <3>1 DEF Queue!Next, Queue!Clear
  <2>3. CASE Enqueue
    <3>1. pcm \in Frames /\ HeldIn(buffer') = Queue!Newest(HeldIn(buffer) \o pcm, Capacity)
      BY <2>3, EnqueuePuts
    <3>2. Queue!Put(pcm)
      BY <2>1, <3>1 DEF Queue!Put
    <3> QED
      BY <3>1, <3>2 DEF Queue!Next, Frames, Sounds
  <2>4. CASE OnAudioRead
    <3>1. PICK n \in 1 .. ReadSize :
            HeldIn(buffer') = SubSeq(HeldIn(buffer), n + 1, Len(HeldIn(buffer)))
      BY <2>4, ReadTakes
    <3>2. Queue!Take(n)
      BY <2>1, <3>1 DEF Queue!Take
    <3> QED
      BY <3>1, <3>2 DEF Queue!Next
  <2>5. CASE FindBuffer
    BY <2>1, <2>5, FindKeeps
  <2>6. CASE UNCHANGED buffer
    BY <2>1, <2>6
  <2>7. \/ Clear \/ Enqueue \/ OnAudioRead \/ FindBuffer
        \/ UNCHANGED buffer
    BY Zenon DEF Next, vars, playVars, Connect, Disconnect, MicCall, MicRuns, Pump, LateUpdate
  <2> QED
    BY <2>2, <2>3, <2>4, <2>5, <2>6, <2>7
<1>3. Queue!Spec <=> Contents = <<>> /\ [][Queue!Next]_Contents
  BY DEF Queue!Spec
<1> QED
  BY <1>1, <1>2, <1>3, TypeCorrect, PTL DEF Spec, QueueSpec, Queue!Spec

--------------------------------------------------------------------------------
(* What AccumulateAndSubmitFrames does with the samples it is given.           *)

\* What was sent and what waits in the frame.
All(x) == x.sent \o x.frame

\* SubmitFrame moves the samples of a frame, or leaves them where they are.
LEMMA SubmittedAll ==
  ASSUME NEW y \in Feeds
  PROVE  All(Submitted(y)) = All(y) /\ (~Submitted(y).threw => ~y.threw)
<1>0. /\ y.frame \in Seq(Sounds) /\ y.ring \in Seq(Frames) /\ y.sent \in Seq(Sounds)
      /\ y.threw \in BOOLEAN
      /\ y = [frame |-> y.frame, ring |-> y.ring, sent |-> y.sent, threw |-> y.threw]
  BY DEF Feeds
<1>1. PICK r : r = IF Len(y.ring) < RingCap THEN Append(y.ring, y.frame) ELSE y.ring
  OBVIOUS
<1>2. CASE client.connected
  <2>1. PICK z : z = y.sent \o y.frame
    OBVIOUS
  <2>2. z \in Seq(Sounds)
    BY <1>0, <2>1, ConcatProperties
  <2>3. Submitted(y) = [y EXCEPT !.frame = <<>>, !.sent = z, !.ring = r]
    BY <1>1, <1>2, <2>1 DEF Submitted
  <2>4. Submitted(y).frame = <<>> /\ Submitted(y).sent = z /\ Submitted(y).threw = y.threw
    BY <1>0, <2>3
  <2>5. z \o <<>> = z
    BY <2>2, ConcatEmptySeq
  <2> QED
    BY <2>1, <2>4, <2>5 DEF All
<1>3. CASE ~client.connected
  <2>1. PICK t : t = TRUE
    OBVIOUS
  <2>2. Submitted(y) = [y EXCEPT !.threw = t]
    BY <1>3, <2>1 DEF Submitted
  <2>3. Submitted(y).threw = t /\ Submitted(y).sent = y.sent /\ Submitted(y).frame = y.frame
    BY <1>0, <2>2
  <2> QED
    BY <2>1, <2>3 DEF All
<1> QED
  BY <1>2, <1>3

\* A sample is put behind the others, and nothing is lost, whether the engine takes
\* the frame or refuses it.
LEMMA FedTakes ==
  ASSUME NEW x \in Feeds, NEW e \in Sounds
  PROVE  /\ All(x) \in Seq(Sounds)
         /\ All(Fed(x, e)) \in {All(x), Append(All(x), e)}
         /\ ~Fed(x, e).threw => ~x.threw /\ All(Fed(x, e)) = Append(All(x), e)
<1>1. \A y \in Feeds :
        /\ y.frame \in Seq(Sounds) /\ y.ring \in Seq(Frames) /\ y.sent \in Seq(Sounds)
        /\ y.threw \in BOOLEAN /\ Len(y.frame) <= FrameSamples
        /\ y = [frame |-> y.frame, ring |-> y.ring, sent |-> y.sent, threw |-> y.threw]
  BY DEF Feeds
<1>2. \A y \in Feeds : All(y) \in Seq(Sounds)
  BY <1>1, ConcatProperties DEF All
<1>3. \A y \in Feeds : All(Submitted(y)) = All(y) /\ (~Submitted(y).threw => ~y.threw)
  BY SubmittedAll
<1>4. PICK room : room = IF Full(x) THEN Submitted(x) ELSE x
  OBVIOUS
<1>5. All(room) = All(x) /\ (~room.threw => ~x.threw)
  BY <1>3, <1>4
<1>6. PICK more : more = [room EXCEPT !.frame = Append(@, e)]
  OBVIOUS
<1>7. Fed(x, e) = IF room.threw THEN room ELSE IF Full(more) THEN Submitted(more) ELSE more
  BY <1>4, <1>6, Zenon DEF Fed
<1>8. CASE room.threw
  BY <1>2, <1>5, <1>7, <1>8
<1>9. CASE ~room.threw
  <2>1. room \in Feeds /\ more \in Feeds
    <3>1. room \in Feeds /\ Len(room.frame) < FrameSamples
      BY <1>4, <1>9, RoomType
    <3> QED
      BY <1>6, <3>1, AppendedType
  <2>2. more.sent = room.sent /\ more.frame = Append(room.frame, e) /\ more.threw = room.threw
    BY <1>1, <1>6, <2>1
  <2>3. All(more) = Append(All(room), e)
    <3>1. room.sent \in Seq(Sounds) /\ room.frame \in Seq(Sounds)
      BY <1>1, <2>1
    <3>2. \A q1, q2 \in Seq(Sounds) : q1 \o Append(q2, e) = Append(q1 \o q2, e)
      OBVIOUS
    <3> QED
      BY <2>2, <3>1, <3>2 DEF All
  <2>4. All(Fed(x, e)) = All(more)
    BY <1>3, <1>7, <1>9, <2>1
  <2> QED
    BY <1>2, <1>5, <1>9, <2>3, <2>4
<1> QED
  BY <1>8, <1>9

\* a is q and, unless the engine has refused a frame, the first k of s.
Grown(a, threwUp, q, s, k) ==
  /\ a \in Seq(Sounds) /\ Len(a) >= Len(q)
  /\ \A i \in 1 .. Len(q) : a[i] = q[i]
  /\ ~threwUp => /\ Len(a) = Len(q) + k
                 /\ \A i \in 1 .. k : a[Len(q) + i] = s[i]

\* One turn of AccumulateAndSubmitFrames makes it one sample more.
LEMMA GrownMore ==
  ASSUME NEW q \in Seq(Sounds), NEW s \in Seq(Sounds), NEW k \in 1 .. Len(s),
         NEW x \in Feeds, Grown(All(x), x.threw, q, s, k - 1)
  PROVE  Grown(All(Fed(x, s[k])), Fed(x, s[k]).threw, q, s, k)
<1>1. PICK e \in Sounds : e = s[k]
  BY ElementOfSeq
<1>2. PICK l \in Nat : l = Len(q)
  BY LenProperties
<1>3. PICK a \in Seq(Sounds) : a = All(x)
  BY DEF Grown
<1>4. PICK y : y = Fed(x, e)
  OBVIOUS
<1>5. k \in Nat /\ k - 1 \in Nat
  BY LenProperties
<1>6. /\ Len(a) \in Nat /\ Len(a) >= l /\ \A i \in 1 .. l : a[i] = q[i]
      /\ ~x.threw => Len(a) = l + (k - 1) /\ \A i \in 1 .. k - 1 : a[l + i] = s[i]
  BY <1>2, <1>3, LenProperties DEF Grown
<1>7. PICK b : b = Append(a, e)
  OBVIOUS
<1>8. /\ b \in Seq(Sounds) /\ Len(b) = Len(a) + 1 /\ b[Len(a) + 1] = e
      /\ \A i \in 1 .. Len(a) : b[i] = a[i]
  BY <1>7, AppendProperties
<1>9. All(y) \in {a, b} /\ (~y.threw => ~x.threw /\ All(y) = b)
  BY <1>1, <1>3, <1>4, <1>7, FedTakes
<1>10. \A i \in 1 .. l : b[i] = q[i]
  BY <1>6, <1>8
<1>11. CASE ~y.threw
  <2>1. Len(a) = l + (k - 1) /\ \A i \in 1 .. k - 1 : a[l + i] = s[i]
    BY <1>6, <1>9, <1>11
  <2>2. Len(b) = l + k
    BY <1>5, <1>8, <2>1
  <2>3. ASSUME NEW i \in 1 .. k
        PROVE  b[l + i] = s[i]
    <3>1. CASE i = k
      <4>1. l + i = Len(a) + 1
        BY <1>5, <2>1, <3>1
      <4> QED
        BY <1>1, <1>8, <3>1, <4>1
    <3>2. CASE i # k
      <4>1. i \in 1 .. k - 1 /\ l + i \in 1 .. Len(a)
        BY <1>5, <2>1, <3>2
      <4> QED
        BY <1>8, <2>1, <4>1
    <3> QED
      BY <3>1, <3>2
  <2>4. Len(b) >= l
    BY <1>6, <1>8
  <2> QED
    BY <1>1, <1>2, <1>4, <1>8, <1>9, <1>10, <1>11, <2>2, <2>3, <2>4 DEF Grown
<1>12. CASE y.threw
  <2>1. Len(b) >= l
    BY <1>6, <1>8
  <2> QED
    BY <1>1, <1>2, <1>4, <1>6, <1>8, <1>9, <1>10, <1>12, <2>1 DEF Grown
<1> QED
  BY <1>11, <1>12

\* A chunk is put behind what was sent and what waits, whole unless the engine
\* refuses a frame, and nothing is lost.
LEMMA AccumulatedTakes ==
  ASSUME TypeOK, NEW s \in Seq(Sounds)
  PROVE  /\ Accumulated(s) \in Feeds
         /\ Grown(All(Accumulated(s)), Accumulated(s).threw, sent \o frame, s, Len(s))
<1>1. PICK g : /\ g[0] = [frame |-> frame, ring |-> ring, sent |-> sent, threw |-> FALSE]
               /\ Accumulated(s) = g[Len(s)]
               /\ \A k \in 0 .. Len(s) : g[k] \in Feeds
               /\ \A k \in 1 .. Len(s) : g[k] = Fed(g[k - 1], s[k])
  BY AccumulateRuns
<1>2. PICK n \in Nat : n = Len(s)
  BY LenProperties
<1>3. PICK q \in Seq(Sounds) : q = sent \o frame
  BY ConcatProperties DEF TypeOK
<1> DEFINE S == {k \in 0 .. n : Grown(All(g[k]), g[k].threw, q, s, k)}
<1>4. 0 \in S
  <2>1. All(g[0]) = q
    BY <1>1, <1>3 DEF All
  <2>2. Len(q) \in Nat
    BY LenProperties
  <2> QED
    BY <2>1, <2>2 DEF Grown
<1>5. ASSUME NEW k \in 1 .. n, k - 1 \in S
      PROVE  k \in S
  <2>1. g[k - 1] \in Feeds /\ g[k] = Fed(g[k - 1], s[k])
    BY <1>1, <1>2
  <2>2. Grown(All(g[k - 1]), g[k - 1].threw, q, s, k - 1)
    BY <1>5
  <2>3. Grown(All(g[k]), g[k].threw, q, s, k)
    BY <1>2, <2>1, <2>2, GrownMore
  <2> QED
    BY <2>3
<1> HIDE DEF S
<1>6. \A k \in 0 .. n : k \in S
  BY <1>4, <1>5, UpTo
<1>7. n \in 0 .. n /\ Grown(All(g[n]), g[n].threw, q, s, n)
  BY <1>6 DEF S
<1> QED
  BY <1>1, <1>2, <1>3, <1>7

--------------------------------------------------------------------------------
(* Where the samples are in the clip.                                         *)

\* Where the sample after the n-th is written in a clip started after the o-th.
Place(o, n) == (n - o) % ClipSamples

\* The chunk holds the samples m + 1 to n, and does not cross the wrap.
Piece(chunk, o, m, n) ==
  m < n /\ chunk = <<Place(o, m), n - m>> /\ Place(o, m) + (n - m) <= ClipSamples

\* One after the other, the chunks of t hold the samples m + 1 to n.
Spans(t, o, m, n) ==
  \E g \in [1 .. Len(t) + 1 -> 0 .. n] :
    g[1] = m /\ g[Len(t) + 1] = n /\ \A k \in 1 .. Len(t) : Piece(t[k], o, g[k], g[k + 1])

\* Places follow each other up to the end of the clip, where they start again, and
\* samples less than a clip apart have different places.
LEMMA ClipPlaces ==
  ASSUME NEW o \in Nat, NEW n \in Nat, o <= n
  PROVE  /\ ClipSamples \in Nat \ {0}
         /\ Place(o, n) \in 0 .. ClipSamples - 1
         /\ \A d \in Nat : Place(o, n) + d < ClipSamples => Place(o, n + d) = Place(o, n) + d
         /\ \A d \in Nat : Place(o, n) + d = ClipSamples => Place(o, n + d) = 0
         /\ \A m \in Nat : /\ o <= m /\ m - n < ClipSamples /\ n - m < ClipSamples
                           /\ Place(o, m) = Place(o, n)
                           => m = n
<1>1. ClipSamples \in Nat \ {0}
  BY MicAssumption
<1>2. PICK r : r = Place(o, n)
  OBVIOUS
<1>3. n - o \in Nat
  OBVIOUS
<1>4. r \in 0 .. ClipSamples - 1
  BY <1>1, <1>2, <1>3, RemainderRange DEF Place
<1>5. \A d \in Nat : (r + d) % ClipSamples = Place(o, n + d)
  <2>1. \A d \in Nat : (n - o) + d = (n + d) - o
    OBVIOUS
  <2>2. \A d \in Nat : (((n - o) % ClipSamples) + d) % ClipSamples = ((n - o) + d) % ClipSamples
    BY <1>1, <1>3, NextRemainder
  <2> QED
    BY <1>2, <2>1, <2>2 DEF Place
<1>6. ASSUME NEW d \in Nat, r + d < ClipSamples
      PROVE  Place(o, n + d) = r + d
  <2>1. r + d = ClipSamples * 0 + (r + d) /\ r + d \in Nat /\ r + d \in 0 .. ClipSamples - 1
    BY <1>1, <1>4, <1>6
  <2>2. (r + d) % ClipSamples = r + d
    BY <1>1, <2>1, RemainderUnique
  <2> QED
    BY <1>5, <2>2
<1>7. ASSUME NEW d \in Nat, r + d = ClipSamples
      PROVE  Place(o, n + d) = 0
  <2>1. r + d = ClipSamples * 1 + 0 /\ r + d \in Nat /\ 0 \in 0 .. ClipSamples - 1
    BY <1>1, <1>4, <1>7
  <2>2. (r + d) % ClipSamples = 0
    BY <1>1, <2>1, RemainderUnique
  <2> QED
    BY <1>5, <2>2
<1>8. ASSUME NEW m \in Nat, o <= m, m - n < ClipSamples, n - m < ClipSamples,
             Place(o, m) = Place(o, n)
      PROVE  m = n
  <2>1. /\ m - o \in Nat /\ (m - o) - (n - o) < ClipSamples
        /\ (n - o) - (m - o) < ClipSamples
    BY <1>8
  <2>2. m - o = n - o
    BY <1>1, <1>3, <1>8, <2>1, SameRemainder DEF Place
  <2> QED
    BY <2>2
<1> QED
  BY <1>1, <1>2, <1>4, <1>6, <1>7, <1>8

\* A part of the clip that does not cross the wrap is cut into chunks that hold it.
LEMMA ChunksSpan ==
  ASSUME NEW o \in Nat, NEW m \in Nat, o <= m, NEW c \in Nat, Place(o, m) + c <= ClipSamples
  PROVE  Spans(Chunks(Place(o, m), c), o, m, m + c)
<1>1. PICK w \in Nat \ {0} : w = ChunkSamples
  BY MicAssumption
<1>2. PICK p : p = Place(o, m)
  OBVIOUS
<1>3. /\ ClipSamples \in Nat \ {0} /\ p \in 0 .. ClipSamples - 1 /\ p + c <= ClipSamples
      /\ \A d \in Nat : p + d < ClipSamples => Place(o, m + d) = p + d
  BY <1>2, ClipPlaces
<1>4. PICK n \in Int : n = (c + w - 1) \div w
  OBVIOUS
<1>5. w * n >= c /\ w * n < c + w
  <2>1. PICK r : r = (c + w - 1) % w
    OBVIOUS
  <2>2. r \in 0 .. w - 1
    BY <2>1, RemainderRange
  <2>3. (c + w) - 1 = w * n + r
    BY <1>4, <2>1
  <2> QED
    BY <2>2, <2>3
<1>6. n \in Nat /\ (n = 0 => c = 0)
  BY <1>5
<1>7. PICK at : at = [k \in 1 .. n + 1 |-> w * (k - 1)]
  OBVIOUS
<1>8. /\ \A k \in 1 .. n + 1 : at[k] \in Int /\ at[k] >= 0
      /\ at[n + 1] >= c /\ at[1] = 0
      /\ \A k \in 1 .. n : at[k + 1] = at[k] + w
  <2>1. \A k \in 1 .. n + 1 : at[k] = w * (k - 1) /\ w * (k - 1) \in Int /\ w * (k - 1) >= 0
    BY <1>6, <1>7
  <2>2. \A k \in 1 .. n : (k + 1) - 1 = (k - 1) + 1 /\ w * ((k - 1) + 1) = w * (k - 1) + w
    BY <1>6
  <2>3. at[n + 1] = w * n
    BY <1>6, <2>1
  <2>4. \A k \in 1 .. n : k + 1 \in 1 .. n + 1 /\ k \in 1 .. n + 1
    BY <1>6
  <2> QED
    BY <1>5, <1>6, <2>1, <2>2, <2>3, <2>4
<1>9. \A k \in 1 .. n : at[k] < c
  <2>1. \A k \in 1 .. n : w * (k - 1) <= w * (n - 1)
    <3>1. ASSUME NEW k \in 1 .. n
          PROVE  w * (k - 1) <= w * (n - 1)
      <4>1. w * (n - 1) = w * (k - 1) + w * (n - k) /\ w * (n - k) >= 0
        BY <1>6
      <4> QED
        BY <1>6, <4>1
    <3> QED
      BY <3>1
  <2>2. PICK l \in Int : l = w * (n - 1)
    BY <1>6
  <2>3. l < c
    <3>1. w * (n - 1) = w * n - w
      BY <1>6
    <3> QED
      BY <1>5, <1>6, <2>2, <3>1
  <2>4. \A k \in 1 .. n : at[k] <= l
    <3>1. \A k \in 1 .. n : at[k] = w * (k - 1)
      BY <1>6, <1>7
    <3> QED
      BY <2>1, <2>2, <3>1
  <2>5. \A k \in 1 .. n : at[k] \in Int
    BY <1>6, <1>8
  <2> QED
    BY <2>3, <2>4, <2>5
<1>10. PICK t : t = Chunks(p, c)
  OBVIOUS
<1>11. t = [k \in 1 .. n |-> <<p + at[k], IF c - at[k] < w THEN c - at[k] ELSE w>>]
  <2>1. \A k \in 1 .. n : at[k] = (k - 1) * ChunkSamples
    BY <1>1, <1>6, <1>7
  <2> QED
    BY <1>1, <1>4, <1>10, <2>1 DEF Chunks
<1>12. Len(t) = n
  BY <1>6, <1>11
<1>13. PICK g : g = [k \in 1 .. n + 1 |-> IF k = n + 1 THEN m + c ELSE m + at[k]]
  OBVIOUS
<1>14. g \in [1 .. n + 1 -> 0 .. m + c]
  <2>1. \A k \in 1 .. n + 1 : k # n + 1 => k \in 1 .. n
    BY <1>6
  <2>2. \A k \in 1 .. n : m + at[k] \in 0 .. m + c
    BY <1>6, <1>8, <1>9
  <2> QED
    BY <1>13, <2>1, <2>2
<1>15. g[1] = m
  <2>1. CASE n = 0
    BY <1>6, <1>13, <2>1
  <2>2. CASE n # 0
    BY <1>6, <1>8, <1>13, <2>2
  <2> QED
    BY <2>1, <2>2
<1>16. g[n + 1] = m + c
  BY <1>6, <1>13
<1>17. ASSUME NEW k \in 1 .. n
       PROVE  Piece(t[k], o, g[k], g[k + 1])
  <2>1. PICK d \in Nat : d = at[k]
    BY <1>6, <1>8
  <2>2. d < c /\ g[k] = m + d /\ k + 1 \in 1 .. n + 1
    BY <1>6, <1>9, <1>13, <2>1
  <2>3. PICK l : l = IF c - d < w THEN c - d ELSE w
    OBVIOUS
  <2>4. t[k] = <<p + d, l>>
    BY <1>11, <2>1, <2>3
  <2>5. g[k + 1] = m + (d + l) /\ d + l <= c /\ l > 0 /\ l \in Int
    <3>1. CASE k = n
      <4>1. c <= d + w
        BY <1>8, <2>1, <3>1
      <4>2. d + l = c
        BY <2>2, <2>3, <4>1
      <4> QED
        BY <1>16, <2>2, <2>3, <3>1, <4>2
    <3>2. CASE k # n
      <4>1. k + 1 \in 1 .. n /\ k + 1 # n + 1
        BY <1>6, <3>2
      <4>2. at[k + 1] = d + w /\ d + w < c
        BY <1>8, <1>9, <2>1, <4>1
      <4>3. l = w
        BY <2>3, <4>2
      <4>4. g[k + 1] = m + at[k + 1]
        BY <1>13, <2>2, <4>1
      <4> QED
        BY <4>2, <4>3, <4>4
    <3> QED
      BY <3>1, <3>2
  <2>6. Place(o, m + d) = p + d
    BY <1>3, <2>2
  <2>7. (m + (d + l)) - (m + d) = l
    BY <2>5
  <2> QED
    BY <1>3, <2>2, <2>4, <2>5, <2>6, <2>7 DEF Piece
<1>18. Spans(t, o, m, m + c)
  BY <1>12, <1>14, <1>15, <1>16, <1>17 DEF Spans
<1> QED
  BY <1>2, <1>10, <1>18

\* Two such sequences of chunks, one behind the other.
LEMMA SpansConcat ==
  ASSUME NEW t \in Seq(Int \X Int), NEW u \in Seq(Int \X Int), NEW o,
         NEW l, NEW m \in Nat, NEW n \in Nat, m <= n, Spans(t, o, l, m), Spans(u, o, m, n)
  PROVE  Spans(t \o u, o, l, n)
<1>1. PICK c \in Nat : c = Len(t)
  BY LenProperties
<1>2. PICK d \in Nat : d = Len(u)
  BY LenProperties
<1>3. PICK f \in [1 .. c + 1 -> 0 .. m] :
        f[1] = l /\ f[c + 1] = m /\ \A k \in 1 .. c : Piece(t[k], o, f[k], f[k + 1])
  BY <1>1 DEF Spans
<1>4. PICK g \in [1 .. d + 1 -> 0 .. n] :
        g[1] = m /\ g[d + 1] = n /\ \A k \in 1 .. d : Piece(u[k], o, g[k], g[k + 1])
  BY <1>2 DEF Spans
<1>5. PICK v : v = t \o u
  OBVIOUS
<1>6. /\ Len(v) = c + d
      /\ \A k \in 1 .. c + d : v[k] = IF k <= c THEN t[k] ELSE u[k - c]
  BY <1>1, <1>2, <1>5, ConcatProperties
<1>7. PICK h : h = [k \in 1 .. (c + d) + 1 |-> IF k <= c THEN f[k] ELSE g[k - c]]
  OBVIOUS
<1>8. \A k \in 1 .. (c + d) + 1 : /\ k <= c => k \in 1 .. c + 1
                                  /\ ~(k <= c) => k - c \in 1 .. d + 1
  OBVIOUS
<1>9. h \in [1 .. (c + d) + 1 -> 0 .. n]
  <2>1. \A k \in 1 .. c + 1 : f[k] \in 0 .. n
    BY <1>3
  <2> QED
    BY <1>4, <1>7, <1>8, <2>1
<1>10. \A k \in 1 .. c : h[k] = f[k]
  BY <1>7
<1>11. \A k \in 1 .. d + 1 : h[c + k] = g[k]
  <2>1. \A k \in 1 .. d + 1 : c + k \in 1 .. (c + d) + 1 /\ ~(c + k <= c) /\ (c + k) - c = k
    OBVIOUS
  <2> QED
    BY <1>7, <2>1
<1>12. h[c + 1] = m /\ h[(c + d) + 1] = n
  <2>1. c + (d + 1) = (c + d) + 1 /\ 1 \in 1 .. d + 1 /\ d + 1 \in 1 .. d + 1
    OBVIOUS
  <2> QED
    BY <1>4, <1>11, <2>1
<1>13. h[1] = l
  <2>1. CASE c = 0
    BY <1>3, <1>12, <2>1
  <2>2. CASE c # 0
    BY <1>3, <1>10, <2>2
  <2> QED
    BY <2>1, <2>2
<1>14. ASSUME NEW k \in 1 .. c + d
       PROVE  Piece(v[k], o, h[k], h[k + 1])
  <2>1. CASE k <= c
    <3>1. k \in 1 .. c /\ v[k] = t[k] /\ h[k] = f[k]
      BY <1>6, <1>10, <2>1
    <3>2. h[k + 1] = f[k + 1]
      <4>1. CASE k = c
        BY <1>3, <1>12, <4>1
      <4>2. CASE k # c
        <5>1. k + 1 \in 1 .. c
          BY <2>1, <4>2
        <5> QED
          BY <1>10, <5>1
      <4> QED
        BY <4>1, <4>2
    <3> QED
      BY <1>3, <3>1, <3>2
  <2>2. CASE ~(k <= c)
    <3>1. PICK i \in 1 .. d : i = k - c
      BY <2>2
    <3>2. k = c + i /\ k + 1 = c + (i + 1) /\ i \in 1 .. d + 1 /\ i + 1 \in 1 .. d + 1
      BY <3>1
    <3>3. v[k] = u[i] /\ h[k] = g[i] /\ h[k + 1] = g[i + 1]
      BY <1>6, <1>11, <2>2, <3>1, <3>2
    <3> QED
      BY <1>4, <3>3
  <2> QED
    BY <2>1, <2>2
<1> QED
  BY <1>5, <1>6, <1>9, <1>12, <1>13, <1>14 DEF Spans

\* The first chunk, and those behind it.
LEMMA SpansTail ==
  ASSUME NEW t \in Seq(Int \X Int), NEW o, NEW l \in Nat, NEW n \in Nat, Spans(t, o, l, n)
  PROVE  /\ t = <<>> => l = n
         /\ t # <<>> => \E m \in 0 .. n : l < m /\ Piece(Head(t), o, l, m) /\ Spans(Tail(t), o, m, n)
<1>1. PICK c \in Nat : c = Len(t)
  BY LenProperties
<1>2. PICK f \in [1 .. c + 1 -> 0 .. n] :
        f[1] = l /\ f[c + 1] = n /\ \A k \in 1 .. c : Piece(t[k], o, f[k], f[k + 1])
  BY <1>1 DEF Spans
<1>3. ASSUME t = <<>>
      PROVE  l = n
  <2>1. c = 0
    BY <1>1, <1>3, EmptySeq
  <2> QED
    BY <1>2, <2>1
<1>4. ASSUME t # <<>>
      PROVE  \E m \in 0 .. n : l < m /\ Piece(Head(t), o, l, m) /\ Spans(Tail(t), o, m, n)
  <2>1. c # 0
    BY <1>1, <1>4, EmptySeq
  <2>2. PICK u : u = Tail(t)
    OBVIOUS
  <2>3. Len(u) = c - 1 /\ \A k \in 1 .. c - 1 : u[k] = t[k + 1]
    BY <1>1, <1>4, <2>2, HeadTailProperties
  <2>4. Head(t) = t[1]
    OBVIOUS
  <2>5. PICK m \in 0 .. n : m = f[2]
    <3>1. 2 \in 1 .. c + 1
      BY <2>1
    <3> QED
      BY <1>2, <3>1
  <2>6. Piece(Head(t), o, l, m)
    <3>1. 1 \in 1 .. c /\ 1 + 1 = 2
      BY <2>1
    <3> QED
      BY <1>2, <2>4, <2>5, <3>1
  <2>7. PICK h : h = [k \in 1 .. c |-> f[k + 1]]
    OBVIOUS
  <2>8. \A k \in 1 .. c : k + 1 \in 1 .. c + 1
    OBVIOUS
  <2>9. h \in [1 .. c -> 0 .. n]
    BY <1>2, <2>7, <2>8
  <2>10. h[1] = m /\ h[c] = n
    <3>1. 1 \in 1 .. c /\ c \in 1 .. c /\ 1 + 1 = 2
      BY <2>1
    <3> QED
      BY <1>2, <2>5, <2>7, <3>1
  <2>11. ASSUME NEW k \in 1 .. c - 1
         PROVE  Piece(u[k], o, h[k], h[k + 1])
    <3>1. k \in 1 .. c /\ k + 1 \in 1 .. c
      OBVIOUS
    <3> QED
      BY <1>2, <2>3, <2>7, <3>1
  <2>12. (c - 1) + 1 = c
    OBVIOUS
  <2>13. Spans(u, o, m, n)
    BY <2>3, <2>9, <2>10, <2>11, <2>12 DEF Spans
  <2>14. l < m
    BY <2>6 DEF Piece
  <2> QED
    BY <2>2, <2>6, <2>13, <2>14
<1> QED
  BY <1>3, <1>4

\* What PumpMicrophone sets out to read is what has been captured since the last
\* time, before and after the wrap of the clip.
LEMMA SegmentsSpan ==
  ASSUME NEW o \in Nat, NEW m \in Nat, NEW n \in Nat, o <= m, m <= n, n - m <= ClipSamples,
         Place(o, m) # Place(o, n)
  PROVE  Spans(Segments(Place(o, m), Place(o, n)), o, m, n)
<1>1. PICK p : p = Place(o, m)
  OBVIOUS
<1>2. PICK q : q = Place(o, n)
  OBVIOUS
<1>3. /\ ClipSamples \in Nat \ {0} /\ p \in 0 .. ClipSamples - 1
      /\ \A d \in Nat : p + d < ClipSamples => Place(o, m + d) = p + d
      /\ \A d \in Nat : p + d = ClipSamples => Place(o, m + d) = 0
  <2>1. /\ ClipSamples \in Nat \ {0} /\ Place(o, m) \in 0 .. ClipSamples - 1
        /\ \A d \in Nat : Place(o, m) + d < ClipSamples => Place(o, m + d) = Place(o, m) + d
        /\ \A d \in Nat : Place(o, m) + d = ClipSamples => Place(o, m + d) = 0
    BY ClipPlaces
  <2> QED
    BY <1>1, <2>1, Zenon
<1>4. q \in 0 .. ClipSamples - 1 /\ p # q
  <2>1. o <= n
    OBVIOUS
  <2> QED
    BY <1>1, <1>2, <2>1, ClipPlaces, Zenon
<1>5. PICK c \in Nat : n = m + c
  <2>1. n - m \in Nat /\ n = m + (n - m)
    OBVIOUS
  <2> QED
    BY <2>1
<1>6. CASE p + c < ClipSamples
  <2>1. q = p + c /\ q > p /\ q - p = c
    BY <1>2, <1>3, <1>4, <1>5, <1>6
  <2>2. Segments(p, q) = Chunks(p, c)
    BY <2>1 DEF Segments
  <2>3. Spans(Chunks(p, c), o, m, m + c)
    BY <1>1, <1>6, <1>3, ChunksSpan
  <2> QED
    BY <1>1, <1>2, <1>5, <2>2, <2>3
<1>7. CASE ~(p + c < ClipSamples)
  <2>1. PICK d \in Nat : d = ClipSamples - p
    BY <1>3
  <2>2. PICK e \in Nat : c = d + e
    <3>1. c - d \in Nat /\ c = d + (c - d)
      BY <1>3, <1>7, <2>1
    <3> QED
      BY <3>1
  <2>3. m + d \in Nat /\ o <= m + d /\ Place(o, m + d) = 0
    BY <1>3, <2>1
  <2>4. e <= p
    BY <1>3, <1>5, <2>1, <2>2
  <2>5. q = e
    <3>1. Place(o, m + d) + e < ClipSamples
      BY <1>3, <2>3, <2>4
    <3>2. PICK k \in Nat : k = m + d
      BY <2>3
    <3>3. Place(o, k + e) = Place(o, k) + e
      BY <2>3, <3>1, <3>2, ClipPlaces
    <3>4. k + e = n
      BY <1>5, <2>2, <3>2
    <3> QED
      BY <1>2, <2>3, <3>2, <3>3, <3>4
  <2>6. ~(q > p)
    BY <1>3, <2>4, <2>5
  <2>7. PICK t : t = Chunks(p, d)
    OBVIOUS
  <2>8. PICK u : u = Chunks(0, e)
    OBVIOUS
  <2>9. Segments(p, q) = t \o u
    BY <2>1, <2>5, <2>6, <2>7, <2>8 DEF Segments
  <2>10. Spans(t, o, m, m + d)
    <3>1. p + d <= ClipSamples
      BY <1>3, <2>1
    <3> QED
      BY <1>1, <2>7, <3>1, ChunksSpan
  <2>11. Spans(u, o, m + d, (m + d) + e)
    <3>1. 0 + e <= ClipSamples
      BY <1>3, <2>4
    <3> QED
      BY <2>3, <2>8, <3>1, ChunksSpan
  <2>12. t \in Seq(Int \X Int) /\ u \in Seq(Int \X Int)
    <3>1. p \in Int /\ d \in Int /\ e \in Int
      BY <1>3
    <3> QED
      BY <2>7, <2>8, <3>1, ChunksType
  <2>13. (m + d) + e = n /\ m + d <= n
    BY <1>5, <2>2
  <2>14. Spans(t \o u, o, m, n)
    BY <2>3, <2>10, <2>11, <2>12, <2>13, SpansConcat
  <2> QED
    BY <1>1, <1>2, <2>9, <2>14
<1> QED
  BY <1>6, <1>7

\* A sample captured less than a clip ago is still in its place.
LEMMA SampleAtPlace ==
  ASSUME TypeOK, NEW n \in base + 1 .. captured, captured - n < ClipSamples
  PROVE  SampleAt(Place(base, n - 1)) = n
<1>1. captured \in Nat /\ base \in Nat /\ n - 1 \in Nat /\ base <= n - 1 /\ n \in Nat
  BY MicAssumption DEF TypeOK
<1>2. PICK p : p = Place(base, n - 1)
  OBVIOUS
<1>3. \A k \in base + 1 .. captured : Place(base, k - 1) = (k - base - 1) % ClipSamples
  <2>1. \A k \in base + 1 .. captured : (k - 1) - base = k - base - 1
    BY <1>1
  <2> QED
    BY <2>1 DEF Place
<1>4. n \in WrittenAt(p)
  BY <1>2, <1>3 DEF WrittenAt
<1>5. ASSUME NEW k \in WrittenAt(p)
      PROVE  k <= n
  <2> SUFFICES ASSUME k > n PROVE FALSE
    BY <1>1 DEF WrittenAt
  <2>1. /\ k \in base + 1 .. captured /\ Place(base, k - 1) = p
    BY <1>3 DEF WrittenAt
  <2>2. /\ k - 1 \in Nat /\ base <= k - 1 /\ (k - 1) - (n - 1) < ClipSamples
        /\ (n - 1) - (k - 1) < ClipSamples
    BY <1>1, <2>1, MicAssumption
  <2>3. k - 1 = n - 1
    BY <1>1, <1>2, <2>1, <2>2, ClipPlaces
  <2> QED
    BY <1>1, <2>1, <2>3
<1>6. PICK k : k = SampleAt(p)
  OBVIOUS
<1>7. k \in WrittenAt(p) /\ \A m \in WrittenAt(p) : m <= k
  BY <1>4, <1>5, <1>6 DEF SampleAt
<1>8. k \in Nat /\ n <= k /\ k <= n
  BY <1>1, <1>4, <1>5, <1>7 DEF WrittenAt
<1> QED
  BY <1>1, <1>2, <1>6, <1>8

\* The samples m + 1 to n, as captured.
IsCapture(s, m, n) == Len(s) = n - m /\ \A i \in 1 .. n - m : s[i] = m + i

\* So a chunk is read as it was captured.
LEMMA SamplesOfPiece ==
  ASSUME TypeOK, NEW m \in Nat, NEW n \in Nat, base <= m, n <= captured,
         captured - m <= ClipSamples, NEW chunk, Piece(chunk, base, m, n)
  PROVE  IsCapture(Samples(chunk), m, n)
<1>1. captured \in Nat /\ base \in Nat /\ n - m \in Nat /\ m < n
  BY MicAssumption DEF TypeOK, Piece
<1>2. PICK p : p = Place(base, m)
  OBVIOUS
<1>3. chunk = <<p, n - m>> /\ p + (n - m) <= ClipSamples /\ p \in Nat
  BY <1>1, <1>2, ClipPlaces DEF Piece
<1>4. PICK d \in Nat : d = n - m
  BY <1>1
<1>5. chunk[1] = p /\ chunk[2] = d
  BY <1>3, <1>4
<1>6. ASSUME NEW i \in 1 .. d
      PROVE  SampleAt(chunk[1] + i - 1) = m + i
  <2>1. i - 1 \in Nat /\ p + (i - 1) < ClipSamples
    BY <1>3, <1>4, MicAssumption
  <2>2. Place(base, m + (i - 1)) = p + (i - 1)
    BY <1>1, <1>2, <2>1, ClipPlaces
  <2>3. m + (i - 1) = (m + i) - 1 /\ p + (i - 1) = p + i - 1
    BY <1>3
  <2>4. m + i \in base + 1 .. captured /\ captured - (m + i) < ClipSamples
    BY <1>1, <1>4, MicAssumption
  <2>5. SampleAt(Place(base, (m + i) - 1)) = m + i
    BY <2>4, SampleAtPlace
  <2> QED
    BY <1>5, <2>2, <2>3, <2>5
<1>7. PICK s : s = Samples(chunk)
  OBVIOUS
<1>8. s = [i \in 1 .. d |-> SampleAt(chunk[1] + i - 1)]
  BY <1>5, <1>7 DEF Samples
<1>9. Len(s) = d /\ \A i \in 1 .. d : s[i] = m + i
  BY <1>6, <1>8
<1> QED
  BY <1>4, <1>7, <1>9 DEF IsCapture

--------------------------------------------------------------------------------
(* No sample is skipped.                                                      *)

\* The samples up to the n-th are in q or were given up; q has none but these, in
\* the order of their capture.
Kept(q, gone, n) == 1 .. n \subseteq Range(q) \cup gone
Ordered(q, n) == InCaptureOrder(q) /\ Range(q) \subseteq 1 .. n

Read(n) == Kept(sent \o frame, given, n) /\ (~threw => Ordered(sent \o frame, n))

\* Up to where the microphone has been read, and what is known of it.
MicPlaces ==
  /\ upTo \in base .. captured
  /\ recording => lastRead = Place(base, upTo)
  /\ ~recording => frame = <<>> /\ upTo = captured /\ game # "pump"
  /\ game = "pump" => aim \in upTo .. captured /\ position = Place(base, aim)
  /\ ~lapped => captured - upTo <= ClipSamples

\* While Update pumps, what it has still to read begins where it has come to.
MicReads ==
  ~lapped /\ ~failed =>
    /\ game # "pump" => Read(upTo)
    /\ game = "pump" => \E m \in upTo .. aim : Spans(todo, base, m, aim) /\ Read(m)

MicInv == TypeOK /\ MicPlaces /\ MicReads

\* What a chunk adds.
LEMMA ReadMore ==
  ASSUME NEW q \in Seq(Sounds), NEW s \in Seq(Sounds), NEW a, NEW t, NEW gone,
         NEW m \in Nat, NEW n \in Nat, m <= n, Kept(q, gone, m),
         IsCapture(s, m, n), Grown(a, t, q, s, Len(s))
  PROVE  /\ \A l \in 0 .. m : Kept(a, gone, l)
         /\ ~t => Kept(a, gone, n)
         /\ ~t /\ Ordered(q, m) => Ordered(a, n)
<1>1. PICK c \in Nat : c = Len(q)
  BY LenProperties
<1>2. PICK d \in Nat : d = n - m
  OBVIOUS
<1>3. DOMAIN q = 1 .. c /\ DOMAIN a = 1 .. Len(a) /\ Len(a) \in Nat /\ Len(a) >= c
      /\ \A i \in 1 .. c : a[i] = q[i]
  BY <1>1, LenProperties DEF Grown
<1>4. Range(q) \subseteq Range(a)
  BY <1>3 DEF Range
<1>5. \A l \in 0 .. m : Kept(a, gone, l)
  <2>1. \A l \in 0 .. m : 1 .. l \subseteq 1 .. m
    OBVIOUS
  <2> QED
    BY <1>4, <2>1 DEF Kept
<1>6. ASSUME ~t
      PROVE  Len(a) = c + d /\ \A i \in 1 .. d : a[c + i] = m + i
  BY <1>1, <1>2, <1>6 DEF Grown, IsCapture
<1>7. ASSUME ~t
      PROVE  Kept(a, gone, n)
  <2>1. \A i \in 1 .. n : i \in 1 .. m \/ \E k \in 1 .. d : i = m + k
    <3>1. \A i \in 1 .. n : i \notin 1 .. m => i - m \in 1 .. d /\ i = m + (i - m)
      BY <1>2
    <3> QED
      BY <3>1
  <2>2. \A k \in 1 .. d : m + k \in Range(a)
    <3>1. \A k \in 1 .. d : c + k \in DOMAIN a
      BY <1>3, <1>6, <1>7
    <3> QED
      BY <1>6, <1>7, <3>1 DEF Range
  <2> QED
    BY <1>4, <2>1, <2>2 DEF Kept
<1>8. ASSUME ~t, Ordered(q, m)
      PROVE  Ordered(a, n)
  <2>1. /\ \A i \in 1 .. c : a[i] = q[i] /\ q[i] \in 1 .. m
        /\ \A i \in 1 .. d : a[c + i] = m + i
        /\ DOMAIN a = 1 .. c + d
    BY <1>3, <1>6, <1>8 DEF Ordered, Range
  <2>2. \A i \in 1 .. c + d : i \in 1 .. c \/ (i - c \in 1 .. d /\ i = c + (i - c))
    OBVIOUS
  <2>3. \A i \in 1 .. c + d : ~(i \in 1 .. c) => a[i] = m + (i - c)
    BY <2>1, <2>2
  <2>4. \A i \in 1 .. c + d : a[i] \in 1 .. n
    <3>1. ASSUME NEW i \in 1 .. c + d
          PROVE  a[i] \in 1 .. n
      <4>1. CASE i \in 1 .. c
        BY <2>1, <4>1
      <4>2. CASE i \notin 1 .. c
        BY <1>2, <2>2, <2>3, <4>2
      <4> QED
        BY <4>1, <4>2
    <3> QED
      BY <3>1
  <2>5. ASSUME NEW j \in 1 .. c + d, NEW k \in 1 .. c + d, j < k
        PROVE  a[j] = Silence \/ a[k] = Silence \/ a[j] < a[k]
    <3>1. CASE k \in 1 .. c
      <4>1. j \in 1 .. c
        BY <2>5, <3>1
      <4>2. q[j] = Silence \/ q[k] = Silence \/ q[j] < q[k]
        BY <1>3, <1>8, <2>5, <3>1, <4>1 DEF Ordered, InCaptureOrder
      <4> QED
        BY <2>1, <3>1, <4>1, <4>2
    <3>2. CASE k \notin 1 .. c
      <4>1. a[k] = m + (k - c) /\ k - c \in 1 .. d
        BY <2>2, <2>3, <3>2
      <4>2. CASE j \in 1 .. c
        <5>1. a[j] \in 1 .. m
          BY <2>1, <4>2
        <5> QED
          BY <4>1, <5>1
      <4>3. CASE j \notin 1 .. c
        <5>1. a[j] = m + (j - c)
          BY <2>3, <4>3
        <5> QED
          BY <2>5, <4>1, <5>1
      <4> QED
        BY <4>2, <4>3
    <3> QED
      BY <3>1, <3>2
  <2> QED
    BY <2>1, <2>4, <2>5 DEF Ordered, InCaptureOrder, Range
<1> QED
  BY <1>5, <1>7, <1>8

\* Nothing is captured when the rig starts, and so nothing is skipped.
LEMMA MicInitially == Init => MicPlaces /\ MicReads
<1> SUFFICES ASSUME Init PROVE MicPlaces /\ MicReads
  OBVIOUS
<1>1. /\ game = "free" /\ captured = 0 /\ base = 0 /\ lastRead = 0 /\ frame = <<>>
      /\ upTo = 0 /\ sent = <<>>
  BY DEF Init, MicInit
<1>2. Place(0, 0) = 0
  <2>1. 0 = ClipSamples * 0 + 0 /\ 0 \in 0 .. ClipSamples - 1 /\ 0 - 0 = 0
    BY MicAssumption
  <2> QED
    BY <2>1, MicAssumption, RemainderUnique DEF Place
<1>3. MicPlaces
  BY <1>1, <1>2, MicAssumption DEF MicPlaces
<1>4. Read(0)
  <2>1. sent \o frame = <<>>
    BY <1>1
  <2>2. Kept(<<>>, given, 0)
    BY DEF Kept
  <2>3. Ordered(<<>>, 0)
    BY DEF Ordered, InCaptureOrder, Range
  <2> QED
    BY <2>1, <2>2, <2>3 DEF Read
<1> QED
  BY <1>1, <1>3, <1>4 DEF MicReads

\* What leaves the microphone alone.
LEMMA MicRests ==
  ASSUME MicInv, UNCHANGED <<micVars, micHistory>>, (game = "pump") <=> (game' = "pump")
  PROVE  MicPlaces' /\ MicReads'
<1>1. /\ recording' = recording /\ captured' = captured /\ base' = base /\ lastRead' = lastRead
      /\ frame' = frame /\ todo' = todo /\ position' = position /\ upTo' = upTo /\ aim' = aim
      /\ sent' = sent /\ given' = given /\ lapped' = lapped /\ failed' = failed /\ threw' = threw
  BY DEF micVars, micHistory
<1>2. MicPlaces'
  BY <1>1 DEF MicInv, MicPlaces
<1>3. MicReads'
  BY <1>1 DEF MicInv, MicReads, Read
<1> QED
  BY <1>2, <1>3

\* The clip is started: nothing is in it.
LEMMA MicStarts ==
  ASSUME MicInv, StartCapture
  PROVE  MicPlaces' /\ MicReads'
<1>1. /\ game = "free" /\ ~recording /\ frame = <<>> /\ upTo = captured
      /\ captured \in Nat
  BY MicAssumption DEF StartCapture, MicInv, MicPlaces, TypeOK
<1>2. PICK c : c = captured
  OBVIOUS
<1>3. /\ game' = "free" /\ recording' /\ base' = c /\ lastRead' = 0 /\ frame' = <<>>
      /\ upTo' = c /\ captured' = c /\ sent' = sent /\ given' = given
      /\ lapped' = lapped /\ failed' = failed /\ threw' = threw
  BY <1>1, <1>2 DEF StartCapture
<1>4. Place(c, c) = 0
  <2>1. 0 = ClipSamples * 0 + 0 /\ 0 \in 0 .. ClipSamples - 1 /\ c - c = 0
    BY <1>1, <1>2, MicAssumption
  <2> QED
    BY <2>1, MicAssumption, RemainderUnique DEF Place
<1>5. MicPlaces'
  <2>1. c \in c .. c /\ c - c <= ClipSamples
    BY <1>1, <1>2, MicAssumption
  <2> QED
    BY <1>3, <1>4, <2>1 DEF MicPlaces
<1>6. MicReads'
  BY <1>1, <1>2, <1>3 DEF MicInv, MicReads, Read
<1> QED
  BY <1>5, <1>6

\* What a stop gives up is all that was captured and not sent.
LEMMA MicStops ==
  ASSUME MicInv, StopCapture
  PROVE  MicPlaces' /\ MicReads'
<1>1. /\ game = "free" /\ recording /\ captured \in Nat /\ base \in 0 .. captured
      /\ upTo \in base .. captured
      /\ sent \in Seq(Sounds) /\ frame \in Seq(Sounds)
  BY MicAssumption DEF StopCapture, MicInv, MicPlaces, TypeOK
<1>2. PICK c : c = captured
  OBVIOUS
<1>3. PICK gone : gone = given \cup Range(frame) \cup (upTo + 1 .. captured)
  OBVIOUS
<1>4. /\ game' = "free" /\ recording' = FALSE /\ base' = base /\ lastRead' = 0 /\ frame' = <<>>
      /\ upTo' = c /\ captured' = c /\ sent' = sent /\ given' = gone
      /\ lapped' = lapped /\ failed' = failed /\ threw' = threw
  BY <1>1, <1>2, <1>3 DEF StopCapture
<1>5. MicPlaces'
  <2>1. c \in base .. c /\ c - c <= ClipSamples
    BY <1>1, <1>2, MicAssumption
  <2> QED
    BY <1>4, <2>1 DEF MicPlaces
<1>6. PICK q \in Seq(Sounds) : q = sent \o frame
  BY <1>1, ConcatProperties
<1>7. PICK n \in Nat : n = Len(sent)
  BY <1>1, LenProperties
<1>8. PICK l \in Nat : l = Len(frame)
  BY <1>1, LenProperties
<1>9. /\ DOMAIN q = 1 .. n + l /\ DOMAIN sent = 1 .. n /\ DOMAIN frame = 1 .. l
      /\ \A i \in 1 .. n + l : q[i] = IF i <= n THEN sent[i] ELSE frame[i - n]
  BY <1>1, <1>6, <1>7, <1>8, LenProperties, ConcatProperties
<1>10. Range(sent) \subseteq Range(q) /\ Range(q) \subseteq Range(sent) \cup Range(frame)
  <2>1. \A i \in 1 .. n : i \in 1 .. n + l /\ i <= n
    OBVIOUS
  <2>2. \A i \in 1 .. n + l : i \in 1 .. n \/ (~(i <= n) /\ i - n \in 1 .. l)
    OBVIOUS
  <2>3. \A i \in 1 .. n : sent[i] = q[i]
    BY <1>9, <2>1
  <2>4. \A i \in 1 .. n + l : q[i] \in Range(sent) \cup Range(frame)
    <3>1. ASSUME NEW i \in 1 .. n + l
          PROVE  q[i] \in Range(sent) \cup Range(frame)
      <4>1. CASE i \in 1 .. n
        BY <1>9, <2>3, <4>1 DEF Range
      <4>2. CASE i \notin 1 .. n
        <5>1. i - n \in 1 .. l /\ q[i] = frame[i - n]
          BY <1>9, <2>2, <4>2
        <5> QED
          BY <1>9, <5>1 DEF Range
      <4> QED
        BY <4>1, <4>2
    <3> QED
      BY <3>1
  <2> QED
    BY <1>9, <2>1, <2>3, <2>4 DEF Range
<1>11. sent \o <<>> = sent
  BY <1>1, ConcatEmptySeq
<1>12. ASSUME Kept(q, given, upTo)
       PROVE  Kept(sent, gone, c)
  <2>1. \A i \in 1 .. c : i \in 1 .. upTo \/ i \in upTo + 1 .. captured
    BY <1>1, <1>2
  <2> QED
    BY <1>3, <1>10, <1>12, <2>1 DEF Kept
<1>13. ASSUME Ordered(q, upTo)
       PROVE  Ordered(sent, c)
  <2>1. 1 .. upTo \subseteq 1 .. c
    BY <1>1, <1>2
  <2>2. Range(sent) \subseteq 1 .. c
    BY <1>10, <1>13, <2>1 DEF Ordered
  <2>3. \A i \in 1 .. n : i \in 1 .. n + l /\ sent[i] = q[i]
    BY <1>9
  <2>4. InCaptureOrder(sent)
    BY <1>9, <1>13, <2>3 DEF Ordered, InCaptureOrder
  <2> QED
    BY <2>2, <2>4 DEF Ordered
<1>14. MicReads'
  <2>1. ~lapped /\ ~failed => Kept(q, given, upTo) /\ (~threw => Ordered(q, upTo))
    BY <1>1, <1>6 DEF MicInv, MicReads, Read
  <2>2. ~lapped /\ ~failed => Kept(sent \o <<>>, gone, c) /\ (~threw => Ordered(sent \o <<>>, c))
    BY <1>11, <1>12, <1>13, <2>1
  <2> QED
    BY <1>4, <2>2 DEF MicReads, Read
<1> QED
  BY <1>5, <1>14

\* The hardware captures a sample more.
LEMMA MicCaptures ==
  ASSUME MicInv, Capture
  PROVE  MicPlaces' /\ MicReads'
<1>1. /\ recording /\ captured \in Nat /\ base \in 0 .. captured /\ upTo \in base .. captured
  BY MicAssumption DEF Capture, MicInv, MicPlaces, TypeOK
<1>2. PICK c : c = captured'
  OBVIOUS
<1>3. c = captured + 1
  BY <1>2 DEF Capture
<1>4. /\ game' = game /\ recording' = recording /\ base' = base /\ lastRead' = lastRead
      /\ frame' = frame /\ todo' = todo /\ position' = position /\ upTo' = upTo /\ aim' = aim
      /\ sent' = sent /\ given' = given /\ failed' = failed /\ threw' = threw
      /\ lapped' = (lapped \/ c - upTo > ClipSamples)
  BY <1>2 DEF Capture
<1>5. MicPlaces'
  <2>1. upTo \in base .. c /\ (~(c - upTo > ClipSamples) => c - upTo <= ClipSamples)
    BY <1>1, <1>3, MicAssumption
  <2>2. game = "pump" => aim \in upTo .. c /\ position = Place(base, aim)
    <3>1. game = "pump" => aim \in upTo .. captured /\ position = Place(base, aim)
      BY DEF MicInv, MicPlaces
    <3>2. upTo .. captured \subseteq upTo .. c
      BY <1>1, <1>3
    <3> QED
      BY <3>1, <3>2
  <2>3. lastRead = Place(base, upTo)
    BY <1>1 DEF MicInv, MicPlaces
  <2> QED
    BY <1>1, <1>2, <1>4, <2>1, <2>2, <2>3 DEF MicPlaces
<1>6. MicReads'
  BY <1>4 DEF MicInv, MicReads, Read
<1> QED
  BY <1>5, <1>6

\* Update sets out to read what has come since the last time.
LEMMA MicPumpStarts ==
  ASSUME MicInv, PumpStart
  PROVE  MicPlaces' /\ MicReads'
<1>1. /\ game = "free" /\ recording /\ captured \in Nat /\ base \in 0 .. captured
      /\ upTo \in base .. captured /\ lastRead = Place(base, upTo)
      /\ ~lapped => captured - upTo <= ClipSamples
  BY MicAssumption DEF PumpStart, MicInv, MicPlaces, TypeOK
<1>2. PICK c : c = captured
  OBVIOUS
<1>3. Position = Place(base, c)
  BY <1>2 DEF Position, Place
<1>4. /\ game' = "pump" /\ position' = Place(base, c) /\ aim' = c /\ captured' = c
      /\ todo' = Segments(Place(base, upTo), Place(base, c)) /\ Place(base, c) # Place(base, upTo)
      /\ recording' = recording /\ base' = base /\ lastRead' = lastRead
      /\ frame' = frame /\ upTo' = upTo
      /\ sent' = sent /\ given' = given /\ lapped' = lapped /\ failed' = failed /\ threw' = threw
  BY <1>1, <1>2, <1>3 DEF PumpStart
<1>5. MicPlaces'
  <2>1. c \in upTo .. c
    BY <1>1, <1>2
  <2> QED
    BY <1>1, <1>2, <1>4, <2>1 DEF MicPlaces
<1>6. ASSUME ~lapped, ~failed
      PROVE  Spans(Segments(Place(base, upTo), Place(base, c)), base, upTo, c) /\ Read(upTo)
  <2>1. /\ base \in Nat /\ upTo \in Nat /\ c \in Nat /\ base <= upTo /\ upTo <= c
        /\ c - upTo <= ClipSamples
    BY <1>1, <1>2, <1>6
  <2>2. Spans(Segments(Place(base, upTo), Place(base, c)), base, upTo, c)
    BY <1>4, <2>1, SegmentsSpan
  <2> QED
    BY <1>1, <1>6, <2>2 DEF MicInv, MicReads
<1>7. MicReads'
  <2>1. upTo \in upTo .. c
    BY <1>1, <1>2
  <2> QED
    BY <1>4, <1>6, <2>1 DEF MicReads, Read
<1> QED
  BY <1>5, <1>7

\* Update reads a chunk.  If the engine refuses a frame it gives up, and what it
\* has read is read again another time.
LEMMA MicPumps ==
  ASSUME MicInv, PumpChunk
  PROVE  MicPlaces' /\ MicReads'
<1>1. /\ game = "pump" /\ todo # <<>> /\ recording /\ captured \in Nat /\ base \in 0 .. captured
      /\ upTo \in base .. captured /\ aim \in upTo .. captured
      /\ todo \in Seq(Int \X Int) /\ sent \in Seq(Sounds) /\ frame \in Seq(Sounds)
  BY MicAssumption DEF PumpChunk, MicInv, MicPlaces, TypeOK
<1>2. PICK s : s = Samples(Head(todo))
  OBVIOUS
<1>3. s \in Seq(Sounds)
  <2>1. Head(todo) \in Int \X Int
    BY <1>1, HeadTailProperties
  <2> QED
    BY <1>2, <2>1, SamplesType DEF MicInv
<1>4. PICK x : x = Accumulated(s)
  OBVIOUS
<1>5. PICK t : t = x.threw
  OBVIOUS
<1>6. PICK q \in Seq(Sounds) : q = sent \o frame
  BY <1>1, ConcatProperties
<1>7. PICK a : a = All(x)
  OBVIOUS
<1>8. x \in Feeds /\ Grown(a, t, q, s, Len(s))
  BY <1>3, <1>4, <1>5, <1>6, <1>7, AccumulatedTakes DEF MicInv
<1>9. t \in BOOLEAN
  BY <1>5, <1>8 DEF Feeds
<1>10. /\ recording' = recording /\ captured' = captured /\ base' = base /\ lastRead' = lastRead
       /\ position' = position /\ upTo' = upTo /\ aim' = aim /\ given' = given
       /\ lapped' = lapped /\ failed' = failed /\ threw' = (threw \/ t)
       /\ t => game' = "free" /\ todo' = <<>>
       /\ ~t => game' = "pump" /\ todo' = Tail(todo)
  BY <1>2, <1>4, <1>5 DEF PumpChunk
<1>11. sent' \o frame' = a
  BY <1>2, <1>4, <1>7 DEF PumpChunk, All
<1>12. MicPlaces'
  <2>1. game = "pump" => aim \in upTo .. captured /\ position = Place(base, aim)
    BY DEF MicInv, MicPlaces
  <2> QED
    BY <1>1, <1>10, <2>1 DEF MicInv, MicPlaces
<1>13. ASSUME ~lapped, ~failed
       PROVE  /\ t => Kept(a, given, upTo)
              /\ ~t => \E n \in upTo .. aim : /\ Spans(Tail(todo), base, n, aim)
                                              /\ Kept(a, given, n)
                                              /\ ~threw => Ordered(a, n)
  <2>1. captured - upTo <= ClipSamples
    BY <1>13 DEF MicInv, MicPlaces
  <2>2. PICK m \in upTo .. aim : Spans(todo, base, m, aim) /\ Read(m)
    BY <1>1, <1>13 DEF MicInv, MicReads
  <2>3. m \in Nat /\ aim \in Nat
    BY <1>1
  <2>4. PICK n \in 0 .. aim : m < n /\ Piece(Head(todo), base, m, n) /\ Spans(Tail(todo), base, n, aim)
    BY <1>1, <2>2, <2>3, SpansTail
  <2>5. /\ n \in Nat /\ m <= n /\ base \in Nat /\ base <= m /\ n <= captured
        /\ captured - m <= ClipSamples /\ n \in upTo .. aim /\ upTo \in 0 .. m
    BY <1>1, <2>1, <2>3, <2>4, MicAssumption
  <2>6. IsCapture(s, m, n)
    BY <1>2, <2>3, <2>4, <2>5, SamplesOfPiece DEF MicInv
  <2>7. Kept(q, given, m) /\ (~threw => Ordered(q, m))
    BY <1>6, <2>2 DEF Read
  <2>8. Kept(q, given, m)
    BY <2>7
  <2>9. /\ \A l \in 0 .. m : Kept(a, given, l)
        /\ ~t => Kept(a, given, n)
        /\ ~t /\ Ordered(q, m) => Ordered(a, n)
    <3>1. m \in Nat /\ n \in Nat /\ m <= n
      BY <2>3, <2>5
    <3>2. q \in Seq(Sounds) /\ s \in Seq(Sounds) /\ Grown(a, t, q, s, Len(s))
      BY <1>3, <1>8
    <3>3. PICK gone : gone = given
      OBVIOUS
    <3>4. Kept(q, gone, m)
      BY <2>8, <3>3
    <3>5. /\ \A l \in 0 .. m : Kept(a, gone, l)
          /\ ~t => Kept(a, gone, n)
          /\ ~t /\ Ordered(q, m) => Ordered(a, n)
      BY <2>6, <3>1, <3>2, <3>4, ReadMore
    <3> QED
      BY <3>3, <3>5
  <2>10. t => Kept(a, given, upTo)
    BY <2>5, <2>9
  <2>11. ~t => Kept(a, given, n) /\ (~threw => Ordered(a, n))
    BY <2>7, <2>9, Zenon
  <2> QED
    BY <2>4, <2>5, <2>10, <2>11, Zenon
<1>14. MicReads'
  <2>1. CASE t
    <3>1. game' = "free" /\ threw' = TRUE
      BY <1>10, <2>1
    <3>2. ~lapped /\ ~failed => Kept(a, given, upTo)
      BY <1>13, <2>1
    <3> QED
      BY <1>10, <1>11, <3>1, <3>2 DEF MicReads, Read
  <2>2. CASE ~t
    <3>1. game' = "pump" /\ (~threw' => ~threw) /\ todo' = Tail(todo)
      BY <1>10, <2>2
    <3>2. ~lapped /\ ~failed =>
            \E n \in upTo .. aim : /\ Spans(Tail(todo), base, n, aim)
                                   /\ Kept(a, given, n)
                                   /\ ~threw => Ordered(a, n)
      BY <1>13, <2>2
    <3> QED
      BY <1>10, <1>11, <3>1, <3>2 DEF MicReads, Read
  <2> QED
    BY <2>1, <2>2
<1> QED
  BY <1>12, <1>14

\* A chunk cannot be read, or all of them have been.
LEMMA MicPumpEnds ==
  ASSUME MicInv, PumpChunkFails \/ PumpEnd
  PROVE  MicPlaces' /\ MicReads'
<1>1. CASE PumpChunkFails
  <2>1. MicPlaces'
    BY <1>1 DEF PumpChunkFails, MicInv, MicPlaces
  <2>2. MicReads'
    BY <1>1 DEF PumpChunkFails, MicReads
  <2> QED
    BY <2>1, <2>2
<1>2. CASE PumpEnd
  <2>1. /\ game = "pump" /\ todo = <<>> /\ recording /\ captured \in Nat
        /\ base \in 0 .. captured /\ upTo \in base .. captured /\ aim \in upTo .. captured
        /\ position = Place(base, aim) /\ (~lapped => captured - upTo <= ClipSamples)
        /\ todo \in Seq(Int \X Int)
    BY <1>2, MicAssumption DEF PumpEnd, MicInv, MicPlaces, TypeOK
  <2>2. PICK n : n = aim
    OBVIOUS
  <2>3. /\ game' = "free" /\ lastRead' = Place(base, n) /\ upTo' = n /\ captured' = captured
        /\ recording' = recording /\ base' = base /\ frame' = frame
        /\ sent' = sent /\ given' = given /\ lapped' = lapped /\ failed' = failed /\ threw' = threw
    BY <1>2, <2>1, <2>2 DEF PumpEnd
  <2>4. MicPlaces'
    <3>1. n \in base .. captured /\ (~lapped => captured - n <= ClipSamples)
      BY <2>1, <2>2, MicAssumption
    <3> QED
      BY <2>1, <2>3, <3>1 DEF MicPlaces
  <2>5. ASSUME ~lapped, ~failed
        PROVE  Read(n)
    <3>1. PICK m \in upTo .. aim : Spans(todo, base, m, aim) /\ Read(m)
      BY <2>1, <2>5 DEF MicInv, MicReads
    <3>2. m \in Nat /\ aim \in Nat
      BY <2>1
    <3>3. m = aim
      BY <2>1, <3>1, <3>2, SpansTail
    <3> QED
      BY <2>2, <3>1, <3>3
  <2>6. MicReads'
    BY <2>3, <2>5 DEF MicReads, Read
  <2> QED
    BY <2>4, <2>6
<1> QED
  BY <1>1, <1>2

\* The microphone's invariant is inductive.
LEMMA MicAlways == Spec => []MicInv
<1>1. Init => MicInv
  BY TypeInit, MicInitially DEF MicInv
<1>2. MicInv /\ [Next]_vars => MicInv'
  <2> SUFFICES ASSUME MicInv, [Next]_vars PROVE MicInv'
    OBVIOUS
  <2>1. TypeOK'
    BY TypeStep DEF MicInv
  <2>2. CASE StartCapture
    BY <2>1, <2>2, MicStarts DEF MicInv
  <2>3. CASE StopCapture
    BY <2>1, <2>3, MicStops DEF MicInv
  <2>4. CASE Capture
    BY <2>1, <2>4, MicCaptures DEF MicInv
  <2>5. CASE PumpStart
    BY <2>1, <2>5, MicPumpStarts DEF MicInv
  <2>6. CASE PumpChunk
    BY <2>1, <2>6, MicPumps DEF MicInv
  <2>7. CASE PumpChunkFails \/ PumpEnd
    BY <2>1, <2>7, MicPumpEnds DEF MicInv
  <2>8. CASE UNCHANGED <<micVars, micHistory>> /\ ((game = "pump") <=> (game' = "pump"))
    BY <2>1, <2>8, MicRests DEF MicInv
  <2>9. \/ StartCapture \/ StopCapture \/ Capture \/ PumpStart \/ PumpChunk \/ PumpChunkFails
        \/ PumpEnd
        \/ UNCHANGED <<micVars, micHistory>> /\ ((game = "pump") <=> (game' = "pump"))
    <3>1. CASE Connect \/ Disconnect \/ Clear
      BY <3>1 DEF Connect, Disconnect, Clear
    <3>2. CASE LateUpdate
      <4>1. UNCHANGED <<micVars, micHistory>> /\ game = "free" /\ game' \in {"free", "queue"}
        BY <3>2, Zenon DEF LateUpdate
      <4> QED
        BY <4>1
    <3>3. CASE FindBuffer
      BY <3>3 DEF FindBuffer
    <3>4. CASE Enqueue
      BY <3>4 DEF Enqueue
    <3>5. CASE OnAudioRead
      BY <3>5 DEF OnAudioRead
    <3>6. CASE UNCHANGED vars
      BY <3>6 DEF vars
    <3>7. CASE MicCall \/ MicRuns \/ Pump
      BY <3>7 DEF MicCall, MicRuns, Pump
    <3> QED
      BY <3>1, <3>2, <3>3, <3>4, <3>5, <3>6, <3>7 DEF Next
  <2> QED
    BY <2>2, <2>3, <2>4, <2>5, <2>6, <2>7, <2>8, <2>9
<1> QED
  BY <1>1, <1>2, PTL DEF Spec

\* Whatever the sizes of the clip, the chunks and the frames, a frame the engine
\* refuses is kept, and no sample up to the read position is skipped
\* (ResidualVoiceMicInput.cs:331-333, 419-424).
THEOREM RefusedKept == Spec => []RefusedIsKept
<1>1. MicInv => RefusedIsKept
  <2> SUFFICES ASSUME MicInv, ~lapped, ~failed
               PROVE  1 .. upTo \subseteq Range(sent \o frame) \cup given
    BY DEF RefusedIsKept
  <2>1. CASE game = "pump"
    <3>1. PICK m \in upTo .. aim : Read(m)
      BY <2>1 DEF MicInv, MicReads
    <3>2. upTo \in Int /\ aim \in Int
      BY <2>1, MicAssumption DEF MicInv, MicPlaces, TypeOK
    <3>3. 1 .. upTo \subseteq 1 .. m
      BY <3>1, <3>2
    <3> QED
      BY <3>1, <3>3 DEF Read, Kept
  <2>2. CASE game # "pump"
    BY <2>2 DEF MicInv, MicReads, Read, Kept
  <2> QED
    BY <2>1, <2>2
<1> QED
  BY <1>1, MicAlways, PTL

\* And, as long as none is refused, the frames are the capture: each sample in one
\* frame, in order, with no other among them (ResidualVoiceMicInput.cs:281-437).
THEOREM FramesFollowCapture == Spec => []FramesAreTheCapture
<1>1. MicInv /\ RefusedIsKept => FramesAreTheCapture
  <2> SUFFICES ASSUME MicInv, RefusedIsKept, ~lapped, ~failed, ~threw
               PROVE  /\ InCaptureOrder(sent \o frame) /\ Silence \notin Range(sent \o frame)
                      /\ 1 .. upTo \subseteq Range(sent \o frame) \cup given
    BY DEF FramesAreTheCapture
  <2>1. \E n : Read(n)
    <3>1. CASE game = "pump"
      BY <3>1 DEF MicInv, MicReads
    <3>2. CASE game # "pump"
      BY <3>2 DEF MicInv, MicReads
    <3> QED
      BY <3>1, <3>2
  <2>2. PICK n : Ordered(sent \o frame, n)
    BY <2>1 DEF Read
  <2>3. \A k \in 1 .. n : k # Silence
    BY DEF Silence
  <2> QED
    BY <2>2, <2>3 DEF Ordered, RefusedIsKept
<1> QED
  BY <1>1, MicAlways, RefusedKept, PTL

--------------------------------------------------------------------------------
(* What is heard.                                                             *)

\* The frames that entered the ring, in the order of the numbers they were or will
\* be given: samples of S, each later than all before it.
Rising(w, S) ==
  /\ \A i \in 1 .. Len(w) : \A a \in 1 .. FrameSamples : w[i][a] \in S /\ w[i][a] # Silence
  /\ \A i \in 1 .. Len(w) : \A a, b \in 1 .. FrameSamples : a < b => w[i][a] < w[i][b]
  /\ \A i, j \in 1 .. Len(w) : i < j => \A a, b \in 1 .. FrameSamples : w[i][a] < w[j][b]

\* The jitter buffer holds frames of w, of the first n, and none that it has passed.
InPlace(j, n, w) ==
  /\ j.nextPlay <= n /\ (~j.started => j.nextPlay = 0)
  /\ \A k \in Jitter!Slots : j.packets[k].valid =>
       /\ j.started /\ k = Jitter!SlotForSeq(j.packets[k].seq)
       /\ j.packets[k].seq \in j.nextPlay .. n - 1
       /\ j.packets[k].payload = w[j.packets[k].seq + 1]

\* The packets of p after the m-th bring it frames of w, of the first n, that it has
\* not passed and that are younger than those it has, in order.
Coming(j, p, m, n, w) ==
  \A a \in m + 1 .. Len(p) : p[a].type = "voice" =>
    /\ p[a].seq \in j.nextPlay .. n - 1 /\ p[a].flags = w[p[a].seq + 1]
    /\ \A k \in Jitter!Slots : j.packets[k].valid => j.packets[k].seq < p[a].seq
    /\ \A b \in a + 1 .. Len(p) : p[b].type = "voice" => p[a].seq < p[b].seq

\* What h has is older than all frames of w after the m-th.
Behind(h, m, w) ==
  \A x \in DOMAIN h : \A i \in m + 1 .. Len(w) : \A a \in 1 .. FrameSamples : h[x] < w[i][a]

\* Every number has a slot, and there is a next one; before they wrap, it is the
\* next number.
LEMMA NumbersKept ==
  \A n \in SeqNos : /\ Jitter!SlotForSeq(n) \in Jitter!Slots /\ Jitter!NextSeq(n) \in SeqNos
                    /\ n + 1 < SeqMod => Jitter!NextSeq(n) = n + 1
<1>1. \A n \in SeqNos : Jitter!SlotForSeq(n) \in Jitter!Slots /\ Jitter!NextSeq(n) \in SeqNos
  BY RemainderRange, PlaybackAssumption DEF SeqNos, Jitter!SlotForSeq, Jitter!Slots, Jitter!NextSeq
<1>2. ASSUME NEW n \in SeqNos, n + 1 < SeqMod
      PROVE  Jitter!NextSeq(n) = n + 1
  <2>1. n + 1 \in 0 .. SeqMod - 1 /\ n + 1 \in Nat /\ n + 1 = SeqMod * 0 + (n + 1)
    BY <1>2, PlaybackAssumption DEF SeqNos
  <2> QED
    BY <2>1, PlaybackAssumption, RemainderUnique DEF Jitter!NextSeq
<1> QED
  BY <1>1, <1>2

\* A packet of voice that comes in is put where it belongs.
LEMMA IngestKeeps ==
  ASSUME NEW n \in Nat, NEW w, NEW j \in Jitters, NEW p \in Seq(Packets),
         NEW m \in 1 .. Len(p), InPlace(j, n, w), Coming(j, p, m - 1, n, w)
  PROVE  /\ InPlace(Ingested(j, p[m]), n, w) /\ Coming(Ingested(j, p[m]), p, m, n, w)
         /\ Ingested(j, p[m]).nextPlay >= j.nextPlay
<1>1. PICK e \in Packets : e = p[m]
  BY ElementOfSeq
<1>2. m \in Nat /\ Len(p) \in Nat /\ (m - 1) + 1 = m /\ m \in (m - 1) + 1 .. Len(p)
  BY LenProperties
<1>3. j.nextPlay \in Nat
  BY PlaybackAssumption DEF Jitters, SeqNos
<1>4. CASE e.type = "join"
  <2>1. Ingested(j, e) = j
    BY <1>4 DEF Ingested
  <2>2. \A a \in m + 1 .. Len(p) : a \in (m - 1) + 1 .. Len(p)
    BY <1>2
  <2>3. Coming(j, p, m, n, w)
    BY <2>2 DEF Coming
  <2> QED
    BY <1>1, <1>3, <2>1, <2>3
<1>5. CASE e.type # "join"
  <2>1. e.seq \in SeqNos /\ e.flags \in Frames /\ e.type = "voice"
    BY <1>5, PacketParts DEF Packets, JoinPackets, VoicePackets, Session!JoinPacket
  <2>2. PICK t \in Nat : t = e.seq
    BY <2>1, PlaybackAssumption DEF SeqNos
  <2>3. /\ t \in j.nextPlay .. n - 1 /\ e.flags = w[t + 1]
        /\ \A k \in Jitter!Slots : j.packets[k].valid => j.packets[k].seq < t
        /\ \A b \in m + 1 .. Len(p) : p[b].type = "voice" => t < p[b].seq
    BY <1>1, <1>2, <2>1, <2>2, Zenon DEF Coming
  <2>4. PICK s \in Jitter!Slots : s = Jitter!SlotForSeq(t)
    BY <2>1, <2>2, NumbersKept
  <2>5. PICK next : next = IF j.started THEN j.nextPlay ELSE t
    OBVIOUS
  <2>6. PICK x : x = [seq |-> t, valid |-> TRUE, payload |-> e.flags]
    OBVIOUS
  <2>7. PICK y : y = [j.packets EXCEPT ![s] = x]
    OBVIOUS
  <2>8. PICK i : i = Ingested(j, e)
    OBVIOUS
  <2>9. i = [packets |-> y, nextPlay |-> next, started |-> TRUE]
    BY <1>5, <2>2, <2>4, <2>5, <2>6, <2>7, <2>8 DEF Ingested, Jitter!Stored
  <2>10. i.packets = y /\ i.nextPlay = next /\ i.started = TRUE
    BY <2>9
  <2>11. /\ y[s].valid /\ y[s].seq = t /\ y[s].payload = e.flags
         /\ \A k \in Jitter!Slots : k # s => y[k] = j.packets[k]
    BY <2>6, <2>7 DEF Jitters
  <2>12. next \in Nat /\ j.nextPlay <= next /\ next <= t /\ t <= n - 1
         /\ (j.started => next = j.nextPlay)
    BY <1>3, <2>3, <2>5 DEF InPlace
  <2>13. /\ j.nextPlay <= n
         /\ \A k \in Jitter!Slots : j.packets[k].valid =>
              /\ j.started /\ k = Jitter!SlotForSeq(j.packets[k].seq)
              /\ j.packets[k].seq \in j.nextPlay .. n - 1
              /\ j.packets[k].payload = w[j.packets[k].seq + 1]
    BY DEF InPlace
  <2>14. InPlace(i, n, w)
    <3>1. ASSUME NEW k \in Jitter!Slots, y[k].valid
          PROVE  /\ k = Jitter!SlotForSeq(y[k].seq) /\ y[k].seq \in next .. n - 1
                 /\ y[k].payload = w[y[k].seq + 1]
      <4>1. CASE k = s
        BY <2>3, <2>4, <2>11, <2>12, <4>1
      <4>2. CASE k # s
        BY <2>11, <2>12, <2>13, <3>1, <4>2
      <4> QED
        BY <4>1, <4>2
    <3>2. next <= n
      BY <2>12
    <3> QED
      BY <2>10, <3>1, <3>2, Zenon DEF InPlace
  <2>15. Coming(i, p, m, n, w)
    <3>1. ASSUME NEW a \in m + 1 .. Len(p), p[a].type = "voice"
          PROVE  /\ p[a].seq \in next .. n - 1 /\ p[a].flags = w[p[a].seq + 1]
                 /\ \A k \in Jitter!Slots : y[k].valid => y[k].seq < p[a].seq
                 /\ \A b \in a + 1 .. Len(p) : p[b].type = "voice" => p[a].seq < p[b].seq
      <4>1. a \in (m - 1) + 1 .. Len(p)
        BY <1>2
      <4>2. /\ p[a].seq \in j.nextPlay .. n - 1 /\ p[a].flags = w[p[a].seq + 1]
            /\ \A k \in Jitter!Slots : j.packets[k].valid => j.packets[k].seq < p[a].seq
            /\ \A b \in a + 1 .. Len(p) : p[b].type = "voice" => p[a].seq < p[b].seq
        BY <3>1, <4>1, Zenon DEF Coming
      <4>3. t < p[a].seq
        BY <2>3, <3>1
      <4>4. p[a].seq \in next .. n - 1
        BY <1>3, <2>2, <2>12, <4>2, <4>3
      <4>5. \A k \in Jitter!Slots : y[k].valid => y[k].seq < p[a].seq
        BY <2>11, <4>2, <4>3
      <4> QED
        BY <4>2, <4>4, <4>5, Zenon
    <3> QED
      BY <2>10, <3>1, Zenon DEF Coming
  <2> QED
    BY <1>1, <2>8, <2>10, <2>12, <2>14, <2>15
<1> QED
  BY <1>4, <1>5
\* A turn of the speaker leaves what is behind the position: his frame, if it is not
\* concealed, is the one the position was at.
LEMMA PopKeeps ==
  ASSUME NEW n \in Nat, n < SeqMod, NEW w, NEW j \in Jitters, NEW p \in Seq(Packets),
         NEW m \in Nat, InPlace(j, n, w), Coming(j, p, m, n, w)
  PROVE  /\ InPlace(Popped(j), n, w) /\ Coming(Popped(j), p, m, n, w)
         /\ Popped(j).nextPlay >= j.nextPlay
         /\ \/ Frame(j) \in {<<>>, Concealment}
            \/ /\ j.nextPlay + 1 \in 1 .. n /\ Frame(j) = w[j.nextPlay + 1]
               /\ Popped(j).nextPlay = j.nextPlay + 1
<1>1. PICK t \in SeqNos : t = j.nextPlay
  BY DEF Jitters
<1>2. t \in Nat /\ t <= n
  BY <1>1, PlaybackAssumption DEF SeqNos, InPlace
<1>3. \A k \in Jitter!Slots : j.packets[k].valid =>
        /\ j.started /\ k = Jitter!SlotForSeq(j.packets[k].seq)
        /\ j.packets[k].seq \in t .. n - 1
        /\ j.packets[k].payload = w[j.packets[k].seq + 1]
  BY <1>1 DEF InPlace
<1>4. PICK s \in Jitter!Slots : s = Jitter!SlotForSeq(t)
  BY NumbersKept
<1>5. PICK i : i = Popped(j)
  OBVIOUS
<1>6. CASE ~Playable(j) /\ ~Concealable(j)
  <2>1. i = j /\ Frame(j) = <<>>
    BY <1>5, <1>6, Zenon DEF Popped, Frame
  <2> QED
    BY <1>1, <1>2, <1>5, <2>1
<1>7. CASE Playable(j) \/ Concealable(j)
  <2>1. PICK q \in Jitter!Slots : j.packets[q].valid
    <3>1. CASE Playable(j)
      BY <1>1, <1>4, <3>1 DEF Playable, Jitter!Holds
    <3>2. CASE Concealable(j)
      <4>1. PICK ahead \in Nat : Jitter!Holds(j.packets, (t + ahead) % SeqMod)
        BY <1>1, <3>2, PlaybackAssumption DEF Concealable, Jitter!HasFuturePacket
      <4>2. (t + ahead) % SeqMod \in SeqNos
        BY <1>2, RemainderRange, PlaybackAssumption DEF SeqNos
      <4> QED
        BY <4>1, <4>2, NumbersKept DEF Jitter!Holds
    <3> QED
      BY <1>7, <3>1, <3>2
  <2>2. j.started /\ t + 1 <= n /\ j.packets[q].seq >= t
    BY <1>2, <1>3, <2>1
  <2>3. Jitter!NextSeq(t) = t + 1
    BY <2>2, NumbersKept, PlaybackAssumption DEF SeqNos
  <2>4. PICK y : /\ i = [j EXCEPT !.packets = y, !.nextPlay = t + 1]
                 /\ Playable(j) => y = [j.packets EXCEPT ![s].valid = FALSE]
                 /\ ~Playable(j) => y = j.packets
    <3>1. CASE Playable(j)
      BY <1>1, <1>4, <1>5, <2>3, <3>1 DEF Popped, Jitter!Taken
    <3>2. CASE ~Playable(j)
      BY <1>1, <1>5, <1>7, <2>3, <3>2 DEF Popped
    <3> QED
      BY <3>1, <3>2
  <2>5. i.packets = y /\ i.nextPlay = t + 1 /\ i.started = j.started
    BY <2>4 DEF Jitters
  <2>6. \A k \in Jitter!Slots : y[k].valid => j.packets[k].valid /\ y[k] = j.packets[k] /\ j.packets[k].seq # t
    <3>1. CASE Playable(j)
      <4>1. y = [j.packets EXCEPT ![s].valid = FALSE]
        BY <2>4, <3>1
      <4>2. ~y[s].valid /\ \A k \in Jitter!Slots : k # s => y[k] = j.packets[k]
        BY <4>1 DEF Jitters, JitterSlot
      <4> QED
        BY <1>3, <1>4, <4>2
    <3>2. CASE ~Playable(j)
      <4>1. y = j.packets
        BY <2>4, <3>2
      <4>2. ~(j.packets[s].valid /\ j.packets[s].seq = t)
        BY <1>1, <1>4, <2>2, <3>2 DEF Playable, Jitter!Holds
      <4> QED
        BY <1>3, <1>4, <4>1, <4>2
    <3> QED
      BY <3>1, <3>2
  <2>7. InPlace(i, n, w)
    <3>1. ASSUME NEW k \in Jitter!Slots, y[k].valid
          PROVE  /\ j.started /\ k = Jitter!SlotForSeq(y[k].seq) /\ y[k].seq \in t + 1 .. n - 1
                 /\ y[k].payload = w[y[k].seq + 1]
      <4>1. j.packets[k].valid /\ y[k] = j.packets[k] /\ j.packets[k].seq # t
        BY <2>6, <3>1
      <4> QED
        BY <1>2, <1>3, <4>1
    <3> QED
      BY <2>2, <2>5, <3>1, Zenon DEF InPlace
  <2>8. Coming(i, p, m, n, w)
    <3>1. ASSUME NEW a \in m + 1 .. Len(p), p[a].type = "voice"
          PROVE  /\ p[a].seq \in t + 1 .. n - 1 /\ p[a].flags = w[p[a].seq + 1]
                 /\ \A k \in Jitter!Slots : y[k].valid => y[k].seq < p[a].seq
                 /\ \A b \in a + 1 .. Len(p) : p[b].type = "voice" => p[a].seq < p[b].seq
      <4>1. /\ p[a].seq \in t .. n - 1 /\ p[a].flags = w[p[a].seq + 1]
            /\ \A k \in Jitter!Slots : j.packets[k].valid => j.packets[k].seq < p[a].seq
            /\ \A b \in a + 1 .. Len(p) : p[b].type = "voice" => p[a].seq < p[b].seq
        BY <1>1, <3>1, Zenon DEF Coming
      <4>2. p[a].seq \in t + 1 .. n - 1
        BY <1>2, <1>3, <2>1, <2>2, <4>1
      <4>3. \A k \in Jitter!Slots : y[k].valid => y[k].seq < p[a].seq
        BY <2>6, <4>1
      <4> QED
        BY <4>1, <4>2, <4>3, Zenon
    <3> QED
      BY <2>5, <3>1, Zenon DEF Coming
  <2>9. \/ Frame(j) = Concealment
        \/ t + 1 \in 1 .. n /\ Frame(j) = w[t + 1]
    <3>1. CASE Playable(j)
      <4>1. j.packets[s].valid /\ j.packets[s].seq = t
        BY <1>1, <1>4, <3>1 DEF Playable, Jitter!Holds
      <4>2. j.packets[s].payload = w[t + 1]
        BY <1>3, <4>1
      <4>3. Frame(j) = j.packets[s].payload
        BY <1>1, <1>4, <3>1, Zenon DEF Frame, Concealable
      <4> QED
        BY <1>2, <2>2, <4>2, <4>3
    <3>2. CASE ~Playable(j)
      BY <1>7, <3>2, Zenon DEF Frame
    <3> QED
      BY <3>1, <3>2
  <2> QED
    BY <1>1, <1>2, <1>5, <2>5, <2>7, <2>8, <2>9
<1> QED
  BY <1>6, <1>7

\* What a part of p brings comes too.
LEMMA ComingPart ==
  ASSUME NEW n \in Nat, NEW w, NEW j \in Jitters, NEW p \in Seq(Packets), NEW m \in Nat,
         Coming(j, p, m, n, w), NEW q \in Seq(Packets), NEW c \in Nat, c >= m,
         Len(q) + c <= Len(p), \A a \in 1 .. Len(q) : q[a] = p[a + c]
  PROVE  Coming(j, q, 0, n, w)
<1>1. PICK lq \in Nat : lq = Len(q)
  BY LenProperties
<1>2. PICK lp \in Nat : lp = Len(p)
  BY LenProperties
<1>3. \A a \in 0 + 1 .. lq : a + c \in m + 1 .. lp /\ q[a] = p[a + c]
  BY <1>1, <1>2
<1>4. ASSUME NEW a \in 0 + 1 .. lq, q[a].type = "voice"
      PROVE  /\ q[a].seq \in j.nextPlay .. n - 1 /\ q[a].flags = w[q[a].seq + 1]
             /\ \A k \in Jitter!Slots : j.packets[k].valid => j.packets[k].seq < q[a].seq
             /\ \A b \in a + 1 .. lq : q[b].type = "voice" => q[a].seq < q[b].seq
  <2>1. PICK i \in m + 1 .. lp : i = a + c /\ q[a] = p[i]
    BY <1>3
  <2>2. /\ p[i].seq \in j.nextPlay .. n - 1 /\ p[i].flags = w[p[i].seq + 1]
        /\ \A k \in Jitter!Slots : j.packets[k].valid => j.packets[k].seq < p[i].seq
        /\ \A b \in i + 1 .. lp : p[b].type = "voice" => p[i].seq < p[b].seq
    BY <1>2, <1>4, <2>1, Zenon DEF Coming
  <2>3. \A b \in a + 1 .. lq : b + c \in i + 1 .. lp /\ q[b] = p[b + c]
    BY <1>1, <1>2, <1>3, <2>1
  <2> QED
    BY <2>1, <2>2, <2>3
<1> QED
  BY <1>1, <1>4, Zenon DEF Coming

\* A Tick of the transport hands over what waits, and what comes after it still comes.
LEMMA TickKeeps ==
  ASSUME NEW n \in Nat, NEW w, NEW j \in Jitters, NEW s \in Seq(Packets),
         NEW q \in Seq(Packets), InPlace(j, n, w), Coming(j, s \o q, 0, n, w)
  PROVE  /\ InPlace(IngestedAll(j, s), n, w) /\ Coming(IngestedAll(j, s), q, 0, n, w)
         /\ IngestedAll(j, s).nextPlay >= j.nextPlay
<1>1. PICK g : /\ g[0] = j /\ IngestedAll(j, s) = g[Len(s)]
               /\ \A k \in 0 .. Len(s) : g[k] \in Jitters
               /\ \A k \in 1 .. Len(s) : g[k] = Ingested(g[k - 1], s[k])
  BY IngestRuns
<1>2. PICK l \in Nat : l = Len(s)
  BY LenProperties
<1>3. PICK p \in Seq(Packets) : p = s \o q
  BY ConcatProperties
<1>4. /\ Len(q) \in Nat /\ Len(p) = l + Len(q) /\ \A k \in 1 .. l : p[k] = s[k]
      /\ \A a \in 1 .. Len(q) : q[a] = p[a + l]
  <2>1. PICK lq \in Nat : lq = Len(q)
    BY LenProperties
  <2>2. Len(p) = l + lq /\ \A k \in 1 .. l + lq : p[k] = IF k <= l THEN s[k] ELSE q[k - l]
    BY <1>2, <1>3, <2>1, ConcatProperties
  <2>3. \A a \in 1 .. lq : a + l \in 1 .. l + lq /\ ~(a + l <= l) /\ a + l - l = a
    OBVIOUS
  <2>4. \A k \in 1 .. l : k \in 1 .. l + lq /\ k <= l
    BY <2>1
  <2> QED
    BY <2>1, <2>2, <2>3, <2>4
<1> DEFINE S == {k \in 0 .. l : InPlace(g[k], n, w) /\ Coming(g[k], p, k, n, w)
                                /\ g[k].nextPlay >= j.nextPlay}
<1>5. 0 \in S
  BY <1>1, <1>3, PlaybackAssumption DEF Jitters, SeqNos
<1>6. ASSUME NEW k \in 1 .. l, k - 1 \in S
      PROVE  k \in S
  <2>1. k \in 1 .. Len(p) /\ k \in 0 .. l /\ k - 1 \in 0 .. l
    BY <1>4
  <2>2. PICK x \in Jitters : x = g[k - 1]
    BY <1>1, <1>2, <2>1
  <2>3. InPlace(x, n, w) /\ Coming(x, p, k - 1, n, w) /\ x.nextPlay >= j.nextPlay
    BY <1>6, <2>2
  <2>4. PICK y \in Jitters : y = g[k]
    BY <1>1, <1>2, <2>1
  <2>5. y = Ingested(x, p[k])
    BY <1>1, <1>2, <1>4, <2>2, <2>4
  <2>6. InPlace(y, n, w) /\ Coming(y, p, k, n, w) /\ y.nextPlay >= x.nextPlay
    BY <2>1, <2>3, <2>5, IngestKeeps
  <2>7. y.nextPlay >= j.nextPlay
    BY <2>3, <2>6, PlaybackAssumption DEF Jitters, SeqNos
  <2> QED
    BY <2>1, <2>4, <2>6, <2>7
<1> HIDE DEF S
<1>7. \A k \in 0 .. l : k \in S
  BY <1>5, <1>6, UpTo
<1>8. PICK x \in Jitters : x = IngestedAll(j, s)
  BY IngestRuns
<1>9. InPlace(x, n, w) /\ Coming(x, p, l, n, w) /\ x.nextPlay >= j.nextPlay
  BY <1>1, <1>2, <1>7, <1>8 DEF S
<1>10. Coming(x, q, 0, n, w)
  <2>1. l >= l /\ Len(q) + l <= Len(p)
    BY <1>4
  <2>2. Coming(x, p, l, n, w)
    BY <1>9
  <2> QED
    BY <1>4, <2>1, <2>2, ComingPart
<1> QED
  BY <1>8, <1>9, <1>10

\* What the loopback transport has after it was sent s is the end of s.
LEMMA SentEnd ==
  ASSUME NEW s \in Seq(Packets)
  PROVE  /\ SentAll(s) \in Seq(Packets)
         /\ \E c \in Nat : /\ Len(SentAll(s)) + c = Len(s)
                           /\ \A a \in 1 .. Len(SentAll(s)) : SentAll(s)[a] = s[a + c]
<1>1. PICK g : /\ g[0] = <<>> /\ SentAll(s) = g[Len(s)]
               /\ \A k \in 0 .. Len(s) : g[k] \in Seq(Packets)
               /\ \A k \in 1 .. Len(s) : g[k] = Sent(g[k - 1], s[k])
  BY SentRuns
<1>2. PICK l \in Nat : l = Len(s)
  BY LenProperties
<1> DEFINE S == {k \in 0 .. l : \E c \in Nat : /\ Len(g[k]) + c = k
                                               /\ \A a \in 1 .. Len(g[k]) : g[k][a] = s[a + c]}
<1>3. 0 \in S
  <2>1. PICK x : x = g[0]
    OBVIOUS
  <2>2. x = <<>> /\ 0 \in Nat
    BY <1>1, <2>1
  <2>3. Len(x) + 0 = 0 /\ \A a \in 1 .. Len(x) : x[a] = s[a + 0]
    BY <2>2
  <2>4. \E c \in Nat : Len(x) + c = 0 /\ \A a \in 1 .. Len(x) : x[a] = s[a + c]
    BY <2>2, <2>3
  <2> QED
    BY <2>1, <2>4
<1>4. ASSUME NEW k \in 1 .. l, k - 1 \in S
      PROVE  k \in S
  <2>1. k \in 0 .. l /\ k - 1 \in 0 .. l /\ k \in Nat
    OBVIOUS
  <2>2. PICK x \in Seq(Packets) : x = g[k - 1]
    BY <1>1, <1>2, <2>1
  <2>3. PICK c \in Nat : Len(x) + c = k - 1 /\ \A a \in 1 .. Len(x) : x[a] = s[a + c]
    BY <1>4, <2>2
  <2>4. PICK e \in Packets : e = s[k]
    BY <1>2, ElementOfSeq
  <2>5. PICK y \in Seq(Packets), d \in Nat : /\ Len(y) + d = k - 1 /\ g[k] = Append(y, e)
                                             /\ \A a \in 1 .. Len(y) : y[a] = s[a + d]
    <3>1. g[k] = Sent(x, e)
      BY <1>1, <1>2, <2>2, <2>4
    <3>2. CASE Len(x) < MaxQueuedPackets
      BY <2>3, <3>1, <3>2 DEF Sent
    <3>3. CASE ~(Len(x) < MaxQueuedPackets)
      <4>1. x # <<>>
        BY <3>3, PlaybackAssumption, EmptySeq
      <4>2. PICK y \in Seq(Packets) : y = Tail(x)
        BY <4>1, HeadTailProperties
      <4>3. Len(x) \in Nat /\ Len(y) = Len(x) - 1 /\ \A a \in 1 .. Len(y) : y[a] = x[a + 1]
        BY <4>1, <4>2, HeadTailProperties, LenProperties
      <4>4. Len(y) \in Nat
        BY LenProperties
      <4>5. c + 1 \in Nat /\ Len(y) + (c + 1) = k - 1
        BY <2>3, <4>3
      <4>6. \A a \in 1 .. Len(y) : a + 1 \in 1 .. Len(x) /\ a + (c + 1) = (a + 1) + c
        BY <4>3, <4>4
      <4>7. \A a \in 1 .. Len(y) : y[a] = s[a + (c + 1)]
        BY <2>3, <4>3, <4>6
      <4>8. g[k] = Append(y, e)
        BY <3>1, <3>3, <4>2 DEF Sent
      <4> QED
        BY <4>5, <4>7, <4>8
    <3> QED
      BY <3>2, <3>3
  <2>6. PICK ly \in Nat : ly = Len(y)
    BY LenProperties
  <2>7. PICK z : z = g[k]
    OBVIOUS
  <2>8. Len(z) = ly + 1 /\ z[ly + 1] = e /\ \A a \in 1 .. ly : z[a] = y[a]
    BY <2>5, <2>6, <2>7, AppendProperties
  <2>9. Len(z) + d = k /\ (ly + 1) + d = k
    BY <2>1, <2>5, <2>6, <2>8
  <2>10. \A a \in 1 .. Len(z) : z[a] = s[a + d]
    <3>1. \A a \in 1 .. Len(z) : a \in 1 .. ly \/ a = ly + 1
      BY <2>8
    <3> QED
      BY <2>4, <2>5, <2>6, <2>8, <2>9, <3>1
  <2> QED
    BY <2>1, <2>7, <2>9, <2>10
<1> HIDE DEF S
<1>5. \A k \in 0 .. l : k \in S
  BY <1>3, <1>4, UpTo
<1>6. l \in S
  BY <1>5
<1> QED
  BY <1>1, <1>2, <1>6, SentRuns DEF S

\* What is in place among the first frames is so among more of them.
LEMMA InPlaceMore ==
  ASSUME NEW n \in Nat, NEW m \in Nat, n <= m, NEW w, NEW j \in Jitters, InPlace(j, n, w)
  PROVE  InPlace(j, m, w)
<1>1. PICK t \in Nat : t = j.nextPlay
  BY PlaybackAssumption DEF Jitters, SeqNos
<1>2. /\ t <= n /\ (~j.started => t = 0)
      /\ \A k \in Jitter!Slots : j.packets[k].valid =>
           /\ j.started /\ k = Jitter!SlotForSeq(j.packets[k].seq)
           /\ j.packets[k].seq \in t .. n - 1
           /\ j.packets[k].payload = w[j.packets[k].seq + 1]
  BY <1>1 DEF InPlace
<1>3. t <= m /\ \A k \in t .. n - 1 : k \in t .. m - 1
  BY <1>2
<1> QED
  BY <1>1, <1>2, <1>3, Zenon DEF InPlace

\* A frame is encoded: its packet, if it finds room, comes last.
LEMMA SpokenKeeps ==
  ASSUME NEW n \in Nat, n + 1 < SeqMod, NEW w, w[n + 1] \in Frames, NEW j \in Jitters,
         InPlace(j, n, w), NEW x \in Sessions, x.seq = n, Coming(j, x.outq, 0, n, w)
  PROVE  /\ Session!Spoken(x, w[n + 1]).seq = n + 1
         /\ Coming(j, Session!Spoken(x, w[n + 1]).outq, 0, n + 1, w)
<1>1. PICK e : e = Session!VoicePacket(x, w[n + 1])
  OBVIOUS
<1>2. e.type = "voice" /\ e.seq = n /\ e.flags = w[n + 1]
  BY <1>1 DEF Session!VoicePacket
<1>3. PICK y : y = Session!Spoken(x, w[n + 1])
  OBVIOUS
<1>4. (n + 1) % SeqMod = n + 1
  <2>1. n + 1 \in 0 .. SeqMod - 1 /\ n + 1 \in Nat /\ n + 1 = SeqMod * 0 + (n + 1)
    BY PlaybackAssumption
  <2> QED
    BY <2>1, PlaybackAssumption, RemainderUnique
<1>5. y.seq = n + 1 /\ y.outq \in {x.outq, Append(x.outq, e)}
  <2>1. x = [connected |-> x.connected, who |-> x.who, outq |-> x.outq, seq |-> x.seq]
    BY DEF Sessions
  <2> QED
    BY <1>1, <1>3, <1>4, <2>1 DEF Session!Spoken, Session!Queued
<1>6. PICK q \in Seq(Packets) : q = x.outq
  BY DEF Sessions
<1>7. PICK l \in Nat : l = Len(q)
  BY LenProperties
<1>8. PICK t \in Nat : t = j.nextPlay
  BY PlaybackAssumption DEF Jitters, SeqNos
<1>9. /\ t <= n
      /\ \A k \in Jitter!Slots : j.packets[k].valid => j.packets[k].seq \in t .. n - 1
  BY <1>8 DEF InPlace
<1>10. \A a \in 0 + 1 .. l : q[a].type = "voice" =>
         /\ q[a].seq \in t .. n - 1 /\ q[a].flags = w[q[a].seq + 1]
         /\ \A k \in Jitter!Slots : j.packets[k].valid => j.packets[k].seq < q[a].seq
         /\ \A b \in a + 1 .. l : q[b].type = "voice" => q[a].seq < q[b].seq
  BY <1>6, <1>7, <1>8, Zenon DEF Coming
<1>11. \A k \in t .. n - 1 : k \in t .. (n + 1) - 1
  OBVIOUS
<1>12. CASE y.outq = q
  <2>1. \A a \in 0 + 1 .. l : q[a].type = "voice" =>
         /\ q[a].seq \in t .. (n + 1) - 1 /\ q[a].flags = w[q[a].seq + 1]
         /\ \A k \in Jitter!Slots : j.packets[k].valid => j.packets[k].seq < q[a].seq
         /\ \A b \in a + 1 .. l : q[b].type = "voice" => q[a].seq < q[b].seq
    BY <1>10, <1>11, Zenon
  <2>2. Coming(j, q, 0, n + 1, w)
    BY <1>7, <1>8, <2>1, Zenon DEF Coming
  <2> QED
    BY <1>3, <1>5, <1>12, <2>2
<1>13. CASE y.outq = Append(q, e)
  <2>1. PICK z : z = Append(q, e)
    OBVIOUS
  <2>2. Len(z) = l + 1 /\ z[l + 1] = e /\ \A a \in 0 + 1 .. l : z[a] = q[a]
    <3>1. e \in Packets
      <4>1. x.who[2] \in {0, 1} /\ x.seq \in SeqNos
        BY DEF Sessions, Identity, Session!NoOne, Id
      <4> QED
        BY <1>1, <4>1, PacketParts DEF Session!VoicePacket
    <3> QED
      BY <1>7, <2>1, <3>1, AppendProperties
  <2>3. ASSUME NEW a \in 0 + 1 .. l + 1, z[a].type = "voice"
        PROVE  /\ z[a].seq \in t .. (n + 1) - 1 /\ z[a].flags = w[z[a].seq + 1]
               /\ \A k \in Jitter!Slots : j.packets[k].valid => j.packets[k].seq < z[a].seq
               /\ \A b \in a + 1 .. l + 1 : z[b].type = "voice" => z[a].seq < z[b].seq
    <3>1. CASE a = l + 1
      <4>1. a + 1 .. l + 1 = {} /\ n \in t .. (n + 1) - 1
        BY <1>9, <3>1
      <4>2. \A k \in Jitter!Slots : j.packets[k].valid => j.packets[k].seq < n
        BY <1>9
      <4> QED
        BY <1>2, <2>2, <3>1, <4>1, <4>2
    <3>2. CASE a # l + 1
      <4>1. a \in 0 + 1 .. l /\ z[a] = q[a]
        BY <2>2, <3>2
      <4>2. /\ q[a].seq \in t .. n - 1 /\ q[a].flags = w[q[a].seq + 1]
            /\ \A k \in Jitter!Slots : j.packets[k].valid => j.packets[k].seq < q[a].seq
            /\ \A b \in a + 1 .. l : q[b].type = "voice" => q[a].seq < q[b].seq
        BY <1>10, <2>3, <4>1, Zenon
      <4>3. \A b \in a + 1 .. l + 1 : b = l + 1 \/ (b \in a + 1 .. l /\ z[b] = q[b])
        BY <2>2, <4>1
      <4>4. \A b \in a + 1 .. l + 1 : z[b].type = "voice" => q[a].seq < z[b].seq
        BY <1>2, <2>2, <4>2, <4>3
      <4> QED
        BY <1>11, <4>1, <4>2, <4>4
    <3> QED
      BY <3>1, <3>2
  <2>4. Coming(j, z, 0, n + 1, w)
    BY <1>8, <2>2, <2>3, Zenon DEF Coming
  <2> QED
    BY <1>3, <1>5, <1>13, <2>1, <2>4
<1> QED
  BY <1>5, <1>6, <1>12, <1>13

\* The frames in the ring, all encoded, are the last of those numbered.
LEMMA DrainKeeps ==
  ASSUME NEW n \in Nat, NEW w, NEW j \in Jitters, InPlace(j, n, w),
         NEW x \in Sessions, x.seq = n, Coming(j, x.outq, 0, n, w),
         NEW s \in Seq(Frames), n + Len(s) < SeqMod, \A i \in 1 .. Len(s) : s[i] = w[n + i]
  PROVE  /\ Drained(x, s) \in Sessions /\ Drained(x, s).seq = n + Len(s)
         /\ InPlace(j, n + Len(s), w) /\ Coming(j, Drained(x, s).outq, 0, n + Len(s), w)
<1>1. PICK g : /\ g[0] = x /\ Drained(x, s) = g[Len(s)]
               /\ \A k \in 0 .. Len(s) : g[k] \in Sessions
               /\ \A k \in 1 .. Len(s) : g[k] = Session!Spoken(g[k - 1], s[k])
  BY DrainRuns
<1>2. PICK l \in Nat : l = Len(s)
  BY LenProperties
<1> DEFINE S == {k \in 0 .. l : g[k].seq = n + k /\ Coming(j, g[k].outq, 0, n + k, w)}
<1>3. 0 \in S
  <2>1. n + 0 = n
    OBVIOUS
  <2> QED
    BY <1>1, <2>1
<1>4. ASSUME NEW k \in 1 .. l, k - 1 \in S
      PROVE  k \in S
  <2>1. k \in 0 .. l /\ k - 1 \in 0 .. l /\ k \in Nat
    OBVIOUS
  <2>2. PICK y \in Sessions : y = g[k - 1]
    BY <1>1, <1>2, <2>1
  <2>3. PICK m \in Nat : m = n + (k - 1)
    BY <2>1
  <2>4. y.seq = m /\ Coming(j, y.outq, 0, m, w)
    BY <1>4, <2>2, <2>3
  <2>5. m + 1 = n + k /\ m + 1 < SeqMod /\ n <= m
    BY <1>2, <2>1, <2>3, PlaybackAssumption
  <2>6. g[k] = Session!Spoken(y, w[m + 1]) /\ w[m + 1] \in Frames
    BY <1>1, <1>2, <2>2, <2>5, ElementOfSeq
  <2>7. InPlace(j, m, w)
    BY <2>5, InPlaceMore
  <2>8. g[k].seq = m + 1 /\ Coming(j, g[k].outq, 0, m + 1, w)
    BY <2>4, <2>5, <2>6, <2>7, SpokenKeeps
  <2> QED
    BY <2>1, <2>5, <2>8
<1> HIDE DEF S
<1>5. \A k \in 0 .. l : k \in S
  BY <1>3, <1>4, UpTo
<1>6. l \in S /\ l \in 0 .. l
  BY <1>5
<1>7. n + l \in Nat /\ n <= n + l
  OBVIOUS
<1>8. InPlace(j, n + l, w)
  BY <1>7, InPlaceMore
<1> QED
  BY <1>1, <1>2, <1>6, <1>8 DEF S

--------------------------------------------------------------------------------
(* The order of what is heard.                                                *)

\* What h has was captured, in its order, and before all frames of w after the m-th.
Past(h, m, w, S) ==
  InCaptureOrder(h) /\ Behind(h, m, w) /\ Range(h) \subseteq S \cup {Silence}

\* What is behind some frames is behind fewer.
LEMMA PastMore ==
  ASSUME NEW h, NEW m \in Nat, NEW n \in Nat, m <= n, NEW w, NEW S, Past(h, m, w, S)
  PROVE  Past(h, n, w, S)
<1>1. \A k : \A i \in n + 1 .. k : i \in m + 1 .. k
  OBVIOUS
<1>2. Behind(h, n, w)
  BY <1>1, Zenon DEF Past, Behind
<1> QED
  BY <1>2 DEF Past

\* One sequence behind another, place by place.
LEMMA Joined ==
  ASSUME NEW T, NEW s \in Seq(T), NEW t \in Seq(T)
  PROVE  /\ s \o t \in Seq(T) /\ Len(s \o t) = Len(s) + Len(t)
         /\ \A i \in 1 .. Len(s) : (s \o t)[i] = s[i]
         /\ \A i \in 1 .. Len(t) : (s \o t)[Len(s) + i] = t[i]
         /\ \A i \in 1 .. Len(s) + Len(t) : i \in 1 .. Len(s) \/ \E x \in 1 .. Len(t) : i = Len(s) + x
<1>1. PICK k \in Nat, l \in Nat : k = Len(s) /\ l = Len(t)
  BY LenProperties
<1>2. /\ s \o t \in Seq(T) /\ Len(s \o t) = k + l
      /\ \A i \in 1 .. k + l : (s \o t)[i] = IF i <= k THEN s[i] ELSE t[i - k]
  BY <1>1, ConcatProperties
<1>3. \A i \in 1 .. l : k + i \in 1 .. k + l /\ ~(k + i <= k) /\ (k + i) - k = i
  OBVIOUS
<1>4. \A i \in 1 .. k : i \in 1 .. k + l /\ i <= k
  OBVIOUS
<1>5. ASSUME NEW i \in 1 .. k + l, i \notin 1 .. k
      PROVE  \E x \in 1 .. l : i = k + x
  <2>1. i - k \in 1 .. l /\ i = k + (i - k)
    BY <1>5
  <2> QED
    BY <2>1
<1> QED
  BY <1>1, <1>2, <1>3, <1>4, <1>5

\* Two sequences of samples, of c and k of them, one behind the other.
Joint(s, t) == s \o t
Spliced(u, s, t, c, k) ==
  /\ u \in Seq(Sounds) /\ Len(u) = c + k
  /\ \A i \in 1 .. c : u[i] = s[i]
  /\ \A i \in 1 .. k : u[c + i] = t[i]
  /\ \A i \in 1 .. c + k : i \in 1 .. c \/ \E x \in 1 .. k : i = c + x

\* What they make.
LEMMA Splices ==
  \A s, t \in Seq(Sounds) : \A c, k : c = Len(s) /\ k = Len(t) => Spliced(Joint(s, t), s, t, c, k)
<1> SUFFICES ASSUME NEW s \in Seq(Sounds), NEW t \in Seq(Sounds)
             PROVE  Spliced(Joint(s, t), s, t, Len(s), Len(t))
  OBVIOUS
<1>1. /\ s \o t \in Seq(Sounds) /\ Len(s \o t) = Len(s) + Len(t)
      /\ \A i \in 1 .. Len(s) : (s \o t)[i] = s[i]
      /\ \A i \in 1 .. Len(t) : (s \o t)[Len(s) + i] = t[i]
      /\ \A i \in 1 .. Len(s) + Len(t) : i \in 1 .. Len(s) \/ \E x \in 1 .. Len(t) : i = Len(s) + x
  BY Joined
<1> QED
  BY <1>1 DEF Spliced, Joint

\* The next frame is behind those after it, and what was heard is behind it.
LEMMA PastFrame ==
  ASSUME NEW w \in Seq(Frames), NEW S, Rising(w, S), NEW m \in Nat, m + 1 <= Len(w),
         NEW h \in Seq(Sounds), Past(h, m, w, S)
  PROVE  Past(h \o w[m + 1], m + 1, w, S)
<1>1. PICK n \in Nat : n = m + 1
  OBVIOUS
<1>2. PICK l \in Nat : l = Len(w)
  BY LenProperties
<1>3. PICK F \in Nat : F = FrameSamples
  BY MicAssumption
<1>4. n \in 1 .. l
  BY <1>1, <1>2
<1>5. PICK f \in Frames : f = w[n]
  BY <1>2, <1>4, ElementOfSeq
<1>6. f \in Seq(Sounds) /\ Len(f) = F
  BY <1>3, FramesAreSeqs DEF Frames
<1>7. /\ \A a \in 1 .. F : f[a] \in S /\ f[a] # Silence
      /\ \A a, b \in 1 .. F : a < b => f[a] < f[b]
      /\ \A i \in n + 1 .. l : \A a, b \in 1 .. F : f[a] < w[i][b]
  <2>1. \A i \in n + 1 .. l : i \in 1 .. l /\ n < i
    BY <1>4
  <2> QED
    BY <1>2, <1>3, <1>4, <1>5, <2>1 DEF Rising
<1>8. PICK c \in Nat : c = Len(h)
  BY LenProperties
<1>9. PICK v : v = h \o f
  OBVIOUS
<1>10. /\ v \in Seq(Sounds) /\ Len(v) = c + F
       /\ \A i \in 1 .. c : v[i] = h[i]
       /\ \A i \in 1 .. F : v[c + i] = f[i]
       /\ \A i \in 1 .. c + F : i \in 1 .. c \/ \E x \in 1 .. F : i = c + x
  <2>1. PICK g \in Seq(Sounds) : g = f
    BY <1>6
  <2>6. F = Len(g)
    BY <1>6, <2>1
  <2>2. PICK u : u = h \o g
    OBVIOUS
  <2>3. /\ u \in Seq(Sounds) /\ Len(u) = c + F
        /\ \A i \in 1 .. c : u[i] = h[i]
        /\ \A i \in 1 .. F : u[c + i] = g[i]
        /\ \A i \in 1 .. c + F : i \in 1 .. c \/ \E x \in 1 .. F : i = c + x
    <3>1. u = Joint(h, g)
      BY <2>2 DEF Joint
    <3>2. Spliced(u, h, g, c, F)
      BY <3>1, <1>8, <2>6, Splices, Zenon
    <3> QED
      BY <3>2 DEF Spliced
  <2>4. v = u
    BY <1>9, <2>1, <2>2, Zenon
  <2>5. \A i \in 1 .. F : g[i] = f[i]
    BY <2>1, Zenon
  <2> QED
    BY <2>3, <2>4, <2>5
<1>11. DOMAIN v = 1 .. c + F /\ DOMAIN h = 1 .. c
  BY <1>8, <1>10, LenProperties
<1>12. /\ \A i, k \in 1 .. c : i < k => h[i] = Silence \/ h[k] = Silence \/ h[i] < h[k]
       /\ \A x \in 1 .. c : \A i \in n .. l : \A a \in 1 .. F : h[x] < w[i][a]
       /\ \A x \in 1 .. c : h[x] \in S \cup {Silence}
  BY <1>1, <1>2, <1>3, <1>11, Zenon DEF Past, InCaptureOrder, Behind, Range
<1>13. \A x \in 1 .. c : \A a \in 1 .. F : h[x] < f[a]
  <2>1. n \in n .. l
    BY <1>4
  <2> QED
    BY <1>5, <1>12, <2>1
<1>14. InCaptureOrder(v)
  <2>1. ASSUME NEW i \in 1 .. c + F, NEW k \in 1 .. c + F, i < k
        PROVE  v[i] = Silence \/ v[k] = Silence \/ v[i] < v[k]
    <3>1. CASE k \in 1 .. c
      <4>1. i \in 1 .. c
        BY <2>1, <3>1
      <4> QED
        BY <1>10, <1>12, <2>1, <3>1, <4>1
    <3>2. CASE k \notin 1 .. c
      <4>1. PICK b \in 1 .. F : k = c + b
        BY <1>10, <3>2
      <4>2. CASE i \in 1 .. c
        BY <1>10, <1>13, <4>1, <4>2
      <4>3. CASE i \notin 1 .. c
        <5>1. PICK a \in 1 .. F : i = c + a
          BY <1>10, <4>3
        <5>2. a < b
          BY <2>1, <4>1, <5>1
        <5> QED
          BY <1>7, <1>10, <4>1, <5>1, <5>2
      <4> QED
        BY <4>2, <4>3
    <3> QED
      BY <3>1, <3>2
  <2> QED
    BY <1>11, <2>1 DEF InCaptureOrder
<1>15. Behind(v, n, w)
  <2>1. ASSUME NEW x \in 1 .. c + F, NEW i \in n + 1 .. l, NEW a \in 1 .. F
        PROVE  v[x] < w[i][a]
    <3>1. CASE x \in 1 .. c
      <4>1. i \in n .. l
        OBVIOUS
      <4> QED
        BY <1>10, <1>12, <3>1, <4>1
    <3>2. CASE x \notin 1 .. c
      <4>1. PICK b \in 1 .. F : x = c + b
        BY <1>10, <3>2
      <4> QED
        BY <1>7, <1>10, <4>1
    <3> QED
      BY <3>1, <3>2
  <2> QED
    BY <1>2, <1>3, <1>11, <2>1, Zenon DEF Behind
<1>16. Range(v) \subseteq S \cup {Silence}
  <2>1. \A x \in 1 .. c + F : v[x] \in S \cup {Silence}
    BY <1>7, <1>10, <1>12
  <2> QED
    BY <1>11, <2>1 DEF Range
<1> QED
  BY <1>1, <1>5, <1>9, <1>14, <1>15, <1>16 DEF Past

\* Concealment is silence, which is out of no order.
LEMMA PastConcealment ==
  ASSUME NEW w \in Seq(Frames), NEW S, Rising(w, S), NEW m \in Nat,
         NEW h \in Seq(Sounds), Past(h, m, w, S)
  PROVE  Past(h \o Concealment, m, w, S)
<1>1. PICK l \in Nat : l = Len(w)
  BY LenProperties
<1>2. PICK F \in Nat : F = FrameSamples
  BY MicAssumption
<1>3. PICK f \in Frames : f = Concealment /\ \A a \in 1 .. F : f[a] = Silence
  <2>1. PICK f : f = Concealment
    OBVIOUS
  <2>2. f = [k \in 1 .. F |-> 0] /\ 0 \in Sounds
    BY <1>2, <2>1, MicAssumption DEF Concealment, Sounds, Silence
  <2>3. f \in [1 .. F -> Sounds] /\ \A a \in 1 .. F : f[a] = Silence
    BY <2>2 DEF Silence
  <2> QED
    BY <1>2, <2>1, <2>3 DEF Frames
<1>4. f \in Seq(Sounds) /\ Len(f) = F
  BY <1>2, FramesAreSeqs DEF Frames
<1>5. PICK c \in Nat : c = Len(h)
  BY LenProperties
<1>6. PICK v : v = h \o f
  OBVIOUS
<1>7. /\ v \in Seq(Sounds) /\ Len(v) = c + F
      /\ \A i \in 1 .. c : v[i] = h[i]
      /\ \A i \in 1 .. F : v[c + i] = f[i]
      /\ \A i \in 1 .. c + F : i \in 1 .. c \/ \E x \in 1 .. F : i = c + x
  <2>1. PICK g \in Seq(Sounds) : g = f
    BY <1>4
  <2>6. F = Len(g)
    BY <1>4, <2>1
  <2>2. PICK u : u = h \o g
    OBVIOUS
  <2>3. /\ u \in Seq(Sounds) /\ Len(u) = c + F
        /\ \A i \in 1 .. c : u[i] = h[i]
        /\ \A i \in 1 .. F : u[c + i] = g[i]
        /\ \A i \in 1 .. c + F : i \in 1 .. c \/ \E x \in 1 .. F : i = c + x
    <3>1. u = Joint(h, g)
      BY <2>2 DEF Joint
    <3>2. Spliced(u, h, g, c, F)
      BY <3>1, <1>5, <2>6, Splices, Zenon
    <3> QED
      BY <3>2 DEF Spliced
  <2>4. v = u
    BY <1>6, <2>1, <2>2, Zenon
  <2>5. \A i \in 1 .. F : g[i] = f[i]
    BY <2>1, Zenon
  <2> QED
    BY <2>3, <2>4, <2>5
<1>8. DOMAIN v = 1 .. c + F /\ DOMAIN h = 1 .. c
  BY <1>5, <1>7, LenProperties
<1>9. \A i \in 1 .. c + F : i \in 1 .. c \/ v[i] = Silence
  BY <1>3, <1>7
<1>10. InCaptureOrder(v)
  <2>1. \A i, k \in 1 .. c : i < k => h[i] = Silence \/ h[k] = Silence \/ h[i] < h[k]
    BY <1>8 DEF Past, InCaptureOrder
  <2>2. \A i, k \in 1 .. c + F : i < k => v[i] = Silence \/ v[k] = Silence \/ v[i] < v[k]
    BY <1>7, <1>9, <2>1
  <2> QED
    BY <1>8, <2>2 DEF InCaptureOrder
<1>11. Behind(v, m, w)
  <2>1. \A x \in 1 .. c : \A i \in m + 1 .. l : \A a \in 1 .. F : h[x] < w[i][a]
    BY <1>1, <1>2, <1>8, Zenon DEF Past, Behind
  <2>2. \A i \in m + 1 .. l : \A a \in 1 .. F : Silence < w[i][a]
    <3>1. \A i \in m + 1 .. l : i \in 1 .. l /\ w[i] \in Frames
      BY <1>1, ElementOfSeq
    <3>2. \A i \in 1 .. l : \A a \in 1 .. F : w[i][a] # Silence
      BY <1>1, <1>2 DEF Rising
    <3>3. \A g \in Frames : \A a \in 1 .. F : g[a] \in Nat
      BY <1>2, MicAssumption DEF Frames, Sounds
    <3>4. \A i \in m + 1 .. l : \A a \in 1 .. F : w[i][a] \in Nat /\ w[i][a] # 0
      BY <3>1, <3>2, <3>3 DEF Silence
    <3> QED
      BY <3>4 DEF Silence
  <2>3. \A x \in 1 .. c + F : \A i \in m + 1 .. l : \A a \in 1 .. F : v[x] < w[i][a]
    BY <1>7, <1>9, <2>1, <2>2
  <2> QED
    BY <1>1, <1>2, <1>8, <2>3, Zenon DEF Behind
<1>12. Range(v) \subseteq S \cup {Silence}
  <2>1. \A x \in 1 .. c : h[x] \in S \cup {Silence}
    BY <1>8 DEF Past, Range
  <2>2. \A x \in 1 .. c + F : v[x] \in S \cup {Silence}
    BY <1>7, <1>9, <2>1
  <2> QED
    BY <1>8, <2>2 DEF Range
<1> QED
  BY <1>3, <1>6, <1>10, <1>11, <1>12 DEF Past

\* Samples that are forgotten leave the others in order.
LEMMA PastCut ==
  ASSUME NEW w, NEW S, NEW m \in Nat, NEW h \in Seq(Sounds), NEW r \in Seq(Sounds),
         Past(h \o r, m, w, S), NEW d \in Nat, NEW q \in Seq(Sounds),
         Len(q) + d = Len(r), \A i \in 1 .. Len(q) : q[i] = r[i + d]
  PROVE  Past(h \o q, m, w, S)
<1>1. PICK c \in Nat, k \in Nat, l \in Nat : c = Len(h) /\ k = Len(q) /\ l = Len(r)
  BY LenProperties
<1>2. PICK v : v = h \o q
  OBVIOUS
<1>3. PICK u : u = h \o r
  OBVIOUS
<1>4. /\ v \in Seq(Sounds) /\ Len(v) = c + k
      /\ \A i \in 1 .. c : v[i] = h[i]
      /\ \A i \in 1 .. k : v[c + i] = q[i]
      /\ \A i \in 1 .. c + k : i \in 1 .. c \/ \E x \in 1 .. k : i = c + x
  <2>1. v = Joint(h, q)
    BY <1>2 DEF Joint
  <2>2. Spliced(v, h, q, c, k)
    BY <2>1, <1>1, Splices, Zenon
  <2> QED
    BY <2>2 DEF Spliced
<1>5. /\ u \in Seq(Sounds) /\ Len(u) = c + l
      /\ \A i \in 1 .. c : u[i] = h[i]
      /\ \A i \in 1 .. l : u[c + i] = r[i]
  <2>1. u = Joint(h, r)
    BY <1>3 DEF Joint
  <2>2. Spliced(u, h, r, c, l)
    BY <2>1, <1>1, Splices, Zenon
  <2> QED
    BY <2>2 DEF Spliced
<1>6. DOMAIN v = 1 .. c + k /\ DOMAIN u = 1 .. c + l
  BY <1>4, <1>5, LenProperties
<1> DEFINE at(i) == IF i <= c THEN i ELSE i + d
<1>7. \A i \in 1 .. c + k : at(i) \in 1 .. c + l /\ v[i] = u[at(i)]
  <2>1. ASSUME NEW i \in 1 .. c + k
        PROVE  at(i) \in 1 .. c + l /\ v[i] = u[at(i)]
    <3>1. CASE i \in 1 .. c
      BY <1>1, <1>4, <1>5, <3>1
    <3>2. CASE i \notin 1 .. c
      <4>1. PICK x \in 1 .. k : i = c + x
        BY <1>4, <3>2
      <4>2. at(i) = c + (x + d) /\ x + d \in 1 .. l
        BY <1>1, <4>1
      <4>3. u[c + (x + d)] = r[x + d]
        BY <1>5, <4>2
      <4>4. v[i] = r[x + d]
        BY <1>1, <1>4, <4>1
      <4> QED
        BY <4>2, <4>3, <4>4
    <3> QED
      BY <3>1, <3>2
  <2> QED
    BY <2>1
<1>8. \A i, j \in 1 .. c + k : i < j => at(i) < at(j)
  OBVIOUS
<1> HIDE DEF at
<1>9. InCaptureOrder(v)
  <2>1. \A i, j \in 1 .. c + l : i < j => u[i] = Silence \/ u[j] = Silence \/ u[i] < u[j]
    BY <1>3, <1>6 DEF Past, InCaptureOrder
  <2>2. \A i, j \in 1 .. c + k : i < j => v[i] = Silence \/ v[j] = Silence \/ v[i] < v[j]
    BY <1>7, <1>8, <2>1
  <2> QED
    BY <1>6, <2>2 DEF InCaptureOrder
<1>10. Behind(v, m, w)
  <2>1. \A x \in 1 .. c + l : \A i \in m + 1 .. Len(w) : \A a \in 1 .. FrameSamples : u[x] < w[i][a]
    BY <1>3, <1>6, Zenon DEF Past, Behind
  <2>2. \A x \in 1 .. c + k : \A i \in m + 1 .. Len(w) : \A a \in 1 .. FrameSamples : v[x] < w[i][a]
    <3>1. ASSUME NEW x \in 1 .. c + k
          PROVE  \A i \in m + 1 .. Len(w) : \A a \in 1 .. FrameSamples : v[x] < w[i][a]
      <4>1. PICK y \in 1 .. c + l : v[x] = u[y]
        BY <1>7
      <4> QED
        BY <2>1, <4>1, Zenon
    <3> QED
      BY <3>1, Zenon
  <2> QED
    BY <1>6, <2>2, Zenon DEF Behind
<1>11. Range(v) \subseteq Range(u)
  BY <1>6, <1>7 DEF Range
<1> QED
  BY <1>2, <1>3, <1>9, <1>10, <1>11 DEF Past

--------------------------------------------------------------------------------
(* Frames enter the ring.                                                     *)

\* The samples of q in the order of their capture, without silence.
Strict(q) ==
  /\ \A i \in 1 .. Len(q) : q[i] # Silence
  /\ \A i, k \in 1 .. Len(q) : i < k => q[i] < q[k]

\* The frames of w are numbered: the first n as they are in v, and after them those
\* of the ring r.  What is in h was before all after the m-th.
Line(w, v, n, r, S, h, m) ==
  /\ Len(w) = n + Len(r) /\ \A i \in 1 .. Len(r) : r[i] = w[n + i]
  /\ \A i \in 1 .. n : w[i] = v[i]
  /\ Rising(w, S) /\ Past(h, m, w, S)

\* The microphone's sent is only added to.
LEMMA LineMore ==
  ASSUME NEW w, NEW v, NEW n, NEW r, NEW S, NEW T, S \subseteq T, NEW h, NEW m,
         Line(w, v, n, r, S, h, m)
  PROVE  Line(w, v, n, r, T, h, m)
<1>1. Rising(w, T)
  BY Zenon DEF Line, Rising
<1>2. Past(h, m, w, T)
  BY Zenon DEF Line, Past
<1> QED
  BY <1>1, <1>2, Zenon DEF Line

\* A frame, whose samples come after all that was sent, enters the ring.
LEMMA LineGrows ==
  ASSUME NEW w \in Seq(Frames), NEW v, NEW n \in Nat, NEW r \in Seq(Frames), NEW h \in Seq(Sounds),
         NEW m \in Nat, NEW q \in Seq(Sounds), Line(w, v, n, r, Range(q), h, m),
         NEW f \in Frames, Strict(q \o f)
  PROVE  Line(Append(w, f), v, n, Append(r, f), Range(q \o f), h, m)
<1>1. PICK F \in Nat, c \in Nat, lw \in Nat, lr \in Nat, lh \in Nat :
        F = FrameSamples /\ c = Len(q) /\ lw = Len(w) /\ lr = Len(r) /\ lh = Len(h)
  BY MicAssumption, LenProperties
<1>2. PICK g \in Seq(Sounds) : g = f
  BY FramesAreSeqs
<1>3. F = Len(g)
  BY <1>1, <1>2 DEF Frames
<1>4. PICK u : u = q \o g
  OBVIOUS
<1>5. /\ u \in Seq(Sounds) /\ Len(u) = c + F
      /\ \A i \in 1 .. c : u[i] = q[i]
      /\ \A i \in 1 .. F : u[c + i] = g[i]
  <2>1. u = Joint(q, g)
    BY <1>4 DEF Joint
  <2>2. Spliced(u, q, g, c, F)
    BY <2>1, <1>1, <1>3, Splices, Zenon
  <2> QED
    BY <2>2 DEF Spliced
<1>6. PICK S : S = Range(q)
  OBVIOUS
<1>7. PICK T : T = Range(u)
  OBVIOUS
<1>8. /\ S \subseteq T /\ \A i \in 1 .. F : g[i] \in T
      /\ \A z \in S : \E i \in 1 .. c : z = q[i]
  <2>1. DOMAIN q = 1 .. c /\ DOMAIN u = 1 .. c + F
    BY <1>1, <1>5, LenProperties
  <2>2. \A i \in 1 .. c : i \in 1 .. c + F
    OBVIOUS
  <2>3. \A i \in 1 .. F : c + i \in 1 .. c + F
    OBVIOUS
  <2> QED
    BY <1>5, <1>6, <1>7, <2>1, <2>2, <2>3 DEF Range
<1>9. /\ \A i \in 1 .. c + F : u[i] # Silence
      /\ \A i, k \in 1 .. c + F : i < k => u[i] < u[k]
  BY <1>2, <1>4, <1>5, Zenon DEF Strict
<1>10. /\ \A a \in 1 .. F : g[a] # Silence /\ g[a] \in Nat
       /\ \A a, b \in 1 .. F : a < b => g[a] < g[b]
       /\ \A z \in S : \A a \in 1 .. F : z < g[a]
  <2>1. \A a \in 1 .. F : c + a \in 1 .. c + F /\ u[c + a] = g[a]
    BY <1>5
  <2>2. \A a \in 1 .. F : g[a] \in Sounds
    BY <1>3, ElementOfSeq
  <2>3. \A a \in 1 .. F : g[a] # Silence /\ g[a] \in Nat
    <3>1. \A a \in 1 .. F : g[a] # Silence
      BY <1>9, <2>1
    <3>2. \A k \in Sounds : k \in Nat
      BY MicAssumption DEF Sounds
    <3> QED
      BY <2>2, <3>1, <3>2
  <2>4. ASSUME NEW a \in 1 .. F, NEW b \in 1 .. F, a < b
        PROVE  g[a] < g[b]
    <3>1. c + a < c + b
      BY <2>4
    <3> QED
      BY <1>9, <2>1, <3>1
  <2>5. ASSUME NEW z \in S, NEW a \in 1 .. F
        PROVE  z < g[a]
    <3>1. PICK i \in 1 .. c : z = q[i]
      BY <1>8
    <3>2. i \in 1 .. c + F /\ i < c + a /\ u[i] = z
      BY <1>5, <3>1
    <3> QED
      BY <1>9, <2>1, <3>2
  <2> QED
    BY <2>3, <2>4, <2>5
<1>11. PICK y : y = Append(w, f)
  OBVIOUS
<1>12. PICK x : x = Append(r, f)
  OBVIOUS
<1>13. /\ y \in Seq(Frames) /\ Len(y) = lw + 1 /\ y[lw + 1] = g /\ \A i \in 1 .. lw : y[i] = w[i]
       /\ Len(x) = lr + 1 /\ x[lr + 1] = g /\ \A i \in 1 .. lr : x[i] = r[i]
  BY <1>1, <1>2, <1>11, <1>12, AppendProperties
<1>14. /\ lw = n + lr /\ \A i \in 1 .. lr : r[i] = w[n + i]
       /\ \A i \in 1 .. n : w[i] = v[i]
       /\ Rising(w, S) /\ Past(h, m, w, S)
  BY <1>1, <1>6 DEF Line
<1>15. /\ \A i \in 1 .. lw : \A a \in 1 .. F : w[i][a] \in S /\ w[i][a] # Silence
       /\ \A i \in 1 .. lw : \A a, b \in 1 .. F : a < b => w[i][a] < w[i][b]
       /\ \A i, j \in 1 .. lw : i < j => \A a, b \in 1 .. F : w[i][a] < w[j][b]
  BY <1>1, <1>14, Zenon DEF Rising
<1>16. \A i \in 1 .. lw + 1 : i = lw + 1 \/ (i \in 1 .. lw /\ y[i] = w[i])
  BY <1>13
<1>17. Rising(y, T)
  <2>1. \A i \in 1 .. lw + 1 : \A a \in 1 .. F : y[i][a] \in T /\ y[i][a] # Silence
    BY <1>8, <1>10, <1>13, <1>15, <1>16
  <2>2. \A i \in 1 .. lw + 1 : \A a, b \in 1 .. F : a < b => y[i][a] < y[i][b]
    BY <1>10, <1>13, <1>15, <1>16
  <2>3. ASSUME NEW i \in 1 .. lw + 1, NEW j \in 1 .. lw + 1, i < j, NEW a \in 1 .. F, NEW b \in 1 .. F
        PROVE  y[i][a] < y[j][b]
    <3>1. i \in 1 .. lw /\ y[i] = w[i]
      BY <1>16, <2>3
    <3>2. CASE j = lw + 1
      BY <1>10, <1>13, <1>15, <3>1, <3>2
    <3>3. CASE j # lw + 1
      <4>1. j \in 1 .. lw /\ y[j] = w[j]
        BY <1>16, <3>3
      <4> QED
        BY <1>15, <2>3, <3>1, <4>1
    <3> QED
      BY <3>2, <3>3
  <2> QED
    BY <1>1, <1>13, <2>1, <2>2, <2>3, Zenon DEF Rising
<1>18. Past(h, m, y, T)
  <2>1. Behind(h, m, y)
    <3>1. \A k \in DOMAIN h : \A i \in m + 1 .. lw : \A a \in 1 .. F : h[k] < w[i][a]
      BY <1>1, <1>14, Zenon DEF Past, Behind
    <3>2. \A k \in DOMAIN h : \A a \in 1 .. F : h[k] < g[a]
      <4>1. ASSUME NEW k \in DOMAIN h, NEW a \in 1 .. F
            PROVE  h[k] < g[a]
        <5>1. h[k] \in S \cup {Silence}
          BY <1>14 DEF Past, Range
        <5>2. Silence < g[a]
          BY <1>10 DEF Silence
        <5> QED
          BY <1>10, <5>1, <5>2
      <4> QED
        BY <4>1
    <3>3. \A i \in m + 1 .. lw + 1 : i = lw + 1 \/ (i \in m + 1 .. lw /\ y[i] = w[i])
      BY <1>13
    <3>4. \A k \in DOMAIN h : \A i \in m + 1 .. lw + 1 : \A a \in 1 .. F : h[k] < y[i][a]
      BY <1>13, <3>1, <3>2, <3>3
    <3> QED
      BY <1>1, <1>13, <3>4, Zenon DEF Behind
  <2> QED
    BY <1>8, <1>14, <2>1 DEF Past
<1>19. Len(y) = n + Len(x) /\ \A i \in 1 .. Len(x) : x[i] = y[n + i]
  <2>1. \A i \in 1 .. lr + 1 : i = lr + 1 \/ (i \in 1 .. lr /\ n + i \in 1 .. lw)
    BY <1>14
  <2>2. n + (lr + 1) = lw + 1
    BY <1>14
  <2>3. \A i \in 1 .. lr : x[i] = y[n + i]
    BY <1>13, <1>14, <2>1
  <2>4. \A i \in 1 .. lr + 1 : x[i] = y[n + i]
    BY <1>13, <2>1, <2>2, <2>3
  <2> QED
    BY <1>13, <2>2, <2>4
<1>20. \A i \in 1 .. n : y[i] = v[i]
  <2>1. \A i \in 1 .. n : i \in 1 .. lw
    BY <1>14
  <2> QED
    BY <1>13, <1>14, <2>1
<1> QED
  BY <1>2, <1>4, <1>7, <1>11, <1>12, <1>17, <1>18, <1>19, <1>20 DEF Line

\* All that x has put into the ring is numbered.
LinedUp(x, v, n, h, m) ==
  \E w \in Seq(Frames) : Line(w, v, n, x.ring, Range(x.sent), h, m)

\* A submitted frame, if the ring has room for it, is numbered last.
LEMMA SubmittedLine ==
  ASSUME NEW x \in Feeds, Full(x), Strict(All(x)), NEW v, NEW n \in Nat, NEW h \in Seq(Sounds),
         NEW m \in Nat, LinedUp(x, v, n, h, m)
  PROVE  LinedUp(Submitted(x), v, n, h, m)
<1>1. /\ x.frame \in Seq(Sounds) /\ x.ring \in Seq(Frames) /\ x.sent \in Seq(Sounds)
      /\ x.threw \in BOOLEAN /\ Len(x.frame) = FrameSamples
      /\ x = [frame |-> x.frame, ring |-> x.ring, sent |-> x.sent, threw |-> x.threw]
  BY DEF Feeds, Full
<1>2. PICK q \in Seq(Sounds), r \in Seq(Frames), f \in Frames : q = x.sent /\ r = x.ring /\ f = x.frame
  BY <1>1, LenProperties DEF Frames
<1>3. PICK w \in Seq(Frames) : Line(w, v, n, r, Range(q), h, m)
  BY <1>2 DEF LinedUp
<1>4. Strict(q \o f)
  BY <1>2 DEF All
<1>5. CASE ~client.connected
  <2>1. PICK t : t = TRUE
    OBVIOUS
  <2>2. Submitted(x) = [x EXCEPT !.threw = t]
    BY <1>5, <2>1 DEF Submitted
  <2>3. Submitted(x).ring = r /\ Submitted(x).sent = q
    BY <1>1, <1>2, <2>2
  <2> QED
    BY <1>3, <2>3 DEF LinedUp
<1>6. CASE client.connected
  <2>1. PICK s : s = q \o f
    OBVIOUS
  <2>2. PICK t : t = IF Len(r) < RingCap THEN Append(r, f) ELSE r
    OBVIOUS
  <2>3. Submitted(x) = [x EXCEPT !.frame = <<>>, !.sent = s, !.ring = t]
    BY <1>2, <1>6, <2>1, <2>2 DEF Submitted
  <2>4. Submitted(x).ring = t /\ Submitted(x).sent = s
    BY <1>1, <2>3
  <2>5. Line(Append(w, f), v, n, Append(r, f), Range(s), h, m)
    BY <1>3, <1>4, <2>1, LineGrows
  <2>6. Line(w, v, n, r, Range(s), h, m)
    <3>1. PICK g \in Seq(Sounds) : g = f
      BY FramesAreSeqs
    <3>2. PICK c \in Nat, l \in Nat : c = Len(q) /\ l = Len(g)
      BY LenProperties
    <3>3. s \in Seq(Sounds) /\ Len(s) = c + l /\ \A i \in 1 .. c : s[i] = q[i]
      <4>1. s = Joint(q, g)
        BY <2>1, <3>1 DEF Joint
      <4>2. Spliced(s, q, g, c, l)
        BY <4>1, <3>2, Splices, Zenon
      <4> QED
        BY <4>2 DEF Spliced
    <3>4. DOMAIN q = 1 .. c /\ DOMAIN s = 1 .. c + l
      BY <3>2, <3>3, LenProperties
    <3>5. Range(q) \subseteq Range(s)
      BY <3>3, <3>4 DEF Range
    <3> QED
      BY <1>3, <3>5, LineMore
  <2>7. Append(w, f) \in Seq(Frames)
    BY AppendProperties
  <2> QED
    BY <1>3, <2>2, <2>4, <2>5, <2>6, <2>7 DEF LinedUp
<1> QED
  BY <1>5, <1>6

\* Part of what is in order is in order.
LEMMA StrictPart ==
  ASSUME NEW u \in Seq(Sounds), Strict(u), NEW q \in Seq(Sounds), Len(q) <= Len(u),
         \A i \in 1 .. Len(q) : q[i] = u[i]
  PROVE  Strict(q)
<1>1. PICK k \in Nat, l \in Nat : k = Len(q) /\ l = Len(u)
  BY LenProperties
<1>2. \A i \in 1 .. k : i \in 1 .. l /\ q[i] = u[i]
  BY <1>1
<1>3. /\ \A i \in 1 .. l : u[i] # Silence
      /\ \A i, j \in 1 .. l : i < j => u[i] < u[j]
  BY <1>1, Zenon DEF Strict
<1>4. /\ \A i \in 1 .. k : q[i] # Silence
      /\ \A i, j \in 1 .. k : i < j => q[i] < q[j]
  BY <1>2, <1>3
<1> QED
  BY <1>1, <1>4, Zenon DEF Strict

\* One turn of AccumulateAndSubmitFrames submits the frames it fills.
LEMMA FedLine ==
  ASSUME NEW x \in Feeds, NEW e \in Sounds, ~Fed(x, e).threw, Strict(All(Fed(x, e))),
         NEW v, NEW n \in Nat, NEW h \in Seq(Sounds), NEW m \in Nat, LinedUp(x, v, n, h, m)
  PROVE  LinedUp(Fed(x, e), v, n, h, m)
<1>1. PICK a \in Seq(Sounds) : a = All(x)
  BY FedTakes
<1>2. PICK b \in Seq(Sounds) : b = Append(a, e)
  BY AppendProperties
<1>3. All(Fed(x, e)) = b /\ Strict(b)
  BY <1>1, <1>2, FedTakes
<1>4. Strict(a)
  <2>1. Len(a) \in Nat /\ Len(b) = Len(a) + 1 /\ \A i \in 1 .. Len(a) : b[i] = a[i]
    BY <1>2, AppendProperties, LenProperties
  <2>2. Len(a) <= Len(b) /\ \A i \in 1 .. Len(a) : a[i] = b[i]
    BY <2>1
  <2> QED
    BY <1>3, <2>2, StrictPart
<1>5. PICK room : room = IF Full(x) THEN Submitted(x) ELSE x
  OBVIOUS
<1>6. room \in Feeds /\ (~room.threw => Len(room.frame) < FrameSamples)
  BY <1>5, RoomType
<1>7. LinedUp(room, v, n, h, m)
  BY <1>1, <1>4, <1>5, SubmittedLine
<1>8. PICK more : more = [room EXCEPT !.frame = Append(@, e)]
  OBVIOUS
<1>9. Fed(x, e) = IF room.threw THEN room ELSE IF Full(more) THEN Submitted(more) ELSE more
  BY <1>5, <1>8, Zenon DEF Fed
<1>10. ~room.threw
  BY <1>9
<1>11. more \in Feeds
  BY <1>6, <1>8, <1>10, AppendedType
<1>12. more.ring = room.ring /\ more.sent = room.sent
  BY <1>6, <1>8 DEF Feeds
<1>13. LinedUp(more, v, n, h, m)
  BY <1>7, <1>12 DEF LinedUp
<1>14. CASE Full(more)
  <2>1. All(Submitted(more)) = All(more)
    BY <1>11, SubmittedAll
  <2>2. Strict(All(more))
    BY <1>3, <1>9, <1>10, <1>14, <2>1
  <2> QED
    BY <1>9, <1>10, <1>11, <1>13, <1>14, <2>2, SubmittedLine
<1>15. CASE ~Full(more)
  BY <1>9, <1>10, <1>13, <1>15
<1> QED
  BY <1>14, <1>15

\* And so does the loop, if it is not ended by an exception.
LEMMA AccumulatedLine ==
  ASSUME TypeOK, NEW s \in Seq(Sounds), Strict((sent \o frame) \o s), ~Accumulated(s).threw,
         NEW w \in Seq(Frames), NEW v, NEW n \in Nat, NEW h \in Seq(Sounds), NEW m \in Nat,
         Line(w, v, n, ring, Range(sent), h, m)
  PROVE  LinedUp(Accumulated(s), v, n, h, m)
<1>1. PICK g : /\ g[0] = [frame |-> frame, ring |-> ring, sent |-> sent, threw |-> FALSE]
               /\ Accumulated(s) = g[Len(s)]
               /\ \A k \in 0 .. Len(s) : g[k] \in Feeds
               /\ \A k \in 1 .. Len(s) : g[k] = Fed(g[k - 1], s[k])
  BY AccumulateRuns
<1>2. PICK l \in Nat : l = Len(s)
  BY LenProperties
<1>3. PICK q \in Seq(Sounds) : q = sent \o frame
  BY ConcatProperties DEF TypeOK
<1>4. PICK u \in Seq(Sounds) : u = q \o s
  BY ConcatProperties
<1>5. Strict(u)
  BY <1>3, <1>4
<1>6. PICK c \in Nat : c = Len(q)
  BY LenProperties
<1>7. /\ Len(u) = c + l
      /\ \A i \in 1 .. c : u[i] = q[i]
      /\ \A i \in 1 .. l : u[c + i] = s[i]
  <2>1. u = Joint(q, s)
    BY <1>4 DEF Joint
  <2>2. Spliced(u, q, s, c, l)
    BY <2>1, <1>2, <1>6, Splices, Zenon
  <2> QED
    BY <2>2 DEF Spliced
<1>8. ASSUME NEW k \in 0 .. l, NEW a, Grown(a, FALSE, q, s, k)
      PROVE  Strict(a)
  <2>1. /\ a \in Seq(Sounds) /\ Len(a) = c + k
        /\ \A i \in 1 .. c : a[i] = q[i]
        /\ \A i \in 1 .. k : a[c + i] = s[i]
    BY <1>6, <1>8 DEF Grown
  <2>2. ASSUME NEW i \in 1 .. c + k
        PROVE  a[i] = u[i]
    <3>1. CASE i \in 1 .. c
      BY <1>7, <2>1, <3>1
    <3>2. CASE i \notin 1 .. c
      <4>1. PICK d \in 1 .. k : i = c + d
        <5>1. i - c \in 1 .. k /\ i = c + (i - c)
          BY <3>2
        <5> QED
          BY <5>1
      <4>2. d \in 1 .. l
        OBVIOUS
      <4> QED
        BY <1>7, <2>1, <4>1, <4>2
    <3> QED
      BY <3>1, <3>2
  <2>3. Len(a) <= Len(u)
    BY <1>7, <2>1
  <2> QED
    BY <1>5, <2>1, <2>2, <2>3, StrictPart
<1> DEFINE S == {k \in 0 .. l : /\ Grown(All(g[k]), g[k].threw, q, s, k)
                                /\ g[k].threw \/ LinedUp(g[k], v, n, h, m)}
<1>9. 0 \in S
  <2>1. All(g[0]) = q /\ g[0].ring = ring /\ g[0].sent = sent
    BY <1>1, <1>3 DEF All
  <2>2. Grown(All(g[0]), g[0].threw, q, s, 0)
    BY <1>6, <2>1 DEF Grown
  <2>3. LinedUp(g[0], v, n, h, m)
    BY <2>1 DEF LinedUp
  <2> QED
    BY <2>2, <2>3
<1>10. ASSUME NEW k \in 1 .. l, k - 1 \in S
       PROVE  k \in S
  <2>1. k \in 0 .. l /\ k - 1 \in 0 .. l
    OBVIOUS
  <2>2. PICK x \in Feeds : x = g[k - 1]
    BY <1>1, <1>2, <2>1
  <2>3. PICK e \in Sounds : e = s[k]
    BY <1>2, ElementOfSeq
  <2>4. PICK y \in Feeds : y = g[k]
    BY <1>1, <1>2, <2>1
  <2>5. y = Fed(x, e)
    BY <1>1, <1>2, <2>2, <2>3, <2>4
  <2>6. Grown(All(x), x.threw, q, s, k - 1) /\ (x.threw \/ LinedUp(x, v, n, h, m))
    BY <1>10, <2>2
  <2>7. Grown(All(y), y.threw, q, s, k)
    BY <1>2, <2>3, <2>5, <2>6, GrownMore
  <2>8. CASE ~y.threw
    <3>1. ~x.threw
      BY <2>3, <2>5, <2>8, FedTakes
    <3>2. Grown(All(y), FALSE, q, s, k)
      BY <2>7, <2>8 DEF Grown
    <3>3. Strict(All(y))
      BY <1>8, <2>1, <3>2
    <3>4. LinedUp(y, v, n, h, m)
      BY <2>3, <2>5, <2>6, <2>8, <3>1, <3>3, FedLine
    <3> QED
      BY <2>1, <2>4, <2>7, <3>4
  <2> QED
    BY <2>1, <2>4, <2>7, <2>8
<1> HIDE DEF S
<1>11. \A k \in 0 .. l : k \in S
  BY <1>9, <1>10, UpTo
<1>12. l \in S
  BY <1>11
<1> QED
  BY <1>1, <1>2, <1>12 DEF S

--------------------------------------------------------------------------------
(* How many frames there may be.                                              *)

\* Samples that rise, frame by frame, are at least as many as their last one says.
LEMMA FrameNumbers ==
  ASSUME NEW w \in Seq(Frames), NEW S, Rising(w, S)
  PROVE  Len(w) * FrameSamples <= MaxCaptured
<1>1. PICK F \in Nat \ {0} : F = FrameSamples
  BY MicAssumption
<1>2. PICK l \in Nat : l = Len(w)
  BY LenProperties
<1>3. \A i \in 1 .. l : \A a \in 1 .. F : w[i][a] \in 0 .. MaxCaptured
  <2>1. \A i \in 1 .. l : w[i] \in [1 .. F -> 0 .. MaxCaptured]
    BY <1>1, <1>2, ElementOfSeq DEF Frames, Sounds
  <2> QED
    BY <2>1
<1>4. /\ \A i \in 1 .. l : \A a \in 1 .. F : w[i][a] # 0
      /\ \A i \in 1 .. l : \A a, b \in 1 .. F : a < b => w[i][a] < w[i][b]
      /\ \A i, j \in 1 .. l : i < j => \A a, b \in 1 .. F : w[i][a] < w[j][b]
  BY <1>1, <1>2 DEF Rising, Silence
<1> DEFINE S2 == {k \in 0 .. l : k = 0 \/ w[k][F] >= k * F}
<1>5. 0 \in S2
  OBVIOUS
<1>6. ASSUME NEW k \in 1 .. l, k - 1 \in S2
      PROVE  k \in S2
  <2>1. PICK c \in Nat : c = (k - 1) * F
    <3>1. k - 1 \in Nat
      OBVIOUS
    <3> QED
      BY <3>1
  <2>2. c + F = k * F
    BY <2>1
  <2>3. PICK f \in [1 .. F -> 0 .. MaxCaptured] : f = w[k]
    BY <1>1, <1>2, ElementOfSeq DEF Frames, Sounds
  <2>4. \A a, b \in 1 .. F : a < b => f[a] < f[b]
    BY <1>4, <2>3
  <2>5. f[1] >= c + 1
    <3>1. CASE k = 1
      <4>1. c = 0 /\ f[1] # 0 /\ f[1] \in 0 .. MaxCaptured
        BY <1>4, <2>1, <2>3, <3>1
      <4> QED
        BY <4>1, MicAssumption
    <3>2. CASE k # 1
      <4>1. k - 1 \in 1 .. l /\ k - 1 < k
        BY <3>2
      <4>2. w[k - 1][F] >= c
        BY <1>6, <2>1, <4>1
      <4>3. w[k - 1][F] < f[1] /\ w[k - 1][F] \in Nat /\ f[1] \in Nat
        BY <1>3, <1>4, <2>3, <4>1, MicAssumption
      <4> QED
        BY <4>2, <4>3
    <3> QED
      BY <3>1, <3>2
  <2> DEFINE T == {a \in 0 .. F : a = 0 \/ f[a] >= c + a}
  <2>6. 0 \in T
    OBVIOUS
  <2>7. ASSUME NEW a \in 1 .. F, a - 1 \in T
        PROVE  a \in T
    <3>1. CASE a = 1
      BY <2>5, <3>1
    <3>2. CASE a # 1
      <4>1. a - 1 \in 1 .. F /\ a - 1 < a
        BY <3>2
      <4>2. f[a - 1] >= c + (a - 1) /\ f[a - 1] < f[a] /\ f[a - 1] \in Int /\ f[a] \in Int
        BY <2>4, <2>7, <4>1, MicAssumption
      <4> QED
        BY <4>2
    <3> QED
      BY <3>1, <3>2
  <2> HIDE DEF T
  <2>8. \A a \in 0 .. F : a \in T
    BY <2>6, <2>7, UpTo
  <2>9. F \in T
    BY <2>8
  <2>10. f[F] >= c + F
    BY <2>9 DEF T
  <2> QED
    BY <2>2, <2>3, <2>10
<1> HIDE DEF S2
<1>7. \A k \in 0 .. l : k \in S2
  BY <1>5, <1>6, UpTo
<1>8. l \in S2
  BY <1>7
<1>9. CASE l = 0
  BY <1>1, <1>2, <1>9, MicAssumption
<1>10. CASE l # 0
  <2>1. l \in 1 .. l /\ F \in 1 .. F
    BY <1>10
  <2>2. w[l][F] \in 0 .. MaxCaptured /\ w[l][F] >= l * F
    BY <1>3, <1>8, <1>10, <2>1 DEF S2
  <2>3. l * F \in Nat
    OBVIOUS
  <2> QED
    BY <1>1, <1>2, <2>2, <2>3, MicAssumption
<1> QED
  BY <1>9, <1>10

\* A speech short enough for its sequence numbers not to wrap.  Without it a frame that
\* has stayed in its slot while the numbers went round may be taken for a new one.
ShortSpeech == MaxCaptured < FrameSamples * SeqMod

\* Its frames have different numbers.
LEMMA EnoughNumbers ==
  ASSUME ShortSpeech, NEW w \in Seq(Frames), NEW S, Rising(w, S)
  PROVE  Len(w) < SeqMod
<1>1. PICK l \in Nat : l = Len(w)
  BY LenProperties
<1>2. PICK F \in Nat \ {0} : F = FrameSamples
  BY MicAssumption
<1>3. PICK M \in Nat : M = SeqMod
  BY PlaybackAssumption
<1>4. l * F < F * M
  <2>1. l * F <= MaxCaptured /\ MaxCaptured < F * M
    BY <1>1, <1>2, <1>3, FrameNumbers DEF ShortSpeech
  <2>2. l * F \in Nat /\ F * M \in Nat
    OBVIOUS
  <2> QED
    BY <2>1, <2>2, MicAssumption
<1>5. ASSUME M <= l
      PROVE  FALSE
  <2>1. PICK d \in Nat : l = M + d
    <3>1. l - M \in Nat /\ l = M + (l - M)
      BY <1>5
    <3> QED
      BY <3>1
  <2>2. l * F = (M * F) + (d * F) /\ M * F \in Nat /\ d * F \in Nat /\ M * F = F * M
    BY <2>1
  <2> QED
    BY <1>4, <2>2
<1> QED
  BY <1>1, <1>3, <1>5

--------------------------------------------------------------------------------
(* From the microphone to the ear.                                            *)

\* w has all frames that entered the ring, the first x.seq of them numbered: those
\* that still may be heard are on their way in order, and what is in h was before.
Numbered(w, x, r, S, h, j, p) ==
  /\ Line(w, w, x.seq, r, S, h, j.nextPlay)
  /\ InPlace(j, x.seq, w) /\ Coming(j, p \o x.outq, 0, x.seq, w)

\* What a session is made of.
LEMMA SessionParts ==
  ASSUME NEW x \in Sessions
  PROVE  x.outq \in Seq(Packets) /\ x.seq \in Nat
BY PlaybackAssumption DEF Sessions, SeqNos

\* A Tick of the transport and of the engine, up to the handlers and the queue.
LEMMA TickNumbered ==
  ASSUME NEW w \in Seq(Frames), Len(w) < SeqMod, NEW x \in Sessions, NEW r \in Seq(Frames),
         NEW S, NEW h \in Seq(Sounds), NEW j \in Jitters, NEW p \in Seq(Packets),
         Numbered(w, x, r, S, h, j, p), NEW in \in Jitters, in = IngestedAll(j, p),
         NEW ticked \in Jitters, ticked = Popped(in),
         NEW queued \in Sessions, queued = Drained(x, r)
  PROVE  /\ queued.seq = Len(w) /\ InPlace(ticked, Len(w), w)
         /\ Coming(ticked, queued.outq, 0, Len(w), w)
         /\ Rising(w, S) /\ Past(h \o Frame(in), ticked.nextPlay, w, S)
<1>1. PICK n \in Nat, q \in Seq(Packets) : n = x.seq /\ q = x.outq
  BY SessionParts
<1>2. PICK l \in Nat : l = Len(w)
  BY LenProperties
<1>3. /\ l = n + Len(r) /\ \A i \in 1 .. Len(r) : r[i] = w[n + i]
      /\ Rising(w, S) /\ Past(h, j.nextPlay, w, S)
  BY <1>1, <1>2 DEF Numbered, Line
<1>4. InPlace(j, n, w)
  BY <1>1 DEF Numbered
<1>5. Coming(j, p \o q, 0, n, w)
  BY <1>1 DEF Numbered
<1>6. InPlace(in, n, w) /\ Coming(in, q, 0, n, w) /\ in.nextPlay >= j.nextPlay
  BY <1>4, <1>5, TickKeeps
<1>7. n <= l /\ n < SeqMod /\ n + Len(r) < SeqMod /\ Len(r) \in Nat
  BY <1>2, <1>3, LenProperties, PlaybackAssumption
<1>8. InPlace(in, n, w)
  BY <1>6
<1>9. Coming(in, q, 0, n, w)
  BY <1>6
<1>10. /\ InPlace(ticked, n, w) /\ Coming(ticked, q, 0, n, w) /\ ticked.nextPlay >= in.nextPlay
       /\ \/ Frame(in) \in {<<>>, Concealment}
          \/ /\ in.nextPlay + 1 \in 1 .. n /\ Frame(in) = w[in.nextPlay + 1]
             /\ ticked.nextPlay = in.nextPlay + 1
  BY <1>7, <1>8, <1>9, PopKeeps
<1>11. InPlace(ticked, n, w)
  BY <1>10
<1>12. Coming(ticked, x.outq, 0, n, w)
  BY <1>1, <1>10
<1>13. /\ queued.seq = l /\ InPlace(ticked, l, w) /\ Coming(ticked, queued.outq, 0, l, w)
  <2>1. x.seq = n /\ n + Len(r) < SeqMod /\ \A i \in 1 .. Len(r) : r[i] = w[n + i]
    BY <1>1, <1>3, <1>7
  <2>2. /\ Drained(x, r).seq = n + Len(r) /\ InPlace(ticked, n + Len(r), w)
        /\ Coming(ticked, Drained(x, r).outq, 0, n + Len(r), w)
    BY <1>11, <1>12, <2>1, DrainKeeps
  <2> QED
    BY <1>3, <2>2
<1>14. PICK a \in Nat, b \in Nat, c \in Nat : a = j.nextPlay /\ b = in.nextPlay /\ c = ticked.nextPlay
  BY PlaybackAssumption DEF Jitters, SeqNos
<1>15. a <= b /\ b <= c
  BY <1>6, <1>10, <1>14
<1>16. Past(h, a, w, S)
  BY <1>3, <1>14
<1>17. Past(h, b, w, S)
  BY <1>15, <1>16, PastMore
<1>18. PICK f : f = Frame(in)
  OBVIOUS
<1>19. Past(h \o f, c, w, S)
  <2>1. CASE f = <<>>
    <3>1. h \o f = h
      BY <2>1, ConcatEmptySeq
    <3> QED
      BY <1>15, <1>17, <3>1, PastMore
  <2>2. CASE f = Concealment
    <3>1. Past(h \o f, b, w, S)
      BY <1>3, <1>17, <2>2, PastConcealment
    <3> QED
      BY <1>15, <3>1, PastMore
  <2>3. CASE b + 1 \in 1 .. n /\ f = w[b + 1] /\ c = b + 1
    <3>1. b + 1 <= Len(w)
      BY <1>2, <1>7, <2>3
    <3> QED
      BY <1>3, <1>17, <2>3, <3>1, PastFrame
  <2> QED
    BY <1>10, <1>14, <1>18, <2>1, <2>2, <2>3
<1> QED
  BY <1>2, <1>3, <1>13, <1>14, <1>18, <1>19

\* What is sent waits in the transport, or has been handed over at once.
LEMMA DeliverNumbered ==
  ASSUME NEW w \in Seq(Frames), NEW x \in Sessions, x.seq = Len(w), x.outq = <<>>,
         NEW S, NEW h \in Seq(Sounds), NEW j \in Jitters, NEW out \in Seq(Packets),
         InPlace(j, Len(w), w), Coming(j, out, 0, Len(w), w), Rising(w, S),
         Past(h, j.nextPlay, w, S)
  PROVE  /\ Numbered(w, x, <<>>, S, h, j, SentAll(out))
         /\ Numbered(w, x, <<>>, S, h, IngestedAll(j, out), <<>>)
<1>1. PICK n \in Nat : n = Len(w)
  BY LenProperties
<1>2. PICK none \in Seq(Packets) : none = <<>> /\ Len(none) = 0
  BY EmptySeq
<1>3. ASSUME NEW m, Past(h, m, w, S)
      PROVE  Line(w, w, n, none, S, h, m)
  BY <1>1, <1>2, <1>3 DEF Line
<1>4. InPlace(j, n, w)
  BY <1>1
<1>5. Coming(j, out, 0, n, w)
  BY <1>1
<1>6. Numbered(w, x, <<>>, S, h, j, SentAll(out))
  <2>1. PICK o \in Seq(Packets) : o = SentAll(out)
    BY SentEnd
  <2>2. PICK c \in Nat : Len(o) + c = Len(out) /\ \A a \in 1 .. Len(o) : o[a] = out[a + c]
    BY <2>1, SentEnd
  <2>3. Coming(j, o, 0, n, w)
    <3>1. c >= 0 /\ Len(o) + c <= Len(out) /\ 0 \in Nat
      BY <2>2, LenProperties
    <3> QED
      BY <1>5, <2>2, <3>1, ComingPart
  <2>4. o \o none = o
    BY <1>2, ConcatEmptySeq
  <2> QED
    BY <1>1, <1>2, <1>3, <1>4, <2>1, <2>3, <2>4 DEF Numbered
<1>7. Numbered(w, x, <<>>, S, h, IngestedAll(j, out), <<>>)
  <2>1. out \o none = out /\ none \o none = none
    BY <1>2, ConcatEmptySeq
  <2>2. PICK g \in Jitters : g = IngestedAll(j, out)
    BY IngestRuns
  <2>3. Coming(j, out \o none, 0, n, w)
    BY <1>5, <2>1
  <2>4. InPlace(g, n, w) /\ Coming(g, none, 0, n, w) /\ g.nextPlay >= j.nextPlay
    BY <1>4, <2>2, <2>3, TickKeeps
  <2>5. PICK a \in Nat, b \in Nat : a = j.nextPlay /\ b = g.nextPlay
    BY PlaybackAssumption DEF Jitters, SeqNos
  <2>6. a <= b
    BY <2>4, <2>5
  <2>7. Past(h, a, w, S)
    BY <2>5
  <2>8. Past(h, b, w, S)
    BY <2>6, <2>7, PastMore
  <2> QED
    BY <1>1, <1>2, <1>3, <2>1, <2>2, <2>4, <2>5, <2>8 DEF Numbered
<1> QED
  BY <1>6, <1>7

\* A connect takes no number, and queues a JOIN at most.
LEMMA ConnectedParts ==
  ASSUME NEW x \in Sessions
  PROVE  /\ Session!Connected(x, Id).seq = x.seq
         /\ Session!Connected(x, Id).outq \in {x.outq, Append(x.outq, Session!JoinPacket(Id))}
BY DEF Sessions, Session!Connected, Session!Queued

\* A JOIN that is queued is no voice.
LEMMA ConnectNumbered ==
  ASSUME NEW w, NEW x \in Sessions, NEW r, NEW S, NEW h, NEW j \in Jitters,
         NEW p \in Seq(Packets), Numbered(w, x, r, S, h, j, p)
  PROVE  Numbered(w, Session!Connected(x, Id), r, S, h, j, p)
<1>1. PICK y \in Sessions : y = Session!Connected(x, Id)
  BY SessionSteps
<1>2. PICK q \in Seq(Packets) : q = x.outq
  BY SessionParts
<1>3. PICK n \in Nat : n = x.seq
  BY SessionParts
<1>4. PICK join \in Packets : join = Session!JoinPacket(Id) /\ join.type = "join"
  BY PacketParts DEF Session!JoinPacket
<1>5. y.seq = n /\ (y.outq = q \/ y.outq = Append(q, join))
  BY <1>1, <1>2, <1>3, <1>4, ConnectedParts
<1>6. Coming(j, p \o q, 0, n, w)
  BY <1>2, <1>3 DEF Numbered
<1>7. Coming(j, p \o y.outq, 0, n, w)
  <2>1. CASE y.outq = q
    BY <1>6, <2>1
  <2>2. CASE y.outq = Append(q, join)
    <3>1. PICK u \in Seq(Packets) : u = p \o q
      BY ConcatProperties
    <3>2. p \o y.outq = Append(u, join)
      <4>1. Append(q, join) = q \o <<join>> /\ Append(u, join) = u \o <<join>> /\ <<join>> \in Seq(Packets)
        BY <3>1
      <4> QED
        BY <2>2, <3>1, <4>1, ConcatAssociative
    <3>3. PICK v \in Seq(Packets) : v = Append(u, join)
      BY <3>1, AppendProperties
    <3>4. PICK l \in Nat : l = Len(u)
      BY LenProperties
    <3>5. Len(v) = l + 1 /\ v[l + 1] = join /\ \A i \in 1 .. l : v[i] = u[i]
      BY <3>3, <3>4, AppendProperties
    <3>6. \A a \in 1 .. l + 1 : v[a].type = "voice" => a \in 1 .. l
      <4>1. v[l + 1].type # "voice"
        BY <1>4, <3>5
      <4> QED
        BY <4>1
    <3>7. ASSUME NEW a \in 0 + 1 .. Len(v), v[a].type = "voice"
          PROVE  /\ v[a].seq \in j.nextPlay .. n - 1 /\ v[a].flags = w[v[a].seq + 1]
                 /\ \A k \in Jitter!Slots : j.packets[k].valid => j.packets[k].seq < v[a].seq
                 /\ \A b \in a + 1 .. Len(v) : v[b].type = "voice" => v[a].seq < v[b].seq
      <4>1. a \in 0 + 1 .. Len(u) /\ v[a] = u[a] /\ a \in 1 .. l
        BY <3>4, <3>5, <3>6, <3>7
      <4>2. /\ u[a].seq \in j.nextPlay .. n - 1 /\ u[a].flags = w[u[a].seq + 1]
            /\ \A k \in Jitter!Slots : j.packets[k].valid => j.packets[k].seq < u[a].seq
            /\ \A b \in a + 1 .. Len(u) : u[b].type = "voice" => u[a].seq < u[b].seq
        BY <1>6, <3>1, <3>7, <4>1, Zenon DEF Coming
      <4>3. \A b \in a + 1 .. Len(v) : v[b].type = "voice" => b \in a + 1 .. Len(u) /\ v[b] = u[b]
        BY <3>4, <3>5, <3>6, <4>1
      <4> QED
        BY <4>1, <4>2, <4>3, Zenon
    <3> QED
      BY <3>2, <3>3, <3>7, Zenon DEF Coming
  <2> QED
    BY <1>5, <2>1, <2>2
<1> QED
  BY <1>1, <1>3, <1>5, <1>7 DEF Numbered

\* A transport that stops forgets what waits.
LEMMA DisconnectNumbered ==
  ASSUME NEW w, NEW x \in Sessions, NEW r, NEW S, NEW h, NEW j \in Jitters,
         NEW p \in Seq(Packets), Numbered(w, x, r, S, h, j, p)
  PROVE  Numbered(w, Session!Disconnected(x), r, S, h, j, <<>>)
<1>1. PICK y \in Sessions : y = Session!Disconnected(x)
  BY SessionSteps
<1>2. PICK q \in Seq(Packets), n \in Nat : q = x.outq /\ n = x.seq
  BY SessionParts
<1>3. y.seq = n /\ y.outq = q
  BY <1>1, <1>2 DEF Sessions, Session!Disconnected
<1>4. PICK u \in Seq(Packets) : u = p \o q
  BY ConcatProperties
<1>5. Coming(j, u, 0, n, w)
  BY <1>2, <1>4 DEF Numbered
<1>6. PICK c \in Nat : c = Len(p)
  BY LenProperties
<1>7. Len(q) + c = Len(u) /\ \A a \in 1 .. Len(q) : q[a] = u[c + a]
  BY <1>4, <1>6, Joined, LenProperties
<1>8. c >= 0 /\ Len(q) + c <= Len(u) /\ \A a \in 1 .. Len(q) : q[a] = u[a + c]
  <2>1. Len(q) + c <= Len(u)
    BY <1>7, LenProperties
  <2>2. \A a \in 1 .. Len(q) : a + c = c + a
    OBVIOUS
  <2> QED
    BY <1>7, <2>1, <2>2
<1>9. Coming(j, q, 0, n, w)
  BY <1>5, <1>8, ComingPart
<1>10. <<>> \o q = q
  BY ConcatEmptySeq
<1> QED
  BY <1>1, <1>2, <1>3, <1>9, <1>10 DEF Numbered

\* Only what was before can change otherwise.
LEMMA PastNumbered ==
  ASSUME NEW w, NEW x, NEW r, NEW S, NEW h, NEW j, NEW p, Numbered(w, x, r, S, h, j, p),
         NEW g, Past(g, j.nextPlay, w, S)
  PROVE  Numbered(w, x, r, S, g, j, p)
BY DEF Numbered, Line

\* Frames enter the ring: those that were numbered still are.
LEMMA RingNumbered ==
  ASSUME NEW w \in Seq(Frames), NEW x \in Sessions, NEW r, NEW S, NEW h, NEW j \in Jitters,
         NEW p, Numbered(w, x, r, S, h, j, p),
         NEW v \in Seq(Frames), NEW t \in Seq(Frames), NEW T, Line(v, w, x.seq, t, T, h, j.nextPlay),
         p \o x.outq \in Seq(Packets)
  PROVE  Numbered(v, x, t, T, h, j, p)
<1>1. PICK n \in Nat : n = x.seq
  BY SessionParts
<1>2. \A i \in 1 .. n : v[i] = w[i]
  BY <1>1 DEF Line
<1>3. Line(v, v, n, t, T, h, j.nextPlay)
  BY <1>1 DEF Line
<1>4. PICK m \in Nat : m = j.nextPlay
  BY PlaybackAssumption DEF Jitters, SeqNos
<1>5. \A s \in m .. n - 1 : s + 1 \in 1 .. n
  OBVIOUS
<1>6. InPlace(j, n, v)
  <2>1. InPlace(j, n, w)
    BY <1>1 DEF Numbered
  <2> QED
    BY <1>2, <1>4, <1>5, <2>1 DEF InPlace
<1>7. PICK u \in Seq(Packets) : u = p \o x.outq
  OBVIOUS
<1>8. Coming(j, u, 0, n, v)
  <2>1. Coming(j, u, 0, n, w)
    BY <1>1, <1>7 DEF Numbered
  <2> QED
    BY <1>2, <1>4, <1>5, <2>1 DEF Coming
<1> QED
  BY <1>1, <1>3, <1>6, <1>7, <1>8 DEF Numbered

\* What has been heard, what waits in the playback buffer, and the frame in hand.
Played(h, b, f) == h \o (HeldIn(b) \o f)

\* The microphone has been read as it should be.
WellRead == ~lapped /\ ~failed /\ ~threw

HearInv ==
  /\ heard \in Seq(Sounds)
  /\ WellRead =>
       /\ game \in {"free", "pump"} => pcm = <<>>
       /\ \E w \in Seq(Frames) :
            Numbered(w, client, ring, Range(sent), Played(heard, buffer, pcm), jitter, pending)

\* They are samples.
LEMMA PlayedParts ==
  ASSUME TypeOK
  PROVE  /\ HeldIn(buffer) \in Seq(Sounds) /\ pcm \in Seq(Sounds)
         /\ client \in Sessions /\ client.seq \in Nat /\ client.outq \in Seq(Packets)
         /\ jitter \in Jitters /\ jitter.nextPlay \in Nat
         /\ pending \in Seq(Packets) /\ ring \in Seq(Frames)
         /\ sent \in Seq(Sounds) /\ frame \in Seq(Sounds)
<1>1. pcm \in Seq(Sounds)
  <2>1. <<>> \in Seq(Sounds)
    BY EmptySeq
  <2> QED
    BY <2>1, FramesAreSeqs DEF TypeOK
<1>2. HeldIn(buffer) \in Seq(Sounds)
  <2>1. CASE buffer = NoBuffer
    BY <2>1, HeldInBuffer, EmptySeq
  <2>2. CASE BufferOk(buffer)
    BY <2>2, HeldInBuffer, HeldContent DEF BufferOk
  <2> QED
    BY <2>1, <2>2 DEF TypeOK
<1>3. client \in Sessions /\ jitter \in Jitters
  BY DEF TypeOK
<1>4. jitter.nextPlay \in Nat
  BY <1>3, PlaybackAssumption DEF Jitters, SeqNos
<1>5. client.seq \in Nat /\ client.outq \in Seq(Packets)
  BY <1>3, SessionParts
<1> QED
  BY <1>1, <1>2, <1>3, <1>4, <1>5 DEF TypeOK

\* At first nothing is numbered.
LEMMA HearInitially == Init => HearInv
<1> SUFFICES ASSUME Init PROVE HearInv
  OBVIOUS
<1>1. heard = <<>> /\ pcm = <<>> /\ buffer = NoBuffer /\ pending = <<>> /\ ring = <<>>
      /\ game = "free"
  BY DEF Init, MicInit
<1>2. heard \in Seq(Sounds)
  BY <1>1, EmptySeq
<1>3. PICK w \in Seq(Frames) : w = <<>> /\ Len(w) = 0
  BY EmptySeq
<1>4. Played(heard, buffer, pcm) = <<>>
  BY <1>1, <1>2, HeldInBuffer, ConcatEmptySeq DEF Played
<1>5. PICK S : S = Range(sent)
  OBVIOUS
<1>6. client.seq = 0 /\ client.outq \in {<<>>, Append(<<>>, Session!JoinPacket(Id))}
  <2>1. PICK x \in Sessions : x = Session!Fresh /\ x.seq = 0 /\ x.outq = <<>>
    BY FreshSession
  <2>2. /\ Session!Connected(x, Id).seq = 0
        /\ Session!Connected(x, Id).outq \in {<<>>, Append(<<>>, Session!JoinPacket(Id))}
    BY <2>1, ConnectedParts
  <2>3. client = x \/ client = Session!Connected(x, Id)
    BY <2>1 DEF Init
  <2> QED
    BY <2>1, <2>2, <2>3
<1>7. PICK j \in Jitters : j = jitter
  BY TypeInit DEF TypeOK
<1>8. j.nextPlay = 0 /\ \A k \in Jitter!Slots : ~j.packets[k].valid
  <2>1. jitter.packets = Jitter!Empty(<<>>) /\ jitter.nextPlay = 0
    BY DEF Init
  <2>2. \A k \in Jitter!Slots : Jitter!Empty(<<>>)[k] = [seq |-> 0, valid |-> FALSE, payload |-> <<>>]
    BY DEF Jitter!Empty
  <2>3. \A k \in Jitter!Slots : ~Jitter!Empty(<<>>)[k].valid
    BY <2>2
  <2> QED
    BY <1>7, <2>1, <2>3
<1>9. InPlace(j, 0, w)
  BY <1>8 DEF InPlace
<1>10. Coming(j, pending \o client.outq, 0, 0, w)
  <2>1. PICK q \in Seq(Packets) : q = client.outq
    BY TypeInit, SessionParts DEF TypeOK
  <2>2. \A a \in DOMAIN q : q[a].type # "voice"
    <3>1. client.outq = <<>> \/ client.outq = Append(<<>>, Session!JoinPacket(Id))
      BY <1>6
    <3>2. CASE client.outq = <<>>
      BY <2>1, <3>2
    <3>3. CASE client.outq = Append(<<>>, Session!JoinPacket(Id))
      <4>1. q = <<Session!JoinPacket(Id)>>
        BY <2>1, <3>3
      <4>2. Session!JoinPacket(Id).type = "join"
        BY DEF Session!JoinPacket
      <4> QED
        BY <4>1, <4>2
    <3> QED
      BY <3>1, <3>2, <3>3
  <2>3. pending \o client.outq = q
    BY <1>1, <2>1, ConcatEmptySeq
  <2>4. \A a \in 0 + 1 .. Len(q) : q[a].type # "voice"
    BY <2>2, LenProperties
  <2> QED
    BY <2>3, <2>4 DEF Coming
<1>11. Line(w, w, 0, <<>>, S, <<>>, 0)
  <2>1. Rising(w, S)
    BY <1>3 DEF Rising
  <2>2. Past(<<>>, 0, w, S)
    BY DEF Past, InCaptureOrder, Behind, Range
  <2> QED
    BY <1>3, <2>1, <2>2, EmptySeq DEF Line
<1>12. Numbered(w, client, ring, Range(sent), Played(heard, buffer, pcm), jitter, pending)
  BY <1>1, <1>4, <1>5, <1>6, <1>7, <1>8, <1>9, <1>10, <1>11 DEF Numbered
<1> QED
  BY <1>1, <1>2, <1>12 DEF HearInv

\* Steps that leave alone what is on its way.
LEMMA HearRests ==
  ASSUME HearInv, WellRead' => WellRead,
         UNCHANGED <<client, ring, sent, pending, jitter, pcm, playVars>>,
         game' \in {"free", "pump"} => game \in {"free", "pump"}
  PROVE  HearInv'
<1>1. /\ client' = client /\ ring' = ring /\ sent' = sent /\ pending' = pending
      /\ jitter' = jitter /\ pcm' = pcm /\ buffer' = buffer /\ heard' = heard
  BY DEF playVars
<1> QED
  BY <1>1, Zenon DEF HearInv

\* The calls of the rig.
LEMMA HearCalls ==
  ASSUME TypeOK, HearInv, Connect \/ Disconnect \/ Clear
  PROVE  HearInv'
<1>1. PICK S : S = Range(sent)
  OBVIOUS
<1>2. PICK g \in Seq(Sounds) : g = HeldIn(buffer) \o pcm
  BY PlayedParts, ConcatProperties
<1>3. heard \in Seq(Sounds) /\ Played(heard, buffer, pcm) = heard \o g
  BY <1>2 DEF HearInv, Played
<1>4. CASE Connect
  <2>1. /\ game' = game /\ heard' = heard /\ pcm' = pcm /\ buffer' = buffer /\ ring' = ring
        /\ sent' = sent /\ jitter' = jitter /\ pending' = pending /\ WellRead' = WellRead
    BY <1>4 DEF Connect, playVars, micHistory, WellRead
  <2>2. PICK x : x = client'
    OBVIOUS
  <2>3. x = Session!Connected(client, Id)
    BY <1>4, <2>2 DEF Connect
  <2>4. ASSUME NEW w, Numbered(w, client, ring, S, heard \o g, jitter, pending)
        PROVE  Numbered(w, x, ring, S, heard \o g, jitter, pending)
    BY <2>3, <2>4, PlayedParts, ConnectNumbered
  <2> QED
    BY <1>1, <1>3, <2>1, <2>2, <2>4 DEF HearInv
<1>5. CASE Disconnect
  <2>1. /\ game' = game /\ heard' = heard /\ pcm' = pcm /\ buffer' = buffer /\ ring' = ring
        /\ sent' = sent /\ jitter' = jitter /\ pending' = <<>> /\ WellRead' = WellRead
    BY <1>5 DEF Disconnect, playVars, micHistory, WellRead
  <2>2. PICK x : x = client'
    OBVIOUS
  <2>3. x = Session!Disconnected(client)
    BY <1>5, <2>2 DEF Disconnect
  <2>4. ASSUME NEW w, Numbered(w, client, ring, S, heard \o g, jitter, pending)
        PROVE  Numbered(w, x, ring, S, heard \o g, jitter, <<>>)
    BY <2>3, <2>4, PlayedParts, DisconnectNumbered
  <2> QED
    BY <1>1, <1>3, <2>1, <2>2, <2>4 DEF HearInv
<1>6. CASE Clear
  <2>1. /\ game' = game /\ heard' = heard /\ pcm' = pcm /\ buffer' = NoBuffer /\ ring' = ring
        /\ sent' = sent /\ jitter' = jitter /\ pending' = pending /\ WellRead' = WellRead
        /\ client' = client
    BY <1>6 DEF Clear, RigCall, micHistory, linkVars, WellRead
  <2>2. PICK q \in Seq(Sounds), f \in Seq(Sounds) : q = HeldIn(buffer) /\ f = pcm
    BY PlayedParts
  <2>3. Played(heard, NoBuffer, pcm) = heard \o f
    BY <2>2, HeldInBuffer, ConcatEmptySeq DEF Played
  <2>4. PICK d \in Nat : d = Len(q)
    BY LenProperties
  <2>5. Len(f) + d = Len(g) /\ \A i \in 1 .. Len(f) : f[i] = g[i + d]
    <3>1. Len(g) = d + Len(f) /\ \A i \in 1 .. Len(f) : g[d + i] = f[i]
      <4>1. g = Joint(q, f)
        BY <1>2, <2>2 DEF Joint
      <4>2. Spliced(g, q, f, d, Len(f))
        BY <4>1, <2>4, Splices, Zenon
      <4> QED
        BY <4>2 DEF Spliced
    <3>2. \A i \in 1 .. Len(f) : i + d = d + i
      OBVIOUS
    <3>3. Len(f) \in Nat
      BY LenProperties
    <3> QED
      BY <3>1, <3>2, <3>3
  <2>6. ASSUME NEW w, Numbered(w, client, ring, S, heard \o g, jitter, pending)
        PROVE  Numbered(w, client, ring, S, heard \o f, jitter, pending)
    <3>1. PICK m \in Nat, h \in Seq(Sounds) : m = jitter.nextPlay /\ h = heard
      BY <1>3, PlayedParts
    <3>2. Past(h \o g, m, w, S)
      BY <2>6, <3>1 DEF Numbered, Line
    <3>3. Past(h \o f, m, w, S)
      BY <2>5, <3>2, PastCut
    <3> QED
      BY <2>6, <3>1, <3>3, PastNumbered
  <2> QED
    BY <1>1, <1>3, <2>1, <2>3, <2>6 DEF HearInv
<1> QED
  BY <1>4, <1>5, <1>6

\* Update: the microphone's frames enter the ring.
LEMMA HearPumps ==
  ASSUME MicInv, MicInv', HearInv, PumpChunk, UNCHANGED <<linkVars, jitter, pcm, playVars>>
  PROVE  HearInv'
<1>1. PICK s : s = Samples(Head(todo))
  OBVIOUS
<1>2. s \in Seq(Sounds)
  <2>1. Head(todo) \in Int \X Int
    BY HeadTailProperties DEF PumpChunk, MicInv, TypeOK
  <2> QED
    BY <1>1, <2>1, SamplesType DEF MicInv
<1>3. PICK x : x = Accumulated(s)
  OBVIOUS
<1>4. PICK t : t = x.threw
  OBVIOUS
<1>5. PICK q \in Seq(Sounds) : q = sent \o frame
  BY PlayedParts, ConcatProperties DEF MicInv
<1>6. x \in Feeds /\ Grown(All(x), t, q, s, Len(s)) /\ t \in BOOLEAN
  <2>1. x \in Feeds /\ Grown(All(x), x.threw, q, s, Len(s))
    BY <1>2, <1>3, <1>5, AccumulatedTakes DEF MicInv
  <2> QED
    BY <1>4, <2>1 DEF Feeds
<1>7. /\ client' = client /\ jitter' = jitter /\ pcm' = pcm /\ pending' = pending
      /\ heard' = heard /\ buffer' = buffer /\ lapped' = lapped /\ failed' = failed
      /\ threw' = (threw \/ t) /\ ring' = x.ring /\ sent' = x.sent /\ frame' = x.frame
      /\ game = "pump"
  BY <1>1, <1>3, <1>4 DEF PumpChunk, linkVars, playVars
<1>8. heard \in Seq(Sounds)
  BY DEF HearInv
<1>9. ASSUME ~lapped, ~failed, ~threw, ~t
      PROVE  \E v \in Seq(Frames) :
               Numbered(v, client, x.ring, Range(x.sent), Played(heard, buffer, pcm), jitter, pending)
  <2>1. PICK a \in Seq(Sounds) : a = All(x)
    BY <1>6 DEF Grown
  <2>2. sent' \o frame' = a
    BY <1>7, <2>1 DEF All
  <2>3. Strict(a)
    <3>1. \E n : Read(n)'
      <4>1. ~lapped' /\ ~failed'
        BY <1>7, <1>9
      <4> QED
        BY <4>1 DEF MicInv, MicReads
    <3>2. PICK n : Ordered(a, n)
      <4>1. ~threw'
        BY <1>7, <1>9
      <4> QED
        BY <2>2, <3>1, <4>1 DEF Read
    <3>3. PICK l \in Nat : l = Len(a) /\ DOMAIN a = 1 .. l
      BY LenProperties
    <3>4. \A i \in 1 .. l : a[i] \in 1 .. n
      BY <3>2, <3>3 DEF Ordered, Range
    <3>5. \A i \in 1 .. l : a[i] # 0
      BY <3>4
    <3>6. \A i, k \in 1 .. l : i < k => a[i] < a[k]
      BY <3>2, <3>3, <3>5 DEF Ordered, InCaptureOrder, Silence
    <3> QED
      BY <3>3, <3>5, <3>6 DEF Strict, Silence
  <2>4. Strict(q \o s)
    <3>1. PICK c \in Nat, l \in Nat : c = Len(q) /\ l = Len(s)
      BY <1>2, LenProperties
    <3>2. PICK u \in Seq(Sounds) : u = q \o s
      BY <1>2, ConcatProperties
    <3>3. /\ Len(u) = c + l /\ \A i \in 1 .. c : u[i] = q[i]
          /\ \A i \in 1 .. l : u[c + i] = s[i]
          /\ \A i \in 1 .. c + l : i \in 1 .. c \/ \E d \in 1 .. l : i = c + d
      <4>1. u = Joint(q, s)
        BY <3>2 DEF Joint
      <4>2. Spliced(u, q, s, c, l)
        BY <4>1, <1>2, <3>1, Splices, Zenon
      <4> QED
        BY <4>2 DEF Spliced
    <3>4. /\ Len(a) = c + l /\ \A i \in 1 .. c : a[i] = q[i]
          /\ \A i \in 1 .. l : a[c + i] = s[i]
      BY <1>6, <1>9, <2>1, <3>1 DEF Grown
    <3>5. \A i \in 1 .. c + l : u[i] = a[i]
      BY <3>3, <3>4
    <3>6. Len(u) <= Len(a) /\ \A i \in 1 .. Len(u) : u[i] = a[i]
      BY <3>3, <3>4, <3>5
    <3> QED
      BY <2>3, <3>2, <3>6, StrictPart
  <2>5. PICK n \in Nat, m \in Nat : n = client.seq /\ m = jitter.nextPlay
    BY PlayedParts DEF MicInv
  <2>6. PICK h \in Seq(Sounds) : h = Played(heard, buffer, pcm)
    BY <1>8, PlayedParts, ConcatProperties DEF MicInv, Played
  <2>7. PICK w \in Seq(Frames) : Numbered(w, client, ring, Range(sent), h, jitter, pending)
    BY <1>9, <2>6 DEF HearInv, WellRead
  <2>8. Line(w, w, n, ring, Range(sent), h, m)
    BY <2>5, <2>7 DEF Numbered
  <2>9. LinedUp(x, w, n, h, m)
    <3>1. TypeOK /\ ~Accumulated(s).threw /\ Strict((sent \o frame) \o s)
      BY <1>3, <1>4, <1>5, <1>9, <2>4 DEF MicInv
    <3> QED
      BY <1>2, <1>3, <2>8, <3>1, AccumulatedLine
  <2>10. PICK v \in Seq(Frames) : Line(v, w, n, x.ring, Range(x.sent), h, m)
    BY <2>9 DEF LinedUp
  <2>11. PICK r \in Seq(Frames) : r = x.ring
    BY <1>6 DEF Feeds
  <2>12. PICK S : S = Range(x.sent)
    OBVIOUS
  <2>13. Line(v, w, client.seq, r, S, h, jitter.nextPlay)
    BY <2>5, <2>10, <2>11, <2>12
  <2>14. client \in Sessions /\ jitter \in Jitters /\ pending \o client.outq \in Seq(Packets)
    BY PlayedParts, ConcatProperties DEF MicInv
  <2>15. Numbered(v, client, r, S, h, jitter, pending)
    BY <2>7, <2>13, <2>14, RingNumbered
  <2> QED
    BY <2>6, <2>11, <2>12, <2>15
<1>10. ASSUME WellRead'
       PROVE  /\ pcm = <<>>
              /\ \E v \in Seq(Frames) :
                   Numbered(v, client, x.ring, Range(x.sent), Played(heard, buffer, pcm), jitter, pending)
  <2>1. ~lapped /\ ~failed /\ ~threw /\ ~t
    BY <1>7, <1>10 DEF WellRead
  <2>2. pcm = <<>>
    BY <1>7, <2>1 DEF HearInv, WellRead
  <2> QED
    BY <1>9, <2>1, <2>2
<1> QED
  BY <1>7, <1>8, <1>10, Zenon DEF HearInv

\* LateUpdate: frames are numbered and packets come in and go out.
LEMMA HearTicks ==
  ASSUME ShortSpeech, TypeOK, HearInv, LateUpdate
  PROVE  HearInv'
<1>1. PICK in \in Jitters, queued \in Sessions :
        in = IngestedAll(jitter, pending) /\ queued = Drained(client, ring)
  BY IngestRuns, DrainRuns DEF TypeOK
<1>2. PICK out : out = IF running THEN queued.outq ELSE <<>>
  OBVIOUS
<1>3. PICK ticked \in Jitters, f \in Frames \cup {<<>>} : ticked = Popped(in) /\ f = Frame(in)
  BY JitterSteps
<1>4. /\ client' = [queued EXCEPT !.outq = <<>>]
      /\ ring' = <<>>
      /\ pending' = IF immediate THEN <<>> ELSE SentAll(out)
      /\ jitter' = IF immediate THEN IngestedAll(ticked, out) ELSE ticked
      /\ pcm' = f
      /\ game' = IF f = <<>> THEN "free" ELSE "queue"
  BY <1>1, <1>2, <1>3, Zenon DEF LateUpdate
<1>5. /\ game = "free" /\ sent' = sent /\ heard' = heard /\ buffer' = buffer
      /\ WellRead' = WellRead
  BY DEF LateUpdate, micHistory, playVars, WellRead
<1>6. heard \in Seq(Sounds)
  BY DEF HearInv
<1>7. PICK x \in Sessions : x = [queued EXCEPT !.outq = <<>>]
  BY SessionSteps
<1>8. x.outq = <<>> /\ x.seq = queued.seq
  BY <1>7 DEF Sessions
<1>9. PICK S : S = Range(sent)
  OBVIOUS
<1>10. PICK hb \in Seq(Sounds) : hb = HeldIn(buffer)
  BY PlayedParts
<1>11. PICK h \in Seq(Sounds) : h = heard \o hb
  BY <1>6, ConcatProperties
<1>12. f \in Seq(Sounds)
  BY <1>3, FramesAreSeqs, EmptySeq
<1>13. Played(heard, buffer, f) = h \o f
  BY <1>6, <1>10, <1>11, <1>12, ConcatAssociative DEF Played
<1>14. ASSUME pcm = <<>>
       PROVE  Played(heard, buffer, pcm) = h
  BY <1>10, <1>11, <1>14, ConcatEmptySeq DEF Played
<1>15. ASSUME NEW w \in Seq(Frames), Numbered(w, client, ring, S, h, jitter, pending)
       PROVE  /\ Numbered(w, x, <<>>, S, h \o f, ticked, SentAll(out))
              /\ Numbered(w, x, <<>>, S, h \o f, IngestedAll(ticked, out), <<>>)
  <2>1. /\ client \in Sessions /\ jitter \in Jitters /\ pending \in Seq(Packets)
        /\ ring \in Seq(Frames)
    BY PlayedParts
  <2>2. Len(w) < SeqMod
    <3>1. Rising(w, S)
      BY <1>15 DEF Numbered, Line
    <3> QED
      BY <3>1, EnoughNumbers
  <2>3. /\ queued.seq = Len(w) /\ InPlace(ticked, Len(w), w)
        /\ Coming(ticked, queued.outq, 0, Len(w), w)
        /\ Rising(w, S) /\ Past(h \o Frame(in), ticked.nextPlay, w, S)
    BY <1>1, <1>3, <1>15, <2>1, <2>2, TickNumbered
  <2>4. PICK o \in Seq(Packets) : o = out
    BY <1>2, SessionParts, EmptySeq
  <2>5. Coming(ticked, o, 0, Len(w), w)
    <3>1. CASE running
      BY <1>2, <2>3, <2>4, <3>1
    <3>2. CASE ~running
      <4>1. \A a \in 0 + 1 .. Len(o) : FALSE
        BY <1>2, <2>4, <3>2, EmptySeq
      <4> QED
        BY <4>1 DEF Coming
    <3> QED
      BY <3>1, <3>2
  <2>6. PICK g \in Seq(Sounds) : g = h \o f
    BY <1>12, ConcatProperties
  <2>7. Past(g, ticked.nextPlay, w, S) /\ x.seq = Len(w) /\ x.outq = <<>>
    BY <1>3, <1>8, <2>3, <2>6
  <2>8. InPlace(ticked, Len(w), w) /\ Rising(w, S)
    BY <2>3
  <2> QED
    BY <2>4, <2>5, <2>6, <2>7, <2>8, DeliverNumbered
<1>16. ASSUME WellRead
       PROVE  /\ game' \in {"free", "pump"} => pcm' = <<>>
              /\ \E w \in Seq(Frames) :
                   Numbered(w, client', ring', S, h \o f, jitter', pending')
  <2>1. pcm = <<>>
    BY <1>5, <1>16 DEF HearInv
  <2>2. PICK w \in Seq(Frames) : Numbered(w, client, ring, S, h, jitter, pending)
    BY <1>9, <1>14, <1>16, <2>1 DEF HearInv
  <2>3. Numbered(w, client', ring', S, h \o f, jitter', pending')
    <3>1. CASE immediate
      BY <1>4, <1>7, <1>15, <2>2, <3>1, Zenon
    <3>2. CASE ~immediate
      BY <1>4, <1>7, <1>15, <2>2, <3>2, Zenon
    <3> QED
      BY <3>1, <3>2
  <2>4. game' \in {"free", "pump"} => pcm' = <<>>
    BY <1>4
  <2> QED
    BY <2>3, <2>4
<1> QED
  BY <1>4, <1>5, <1>6, <1>9, <1>13, <1>16, Zenon DEF HearInv

\* A sequence cut in two.
LEMMA CutInTwo ==
  ASSUME NEW q \in Seq(Sounds), NEW n \in Nat, 1 <= n, n <= Len(q)
  PROVE  \E s \in Seq(Sounds), t \in Seq(Sounds) :
           s = SubSeq(q, 1, n) /\ t = SubSeq(q, n + 1, Len(q)) /\ s \o t = q
<1>1. PICK l \in Nat : l = Len(q)
  BY LenProperties
<1>2. PICK k \in Nat : l = n + k
  <2>1. l - n \in Nat /\ l = n + (l - n)
    BY <1>1
  <2> QED
    BY <2>1
<1>3. \A i \in 1 .. n + k : q[i] \in Sounds
  BY <1>1, <1>2, ElementOfSeq
<1>4. PICK s \in Seq(Sounds) : /\ s = SubSeq(q, 1, n) /\ Len(s) = n
                               /\ \A i \in 1 .. n : s[i] = q[i]
  <2>1. PICK s : s = SubSeq(q, 1, n)
    OBVIOUS
  <2>2. 1 \in Int /\ n \in Int /\ \A i \in 1 .. n : q[i] \in Sounds
    BY <1>3
  <2>3. /\ s \in Seq(Sounds) /\ Len(s) = (IF 1 <= n THEN (n - 1) + 1 ELSE 0)
        /\ \A i \in 1 .. (n - 1) + 1 : s[i] = q[(1 + i) - 1]
    BY <2>1, <2>2, SubSeqProperties
  <2>4. Len(s) = n /\ \A i \in 1 .. n : s[i] = q[i]
    BY <1>3, <2>3
  <2> QED
    BY <2>1, <2>3, <2>4
<1>5. PICK t \in Seq(Sounds) : /\ t = SubSeq(q, n + 1, l) /\ Len(t) = k
                               /\ \A i \in 1 .. k : t[i] = q[n + i]
  <2>1. PICK t : t = SubSeq(q, n + 1, l)
    OBVIOUS
  <2>2. n + 1 \in Int /\ l \in Int /\ \A i \in n + 1 .. l : q[i] \in Sounds
    BY <1>2, <1>3
  <2>3. /\ t \in Seq(Sounds) /\ Len(t) = (IF n + 1 <= l THEN (l - (n + 1)) + 1 ELSE 0)
        /\ \A i \in 1 .. (l - (n + 1)) + 1 : t[i] = q[((n + 1) + i) - 1]
    BY <2>1, <2>2, SubSeqProperties
  <2>4. Len(t) = k /\ (l - (n + 1)) + 1 = k
    BY <1>2, <1>3, <2>3
  <2>5. \A i \in 1 .. k : ((n + 1) + i) - 1 = n + i
    BY <1>3
  <2>6. \A i \in 1 .. k : t[i] = q[n + i]
    BY <2>3, <2>4, <2>5
  <2> QED
    BY <2>1, <2>3, <2>4, <2>6
<1>6. PICK u \in Seq(Sounds) : u = s \o t
  BY ConcatProperties
<1>7. /\ Len(u) = n + k /\ \A i \in 1 .. n : u[i] = s[i]
      /\ \A i \in 1 .. k : u[n + i] = t[i]
      /\ \A i \in 1 .. n + k : i \in 1 .. n \/ \E x \in 1 .. k : i = n + x
  <2>1. u = Joint(s, t)
    BY <1>6 DEF Joint
  <2>2. Spliced(u, s, t, n, k)
    BY <2>1, <1>4, <1>5, Splices, Zenon
  <2> QED
    BY <2>2 DEF Spliced
<1>8. ASSUME NEW i \in 1 .. n + k
      PROVE  u[i] = q[i]
  <2>1. CASE i \in 1 .. n
    BY <1>4, <1>7, <2>1
  <2>2. CASE \E x \in 1 .. k : i = n + x
    <3>1. PICK x \in 1 .. k : i = n + x
      BY <2>2
    <3>2. u[n + x] = t[x] /\ t[x] = q[n + x]
      BY <1>5, <1>7
    <3> QED
      BY <3>1, <3>2
  <2> QED
    BY <1>7, <2>1, <2>2
<1>9. u = q
  BY <1>1, <1>2, <1>7, <1>8, SeqEqual
<1> QED
  BY <1>1, <1>4, <1>5, <1>6, <1>9

\* In a chain of sequences the places of the joints do not matter.
LEMMA Joints ==
  /\ \A s, t \in Seq(Sounds) : Joint(s, t) \in Seq(Sounds)
  /\ \A s, t, u \in Seq(Sounds) : Joint(Joint(s, t), u) = Joint(s, Joint(t, u))
<1>1. \A s, t \in Seq(Sounds) : s \o t \in Seq(Sounds)
  BY ConcatProperties
<1>2. \A s, t, u \in Seq(Sounds) : (s \o t) \o u = s \o (t \o u)
  BY ConcatAssociative
<1> QED
  BY <1>1, <1>2 DEF Joint

\* As when the second of four leaves the last two for the first.
LEMMA Rejoined ==
  \A h, a, b, f \in Seq(Sounds) : Joint(Joint(h, a), Joint(b, f)) = Joint(h, Joint(Joint(a, b), f))
<1> SUFFICES ASSUME NEW h \in Seq(Sounds), NEW a \in Seq(Sounds), NEW b \in Seq(Sounds),
                    NEW f \in Seq(Sounds)
             PROVE  Joint(Joint(h, a), Joint(b, f)) = Joint(h, Joint(Joint(a, b), f))
  OBVIOUS
<1>1. Joint(b, f) \in Seq(Sounds)
  BY Joints, Zenon
<1>2. Joint(Joint(h, a), Joint(b, f)) = Joint(h, Joint(a, Joint(b, f)))
  BY <1>1, Joints, Zenon
<1>3. Joint(a, Joint(b, f)) = Joint(Joint(a, b), f)
  BY Joints, Zenon
<1> QED
  BY <1>2, <1>3, Zenon

\* The speaker: the frame is put into the buffer, and the audio thread reads.
LEMMA HearPlays ==
  ASSUME TypeOK, HearInv, FindBuffer \/ Enqueue \/ OnAudioRead
  PROVE  HearInv'
<1>1. PICK S : S = Range(sent)
  OBVIOUS
<1>2. PICK q \in Seq(Sounds), f \in Seq(Sounds) : q = HeldIn(buffer) /\ f = pcm
  BY PlayedParts
<1>3. PICK h \in Seq(Sounds) : h = heard
  BY DEF HearInv
<1>4. PICK g \in Seq(Sounds) : g = q \o f
  BY ConcatProperties
<1>5. Played(heard, buffer, pcm) = h \o g
  BY <1>2, <1>3, <1>4 DEF Played
<1>6. PICK b : b = buffer'
  OBVIOUS
<1>7. CASE FindBuffer
  <2>1. /\ client' = client /\ ring' = ring /\ sent' = sent /\ pending' = pending
        /\ jitter' = jitter /\ pcm' = pcm /\ heard' = heard /\ WellRead' = WellRead
        /\ game' = "enqueue"
    BY <1>7 DEF FindBuffer, micHistory, linkVars, WellRead
  <2>2. HeldIn(b) = HeldIn(buffer)
    BY <1>6, <1>7, FindKeeps
  <2>3. Played(heard, b, pcm) = Played(heard, buffer, pcm)
    BY <2>2 DEF Played
  <2> QED
    BY <1>6, <2>1, <2>3 DEF HearInv
<1>8. CASE Enqueue
  <2>1. /\ client' = client /\ ring' = ring /\ sent' = sent /\ pending' = pending
        /\ jitter' = jitter /\ pcm' = <<>> /\ heard' = heard /\ WellRead' = WellRead
    BY <1>8 DEF Enqueue, micHistory, linkVars, WellRead
  <2>2. HeldIn(b) = Queue!Newest(g, Capacity)
    BY <1>2, <1>4, <1>6, <1>8, EnqueuePuts
  <2>3. PICK l \in Nat : l = Len(g)
    BY LenProperties
  <2>4. \E d \in Nat, p \in Seq(Sounds) : /\ p = HeldIn(b) /\ Len(p) + d = Len(g)
                                          /\ \A i \in 1 .. Len(p) : p[i] = g[i + d]
    <3>1. CASE l <= Capacity
      <4>1. HeldIn(b) = g
        BY <2>2, <2>3, <3>1 DEF Queue!Newest
      <4>2. Len(g) + 0 = Len(g) /\ \A i \in 1 .. Len(g) : g[i] = g[i + 0]
        BY <2>3
      <4> QED
        BY <4>1, <4>2
    <3>2. CASE ~(l <= Capacity)
      <4>1. PICK d \in Nat : d = l - Capacity
        <5>1. l - Capacity \in Nat
          BY <3>2, PlaybackAssumption
        <5> QED
          BY <5>1
      <4>2. HeldIn(b) = SubSeq(g, d + 1, l)
        <5>1. (l - Capacity) + 1 = d + 1
          BY <4>1
        <5> QED
          BY <2>2, <2>3, <3>2, <5>1 DEF Queue!Newest
      <4>3. d <= l
        BY <3>2, <4>1, PlaybackAssumption
      <4>4. PICK p : p = SubSeq(g, d + 1, l)
        OBVIOUS
      <4>5. \A i \in d + 1 .. l : g[i] \in Sounds
        <5>1. \A i \in d + 1 .. l : i \in 1 .. Len(g)
          BY <2>3
        <5> QED
          BY <5>1, ElementOfSeq
      <4>6. /\ p \in Seq(Sounds) /\ Len(p) = (IF d + 1 <= l THEN (l - (d + 1)) + 1 ELSE 0)
            /\ \A i \in 1 .. (l - (d + 1)) + 1 : p[i] = g[(d + 1 + i) - 1]
        <5>1. d + 1 \in Int /\ l \in Int
          OBVIOUS
        <5> QED
          BY <4>4, <4>5, <5>1, SubSeqProperties
      <4>7. Len(p) + d = l
        BY <4>3, <4>6
      <4>8. \A i \in 1 .. Len(p) : p[i] = g[i + d]
        <5>1. ASSUME NEW i \in 1 .. Len(p)
              PROVE  p[i] = g[i + d]
          <6>1. i \in 1 .. (l - (d + 1)) + 1 /\ (d + 1 + i) - 1 = i + d
            BY <4>7
          <6> QED
            BY <4>6, <6>1
        <5> QED
          BY <5>1
      <4> QED
        BY <2>3, <4>2, <4>4, <4>6, <4>7, <4>8
    <3> QED
      BY <3>1, <3>2
  <2>5. PICK d \in Nat, p \in Seq(Sounds) : /\ p = HeldIn(b) /\ Len(p) + d = Len(g)
                                            /\ \A i \in 1 .. Len(p) : p[i] = g[i + d]
    BY <2>4
  <2>6. Played(heard, b, <<>>) = h \o p
    BY <1>3, <2>5, ConcatEmptySeq DEF Played
  <2>7. ASSUME NEW w, Numbered(w, client, ring, S, h \o g, jitter, pending)
        PROVE  Numbered(w, client, ring, S, h \o p, jitter, pending)
    <3>1. PICK m \in Nat : m = jitter.nextPlay
      BY PlayedParts
    <3>2. Past(h \o g, m, w, S)
      BY <2>7, <3>1 DEF Numbered, Line
    <3>3. Past(h \o p, m, w, S)
      BY <2>5, <3>2, PastCut
    <3> QED
      BY <2>7, <3>1, <3>3, PastNumbered
  <2>8. heard' \in Seq(Sounds)
    BY <1>3, <2>1
  <2> QED
    BY <1>1, <1>5, <1>6, <2>1, <2>6, <2>7, <2>8 DEF HearInv
<1>9. CASE OnAudioRead
  <2>1. /\ client' = client /\ ring' = ring /\ sent' = sent /\ pending' = pending
        /\ jitter' = jitter /\ pcm' = pcm /\ WellRead' = WellRead /\ game' = game
    BY <1>9 DEF OnAudioRead, micHistory, linkVars, WellRead
  <2>2. PICK n \in 1 .. ReadSize :
          /\ n <= Len(q) /\ heard' = h \o SubSeq(q, 1, n)
          /\ HeldIn(b) = SubSeq(q, n + 1, Len(q))
    BY <1>2, <1>3, <1>6, <1>9, ReadTakes
  <2>3. n \in Nat /\ 1 <= n /\ n <= Len(q)
    BY <2>2, PlaybackAssumption
  <2>4. PICK a \in Seq(Sounds), c \in Seq(Sounds) :
          a = SubSeq(q, 1, n) /\ c = SubSeq(q, n + 1, Len(q)) /\ a \o c = q
    BY <2>3, CutInTwo
  <2>5. Joint(a, c) = q
    BY <2>4 DEF Joint
  <2>6. Joint(h, a) \in Seq(Sounds) /\ Joint(Joint(h, a), Joint(c, f)) = Joint(h, Joint(q, f))
    BY <2>5, Joints, Rejoined
  <2>7. heard' = Joint(h, a) /\ HeldIn(b) = c
    BY <2>2, <2>4 DEF Joint
  <2>8. /\ Played(heard, buffer, pcm) = Joint(h, Joint(q, f))
        /\ Played(heard', b, pcm) = Joint(Joint(h, a), Joint(c, f))
    BY <1>2, <1>3, <2>7 DEF Played, Joint
  <2>9. heard' \in Seq(Sounds) /\ Played(heard', b, pcm) = Played(heard, buffer, pcm)
    BY <2>6, <2>7, <2>8
  <2> QED
    BY <1>6, <2>1, <2>9 DEF HearInv
<1> QED
  BY <1>7, <1>8, <1>9

\* The invariant is inductive, and says that what is heard comes in order.
LEMMA HearStep == ShortSpeech /\ MicInv /\ MicInv' /\ HearInv /\ [Next]_vars => HearInv'
<1> SUFFICES ASSUME ShortSpeech, MicInv, MicInv', HearInv, [Next]_vars
             PROVE  HearInv'
  OBVIOUS
<1>1. TypeOK
  BY DEF MicInv
<1>2. CASE Connect \/ Disconnect \/ Clear
  BY <1>1, <1>2, HearCalls
<1>3. CASE LateUpdate
  BY <1>1, <1>3, HearTicks
<1>4. CASE FindBuffer \/ Enqueue \/ OnAudioRead
  BY <1>1, <1>4, HearPlays
<1>5. CASE PumpChunk /\ UNCHANGED <<linkVars, jitter, pcm, playVars>>
  BY <1>5, HearPumps
<1>6. CASE /\ StartCapture \/ StopCapture \/ Capture \/ PumpStart \/ PumpEnd \/ PumpChunkFails
           /\ UNCHANGED <<linkVars, jitter, pcm, playVars>>
  <2>1. /\ game' \in {"free", "pump"} => game \in {"free", "pump"}
        /\ client' = client /\ ring' = ring /\ sent' = sent /\ threw' = threw
        /\ (lapped => lapped') /\ (failed => failed')
    <3>1. CASE StartCapture \/ StopCapture
      BY <3>1 DEF StartCapture, StopCapture
    <3>2. CASE Capture
      BY <3>2 DEF Capture
    <3>3. CASE PumpStart \/ PumpEnd
      BY <3>3 DEF PumpStart, PumpEnd
    <3>4. CASE PumpChunkFails
      BY <3>4 DEF PumpChunkFails
    <3> QED
      BY <1>6, <3>1, <3>2, <3>3, <3>4
  <2>2. WellRead' => WellRead
    BY <2>1 DEF WellRead
  <2> QED
    BY <1>6, <2>1, <2>2, HearRests DEF linkVars
<1>7. CASE UNCHANGED vars
  <2>1. UNCHANGED <<client, ring, sent, pending, jitter, pcm, playVars>> /\ game' = game
        /\ WellRead' = WellRead
    BY <1>7 DEF vars, micHistory, linkVars, WellRead
  <2> QED
    BY <2>1, HearRests
<1> QED
  BY <1>2, <1>3, <1>4, <1>5, <1>6, <1>7 DEF Next, MicCall, MicRuns, Pump

\* Whatever the sizes of the clip, the frames, the rings and the buffers, and whatever
\* they drop, the samples are heard in the order of their capture, and none twice, as
\* long as the microphone is read well and the speech has fewer frames than there are
\* sequence numbers (ResidualVoiceMicInput.cs:281-437, src/voice.c:588-640,
\* src/rv_opus_jitter.c, ResidualVoiceLoopbackTransport.cs:29-75,
\* ResidualVoicePlaybackBuffer.cs).
THEOREM HeardFollowsCapture == ShortSpeech => (Spec => []HeardInOrder)
<1> SUFFICES ASSUME ShortSpeech PROVE Spec => []HeardInOrder
  OBVIOUS
<1>1. Init => HearInv
  BY HearInitially
<1>2. MicInv /\ MicInv' /\ HearInv /\ [Next]_vars => HearInv'
  BY HearStep
<1>3. MicInv /\ HearInv => HeardInOrder
  <2> SUFFICES ASSUME MicInv, HearInv, WellRead PROVE InCaptureOrder(heard)
    BY DEF HeardInOrder, WellRead
  <2>1. PICK w \in Seq(Frames) :
          Numbered(w, client, ring, Range(sent), Played(heard, buffer, pcm), jitter, pending)
    BY DEF HearInv
  <2>2. PICK h \in Seq(Sounds), g \in Seq(Sounds) : h = heard /\ g = HeldIn(buffer) \o pcm
    BY PlayedParts, ConcatProperties DEF MicInv, HearInv
  <2>3. PICK u : u = h \o g /\ InCaptureOrder(u)
    BY <2>1, <2>2 DEF Numbered, Line, Past, Played
  <2>4. PICK l \in Nat, k \in Nat : l = Len(h) /\ k = Len(g)
    BY LenProperties
  <2>5. DOMAIN h = 1 .. l /\ DOMAIN u = 1 .. l + k /\ \A i \in 1 .. l : u[i] = h[i]
    <3>1. u = Joint(h, g)
      BY <2>3 DEF Joint
    <3>2. Spliced(u, h, g, l, k)
      BY <2>4, <3>1, Splices, Zenon
    <3> QED
      BY <2>4, <3>2, LenProperties DEF Spliced
  <2>6. 1 .. l \subseteq 1 .. l + k
    OBVIOUS
  <2>7. InCaptureOrder(h)
    BY <2>3, <2>5, <2>6, Zenon DEF InCaptureOrder
  <2> QED
    BY <2>2, <2>7
<1> QED
  BY <1>1, <1>2, <1>3, MicAlways, PTL DEF Spec
================================================================================
