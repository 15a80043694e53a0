----------------------------- MODULE ModuloLemmas -----------------------------
(* Facts about multiples and remainders that the proofs about rings, sequence *)
(* numbers and clocks share; the modulus is any positive number.            *)
EXTENDS Integers, TLAPS

\* A positive multiple of c is at least c (the slots of voice.c:66 repeat only
\* after a whole turn of the ring).
LEMMA MultipleFar ==
  ASSUME NEW c \in Nat \ {0}, NEW k \in Int, c * k > 0
  PROVE  c * k >= c
<1>1. k >= 1
  BY SMT
<1> QED
  BY <1>1, SMT

\* A multiple of c strictly between -c and c is zero.
LEMMA MultipleNear ==
  ASSUME NEW c \in Nat \ {0}, NEW k \in Int, c * k < c, c * k > -c
  PROVE  k = 0
<1>1. CASE k >= 1
  BY <1>1, SMT
<1>2. CASE k <= -1
  BY <1>2, SMT
<1> QED
  BY <1>1, <1>2

\* Two numbers with the same remainder that are less than m apart are equal
\* (the sequence numbers of rv_opus_jitter.c name packets without ambiguity
\* while the stream is shorter than their range).
LEMMA SameRemainder ==
  ASSUME NEW m \in Nat \ {0}, NEW a \in Nat, NEW b \in Nat,
         a % m = b % m, a - b < m, b - a < m
  PROVE  a = b
<1> DEFINE qa == a \div m
           qb == b \div m
<1>1. a = m * qa + (a % m) /\ qa \in Int /\ b = m * qb + (b % m) /\ qb \in Int
      /\ a % m \in Int
  OBVIOUS
<1> HIDE DEF qa, qb
<1>2. a - b = m * (qa - qb)
  BY <1>1, SMT
<1>3. qa - qb = 0
  BY <1>1, <1>2, MultipleNear
<1> QED
  BY <1>1, <1>3, SMT

\* A remainder is in its range.
LEMMA RemainderRange ==
  ASSUME NEW n \in Int, NEW m \in Nat \ {0}
  PROVE  n % m \in 0 .. m - 1
OBVIOUS

\* A number is determined by its quotient and a remainder in range.
LEMMA RemainderUnique ==
  ASSUME NEW m \in Nat \ {0}, NEW a \in Nat, NEW q \in Int, NEW k \in 0 .. m - 1,
         a = m * q + k
  PROVE  a % m = k
<1> DEFINE qa == a \div m
<1>1. a = m * qa + (a % m) /\ qa \in Int /\ a % m \in 0 .. m - 1
  OBVIOUS
<1> HIDE DEF qa
<1>2. m * (qa - q) = k - (a % m)
  BY <1>1, SMT
<1>3. qa - q = 0
  BY <1>1, <1>2, MultipleNear
<1> QED
  BY <1>1, <1>3, SMT

\* So is the quotient.
LEMMA QuotientUnique ==
  ASSUME NEW m \in Nat \ {0}, NEW a \in Nat, NEW q \in Int, NEW k \in 0 .. m - 1,
         a = m * q + k
  PROVE  a \div m = q
<1> DEFINE qa == a \div m
<1>1. a = m * qa + (a % m) /\ qa \in Int
  OBVIOUS
<1>2. a % m = k
  BY RemainderUnique
<1> HIDE DEF qa
<1>3. m * (qa - q) = 0 /\ qa - q \in Int
  BY <1>1, <1>2, SMT
<1>4. qa - q = 0
  BY <1>3, MultipleNear
<1> QED
  BY <1>1, <1>4 DEF qa

\* Counting on with wrap-around follows the remainder of the true count
\* (next_play_seq++ in rv_opus_jitter.c:91, 105).
LEMMA NextRemainder ==
  ASSUME NEW m \in Nat \ {0}, NEW a \in Nat, NEW d \in Nat
  PROVE  ((a % m) + d) % m = (a + d) % m
<1> DEFINE qa == a \div m
           b  == (a % m) + d
           qb == b \div m
<1>1. a = m * qa + (a % m) /\ qa \in Int /\ a % m \in 0 .. m - 1
  OBVIOUS
<1>2. b \in Nat
  BY <1>1
<1>3. b = m * qb + (b % m) /\ qb \in Int /\ b % m \in 0 .. m - 1
  BY <1>2
<1>4. a + d = (m * qa) + b /\ b % m \in 0 .. m - 1
  BY <1>1, <1>3
<1> HIDE DEF qa, qb, b
<1>5. a + d = m * (qa + qb) + (b % m)
  BY <1>1, <1>2, <1>3, <1>4, SMT
<1>6. a + d \in Nat /\ qa + qb \in Int
  BY <1>1, <1>3
<1>7. (a + d) % m = b % m
  BY <1>3, <1>5, <1>6, RemainderUnique
<1> QED
  BY <1>7 DEF b

\* The difference of two readings of a clock that wraps is the time between them,
\* if that is less than the range of the clock (voice.c:602).
LEMMA ElapsedRemainder ==
  ASSUME NEW m \in Nat \ {0}, NEW a \in Nat, NEW b \in Nat, b <= a, a - b < m
  PROVE  ((a % m) - (b % m)) % m = a - b
<1> DEFINE qa == a \div m
           qb == b \div m
           ra == a % m
           rb == b % m
           qd == (ra - rb) \div m
           rd == (ra - rb) % m
<1>1. a = m * qa + ra /\ qa \in Int /\ ra \in 0 .. m - 1
      /\ b = m * qb + rb /\ qb \in Int /\ rb \in 0 .. m - 1
  OBVIOUS
<1>2. ra - rb \in Int
  BY <1>1
<1>3. ra - rb = m * qd + rd /\ qd \in Int /\ rd \in 0 .. m - 1
  BY <1>2
<1> HIDE DEF qa, qb, ra, rb, qd, rd
<1>4. qa - qb + qd \in Int
  BY <1>1, <1>3
<1>5. m * (qa - qb + qd) = (a - b) - rd
  BY <1>1, <1>3, SMT
<1>6. (a - b) - rd \in Int /\ (a - b) - rd < m /\ (a - b) - rd > -m
  BY <1>3
<1>7. qa - qb + qd = 0
  BY <1>4, <1>5, <1>6, MultipleNear
<1>8. m * 0 = 0
  OBVIOUS
<1>9. rd = a - b
  BY <1>3, <1>5, <1>7, <1>8, SMT
<1> QED
  BY <1>9 DEF rd, ra, rb
\* A remainder by a multiple keeps the remainder by its divisor: a slot is that
\* of the place as well as of its wrapped number (rv_opus_jitter.c:9-11).
LEMMA NestedRemainder ==
  ASSUME NEW c \in Nat \ {0}, NEW m \in Nat \ {0}, m % c = 0, NEW a \in Nat
  PROVE  (a % m) % c = a % c
<1> DEFINE r  == a % m
           qm == m \div c
           qa == a \div m
           qr == r \div c
           k  == r % c
<1>1. m = c * qm + (m % c) /\ qm \in Int
  OBVIOUS
<1>2. a = m * qa + r /\ qa \in Int /\ r \in Nat
  OBVIOUS
<1>3. r = c * qr + k /\ qr \in Int /\ k \in 0 .. c - 1
  BY <1>2
<1> HIDE DEF qm, qa, qr, k
<1>4. m = c * qm
  BY <1>1, SMT
<1>5. a = (c * qm) * qa + (c * qr + k)
  BY <1>2, <1>3, <1>4
<1> HIDE DEF r
<1>6. a = c * (qm * qa + qr) + k
  BY <1>1, <1>2, <1>3, <1>5, SMT
<1>7. qm * qa + qr \in Int
  BY <1>1, <1>2, <1>3
<1>8. a % c = k
  BY <1>3, <1>6, <1>7, RemainderUnique
<1> QED
  BY <1>8 DEF k, r
===============================================================================
