-------------------------- MODULE EngineMemory_proofs --------------------------
(***************************************************************************)
(* Theorems about EngineMemory, for any number of players: whichever        *)
(* allocations fail, nothing is kept that cannot be used, and nothing is     *)
(* freed that was not allocated, unless create got some of its arrays only. *)
(***************************************************************************)
EXTENDS EngineMemory, TLAPS

\* The blocks destroy would release.
Owned == Found \ {Null, Unset}

\* What the fields of the engine may hold.
FieldsOk ==
  /\ stage \in {"none", "engine", "arrays", "players", "give up", "ready"}
  /\ enc \in {Null, Single("enc")}
  /\ array \in [Arrays -> {Null} \cup {Single(a) : a \in Arrays}]
  /\ \A a \in Arrays : array[a] \in {Null, Single(a)}
  /\ cell \in [PointerArrays -> [Players -> {Null, Unset} \cup PointerArrays \X Players]]
  /\ \A a \in PointerArrays, i \in Players : cell[a][i] \in {Null, Unset, Own(a, i)}
  /\ wild \in BOOLEAN /\ partly \in BOOLEAN

\* How far create has come shows in the fields.
StageOk ==
  /\ stage \in {"none", "engine"} => enc = Null
  /\ stage \in {"none", "engine", "arrays"} => \A a \in Arrays : array[a] = Null
  /\ stage \in {"none", "engine", "arrays"} => cell = AllUnset
  /\ stage \in {"arrays", "players", "ready"} => enc = Single("enc")
  /\ stage \in {"players", "ready"} => \A a \in Arrays : array[a] = Single(a)
  /\ stage = "players" =>
       /\ turn \in Players
       /\ \A a \in PointerArrays, i \in Players :
            cell[a][i] = IF i < turn THEN Own(a, i) ELSE Null
  /\ stage = "ready" => \A a \in PointerArrays, i \in Players : cell[a][i] = Own(a, i)

\* What is on the heap is what destroy would find, until something is freed that was
\* not allocated; only want of an array leaves it an array nobody has written.
HeapIsFound ==
  /\ IF stage = "none" THEN wild \/ heap = {} ELSE heap = UNION {Parts(p) : p \in Owned}
  /\ stage # "none" /\ Unset \in Found => stage = "give up" /\ partly
  /\ wild => partly /\ stage = "none"

MemoryInv == FieldsOk /\ StageOk /\ HeapIsFound

--------------------------------------------------------------------------------
(* Blocks.                                                                   *)

\* No block is the null pointer or an unset one; engine, encoder and arrays are
\* blocks of their own.
LEMMA BlocksDiffer ==
  /\ Null # Unset
  /\ \A n : Single(n) = <<n, 0>>
  /\ \A n \in {"v", "enc"} \cup Arrays : Single(n) \notin {Null, Unset}
  /\ \A a \in PointerArrays, i \in Players : Own(a, i) \notin {Null, Unset}
BY DEF Null, Unset, Single, Own, Arrays, PointerArrays

\* A block is among its parts, and an array or the engine has no other.
LEMMA PartsOfBlocks ==
  /\ \A p : p \in Parts(p)
  /\ \A n \in {"v"} \cup Arrays : Parts(Single(n)) = {Single(n)}
<1>1. \A p : p \in Parts(p)
  BY DEF Parts
<1>2. ASSUME NEW n \in {"v"} \cup Arrays
      PROVE  Parts(Single(n)) = {Single(n)}
  <2>1. Single(n) # Single("enc") /\ Single(n)[2] \notin Players
    BY DEF Single, Arrays, Players
  <2> QED
    BY <2>1 DEF Parts
<1> QED
  BY <1>1, <1>2

\* The parts of two sets of blocks together.
PartsOf(S) == UNION {Parts(p) : p \in S}

\* What the blocks of two sets consist of, taken together.
LEMMA PartsTogether ==
  ASSUME NEW S, NEW T
  PROVE  /\ PartsOf(S \cup T) = PartsOf(S) \cup PartsOf(T)
         /\ S \subseteq PartsOf(S)
         /\ PartsOf({}) = {}
BY PartsOfBlocks DEF PartsOf

\* And what one block consists of.
LEMMA PartsOfOne == ASSUME NEW p PROVE PartsOf({p}) = Parts(p)
BY DEF PartsOf

\* The arrays are single blocks.
LEMMA PartsOfArrays ==
  ASSUME NEW had \in SUBSET Arrays
  PROVE  PartsOf({Single(a) : a \in had}) = {Single(a) : a \in had}
<1> DEFINE S == {Single(a) : a \in had}
<1>1. \A p \in S : Parts(p) = {p}
  BY PartsOfBlocks
<1> HIDE DEF S
<1>2. PartsOf(S) = S
  BY <1>1 DEF PartsOf
<1> QED
  BY <1>2 DEF S

\* What destroy would find in an engine with encoder e, arrays arr and elements c,
\* pointer by pointer.
FoundIn(e, arr, c, p) == \/ p = Single("v") \/ p = e
                         \/ \E a \in Arrays : p = arr[a]
                         \/ \E a \in PointerArrays, i \in Players :
                              arr[a] # Null /\ p = c[a][i]

\* Found is that list, before a step and after it.
LEMMA FoundPointers ==
  /\ \A p : p \in Found <=> FoundIn(enc, array, cell, p)
  /\ \A p : p \in Found' <=> FoundIn(enc', array', cell', p)
<1>1. ASSUME NEW e, NEW arr, NEW c, NEW p,
             NEW E, E = UNION {IF arr[a] = Null THEN {} ELSE {c[a][i] : i \in Players} :
                                 a \in PointerArrays}
      PROVE  p \in {e, Single("v")} \cup {arr[a] : a \in Arrays} \cup E
               <=> FoundIn(e, arr, c, p)
  <2>1. p \in E <=> \E a \in PointerArrays : p \in IF arr[a] = Null THEN {}
                                                   ELSE {c[a][i] : i \in Players}
    BY <1>1
  <2>2. p \in E <=> \E a \in PointerArrays, i \in Players : arr[a] # Null /\ p = c[a][i]
    BY <2>1
  <2> QED
    BY <2>2 DEF FoundIn
<1> QED
  BY <1>1 DEF Found, Elements

\* Next to null pointers there are only blocks of its own in an engine whose arrays
\* are missing or written.
LEMMA NoneUnset ==
  ASSUME FieldsOk', \A a \in PointerArrays, i \in Players : array'[a] = Null \/ cell'[a][i] # Unset
  PROVE  Unset \notin Found'
<1>1. Unset # enc' /\ Unset # Single("v") /\ \A a \in Arrays : Unset # array'[a]
  BY BlocksDiffer DEF FieldsOk
<1> QED
  BY <1>1, FoundPointers DEF FoundIn

--------------------------------------------------------------------------------
(* The invariant is kept.                                                    *)

\* Before create there is nothing.
LEMMA MemoryInit == Init => MemoryInv
<1> SUFFICES ASSUME Init PROVE MemoryInv
  OBVIOUS
<1>1. FieldsOk
  BY DEF Init, FieldsOk, AllUnset
<1>2. StageOk
  BY DEF Init, StageOk
<1>3. HeapIsFound
  BY DEF Init, HeapIsFound
<1> QED
  BY <1>1, <1>2, <1>3 DEF MemoryInv

\* Destroy frees all that is on the heap, and a pointer nobody wrote only if one
\* was found (voice.c:420-440).
LEMMA DestroyStep ==
  ASSUME MemoryInv, stage \in {"give up", "ready"}, GivesUp, UNCHANGED partly
  PROVE  MemoryInv'
<1> USE DEF MemoryInv
<1> PICK takenForNull \in {{}, {Unset}} : Destroyed(takenForNull)
  BY DEF GivesUp
<1>1. FieldsOk'
  <2>1. array' = [a \in Arrays |-> Null] /\ cell' = AllUnset /\ stage' = "none" /\ enc' = Null
    BY DEF Destroyed
  <2>2. wild' \in BOOLEAN /\ partly' \in BOOLEAN
    BY DEF Destroyed, FieldsOk
  <2> QED
    BY <2>1, <2>2 DEF FieldsOk, AllUnset
<1>2. StageOk'
  BY DEF Destroyed, StageOk
<1>3. heap = PartsOf(Owned)
  BY DEF HeapIsFound, PartsOf
<1>4. wild' \/ heap' = {}
  <2>1. Owned \subseteq Found \ ({Null} \cup takenForNull)
    BY DEF Owned
  <2> QED
    BY <1>3, <2>1 DEF Destroyed, PartsOf
<1>5. wild' => partly'
  <2>1. ~wild
    BY DEF HeapIsFound
  <2>2. Found \ {Null, Unset} \subseteq heap
    BY <1>3, PartsTogether DEF Owned
  <2>3. wild' => Unset \in Found
    BY <2>1, <2>2 DEF Destroyed
  <2> QED
    BY <2>3 DEF HeapIsFound
<1>6. HeapIsFound'
  BY <1>4, <1>5 DEF HeapIsFound, Destroyed
<1> QED
  BY <1>1, <1>2, <1>6

\* An engine block is obtained (voice.c:336-342).
LEMMA BeginStep == MemoryInv /\ Begin => MemoryInv'
<1> SUFFICES ASSUME MemoryInv, Begin PROVE MemoryInv'
  OBVIOUS
<1> USE DEF MemoryInv
<1>1. FieldsOk' /\ StageOk'
  BY DEF Begin, FieldsOk, StageOk
<1>2. \A a \in PointerArrays : a \in Arrays
  BY DEF PointerArrays, Arrays
<1>3. enc' = Null /\ \A a \in Arrays : array'[a] = Null
  BY DEF Begin, StageOk
<1>4. Unset \notin Found'
  BY <1>1, <1>2, <1>3, NoneUnset
<1>5. Owned' = {Single("v")}
  <2>1. Single("v") \notin {Null, Unset}
    BY BlocksDiffer
  <2>2. \A p : p \in Found' <=> p \in {Null, Single("v")}
    BY <1>2, <1>3, FoundPointers DEF FoundIn, Arrays
  <2> QED
    BY <2>1, <2>2 DEF Owned
<1>6. heap' = PartsOf(Owned')
  BY <1>5, PartsOfOne, PartsOfBlocks DEF Begin, HeapIsFound
<1> QED
  BY <1>1, <1>4, <1>6 DEF HeapIsFound, PartsOf, Begin

\* No encoder, or a frame that does not fit: the engine block is freed
\* (voice.c:352-356, 371-375).
LEMMA BeginFailsStep == MemoryInv /\ BeginFails => MemoryInv'
<1> SUFFICES ASSUME MemoryInv, BeginFails PROVE MemoryInv'
  OBVIOUS
<1> USE DEF MemoryInv
<1>1. FieldsOk' /\ StageOk'
  BY DEF BeginFails, FieldsOk, StageOk
<1>2. \A a \in PointerArrays : a \in Arrays
  BY DEF PointerArrays, Arrays
<1>3. enc = Null /\ \A a \in Arrays : array[a] = Null
  BY DEF BeginFails, StageOk
<1>4. Owned \subseteq {Single("v")}
  <2>1. \A p : p \in Found => p \in {Null, Single("v")}
    BY <1>2, <1>3, FoundPointers DEF FoundIn
  <2> QED
    BY <2>1 DEF Owned
<1>5. heap \subseteq {Single("v")}
  BY <1>4, PartsOfBlocks DEF HeapIsFound, BeginFails
<1>6. heap' = {}
  BY <1>5 DEF BeginFails
<1> QED
  BY <1>1, <1>6 DEF HeapIsFound, BeginFails

\* What a step puts on the heap is what destroy will find more than before.
LEMMA HeapGrows ==
  ASSUME MemoryInv, stage # "none", stage' # "none", NEW new,
         Owned' = Owned \cup new, heap' = heap \cup PartsOf(new)
  PROVE  heap' = PartsOf(Owned')
BY PartsTogether DEF MemoryInv, HeapIsFound, PartsOf

\* The encoder is made (voice.c:371).
LEMMA EncoderStep == MemoryInv /\ Encoder => MemoryInv'
<1> SUFFICES ASSUME MemoryInv, Encoder PROVE MemoryInv'
  OBVIOUS
<1> USE DEF MemoryInv
<1>1. FieldsOk' /\ StageOk'
  BY DEF Encoder, FieldsOk, StageOk
<1>2. \A a \in PointerArrays : a \in Arrays
  BY DEF PointerArrays, Arrays
<1>3. enc = Null /\ \A a \in Arrays : array[a] = Null /\ array'[a] = Null
  BY DEF Encoder, StageOk
<1>4. Unset \notin Found'
  BY <1>1, <1>2, <1>3, NoneUnset
<1>5. Owned' = Owned \cup {Single("enc")}
  <2>1. Single("enc") \notin {Null, Unset}
    BY BlocksDiffer
  <2>2. enc' = Single("enc")
    BY DEF Encoder
  <2>3. \A p : p \in Found => p \in {Null, Single("v")}
    BY <1>2, <1>3, FoundPointers DEF FoundIn
  <2>4. \A p : p \in Found' <=> p \in {Null, Single("v"), Single("enc")}
    BY <1>2, <1>3, <2>2, FoundPointers DEF FoundIn, Arrays
  <2>5. \A p : p \in {Single("v")} => p \in Found
    BY FoundPointers DEF FoundIn
  <2> QED
    BY <2>1, <2>3, <2>4, <2>5 DEF Owned
<1>6. heap' = PartsOf(Owned')
  <2>1. heap' = heap \cup PartsOf({Single("enc")})
    BY PartsOfOne DEF Encoder
  <2> QED
    BY <1>5, <2>1, HeapGrows DEF Encoder
<1> QED
  BY <1>1, <1>4, <1>6 DEF HeapIsFound, PartsOf, Encoder

\* The arrays, all or some of them: those that were had hold what was in memory, or
\* zeros.
LEMMA ArraysStep ==
  ASSUME MemoryInv, stage = "arrays", stage' # "none", NEW had \in SUBSET Arrays, ArraysHad(had),
         \/ cell' = Cleared
         \/ UNCHANGED cell /\ stage' = "give up" /\ partly',
         FieldsOk'
  PROVE  /\ heap' = PartsOf(Owned')
         /\ Unset \in Found' => stage' = "give up" /\ partly'
<1> USE DEF MemoryInv
<1>1. \A a \in PointerArrays : a \in Arrays
  BY DEF PointerArrays, Arrays
<1>2. \A a \in Arrays : array[a] = Null /\ array'[a] = IF a \in had THEN Single(a) ELSE Null
  BY DEF ArraysHad, StageOk
<1>3. cell' = Cleared => Unset \notin Found'
  <2>1. cell' = Cleared => \A a \in PointerArrays, i \in Players : cell'[a][i] # Unset
    BY BlocksDiffer DEF Cleared, AllNull
  <2> QED
    BY <2>1, NoneUnset
<1>4. \A p : p \in Found => p \in {Null, Single("v"), enc}
  BY <1>1, <1>2, FoundPointers DEF FoundIn
<1>5. Owned' = Owned \cup {Single(a) : a \in had}
  <2>1. \A a \in had : Single(a) \notin {Null, Unset} /\ a \in Arrays
    BY BlocksDiffer
  <2>2. ASSUME NEW p, p \in Owned' PROVE p \in Owned \cup {Single(a) : a \in had}
    <3>1. p \notin {Null, Unset} /\ FoundIn(enc', array', cell', p)
      BY <2>2, FoundPointers DEF Owned
    <3>2. CASE p = Single("v") \/ p = enc'
      <4>1. p \in Found
        BY <3>2, FoundPointers DEF FoundIn, ArraysHad
      <4> QED
        BY <3>1, <4>1 DEF Owned
    <3>3. ASSUME NEW a \in Arrays, p = array'[a] PROVE p \in {Single(b) : b \in had}
      BY <1>2, <3>1, <3>3
    <3>4. ASSUME NEW a \in PointerArrays, NEW i \in Players, p = cell'[a][i]
          PROVE  p \in Owned
      <4>1. CASE cell' = Cleared
        BY <3>1, <3>4, <4>1 DEF Cleared, AllNull
      <4>2. CASE UNCHANGED cell
        <5>1. cell = AllUnset /\ AllUnset[a][i] = Unset
          <6>1. cell = AllUnset
            BY DEF StageOk
          <6>2. \A b \in PointerArrays, j \in Players : AllUnset[b][j] = Unset
            BY DEF AllUnset
          <6> QED
            BY <6>1, <6>2
        <5> QED
          BY <3>1, <3>4, <4>2, <5>1
      <4> QED
        BY <4>1, <4>2
    <3> QED
      BY <3>1, <3>2, <3>3, <3>4 DEF FoundIn
  <2>3. ASSUME NEW p, p \in Owned PROVE p \in Owned'
    <3>1. p \in {Single("v"), enc} /\ p \notin {Null, Unset}
      BY <1>4, <2>3 DEF Owned
    <3>2. p \in Found'
      BY <3>1, FoundPointers DEF FoundIn, ArraysHad
    <3> QED
      BY <3>1, <3>2 DEF Owned
  <2>4. ASSUME NEW a \in had PROVE Single(a) \in Owned'
    <3>1. Single(a) = array'[a] /\ a \in Arrays
      BY <1>2, <2>4
    <3>2. Single(a) \in Found'
      BY <3>1, FoundPointers DEF FoundIn
    <3> QED
      BY <2>1, <3>2 DEF Owned
  <2> QED
    BY <2>2, <2>3, <2>4
<1>6. heap' = PartsOf(Owned')
  <2>1. heap' = heap \cup PartsOf({Single(a) : a \in had})
    BY PartsOfArrays DEF ArraysHad
  <2> QED
    BY <1>5, <2>1, HeapGrows
<1> QED
  BY <1>3, <1>6

\* All arrays are had and zeroed (voice.c:382-398).
LEMMA GetArraysStep == MemoryInv /\ GetArrays => MemoryInv'
<1> SUFFICES ASSUME MemoryInv, GetArrays PROVE MemoryInv'
  OBVIOUS
<1> USE DEF MemoryInv
<1>1. array' = [a \in Arrays |-> Single(a)] /\ cell' = AllNull
      /\ stage = "arrays" /\ stage' = "players" /\ turn' = 1
      /\ UNCHANGED <<enc, wild, partly>>
  BY DEF GetArrays, ArraysHad, Cleared
<1>2. FieldsOk'
  BY <1>1 DEF FieldsOk, AllNull
<1>3. StageOk'
  <2>1. 1 \in Players /\ \A i \in Players : ~(i < 1)
    BY MemoryAssumption DEF Players
  <2>2. \A a \in PointerArrays, i \in Players : cell'[a][i] = Null
    BY <1>1 DEF AllNull
  <2>3. enc' = Single("enc") /\ \A a \in Arrays : array'[a] = Single(a)
    BY <1>1 DEF StageOk
  <2> QED
    BY <1>1, <2>1, <2>2, <2>3 DEF StageOk
<1>4. /\ heap' = PartsOf(Owned')
      /\ Unset \in Found' => stage' = "give up" /\ partly'
  BY <1>1, <1>2, ArraysStep DEF GetArrays
<1> QED
  BY <1>1, <1>2, <1>3, <1>4 DEF HeapIsFound, PartsOf

\* Some array is missing (voice.c:387-390).
LEMMA MissArraysStep == MemoryInv /\ MissArrays => MemoryInv'
<1> SUFFICES ASSUME MemoryInv, MissArrays PROVE MemoryInv'
  OBVIOUS
<1> USE DEF MemoryInv
<1>1. PICK had \in SUBSET Arrays : ArraysHad(had)
  BY DEF MissArrays
<1>2. array' = [a \in Arrays |-> IF a \in had THEN Single(a) ELSE Null]
      /\ stage = "arrays" /\ stage' = "give up" /\ partly' = TRUE
      /\ UNCHANGED <<cell, enc, wild>>
  BY <1>1 DEF MissArrays, ArraysHad
<1>3. FieldsOk'
  BY <1>2 DEF FieldsOk
<1>4. StageOk'
  BY <1>2 DEF StageOk
<1>5. /\ heap' = PartsOf(Owned')
      /\ Unset \in Found' => stage' = "give up" /\ partly'
  BY <1>1, <1>2, <1>3, ArraysStep
<1> QED
  BY <1>2, <1>3, <1>4, <1>5 DEF HeapIsFound, PartsOf

\* A player's decoder and frame, both or not (voice.c:400-408).
LEMMA PlayerStep ==
  ASSUME MemoryInv, stage = "players", stage' # "none", NEW had \in SUBSET PointerArrays,
         PlayerHad(had)
  PROVE  /\ \A a \in PointerArrays, i \in Players :
              cell'[a][i] = IF i < turn THEN Own(a, i)
                            ELSE IF i = turn /\ a \in had THEN Own(a, i) ELSE Null
         /\ cell' \in [PointerArrays -> [Players -> {Null, Unset} \cup PointerArrays \X Players]]
         /\ heap' = PartsOf(Owned')
         /\ Unset \notin Found'
<1> USE DEF MemoryInv
<1>1. turn \in Players /\ enc = Single("enc")
      /\ (\A a \in Arrays : array[a] = Single(a) /\ Single(a) # Null)
      /\ \A a \in PointerArrays, i \in Players :
            cell[a][i] = IF i < turn THEN Own(a, i) ELSE Null
  BY BlocksDiffer DEF StageOk
<1>2. cell' = [a \in PointerArrays |->
                 [cell[a] EXCEPT ![turn] = IF a \in had THEN Own(a, turn) ELSE Null]]
      /\ UNCHANGED <<enc, array, wild, partly>>
  BY DEF PlayerHad
<1>3. ASSUME NEW a \in PointerArrays
      PROVE  /\ cell'[a] \in [Players -> {Null, Unset} \cup PointerArrays \X Players]
             /\ cell'[a][turn] = IF a \in had THEN Own(a, turn) ELSE Null
             /\ \A i \in Players : i # turn => cell'[a][i] = cell[a][i]
  <2>1. cell[a] \in [Players -> {Null, Unset} \cup PointerArrays \X Players]
    BY DEF FieldsOk
  <2>2. Own(a, turn) \in PointerArrays \X Players
    BY <1>1 DEF Own
  <2>3. cell'[a] = [cell[a] EXCEPT ![turn] = IF a \in had THEN Own(a, turn) ELSE Null]
    BY <1>2
  <2> QED
    BY <1>1, <2>1, <2>2, <2>3
<1>4. cell' \in [PointerArrays -> [Players -> {Null, Unset} \cup PointerArrays \X Players]]
  BY <1>2, <1>3
<1>5. ASSUME NEW a \in PointerArrays, NEW i \in Players
      PROVE  cell'[a][i] = IF i < turn THEN Own(a, i)
                           ELSE IF i = turn /\ a \in had THEN Own(a, i) ELSE Null
  <2>1. turn \in Int /\ i \in Int /\ ~(turn < turn)
    BY <1>1 DEF Players
  <2>2. CASE i = turn
    BY <1>3, <2>1, <2>2
  <2>3. CASE i # turn
    BY <1>1, <1>3, <2>3
  <2> QED
    BY <2>2, <2>3
<1>6. \A a \in PointerArrays : a \in Arrays
  BY DEF PointerArrays, Arrays
<1>7. \A a \in PointerArrays, i \in Players : cell'[a][i] # Unset
  BY <1>5, BlocksDiffer
<1>8. Unset \notin Found'
  <2>1. Unset # enc' /\ Unset # Single("v") /\ \A a \in Arrays : Unset # array'[a]
    BY <1>1, <1>2, BlocksDiffer
  <2> QED
    BY <1>7, <2>1, FoundPointers DEF FoundIn
<1>9. Owned' = Owned \cup {Own(a, turn) : a \in had}
  <2>1. ASSUME NEW p, p \in Owned' PROVE p \in Owned \cup {Own(a, turn) : a \in had}
    <3>1. p \notin {Null, Unset} /\ FoundIn(enc', array', cell', p)
      BY <2>1, FoundPointers DEF Owned
    <3>2. CASE p = Single("v") \/ p = enc' \/ \E a \in Arrays : p = array'[a]
      <4>1. p \in Found
        BY <1>2, <3>2, FoundPointers DEF FoundIn
      <4> QED
        BY <3>1, <4>1 DEF Owned
    <3>3. ASSUME NEW a \in PointerArrays, NEW i \in Players, p = cell'[a][i]
          PROVE  p \in Owned \cup {Own(b, turn) : b \in had}
      <4>1. CASE i = turn
        BY <1>3, <3>1, <3>3, <4>1
      <4>2. CASE i # turn
        <5>1. p = cell[a][i] /\ array[a] # Null
          BY <1>1, <1>3, <1>6, <3>3, <4>2
        <5>2. p \in Found
          BY <5>1, FoundPointers DEF FoundIn
        <5> QED
          BY <3>1, <5>2 DEF Owned
      <4> QED
        BY <4>1, <4>2
    <3> QED
      BY <3>1, <3>2, <3>3 DEF FoundIn
  <2>2. ASSUME NEW p, p \in Owned PROVE p \in Owned'
    <3>1. p \notin {Null, Unset} /\ FoundIn(enc, array, cell, p)
      BY <2>2, FoundPointers DEF Owned
    <3>2. CASE p = Single("v") \/ p = enc \/ \E a \in Arrays : p = array[a]
      <4>1. p \in Found'
        BY <1>2, <3>2, FoundPointers DEF FoundIn
      <4> QED
        BY <3>1, <4>1 DEF Owned
    <3>3. ASSUME NEW a \in PointerArrays, NEW i \in Players, p = cell[a][i]
          PROVE  p \in Owned'
      <4>1. i # turn
        <5>1. turn \in Int /\ ~(turn < turn)
          BY <1>1 DEF Players
        <5> QED
          BY <1>1, <3>1, <3>3, <5>1
      <4>2. p = cell'[a][i] /\ array'[a] # Null
        BY <1>1, <1>2, <1>3, <1>6, <3>3, <4>1
      <4>3. p \in Found'
        BY <4>2, FoundPointers DEF FoundIn
      <4> QED
        BY <3>1, <4>3 DEF Owned
    <3> QED
      BY <3>1, <3>2, <3>3 DEF FoundIn
  <2>3. ASSUME NEW a \in had PROVE Own(a, turn) \in Owned'
    <3>1. Own(a, turn) = cell'[a][turn] /\ array'[a] # Null /\ a \in PointerArrays
      BY <1>1, <1>2, <1>3, <1>6
    <3>2. Own(a, turn) \in Found'
      BY <1>1, <3>1, FoundPointers DEF FoundIn
    <3> QED
      BY <1>1, <3>1, <3>2, BlocksDiffer DEF Owned
  <2> QED
    BY <2>1, <2>2, <2>3
<1>10. heap' = PartsOf(Owned')
  <2>1. heap' = heap \cup PartsOf({Own(a, turn) : a \in had})
    BY DEF PlayerHad, PartsOf
  <2> QED
    BY <1>9, <2>1, HeapGrows
<1> QED
  BY <1>4, <1>5, <1>8, <1>10

\* A player's decoder and frame buffer are obtained (voice.c:399-403).
LEMMA GetPlayerStep == MemoryInv /\ GetPlayer => MemoryInv'
<1> SUFFICES ASSUME MemoryInv, GetPlayer PROVE MemoryInv'
  OBVIOUS
<1> USE DEF MemoryInv
<1>1. PlayerHad(PointerArrays) /\ stage = "players"
      /\ stage' = (IF More THEN "players" ELSE "ready")
      /\ turn' = (IF More THEN turn + 1 ELSE 0)
  BY DEF GetPlayer, Enough
<1>2. /\ \A a \in PointerArrays, i \in Players :
           cell'[a][i] = IF i < turn THEN Own(a, i)
                         ELSE IF i = turn /\ a \in PointerArrays THEN Own(a, i) ELSE Null
      /\ cell' \in [PointerArrays -> [Players -> {Null, Unset} \cup PointerArrays \X Players]]
      /\ heap' = PartsOf(Owned')
      /\ Unset \notin Found'
  <2>1. stage' # "none" /\ PointerArrays \in SUBSET PointerArrays
    BY <1>1
  <2> QED
    BY <1>1, <2>1, PlayerStep
<1>3. UNCHANGED <<enc, array, wild, partly>>
  BY <1>1 DEF PlayerHad
<1>4. FieldsOk'
  <2>1. \A a \in PointerArrays, i \in Players : cell'[a][i] \in {Null, Unset, Own(a, i)}
    BY <1>2
  <2> QED
    BY <1>1, <1>2, <1>3, <2>1 DEF FieldsOk
<1>5. StageOk'
  <2>0. turn \in 1 .. MaxPlayers /\ MaxPlayers \in Nat
    BY <1>1, MemoryAssumption DEF StageOk, Players
  <2>1. enc' = Single("enc") /\ \A a \in Arrays : array'[a] = Single(a)
    BY <1>1, <1>3 DEF StageOk
  <2>2. CASE More
    <3>1. turn' = turn + 1 /\ stage' = "players"
      BY <1>1, <2>2
    <3>2. PICK t : t = turn'
      OBVIOUS
    <3>3. t \in Players /\ \A i \in Players : i < t <=> (i < turn \/ i = turn)
      BY <2>0, <2>2, <3>1, <3>2 DEF More, Players
    <3>4. \A a \in PointerArrays, i \in Players :
             cell'[a][i] = IF i < t THEN Own(a, i) ELSE Null
      BY <1>2, <3>3
    <3> QED
      BY <2>1, <3>1, <3>2, <3>3, <3>4 DEF StageOk
  <2>3. CASE ~More
    <3>1. \A i \in Players : i < turn \/ i = turn
      BY <2>0, <2>3 DEF More, Players
    <3>2. \A a \in PointerArrays, i \in Players : cell'[a][i] = Own(a, i)
      BY <1>2, <3>1
    <3> QED
      BY <1>1, <2>1, <2>3, <3>2 DEF StageOk
  <2> QED
    BY <2>2, <2>3
<1> QED
  BY <1>1, <1>2, <1>3, <1>4, <1>5 DEF HeapIsFound, PartsOf

\* One of the two is missing: what there is is destroyed (voice.c:404-407).
LEMMA MissPlayerStep == MemoryInv /\ MissPlayer => MemoryInv'
<1> SUFFICES ASSUME MemoryInv, MissPlayer PROVE MemoryInv'
  OBVIOUS
<1> USE DEF MemoryInv
<1>1. PICK had \in SUBSET PointerArrays : PlayerHad(had)
  BY DEF MissPlayer
<1>2. stage = "players" /\ stage' = "give up"
  BY DEF MissPlayer
<1>3. /\ \A a \in PointerArrays, i \in Players : cell'[a][i] \in {Null, Unset, Own(a, i)}
      /\ cell' \in [PointerArrays -> [Players -> {Null, Unset} \cup PointerArrays \X Players]]
      /\ heap' = PartsOf(Owned')
      /\ Unset \notin Found'
  BY <1>1, <1>2, PlayerStep
<1>4. UNCHANGED <<enc, array, wild, partly>>
  BY <1>1 DEF PlayerHad
<1>5. FieldsOk' /\ StageOk'
  BY <1>2, <1>3, <1>4 DEF FieldsOk, StageOk
<1> QED
  BY <1>2, <1>3, <1>4, <1>5 DEF HeapIsFound, PartsOf

\* Every step keeps the heap in agreement with the pointers.
LEMMA MemoryStep == MemoryInv /\ [Next]_vars => MemoryInv'
<1> SUFFICES ASSUME MemoryInv, [Next]_vars PROVE MemoryInv'
  OBVIOUS
<1>1. CASE GiveUp \/ Destroy
  BY <1>1, DestroyStep DEF GiveUp, Destroy
<1>2. CASE UNCHANGED vars
  <2>1. Found' = Found /\ Owned' = Owned
    BY <1>2 DEF vars, Owned, Found, Elements
  <2>2. FieldsOk'
    BY <1>2 DEF vars, MemoryInv, FieldsOk
  <2>3. StageOk'
    BY <1>2 DEF vars, MemoryInv, StageOk
  <2>4. HeapIsFound'
    BY <1>2, <2>1 DEF vars, MemoryInv, HeapIsFound
  <2> QED
    BY <2>2, <2>3, <2>4 DEF MemoryInv
<1>3. CASE Begin \/ BeginFails \/ Encoder \/ GetArrays \/ MissArrays \/ GetPlayer \/ MissPlayer
  BY <1>3, BeginStep, BeginFailsStep, EncoderStep, GetArraysStep, MissArraysStep,
     GetPlayerStep, MissPlayerStep
<1> QED
  BY <1>1, <1>2, <1>3 DEF Next

\* The heap is what destroy would find, for any number of players.
THEOREM HeapKnown == Spec => []MemoryInv
BY MemoryInit, MemoryStep, PTL DEF Spec

\* A create that fails keeps nothing, one that succeeds has all an engine needs, and
\* destroy releases everything, for any number of players and whichever allocations
\* fail, unless create has freed a pointer nobody wrote (voice.c:367-441).
THEOREM CreateIsAllOrNothing == Spec => []AllOrNothing
<1>1. ASSUME MemoryInv, stage = "ready"
      PROVE  heap = Blocks
  <2>1. /\ enc = Single("enc") /\ \A a \in Arrays : array[a] = Single(a)
        /\ \A a \in PointerArrays, i \in Players : cell[a][i] = Own(a, i)
    BY <1>1 DEF MemoryInv, StageOk
  <2>2. \A a \in PointerArrays : a \in Arrays /\ Single(a) # Null
    BY BlocksDiffer DEF PointerArrays, Arrays
  <2> DEFINE All == {Single(n) : n \in {"v", "enc"} \cup Arrays} \cup (PointerArrays \X Players)
  <2>3. ASSUME NEW p, p \in Owned PROVE p \in All
    <3>1. p \notin {Null, Unset} /\ FoundIn(enc, array, cell, p)
      BY <2>3, FoundPointers DEF Owned
    <3>2. CASE p = Single("v") \/ p = enc \/ \E a \in Arrays : p = array[a]
      BY <2>1, <3>2
    <3>3. ASSUME NEW a \in PointerArrays, NEW i \in Players, p = cell[a][i]
          PROVE  p \in All
      <4>1. p = <<a, i>>
        BY <2>1, <3>3 DEF Own
      <4> QED
        BY <4>1
    <3> QED
      BY <3>1, <3>2, <3>3 DEF FoundIn
  <2>4. ASSUME NEW p, p \in All PROVE p \in Owned
    <3>1. CASE p \in {Single(n) : n \in {"v", "enc"} \cup Arrays}
      <4>1. p \in Found
        BY <2>1, <3>1, FoundPointers DEF FoundIn
      <4> QED
        BY <3>1, <4>1, BlocksDiffer DEF Owned
    <3>2. ASSUME NEW a \in PointerArrays, NEW i \in Players, p = <<a, i>>
          PROVE  p \in Owned
      <4>1. p = cell[a][i] /\ array[a] # Null /\ p = Own(a, i)
        BY <2>1, <2>2, <3>2 DEF Own
      <4>2. p \in Found
        BY <4>1, FoundPointers DEF FoundIn
      <4> QED
        BY <4>1, <4>2, BlocksDiffer DEF Owned
    <3> QED
      BY <2>4, <3>1, <3>2
  <2>5. Owned = All
    BY <2>3, <2>4
  <2> QED
    BY <1>1, <2>5 DEF MemoryInv, HeapIsFound, Blocks
<1>2. MemoryInv => AllOrNothing
  BY <1>1 DEF AllOrNothing, MemoryInv, HeapIsFound
<1> QED
  BY <1>2, HeapKnown, PTL

\* Nothing is freed that was not allocated, unless some arrays were had and others
\* not (voice.c:387-390, 420-430).
THEOREM FreesOnlyItsOwn == Spec => []FreesItsOwn
<1>1. MemoryInv => FreesItsOwn
  BY DEF MemoryInv, HeapIsFound, FreesItsOwn
<1> QED
  BY <1>1, HeapKnown, PTL

===============================================================================
