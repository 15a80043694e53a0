------------------------------ MODULE EngineMemory ------------------------------
(***************************************************************************)
(* The memory of one engine: what rv_voice_create allocates in which order, *)
(* any allocation of which may fail, and what rv_voice_destroy releases,     *)
(* whether the host calls it or create does when it gives up half-way.       *)
(*                                                                         *)
(* A pointer is a block, Null, or Unset: in memory just allocated and not   *)
(* yet written, where rv_alloc_raw leaves whatever was there.  Destroy frees *)
(* every pointer that is not null, so an unset one is either taken for null  *)
(* or freed, and freeing it is undefined behaviour (`wild`).                 *)
(***************************************************************************)
EXTENDS Integers

CONSTANTS MaxPlayers   \* cfg->max_players

ASSUME MemoryAssumption == MaxPlayers \in Nat \ {0}

Players == 1 .. MaxPlayers

\* The arrays with an element for each player; those of dec and pcm_buf are
\* pointers.
Arrays == {"dec", "jb", "pcm_buf", "pcm_count", "speaking", "last_rx_ms", "last_rx_flags"}
PointerArrays == {"dec", "pcm_buf"}

\* Blocks of memory: of the engine, its encoder, its arrays, and of a player his
\* decoder and his frame.  A codec is a block of the engine's and the state that
\* Opus keeps for it.
Single(name) == <<name, 0>>
Own(a, i) == <<a, i>>

\* What is obtained and released with the block p.
Parts(p) == IF p = Single("enc") \/ (p[1] = "dec" /\ p[2] \in Players)
            THEN {p, <<p[1], "opus", p[2]>>} ELSE {p}

Blocks == UNION {Parts(p) : p \in {Single(n) : n \in {"v", "enc"} \cup Arrays}
                                  \cup (PointerArrays \X Players)}

Null == <<"null", 0>>
Unset == <<"unset", 0>>

VARIABLES
  stage,   \* how far create has come
  turn,    \* the player whose decoder and frame create is about to allocate
  enc,     \* v->enc
  array,   \* a -> the field of v for array a
  cell,    \* a -> i -> element i of array a of pointers
  heap,    \* the blocks allocated and not freed
  wild,    \* something was freed that was not allocated
  partly   \* history: create got some of the arrays and not all

vars == <<stage, turn, enc, array, cell, heap, wild, partly>>

AllNull == [a \in PointerArrays |-> [i \in Players |-> Null]]
AllUnset == [a \in PointerArrays |-> [i \in Players |-> Unset]]

Init == /\ stage = "none" /\ turn = 0
        /\ enc = Null /\ array = [a \in Arrays |-> Null] /\ cell = AllUnset
        /\ heap = {} /\ wild = FALSE /\ partly = FALSE

--------------------------------------------------------------------------------
(* Releasing.                                                                *)

\* The pointers destroy finds in array a, if there is an array.
\* Mutant: the frames of the players are forgotten.
Mut_Elements(a) == IF a = "pcm_buf" \/ array[a] = Null THEN {} ELSE {cell[a][i] : i \in Players}
Elements(a) == IF array[a] = Null THEN {} ELSE {cell[a][i] : i \in Players}

Found == {enc, Single("v")} \cup {array[a] : a \in Arrays}
         \cup UNION {Elements(a) : a \in PointerArrays}

\* rv_voice_destroy: every pointer it finds that is not null is freed once.  If one
\* of them is of no block, any block may stay.
Destroyed(takenForNull) ==
  /\ LET freed == Found \ ({Null} \cup takenForNull) IN
     \/ /\ freed \subseteq heap
        /\ heap' = heap \ UNION {Parts(p) : p \in freed} /\ UNCHANGED wild
     \/ /\ ~(freed \subseteq heap)
        /\ heap' \in SUBSET heap /\ wild' = TRUE
  /\ stage' = "none" /\ turn' = 0
  /\ enc' = Null /\ array' = [a \in Arrays |-> Null] /\ cell' = AllUnset

GivesUp == \E takenForNull \in {{}, {Unset}} : Destroyed(takenForNull)

Destroy == /\ stage = "ready" /\ GivesUp /\ UNCHANGED partly

--------------------------------------------------------------------------------
(* rv_voice_create.  A configuration it refuses, or no memory for the engine   *)
(* itself, is no step.                                                        *)

Begin == /\ stage = "none" /\ ~wild
         /\ stage' = "engine" /\ heap' = heap \cup {Single("v")} /\ partly' = FALSE
         /\ UNCHANGED <<turn, enc, array, cell, wild>>

\* The frame has no samples, or more than fit, or there is no encoder.
BeginFails == /\ stage = "engine"
              /\ stage' = "none" /\ heap' = heap \ {Single("v")}
              /\ UNCHANGED <<turn, enc, array, cell, wild, partly>>

Encoder == /\ stage = "engine"
           /\ stage' = "arrays" /\ enc' = Single("enc") /\ heap' = heap \cup Parts(enc')
           /\ UNCHANGED <<turn, array, cell, wild, partly>>

\* All arrays are asked for before the first is looked at.
ArraysHad(had) ==
  /\ array' = [a \in Arrays |-> IF a \in had THEN Single(a) ELSE Null]
  /\ heap' = heap \cup {Single(a) : a \in had}
  /\ UNCHANGED <<enc, wild>>

\* Mutant: the arrays of pointers are not set to zero.
Mut_Cleared == AllUnset
Cleared == AllNull

GetArrays == /\ stage = "arrays"
             /\ ArraysHad(Arrays)
             /\ cell' = Cleared
             /\ stage' = "players" /\ turn' = 1
             /\ UNCHANGED partly

\* Some are missing: destroy is called at once, before they are set to zero.
MissArrays == /\ stage = "arrays"
              /\ \E had \in SUBSET Arrays : had # Arrays /\ ArraysHad(had)
              /\ stage' = "give up" /\ partly' = TRUE
              /\ UNCHANGED <<turn, cell>>

\* Both of a player's blocks are asked for before either is looked at.
PlayerHad(had) ==
  /\ cell' = [a \in PointerArrays |->
                [cell[a] EXCEPT ![turn] = IF a \in had THEN Own(a, turn) ELSE Null]]
  /\ heap' = heap \cup UNION {Parts(Own(a, turn)) : a \in had}
  /\ UNCHANGED <<enc, array, wild, partly>>

Enough(had) == had = PointerArrays

More == turn < MaxPlayers

GetPlayer == /\ stage = "players"
             /\ \E had \in SUBSET PointerArrays : Enough(had) /\ PlayerHad(had)
             /\ stage' = IF More THEN "players" ELSE "ready"
             /\ turn' = IF More THEN turn + 1 ELSE 0

MissPlayer == /\ stage = "players"
              /\ \E had \in SUBSET PointerArrays : ~Enough(had) /\ PlayerHad(had)
              /\ stage' = "give up" /\ turn' = turn

GiveUp == stage = "give up" /\ GivesUp /\ UNCHANGED partly

Next == Begin \/ BeginFails \/ Encoder \/ GetArrays \/ MissArrays \/ GetPlayer
        \/ MissPlayer \/ GiveUp \/ Destroy

Spec == Init /\ [][Next]_vars

--------------------------------------------------------------------------------
(* Properties.                                                              *)

\* Whichever allocations fail, create either returns an engine with all its parts
\* or keeps nothing of what it had, and destroy releases everything, unless create
\* has freed a pointer nobody wrote (voice.c:387-441; DOCUMENTATION.MD:195).
AllOrNothing == /\ stage = "none" => wild \/ heap = {}
                /\ stage = "ready" => heap = Blocks

\* What is freed was allocated and not freed before, unless create gives up for
\* want of an array: then destroy may free pointers nobody wrote, and only then
\* (voice.c:387-390, 420-430).  A host that creates, destroys and creates again, and
\* a player's allocation that fails, never corrupt the heap.
FreesItsOwn == wild => partly
================================================================================
