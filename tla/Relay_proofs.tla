------------------------------ MODULE Relay_proofs ------------------------------
(***************************************************************************)
(* Theorems about Relay, for tables and sets of players and addresses of   *)
(* any size: whatever JOINs come, the tables stay consistent with the      *)
(* history of JOINs, and voice reaches whom it should.                     *)
(***************************************************************************)
EXTENDS Relay, TLAPS

\* A session nobody has a slot for has not been joined.
UnknownNotJoined ==
  \A id \in Ids : SlotsOf(id) = {} => \A p \in Players : joinedFrom[id][p] = None

\* The voice sent last went to the table as it still is: a JOIN ends it.
HeardIsCurrent ==
  heard.from # None =>
    heard.to = UNION {Targets(k, heard.from) : k \in SlotsOf(Routed)}

TableInv == /\ TypeOK
            /\ OneSlotPerSession
            /\ OneEntryPerPlayer
            /\ EntriesCurrent
            /\ UnknownNotJoined

IInv == TableInv /\ JoinedAreBound /\ HeardIsCurrent

--------------------------------------------------------------------------------
(* What the loops find.                                                     *)

\* A loop finds a session by its id or else takes a slot in nobody's use, and in
\* both cases no other slot has the id (rv_relay.c:11-26).
LEMMA FindsAlone ==
  ASSUME TypeOK, OneSlotPerSession, NEW id \in Ids, NEW k \in SessionSlots, Finds(id, k)
  PROVE  /\ session[k] = id \/ (session[k] = None /\ SlotsOf(id) = {})
         /\ \A m \in SessionSlots : session[m] = id => m = k
BY RelayAssumption DEF Finds, IsFirst, SlotsOf, OneSlotPerSession, TypeOK

\* A JOIN binds the entry of its player, or its address's when the player has none,
\* or a free one when neither has one (rv_relay.c:36-59).
LEMMA BindsOwn ==
  ASSUME NEW cl \in [ClientSlots -> Client \cup {None}],
         NEW p \in Players, NEW a \in Addrs, NEW c \in ClientSlots, Binds(cl, p, a, c)
  PROVE  \/ c \in WithPlayer(cl, p)
         \/ WithPlayer(cl, p) = {} /\ c \in WithAddr(cl, a)
         \/ WithPlayer(cl, p) = {} /\ WithAddr(cl, a) = {} /\ cl[c] = None
<1>1. CASE WithPlayer(cl, p) # {}
  BY <1>1 DEF Binds, IsFirst
<1>2. CASE WithPlayer(cl, p) = {} /\ WithAddr(cl, a) # {}
  BY <1>2 DEF Binds, IsFirst
<1>3. CASE WithPlayer(cl, p) = {} /\ WithAddr(cl, a) = {}
  BY <1>3 DEF Binds, IsFirst, InUse
<1> QED
  BY <1>1, <1>2, <1>3

--------------------------------------------------------------------------------
(* Type correctness.                                                        *)

\* The zeroed tables are well typed (rv_relay_init).
LEMMA InitType == Init => TypeOK
BY DEF Init, TypeOK, Nobody, Silence

\* Every step keeps the types.
LEMMA StepType == TypeOK /\ [Next]_vars => TypeOK'
<1> SUFFICES ASSUME TypeOK, [Next]_vars PROVE TypeOK'
  OBVIOUS
<1>1. ASSUME NEW id \in Ids, NEW p \in Players, NEW a \in Addrs, Join(id, p, a)
      PROVE  TypeOK'
  BY <1>1 DEF Join, Rebind, TypeOK, Written, Client, Silence
<1>2. ASSUME NEW id \in Ids, NEW p \in Players, NEW a \in Addrs, JoinRefused(id, p, a)
      PROVE  TypeOK'
  BY <1>2 DEF JoinRefused, TypeOK, Silence
<1>3. ASSUME NEW from \in Addrs, Voice(from) PROVE TypeOK'
  BY <1>3 DEF Voice, TypeOK, Targets, InUse
<1>4. CASE UNCHANGED vars
  BY <1>4 DEF vars, TypeOK
<1> QED
  BY <1>1, <1>2, <1>3, <1>4 DEF Next

\* Every variable keeps its type (rv_relay.h:8-27), for tables of any size.
THEOREM TypeCorrect == Spec => []TypeOK
BY InitType, StepType, PTL DEF Spec

--------------------------------------------------------------------------------
(* The tables.                                                              *)

\* An accepted JOIN keeps the tables consistent: the entry it writes is the only
\* one of its player, and what another entry says is not affected.
LEMMA JoinTables ==
  ASSUME TableInv, TypeOK',
         NEW id \in Ids, NEW p \in Players, NEW a \in Addrs, Join(id, p, a)
  PROVE  TableInv'
<1>1. PICK k \in SessionSlots, c \in ClientSlots :
        /\ Finds(id, k)
        /\ Binds(clients[k], p, a, c)
        /\ session' = [session EXCEPT ![k] = id]
        /\ clients' = [clients EXCEPT ![k][c] = Written(@, p, a)]
        /\ joinedFrom' = [joinedFrom EXCEPT ![id][p] = a]
  BY DEF Join, Rebind
<1>2. /\ session[k] = id \/ (session[k] = None /\ SlotsOf(id) = {})
      /\ \A m \in SessionSlots : session[m] = id => m = k
  BY <1>1, FindsAlone DEF TableInv
<1>3. clients[k] \in [ClientSlots -> Client \cup {None}]
  BY DEF TableInv, TypeOK
<1>4. \/ c \in WithPlayer(clients[k], p)
      \/ WithPlayer(clients[k], p) = {} /\ c \in WithAddr(clients[k], a)
      \/ WithPlayer(clients[k], p) = {} /\ clients[k][c] = None
  BY <1>1, <1>3, BindsOwn
<1>5. /\ session'[k] = id
      /\ \A m \in SessionSlots \ {k} : session'[m] = session[m] /\ clients'[m] = clients[m]
      /\ clients'[k][c] = [player |-> p, addr |-> a]
      /\ \A d \in ClientSlots \ {c} : clients'[k][d] = clients[k][d]
  BY <1>1 DEF TableInv, TypeOK, Written
<1>6. [player |-> p, addr |-> a] # None
  BY RelayAssumption
<1>7. OneSlotPerSession'
  BY <1>2, <1>5, RelayAssumption DEF TableInv, OneSlotPerSession, Nobody
<1>8. \A d \in InUse(clients'[k]) : d # c => clients'[k][d].player # p
  BY <1>4, <1>5 DEF TableInv, OneEntryPerPlayer, WithPlayer, InUse
<1>9. OneEntryPerPlayer'
  <2> SUFFICES ASSUME NEW m \in SessionSlots,
                      NEW d \in InUse(clients'[m]), NEW e \in InUse(clients'[m]),
                      clients'[m][d].player = clients'[m][e].player
               PROVE  d = e
    BY DEF OneEntryPerPlayer
  <2>1. CASE m # k
    BY <2>1, <1>5 DEF TableInv, OneEntryPerPlayer
  <2>2. CASE m = k
    <3>1. CASE d = c \/ e = c
      BY <2>2, <3>1, <1>5, <1>8
    <3>2. CASE d # c /\ e # c
      BY <2>2, <3>2, <1>5 DEF TableInv, OneEntryPerPlayer, InUse
    <3> QED
      BY <3>1, <3>2
  <2> QED
    BY <2>1, <2>2
<1>10. EntriesCurrent'
  <2> SUFFICES ASSUME NEW m \in SessionSlots, NEW d \in InUse(clients'[m])
               PROVE  joinedFrom'[session'[m]][clients'[m][d].player] = clients'[m][d].addr
    BY DEF EntriesCurrent
  <2>1. CASE m # k
    <3>1. d \in InUse(clients[m]) /\ session[m] # id
      BY <2>1, <1>2, <1>5 DEF InUse
    <3>2. session[m] \in Ids
      BY <3>1 DEF TableInv, TypeOK, OneSlotPerSession, Nobody, InUse
    <3>3. joinedFrom'[session[m]] = joinedFrom[session[m]]
      BY <1>1, <3>1, <3>2 DEF TableInv, TypeOK
    <3> QED
      BY <2>1, <3>1, <3>3, <1>5 DEF TableInv, EntriesCurrent
  <2>2. CASE m = k /\ d = c
    BY <2>2, <1>1, <1>5 DEF TableInv, TypeOK
  <2>3. CASE m = k /\ d # c
    <3>1. d \in InUse(clients[k]) /\ clients[k][d] = clients'[k][d]
      BY <2>3, <1>5 DEF InUse
    <3>2. session[k] = id
      BY <3>1, <1>2 DEF TableInv, OneSlotPerSession, Nobody, InUse
    <3>3. clients[k][d].player \in Players \ {p}
      BY <2>3, <3>1, <1>3, <1>8 DEF InUse, Client
    <3>4. joinedFrom'[id][clients[k][d].player] = joinedFrom[id][clients[k][d].player]
      BY <1>1, <3>3 DEF TableInv, TypeOK
    <3> QED
      BY <2>3, <3>1, <3>2, <3>4, <1>5 DEF TableInv, EntriesCurrent
  <2> QED
    BY <2>1, <2>2, <2>3
<1>11. UnknownNotJoined'
  <2> SUFFICES ASSUME NEW i \in Ids, SlotsOf(i)' = {}, NEW q \in Players
               PROVE  joinedFrom'[i][q] = None
    BY DEF UnknownNotJoined
  <2>1. i # id /\ SlotsOf(i) = {}
    BY <1>2, <1>5, RelayAssumption DEF SlotsOf
  <2>2. joinedFrom'[i] = joinedFrom[i]
    BY <1>1, <2>1 DEF TableInv, TypeOK
  <2> QED
    BY <2>1, <2>2 DEF TableInv, UnknownNotJoined
<1> QED
  BY <1>7, <1>9, <1>10, <1>11 DEF TableInv

\* A refused JOIN may only name a free slot, whose session nobody has joined.
LEMMA RefusedTables ==
  ASSUME TableInv, TypeOK',
         NEW id \in Ids, NEW p \in Players, NEW a \in Addrs, JoinRefused(id, p, a)
  PROVE  TableInv'
<1>1. PICK k \in SessionSlots :
        /\ Finds(id, k)
        /\ session' = [session EXCEPT ![k] = id]
        /\ clients' = clients /\ joinedFrom' = joinedFrom
  BY DEF JoinRefused
<1>2. /\ session[k] = id \/ (session[k] = None /\ SlotsOf(id) = {})
      /\ \A m \in SessionSlots : session[m] = id => m = k
  BY <1>1, FindsAlone DEF TableInv
<1>3. session'[k] = id /\ \A m \in SessionSlots \ {k} : session'[m] = session[m]
  BY <1>1 DEF TableInv, TypeOK
<1>4. OneSlotPerSession'
  BY <1>1, <1>2, <1>3, RelayAssumption DEF TableInv, OneSlotPerSession, Nobody
<1>5. OneEntryPerPlayer'
  BY <1>1 DEF TableInv, OneEntryPerPlayer, InUse
<1>6. \A m \in SessionSlots : InUse(clients[m]) # {} => session'[m] = session[m]
  BY <1>2, <1>3 DEF TableInv, OneSlotPerSession, Nobody, InUse
<1>7. EntriesCurrent'
  BY <1>1, <1>6 DEF TableInv, EntriesCurrent, InUse
<1>8. \A i \in Ids : SlotsOf(i)' = {} => SlotsOf(i) = {}
  BY <1>2, <1>3, RelayAssumption DEF SlotsOf
<1>9. UnknownNotJoined'
  BY <1>1, <1>8 DEF TableInv, UnknownNotJoined
<1> QED
  BY <1>4, <1>5, <1>7, <1>9 DEF TableInv

--------------------------------------------------------------------------------
(* Who is bound.                                                            *)

\* An accepted JOIN unbinds nobody but who had its player id or its address: the
\* entry it writes was free, or its player's, or its address's.
LEMMA JoinBinds ==
  ASSUME IInv, NEW id \in Ids, NEW p \in Players, NEW a \in Addrs, Join(id, p, a)
  PROVE  JoinedAreBound'
<1>1. PICK k \in SessionSlots, c \in ClientSlots :
        /\ Finds(id, k)
        /\ Binds(clients[k], p, a, c)
        /\ session' = [session EXCEPT ![k] = id]
        /\ clients' = [clients EXCEPT ![k][c] = Written(@, p, a)]
        /\ joinedFrom' = [joinedFrom EXCEPT ![id][p] = a]
        /\ joinedAs' = [joinedAs EXCEPT ![id][a] = p]
  BY DEF Join, Rebind
<1>2. /\ session[k] = id \/ (session[k] = None /\ SlotsOf(id) = {})
      /\ \A m \in SessionSlots : session[m] = id => m = k
  BY <1>1, FindsAlone DEF IInv, TableInv
<1>3. clients[k] \in [ClientSlots -> Client \cup {None}]
  BY DEF IInv, TableInv, TypeOK
<1>4. \/ c \in WithPlayer(clients[k], p)
      \/ c \in WithAddr(clients[k], a)
      \/ clients[k][c] = None
  BY <1>1, <1>3, BindsOwn
<1>5. /\ session'[k] = id
      /\ \A m \in SessionSlots \ {k} : session'[m] = session[m] /\ clients'[m] = clients[m]
      /\ clients'[k][c] = [player |-> p, addr |-> a]
      /\ \A d \in ClientSlots \ {c} : clients'[k][d] = clients[k][d]
  BY <1>1 DEF IInv, TableInv, TypeOK, Written
<1> SUFFICES ASSUME NEW m \in SessionSlots, session'[m] # None,
                    NEW q \in Players, NEW b \in Addrs,
                    joinedFrom'[session'[m]][q] = b, joinedAs'[session'[m]][b] = q
             PROVE  [player |-> q, addr |-> b] \in {clients'[m][d] : d \in ClientSlots}
  BY DEF JoinedAreBound
<1>6. CASE m # k
  <2>1. session[m] \in Ids \ {id}
    BY <1>6, <1>2, <1>5 DEF IInv, TableInv, TypeOK
  <2>2. joinedFrom[session[m]][q] = b /\ joinedAs[session[m]][b] = q
    BY <1>1, <1>5, <1>6, <2>1 DEF IInv, TableInv, TypeOK
  <2> QED
    BY <1>5, <1>6, <2>1, <2>2 DEF IInv, JoinedAreBound
<1>7. CASE m = k /\ q = p
  <2>1. b = a
    BY <1>1, <1>5, <1>7 DEF IInv, TableInv, TypeOK
  <2> QED
    BY <1>5, <1>7, <2>1
<1>8. CASE m = k /\ q # p
  <2>1. b # a
    BY <1>1, <1>5, <1>8 DEF IInv, TableInv, TypeOK
  <2>2. joinedFrom[id][q] = b /\ joinedAs[id][b] = q
    BY <1>1, <1>5, <1>8, <2>1 DEF IInv, TableInv, TypeOK
  <2>3. session[k] = id
    BY <1>2, <2>2, RelayAssumption DEF IInv, TableInv, UnknownNotJoined
  <2>4. PICK d \in ClientSlots : clients[k][d] = [player |-> q, addr |-> b]
    BY <2>2, <2>3, RelayAssumption DEF IInv, JoinedAreBound
  <2>5. [player |-> q, addr |-> b] # None
    BY RelayAssumption
  <2>6. d # c
    BY <1>4, <1>8, <2>1, <2>4, <2>5 DEF WithPlayer, WithAddr
  <2> QED
    BY <1>5, <1>8, <2>4, <2>6
<1> QED
  BY <1>6, <1>7, <1>8

\* A refused JOIN unbinds nobody.
LEMMA RefusedBinds ==
  ASSUME IInv, NEW id \in Ids, NEW p \in Players, NEW a \in Addrs, JoinRefused(id, p, a)
  PROVE  JoinedAreBound'
<1>1. PICK k \in SessionSlots :
        /\ Finds(id, k)
        /\ session' = [session EXCEPT ![k] = id]
        /\ clients' = clients /\ joinedFrom' = joinedFrom /\ joinedAs' = joinedAs
  BY DEF JoinRefused
<1>2. session[k] = id \/ (session[k] = None /\ SlotsOf(id) = {})
  BY <1>1, FindsAlone DEF IInv, TableInv
<1>3. session'[k] = id /\ \A m \in SessionSlots \ {k} : session'[m] = session[m]
  BY <1>1 DEF IInv, TableInv, TypeOK
<1> SUFFICES ASSUME NEW m \in SessionSlots, session'[m] # None,
                    NEW q \in Players, NEW b \in Addrs,
                    joinedFrom[session'[m]][q] = b, joinedAs[session'[m]][b] = q
             PROVE  [player |-> q, addr |-> b] \in {clients[m][d] : d \in ClientSlots}
  BY <1>1 DEF JoinedAreBound
<1>4. session[m] = session'[m]
  BY <1>2, <1>3, RelayAssumption DEF IInv, TableInv, UnknownNotJoined
<1> QED
  BY <1>4 DEF IInv, JoinedAreBound

--------------------------------------------------------------------------------
(* The inductive invariant.                                                 *)

\* Empty tables agree with each other.
LEMMA InitInv == Init => IInv
<1> SUFFICES ASSUME Init PROVE IInv
  OBVIOUS
<1>1. TypeOK
  BY InitType
<1>2. OneSlotPerSession /\ OneEntryPerPlayer /\ EntriesCurrent
  BY DEF Init, OneSlotPerSession, OneEntryPerPlayer, EntriesCurrent, InUse, Nobody
<1>3. UnknownNotJoined /\ JoinedAreBound /\ HeardIsCurrent
  BY DEF Init, UnknownNotJoined, JoinedAreBound, HeardIsCurrent, Silence
<1> QED
  BY <1>1, <1>2, <1>3 DEF IInv, TableInv

\* Every JOIN and every voice packet keeps the tables in agreement.
LEMMA StepInv == IInv /\ [Next]_vars => IInv'
<1> SUFFICES ASSUME IInv, [Next]_vars PROVE IInv'
  OBVIOUS
<1>1. TypeOK'
  BY StepType DEF IInv, TableInv
<1>2. ASSUME NEW id \in Ids, NEW p \in Players, NEW a \in Addrs, Join(id, p, a)
      PROVE  IInv'
  <2>1. HeardIsCurrent'
    BY <1>2 DEF Join, Rebind, HeardIsCurrent, Silence
  <2>2. TableInv'
    BY <1>1, <1>2, JoinTables DEF IInv
  <2> QED
    BY <1>2, <2>1, <2>2, JoinBinds DEF IInv
<1>3. ASSUME NEW id \in Ids, NEW p \in Players, NEW a \in Addrs, JoinRefused(id, p, a)
      PROVE  IInv'
  <2>1. HeardIsCurrent'
    BY <1>3 DEF JoinRefused, HeardIsCurrent, Silence
  <2>2. TableInv'
    BY <1>1, <1>3, RefusedTables DEF IInv
  <2> QED
    BY <1>3, <2>1, <2>2, RefusedBinds DEF IInv
<1>4. ASSUME NEW from \in Addrs, Voice(from) PROVE IInv'
  <2>1. UNCHANGED <<session, clients, joinedFrom, joinedAs>>
    BY <1>4 DEF Voice
  <2>2. TableInv'
    BY <1>1, <2>1 DEF IInv, TableInv, OneSlotPerSession, OneEntryPerPlayer,
                      EntriesCurrent, UnknownNotJoined, SlotsOf
  <2>3. JoinedAreBound'
    BY <2>1 DEF IInv, JoinedAreBound
  <2>4. HeardIsCurrent'
    BY <1>4, <2>1 DEF Voice, HeardIsCurrent, SlotsOf, Targets
  <2> QED
    BY <2>2, <2>3, <2>4 DEF IInv
<1>5. CASE UNCHANGED vars
  BY <1>5 DEF vars, IInv, TableInv, TypeOK, OneSlotPerSession, OneEntryPerPlayer,
              EntriesCurrent, UnknownNotJoined, JoinedAreBound, HeardIsCurrent,
              SlotsOf, Targets
<1> QED
  BY <1>2, <1>3, <1>4, <1>5 DEF Next

\* The tables agree throughout.
LEMMA Invariance == Spec => []IInv
BY InitInv, StepInv, PTL DEF Spec

--------------------------------------------------------------------------------
(* What follows.                                                            *)

\* A session has one slot, and a free slot no clients (rv_relay.c:11-26).
THEOREM SessionsDistinct == Spec => []OneSlotPerSession
<1>1. IInv => OneSlotPerSession
  BY DEF IInv, TableInv
<1> QED
  BY <1>1, Invariance, PTL

\* A player has one entry in a session, whatever rebinding has been done
\* (rv_relay.c:36-50).
THEOREM PlayersDistinct == Spec => []OneEntryPerPlayer
<1>1. IInv => OneEntryPerPlayer
  BY DEF IInv, TableInv
<1> QED
  BY <1>1, Invariance, PTL

\* An entry has the address its player last joined from (rv_relay.c:36-58).
THEOREM AddressesCurrent == Spec => []EntriesCurrent
<1>1. IInv => EntriesCurrent
  BY DEF IInv, TableInv
<1> QED
  BY <1>1, Invariance, PTL

\* Whoever joined stays bound until he joins from elsewhere or his address joins as
\* somebody else (rv_relay.c:31-60).
THEOREM JoinersBound == Spec => []JoinedAreBound
<1>1. IInv => JoinedAreBound
  BY DEF IInv
<1> QED
  BY <1>1, Invariance, PTL

\* Voice reaches everybody else bound to the routed session, and never its sender
\* (rv_relay_forward_voice): the loop passes exactly the entries with his address.
THEOREM VoiceDelivered == Spec => []VoiceReachesOthers
<1>1. IInv => VoiceReachesOthers
  <2> SUFFICES ASSUME IInv, heard.from # None,
                      NEW k \in SlotsOf(Routed), NEW p \in Players, NEW a \in Addrs,
                      joinedFrom[Routed][p] = a, joinedAs[Routed][a] = p
               PROVE  (\E c \in heard.to : clients[k][c].addr = a) <=> a # heard.from
    BY DEF VoiceReachesOthers
  <2>1. k \in SessionSlots /\ session[k] = Routed
    BY DEF SlotsOf
  <2>2. SlotsOf(Routed) = {k}
    BY <2>1, RelayAssumption DEF IInv, TableInv, OneSlotPerSession, SlotsOf
  <2>3. heard.to = InUse(clients[k]) \ WithAddr(clients[k], heard.from)
    BY <2>2 DEF IInv, HeardIsCurrent, Targets
  <2>4. PICK c \in ClientSlots : clients[k][c] = [player |-> p, addr |-> a]
    BY <2>1, RelayAssumption DEF IInv, JoinedAreBound
  <2>5. c \in InUse(clients[k]) /\ clients[k][c].addr = a
    BY <2>4, RelayAssumption DEF InUse
  <2> QED
    BY <2>3, <2>5 DEF WithAddr
<1> QED
  BY <1>1, Invariance, PTL
================================================================================
