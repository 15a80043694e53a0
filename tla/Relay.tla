--------------------------------- MODULE Relay ---------------------------------
(***************************************************************************)
(* The relay (rv_relay.c, rv_relay_main.c): one thread that binds players  *)
(* to addresses by the JOIN packets it receives, and sends each voice      *)
(* packet on to the addresses of one fixed session.  It never forgets a    *)
(* binding and never answers.                                              *)
(*                                                                         *)
(* Which packets come, from where, in which order and how often is up to   *)
(* the hosts and the network: any JOIN may come at any time, and again.  A *)
(* packet that is neither a JOIN nor a voice packet, or is malformed, is   *)
(* skipped.                                                                *)
(***************************************************************************)
EXTENDS Integers

CONSTANTS Ids,          \* session ids that JOINs carry
          Routed,       \* the session id voice is routed to
          Players,      \* player ids
          Addrs,        \* addresses packets come from
          MaxSessions,  \* RV_RELAY_MAX_SESSIONS
          MaxClients,   \* RV_RELAY_MAX_CLIENTS_PER_SESSION
          None          \* not in use, or not there

ASSUME RelayAssumption == /\ MaxSessions \in Nat /\ MaxClients \in Nat
                          /\ Routed \in Ids
                          /\ None \notin Ids \cup Players \cup Addrs
                          /\ None \notin [player : Players, addr : Addrs]

SessionSlots == 1 .. MaxSessions
ClientSlots == 1 .. MaxClients
Client == [player : Players, addr : Addrs]

VARIABLES
  session,    \* session slot -> its session id, or None
  clients,    \* session slot -> client slot -> its client, or None
  heard,      \* history: the last voice packet's sender, and client slots sent to
  joinedFrom, \* history: session id -> player -> address of his last JOIN
  joinedAs    \* history: session id -> address -> player of its last JOIN

vars == <<session, clients, heard, joinedFrom, joinedAs>>

Nobody == [c \in ClientSlots |-> None]
Silence == [from |-> None, to |-> {}]

Init == /\ session = [k \in SessionSlots |-> None]
        /\ clients = [k \in SessionSlots |-> Nobody]
        /\ heard = Silence
        /\ joinedFrom = [id \in Ids |-> [p \in Players |-> None]]
        /\ joinedAs = [id \in Ids |-> [a \in Addrs |-> None]]

--------------------------------------------------------------------------------
(* JOIN.                                                                    *)

\* What a loop over an array finds first.
IsFirst(i, S) == i \in S /\ \A j \in S : i <= j

SlotsOf(id) == {k \in SessionSlots : session[k] = id}

\* find_or_create_session gives slot k.
\* Mutant: a free slot is taken before the session is looked for.
Mut_Finds(id, k) ==
  IF SlotsOf(None) # {} THEN IsFirst(k, SlotsOf(None)) ELSE IsFirst(k, SlotsOf(id))
Finds(id, k) ==
  IF SlotsOf(id) # {} THEN IsFirst(k, SlotsOf(id)) ELSE IsFirst(k, SlotsOf(None))

InUse(cl) == {c \in ClientSlots : cl[c] # None}
WithPlayer(cl, p) == {c \in InUse(cl) : cl[c].player = p}
WithAddr(cl, a) == {c \in InUse(cl) : cl[c].addr = a}

\* The client slot a JOIN of player p from address a writes, if there is one: the
\* player's, else the address's, else a free one.
\* Mutant: the address is looked for before the player.
Mut_Binds(cl, p, a, c) ==
  CASE WithAddr(cl, a) # {} -> IsFirst(c, WithAddr(cl, a))
    [] WithAddr(cl, a) = {} /\ WithPlayer(cl, p) # {} -> IsFirst(c, WithPlayer(cl, p))
    [] OTHER -> IsFirst(c, ClientSlots \ InUse(cl))
Binds(cl, p, a, c) ==
  CASE WithPlayer(cl, p) # {} -> IsFirst(c, WithPlayer(cl, p))
    [] WithPlayer(cl, p) = {} /\ WithAddr(cl, a) # {} -> IsFirst(c, WithAddr(cl, a))
    [] OTHER -> IsFirst(c, ClientSlots \ InUse(cl))

\* What is written to it: each way of binding ends in the same contents.
\* Mutants: a known player keeps the address he had; a known address keeps the
\* player it had; the address is not stored.
Mut_KeepsAddr(old, p, a) ==
  IF old # None /\ old.player = p THEN old ELSE [player |-> p, addr |-> a]
Mut_KeepsPlayer(old, p, a) ==
  IF old # None /\ old.addr = a THEN old ELSE [player |-> p, addr |-> a]
Mut_NoAddr(old, p, a) == [player |-> p, addr |-> None]
Written(old, p, a) == [player |-> p, addr |-> a]

\* The session and client slots a JOIN writes, and what it writes to them.
Rebind(id, p, a, k, c) ==
  /\ Finds(id, k)
  /\ Binds(clients[k], p, a, c)
  /\ session' = [session EXCEPT ![k] = id]
  /\ clients' = [clients EXCEPT ![k][c] = Written(@, p, a)]

\* rv_relay_join, with room for the player.
Join(id, p, a) ==
  /\ \E k \in SessionSlots, c \in ClientSlots : Rebind(id, p, a, k, c)
  /\ joinedFrom' = [joinedFrom EXCEPT ![id][p] = a]
  /\ joinedAs' = [joinedAs EXCEPT ![id][a] = p]
  /\ heard' = Silence

\* rv_relay_join, with the session's clients all others; without a free session
\* nothing changes, and that is no step.
JoinRefused(id, p, a) ==
  \E k \in SessionSlots :
    /\ Finds(id, k)
    /\ \A c \in ClientSlots : ~Binds(clients[k], p, a, c)
    /\ session' = [session EXCEPT ![k] = id]
    /\ heard' = Silence
    /\ UNCHANGED <<clients, joinedFrom, joinedAs>>

--------------------------------------------------------------------------------
(* Voice.                                                                   *)

\* The client slots rv_relay_forward_voice sends to, in session slot k.
\* Mutants: the loop ends at the sender's slot instead of passing it; the sender
\* is not passed.
Mut_TargetsAll(k, from) == InUse(clients[k])
Mut_Targets(k, from) ==
  {c \in InUse(clients[k]) : \A d \in 1 .. c : d \notin WithAddr(clients[k], from)}
Targets(k, from) == InUse(clients[k]) \ WithAddr(clients[k], from)

Voice(from) ==
  /\ heard' = [from |-> from,
               to |-> UNION {Targets(k, from) : k \in SlotsOf(Routed)}]
  /\ UNCHANGED <<session, clients, joinedFrom, joinedAs>>

Next == \/ \E id \in Ids, p \in Players, a \in Addrs : Join(id, p, a) \/ JoinRefused(id, p, a)
        \/ \E from \in Addrs : Voice(from)

Spec == Init /\ [][Next]_vars

--------------------------------------------------------------------------------
(* Properties.                                                              *)

TypeOK ==
  /\ session \in [SessionSlots -> Ids \cup {None}]
  /\ clients \in [SessionSlots -> [ClientSlots -> Client \cup {None}]]
  /\ joinedFrom \in [Ids -> [Players -> Addrs \cup {None}]]
  /\ joinedAs \in [Ids -> [Addrs -> Players \cup {None}]]
  /\ heard.from \in Addrs \cup {None} /\ heard.to \in SUBSET ClientSlots

\* A session has one slot, and a free slot no clients (rv_relay.c:11-26).
OneSlotPerSession ==
  /\ \A k, m \in SessionSlots : session[k] = session[m] /\ session[k] # None => k = m
  /\ \A k \in SessionSlots : session[k] = None => clients[k] = Nobody

\* In a session a player has one entry, in spite of rebinding by player and by
\* address: the second renames an entry that was another player's
\* (rv_relay.c:36-50).
OneEntryPerPlayer ==
  \A k \in SessionSlots : \A c, d \in InUse(clients[k]) :
    clients[k][c].player = clients[k][d].player => c = d

\* No voice goes to an address its player has left: an entry has the address
\* that player last joined from.
EntriesCurrent ==
  \A k \in SessionSlots : \A c \in InUse(clients[k]) :
    joinedFrom[session[k]][clients[k][c].player] = clients[k][c].addr

\* Whoever joined and has since neither joined from elsewhere nor joined as
\* somebody else is bound, whatever the others have done to the table.
JoinedAreBound ==
  \A k \in SessionSlots : session[k] # None =>
    \A p \in Players, a \in Addrs :
      joinedFrom[session[k]][p] = a /\ joinedAs[session[k]][a] = p
        => [player |-> p, addr |-> a] \in {clients[k][c] : c \in ClientSlots}

\* A voice packet reaches everybody else who has joined the routed session, and
\* does not come back to its sender (rv_relay.h:29, rv_relay.c:79-83).
VoiceReachesOthers ==
  heard.from # None =>
    \A k \in SlotsOf(Routed), p \in Players, a \in Addrs :
      /\ joinedFrom[Routed][p] = a /\ joinedAs[Routed][a] = p
      => ((\E c \in heard.to : clients[k][c].addr = a) <=> a # heard.from)
================================================================================
