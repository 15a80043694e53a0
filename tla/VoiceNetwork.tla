------------------------------ MODULE VoiceNetwork ------------------------------
(***************************************************************************)
(* Several hosts, each with an engine and a UDP transport, and the relay.   *)
(* A host's pump takes a packet out of its engine before it sends it, so a  *)
(* packet whose send fails is gone; a host may give up its transport and    *)
(* open another at another address.  The network loses, duplicates, delays  *)
(* and reorders datagrams, and other programs may send some.                *)
(*                                                                         *)
(* Engines are VoiceSession, which VoiceEngine implements, and the relay is *)
(* Relay.  The code builds a datagram when it queues the packet, the model  *)
(* when it leaves the queue: nobody can tell.  Errors and empty reads of a  *)
(* socket only end one call of a pump or make the relay sleep, and are no    *)
(* step; the three pumps (rv_transport_udp.c, rv_shim_transport.c and the  *)
(* inline one of rv_transport.h) are the same.                             *)
(***************************************************************************)
EXTENDS NetProto, Sequences, FiniteSets

CONSTANTS Hosts,         \* the machines that run an engine
          Identities,    \* <<session_id, player_id>> pairs to connect with
          LocalStates,   \* <<radio, channel, ptt>> as set by the host
          AddrsOf,       \* host -> the addresses it may open a transport at
          Strays,        \* datagrams of other programs
          OutCap,        \* RV_MAX_OUT_PKTS
          SeqMod,        \* number of sequence numbers
          MaxPlayers,    \* cfg.max_players of every engine
          Routed,        \* the session the relay routes voice to
          MaxSessions,   \* RV_RELAY_MAX_SESSIONS
          MaxClients,    \* RV_RELAY_MAX_CLIENTS_PER_SESSION
          None,          \* not in use, or not there
          Budget         \* bound: connects, voice packets, stray datagrams and
                         \* transports closed in one behaviour, together

RelayAddr == "relay"
Elsewhere == "elsewhere"   \* where no host is
Addrs == UNION {AddrsOf[h] : h \in Hosts}

\* Player ids and sequence numbers have 16 bits.  No two hosts have an address in
\* common, and other programs do not write our magic and version.
ASSUME NetworkAssumption ==
  /\ Identities \subseteq Nat \X Words
  /\ LocalStates \subseteq BOOLEAN \X Nat \X BOOLEAN
  /\ SeqMod \in Nat \ {0} /\ SeqMod - 1 \in Words
  /\ \A g, h \in Hosts : g # h => AddrsOf[g] \cap AddrsOf[h] = {}
  /\ RelayAddr \notin Addrs
  /\ None \notin Hosts \cup Addrs \cup {id[1] : id \in Identities}
  /\ None \notin [player : Words, addr : Addrs]
  /\ \A d \in Strays : d.magic # RV_MAGIC \/ d.version # RV_PROTO_VER

\* The relay has room for all, since a player has one entry: Relay says what it does
\* when it has not.
ASSUME Roomy == /\ MaxClients >= Cardinality({id[2] : id \in Identities})
                /\ MaxSessions >= Cardinality({id[1] : id \in Identities})

VARIABLES
  host,              \* h -> its engine, a VoiceSession
  addr,              \* h -> the address of its transport, or None
  net,               \* the datagrams under way
  session, clients,  \* the relay's tables
  left,              \* what is left of the budget
  said,              \* history: the voice that was queued, and by whom
  taken,             \* history: h -> the voice its engine has taken in
  joins,             \* history: the JOINs that reached the network, in order
  accepted,          \* history: the numbers of those the relay has bound
  overtaken,         \* history: the relay got a JOIN after a younger one
  mishap,            \* history: a JOIN was lost, or refused by the engine's queue
  moved              \* history: the hosts that have given up a transport

relayVars == <<session, clients>>
joinHistory == <<joins, accepted, overtaken, mishap>>
vars == <<host, addr, net, relayVars, left, said, taken, joinHistory, moved>>

Engine(h) == INSTANCE VoiceSession WITH s <- host[h], Flags <- LocalStates

\* The relay's own histories are not kept here: joins and accepted say more.
Switch == INSTANCE Relay WITH Ids <- {id[1] : id \in Identities},
                              Players <- {id[2] : id \in Identities},
                              heard <- None, joinedFrom <- None, joinedAs <- None

Init ==
  /\ host = [h \in Hosts |-> Engine(h)!Fresh]
  /\ addr = [h \in Hosts |-> None]
  /\ net = {}
  /\ session = [k \in Switch!SessionSlots |-> None]
  /\ clients = [k \in Switch!SessionSlots |-> Switch!Nobody]
  /\ left = Budget
  /\ said = {} /\ taken = [h \in Hosts |-> {}]
  /\ joins = <<>> /\ accepted = {} /\ overtaken = FALSE /\ mishap = FALSE
  /\ moved = {}

Spend == left > 0 /\ left' = left - 1

--------------------------------------------------------------------------------
(* What a host asks of its engine.                                           *)

engineLeaves == <<addr, net, relayVars, taken, joins, accepted, overtaken, moved>>

Connect(h, id) ==
  /\ Spend
  /\ host' = [host EXCEPT ![h] = Engine(h)!Connected(@, id)]
  /\ mishap' = (mishap \/ ~Engine(h)!HasRoom(host[h]))
  /\ UNCHANGED <<said, engineLeaves>>

Disconnect(h) ==
  /\ host[h].connected
  /\ host' = [host EXCEPT ![h] = Engine(h)!Disconnected(@)]
  /\ UNCHANGED <<left, said, mishap, engineLeaves>>

\* What a voice packet queued now is meant to arrive as.
Meant(x, f) == [speaker |-> x.who[2], seq |-> x.seq, radio |-> f[1],
                channel |-> f[2] % 16, ptt |-> f[3]]

\* A captured frame is sent: also after a disconnect, if it was captured before.
Speak(h, f) ==
  /\ host[h].who # Engine(h)!NoOne
  /\ Spend
  /\ host' = [host EXCEPT ![h] = Engine(h)!Spoken(@, f)]
  /\ said' = said \cup {[by |-> h, voice |-> Meant(host[h], f)]}
  /\ UNCHANGED <<mishap, engineLeaves>>

--------------------------------------------------------------------------------
(* Transports.                                                               *)

transportLeaves == <<relayVars, said, taken, accepted, overtaken>>

\* rv_transport_udp_create, when every call of it succeeds; otherwise there is no
\* transport, as before.
Open(h, a) ==
  /\ addr[h] = None /\ addr' = [addr EXCEPT ![h] = a]
  /\ UNCHANGED <<host, net, left, joins, mishap, moved, transportLeaves>>

\* rv_transport_udp_destroy.  What is under way to the old address stays so, and may
\* yet reach a transport opened there again; what the socket had received is lost,
\* as `Lose` may have it.
Close(h) ==
  /\ addr[h] # None /\ Spend
  /\ addr' = [addr EXCEPT ![h] = None]
  /\ moved' = moved \cup {h}
  /\ UNCHANGED <<host, net, joins, mishap, transportLeaves>>

\* The datagram built for a queued packet.
Built(packet) ==
  IF packet.type = "join" THEN BuildJoin(packet.id[1], packet.id[2])
  ELSE BuildVoice(packet.player, packet.seq,
                  FlagsMake(packet.flags[1], packet.flags[2], packet.flags[3]), "opus", 60)

IsJoin(h) == Head(host[h].outq).type = "join"

\* One turn of rv_transport_udp_pump_voice_outgoing takes a packet.
PumpTakes(h) ==
  /\ addr[h] # None /\ host[h].outq # <<>>
  /\ host' = [host EXCEPT ![h] = Engine(h)!Polled(@)]
  /\ UNCHANGED <<addr, left, moved, transportLeaves>>

\* `by` and `nth` are history: who sent a datagram and, of a JOIN, its number.
PumpSends(h) ==
  /\ PumpTakes(h)
  /\ joins' = IF IsJoin(h)
              THEN Append(joins, [by |-> h, id |-> Head(host[h].outq).id, addr |-> addr[h]])
              ELSE joins
  /\ net' = net \cup {[from |-> addr[h], to |-> RelayAddr, data |-> Built(Head(host[h].outq)),
                       by |-> h, nth |-> IF IsJoin(h) THEN Len(joins') ELSE 0]}
  /\ UNCHANGED mishap

\* The send fails: the pump returns, and the packet is in nobody's hands.
PumpLoses(h) ==
  /\ PumpTakes(h)
  /\ mishap' = (mishap \/ IsJoin(h))
  /\ UNCHANGED <<net, joins>>

\* rv_transport_udp_pump_voice_incoming gives a datagram to rv_voice_ingest_packet.
\* max_players is cut to 16 bits before it is compared.
Understands(d) == VoiceOk(d) /\ VoiceOf(d).speaker \in 1 .. MaxPlayers % 65536

HostTakes(h, p) ==
  /\ p.to = addr[h]
  /\ net' = net \ {p}
  /\ taken' = IF Understands(p.data)
              THEN [taken EXCEPT ![h] = @ \cup {[by |-> p.by, voice |-> VoiceOf(p.data)]}]
              ELSE taken
  /\ UNCHANGED <<host, addr, relayVars, left, said, joinHistory, moved>>

--------------------------------------------------------------------------------
(* The network.  Of what it duplicates, `copies` stay behind.                  *)

Lose(p) ==
  /\ net' = net \ {p}
  /\ mishap' = (mishap \/ p.nth # 0)
  /\ UNCHANGED <<host, addr, relayVars, left, said, taken, joins, accepted, overtaken,
                 moved>>

Stray(d, to) ==
  /\ Spend
  /\ net' = net \cup {[from |-> Elsewhere, to |-> to, data |-> d, by |-> None, nth |-> 0]}
  /\ UNCHANGED <<host, addr, relayVars, said, taken, joinHistory, moved>>

--------------------------------------------------------------------------------
(* The relay's loop (rv_relay_main.c): one datagram.                          *)

relayLeaves == <<host, addr, left, said, taken, joins, moved>>

RelayJoins(p, copies) ==
  /\ p.to = RelayAddr /\ JoinOk(p.data)
  /\ net' = (net \ {p}) \cup copies
  /\ LET j == JoinOf(p.data) IN
     \E k \in Switch!SessionSlots, c \in Switch!ClientSlots :
       Switch!Rebind(j.session, j.player, p.from, k, c)
  /\ accepted' = accepted \cup {p.nth}
  /\ overtaken' = (overtaken \/ \E n \in accepted : n > p.nth)
  /\ UNCHANGED <<mishap, relayLeaves>>

\* What the relay sends on, unchanged.
ForwardedTo(a, p) == [p EXCEPT !.from = RelayAddr, !.to = a]

IsVoice(d) == HeaderOk(d) /\ d.type = RV_PKT_VOICE

RelayForwards(p, copies) ==
  /\ p.to = RelayAddr /\ IsVoice(p.data)
  /\ net' = (net \ {p}) \cup copies \cup
            UNION {{ForwardedTo(clients[k][c].addr, p) : c \in Switch!Targets(k, p.from)}
                     : k \in Switch!SlotsOf(Routed)}
  /\ UNCHANGED <<relayVars, joinHistory, relayLeaves>>

RelaySkips(p) ==
  /\ p.to = RelayAddr /\ ~JoinOk(p.data) /\ ~IsVoice(p.data)
  /\ net' = net \ {p}
  /\ UNCHANGED <<relayVars, joinHistory, relayLeaves>>

--------------------------------------------------------------------------------
HostStep(h) ==
  \/ \E id \in Identities : Connect(h, id)
  \/ Disconnect(h)
  \/ \E f \in LocalStates : Speak(h, f)
  \/ \E a \in AddrsOf[h] : Open(h, a)
  \/ Close(h) \/ PumpSends(h) \/ PumpLoses(h)
  \/ \E p \in net : HostTakes(h, p)

RelayStep ==
  \E p \in net :
    \/ \E copies \in SUBSET {p} : RelayJoins(p, copies) \/ RelayForwards(p, copies)
    \/ RelaySkips(p)

NetworkStep == \/ \E p \in net : Lose(p)
               \/ \E d \in Strays, to \in Addrs \cup {RelayAddr} : Stray(d, to)

Next == (\E h \in Hosts : HostStep(h)) \/ RelayStep \/ NetworkStep

\* The last copy of a JOIN reaches the relay.
JoinArrives == \E p \in net : RelayJoins(p, {})

\* A host pumps again and again, and the relay reads what has come.
Spec == /\ Init /\ [][Next]_vars
        /\ WF_vars(\E h \in Hosts : PumpSends(h) \/ PumpLoses(h))
        /\ WF_vars(JoinArrives)

--------------------------------------------------------------------------------
(* Properties.                                                              *)

\* What an engine takes in as voice was queued by an engine: speaker, number,
\* radio, channel and key arrive as they were meant, through flags byte, byte
\* order, relay and parsers, whatever else is on the network
\* (rv_netproto.h:24-34, rv_netproto.c:53-109).
HeardWasSaid == \A h \in Hosts : taken[h] \subseteq said

\* A host that has kept its address does not hear itself (rv_relay.c:81); one
\* that has moved may, by voice sent before and relayed after.
NoEcho == \A h \in Hosts \ moved : \A v \in taken[h] : v.by # h

\* The clients of the routed session, or of none.
Bound(id, a) == \E k \in Switch!SlotsOf(id[1]), c \in Switch!ClientSlots :
                  clients[k][c] = [player |-> id[2], addr |-> a]

\* Whoever's last JOIN has been taken is bound as he is and where he is, unless
\* somebody has since asked for his player id: however hosts reconnect as others,
\* move, and lose or repeat packets.  It is not so once the relay got a JOIN after
\* a younger one: then a host may have lost his entry to where another used to be
\* (rv_relay.c:36-50), and JOIN is never repeated.
JoinedIsBound ==
  ~overtaken =>
    \A n \in accepted :
      (\A m \in n + 1 .. Len(joins) : joins[m].by # joins[n].by /\ joins[m].id # joins[n].id)
        => Bound(joins[n].id, joins[n].addr)

\* The engine's JOINs have all been taken by the relay.
Announced(h) ==
  /\ \A k \in DOMAIN host[h].outq : host[h].outq[k].type = "voice"
  /\ \A n \in DOMAIN joins : joins[n].by = h => n \in accepted

\* A host that stays connected and keeps its transport gets its JOIN through,
\* unless one was lost or found the queue full: queue, pump and relay do not get
\* stuck over other packets.
GetsThrough ==
  \A h \in Hosts :
    host[h].connected ~> (~host[h].connected \/ addr[h] = None \/ mishap \/
                          (Announced(h) /\ \E n \in accepted : joins[n].by = h))
================================================================================
