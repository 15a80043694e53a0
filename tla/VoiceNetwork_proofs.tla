--------------------------- MODULE VoiceNetwork_proofs ---------------------------
(***************************************************************************)
(* Theorems about VoiceNetwork, for any hosts, addresses, identities, table *)
(* sizes and number of steps: what is heard was said, nobody hears himself  *)
(* who stays where he is, and who has joined is bound.                      *)
(***************************************************************************)
EXTENDS VoiceNetwork, ModuloLemmas, SequenceTheorems, TLAPS

--------------------------------------------------------------------------------
(* Numbers and flags on the wire.                                           *)

\* Swapping the bytes of a 16-bit number twice gives it back (rv_bswap16).
LEMMA SwapTwice ==
  ASSUME NEW x \in Words
  PROVE  Swap16(x) \in Words /\ Swap16(Swap16(x)) = x
<1>1. Bytes \in Nat \ {0}
  BY DEF Bytes
<1> DEFINE lo == x % Bytes
           hi == x \div Bytes
           y == lo * Bytes + hi
<1>2. x \in Nat /\ x <= Bytes * Bytes - 1
  BY <1>1 DEF Words
<1>3. lo \in 0 .. Bytes - 1 /\ hi \in Int /\ x = Bytes * hi + lo
  BY <1>1, <1>2
<1> HIDE DEF lo, hi
<1>4. hi >= 0
  BY <1>1, <1>2, <1>3, SMT
<1>5. hi < Bytes
  BY <1>1, <1>2, <1>3, SMT
<1>6. hi \in 0 .. Bytes - 1 /\ lo \in Int
  BY <1>1, <1>3, <1>4, <1>5
<1>7. y \in Nat /\ y = Bytes * lo + hi
  BY <1>1, <1>3, <1>6, SMT
<1>8. y \in Words
  BY <1>1, <1>3, <1>6, SMT DEF Words
<1> HIDE DEF y
<1>9. y % Bytes = hi /\ y \div Bytes = lo
  BY <1>1, <1>6, <1>7, RemainderUnique, QuotientUnique
<1>10. Swap16(x) = y
  BY DEF Swap16, lo, hi, y
<1>11. Swap16(y) = x
  BY <1>1, <1>3, <1>6, <1>9, SMT DEF Swap16
<1> QED
  BY <1>8, <1>10, <1>11

\* The flags byte gives back radio, key and the channel's low four bits
\* (rv_netproto.h:24-34).
LEMMA FlagsRoundTrip ==
  ASSUME NEW r \in BOOLEAN, NEW c \in Nat, NEW t \in BOOLEAN
  PROVE  /\ FlagsIsRadio(FlagsMake(r, c, t)) = r
         /\ FlagsChannel(FlagsMake(r, c, t)) = c % 16
         /\ FlagsPtt(FlagsMake(r, c, t)) = t
<1>1. PICK n \in 0 .. 15 : n = c % 16
  OBVIOUS
<1>2. PICK b \in {0, 1} : b = Bit(r) /\ (b = 1) = r
  BY DEF Bit
<1>3. PICK k \in {0, 1} : k = Bit(t) /\ (k = 1) = t
  BY DEF Bit
<1>4. PICK f \in 0 .. 63 : f = b + 2 * n + 32 * k
  OBVIOUS
<1>5. f % 2 = b /\ (f \div 2) % 16 = n /\ (f \div 32) % 2 = k
  BY <1>4
<1>6. FlagsMake(r, c, t) = f
  BY <1>1, <1>2, <1>3, <1>4 DEF FlagsMake
<1>7. FlagsChannel(f) = n
  BY <1>5 DEF FlagsChannel
<1>8. FlagsIsRadio(f) = (b = 1) /\ FlagsPtt(f) = (k = 1)
  BY <1>5 DEF FlagsIsRadio, FlagsPtt
<1>9. FlagsIsRadio(f) = r /\ FlagsPtt(f) = t
  BY <1>2, <1>3, <1>8
<1> QED
  BY <1>1, <1>6, <1>7, <1>9

\* A voice packet is parsed to what it was built of (rv_netproto.c:53-109).
LEMMA VoiceParsed ==
  ASSUME NEW player \in Words, NEW n \in Words, NEW f \in BOOLEAN \X Nat \X BOOLEAN,
         NEW d, d = BuildVoice(player, n, FlagsMake(f[1], f[2], f[3]), "opus", 60)
  PROVE  /\ ~JoinOk(d)
         /\ VoiceOf(d) = [speaker |-> player, seq |-> n, radio |-> f[1],
                          channel |-> f[2] % 16, ptt |-> f[3]]
<1>1. f[1] \in BOOLEAN /\ f[2] \in Nat /\ f[3] \in BOOLEAN
  OBVIOUS
<1> DEFINE b == FlagsMake(f[1], f[2], f[3])
<1>2. FlagsIsRadio(b) = f[1] /\ FlagsChannel(b) = f[2] % 16 /\ FlagsPtt(b) = f[3]
  BY <1>1, FlagsRoundTrip
<1> HIDE DEF b
<1>3. d.type = RV_PKT_VOICE /\ d.speaker = Swap16(player) /\ d.seq = Swap16(n) /\ d.flags = b
  BY DEF BuildVoice, Datagram, b
<1>4. VoiceOf(d) = [speaker |-> player, seq |-> n, radio |-> f[1],
                    channel |-> f[2] % 16, ptt |-> f[3]]
  BY <1>2, <1>3, SwapTwice DEF VoiceOf
<1> QED
  BY <1>3, <1>4 DEF JoinOk, RV_PKT_JOIN, RV_PKT_VOICE

\* So is a JOIN.
LEMMA JoinParsed ==
  ASSUME NEW id \in Identities, NEW d, d = BuildJoin(id[1], id[2])
  PROVE  ~VoiceOk(d) /\ JoinOf(d) = [session |-> id[1], player |-> id[2]]
<1>1. id[2] \in Words
  BY NetworkAssumption
<1>2. d.type = RV_PKT_JOIN /\ d.payload = [session |-> id[1], player |-> Swap16(id[2])]
  BY DEF BuildJoin, Datagram
<1>3. JoinOf(d) = [session |-> id[1], player |-> id[2]]
  BY <1>1, <1>2, SwapTwice DEF JoinOf
<1> QED
  BY <1>2, <1>3 DEF VoiceOk, RV_PKT_JOIN, RV_PKT_VOICE

--------------------------------------------------------------------------------
(* Engines: what is queued is a JOIN or has been said.                       *)

\* What a queued voice packet is meant to arrive as.
MeantBy(q) == [speaker |-> q.player, seq |-> q.seq, radio |-> q.flags[1],
               channel |-> q.flags[2] % 16, ptt |-> q.flags[3]]

Voices == [type : {"voice"}, player : Words, seq : 0 .. SeqMod - 1, flags : LocalStates]

\* What host h may have queued when the voice in S has been said.
Sendable(h, S) == {[type |-> "join", id |-> id] : id \in Identities}
                  \cup {q \in Voices : [by |-> h, voice |-> MeantBy(q)] \in S}

EngineOk(h, x, S) ==
  /\ x \in [connected : BOOLEAN, who : Identities \cup {<<0, 0>>},
            outq : Seq(Sendable(h, S)), seq : 0 .. SeqMod - 1]

\* The type of an engine, field by field.
LEMMA EngineFields ==
  ASSUME NEW h, NEW x, NEW S
  PROVE  EngineOk(h, x, S) <=>
           /\ x = [connected |-> x.connected, who |-> x.who, outq |-> x.outq, seq |-> x.seq]
           /\ x.connected \in BOOLEAN /\ x.who \in Identities \cup {<<0, 0>>}
           /\ x.outq \in Seq(Sendable(h, S)) /\ x.seq \in 0 .. SeqMod - 1
BY DEF EngineOk

\* What could be queued still may be when more has been said.
LEMMA SayMore ==
  ASSUME NEW h, NEW x, NEW S, NEW T, S \subseteq T, EngineOk(h, x, S)
  PROVE  EngineOk(h, x, T)
<1>1. Sendable(h, S) \subseteq Sendable(h, T)
  BY DEF Sendable
<1> HIDE DEF Sendable
<1>2. x.outq \in Seq(Sendable(h, T))
  <2> DEFINE A == Sendable(h, S)
             B == Sendable(h, T)
             q == x.outq
  <2>1. q \in Seq(A)
    BY EngineFields
  <2> HIDE DEF A, B, q
  <2>2. Len(q) \in Nat /\ q \in [1 .. Len(q) -> A]
    BY <2>1, LenProperties
  <2>3. A \subseteq B
    BY <1>1 DEF A, B
  <2>4. q \in [1 .. Len(q) -> B]
    BY <2>2, <2>3
  <2>5. q \in Seq(B)
    BY <2>2, <2>4, SeqDef
  <2> QED
    BY <2>5 DEF B, q
<1> QED
  BY <1>2, EngineFields

\* A packet put into the queue of an engine, and the engine's other fields.
LEMMA QueuedOk ==
  ASSUME NEW h, NEW x, NEW S, EngineOk(h, x, S), NEW q \in Sendable(h, S)
  PROVE  EngineOk(h, Engine(h)!Queued(x, q), S)
<1>1. /\ x = [connected |-> x.connected, who |-> x.who, outq |-> x.outq, seq |-> x.seq]
      /\ x.outq \in Seq(Sendable(h, S))
  BY EngineFields
<1>2. PICK t : t = Append(x.outq, q)
  OBVIOUS
<1>3. t \in Seq(Sendable(h, S))
  BY <1>1, <1>2, AppendProperties
<1>4. Engine(h)!Queued(x, q) = [x EXCEPT !.outq = t]
  BY <1>2 DEF Engine!Queued
<1>5. [x EXCEPT !.outq = t]
        = [connected |-> x.connected, who |-> x.who, outq |-> t, seq |-> x.seq]
  BY <1>1
<1> QED
  BY <1>3, <1>4, <1>5, EngineFields

\* A connect queues a JOIN or nothing (voice.c:443-470).
LEMMA ConnectedOk ==
  ASSUME NEW h, NEW x, NEW S, EngineOk(h, x, S), NEW id \in Identities
  PROVE  EngineOk(h, Engine(h)!Connected(x, id), S)
<1>1. x = [connected |-> x.connected, who |-> x.who, outq |-> x.outq, seq |-> x.seq]
  BY EngineFields
<1>2. PICK y : y = [x EXCEPT !.who = id]
  OBVIOUS
<1>3. y = [connected |-> x.connected, who |-> id, outq |-> x.outq, seq |-> x.seq]
  BY <1>1, <1>2
<1>4. EngineOk(h, y, S)
  BY <1>3, EngineFields
<1>5. PICK z : z = [y EXCEPT !.connected = TRUE]
  OBVIOUS
<1>6. \A on \in BOOLEAN : [y EXCEPT !.connected = on]
        = [connected |-> on, who |-> id, outq |-> x.outq, seq |-> x.seq]
  BY <1>3
<1>7. \A on \in BOOLEAN : \A w : w = [connected |-> on, who |-> id, outq |-> x.outq, seq |-> x.seq]
        => EngineOk(h, w, S)
  BY EngineFields
<1>8. EngineOk(h, z, S)
  BY <1>5, <1>6, <1>7
<1>9. [type |-> "join", id |-> id] \in Sendable(h, S)
  BY DEF Sendable
<1>10. EngineOk(h, Engine(h)!Queued(z, [type |-> "join", id |-> id]), S)
  BY <1>8, <1>9, QueuedOk
<1>11. Engine(h)!Connected(x, id) = y
       \/ Engine(h)!Connected(x, id) = Engine(h)!Queued(z, [type |-> "join", id |-> id])
  BY <1>2, <1>5, Zenon DEF Engine!Connected, Engine!JoinPacket
<1> QED
  BY <1>4, <1>10, <1>11

\* A disconnect leaves the queue alone.
LEMMA DisconnectedOk ==
  ASSUME NEW h, NEW x, NEW S, EngineOk(h, x, S)
  PROVE  EngineOk(h, Engine(h)!Disconnected(x), S)
<1>1. x = [connected |-> x.connected, who |-> x.who, outq |-> x.outq, seq |-> x.seq]
  BY EngineFields
<1>2. \A on \in BOOLEAN : [x EXCEPT !.connected = on]
        = [connected |-> on, who |-> x.who, outq |-> x.outq, seq |-> x.seq]
  BY <1>1
<1>3. \A on \in BOOLEAN : \A w : w = [connected |-> on, who |-> x.who, outq |-> x.outq, seq |-> x.seq]
        => EngineOk(h, w, S)
  BY EngineFields
<1> QED
  BY <1>2, <1>3, Zenon DEF Engine!Disconnected

\* Voice said now may be queued, and nothing else is (voice.c:280-311).
LEMMA SpokenOk ==
  ASSUME NEW h, NEW x, NEW S, EngineOk(h, x, S), x.who # <<0, 0>>, NEW f \in LocalStates
  PROVE  EngineOk(h, Engine(h)!Spoken(x, f), S \cup {[by |-> h, voice |-> Meant(x, f)]})
<1> DEFINE T == S \cup {[by |-> h, voice |-> Meant(x, f)]}
           q == [type |-> "voice", player |-> x.who[2], seq |-> x.seq, flags |-> f]
<1>1. EngineOk(h, x, T)
  BY SayMore
<1>2. x.who \in Identities /\ x.seq \in 0 .. SeqMod - 1
  BY EngineFields
<1>3. x.who[2] \in Words
  BY <1>2, NetworkAssumption
<1>4. q \in Voices
  BY <1>2, <1>3 DEF Voices
<1>5. MeantBy(q) = Meant(x, f)
  BY DEF MeantBy, Meant
<1>6. q \in Sendable(h, T)
  BY <1>4, <1>5 DEF Sendable
<1> HIDE DEF T, q
<1>7. EngineOk(h, Engine(h)!Queued(x, q), T)
  BY <1>1, <1>6, QueuedOk
<1>8. PICK y : y = IF Engine(h)!HasRoom(x) THEN Engine(h)!Queued(x, q) ELSE x
  OBVIOUS
<1>9. EngineOk(h, y, T)
  BY <1>1, <1>7, <1>8
<1>10. /\ y = [connected |-> y.connected, who |-> y.who, outq |-> y.outq, seq |-> y.seq]
       /\ y.seq \in 0 .. SeqMod - 1
  BY <1>9, EngineFields
<1>11. PICK n : n = (y.seq + 1) % SeqMod
  OBVIOUS
<1>12. n \in 0 .. SeqMod - 1
  BY <1>10, <1>11, NetworkAssumption
<1>13. [y EXCEPT !.seq = n]
         = [connected |-> y.connected, who |-> y.who, outq |-> y.outq, seq |-> n]
  BY <1>10
<1>14. EngineOk(h, [y EXCEPT !.seq = n], T)
  BY <1>9, <1>12, <1>13, EngineFields
<1>15. Engine(h)!Spoken(x, f) = [y EXCEPT !.seq = n]
  BY <1>8, <1>11 DEF Engine!Spoken, Engine!VoicePacket, q
<1> QED
  BY <1>14, <1>15 DEF T

\* The packet a pump takes is one that may be sent, and the rest stays queued.
LEMMA PolledOk ==
  ASSUME NEW h, NEW x, NEW S, EngineOk(h, x, S), x.outq # <<>>
  PROVE  EngineOk(h, Engine(h)!Polled(x), S) /\ Head(x.outq) \in Sendable(h, S)
<1>1. /\ x = [connected |-> x.connected, who |-> x.who, outq |-> x.outq, seq |-> x.seq]
      /\ x.outq \in Seq(Sendable(h, S))
  BY EngineFields
<1>2. PICK t : t = Tail(x.outq)
  OBVIOUS
<1>3. t \in Seq(Sendable(h, S)) /\ Head(x.outq) \in Sendable(h, S)
  BY <1>1, <1>2, HeadTailProperties
<1>4. [x EXCEPT !.outq = t]
        = [connected |-> x.connected, who |-> x.who, outq |-> t, seq |-> x.seq]
  BY <1>1
<1>5. EngineOk(h, [x EXCEPT !.outq = t], S)
  BY <1>3, <1>4, EngineFields
<1> QED
  BY <1>2, <1>3, <1>5 DEF Engine!Polled

--------------------------------------------------------------------------------
(* The invariant.                                                           *)

\* A datagram under way when the voice in S has been said, the JOINs js have been
\* sent, the hosts have the addresses ad, and those in mv have moved: its voice was
\* said; its JOIN is the one it is counted as; on its way to the relay it is from
\* its host's address; and it is not on its way back to a host that has not moved.
DatagramOk(p, S, js, ad, mv) ==
  /\ p = [from |-> p.from, to |-> p.to, data |-> p.data, by |-> p.by, nth |-> p.nth]
  /\ p.by \in Hosts \/ (p.by = None /\ ~HeaderOk(p.data))
  /\ VoiceOk(p.data) => [by |-> p.by, voice |-> VoiceOf(p.data)] \in S
  /\ p.to = RelayAddr /\ p.by \in Hosts => p.from \in AddrsOf[p.by]
  /\ p.to = RelayAddr /\ JoinOk(p.data) =>
       /\ p.nth \in 1 .. Len(js)
       /\ js[p.nth] = [by |-> p.by, addr |-> p.from,
                       id |-> <<JoinOf(p.data).session, JoinOf(p.data).player>>]
  /\ p.by \in Hosts \ mv =>
       /\ ad[p.by] # None /\ ad[p.by] # p.to
       /\ p.to = RelayAddr => p.from = ad[p.by]

NetOk == \A p \in net : DatagramOk(p, said, joins, addr, moved)

HostsOk == /\ host = [h \in Hosts |-> host[h]]
           /\ \A h \in Hosts : EngineOk(h, host[h], said)

PlacesOk == /\ addr \in [Hosts -> Addrs \cup {None}]
            /\ \A h \in Hosts : addr[h] \in AddrsOf[h] \cup {None}

Joined == [by : Hosts, id : Identities, addr : Addrs]

HistoryOk == /\ joins \in Seq(Joined)
             /\ \A n \in 1 .. Len(joins) : joins[n].addr \in AddrsOf[joins[n].by]
             /\ accepted \subseteq 1 .. Len(joins)

TableOk ==
  /\ DOMAIN session = Switch!SessionSlots
  /\ clients \in [Switch!SessionSlots ->
                    [Switch!ClientSlots -> [player : Words, addr : Addrs] \cup {None}]]

TakenOk == taken = [h \in Hosts |-> taken[h]] /\ HeardWasSaid /\ NoEcho

NetInv == HostsOk /\ PlacesOk /\ HistoryOk /\ TableOk /\ NetOk /\ TakenOk /\ JoinedIsBound

--------------------------------------------------------------------------------
(* The invariant is kept.                                                    *)

\* Nothing is heard, sent or bound at first.
LEMMA NetInit == Init => NetInv
<1> SUFFICES ASSUME Init PROVE NetInv
  OBVIOUS
<1>1. HostsOk
  <2>1. /\ <<>> \in Seq({}) /\ 0 \in 0 .. SeqMod - 1
        /\ \A h \in Hosts : <<>> \in Seq(Sendable(h, said))
    BY EmptySeq, NetworkAssumption
  <2>2. \A h \in Hosts : host[h] = [connected |-> FALSE, who |-> <<0, 0>>, outq |-> <<>>, seq |-> 0]
    BY DEF Init, Engine!Fresh, Engine!NoOne
  <2>3. ASSUME NEW h \in Hosts PROVE EngineOk(h, host[h], said)
    <3>1. ASSUME NEW on \in BOOLEAN, NEW x,
                 x = [connected |-> on, who |-> <<0, 0>>, outq |-> <<>>, seq |-> 0]
          PROVE  EngineOk(h, x, said)
      <4>1. x.connected = on /\ x.who = <<0, 0>> /\ x.outq = <<>> /\ x.seq = 0
        BY <3>1
      <4> QED
        BY <2>1, <3>1, <4>1, EngineFields
    <3> QED
      BY <2>2, <3>1, Zenon
  <2>4. host = [h \in Hosts |-> host[h]]
    BY DEF Init
  <2> QED
    BY <2>3, <2>4 DEF HostsOk
<1>2. PlacesOk
  BY DEF Init, PlacesOk
<1>3. HistoryOk
  BY EmptySeq DEF Init, HistoryOk
<1>4. TableOk
  BY DEF Init, TableOk, Switch!Nobody
<1>5. NetOk
  BY DEF Init, NetOk
<1>6. TakenOk
  BY DEF Init, TakenOk, HeardWasSaid, NoEcho
<1>7. JoinedIsBound
  BY DEF Init, JoinedIsBound
<1> QED
  BY <1>1, <1>2, <1>3, <1>4, <1>5, <1>6, <1>7 DEF NetInv

\* What engines hold and what has been said.
LEMMA HostsStep == NetInv /\ [Next]_vars => HostsOk' /\ said \subseteq said'
<1> SUFFICES ASSUME NetInv, [Next]_vars PROVE HostsOk' /\ said \subseteq said'
  OBVIOUS
<1> USE DEF NetInv
<1>1. ASSUME NEW h \in Hosts, NEW x, host' = [host EXCEPT ![h] = x],
             EngineOk(h, x, said'), said \subseteq said'
      PROVE  HostsOk'
  <2>1. \A g \in Hosts : EngineOk(g, host[g], said')
    BY <1>1, SayMore DEF HostsOk
  <2>2. host'[h] = x /\ \A g \in Hosts \ {h} : host'[g] = host[g]
    BY <1>1 DEF HostsOk
  <2>3. \A g \in Hosts : EngineOk(g, host'[g], said')
    BY <1>1, <2>1, <2>2
  <2>4. host' = [g \in Hosts |-> host'[g]]
    BY <1>1 DEF HostsOk
  <2> QED
    BY <2>3, <2>4 DEF HostsOk
<1>2. ASSUME UNCHANGED <<host, said>> PROVE HostsOk' /\ said \subseteq said'
  BY <1>2 DEF HostsOk
<1>3. ASSUME NEW h \in Hosts PROVE EngineOk(h, host[h], said)
  BY DEF HostsOk
<1>4. ASSUME NEW h \in Hosts, NEW id \in Identities, Connect(h, id)
      PROVE  HostsOk' /\ said \subseteq said'
  <2>1. host' = [host EXCEPT ![h] = Engine(h)!Connected(host[h], id)] /\ said' = said
    BY <1>4 DEF Connect
  <2> QED
    BY <1>1, <1>3, <2>1, ConnectedOk
<1>5. ASSUME NEW h \in Hosts, Disconnect(h)
      PROVE  HostsOk' /\ said \subseteq said'
  <2>1. host' = [host EXCEPT ![h] = Engine(h)!Disconnected(host[h])] /\ said' = said
    BY <1>5 DEF Disconnect
  <2> QED
    BY <1>1, <1>3, <2>1, DisconnectedOk
<1>6. ASSUME NEW h \in Hosts, NEW f \in LocalStates, Speak(h, f)
      PROVE  HostsOk' /\ said \subseteq said'
  <2>1. /\ host' = [host EXCEPT ![h] = Engine(h)!Spoken(host[h], f)]
        /\ said' = said \cup {[by |-> h, voice |-> Meant(host[h], f)]}
        /\ host[h].who # <<0, 0>>
    BY <1>6 DEF Speak, Engine!NoOne
  <2>2. EngineOk(h, Engine(h)!Spoken(host[h], f), said')
    BY <1>3, <2>1, SpokenOk
  <2> QED
    BY <1>1, <2>1, <2>2
<1>7. ASSUME NEW h \in Hosts, PumpTakes(h)
      PROVE  HostsOk' /\ said \subseteq said'
  <2>1. /\ host' = [host EXCEPT ![h] = Engine(h)!Polled(host[h])] /\ said' = said
        /\ host[h].outq # <<>>
    BY <1>7 DEF PumpTakes, transportLeaves
  <2> QED
    BY <1>1, <1>3, <2>1, PolledOk
<1>8. ASSUME NEW h \in Hosts, NEW a, Open(h, a) \/ Close(h)
      PROVE  UNCHANGED <<host, said>>
  BY <1>8 DEF Open, Close, transportLeaves
<1>9. ASSUME NEW h \in Hosts, NEW p, HostTakes(h, p) PROVE UNCHANGED <<host, said>>
  BY <1>9 DEF HostTakes
<1>10. ASSUME RelayStep \/ NetworkStep PROVE UNCHANGED <<host, said>>
  BY <1>10 DEF RelayStep, NetworkStep, RelayJoins, RelayForwards, RelaySkips, relayLeaves,
              Lose, Stray
<1>11. CASE UNCHANGED vars
  BY <1>2, <1>11 DEF vars
<1>12. ASSUME NEW h \in Hosts, HostStep(h)
       PROVE  HostsOk' /\ said \subseteq said'
  BY <1>2, <1>4, <1>5, <1>6, <1>7, <1>8, <1>9, <1>12 DEF HostStep, PumpSends, PumpLoses
<1> QED
  BY <1>2, <1>10, <1>11, <1>12 DEF Next

\* A host takes an address of its own, and keeps it until it has moved.
LEMMA PlacesStep ==
  NetInv /\ [Next]_vars =>
    /\ PlacesOk' /\ moved \subseteq moved'
    /\ \A g \in Hosts \ moved' : addr[g] # None => addr'[g] = addr[g]
<1> SUFFICES ASSUME NetInv, [Next]_vars
             PROVE  /\ PlacesOk' /\ moved \subseteq moved'
                    /\ \A g \in Hosts \ moved' : addr[g] # None => addr'[g] = addr[g]
  OBVIOUS
<1> USE DEF NetInv, PlacesOk
<1>1. ASSUME NEW h \in Hosts, NEW a \in AddrsOf[h], Open(h, a)
      PROVE  /\ PlacesOk' /\ moved \subseteq moved'
             /\ \A g \in Hosts \ moved' : addr[g] # None => addr'[g] = addr[g]
  <2>1. a \in Addrs
    BY DEF Addrs
  <2> QED
    BY <1>1, <2>1 DEF Open
<1>2. ASSUME NEW h \in Hosts, Close(h)
      PROVE  /\ PlacesOk' /\ moved \subseteq moved'
             /\ \A g \in Hosts \ moved' : addr[g] # None => addr'[g] = addr[g]
  BY <1>2 DEF Close
<1>3. ASSUME UNCHANGED <<addr, moved>>
      PROVE  /\ PlacesOk' /\ moved \subseteq moved'
             /\ \A g \in Hosts \ moved' : addr[g] # None => addr'[g] = addr[g]
  BY <1>3
<1>4. ASSUME NEW h \in Hosts, NEW id, NEW f, NEW p,
             \/ Connect(h, id) \/ Disconnect(h) \/ Speak(h, f)
             \/ PumpSends(h) \/ PumpLoses(h) \/ HostTakes(h, p)
      PROVE  UNCHANGED <<addr, moved>>
  BY <1>4 DEF Connect, Disconnect, Speak, PumpSends, PumpLoses, PumpTakes, HostTakes,
              engineLeaves
<1>5. ASSUME RelayStep \/ NetworkStep PROVE UNCHANGED <<addr, moved>>
  BY <1>5 DEF RelayStep, NetworkStep, RelayJoins, RelayForwards, RelaySkips, relayLeaves,
              Lose, Stray
<1>6. CASE UNCHANGED vars
  BY <1>3, <1>6 DEF vars
<1>7. ASSUME NEW h \in Hosts, HostStep(h)
      PROVE  /\ PlacesOk' /\ moved \subseteq moved'
             /\ \A g \in Hosts \ moved' : addr[g] # None => addr'[g] = addr[g]
  BY <1>1, <1>2, <1>3, <1>4, <1>7 DEF HostStep
<1> QED
  BY <1>3, <1>5, <1>6, <1>7 DEF Next

\* The JOIN a pump sends is counted after all others.
LEMMA SendJoins ==
  ASSUME NetInv, NEW h \in Hosts, PumpSends(h)
  PROVE  /\ joins' \in Seq(Joined) /\ Len(joins) <= Len(joins') /\ Len(joins) \in Nat
         /\ \A n \in 1 .. Len(joins) : joins'[n] = joins[n]
         /\ \A n \in 1 .. Len(joins') : joins'[n].addr \in AddrsOf[joins'[n].by]
         /\ IsJoin(h) => /\ Len(joins') \in 1 .. Len(joins')
                         /\ Head(host[h].outq).id \in Identities
                         /\ joins'[Len(joins')] = [by |-> h, id |-> Head(host[h].outq).id,
                                                   addr |-> addr[h]]
<1> USE DEF NetInv
<1>1. addr[h] \in AddrsOf[h] /\ addr[h] \in Addrs
  BY DEF PumpSends, PumpTakes, PlacesOk
<1>2. Len(joins) \in Nat /\ joins \in Seq(Joined)
  BY LenProperties DEF HistoryOk
<1>3. CASE IsJoin(h)
  <2>1. Head(host[h].outq) \in Sendable(h, said)
    BY PolledOk DEF PumpSends, PumpTakes, HostsOk
  <2>2. Head(host[h].outq).id \in Identities
    BY <1>3, <2>1 DEF Sendable, Voices, IsJoin
  <2>3. PICK e : e = [by |-> h, id |-> Head(host[h].outq).id, addr |-> addr[h]]
    OBVIOUS
  <2>4. e \in Joined /\ e.by = h /\ e.addr = addr[h]
    BY <1>1, <2>2, <2>3 DEF Joined
  <2>5. joins' = Append(joins, e)
    BY <1>3, <2>3 DEF PumpSends
  <2>6. /\ joins' \in Seq(Joined) /\ Len(joins') = Len(joins) + 1
        /\ \A n \in 1 .. Len(joins) : joins'[n] = joins[n]
        /\ joins'[Len(joins) + 1] = e
    BY <1>2, <2>4, <2>5, AppendProperties
  <2>7. \A n \in 1 .. Len(joins') : joins'[n].addr \in AddrsOf[joins'[n].by]
    <3>1. ASSUME NEW n \in 1 .. Len(joins')
          PROVE  joins'[n].addr \in AddrsOf[joins'[n].by]
      <4>1. CASE n \in 1 .. Len(joins)
        BY <2>6, <4>1 DEF HistoryOk
      <4>2. CASE n = Len(joins) + 1
        BY <1>1, <2>4, <2>6, <4>2
      <4> QED
        BY <1>2, <2>6, <4>1, <4>2
    <3> QED
      BY <3>1
  <2> QED
    BY <1>2, <2>2, <2>3, <2>6, <2>7
<1>4. CASE ~IsJoin(h)
  BY <1>2, <1>4 DEF PumpSends, HistoryOk
<1> QED
  BY <1>3, <1>4

\* JOINs are only added, and the relay takes in those that were sent.
LEMMA HistoryStep ==
  NetInv /\ [Next]_vars =>
    /\ HistoryOk' /\ Len(joins) \in Nat /\ Len(joins) <= Len(joins')
    /\ \A n \in 1 .. Len(joins) : joins'[n] = joins[n]
<1> SUFFICES ASSUME NetInv, [Next]_vars
             PROVE  /\ HistoryOk' /\ Len(joins) \in Nat /\ Len(joins) <= Len(joins')
                    /\ \A n \in 1 .. Len(joins) : joins'[n] = joins[n]
  OBVIOUS
<1> USE DEF NetInv
<1> DEFINE Good == /\ HistoryOk' /\ Len(joins) <= Len(joins')
                   /\ \A n \in 1 .. Len(joins) : joins'[n] = joins[n]
<1>0. Len(joins) \in Nat
  BY LenProperties DEF HistoryOk
<1>1. ASSUME NEW h \in Hosts, PumpSends(h) PROVE Good
  <2>1. accepted' = accepted
    BY <1>1 DEF PumpSends, PumpTakes, transportLeaves
  <2>2. Len(joins) \in Nat /\ Len(joins') \in Nat /\ Len(joins) <= Len(joins')
    BY <1>1, SendJoins, LenProperties
  <2>3. accepted' \subseteq 1 .. Len(joins')
    BY <2>1, <2>2 DEF HistoryOk
  <2>4. /\ joins' \in Seq(Joined)
        /\ \A n \in 1 .. Len(joins) : joins'[n] = joins[n]
        /\ \A n \in 1 .. Len(joins') : joins'[n].addr \in AddrsOf[joins'[n].by]
    BY <1>1, SendJoins
  <2>5. HistoryOk'
    BY <2>3, <2>4 DEF HistoryOk, Joined
  <2> QED
    BY <2>2, <2>4, <2>5
<1>2. ASSUME NEW p \in net, NEW copies \in SUBSET {p}, RelayJoins(p, copies) PROVE Good
  <2>1. joins' = joins /\ accepted' = accepted \cup {p.nth}
    BY <1>2 DEF RelayJoins, relayLeaves
  <2>2. p.nth \in 1 .. Len(joins)
    BY <1>2 DEF RelayJoins, NetOk, DatagramOk
  <2>3. accepted' \subseteq 1 .. Len(joins)
    BY <2>1, <2>2 DEF HistoryOk
  <2>4. HistoryOk'
    BY <2>1, <2>3 DEF HistoryOk
  <2> QED
    BY <1>0, <2>1, <2>3, <2>4
<1>3. ASSUME UNCHANGED <<joins, accepted>> PROVE Good
  BY <1>0, <1>3 DEF HistoryOk
<1>4. ASSUME NEW h \in Hosts, NEW id, NEW f, NEW a, NEW p,
             \/ Connect(h, id) \/ Disconnect(h) \/ Speak(h, f) \/ Open(h, a) \/ Close(h)
             \/ PumpLoses(h) \/ HostTakes(h, p)
      PROVE  UNCHANGED <<joins, accepted>>
  BY <1>4 DEF Connect, Disconnect, Speak, Open, Close, PumpLoses, PumpTakes, HostTakes,
              engineLeaves, transportLeaves, joinHistory
<1>5. ASSUME NEW p, NEW copies, RelayForwards(p, copies) \/ RelaySkips(p) \/ NetworkStep
      PROVE  UNCHANGED <<joins, accepted>>
  BY <1>5 DEF NetworkStep, RelayForwards, RelaySkips, relayLeaves, joinHistory, Lose, Stray
<1>6. CASE UNCHANGED vars
  BY <1>3, <1>6 DEF vars, joinHistory
<1>7. ASSUME NEW h \in Hosts, HostStep(h) PROVE Good
  BY <1>1, <1>3, <1>4, <1>7 DEF HostStep
<1>8. ASSUME RelayStep PROVE Good
  BY <1>2, <1>3, <1>5, <1>8 DEF RelayStep
<1>9. Good
  BY <1>3, <1>5, <1>6, <1>7, <1>8 DEF Next
<1> QED
  BY <1>0, <1>9

\* A JOIN the relay takes is the one it is counted as, and is written to a slot that
\* is its player's, or its address's, or free, of a session that is its own or takes
\* a free slot (rv_relay.c:11-60).
LEMMA JoinWrites ==
  ASSUME NetInv, NEW p \in net, NEW copies, RelayJoins(p, copies)
  PROVE  /\ p.nth \in 1 .. Len(joins) /\ joins[p.nth] \in Joined
         /\ joins[p.nth].id[2] \in Words
         /\ \E k \in Switch!SessionSlots, c \in Switch!ClientSlots :
              /\ session[k] \in {joins[p.nth].id[1], None}
              /\ \/ clients[k][c] = None
                 \/ clients[k][c].player = joins[p.nth].id[2]
                 \/ clients[k][c].addr = joins[p.nth].addr
              /\ session' = [session EXCEPT ![k] = joins[p.nth].id[1]]
              /\ clients' = [clients EXCEPT ![k] = [@ EXCEPT ![c] =
                               [player |-> joins[p.nth].id[2], addr |-> joins[p.nth].addr]]]
<1> USE DEF NetInv
<1>1. /\ p.nth \in 1 .. Len(joins)
      /\ joins[p.nth] = [by |-> p.by, addr |-> p.from,
                         id |-> <<JoinOf(p.data).session, JoinOf(p.data).player>>]
  BY DEF RelayJoins, NetOk, DatagramOk
<1>2. joins[p.nth] \in Joined
  BY <1>1, ElementOfSeq, LenProperties DEF HistoryOk
<1> DEFINE j == joins[p.nth]
<1>3. /\ j.id[1] = JoinOf(p.data).session /\ j.id[2] = JoinOf(p.data).player
      /\ j.addr = p.from
  BY <1>1
<1>4. j.id[2] \in Words
  BY <1>2, NetworkAssumption DEF Joined
<1> HIDE DEF j
<1>5. PICK k \in Switch!SessionSlots, c \in Switch!ClientSlots :
        Switch!Rebind(j.id[1], j.id[2], j.addr, k, c)
  BY <1>3 DEF RelayJoins
<1>6. session[k] \in {j.id[1], None}
  <2>1. CASE Switch!SlotsOf(j.id[1]) # {}
    BY <1>5, <2>1 DEF Switch!Rebind, Switch!Finds, Switch!IsFirst, Switch!SlotsOf
  <2>2. CASE Switch!SlotsOf(j.id[1]) = {}
    BY <1>5, <2>2 DEF Switch!Rebind, Switch!Finds, Switch!IsFirst, Switch!SlotsOf
  <2> QED
    BY <2>1, <2>2
<1>7. clients[k][c] = None \/ clients[k][c].player = j.id[2] \/ clients[k][c].addr = j.addr
  <2> DEFINE cl == clients[k]
  <2>1. Switch!Binds(cl, j.id[2], j.addr, c)
    BY <1>5 DEF Switch!Rebind
  <2>2. \/ c \in Switch!WithPlayer(cl, j.id[2])
        \/ c \in Switch!WithAddr(cl, j.addr)
        \/ c \notin Switch!InUse(cl)
    <3>1. CASE Switch!WithPlayer(cl, j.id[2]) # {}
      BY <2>1, <3>1 DEF Switch!Binds, Switch!IsFirst
    <3>2. CASE Switch!WithPlayer(cl, j.id[2]) = {} /\ Switch!WithAddr(cl, j.addr) # {}
      BY <2>1, <3>2 DEF Switch!Binds, Switch!IsFirst
    <3>3. CASE Switch!WithPlayer(cl, j.id[2]) = {} /\ Switch!WithAddr(cl, j.addr) = {}
      BY <2>1, <3>3 DEF Switch!Binds, Switch!IsFirst
    <3> QED
      BY <3>1, <3>2, <3>3
  <2> QED
    BY <2>2 DEF Switch!WithPlayer, Switch!WithAddr, Switch!InUse
<1>8. /\ session' = [session EXCEPT ![k] = j.id[1]]
      /\ clients' = [clients EXCEPT ![k] = [@ EXCEPT ![c] = [player |-> j.id[2], addr |-> j.addr]]]
  BY <1>5 DEF Switch!Rebind, Switch!Written
<1> QED
  BY <1>1, <1>2, <1>4, <1>6, <1>7, <1>8 DEF j

\* The relay's tables hold players and addresses.
LEMMA TableStep == NetInv /\ [Next]_vars => TableOk'
<1> SUFFICES ASSUME NetInv, [Next]_vars PROVE TableOk'
  OBVIOUS
<1> USE DEF NetInv
<1>1. ASSUME NEW p \in net, NEW copies, RelayJoins(p, copies) PROVE TableOk'
  <2>1. PICK k \in Switch!SessionSlots, c \in Switch!ClientSlots :
          /\ session' = [session EXCEPT ![k] = joins[p.nth].id[1]]
          /\ clients' = [clients EXCEPT ![k] = [@ EXCEPT ![c] =
                           [player |-> joins[p.nth].id[2], addr |-> joins[p.nth].addr]]]
    BY <1>1, JoinWrites
  <2>2. PICK e : e = [player |-> joins[p.nth].id[2], addr |-> joins[p.nth].addr]
    OBVIOUS
  <2>3. e \in [player : Words, addr : Addrs]
    BY <1>1, <2>2, JoinWrites DEF Joined
  <2>4. clients' = [clients EXCEPT ![k] = [@ EXCEPT ![c] = e]]
    BY <2>1, <2>2
  <2> HIDE DEF NetInv
  <2>5. TableOk
    BY DEF NetInv
  <2> QED
    BY <2>1, <2>3, <2>4, <2>5 DEF TableOk
<1>2. ASSUME UNCHANGED relayVars PROVE TableOk'
  BY <1>2 DEF relayVars, TableOk
<1>3. ASSUME NEW h \in Hosts, HostStep(h) PROVE UNCHANGED relayVars
  BY <1>3 DEF HostStep, Connect, Disconnect, Speak, Open, Close, PumpSends, PumpLoses,
              PumpTakes, HostTakes, engineLeaves, transportLeaves
<1>4. ASSUME NEW p, NEW copies, RelayForwards(p, copies) \/ RelaySkips(p) \/ NetworkStep
      PROVE  UNCHANGED relayVars
  BY <1>4 DEF NetworkStep, RelayForwards, RelaySkips, Lose, Stray
<1>5. CASE UNCHANGED vars
  BY <1>2, <1>5 DEF vars
<1>6. ASSUME RelayStep PROVE TableOk'
  BY <1>1, <1>2, <1>4, <1>6 DEF RelayStep
<1> QED
  BY <1>2, <1>3, <1>4, <1>5, <1>6 DEF Next

\* A datagram stays right when more is said, more JOINs are sent and more hosts move.
LEMMA DatagramStays ==
  ASSUME NEW p, NEW S, NEW js, NEW ad, NEW mv, DatagramOk(p, S, js, ad, mv),
         NEW T, S \subseteq T, NEW ks, NEW be, NEW nv, mv \subseteq nv,
         Len(js) \in Nat, Len(ks) \in Nat, Len(js) <= Len(ks),
         \A n \in 1 .. Len(js) : ks[n] = js[n],
         \A g \in Hosts \ nv : ad[g] # None => be[g] = ad[g]
  PROVE  DatagramOk(p, T, ks, be, nv)
<1>1. p.to = RelayAddr /\ JoinOk(p.data) =>
        /\ p.nth \in 1 .. Len(ks)
        /\ ks[p.nth] = [by |-> p.by, addr |-> p.from,
                        id |-> <<JoinOf(p.data).session, JoinOf(p.data).player>>]
  BY DEF DatagramOk
<1>2. p.by \in Hosts \ nv =>
        /\ be[p.by] # None /\ be[p.by] # p.to
        /\ p.to = RelayAddr => p.from = be[p.by]
  BY DEF DatagramOk
<1> QED
  BY <1>1, <1>2 DEF DatagramOk

\* What a pump sends was said, or is the JOIN counted last (rv_transport_udp.c:67-85).
LEMMA SentOk ==
  ASSUME NetInv, NEW h \in Hosts, PumpSends(h),
         NEW p, p = [from |-> addr[h], to |-> RelayAddr, data |-> Built(Head(host[h].outq)),
                     by |-> h, nth |-> IF IsJoin(h) THEN Len(joins') ELSE 0]
  PROVE  DatagramOk(p, said, joins', addr, moved)
<1> USE DEF NetInv
<1>1. addr[h] # None /\ addr[h] \in AddrsOf[h] /\ addr[h] # RelayAddr
  BY NetworkAssumption DEF PumpSends, PumpTakes, PlacesOk
<1>2. Head(host[h].outq) \in Sendable(h, said)
  BY PolledOk DEF PumpSends, PumpTakes, HostsOk
<1> DEFINE q == Head(host[h].outq)
<1>3. /\ p.from = addr[h] /\ p.to = RelayAddr /\ p.data = Built(q) /\ p.by = h
      /\ p.nth = IF IsJoin(h) THEN Len(joins') ELSE 0
      /\ p = [from |-> p.from, to |-> p.to, data |-> p.data, by |-> p.by, nth |-> p.nth]
  OBVIOUS
<1>4. CASE IsJoin(h)
  <2>1. /\ q.id \in Identities /\ Len(joins') \in 1 .. Len(joins')
        /\ joins'[Len(joins')] = [by |-> h, id |-> q.id, addr |-> addr[h]]
    BY <1>4, SendJoins
  <2>2. p.data = BuildJoin(q.id[1], q.id[2])
    BY <1>3, <1>4 DEF Built, IsJoin
  <2>3. ~VoiceOk(p.data) /\ JoinOf(p.data) = [session |-> q.id[1], player |-> q.id[2]]
    BY <2>1, <2>2, JoinParsed
  <2>4. <<JoinOf(p.data).session, JoinOf(p.data).player>> = q.id
    BY <2>1, <2>3, NetworkAssumption
  <2>5. joins'[p.nth] = [by |-> p.by, addr |-> p.from,
                         id |-> <<JoinOf(p.data).session, JoinOf(p.data).player>>]
    BY <1>3, <1>4, <2>1, <2>4
  <2>6. p.nth \in 1 .. Len(joins')
    BY <1>3, <1>4, <2>1
  <2> QED
    BY <1>1, <1>3, <2>3, <2>5, <2>6 DEF DatagramOk
<1>5. CASE ~IsJoin(h)
  <2>1. q \in Voices /\ [by |-> h, voice |-> MeantBy(q)] \in said
    BY <1>2, <1>5 DEF Sendable, IsJoin
  <2>2. q.player \in Words /\ q.seq \in Words /\ q.flags \in BOOLEAN \X Nat \X BOOLEAN
    <3>1. q.player \in Words /\ q.seq \in 0 .. SeqMod - 1 /\ q.flags \in LocalStates
      BY <2>1 DEF Voices
    <3>2. PICK w \in Int : Words = 0 .. w
      <4>1. Bytes \in Int
        BY DEF Bytes
      <4>2. Bytes * Bytes - 1 \in Int
        BY <4>1
      <4> QED
        BY <4>2 DEF Words
    <3>3. q.seq \in Words
      BY <3>1, <3>2, NetworkAssumption
    <3> QED
      BY <3>1, <3>3, NetworkAssumption
  <2>3. p.data = BuildVoice(q.player, q.seq, FlagsMake(q.flags[1], q.flags[2], q.flags[3]),
                            "opus", 60)
    BY <1>3, <1>5 DEF Built, IsJoin
  <2>4. ~JoinOk(p.data) /\ VoiceOf(p.data) = MeantBy(q)
    BY <2>2, <2>3, VoiceParsed DEF MeantBy
  <2> QED
    BY <1>1, <1>3, <2>1, <2>4 DEF DatagramOk
<1> QED
  BY <1>4, <1>5

\* A datagram of another program is neither voice nor a JOIN.
LEMMA StrayOk ==
  ASSUME NEW d \in Strays, NEW to,
         NEW p, p = [from |-> Elsewhere, to |-> to, data |-> d, by |-> None, nth |-> 0],
         NEW S, NEW js, NEW ad, NEW mv
  PROVE  DatagramOk(p, S, js, ad, mv)
<1>1. ~HeaderOk(d)
  BY NetworkAssumption DEF HeaderOk
<1>2. ~VoiceOk(d) /\ ~JoinOk(d)
  BY <1>1 DEF VoiceOk, JoinOk
<1>3. None \notin Hosts
  BY NetworkAssumption
<1>4. /\ p.to = to /\ p.data = d /\ p.by = None
      /\ p = [from |-> p.from, to |-> p.to, data |-> p.data, by |-> p.by, nth |-> p.nth]
  OBVIOUS
<1> QED
  BY <1>1, <1>2, <1>3, <1>4 DEF DatagramOk

\* What the relay sends on goes to other addresses than it came from
\* (rv_relay.c:79-83).
LEMMA ForwardedOk ==
  ASSUME NetInv, NEW p \in net, p.to = RelayAddr, NEW k \in Switch!SlotsOf(Routed),
         NEW c \in Switch!Targets(k, p.from), IsVoice(p.data)
  PROVE  DatagramOk(ForwardedTo(clients[k][c].addr, p), said, joins, addr, moved)
<1> USE DEF NetInv
<1>1. DatagramOk(p, said, joins, addr, moved)
  BY DEF NetOk
<1>2. k \in Switch!SessionSlots /\ c \in Switch!ClientSlots /\ clients[k][c] # None
      /\ clients[k][c].addr # p.from
  BY DEF Switch!SlotsOf, Switch!Targets, Switch!InUse, Switch!WithAddr
<1>3. clients[k][c] \in [player : Words, addr : Addrs]
  BY <1>2 DEF TableOk
<1> DEFINE a == clients[k][c].addr
<1>4. a \in Addrs /\ a # RelayAddr /\ a # p.from
  BY <1>2, <1>3, NetworkAssumption
<1> HIDE DEF a
<1>5. p = [from |-> p.from, to |-> p.to, data |-> p.data, by |-> p.by, nth |-> p.nth]
  BY <1>1 DEF DatagramOk
<1>6. PICK r : r = [p EXCEPT !.from = RelayAddr]
  OBVIOUS
<1>7. r = [from |-> RelayAddr, to |-> p.to, data |-> p.data, by |-> p.by, nth |-> p.nth]
  BY <1>5, <1>6
<1>8. PICK q : q = [r EXCEPT !.to = a]
  OBVIOUS
<1>9. q = [from |-> RelayAddr, to |-> a, data |-> p.data, by |-> p.by, nth |-> p.nth]
  BY <1>7, <1>8
<1>10. ForwardedTo(a, p) = q
  BY <1>6, <1>8 DEF ForwardedTo
<1>11. /\ q.to = a /\ q.data = p.data /\ q.by = p.by
       /\ q = [from |-> q.from, to |-> q.to, data |-> q.data, by |-> q.by, nth |-> q.nth]
  BY <1>9
<1>12. DatagramOk(q, said, joins, addr, moved)
  BY <1>1, <1>4, <1>11 DEF DatagramOk
<1> QED
  BY <1>10, <1>12 DEF a

\* Every datagram under way stays right, and a new one is.
LEMMA NetStep == NetInv /\ [Next]_vars => NetOk'
<1> SUFFICES ASSUME NetInv, [Next]_vars, NEW q \in net'
             PROVE  DatagramOk(q, said', joins', addr', moved')
  BY DEF NetOk
<1>1. /\ said \subseteq said' /\ moved \subseteq moved'
      /\ \A g \in Hosts \ moved' : addr[g] # None => addr'[g] = addr[g]
      /\ Len(joins) \in Nat /\ Len(joins') \in Nat /\ Len(joins) <= Len(joins')
      /\ \A n \in 1 .. Len(joins) : joins'[n] = joins[n]
  BY HostsStep, PlacesStep, HistoryStep, LenProperties DEF HistoryOk
<1>2. ASSUME DatagramOk(q, said, joins, addr, moved)
      PROVE  DatagramOk(q, said', joins', addr', moved')
  BY <1>1, <1>2, DatagramStays
<1>3. CASE q \in net
  BY <1>2, <1>3 DEF NetInv, NetOk
<1>4. ASSUME NEW h \in Hosts, PumpSends(h), q \notin net
      PROVE  DatagramOk(q, said', joins', addr', moved')
  <2>1. q = [from |-> addr[h], to |-> RelayAddr, data |-> Built(Head(host[h].outq)),
             by |-> h, nth |-> IF IsJoin(h) THEN Len(joins') ELSE 0]
    BY <1>4 DEF PumpSends
  <2>2. DatagramOk(q, said, joins', addr, moved)
    BY <1>4, <2>1, SentOk
  <2>3. UNCHANGED <<said, addr, moved>>
    BY <1>4 DEF PumpSends, PumpTakes, transportLeaves
  <2> QED
    BY <2>2, <2>3
<1>5. ASSUME NEW d \in Strays, NEW to, Stray(d, to), q \notin net
      PROVE  DatagramOk(q, said', joins', addr', moved')
  <2>1. q = [from |-> Elsewhere, to |-> to, data |-> d, by |-> None, nth |-> 0]
    BY <1>5 DEF Stray
  <2> QED
    BY <2>1, StrayOk
<1>6. ASSUME NEW p \in net, NEW copies \in SUBSET {p}, RelayForwards(p, copies), q \notin net
      PROVE  DatagramOk(q, said', joins', addr', moved')
  <2>1. PICK k \in Switch!SlotsOf(Routed) : \E c \in Switch!Targets(k, p.from) :
          q = ForwardedTo(clients[k][c].addr, p)
    BY <1>6 DEF RelayForwards
  <2>2. PICK c \in Switch!Targets(k, p.from) : q = ForwardedTo(clients[k][c].addr, p)
    BY <2>1
  <2> QED
    BY <1>2, <1>6, <2>2, ForwardedOk DEF RelayForwards
<1>7. ASSUME NEW h \in Hosts, NEW id, NEW f, NEW a, NEW p,
             \/ Connect(h, id) \/ Disconnect(h) \/ Speak(h, f) \/ Open(h, a) \/ Close(h)
             \/ PumpLoses(h) \/ HostTakes(h, p)
      PROVE  q \in net
  BY <1>7 DEF Connect, Disconnect, Speak, Open, Close, PumpLoses, HostTakes,
              engineLeaves, transportLeaves
<1>8. ASSUME NEW p \in net, NEW copies \in SUBSET {p},
             RelayJoins(p, copies) \/ RelaySkips(p) \/ Lose(p)
      PROVE  q \in net
  BY <1>8 DEF RelayJoins, RelaySkips, Lose
<1>9. CASE UNCHANGED vars
  BY <1>3, <1>9 DEF vars
<1>10. ASSUME NEW h \in Hosts, HostStep(h)
       PROVE  DatagramOk(q, said', joins', addr', moved')
  BY <1>3, <1>4, <1>7, <1>10 DEF HostStep
<1>11. ASSUME RelayStep \/ NetworkStep
       PROVE  DatagramOk(q, said', joins', addr', moved')
  BY <1>3, <1>5, <1>6, <1>8, <1>11 DEF RelayStep, NetworkStep
<1> QED
  BY <1>9, <1>10, <1>11 DEF Next

\* What a host hears was said, and not by himself unless he has moved.
LEMMA TakenStep == NetInv /\ [Next]_vars => TakenOk'
<1> SUFFICES ASSUME NetInv, [Next]_vars PROVE TakenOk'
  OBVIOUS
<1>1. said \subseteq said' /\ moved \subseteq moved'
  BY HostsStep, PlacesStep
<1>2. ASSUME UNCHANGED taken PROVE TakenOk'
  BY <1>1, <1>2 DEF NetInv, TakenOk, HeardWasSaid, NoEcho
<1>3. ASSUME NEW h \in Hosts, NEW p \in net, HostTakes(h, p) PROVE TakenOk'
  <2>1. CASE ~Understands(p.data)
    BY <1>2, <1>3, <2>1 DEF HostTakes
  <2>2. CASE Understands(p.data)
    <3>1. DatagramOk(p, said, joins, addr, moved) /\ p.to = addr[h] /\ VoiceOk(p.data)
      BY <1>3, <2>2 DEF NetInv, NetOk, HostTakes, Understands
    <3> DEFINE v == [by |-> p.by, voice |-> VoiceOf(p.data)]
    <3>2. v \in said
      BY <3>1 DEF DatagramOk
    <3>3. h \notin moved => v.by # h
      BY <3>1 DEF DatagramOk
    <3>4. taken' = [taken EXCEPT ![h] = taken[h] \cup {v}] /\ UNCHANGED <<said, moved>>
      BY <1>3, <2>2 DEF HostTakes
    <3> HIDE DEF v
    <3>5. /\ taken = [g \in Hosts |-> taken[g]]
          /\ \A g \in Hosts : taken[g] \subseteq said
          /\ \A g \in Hosts \ moved : \A w \in taken[g] : w.by # g
      BY DEF NetInv, TakenOk, HeardWasSaid, NoEcho
    <3>6. /\ taken'[h] = taken[h] \cup {v}
          /\ \A g \in Hosts \ {h} : taken'[g] = taken[g]
          /\ taken' = [g \in Hosts |-> taken'[g]]
      BY <3>4, <3>5
    <3> QED
      BY <3>2, <3>3, <3>4, <3>5, <3>6 DEF TakenOk, HeardWasSaid, NoEcho
  <2> QED
    BY <2>1, <2>2
<1>4. ASSUME NEW h \in Hosts, NEW id, NEW f, NEW a,
             \/ Connect(h, id) \/ Disconnect(h) \/ Speak(h, f) \/ Open(h, a) \/ Close(h)
             \/ PumpSends(h) \/ PumpLoses(h)
      PROVE  UNCHANGED taken
  BY <1>4 DEF Connect, Disconnect, Speak, Open, Close, PumpSends, PumpLoses, PumpTakes,
              engineLeaves, transportLeaves
<1>5. ASSUME RelayStep \/ NetworkStep PROVE UNCHANGED taken
  BY <1>5 DEF RelayStep, NetworkStep, RelayJoins, RelayForwards, RelaySkips, relayLeaves,
              Lose, Stray
<1>6. CASE UNCHANGED vars
  BY <1>2, <1>6 DEF vars
<1>7. ASSUME NEW h \in Hosts, HostStep(h) PROVE TakenOk'
  BY <1>2, <1>3, <1>4, <1>7 DEF HostStep
<1> QED
  BY <1>2, <1>5, <1>6, <1>7 DEF Next

\* The relay's taking a JOIN that none it has taken is younger than.
LEMMA JoinBinds ==
  ASSUME NetInv, NEW p \in net, NEW copies, RelayJoins(p, copies), ~overtaken',
         NEW n \in accepted',
         \A m \in n + 1 .. Len(joins) : joins[m].by # joins[n].by /\ joins[m].id # joins[n].id
  PROVE  Bound(joins[n].id, joins[n].addr)'
<1> USE DEF NetInv
<1> DEFINE m == p.nth
<1>1. PICK k \in Switch!SessionSlots, c \in Switch!ClientSlots :
        /\ session[k] \in {joins[m].id[1], None}
        /\ \/ clients[k][c] = None
           \/ clients[k][c].player = joins[m].id[2]
           \/ clients[k][c].addr = joins[m].addr
        /\ session' = [session EXCEPT ![k] = joins[m].id[1]]
        /\ clients' = [clients EXCEPT ![k] = [@ EXCEPT ![c] =
                         [player |-> joins[m].id[2], addr |-> joins[m].addr]]]
  BY JoinWrites
<1>2. m \in 1 .. Len(joins) /\ joins[m] \in Joined
  BY JoinWrites
<1>3. ~overtaken /\ (\A i \in accepted : ~(i > m)) /\ accepted' = accepted \cup {m} /\ joins' = joins
  BY DEF RelayJoins, relayLeaves
<1> HIDE DEF m
<1>4. /\ session'[k] = joins[m].id[1] /\ \A l \in Switch!SessionSlots \ {k} : session'[l] = session[l]
      /\ clients'[k][c] = [player |-> joins[m].id[2], addr |-> joins[m].addr]
      /\ \A l \in Switch!SessionSlots, d \in Switch!ClientSlots :
           l # k \/ d # c => clients'[l][d] = clients[l][d]
  BY <1>1 DEF TableOk
<1>5. CASE n = m
  <2>1. k \in Switch!SlotsOf(joins[n].id[1])'
    BY <1>3, <1>4, <1>5 DEF Switch!SlotsOf
  <2> QED
    BY <1>3, <1>4, <1>5, <2>1 DEF Bound
<1>6. CASE n # m
  <2>1. n \in accepted /\ n \in 1 .. Len(joins) /\ Len(joins) \in Nat
    BY <1>3, <1>6, LenProperties DEF HistoryOk
  <2>2. m \in n + 1 .. Len(joins)
    BY <1>2, <1>3, <1>6, <2>1
  <2>3. joins[m].by # joins[n].by /\ joins[m].id # joins[n].id
    BY <2>2
  <2>4. joins[n] \in Joined
    BY <2>1, ElementOfSeq DEF HistoryOk
  <2>5. joins[n].addr \in AddrsOf[joins[n].by] /\ joins[m].addr \in AddrsOf[joins[m].by]
    BY <1>2, <2>1 DEF HistoryOk
  <2>6. joins[m].addr # joins[n].addr
    BY <1>2, <2>3, <2>4, <2>5, NetworkAssumption DEF Joined
  <2>7. joins[m].id[1] # joins[n].id[1] \/ joins[m].id[2] # joins[n].id[2]
    <3>1. joins[m].id \in Nat \X Words /\ joins[n].id \in Nat \X Words
      BY <1>2, <2>4, NetworkAssumption DEF Joined
    <3> QED
      BY <2>3, <3>1
  <2>8. Bound(joins[n].id, joins[n].addr)
    BY <1>3, <2>1 DEF JoinedIsBound
  <2>9. PICK l \in Switch!SessionSlots, d \in Switch!ClientSlots :
          /\ session[l] = joins[n].id[1]
          /\ clients[l][d] = [player |-> joins[n].id[2], addr |-> joins[n].addr]
    BY <2>8 DEF Bound, Switch!SlotsOf
  <2>10. joins[n].id[1] # None /\ [player |-> joins[n].id[2], addr |-> joins[n].addr] # None
    <3>1. joins[n].id \in Identities /\ joins[n].id[2] \in Words /\ joins[n].addr \in Addrs
      BY <2>4, NetworkAssumption DEF Joined
    <3> QED
      BY <3>1, NetworkAssumption
  <2>11. session'[l] = joins[n].id[1]
    BY <1>1, <1>4, <2>9, <2>10
  <2>12. l # k \/ d # c
    <3>1. ASSUME l = k, d = c PROVE FALSE
      <4>1. clients[k][c].player = joins[n].id[2] /\ clients[k][c].addr = joins[n].addr
            /\ clients[k][c] # None
        BY <2>9, <2>10, <3>1
      <4>2. session[k] = joins[n].id[1] /\ session[k] = joins[m].id[1]
        BY <1>1, <2>9, <2>10, <3>1
      <4> QED
        BY <1>1, <2>6, <2>7, <4>1, <4>2
    <3> QED
      BY <3>1
  <2>13. clients'[l][d] = [player |-> joins[n].id[2], addr |-> joins[n].addr]
    BY <1>4, <2>9, <2>12
  <2>14. l \in Switch!SlotsOf(joins[n].id[1])'
    BY <1>3, <2>11 DEF Switch!SlotsOf
  <2> QED
    BY <1>3, <2>13, <2>14 DEF Bound
<1> QED
  BY <1>5, <1>6

\* Who is bound stays so, as long as no JOIN is overtaken (rv_relay.c:31-60).
LEMMA BoundStep == NetInv /\ [Next]_vars => JoinedIsBound'
<1> SUFFICES ASSUME NetInv, [Next]_vars, ~overtaken', NEW n \in accepted',
                    \A m \in n + 1 .. Len(joins') : joins'[m].by # joins'[n].by
                                                    /\ joins'[m].id # joins'[n].id
             PROVE  Bound(joins[n].id, joins[n].addr)'
  BY DEF JoinedIsBound
<1>1. /\ Len(joins) \in Nat /\ Len(joins') \in Nat /\ Len(joins) <= Len(joins')
      /\ \A m \in 1 .. Len(joins) : joins'[m] = joins[m]
      /\ accepted \subseteq 1 .. Len(joins)
  BY HistoryStep, LenProperties DEF NetInv, HistoryOk
<1>2. ASSUME UNCHANGED <<accepted, overtaken, relayVars>>
      PROVE  Bound(joins[n].id, joins[n].addr)'
  <2>1. n \in accepted /\ n \in 1 .. Len(joins) /\ joins'[n] = joins[n] /\ ~overtaken
    BY <1>1, <1>2
  <2>2. \A m \in n + 1 .. Len(joins) : joins[m].by # joins[n].by /\ joins[m].id # joins[n].id
    <3>1. ASSUME NEW m \in n + 1 .. Len(joins)
          PROVE  m \in 1 .. Len(joins) /\ m \in n + 1 .. Len(joins')
      BY <1>1, <2>1
    <3> QED
      BY <1>1, <2>1, <3>1
  <2>3. Bound(joins[n].id, joins[n].addr)
    BY <2>1, <2>2 DEF NetInv, JoinedIsBound
  <2> QED
    BY <1>2, <2>1, <2>3 DEF Bound, Switch!SlotsOf, relayVars
<1>3. ASSUME NEW p \in net, NEW copies, RelayJoins(p, copies)
      PROVE  Bound(joins[n].id, joins[n].addr)'
  <2>1. joins' = joins
    BY <1>3 DEF RelayJoins, relayLeaves
  <2>2. \A m \in n + 1 .. Len(joins) : joins[m].by # joins[n].by /\ joins[m].id # joins[n].id
    BY <2>1
  <2>3. Bound(joins[n].id, joins[n].addr)'
    BY <1>3, <2>2, JoinBinds
  <2> QED
    BY <2>1, <2>3 DEF Bound
<1>4. ASSUME NEW h \in Hosts, HostStep(h)
      PROVE  UNCHANGED <<accepted, overtaken, relayVars>>
  BY <1>4 DEF HostStep, Connect, Disconnect, Speak, Open, Close, PumpSends, PumpLoses,
              PumpTakes, HostTakes, engineLeaves, transportLeaves, joinHistory
<1>5. ASSUME NEW p, NEW copies, RelayForwards(p, copies) \/ RelaySkips(p) \/ NetworkStep
      PROVE  UNCHANGED <<accepted, overtaken, relayVars>>
  BY <1>5 DEF NetworkStep, RelayForwards, RelaySkips, Lose, Stray, joinHistory
<1>6. CASE UNCHANGED vars
  BY <1>2, <1>6 DEF vars, joinHistory
<1>7. ASSUME RelayStep PROVE Bound(joins[n].id, joins[n].addr)'
  BY <1>2, <1>3, <1>5, <1>7 DEF RelayStep
<1> QED
  BY <1>2, <1>4, <1>5, <1>6, <1>7 DEF Next

--------------------------------------------------------------------------------
(* What follows.                                                            *)

\* The parts of the invariant hold throughout.
LEMMA NetInvariant == Spec => []NetInv
<1>1. NetInv /\ [Next]_vars => NetInv'
  BY HostsStep, PlacesStep, HistoryStep, TableStep, NetStep, TakenStep, BoundStep DEF NetInv
<1> QED
  BY <1>1, NetInit, PTL DEF Spec

\* Whatever an engine takes in as voice was said, as it was meant, however the
\* network loses, repeats and reorders and whoever else sends (rv_netproto.h:24-34,
\* rv_netproto.c:53-109).
THEOREM VoiceIsAuthentic == Spec => []HeardWasSaid
<1>1. NetInv => HeardWasSaid
  BY DEF NetInv, TakenOk
<1> QED
  BY <1>1, NetInvariant, PTL

\* A host that has kept its address never hears itself (rv_relay.c:81).
THEOREM NobodyHearsHimself == Spec => []NoEcho
<1>1. NetInv => NoEcho
  BY DEF NetInv, TakenOk
<1> QED
  BY <1>1, NetInvariant, PTL

\* Who has joined and asked for nothing since is bound where he is, while no JOIN
\* is overtaken (rv_relay.c:31-60).
THEOREM JoinersStayBound == Spec => []JoinedIsBound
<1>1. NetInv => JoinedIsBound
  BY DEF NetInv
<1> QED
  BY <1>1, NetInvariant, PTL
================================================================================
