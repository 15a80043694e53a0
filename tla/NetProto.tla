-------------------------------- MODULE NetProto --------------------------------
(***************************************************************************)
(* The wire protocol (rv_netproto.h, rv_netproto.c): what the builders put  *)
(* into a datagram and which datagrams the parsers take.  A datagram is a   *)
(* record of its fields as they travel, 16-bit numbers with their bytes     *)
(* swapped.  Session ids and what a voice packet brings are left abstract.  *)
(***************************************************************************)
EXTENDS Integers

RV_MAGIC == "RVVC"
RV_PROTO_VER == 1
RV_PKT_JOIN == 1
RV_PKT_VOICE == 2
HeaderSize == 14   \* sizeof(rv_pkt_hdr_t)
JoinSize == 12     \* sizeof(rv_join_payload_t)

Bytes == 256                     \* values of a byte
Words == 0 .. Bytes * Bytes - 1   \* what has 16 bits

\* rv_bswap16, which is both rv_htons16 and rv_ntohs16.
Swap16(x) == (x % Bytes) * Bytes + x \div Bytes

--------------------------------------------------------------------------------
(* The flags byte: bit 0 radio, bits 1 to 4 the channel, bit 5 the key.      *)

Bit(b) == IF b THEN 1 ELSE 0

FlagsMake(radio, channel, ptt) == Bit(radio) + 2 * (channel % 16) + 32 * Bit(ptt)

\* Mutant: the channel is not masked, and the key shows in it.
Mut_FlagsChannel(f) == f \div 2
FlagsChannel(f) == (f \div 2) % 16
FlagsIsRadio(f) == f % 2 = 1
FlagsPtt(f) == (f \div 32) % 2 = 1

--------------------------------------------------------------------------------
(* Building.                                                                 *)

\* rv_hdr_init, and the size of the datagram it heads.
Datagram(type, speaker, seq, payloadLen, flags, payload) ==
  [magic |-> RV_MAGIC, version |-> RV_PROTO_VER, type |-> type, flags |-> flags,
   speaker |-> Swap16(speaker), seq |-> Swap16(seq),
   payloadLen |-> Swap16(payloadLen), payload |-> payload,
   size |-> HeaderSize + payloadLen]

BuildJoin(session, player) ==
  Datagram(RV_PKT_JOIN, 0, 0, JoinSize, 0,
           [session |-> session, player |-> Swap16(player)])

BuildVoice(speaker, seq, flags, payload, payloadLen) ==
  Datagram(RV_PKT_VOICE, speaker, seq, payloadLen, flags, payload)

--------------------------------------------------------------------------------
(* Parsing.                                                                  *)

\* rv_parse_packet_header returns 0.
\* Mutant: whatever comes is taken for ours.
Mut_HeaderAnyMagic(d) ==
  /\ d.size >= HeaderSize /\ d.version = RV_PROTO_VER
  /\ d.payloadLen # 0 /\ d.size >= HeaderSize + Swap16(d.payloadLen)
HeaderOk(d) ==
  /\ d.size >= HeaderSize
  /\ d.magic = RV_MAGIC /\ d.version = RV_PROTO_VER
  /\ d.payloadLen # 0 /\ d.size >= HeaderSize + Swap16(d.payloadLen)

\* rv_parse_join_payload returns 0, and what it gives.
JoinOk(d) == HeaderOk(d) /\ d.type = RV_PKT_JOIN /\ Swap16(d.payloadLen) = JoinSize
JoinOf(d) == [session |-> d.payload.session, player |-> Swap16(d.payload.player)]

\* rv_parse_voice_packet returns 0, and what it gives.
VoiceOk(d) == HeaderOk(d) /\ d.type = RV_PKT_VOICE
VoiceOf(d) == [speaker |-> Swap16(d.speaker), seq |-> Swap16(d.seq),
               radio |-> FlagsIsRadio(d.flags), channel |-> FlagsChannel(d.flags),
               ptt |-> FlagsPtt(d.flags)]
================================================================================
