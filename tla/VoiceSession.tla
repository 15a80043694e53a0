------------------------------ MODULE VoiceSession ------------------------------
(***************************************************************************)
(* What one engine promises a transport: an identity, and a queue of        *)
(* packets to send in which a JOIN announces each connection and voice is   *)
(* numbered.  VoiceEngine implements it; VoiceNetwork is made of it.        *)
(*                                                                         *)
(* Any voice may be said at any time: frames captured while connected may   *)
(* still be sent later.                                                    *)
(***************************************************************************)
EXTENDS Integers, Sequences

CONSTANTS Identities,   \* <<session_id, player_id>> pairs to connect with
          Flags,        \* what tells voice packets apart: the flags the local
                        \* state puts on them, or their samples
          OutCap,       \* RV_MAX_OUT_PKTS
          SeqMod        \* number of sequence numbers

VARIABLE s

NoOne == <<0, 0>>

Fresh == [connected |-> FALSE, who |-> NoOne, outq |-> <<>>, seq |-> 0]

HasRoom(x) == Len(x.outq) < OutCap
Queued(x, packet) == [x EXCEPT !.outq = Append(@, packet)]

JoinPacket(id) == [type |-> "join", id |-> id]
VoicePacket(x, flags) ==
  [type |-> "voice", player |-> x.who[2], seq |-> x.seq, flags |-> flags]

\* A connect with a full queue replaces the identity and nothing else.
\* Mutant: the JOIN is not queued.
Mut_Connected(x, id) == [x EXCEPT !.who = id, !.connected = TRUE]
Connected(x, id) ==
  IF HasRoom(x) THEN Queued([x EXCEPT !.who = id, !.connected = TRUE], JoinPacket(id))
  ELSE [x EXCEPT !.who = id]

Disconnected(x) == [x EXCEPT !.connected = FALSE]

\* A number is used up whether or not there is room for the packet.
Spoken(x, flags) ==
  [IF HasRoom(x) THEN Queued(x, VoicePacket(x, flags)) ELSE x
   EXCEPT !.seq = (@ + 1) % SeqMod]

Polled(x) == [x EXCEPT !.outq = Tail(@)]

Init == s = Fresh

Next == \/ \E id \in Identities : s' = Connected(s, id)
        \/ s' = Disconnected(s)
        \/ \E f \in Flags : s' = Spoken(s, f)
        \/ s.outq # <<>> /\ s' = Polled(s)

Spec == Init /\ [][Next]_s
================================================================================
