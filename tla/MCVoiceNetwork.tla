---------------------------- MODULE MCVoiceNetwork ----------------------------
(* Two hosts, one of which may move; two identities they may both connect     *)
(* with; voice on a channel beyond 15; a datagram of another program.         *)
EXTENDS VoiceNetwork

CONSTANTS h1, h2, a1, a2, a3

MCAddrsOf == [h \in Hosts |-> IF h = h1 THEN {a1, a3} ELSE {a2}]
MCIdentities == {<<1, 1>>, <<1, 300>>}
MCLocalStates == {<<TRUE, 21, TRUE>>}
MCVoice == BuildVoice(1, 0, 0, "opus", 60)
MCStrays == {[MCVoice EXCEPT !.magic = "other"]}
===============================================================================
