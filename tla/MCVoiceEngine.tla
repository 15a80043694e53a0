---------------------------- MODULE MCVoiceEngine ----------------------------
(* Small instances of VoiceEngine: two identities, every local state, remote *)
(* streams of a few packets, proximity and radio, one of them with a gap.    *)
EXTENDS VoiceEngine

MCIdentities == {<<1, 1>>, <<1, 2>>}
MCOneIdentity == {<<1, 1>>}
MCKeyAndRadio == [ptt : BOOLEAN, radio : BOOLEAN]
MCPackets == {<<1, 0>>, <<1, 2>>, <<2, 0>>}
MCOneStream == {<<1, 0>>, <<1, 1>>}
MCFlagsOf == [n \in 0 .. 2 |-> n % 2]

\* For invariants about sending only: what the steps do to these variables
\* does not depend on the others, so states that differ only there are one.
SendView == <<linkVars, captureVars, sendVars, threadVars>>
==============================================================================
