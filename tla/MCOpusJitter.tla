---------------------------- MODULE MCOpusJitter ----------------------------
(* Three slots and nine sequence numbers; the stream is met at its start,    *)
(* and just before the sequence numbers wrap.                              *)
EXTENDS OpusJitter

MCStarts == {0, 7}
==============================================================================
