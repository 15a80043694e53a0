---------------------------- MODULE MCCaptureRing ----------------------------
(* A ring of two slots whose indices wrap after four frames.  Counts has both *)
(* accepted sizes and, on either side, a refused one.                         *)
EXTENDS CaptureRing

MCCounts == 0 .. 3
==============================================================================
