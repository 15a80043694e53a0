---------------------------- MODULE MCEngineMemory ----------------------------
(* An engine for two players.                                                 *)
EXTENDS EngineMemory
===============================================================================
