---------------------------- MODULE MCUnityLoopback ----------------------------
(* A clip of three samples read two at a time into frames of two.             *)
EXTENDS UnityLoopback
================================================================================
