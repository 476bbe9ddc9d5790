-------------------------- MODULE MCMagicTrackpad --------------------------
(* MagicTrackpad for TLC: a small sensor, and sequence numbers that wrap.   *)
EXTENDS MagicTrackpad

MCOutMin == -2
=============================================================================
