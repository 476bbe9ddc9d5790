-------------------------- MODULE MCMagicKeyboard --------------------------
(* MagicKeyboard for TLC: four keys, two of which share a usage (as        *)
(* ASTERISK and KP_MULTIPLY do), a modifier, and three slots.              *)
EXTENDS MagicKeyboard

CONSTANTS a, b, c, star, kp_star, shift

MCKey == {a, b, c, star, kp_star, shift}
MCUsage == [k \in MCKey |-> IF k = kp_star THEN star ELSE k]
=============================================================================
