--------------------------- MODULE MCMightyMouse ---------------------------
(* MightyMouse for TLC: the screen is as wide as the ring can hold, and     *)
(* more motion may add up before a sync than the ring can hold.             *)
EXTENDS MightyMouse

MCRel == {-1, 3}
=============================================================================
