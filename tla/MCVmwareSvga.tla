---------------------------- MODULE MCVmwareSvga ----------------------------
(* VmwareSvga for TLC: VGA mode shows one tile.                            *)
EXTENDS VmwareSvga

MCVgaSize == <<1, 1>>
=============================================================================
