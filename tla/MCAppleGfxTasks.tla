-------------------------- MODULE MCAppleGfxTasks --------------------------
(* AppleGfxTasks for TLC: range lists of one and two ranges.                *)
EXTENDS AppleGfxTasks, TLC

MCRange == {r \in [region : Region \cup {NoRegion}, length : 1..2] :
               r.region = NoRegion => r.length = 1}

MCRangeLists == {<<a>> : a \in MCRange} \cup {<<a, b>> : a, b \in MCRange}

Symmetry == Permutations(Thread) \cup Permutations(Region)
=============================================================================
