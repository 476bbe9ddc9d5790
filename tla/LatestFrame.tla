---------------------------- MODULE LatestFrame ----------------------------
(***************************************************************************)
(* What the frame pipeline of apple-gfx promises, seen from outside: the   *)
(* renderer completes frames, the console is given the newest one at some  *)
(* later time, frames in between may be skipped, and the last frame is     *)
(* never forgotten: it is given to the console or has been missed, by a    *)
(* read that failed.                                                       *)
(***************************************************************************)
EXTENDS Naturals

VARIABLES
    newest,   \* number of the last frame the renderer completed
    shown,    \* number of the last frame given to the console
    missed    \* an attempt to read the newest frame has failed

vars == <<newest, shown, missed>>

Init == newest = 0 /\ shown = 0 /\ missed = FALSE

Render == newest' = newest + 1 /\ missed' = FALSE /\ UNCHANGED shown

Show == shown < newest /\ shown' = newest /\ missed' = FALSE /\ UNCHANGED newest

Miss == shown < newest /\ missed' = TRUE /\ UNCHANGED <<newest, shown>>

Next == Render \/ Show \/ Miss

\* A frame that waits is not left waiting.
Attempt == ~missed /\ (Show \/ Miss)

Spec == Init /\ [][Next]_vars /\ WF_vars(Attempt)
=============================================================================
