----------------------------- MODULE MCSvgaFifo -----------------------------
(* SvgaFifo for TLC: the guest begins at most MaxSent commands.             *)
EXTENDS SvgaFifo

CONSTANTS update, cursor, blend, MaxSent

\* UPDATE has a fixed part only, DEFINE_CURSOR a fixed part and a bitmap, and
\* SURFACE_ALPHA_BLEND is skipped by its number of arguments.  The real sizes
\* are 5, 8 + n and 1 + 12 words in a ring of 2560 or more.
MCFixed == [c \in Command |-> CASE c = update -> 2 [] c = cursor -> 3 [] c = blend -> 0]
MCArgs == [c \in Command |-> CASE c = update -> 0 [] c = cursor -> 2 [] c = blend -> 2]

ASSUME MCWellSized == blend \notin Command => WellSized

MCBegin(c) == Len(sent) < MaxSent /\ Begin(c)

\* A sparing guest.
MCNext == (\E c \in Command : MCBegin(c)) \/ SparingPut \/ Device

MCSpec == Init /\ [][MCNext]_vars /\ Fairness

\* A guest that fills the ring up to the one word that tells full from empty.
MCFullNext == (\E c \in Command : MCBegin(c)) \/ Put \/ Device

MCFullSpec == Init /\ [][MCFullNext]_vars /\ Fairness
=============================================================================
