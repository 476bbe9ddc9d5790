--------------------------- MODULE CommandStream ---------------------------
(***************************************************************************)
(* What a command FIFO promises, whatever its words and pointers are: the  *)
(* commands the guest completes are executed once each, in the order in    *)
(* which they were completed, and all of them in the end.                  *)
(***************************************************************************)
EXTENDS Naturals, Sequences

CONSTANT Command

VARIABLES sent, executed

vars == <<sent, executed>>

Init == sent = <<>> /\ executed = <<>>

Send(c) == sent' = Append(sent, c) /\ UNCHANGED executed

Execute ==
    /\ Len(executed) < Len(sent)
    /\ executed' = Append(executed, sent[Len(executed) + 1])
    /\ UNCHANGED sent

Next == (\E c \in Command : Send(c)) \/ Execute

Spec == Init /\ [][Next]_vars /\ WF_vars(Execute)
=============================================================================
