------------------------------ MODULE SvgaFifo ------------------------------
(***************************************************************************)
(* The command FIFO of the VMware SVGA II device, word by word             *)
(* (src/hw/display/vmware_vga.c: vmsvga_fifo_length, _read_raw, _run).     *)
(*                                                                         *)
(* The ring, NEXT and STOP live in memory shared with the guest, which     *)
(* writes words and publishes NEXT without any lock while vmsvga_fifo_run  *)
(* (under the BQL, from a SYNC or from the display refresh) reads words    *)
(* and publishes STOP after every one of them.  The device samples the     *)
(* number of words once, and takes its reads back when a command turns out *)
(* to be incomplete.                                                       *)
(*                                                                         *)
(* A command is its name; what the switch of vmsvga_fifo_run knows about   *)
(* it is the number of words it charges before it reads the fixed part     *)
(* (Fixed, the command word included; 0 for the commands that go straight   *)
(* to badcmd or are skipped) and the number it charges and reads after     *)
(* that (Args).  MIN, MAX and the pointers are aligned and in range.       *)
(***************************************************************************)
EXTENDS Integers, Sequences

CONSTANTS
    Command,  \* the commands the guest uses
    Fixed,     \* Fixed[c]: words charged together with the command word
    Args,     \* Args[c]: words charged and read after the fixed part
    Ring,     \* words between FIFO_MIN and FIFO_MAX
    Slack,    \* words a sparing guest leaves free, beyond the usual one
    MaxLoop   \* maxloop, 1024 in the code

ASSUME CommandAssumption == Fixed \in [Command -> Nat] /\ Args \in [Command -> Nat]
ASSUME RingAssumption == Ring \in Nat \ {0} /\ Slack \in Nat /\ MaxLoop \in Nat \ {0}

\* The words of a command.
Length(c) == IF Fixed[c] = 0 THEN 1 + Args[c] ELSE Fixed[c] + Args[c]

Word == [cmd : Command, at : Nat]

VARIABLES
    ring,      \* the words of the FIFO, by position from FIFO_MIN
    next,      \* SVGA_FIFO_NEXT: where the guest writes
    stop,      \* SVGA_FIFO_STOP: where the device reads
    writing,   \* the words the guest has yet to write of the command it is writing
    pc,        \* where vmsvga_fifo_run is
    cmd,       \* the command it is working on
    start,     \* cmd_start
    len,       \* words left of those sampled
    left,      \* words to read before the next decision
    maxloop,   \* loop iterations left
    sent,      \* commands the guest has completed
    executed   \* commands the device has finished with

guest == <<ring, next, writing, sent>>
device == <<stop, pc, cmd, start, len, left, maxloop, executed>>
vars == <<ring, next, stop, writing, pc, cmd, start, len, left, maxloop, sent, executed>>

Position == 0 .. Ring - 1
Between(from, to) == (to - from) % Ring
Unread == Between(stop, next)
AdvanceNoWrap(p) == p + 1
Advance(p) == (p + 1) % Ring

TypeOK ==
    /\ ring \in [Position -> Word]
    /\ next \in Position /\ stop \in Position /\ start \in Position
    /\ writing \in Seq(Word)
    /\ pc \in {"idle", "loop", "head", "fixed", "args"}
    /\ cmd \in Command
    /\ len \in Int /\ left \in Nat /\ maxloop \in 0 .. MaxLoop
    /\ sent \in Seq(Command) /\ executed \in Seq(Command)

\* The guest has just set CONFIG_DONE; whatever the ring held before is payload.
Init ==
    /\ ring \in {[p \in Position |-> [cmd |-> c, at |-> 0]] : c \in Command}
    /\ next = 0 /\ stop = 0 /\ start = 0
    /\ writing = <<>>
    /\ pc = "idle" /\ cmd \in Command
    /\ len = 0 /\ left = 0 /\ maxloop = 0
    /\ sent = <<>> /\ executed = <<>>

-----------------------------------------------------------------------------
(***************************************************************************)
(* The guest driver: a command word by word, NEXT published after each.    *)
(***************************************************************************)

WordsOf(c) == [i \in 1 .. Length(c) |-> [cmd |-> c, at |-> i]]

Begin(c) ==
    /\ writing = <<>>
    /\ writing' = WordsOf(c)
    /\ UNCHANGED <<ring, next, sent>> /\ UNCHANGED device

\* A full ring (NEXT would meet STOP) makes the driver wait.
Put ==
    /\ writing # <<>>
    /\ Unread < Ring - 1
    /\ ring' = [ring EXCEPT ![next] = writing[1]]
    /\ next' = Advance(next)
    /\ writing' = Tail(writing)
    /\ sent' = IF Len(writing) = 1 THEN Append(sent, writing[1].cmd) ELSE sent
    /\ UNCHANGED device

-----------------------------------------------------------------------------
(***************************************************************************)
(* vmsvga_fifo_run.                                                        *)
(***************************************************************************)

\* vmsvga_fifo_length samples the pointers, once.
Run ==
    /\ pc = "idle"
    /\ pc' = "loop"
    /\ len' = Unread
    /\ maxloop' = MaxLoop
    /\ UNCHANGED <<stop, cmd, start, left, executed>> /\ UNCHANGED guest

\* Any other word may look like any command.
Meaning(w) == IF w.at = 1 THEN {w.cmd} ELSE Command

\* The top of the loop: remember cmd_start, read the command word, publish STOP.
Fetch ==
    /\ pc = "loop" /\ len > 0 /\ maxloop > 1
    /\ maxloop' = maxloop - 1
    /\ start' = stop
    /\ cmd' \in Meaning(ring[stop])
    /\ stop' = Advance(stop)
    /\ pc' = "head"
    /\ UNCHANGED <<len, left, executed>> /\ UNCHANGED guest

\* The sampled words are used up, or the loop has run often enough.
Return ==
    /\ pc = "loop" /\ (len <= 0 \/ maxloop <= 1)
    /\ pc' = "idle"
    /\ maxloop' = IF len > 0 THEN maxloop - 1 ELSE maxloop
    /\ len' = 0
    /\ UNCHANGED <<stop, cmd, start, left, executed>> /\ UNCHANGED guest

Charge == CASE pc = "head" -> Fixed[cmd]
            [] pc = "fixed" -> Args[cmd]

RewindKeepsStop ==
    /\ pc \in {"head", "fixed"} /\ left = 0
    /\ len < Charge
    /\ len' = len - Charge
    /\ pc' = "loop"
    /\ UNCHANGED <<stop, cmd, start, left, maxloop, executed>> /\ UNCHANGED guest

\* len -= n, where n words are not there: back to cmd_start.
Rewind ==
    /\ pc \in {"head", "fixed"} /\ left = 0
    /\ len < Charge
    /\ len' = len - Charge
    /\ stop' = start
    /\ pc' = "loop"
    /\ UNCHANGED <<cmd, start, left, maxloop, executed>> /\ UNCHANGED guest

AcceptUncharged ==
    /\ pc \in {"head", "fixed"} /\ left = 0
    /\ len >= Charge
    /\ IF pc = "head"
       THEN pc' = "fixed" /\ left' = IF Fixed[cmd] = 0 THEN 0 ELSE Fixed[cmd] - 1
       ELSE pc' = "args" /\ left' = Args[cmd]
    /\ UNCHANGED <<stop, cmd, start, len, maxloop, executed>> /\ UNCHANGED guest

\* len -= n: the fixed part (the command word is read already), then the rest.
Accept ==
    /\ pc \in {"head", "fixed"} /\ left = 0
    /\ len >= Charge
    /\ len' = len - Charge
    /\ IF pc = "head"
       THEN pc' = "fixed" /\ left' = IF Fixed[cmd] = 0 THEN 0 ELSE Fixed[cmd] - 1
       ELSE pc' = "args" /\ left' = Args[cmd]
    /\ UNCHANGED <<stop, cmd, start, maxloop, executed>> /\ UNCHANGED guest

\* vmsvga_fifo_read_raw: one word, STOP published.
Read ==
    /\ left > 0
    /\ left' = left - 1
    /\ stop' = Advance(stop)
    /\ UNCHANGED <<pc, cmd, start, len, maxloop, executed>> /\ UNCHANGED guest

\* The command's effect, and the loop again.
Finish ==
    /\ pc = "args" /\ left = 0
    /\ executed' = Append(executed, cmd)
    /\ pc' = "loop"
    /\ UNCHANGED <<stop, cmd, start, len, left, maxloop>> /\ UNCHANGED guest

Device == Run \/ Fetch \/ Return \/ Rewind \/ Accept \/ Read \/ Finish

Next == (\E c \in Command : Begin(c)) \/ Put \/ Device

\* A guest that waits earlier than it has to.  Nothing in the device asks for it: it
\* is an assumption about the guest, made by name where it is needed.
SparingPut == Unread + Slack < Ring - 1 /\ Put
SparingNext == (\E c \in Command : Begin(c)) \/ SparingPut \/ Device

\* The refresh timer of the console calls vmsvga_fifo_run for ever, and the
\* function does not block.  The guest may stop in the middle of a command.
Fairness == WF_vars(Device)

Spec == Init /\ [][Next]_vars /\ Fairness
SparingSpec == Init /\ [][SparingNext]_vars /\ Fairness

-----------------------------------------------------------------------------
(***************************************************************************)
(* Correctness.                                                            *)
(***************************************************************************)

\* The commands the device can keep apart, and the slack that goes with them: each is
\* charged for together with its command word, and no fixed part is longer than Slack.
WellSized == \A c \in Command : Fixed[c] \in 1 .. Slack

\* Words read of the command at hand, and whether a rewind may still return them.
Taken == Between(start, stop)
MayRewind == pc \in {"head", "fixed"}

\* With a sparing guest and well-sized commands, the device parses the stream where the
\* guest wrote it: the word it takes for a command word is one, and the words it reads
\* next are that command's.
ParseInStep ==
    /\ MayRewind => ring[start] = [cmd |-> cmd, at |-> 1]
    /\ left > 0 => ring[stop] = [cmd |-> cmd, at |-> Taken + 1]

\* "May need to go back to the start of the command if incomplete" (vmware_vga.c:631):
\* going back makes the words read of the command unread again, and loses none of
\* those the guest has written behind them.  It fails for a guest that fills the ring
\* (SvgaFifoFull.cfg).
RewindGivesBack == [][Rewind => Unread' = Unread + Taken]_vars

\* Every command such a guest completes is executed once, in order, and none is lost.
Stream == INSTANCE CommandStream WITH Command <- Command, sent <- sent, executed <- executed
ImplementsCommandStream == Stream!Spec

\* "Other commands that we at least know the number of arguments for so we can
\* avoid FIFO desync" (vmware_vga.c:731-734): what is executed is what was sent.
NoDesync ==
    /\ Len(executed) <= Len(sent)
    /\ \A i \in 1 .. Len(executed) : executed[i] = sent[i]
=============================================================================
