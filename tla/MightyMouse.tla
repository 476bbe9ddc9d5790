---------------------------- MODULE MightyMouse ----------------------------
(***************************************************************************)
(* The Apple Mighty Mouse (src/hw/usb/dev-hid.c, from line 1702): pointer  *)
(* events are summed up, cut into reports of one signed byte per axis,     *)
(* queued in a ring that forgets the oldest, and polled by the host.       *)
(*                                                                         *)
(* Handlers run under the BQL, one action each.  The two motion axes are   *)
(* treated alike by the code, and so are the two wheels and the three      *)
(* buttons: the model has one of each.  The ring of AMT_QUEUE_DEPTH places *)
(* with head and tail is the sequence of the Depth - 1 reports it can      *)
(* hold.  Control requests change no state.                                *)
(***************************************************************************)
EXTENDS Integers, Sequences, SequencesExt

CONSTANTS
    Depth,     \* AMT_QUEUE_DEPTH
    MaxLoops,  \* the cap of the loop in amt_input_sync
    Clamp,     \* 127, what one report can move
    Position,  \* absolute positions, scaled to the screen
    Rel,       \* relative motions in one event
    Far        \* bound of the motion and wheel summed up between two syncs

ASSUME SizeAssumption ==
    /\ Depth \in Nat \ {0, 1} /\ Clamp \in Nat \ {0} /\ Far \in Nat
    /\ MaxLoops \in Nat /\ MaxLoops >= Depth
    /\ Position \subseteq Nat /\ Rel \subseteq Int

VARIABLES
    motion,   \* s->pending_dx
    wheel,    \* s->pending_wheel
    button,   \* s->button_left
    pending,  \* s->pending_event
    last,     \* s->last_abs_x
    queue,    \* the ring
    parked,   \* the host got a NAK and waits for usb_wakeup
    host,     \* the button the host has last read
    owed,     \* motion and wheel the user has made and the host not read, until dropped
    dropped   \* a report was dropped from the full ring since the last reset

vars == <<motion, wheel, button, pending, last, queue, parked, host, owed, dropped>>

Report == [button : BOOLEAN, motion : -Clamp .. Clamp, wheel : -Clamp .. Clamp]

TypeOK ==
    /\ motion \in Int /\ wheel \in Int
    /\ button \in BOOLEAN /\ pending \in BOOLEAN
    /\ last \in Position \cup {-1}
    /\ queue \in Seq(Report) /\ Len(queue) <= Depth - 1
    /\ parked \in BOOLEAN /\ host \in BOOLEAN
    /\ owed \in [motion : Int, wheel : Int]
    /\ dropped \in BOOLEAN

Init ==
    /\ motion = 0 /\ wheel = 0 /\ button = FALSE
    /\ pending = FALSE /\ last = -1 /\ queue = <<>>
    /\ parked = FALSE /\ host = FALSE
    /\ owed = [motion |-> 0, wheel |-> 0]
    /\ dropped = FALSE

-----------------------------------------------------------------------------
(***************************************************************************)
(* amt_input_event, by kind of event.                                      *)
(***************************************************************************)

Near(n) == -Far <= n /\ n <= Far

Nothing == [motion |-> 0, wheel |-> 0]
Owe(m, w) ==
    IF dropped' THEN Nothing ELSE [motion |-> owed.motion + m, wheel |-> owed.wheel + w]

Move(d) ==
    /\ motion' = motion + d /\ Near(motion')
    /\ pending' = TRUE
    /\ UNCHANGED <<wheel, button, queue, parked, host, dropped>>
    /\ owed' = Owe(d, 0)

RelEvent(d) == Move(d) /\ UNCHANGED last

\* The first position only sets the anchor.
AbsEvent(v) ==
    /\ Move(IF last >= 0 THEN v - last ELSE 0)
    /\ last' = v

ButtonEvent(down) ==
    /\ button' = down
    /\ pending' = TRUE
    /\ UNCHANGED <<motion, wheel, last, queue, parked, host, owed, dropped>>

WheelEvent(d) ==
    /\ wheel' = wheel + d /\ Near(wheel')
    /\ pending' = TRUE
    /\ UNCHANGED <<motion, button, last, queue, parked, host, dropped>>
    /\ owed' = Owe(0, d)

-----------------------------------------------------------------------------
(***************************************************************************)
(* amt_input_sync: a report, and more as long as something is left.        *)
(***************************************************************************)

ClampHighOnly(n) == IF n > Clamp THEN Clamp ELSE n

\* amt_clamp_i8
ClampI8(n) == IF n > Clamp THEN Clamp ELSE IF n < -Clamp THEN -Clamp ELSE n

\* What is left of n after i reports, and the reports it takes.
Rest(n) == [i \in 0 .. MaxLoops |->
              IF n >= 0 THEN IF n > i * Clamp THEN n - i * Clamp ELSE 0
                        ELSE IF -n > i * Clamp THEN n + i * Clamp ELSE 0]

LoopsOnlyForMotion(m, w) ==
    CHOOSE i \in 1 .. MaxLoops :
        /\ i = MaxLoops \/ Rest(m)[i] = 0
        /\ \A j \in 1 .. i - 1 : Rest(m)[j] # 0

Loops(m, w) ==
    CHOOSE i \in 1 .. MaxLoops :
        /\ i = MaxLoops \/ (Rest(m)[i] = 0 /\ Rest(w)[i] = 0)
        /\ \A j \in 1 .. i - 1 : Rest(m)[j] # 0 \/ Rest(w)[j] # 0

Reports(m, w) ==
    [i \in 1 .. Loops(m, w) |->
        [button |-> button, motion |-> ClampI8(Rest(m)[i - 1]), wheel |-> ClampI8(Rest(w)[i - 1])]]

EnqueueDropsNewest(q) == SubSeq(q, 1, IF Len(q) < Depth THEN Len(q) ELSE Depth - 1)

\* amt_enqueue, for the reports of one sync: the full ring loses its oldest.
Enqueue(q) == SubSeq(q, IF Len(q) < Depth THEN 1 ELSE Len(q) - Depth + 2, Len(q))

SyncWithoutWakeup ==
    LET all == queue \o Reports(motion, wheel)
    IN  /\ pending
        /\ queue' = Enqueue(all)
        /\ dropped' = (dropped \/ Len(all) >= Depth)
        /\ motion' = Rest(motion)[Loops(motion, wheel)]
        /\ wheel' = Rest(wheel)[Loops(motion, wheel)]
        /\ pending' = FALSE
        /\ owed' = Owe(0, 0)
        /\ UNCHANGED <<button, last, parked, host>>

Sync ==
    LET all == queue \o Reports(motion, wheel)
    IN  /\ pending
        /\ queue' = Enqueue(all)
        /\ dropped' = (dropped \/ Len(all) >= Depth)
        /\ motion' = Rest(motion)[Loops(motion, wheel)]
        /\ wheel' = Rest(wheel)[Loops(motion, wheel)]
        /\ pending' = FALSE
        /\ parked' = FALSE
        /\ owed' = Owe(0, 0)
        /\ UNCHANGED <<button, last, host>>

-----------------------------------------------------------------------------
(***************************************************************************)
(* The host.                                                               *)
(***************************************************************************)

\* usb_apple_magic_tablet_handle_data: NAK or the oldest report.
Poll ==
    /\ ~parked
    /\ UNCHANGED <<motion, wheel, button, pending, last, dropped>>
    /\ IF queue = <<>>
       THEN parked' = TRUE /\ UNCHANGED <<queue, host, owed>>
       ELSE LET r == Head(queue)
            IN  /\ queue' = Tail(queue)
                /\ host' = r.button
                /\ owed' = Owe(-r.motion, -r.wheel)
                /\ UNCHANGED parked

\* usb_apple_magic_tablet_handle_reset; the host starts anew.
Reset ==
    /\ motion' = 0 /\ wheel' = 0 /\ button' = FALSE
    /\ pending' = FALSE /\ last' = -1 /\ queue' = <<>>
    /\ parked' = FALSE /\ host' = FALSE
    /\ owed' = Nothing /\ dropped' = FALSE

Next ==
    \/ \E d \in Rel : RelEvent(d)
    \/ \E v \in Position : AbsEvent(v)
    \/ \E down \in BOOLEAN : ButtonEvent(down)
    \/ \E d \in {-1, 1} : WheelEvent(d)
    \/ Sync \/ Poll \/ Reset

Spec == Init /\ [][Next]_vars

-----------------------------------------------------------------------------
(***************************************************************************)
(* Correctness.                                                            *)
(***************************************************************************)

\* The host has read everything and the input layer has nothing to report.
Settled == queue = <<>> /\ ~pending

\* The host's pointer and wheel have moved as far as the user's have: cutting into
\* reports loses and repeats nothing on either axis, the loop's cap is never reached
\* before the ring overflows, and only an overflow costs motion.
HostFollowsUser == Settled /\ ~dropped => owed.motion = 0 /\ owed.wheel = 0

\* Also after an overflow the host ends with the button as it is: no button sticks.
ButtonSettles == Settled => host = button

\* A host that was put off is woken before there is a report for it.
HostIsWoken == parked => queue = <<>>
=============================================================================
