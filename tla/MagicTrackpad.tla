--------------------------- MODULE MagicTrackpad ---------------------------
(***************************************************************************)
(* The Apple Magic Trackpad 2 (src/hw/usb/dev-hid-apple-trackpad.c): boot  *)
(* mouse reports until the host enables multitouch, one-finger frames with *)
(* a sequence number from then on, both through one ring.                  *)
(*                                                                         *)
(* Handlers run under the BQL, one action each.  The axes are treated      *)
(* alike and the model has one.  The ring of AMTP_QUEUE_DEPTH places with  *)
(* head and tail is the sequence of the Depth - 1 reports it can hold.     *)
(* Of a report the model has what the host's driver acts on; the packing   *)
(* of its bits is left out.                                                *)
(***************************************************************************)
EXTENDS Integers, Sequences

CONSTANTS
    Depth,    \* AMTP_QUEUE_DEPTH
    Clamp,    \* 127, what a boot report can move
    Divisor,  \* 4, absolute units to one unit of a boot report
    AbsMax,   \* 32767, the largest absolute position
    OutMin,   \* -3678, the sensor's range
    OutMax,   \* 3825
    SeqMod    \* 2^32, mt_seq wraps around

ASSUME SizeAssumption ==
    /\ Depth \in Nat \ {0, 1} /\ Clamp \in Nat /\ Divisor \in Nat \ {0}
    /\ AbsMax \in Nat \ {0} /\ SeqMod \in Nat \ {0}
    /\ OutMin \in Int /\ OutMax \in Int /\ OutMin < OutMax

VARIABLES
    multitouch,  \* s->multitouch_enabled
    abs,         \* s->abs_x
    prev,        \* s->prev_abs_x
    button,      \* s->button_left
    finger,      \* s->finger_down
    pending,     \* s->pending_event
    mt_seq,      \* s->mt_seq
    queue,       \* the ring
    parked,      \* the host got a NAK and waits for usb_wakeup
    host         \* the last report the host has read since the reset, as a sequence

vars == <<multitouch, abs, prev, button, finger, pending, mt_seq, queue, parked, host>>

Abs == 0 .. AbsMax
Boot == [kind : {"boot"}, button : BOOLEAN, move : -Clamp .. Clamp]
Frame == [kind : {"frame"}, button : BOOLEAN, seq : 0 .. SeqMod - 1,
          fingers : {<<>>} \cup {<<x>> : x \in OutMin .. OutMax}]

TypeOK ==
    /\ multitouch \in BOOLEAN /\ button \in BOOLEAN
    /\ finger \in BOOLEAN /\ pending \in BOOLEAN
    /\ abs \in Abs /\ prev \in Abs
    /\ mt_seq \in 0 .. SeqMod - 1
    /\ queue \in Seq(Boot \cup Frame) /\ Len(queue) <= Depth - 1
    /\ parked \in BOOLEAN
    /\ host \in Seq(Boot \cup Frame) /\ Len(host) <= 1

Init ==
    /\ multitouch = FALSE
    /\ abs = 0 /\ prev = 0
    /\ button = FALSE /\ finger = FALSE /\ pending = FALSE
    /\ mt_seq = 0 /\ queue = <<>>
    /\ parked = FALSE /\ host = <<>>

-----------------------------------------------------------------------------
(***************************************************************************)
(* amtp_input_event and amtp_input_sync.                                   *)
(***************************************************************************)

ButtonEvent(down) ==
    /\ button' = down
    /\ pending' = TRUE
    /\ UNCHANGED <<multitouch, abs, prev, finger, mt_seq, queue, parked, host>>

\* A button the trackpad does not have: a report all the same.
OtherButtonEvent ==
    /\ pending' = TRUE
    /\ UNCHANGED <<multitouch, abs, prev, button, finger, mt_seq, queue, parked, host>>

AbsEvent(v) ==
    /\ abs' = v
    /\ finger' = TRUE
    /\ pending' = TRUE
    /\ UNCHANGED <<multitouch, prev, button, mt_seq, queue, parked, host>>

\* C's division, towards zero, and the clamp.
Quotient(n) == IF n >= 0 THEN n \div Divisor ELSE -((-n) \div Divisor)
ClampI8(n) == IF n > Clamp THEN Clamp ELSE IF n < -Clamp THEN -Clamp ELSE n
BootReport == [kind |-> "boot", button |-> button, move |-> ClampI8(Quotient(abs - prev))]

MapAbsOffByOne(v) == OutMin + (v * (OutMax - OutMin + 1)) \div AbsMax

\* amtp_map_abs
MapAbs(v) == OutMin + (v * (OutMax - OutMin)) \div AbsMax
FrameReport == [kind |-> "frame", button |-> button, seq |-> mt_seq,
                fingers |-> IF finger THEN <<MapAbs(abs)>> ELSE <<>>]

EnqueueDropsNewest(r) ==
    /\ queue' = IF Len(queue) < Depth - 1 THEN Append(queue, r) ELSE queue
    /\ parked' = FALSE

EnqueueWithoutWakeup(r) ==
    /\ queue' = Append(IF Len(queue) < Depth - 1 THEN queue ELSE Tail(queue), r)
    /\ UNCHANGED parked

\* amtp_enqueue: the full ring loses its oldest; the host is woken.
Enqueue(r) ==
    /\ queue' = Append(IF Len(queue) < Depth - 1 THEN queue ELSE Tail(queue), r)
    /\ parked' = FALSE

SyncBoot ==
    /\ pending /\ ~multitouch
    /\ Enqueue(BootReport)
    /\ prev' = abs
    /\ pending' = FALSE
    /\ UNCHANGED <<multitouch, abs, button, finger, mt_seq, host>>

\* amtp_emit_multitouch
SyncFrame ==
    /\ pending /\ multitouch
    /\ Enqueue(FrameReport)
    /\ mt_seq' = (mt_seq + 1) % SeqMod
    /\ pending' = FALSE
    /\ UNCHANGED <<multitouch, abs, prev, button, finger, host>>

-----------------------------------------------------------------------------
(***************************************************************************)
(* The host.                                                               *)
(***************************************************************************)

\* SET_REPORT(feature, 0x02, {0x02, ..}) on Interface 1; the others change nothing.
EnableMultitouch ==
    /\ multitouch' = TRUE
    /\ UNCHANGED <<abs, prev, button, finger, pending, mt_seq, queue, parked, host>>

\* handle_data on EP3 IN: NAK or the oldest report; other endpoints NAK.
Poll ==
    /\ ~parked
    /\ IF queue = <<>>
       THEN parked' = TRUE /\ UNCHANGED <<queue, host>>
       ELSE queue' = Tail(queue) /\ host' = <<Head(queue)>> /\ UNCHANGED parked
    /\ UNCHANGED <<multitouch, abs, prev, button, finger, pending, mt_seq>>

ResetKeepsQueue ==
    /\ multitouch' = FALSE
    /\ prev' = 0 /\ button' = FALSE /\ finger' = FALSE /\ pending' = FALSE
    /\ mt_seq' = 0
    /\ parked' = FALSE /\ host' = <<>>
    /\ UNCHANGED <<abs, queue>>

\* handle_reset; the host enumerates the device again.  The position stays.
Reset ==
    /\ multitouch' = FALSE
    /\ prev' = 0 /\ button' = FALSE /\ finger' = FALSE /\ pending' = FALSE
    /\ mt_seq' = 0 /\ queue' = <<>>
    /\ parked' = FALSE /\ host' = <<>>
    /\ UNCHANGED abs

Next ==
    \/ \E down \in BOOLEAN : ButtonEvent(down)
    \/ OtherButtonEvent
    \/ \E v \in Abs : AbsEvent(v)
    \/ SyncBoot \/ SyncFrame
    \/ EnableMultitouch \/ Poll \/ Reset

Spec == Init /\ [][Next]_vars

-----------------------------------------------------------------------------
(***************************************************************************)
(* Correctness.                                                            *)
(***************************************************************************)

\* What the host has read and has still to read, in order.
Stream == host \o queue

\* "SET_REPORT [...] enables raw multitouch mode; thereafter Report 0x02 carries
\* multitouch frames [...] instead of the 8-byte boot-mouse shape"
\* (dev-hid-apple-trackpad.c:10-12): what the host reads after the switch is a frame.
\* The code leaves the boot reports in the ring (TrackpadSwitch.cfg).
FramesAfterSwitch == [][Poll /\ multitouch /\ queue # <<>> => host'[1].kind = "frame"]_vars

\* Boot reports from before the switch are read first (see FramesAfterSwitch).  From the
\* first frame on there are only frames, each numbered one after the one before it in
\* the ring, also across an overflow and across the wrap of mt_seq: a driver that times
\* frames by their number sees no frame twice and none from before the reset.
FramesInOrder ==
    \A i \in 1 .. Len(Stream) - 1 : Stream[i].kind = "frame" =>
        /\ Stream[i + 1].kind = "frame"
        /\ i > Len(host) => Stream[i + 1].seq = (Stream[i].seq + 1) % SeqMod

\* When the host has read everything it knows the button and, once the last report it
\* has read is a frame, where the finger is: the newest state is never the one the ring forgets.
HostSettles ==
    queue = <<>> /\ ~pending =>
        /\ button => host # <<>> /\ host[1].button
        /\ host # <<>> => host[1].button = button
        /\ host # <<>> /\ host[1].kind = "frame" /\ finger
              => host[1].fingers = <<MapAbs(abs)>>

\* A host that was put off is woken before there is a report for it.
HostIsWoken == parked => queue = <<>>
=============================================================================
