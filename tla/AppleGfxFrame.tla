--------------------------- MODULE AppleGfxFrame ---------------------------
(***************************************************************************)
(* How a finished frame reaches the console                                *)
(* (src/hw/display/apple-gfx-common-linux.c: apple_gfx_frame_ready,        *)
(* apple_gfx_frame_ready_bh, apple_gfx_mode_changed).                      *)
(*                                                                         *)
(* libapplegfx render threads announce frames WITHOUT the big QEMU lock    *)
(* (BQL): apple_gfx_frame_ready is three separate atomic operations on     *)
(* pending_frames and the bottom-half queue.  The main loop runs the       *)
(* bottom halves one at a time under the BQL, and each of those is again   *)
(* several atomic accesses with the copy of the frame in the middle.       *)
(*                                                                         *)
(* The device is realized and lagfx_disp is set throughout: bottom halves  *)
(* run on the thread that runs realize, after it.                          *)
(*                                                                         *)
(* External: the library, from whose side a frame is its number.  A read   *)
(* returns the newest completed frame if no read has returned it before,   *)
(* or fails, or says that there is none.                                   *)
(***************************************************************************)
EXTENDS Integers, FiniteSets

CONSTANTS
    Thread,      \* the render threads that invoke the display callbacks
    Mode,        \* the sizes of a display surface
    DefaultMode  \* 1920x1080, the surface realize() creates

ASSUME ModeAssumption == DefaultMode \in Mode

VARIABLES
    pc,        \* where each render thread is in apple_gfx_frame_ready
    pending,   \* s->pending_frames
    bhs,       \* apple_gfx_frame_ready_bh entries queued in the AioContext
    bh,        \* where the running bottom half is; not "idle": it has the BQL
    dst,       \* the surface the running bottom half copies into
    surface,   \* s->surface
    picture,   \* the frame whose pixels that surface holds, or Blank
    newest,    \* number of the last frame the library has completed
    shown,     \* number of the last frame given to dpy_gfx_update
    missed     \* reading the newest frame has failed

notifications == <<pc, pending, bhs>>
screen == <<surface, picture>>
frames == <<newest, shown, missed>>

vars == <<notifications, bh, dst, screen, frames>>

\* The pixels of a fresh surface.
Blank == 0

TypeOK ==
    /\ pc \in [Thread -> {"idle", "try01", "try12", "schedule"}]
    /\ pending \in 0..2
    /\ bhs \in Nat
    /\ bh \in {"idle", "check", "sub", "read", "tail"}
    /\ dst \in Mode
    /\ surface \in Mode
    /\ newest \in Nat
    /\ shown \in 0..newest
    /\ picture \in 0..newest
    /\ missed \in BOOLEAN

Init ==
    /\ pc = [t \in Thread |-> "idle"]
    /\ pending = 0 /\ bhs = 0 /\ bh = "idle"
    /\ dst = DefaultMode /\ surface = DefaultMode
    /\ picture = Blank
    /\ newest = 0 /\ shown = 0 /\ missed = FALSE

-----------------------------------------------------------------------------
(***************************************************************************)
(* apple_gfx_frame_ready on a render thread.                               *)
(***************************************************************************)

At(t, from, to) == pc[t] = from /\ pc' = [pc EXCEPT ![t] = to]

\* The library completes a frame and calls frame_ready.
Render(t) ==
    /\ At(t, "idle", "try01")
    /\ newest' = newest + 1
    /\ missed' = FALSE
    /\ UNCHANGED <<pending, bhs, bh, dst, screen, shown>>

Try01NotifiesOnlyWhenIdle(t) ==
    /\ IF pending = 0 /\ bh = "idle"
       THEN At(t, "try01", "schedule") /\ pending' = 1
       ELSE At(t, "try01", "idle") /\ UNCHANGED pending
    /\ UNCHANGED <<bhs, bh, dst, screen, frames>>

\* cmpxchg(pending, 0, 1)
Try01(t) ==
    /\ IF pending = 0
       THEN At(t, "try01", "schedule") /\ pending' = 1
       ELSE At(t, "try01", "try12") /\ UNCHANGED pending
    /\ UNCHANGED <<bhs, bh, dst, screen, frames>>

Try12Uncapped(t) ==
    /\ At(t, "try12", "idle")
    /\ pending' = IF pending >= 1 THEN pending + 1 ELSE pending
    /\ UNCHANGED <<bhs, bh, dst, screen, frames>>

\* cmpxchg(pending, 1, 2): on success the bottom half in flight reschedules
\* itself; otherwise (0: drained meanwhile, 2: at the cap) there is nothing to do.
Try12(t) ==
    /\ At(t, "try12", "idle")
    /\ pending' = IF pending = 1 THEN 2 ELSE pending
    /\ UNCHANGED <<bhs, bh, dst, screen, frames>>

\* aio_bh_schedule_oneshot
Schedule(t) ==
    /\ At(t, "schedule", "idle")
    /\ bhs' = bhs + 1
    /\ UNCHANGED <<pending, bh, dst, screen, frames>>

ModeChangedWithoutBql(t, m) ==
    /\ pc[t] = "idle"
    /\ surface' = m
    /\ picture' = IF m = surface THEN picture ELSE Blank
    /\ UNCHANGED <<notifications, bh, dst, frames>>

\* apple_gfx_mode_changed, which waits for the BQL.  A surface of the size in use
\* stays; another one is replaced by a fresh surface, and no frame is read for it.
ModeChanged(t, m) ==
    /\ pc[t] = "idle"
    /\ bh = "idle"
    /\ surface' = m
    /\ picture' = IF m = surface THEN picture ELSE Blank
    /\ UNCHANGED <<notifications, bh, dst, frames>>

FrameReady(t) == Try01(t) \/ Try12(t) \/ Schedule(t)

-----------------------------------------------------------------------------
(***************************************************************************)
(* apple_gfx_frame_ready_bh on the main loop, under the BQL.               *)
(***************************************************************************)

BhStart ==
    /\ bh = "idle" /\ bhs > 0
    /\ bhs' = bhs - 1
    /\ bh' = "check"
    /\ UNCHANGED <<pc, pending, dst, screen, frames>>

\* Nothing pending (a second bottom half for the same frame): early return.
BhCheck ==
    /\ bh = "check"
    /\ bh' = IF pending <= 0 THEN "idle" ELSE "sub"
    /\ UNCHANGED <<notifications, dst, screen, frames>>

\* fetch_sub, then the surface is picked up.
BhSub ==
    /\ bh = "sub"
    /\ pending' = pending - 1
    /\ dst' = surface
    /\ bh' = "read"
    /\ UNCHANGED <<pc, bhs, screen, frames>>

ReadReturns(unread) ==
    /\ bh = "read" /\ unread
    /\ bh' = "tail"
    /\ UNCHANGED <<notifications, dst, surface, newest>>

\* lagfx_display_read_frame copies the newest frame into dst, and the console is
\* told to update.
ReadFrame ==
    /\ ReadReturns(shown < newest)
    /\ shown' = newest /\ missed' = FALSE
    /\ picture' = IF dst = surface THEN newest ELSE picture

\* It has no frame that was not read before (LAGFX_ERR_NO_FRAME, or new_frame
\* is false): nothing is copied.
ReadNoFrame ==
    /\ ReadReturns(shown = newest)
    /\ UNCHANGED <<picture, shown, missed>>

\* Any other status: the failure is logged and the notification is spent; the
\* read is not tried again for it.
ReadFails ==
    /\ ReadReturns(shown < newest)
    /\ missed' = TRUE
    /\ UNCHANGED <<picture, shown>>

BhRead == ReadFrame \/ ReadNoFrame \/ ReadFails

BhTailClearsPending ==
    /\ bh = "tail"
    /\ bh' = "idle"
    /\ pending' = 0
    /\ UNCHANGED <<pc, bhs, dst, screen, frames>>

BhTailDoesNotRearm ==
    /\ bh = "tail"
    /\ bh' = "idle"
    /\ UNCHANGED <<notifications, dst, screen, frames>>

\* Frames that arrived meanwhile: queue this bottom half once more.
BhTail ==
    /\ bh = "tail"
    /\ bh' = "idle"
    /\ bhs' = IF pending > 0 THEN bhs + 1 ELSE bhs
    /\ UNCHANGED <<pc, pending, dst, screen, frames>>

BhStep == BhStart \/ BhCheck \/ BhSub \/ BhRead \/ BhTail

Next ==
    \/ \E t \in Thread : Render(t) \/ FrameReady(t)
    \/ \E t \in Thread, m \in Mode : ModeChanged(t, m)
    \/ BhStep

\* A render thread inside frame_ready runs on (it takes no lock there), and
\* QEMU's main loop keeps dispatching bottom halves.  Nothing obliges the guest
\* to render or to change mode.
Fairness ==
    /\ \A t \in Thread : WF_vars(FrameReady(t))
    /\ WF_vars(BhStep)

Spec == Init /\ [][Next]_vars /\ Fairness

-----------------------------------------------------------------------------
(***************************************************************************)
(* Correctness.                                                            *)
(***************************************************************************)

\* A frame that is counted as pending has someone who will pick it up: a queued
\* or running bottom half, or a thread about to queue one.  No wakeup is lost.
NoLostWakeup ==
    pending > 0 => \/ bhs > 0
                   \/ bh # "idle"
                   \/ \E t \in Thread : pc[t] = "schedule"

Quiescent == bhs = 0 /\ bh = "idle" /\ \A t \in Thread : pc[t] = "idle"

\* Notifications are dropped at the cap and when the counter was drained between
\* the two cmpxchg.  Yet when all threads and the main loop have come to rest the
\* newest frame has been given to the console, unless its own read failed, and
\* the surface never holds an older one: a resize after that leaves it blank until
\* the next frame.
NoLostFrame ==
    Quiescent /\ ~missed => shown = newest /\ picture \in {newest, Blank}

\* A bottom half that copies a frame copies it into the surface the console uses.
FrameLandsInCurrentSurface == bh = "read" => dst = surface

\* Every completed frame is given to the console, itself or through a newer one,
\* or reading it has failed.
Display == INSTANCE LatestFrame WITH newest <- newest, shown <- shown, missed <- missed
ImplementsLatestFrame == Display!Spec
=============================================================================
