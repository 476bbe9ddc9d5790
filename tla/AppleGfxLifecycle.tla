------------------------- MODULE AppleGfxLifecycle -------------------------
(***************************************************************************)
(* The life of an apple-gfx device around the frame protocol               *)
(* (src/hw/display/apple-gfx-pci-linux.c: apple_gfx_pci_realize, _unrealize; *)
(* apple-gfx-common-linux.c: the cursor callbacks, the vblank timer, the   *)
(* interrupt bottom half).                                                 *)
(*                                                                         *)
(* Unrealize runs on the main loop's thread and keeps the BQL.  It detaches *)
(* the library, whose callbacks come from other threads without the BQL,   *)
(* and then runs the bottom halves these have left behind, in one poll:    *)
(* what is queued while that poll runs stays queued.  The bottom halves of *)
(* one poll are in no promised order.                                      *)
(*                                                                         *)
(* External: aio_bh_poll takes the queue as it finds it and runs that      *)
(* many; lagfx_display_free and lagfx_device_free start no callback any    *)
(* more and return when those in flight have, as the comment in unrealize  *)
(* assumes; the library knows the cursor's position.                       *)
(***************************************************************************)
EXTENDS AppleGfxFrame

CONSTANTS
    Cursor,   \* allocations of a QEMUCursor
    NoCursor  \* NULL

ASSUME NoCursorAssumption == NoCursor \notin Cursor

VARIABLES
    life,     \* how far the device has come
    disp,     \* s->lagfx_disp: "none" is NULL; "closing": in lagfx_display_free
    dev,      \* s->lagfx_dev # NULL
    armed,    \* the vblank timer is armed
    pushed,   \* s->initial_surface_pushed
    todo,     \* bottom halves the poll of unrealize has taken and not yet run
    call,     \* where each thread is in the cursor and mode callbacks
    pos,      \* the library's cursor position; a move is the next number
    show,     \* s->cursor_show
    moves,    \* apple_gfx_cursor_moved_bh entries queued
    moving,   \* a running cursor_moved_bh has read the position ...
    mpos,     \* ... which is this one (0 when none runs)
    pointer,  \* position and visibility the console was told last
    glyphs,   \* cursors of the queued apple_gfx_cursor_glyph_bh entries
    cursor,   \* s->cursor
    live,     \* cursors allocated and not released by this device
    irqs      \* apple_gfx_raise_interrupt_bh entries queued

lifeVars == <<life, disp, dev, armed, pushed, todo>>
pointerVars == <<pos, show, moves, moving, mpos, pointer>>
glyphVars == <<glyphs, cursor, live>>

allVars == <<vars, lifeVars, call, pointerVars, glyphVars, irqs>>

LifeTypeOK ==
    /\ TypeOK
    /\ life \in {"created", "failed", "running", "stopping", "draining", "gone"}
    /\ disp \in {"none", "live", "closing"}
    /\ {dev, armed, pushed, show, moving} \subseteq BOOLEAN
    /\ call \in [Thread -> {"idle", "moved", "mode"}]
    /\ {pos, moves, mpos, irqs, todo} \subseteq Nat
    /\ pointer \in Nat \X BOOLEAN
    /\ glyphs \subseteq Cursor /\ live \subseteq Cursor
    /\ cursor \in Cursor \cup {NoCursor}

\* apple_gfx_common_init
LifeInit ==
    /\ Init
    /\ life = "created" /\ disp = "none"
    /\ dev = FALSE /\ armed = FALSE /\ pushed = FALSE /\ todo = 0
    /\ call = [t \in Thread |-> "idle"]
    /\ pos = 0 /\ show = TRUE /\ moves = 0 /\ moving = FALSE /\ mpos = 0
    /\ pointer = <<0, TRUE>>
    /\ glyphs = {} /\ cursor = NoCursor /\ live = {}
    /\ irqs = 0

\* No bottom half is running.
MainIdle == bh = "idle" /\ ~moving

\* A render thread waiting for the BQL can have it: not while the main loop's
\* thread runs a bottom half or is in unrealize.
BqlFree == life = "running" /\ MainIdle

\* A bottom half is taken from the queue by the main loop, whose polls follow each
\* other for ever, or by the one aio_bh_poll of unrealize.
Dispatch ==
    /\ \/ life = "running" /\ UNCHANGED todo
       \/ life = "draining" /\ todo > 0 /\ todo' = todo - 1
    /\ UNCHANGED <<life, disp, dev, armed, pushed>>

NoCallback == \A t \in Thread : pc[t] = "idle" /\ call[t] = "idle"

\* The length of the queue of bottom halves.
Queued == bhs + moves + Cardinality(glyphs) + irqs

-----------------------------------------------------------------------------
(***************************************************************************)
(* realize, the vblank timer and unrealize, on the main loop's thread.     *)
(***************************************************************************)

\* lagfx_display_new may call mode_changed before it returns.
Realize ==
    /\ life = "created"
    /\ life' = "running" /\ disp' = "live" /\ dev' = TRUE /\ armed' = TRUE
    /\ surface' \in Mode
    /\ UNCHANGED <<notifications, bh, dst, picture, frames, pushed, todo, call, pointerVars,
                   glyphVars, irqs>>

\* MSI, the library's device or its display is refused.  What has been set up
\* of the state here is released again.
RealizeFails ==
    /\ life = "created"
    /\ life' = "failed"
    /\ UNCHANGED <<vars, disp, dev, armed, pushed, todo, call, pointerVars, glyphVars, irqs>>

\* apple_gfx_vblank_tick: the first tick pushes the initial surface, and each
\* arms the next as long as there is a device.
VblankTick ==
    /\ life = "running" /\ MainIdle
    /\ armed
    /\ armed' = dev
    /\ pushed' = (pushed \/ dev)
    /\ UNCHANGED <<vars, life, disp, dev, todo, call, pointerVars, glyphVars, irqs>>

\* timer_del, the list of tasks is emptied (module AppleGfxTasks), msi_uninit;
\* lagfx_display_free is called.
Unrealize ==
    /\ life = "running" /\ MainIdle
    /\ life' = "stopping" /\ disp' = "closing" /\ armed' = FALSE
    /\ UNCHANGED <<vars, dev, pushed, todo, call, pointerVars, glyphVars, irqs>>

\* lagfx_display_free returns, and s->lagfx_disp becomes NULL.
DisplayFreed ==
    /\ disp = "closing" /\ NoCallback
    /\ disp' = "none"
    /\ UNCHANGED <<vars, life, dev, armed, pushed, todo, call, pointerVars, glyphVars, irqs>>

DeviceFreedAfterPoll ==
    /\ life = "stopping" /\ disp = "none"
    /\ life' = "draining"
    /\ pending' = 0
    /\ todo' = Queued
    /\ UNCHANGED <<pc, bhs, bh, dst, screen, frames, disp, dev, armed, pushed,
                   call, pointerVars, glyphVars, irqs>>

\* lagfx_device_free; pending_frames is cleared; aio_bh_poll takes the queue.
DeviceFreed ==
    /\ life = "stopping" /\ disp = "none"
    /\ life' = "draining" /\ dev' = FALSE
    /\ pending' = 0
    /\ todo' = Queued
    /\ UNCHANGED <<pc, bhs, bh, dst, screen, frames, disp, armed, pushed,
                   call, pointerVars, glyphVars, irqs>>

\* aio_bh_poll has run what it had taken, and returns; surface and cursor are
\* released.
Drained ==
    /\ life = "draining" /\ todo = 0 /\ MainIdle
    /\ life' = "gone"
    /\ cursor' = NoCursor /\ live' = live \ {cursor}
    /\ UNCHANGED <<vars, disp, dev, armed, pushed, todo, call, pointerVars, glyphs, irqs>>

Teardown == DisplayFreed \/ DeviceFreed \/ Drained

-----------------------------------------------------------------------------
(***************************************************************************)
(* Callbacks, on the library's threads and without the BQL.                *)
(***************************************************************************)

\* The library can begin a callback on thread t.
CanCall(t) == disp = "live" /\ pc[t] = "idle" /\ call[t] = "idle"

Calls(t, from, to) == call[t] = from /\ call' = [call EXCEPT ![t] = to]

CompleteFrame(t) ==
    /\ CanCall(t)
    /\ Render(t)
    /\ UNCHANGED <<lifeVars, call, pointerVars, glyphVars, irqs>>

AnnounceFrame(t) ==
    /\ FrameReady(t)
    /\ UNCHANGED <<lifeVars, call, pointerVars, glyphVars, irqs>>

\* apple_gfx_mode_changed is called, and waits for the BQL.
BeginModeChange(t) ==
    /\ CanCall(t)
    /\ Calls(t, "idle", "mode")
    /\ UNCHANGED <<vars, lifeVars, pointerVars, glyphVars, irqs>>

ChangeMode(t, m) ==
    /\ BqlFree
    /\ Calls(t, "mode", "idle")
    /\ ModeChanged(t, m)
    /\ UNCHANGED <<lifeVars, pointerVars, glyphVars, irqs>>

\* The cursor moves and apple_gfx_cursor_moved is called.
MoveCursor(t) ==
    /\ CanCall(t)
    /\ pos' = pos + 1
    /\ Calls(t, "idle", "moved")
    /\ UNCHANGED <<vars, lifeVars, show, moves, moving, mpos, pointer, glyphVars, irqs>>

\* apple_gfx_cursor_show writes cursor_show and goes on like cursor_moved.
ShowCursor(t, visible) ==
    /\ CanCall(t)
    /\ show' = visible
    /\ Calls(t, "idle", "moved")
    /\ UNCHANGED <<vars, lifeVars, pos, moves, moving, mpos, pointer, glyphVars, irqs>>

ScheduleMoveUnlessRunning(t) ==
    /\ Calls(t, "moved", "idle")
    /\ moves' = IF moving THEN moves ELSE moves + 1
    /\ UNCHANGED <<vars, lifeVars, pos, show, moving, mpos, pointer, glyphVars, irqs>>

ScheduleMoveUnderBql(t) ==
    /\ BqlFree
    /\ Calls(t, "moved", "idle")
    /\ moves' = moves + 1
    /\ UNCHANGED <<vars, lifeVars, pos, show, moving, mpos, pointer, glyphVars, irqs>>

\* aio_bh_schedule_oneshot of both: a bottom half for each call.
ScheduleMove(t) ==
    /\ Calls(t, "moved", "idle")
    /\ moves' = moves + 1
    /\ UNCHANGED <<vars, lifeVars, pos, show, moving, mpos, pointer, glyphVars, irqs>>

\* apple_gfx_cursor_glyph allocates a cursor and hands it to a bottom half.
CursorGlyph(t, c) ==
    /\ CanCall(t)
    /\ c \notin live
    /\ live' = live \cup {c}
    /\ glyphs' = glyphs \cup {c}
    /\ UNCHANGED <<vars, lifeVars, call, pointerVars, cursor, irqs>>

\* apple_gfx_raise_interrupt, from a library thread or a guest's MMIO access.
RaiseInterrupt ==
    /\ dev
    /\ irqs' = irqs + 1
    /\ UNCHANGED <<vars, lifeVars, call, pointerVars, glyphVars>>

\* A thread inside a callback that takes no lock goes on.
CallbackStep(t) == AnnounceFrame(t) \/ ScheduleMove(t)

-----------------------------------------------------------------------------
(***************************************************************************)
(* Bottom halves.                                                          *)
(***************************************************************************)

FrameGoneUnchecked ==
    /\ bh = "check" /\ disp = "none"
    /\ bh' = "idle"
    /\ pending' = pending - 1
    /\ UNCHANGED <<pc, bhs, dst, screen, frames>>

\* apple_gfx_frame_ready_bh with lagfx_disp = NULL: a pending frame is dropped.
FrameGone ==
    /\ bh = "check" /\ disp = "none"
    /\ bh' = "idle"
    /\ pending' = IF pending > 0 THEN pending - 1 ELSE pending
    /\ UNCHANGED <<pc, bhs, dst, screen, frames>>

FrameBh ==
    /\ \/ Dispatch /\ ~moving /\ BhStart
       \/ UNCHANGED lifeVars /\ disp = "live" /\ BhCheck
       \/ UNCHANGED lifeVars /\ (FrameGone \/ BhSub \/ BhRead \/ BhTail)
    /\ UNCHANGED <<call, pointerVars, glyphVars, irqs>>

\* apple_gfx_cursor_moved_bh asks the library for the position, of a display
\* that may be NULL by now ...
ReadPosition ==
    /\ Dispatch /\ MainIdle /\ moves > 0
    /\ moves' = moves - 1
    /\ moving' = TRUE
    /\ mpos' = IF disp = "none" THEN 0 ELSE pos
    /\ UNCHANGED <<vars, call, pos, show, pointer, glyphVars, irqs>>

\* ... and tells the console, with the visibility of this moment.
SetPointer ==
    /\ moving
    /\ moving' = FALSE /\ mpos' = 0
    /\ pointer' = <<mpos, show>>
    /\ UNCHANGED <<vars, lifeVars, call, pos, show, moves, glyphVars, irqs>>

GlyphBhKeepsOld(c) ==
    /\ Dispatch /\ MainIdle /\ c \in glyphs
    /\ glyphs' = glyphs \ {c}
    /\ cursor' = c
    /\ UNCHANGED <<vars, call, pointerVars, live, irqs>>

\* apple_gfx_cursor_glyph_bh: the new cursor replaces the old one.
GlyphBh(c) ==
    /\ Dispatch /\ MainIdle /\ c \in glyphs
    /\ glyphs' = glyphs \ {c}
    /\ cursor' = c /\ live' = live \ {cursor}
    /\ UNCHANGED <<vars, call, pointerVars, irqs>>

\* apple_gfx_raise_interrupt_bh notifies the guest if MSI is enabled; after
\* msi_uninit it is not.
InterruptBh ==
    /\ Dispatch /\ MainIdle /\ irqs > 0
    /\ irqs' = irqs - 1
    /\ UNCHANGED <<vars, call, pointerVars, glyphVars>>

BottomHalf == FrameBh \/ ReadPosition \/ SetPointer \/ InterruptBh \/ \E c \in Cursor : GlyphBh(c)

-----------------------------------------------------------------------------
Callback(t) ==
    \/ CompleteFrame(t) \/ AnnounceFrame(t)
    \/ BeginModeChange(t) \/ \E m \in Mode : ChangeMode(t, m)
    \/ MoveCursor(t) \/ \E visible \in BOOLEAN : ShowCursor(t, visible)
    \/ ScheduleMove(t)
    \/ \E c \in Cursor : CursorGlyph(t, c)

LifeNext ==
    \/ Realize \/ RealizeFails \/ VblankTick \/ Unrealize \/ Teardown
    \/ \E t \in Thread : Callback(t)
    \/ RaiseInterrupt
    \/ BottomHalf

\* The thread in unrealize goes on and runs the bottom halves it has found;
\* threads in callbacks that take no lock go on.  Nobody has to call unrealize,
\* and the library has to make no callback.
LifeFairness ==
    /\ WF_allVars(Teardown)
    /\ WF_allVars(BottomHalf)
    /\ \A t \in Thread : WF_allVars(CallbackStep(t))

LifeSpec == LifeInit /\ [][LifeNext]_allVars /\ LifeFairness

-----------------------------------------------------------------------------
(***************************************************************************)
(* Correctness.                                                            *)
(***************************************************************************)

\* cursor_show and the library's position change without a lock under a running
\* cursor_moved_bh, which has read one of them and not yet the other.  Still,
\* when the cursor callbacks and bottom halves have come to rest, the console
\* draws the pointer where it is and as visible as it is.
PointerSettles ==
    (life = "running" /\ moves = 0 /\ ~moving /\ \A t \in Thread : call[t] # "moved")
        => pointer = <<pos, show>>

\* unrealize polls the bottom halves once.  When it has returned, none of the device
\* is queued: no thread or interrupt has queued one while the poll ran, and none
\* that it ran, the frame bottom half in particular, has queued itself again; and
\* no tick has armed the timer anew.
QuietWhenGone == life = "gone" => Queued = 0 /\ ~armed

\* Every cursor the device has allocated is owned by one queued bottom half or
\* is the current one, and unrealize releases the last: none leaks and none is
\* released while a bottom half still has it.
CursorOwned ==
    /\ live = glyphs \cup ({cursor} \ {NoCursor})
    /\ cursor \notin glyphs
    /\ life = "gone" => live = {}

\* Unrealize ends unless a render thread is caught in mode_changed, waiting for
\* the BQL that unrealize holds while it waits for that thread.
TeardownEnds ==
    life = "stopping" ~> (life = "gone" \/ \E t \in Thread : call[t] = "mode")

\* The bottom halves that unrealize drains do not use the display it has freed
\* (apple-gfx-pci-linux.c:168-171: a bottom half queued before unrealize "will fire
\* afterward and dereference freed s->cursor / s->lagfx_disp / s->con"); the
\* frame bottom half checks for NULL, cursor_moved_bh passes it on.
NoNullDisplay == [][ReadPosition => disp # "none"]_allVars
=============================================================================
