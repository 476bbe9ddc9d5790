--------------------------- MODULE AppleGfx_proofs ---------------------------
(***************************************************************************)
(* Proofs about the apple-gfx device for any set of library threads, modes *)
(* and cursors and any number of frames, moves and interrupts: first the   *)
(* frame protocol by itself (AppleGfxFrame), then the device around it     *)
(* (AppleGfxLifecycle).                                                    *)
(***************************************************************************)
EXTENDS AppleGfxLifecycle, FiniteSetTheorems, TLAPS

-----------------------------------------------------------------------------
(***************************************************************************)
(* The frame protocol.                                                     *)
(***************************************************************************)

\* The tuples of variables that only abbreviate what an action leaves alone.
USE DEF notifications, screen, frames


\* A running bottom half that is about to decrement has seen a pending frame,
\* and nobody else decrements.
BhHasWork == bh = "sub" => pending > 0

\* Why no frame is forgotten: as long as one has not been given to the console and
\* its read has not failed, either it is counted, or the bottom half is between its
\* decrement and its read (and will read it), or the thread that completed it has
\* yet to try the first cmpxchg.
UnshownIsTracked ==
    shown < newest => \/ missed
                      \/ pending > 0
                      \/ bh = "read"
                      \/ \E t \in Thread : pc[t] = "try01"

\* The surface holds the last frame given to the console, or none.
PictureIsShown == picture \in {Blank, shown}

IInv ==
    /\ TypeOK
    /\ BhHasWork
    /\ NoLostWakeup
    /\ UnshownIsTracked
    /\ PictureIsShown
    /\ FrameLandsInCurrentSurface

LEMMA InitIInv == Init => IInv
<1>1. Init => missed \in BOOLEAN
  BY DEF Init
<1>. QED
  BY <1>1, ModeAssumption
     DEF Init, IInv, TypeOK, BhHasWork, NoLostWakeup, UnshownIsTracked, PictureIsShown, Blank,
         FrameLandsInCurrentSurface

\* Each action preserves the inductive invariant.
LEMMA StepIInv == IInv /\ [Next]_vars => IInv'
<1> SUFFICES ASSUME IInv, [Next]_vars PROVE IInv'
  OBVIOUS
<1> USE DEF IInv, TypeOK, BhHasWork, NoLostWakeup, UnshownIsTracked, PictureIsShown, Blank,
            FrameLandsInCurrentSurface
<1>1. ASSUME NEW t \in Thread, Render(t) PROVE IInv'
  <2>1. pc'[t] = "try01"
    BY <1>1 DEF Render, At
  <2>2. \A u \in Thread : pc[u] = "schedule" => pc'[u] = "schedule"
    BY <1>1 DEF Render, At
  <2>3. TypeOK'
    <3>1. missed' \in BOOLEAN
      BY <1>1, Zenon DEF Render
    <3>. QED  BY <1>1, <3>1 DEF Render, At
  <2>. QED  BY <1>1, <2>1, <2>2, <2>3 DEF Render
<1>2. ASSUME NEW t \in Thread, Try01(t) PROVE IInv'
  <2>1. CASE pending = 0
    <3>1. pending' = 1 /\ pc'[t] = "schedule"
      BY <1>2, <2>1 DEF Try01, At
    <3>2. TypeOK'
      BY <1>2, <2>1 DEF Try01, At
    <3>. QED  BY <1>2, <3>1, <3>2 DEF Try01
  <2>2. CASE pending # 0
    <3>1. pending' = pending /\ pending > 0
      BY <1>2, <2>2 DEF Try01
    <3>2. \A u \in Thread : pc[u] = "schedule" => pc'[u] = "schedule"
      BY <1>2, <2>2 DEF Try01, At
    <3>3. TypeOK'
      BY <1>2, <2>2 DEF Try01, At
    <3>. QED  BY <1>2, <3>1, <3>2, <3>3 DEF Try01
  <2>. QED  BY <2>1, <2>2
<1>3. ASSUME NEW t \in Thread, Try12(t) PROVE IInv'
  <2>1. \A u \in Thread : /\ pc[u] = "schedule" => pc'[u] = "schedule"
                          /\ pc[u] = "try01" => pc'[u] = "try01"
    BY <1>3 DEF Try12, At
  <2>2. pending > 0 <=> pending' > 0
    BY <1>3 DEF Try12
  <2>3. TypeOK'
    BY <1>3 DEF Try12, At
  <2>. QED  BY <1>3, <2>1, <2>2, <2>3 DEF Try12
<1>4. ASSUME NEW t \in Thread, Schedule(t) PROVE IInv'
  <2>1. \A u \in Thread : pc[u] = "try01" => pc'[u] = "try01"
    BY <1>4 DEF Schedule, At
  <2>2. bhs' > 0
    BY <1>4 DEF Schedule
  <2>3. TypeOK'
    BY <1>4 DEF Schedule, At
  <2>. QED  BY <1>4, <2>1, <2>2, <2>3 DEF Schedule
<1>5. ASSUME NEW t \in Thread, NEW m \in Mode, ModeChanged(t, m) PROVE IInv'
  BY <1>5 DEF ModeChanged
<1>6. CASE BhStart
  BY <1>6 DEF BhStart
<1>7. CASE BhCheck
  BY <1>7 DEF BhCheck
<1>8. CASE BhSub
  BY <1>8 DEF BhSub
<1>9. CASE BhRead
  <2>1. CASE ReadFrame
    <3>1. shown' = newest /\ newest' = newest /\ picture' = newest /\ missed' \in BOOLEAN
      BY <1>9, <2>1 DEF ReadFrame, ReadReturns
    <3>2. TypeOK'
      BY <2>1, <3>1 DEF ReadFrame, ReadReturns
    <3>3. NoLostWakeup' /\ UnshownIsTracked' /\ PictureIsShown'
      BY <2>1, <3>1 DEF ReadFrame, ReadReturns
    <3>. QED  BY <2>1, <3>2, <3>3 DEF ReadFrame, ReadReturns
  <2>2. CASE ReadNoFrame
    BY <2>2 DEF ReadNoFrame, ReadReturns
  <2>3. CASE ReadFails
    BY <2>3 DEF ReadFails, ReadReturns
  <2>. QED  BY <1>9, <2>1, <2>2, <2>3 DEF BhRead
<1>10. CASE BhTail
  BY <1>10 DEF BhTail
<1>11. CASE UNCHANGED vars
  BY <1>11 DEF vars
<1>. QED
  BY <1>1, <1>2, <1>3, <1>4, <1>5, <1>6, <1>7, <1>8, <1>9, <1>10, <1>11
     DEF Next, FrameReady, BhStep

\* IInv holds in every reachable state.
THEOREM Invariance == Spec => []IInv
BY InitIInv, StepIInv, PTL DEF Spec

\* Type correctness; in particular the int8_t pending_frames stays within 0..2
\* however many threads race in apple_gfx_frame_ready.
THEOREM TypeCorrect == Spec => []TypeOK
BY Invariance, PTL DEF IInv

\* apple_gfx_frame_ready and the tail of the bottom half together never leave a
\* pending frame without a bottom half.
THEOREM WakeupSafety == Spec => []NoLostWakeup
BY Invariance, PTL DEF IInv

\* Whenever everything has come to rest, the console has been given the newest frame,
\* or reading it has failed; and its surface holds that frame or is blank.
THEOREM FrameSafety == Spec => []NoLostFrame
<1>1. IInv => NoLostFrame
  <2> SUFFICES ASSUME IInv, Quiescent, ~missed
               PROVE  shown = newest /\ picture \in {newest, Blank}
    BY DEF NoLostFrame
  <2>1. pending = 0
    BY DEF IInv, TypeOK, Quiescent, NoLostWakeup
  <2>2. ~(shown < newest)
    BY <2>1 DEF IInv, Quiescent, UnshownIsTracked
  <2>. QED  BY <2>2 DEF IInv, TypeOK, PictureIsShown
<1>. QED  BY <1>1, Invariance, PTL

\* The BQL keeps apple_gfx_mode_changed out of a running bottom half.
THEOREM SurfaceSafety == Spec => []FrameLandsInCurrentSurface
BY Invariance, PTL DEF IInv

\* The safety part of the refinement: every step is a step of LatestFrame or
\* leaves newest, shown and missed alone.
THEOREM Refinement ==
    Spec => Display!Init /\ [][Display!Next]_frames
<1>1. Init => Display!Init
  BY DEF Init, Display!Init
<1>2. IInv /\ [Next]_vars => [Display!Next]_frames
  <2> SUFFICES ASSUME IInv, Next PROVE Display!Next \/ UNCHANGED frames
    BY DEF vars
  <2> USE DEF Display!Next
  <2>1. ASSUME NEW t \in Thread, Render(t) PROVE Display!Render
    BY <2>1 DEF Render, Display!Render
  <2>2. ASSUME NEW t \in Thread, FrameReady(t) PROVE UNCHANGED frames
    BY <2>2 DEF FrameReady, Try01, Try12, Schedule
  <2>3. ASSUME NEW t \in Thread, NEW m \in Mode, ModeChanged(t, m) PROVE UNCHANGED frames
    BY <2>3 DEF ModeChanged
  <2>4. ReadFrame => Display!Show
    BY DEF ReadFrame, ReadReturns, Display!Show
  <2>5. ReadNoFrame => UNCHANGED frames
    BY DEF ReadNoFrame, ReadReturns, frames
  <2>6. ReadFails => Display!Miss
    BY DEF ReadFails, ReadReturns, Display!Miss
  <2>7. BhStart \/ BhCheck \/ BhSub \/ BhTail => UNCHANGED frames
    BY DEF BhStart, BhCheck, BhSub, BhTail
  <2>. QED  BY <2>1, <2>2, <2>3, <2>4, <2>5, <2>6, <2>7 DEF Next, BhStep, BhRead
<1>. QED  BY <1>1, <1>2, Invariance, PTL DEF Spec

-----------------------------------------------------------------------------
(***************************************************************************)
(* The life cycle.                                                         *)
(***************************************************************************)

NothingQueued == bhs = 0 /\ moves = 0 /\ glyphs = {} /\ irqs = 0

\* What each stage of the device's life rules out, and the library's part in it:
\* callbacks only while there is a display, bottom halves past their check only
\* while the device runs.
Stages ==
    /\ disp = "live" <=> life = "running"
    /\ disp = "closing" => life = "stopping"
    /\ dev <=> life \in {"running", "stopping"}
    /\ disp = "none" => NoCallback
    /\ life \in {"created", "failed", "gone"} => NothingQueued /\ cursor = NoCursor
    /\ life \in {"created", "failed", "stopping", "gone"} => MainIdle
    /\ life # "running" => ~armed
    /\ life \in {"draining", "gone"} => pending = 0
    /\ bh \in {"sub", "read", "tail"} => life = "running"
    /\ bh = "sub" => pending > 0

\* Why the pointer settles: with no cursor bottom half to come, the one that is
\* running has read the latest position, and will read the latest visibility.
PointerTracked ==
    (life \in {"created", "running"} /\ moves = 0 /\ \A t \in Thread : call[t] # "moved")
        => IF moving THEN mpos = pos ELSE pointer = <<pos, show>>

\* Why one poll is enough: nothing is queued while it runs, so what it has taken is
\* all there is.
PollTakesAll ==
    /\ IsFiniteSet(glyphs)
    /\ life = "draining" => todo = Queued

LifeCore == LifeTypeOK /\ Stages /\ PointerTracked /\ CursorOwned

LifeInv == LifeCore /\ PollTakesAll

\* The length of the queue, from the sizes of its parts.
LEMMA QueuedParts ==
    ASSUME LifeTypeOK, IsFiniteSet(glyphs)
    PROVE  /\ Cardinality(glyphs) \in Nat /\ Queued \in Nat
           /\ Queued = 0 <=> NothingQueued
<1>1. Cardinality(glyphs) \in Nat /\ (Cardinality(glyphs) = 0 <=> glyphs = {})
  BY FS_CardinalityType, FS_EmptySet
<1>2. {bhs, moves, irqs} \subseteq Nat
  BY DEF LifeTypeOK, TypeOK
<1>. QED  BY <1>1, <1>2 DEF Queued, NothingQueued

LEMMA InitLifeInv == LifeInit => LifeInv
<1> SUFFICES ASSUME LifeInit PROVE LifeInv
  OBVIOUS
<1> USE DEF LifeInit, Init
<1>1. TypeOK
  <2>1. missed \in BOOLEAN
    BY Zenon
  <2>. QED  BY <2>1, ModeAssumption DEF TypeOK, Blank
<1>2. LifeTypeOK
  <2>1. {dev, armed, pushed, show, moving} \subseteq BOOLEAN /\ pointer \in Nat \X BOOLEAN
    OBVIOUS
  <2>2. call \in [Thread -> {"idle", "moved", "mode"}]
    OBVIOUS
  <2>. QED  BY <1>1, <2>1, <2>2 DEF LifeTypeOK
<1>3. Stages
  BY DEF Stages, NoCallback, NothingQueued, MainIdle
<1>4. PointerTracked /\ CursorOwned
  BY DEF PointerTracked, CursorOwned
<1>5. PollTakesAll
  BY FS_EmptySet DEF PollTakesAll
<1>. QED  BY <1>2, <1>3, <1>4, <1>5 DEF LifeInv, LifeCore

-----------------------------------------------------------------------------
\* The types survive every step; pending_frames only goes down where it was seen
\* to be positive.
LEMMA FrameTypes ==
    ASSUME TypeOK, bh = "sub" => pending > 0,
           \/ \E t \in Thread : Render(t) \/ FrameReady(t) \/ \E m \in Mode : ModeChanged(t, m)
           \/ BhStep
           \/ FrameGone
    PROVE  TypeOK' /\ (bh' = "sub" => pending' > 0)
<1>1. ASSUME NEW t \in Thread, Render(t) PROVE TypeOK' /\ (bh' = "sub" => pending' > 0)
  <2>1. missed' \in BOOLEAN
    BY <1>1, Zenon DEF Render
  <2>. QED  BY <1>1, <2>1 DEF Render, At, TypeOK
<1>2. ASSUME NEW t \in Thread, FrameReady(t) PROVE TypeOK' /\ (bh' = "sub" => pending' > 0)
  <2>1. CASE Try01(t)
    BY <2>1 DEF Try01, At, TypeOK
  <2>2. CASE Try12(t)
    BY <2>2 DEF Try12, At, TypeOK
  <2>3. CASE Schedule(t)
    BY <2>3 DEF Schedule, At, TypeOK
  <2>. QED  BY <1>2, <2>1, <2>2, <2>3 DEF FrameReady
<1>3. ASSUME NEW t \in Thread, NEW m \in Mode, ModeChanged(t, m)
      PROVE  TypeOK' /\ (bh' = "sub" => pending' > 0)
  BY <1>3 DEF ModeChanged, TypeOK, Blank
<1>4. ASSUME BhStep PROVE TypeOK' /\ (bh' = "sub" => pending' > 0)
  <2>1. CASE BhStart \/ BhCheck \/ BhSub \/ BhTail
    BY <2>1 DEF BhStart, BhCheck, BhSub, BhTail, TypeOK
  <2>2. CASE BhRead
    <3>1. missed' \in BOOLEAN
      BY <2>2, Zenon DEF BhRead, ReadFrame, ReadNoFrame, ReadFails, TypeOK
    <3>. QED  BY <2>2, <3>1 DEF BhRead, ReadFrame, ReadNoFrame, ReadFails, ReadReturns, TypeOK
  <2>. QED  BY <1>4, <2>1, <2>2 DEF BhStep
<1>5. ASSUME FrameGone PROVE TypeOK' /\ (bh' = "sub" => pending' > 0)
  BY <1>5 DEF FrameGone, TypeOK
<1>. QED  BY <1>1, <1>2, <1>3, <1>4, <1>5

-----------------------------------------------------------------------------
\* realize, the vblank timer and unrealize keep the invariant.
LEMMA MainLoopStep ==
    ASSUME LifeInv, Realize \/ RealizeFails \/ VblankTick \/ Unrealize \/ Teardown
    PROVE  LifeCore'
<1> USE DEF LifeInv, LifeCore, LifeTypeOK, TypeOK, Stages, PointerTracked, CursorOwned,
            NoCallback, NothingQueued, MainIdle, lifeVars, pointerVars, glyphVars
<1>1. CASE Realize
  BY <1>1 DEF Realize
<1>2. CASE RealizeFails
  BY <1>2 DEF RealizeFails, vars
<1>3. CASE VblankTick
  BY <1>3 DEF VblankTick, vars
<1>4. CASE Unrealize
  BY <1>4 DEF Unrealize, vars
<1>5. CASE DisplayFreed
  BY <1>5 DEF DisplayFreed, vars
<1>6. CASE DeviceFreed
  <2>1. TypeOK'
    BY <1>6 DEF DeviceFreed
  <2>2. LifeTypeOK'
    <3>1. todo' \in Nat
      BY <1>6, QueuedParts DEF DeviceFreed, PollTakesAll
    <3>2. /\ UNCHANGED <<disp, armed, pushed, call, pointerVars, glyphVars, irqs>>
          /\ life' = "draining" /\ dev' \in BOOLEAN
      BY <1>6, Zenon DEF DeviceFreed
    <3>. QED  BY <2>1, <3>1, <3>2
  <2>3. Stages'
    BY <1>6 DEF DeviceFreed
  <2>4. PointerTracked' /\ CursorOwned'
    BY <1>6 DEF DeviceFreed
  <2>. QED  BY <2>2, <2>3, <2>4
<1>7. CASE Drained
  <2>1. NothingQueued
    BY <1>7, QueuedParts DEF Drained, PollTakesAll
  <2>. QED  BY <1>7, <2>1, NoCursorAssumption DEF Drained, vars
<1>. QED  BY <1>1, <1>2, <1>3, <1>4, <1>5, <1>6, <1>7 DEF Teardown

-----------------------------------------------------------------------------
\* Callbacks on the library's threads keep the invariant.
LEMMA CallbackKeeps ==
    ASSUME LifeInv, NEW t \in Thread, Callback(t)
    PROVE  LifeCore'
<1> USE DEF LifeInv, LifeCore, CanCall, Calls, lifeVars, pointerVars, glyphVars
<1>1. ASSUME TypeOK', UNCHANGED <<bh, lifeVars, call, pointerVars, glyphVars, irqs>>,
             bh' = "sub" => pending' > 0,
             disp = "none" => pc' = pc,
             life \in {"created", "failed", "draining", "gone"} => bhs' = bhs /\ pending' = pending
      PROVE  LifeCore'
  <2>1. LifeTypeOK'
    BY <1>1 DEF LifeTypeOK
  <2>2. Stages'
    BY <1>1 DEF Stages, NoCallback, NothingQueued, MainIdle
  <2>3. PointerTracked' /\ CursorOwned'
    BY <1>1 DEF PointerTracked, CursorOwned
  <2>. QED  BY <2>1, <2>2, <2>3
<1>2. CASE CompleteFrame(t)
  <2>1. Render(t) /\ disp = "live"
    BY <1>2 DEF CompleteFrame
  <2>2. TypeOK' /\ (bh' = "sub" => pending' > 0)
    BY <2>1, FrameTypes DEF LifeTypeOK, Stages
  <2>. QED  BY <1>1, <1>2, <2>1, <2>2 DEF CompleteFrame, Render
<1>3. CASE AnnounceFrame(t)
  <2>1. FrameReady(t)
    BY <1>3 DEF AnnounceFrame
  <2>2. TypeOK' /\ (bh' = "sub" => pending' > 0)
    BY <2>1, FrameTypes DEF LifeTypeOK, Stages
  <2>3. pc[t] # "idle" /\ UNCHANGED bh
    BY <2>1 DEF FrameReady, Try01, Try12, Schedule, At
  <2>4. disp # "none" /\ life \notin {"created", "failed", "draining", "gone"}
    BY <2>3 DEF Stages, NoCallback, LifeTypeOK
  <2>. QED  BY <1>1, <1>3, <2>2, <2>3, <2>4 DEF AnnounceFrame
<1>4. CASE BeginModeChange(t)
  BY <1>4 DEF BeginModeChange, LifeTypeOK, TypeOK, Stages, PointerTracked, CursorOwned,
              NoCallback, NothingQueued, MainIdle, vars
<1>5. ASSUME NEW m \in Mode, ChangeMode(t, m) PROVE LifeCore'
  <2>1. TypeOK' /\ (bh' = "sub" => pending' > 0)
    BY <1>5, FrameTypes DEF ChangeMode, LifeTypeOK, Stages
  <2>2. LifeTypeOK'
    BY <1>5, <2>1 DEF ChangeMode, LifeTypeOK
  <2>3. Stages'
    BY <1>5 DEF ChangeMode, ModeChanged, BqlFree, Stages, NoCallback, NothingQueued, MainIdle
  <2>4. PointerTracked' /\ CursorOwned'
    BY <1>5 DEF ChangeMode, PointerTracked, CursorOwned, LifeTypeOK
  <2>. QED  BY <2>2, <2>3, <2>4
<1>6. ASSUME MoveCursor(t) \/ \E visible \in BOOLEAN : ShowCursor(t, visible) PROVE LifeCore'
  <2>1. disp = "live" /\ disp' = "live" /\ UNCHANGED <<vars, lifeVars, moves, moving, mpos, pointer,
                                                     glyphVars, irqs>>
    BY <1>6 DEF MoveCursor, ShowCursor
  <2>2. call' = [call EXCEPT ![t] = "moved"]
    BY <1>6 DEF MoveCursor, ShowCursor
  <2>3. pos' \in Nat /\ show' \in BOOLEAN
    BY <1>6 DEF MoveCursor, ShowCursor, LifeTypeOK
  <2>4. LifeTypeOK'
    BY <2>1, <2>2, <2>3 DEF LifeTypeOK, TypeOK, vars
  <2>5. Stages'
    BY <2>1 DEF Stages, NoCallback, NothingQueued, MainIdle, vars
  <2>6. PointerTracked' /\ CursorOwned'
    BY <2>1, <2>2 DEF PointerTracked, CursorOwned, LifeTypeOK
  <2>. QED  BY <2>4, <2>5, <2>6
<1>7. CASE ScheduleMove(t)
  <2>1. LifeTypeOK'
    BY <1>7 DEF ScheduleMove, LifeTypeOK, TypeOK, vars
  <2>2. Stages'
    BY <1>7 DEF ScheduleMove, Stages, NoCallback, NothingQueued, MainIdle, vars, LifeTypeOK
  <2>3. PointerTracked' /\ CursorOwned'
    BY <1>7 DEF ScheduleMove, PointerTracked, CursorOwned, LifeTypeOK
  <2>. QED  BY <2>1, <2>2, <2>3
<1>8. ASSUME NEW c \in Cursor, CursorGlyph(t, c) PROVE LifeCore'
  <2>1. LifeTypeOK'
    BY <1>8 DEF CursorGlyph, LifeTypeOK, TypeOK, vars
  <2>2. Stages'
    BY <1>8 DEF CursorGlyph, Stages, NoCallback, NothingQueued, MainIdle, vars
  <2>3. PointerTracked'
    BY <1>8 DEF CursorGlyph, PointerTracked
  <2>4. CursorOwned'
    BY <1>8, NoCursorAssumption DEF CursorGlyph, CursorOwned, Stages
  <2>. QED  BY <2>1, <2>2, <2>3, <2>4
<1>. QED  BY <1>2, <1>3, <1>4, <1>5, <1>6, <1>7, <1>8 DEF Callback

-----------------------------------------------------------------------------
\* Taking a bottom half from the queue changes nothing else of the device's life.
LEMMA DispatchKeeps ==
    ASSUME LifeTypeOK, Dispatch
    PROVE  /\ UNCHANGED <<life, disp, dev, armed, pushed>> /\ todo' \in Nat
           /\ life \in {"running", "draining"}
BY DEF Dispatch, LifeTypeOK

\* Interrupts and bottom halves keep the invariant.
LEMMA BottomHalfKeeps ==
    ASSUME LifeInv, RaiseInterrupt \/ BottomHalf
    PROVE  LifeCore'
<1> USE DEF LifeInv, LifeCore, lifeVars, pointerVars, glyphVars
<1>0. ASSUME Dispatch
      PROVE  /\ UNCHANGED <<life, disp, dev, armed, pushed>> /\ todo' \in Nat
             /\ life \in {"running", "draining"}
  BY <1>0, DispatchKeeps
<1>1. CASE RaiseInterrupt \/ InterruptBh
  <2>1. /\ UNCHANGED <<vars, life, disp, dev, armed, pushed, call, pointerVars, glyphVars>>
        /\ irqs' \in Nat /\ todo' \in Nat
    <3>1. CASE RaiseInterrupt
      BY <3>1 DEF RaiseInterrupt, LifeTypeOK
    <3>2. CASE InterruptBh
      BY <1>0, <3>2 DEF InterruptBh, LifeTypeOK
    <3>. QED  BY <1>1, <3>1, <3>2
  <2>2. life \notin {"created", "failed", "gone"}
    BY <1>0, <1>1 DEF RaiseInterrupt, InterruptBh, Stages
  <2>3. LifeTypeOK'
    BY <2>1 DEF LifeTypeOK, TypeOK, vars
  <2>4. Stages'
    BY <2>1, <2>2 DEF Stages, NoCallback, NothingQueued, MainIdle, vars
  <2>5. PointerTracked' /\ CursorOwned'
    BY <2>1 DEF PointerTracked, CursorOwned
  <2>. QED  BY <2>3, <2>4, <2>5
<1>2. CASE FrameBh
  <2>1. /\ UNCHANGED <<life, disp, dev, armed, pushed, call, pointerVars, glyphVars, irqs>>
        /\ todo' \in Nat
    <3>1. UNCHANGED <<call, pointerVars, glyphVars, irqs>> /\ (Dispatch \/ UNCHANGED lifeVars)
      BY <1>2 DEF FrameBh
    <3>. QED  BY <1>0, <3>1 DEF LifeTypeOK
  <2>2. (BhStep \/ FrameGone) /\ pc' = pc
    BY <1>2 DEF FrameBh, BhStep, BhStart, BhCheck, BhSub, BhRead, ReadFrame, ReadNoFrame,
                ReadFails, ReadReturns, BhTail, FrameGone
  <2>3. TypeOK' /\ (bh' = "sub" => pending' > 0)
    BY <2>2, FrameTypes DEF LifeTypeOK, Stages
  <2>4. life \in {"running", "draining"} /\ (life = "draining" => pending' = pending)
    BY <1>0, <1>2 DEF FrameBh, BhStart, BhCheck, BhSub, BhRead, ReadFrame, ReadNoFrame, ReadFails,
                ReadReturns, BhTail, FrameGone, Stages, MainIdle, LifeTypeOK
  <2>5. bh' \in {"sub", "read", "tail"} => life = "running"
    BY <1>2 DEF FrameBh, BhStart, BhCheck, BhSub, BhRead, ReadFrame, ReadNoFrame, ReadFails,
                ReadReturns, BhTail, FrameGone, Stages
  <2>6. LifeTypeOK'
    BY <2>1, <2>3 DEF LifeTypeOK
  <2>7. Stages'
    BY <2>1, <2>2, <2>3, <2>4, <2>5 DEF Stages, NoCallback, NothingQueued, MainIdle
  <2>8. PointerTracked' /\ CursorOwned'
    BY <2>1 DEF PointerTracked, CursorOwned
  <2>. QED  BY <2>6, <2>7, <2>8
<1>3. CASE ReadPosition
  <2>1. /\ UNCHANGED <<vars, life, disp, dev, armed, pushed, call, pos, show, pointer, glyphVars, irqs>>
        /\ todo' \in Nat /\ life \in {"running", "draining"}
    BY <1>0, <1>3 DEF ReadPosition
  <2>2. LifeTypeOK'
    BY <1>3, <2>1 DEF ReadPosition, LifeTypeOK, TypeOK, vars
  <2>3. Stages'
    BY <1>3, <2>1 DEF ReadPosition, Stages, NoCallback, NothingQueued, MainIdle, vars
  <2>4. PointerTracked'
    BY <1>3, <2>1 DEF ReadPosition, PointerTracked, Stages
  <2>5. CursorOwned'
    BY <2>1 DEF CursorOwned
  <2>. QED  BY <2>2, <2>3, <2>4, <2>5
<1>4. CASE SetPointer
  <2>1. LifeTypeOK'
    <3>1. TypeOK' /\ moving' \in BOOLEAN /\ mpos' \in Nat
      BY <1>4 DEF SetPointer, LifeTypeOK, TypeOK, vars
    <3>2. pointer' \in Nat \X BOOLEAN
      BY <1>4 DEF SetPointer, LifeTypeOK
    <3>. QED  BY <1>4, <3>1, <3>2 DEF SetPointer, LifeTypeOK
  <2>2. Stages'
    BY <1>4 DEF SetPointer, Stages, NoCallback, NothingQueued, MainIdle, vars
  <2>3. PointerTracked'
    BY <1>4 DEF SetPointer, PointerTracked
  <2>4. CursorOwned'
    BY <1>4 DEF SetPointer, CursorOwned
  <2>. QED  BY <2>1, <2>2, <2>3, <2>4
<1>5. ASSUME NEW c \in Cursor, GlyphBh(c) PROVE LifeCore'
  <2>1. /\ UNCHANGED <<vars, life, disp, dev, armed, pushed, call, pointerVars, irqs>>
        /\ todo' \in Nat /\ life \in {"running", "draining"}
    BY <1>0, <1>5 DEF GlyphBh
  <2>2. LifeTypeOK'
    BY <1>5, <2>1 DEF GlyphBh, LifeTypeOK, TypeOK, vars
  <2>3. Stages'
    BY <1>5, <2>1 DEF GlyphBh, Stages, NoCallback, NothingQueued, MainIdle, vars
  <2>4. PointerTracked'
    BY <2>1 DEF PointerTracked
  <2>5. CursorOwned'
    BY <1>5, <2>1, NoCursorAssumption DEF GlyphBh, CursorOwned
  <2>. QED  BY <2>2, <2>3, <2>4, <2>5
<1>. QED  BY <1>1, <1>2, <1>3, <1>4, <1>5 DEF BottomHalf

-----------------------------------------------------------------------------
\* What is queued while unrealize polls: nothing, and what is run has been taken.
LEMMA PollStep ==
    ASSUME LifeInv, LifeNext
    PROVE  PollTakesAll'
<1> USE DEF LifeInv, LifeCore, PollTakesAll
<1>1. Cardinality(glyphs) \in Nat /\ {bhs, moves, irqs, todo} \subseteq Nat
  BY QueuedParts DEF LifeTypeOK, TypeOK
<1>2. ASSUME IsFiniteSet(glyphs'), life' # "draining" PROVE PollTakesAll'
  BY <1>2
<1>3. ASSUME UNCHANGED <<bhs, moves, glyphs, irqs, life, todo>> PROVE PollTakesAll'
  BY <1>3 DEF Queued
<1>4. CASE Realize \/ RealizeFails \/ VblankTick \/ Unrealize \/ DisplayFreed \/ Drained
  BY <1>3, <1>4 DEF Realize, RealizeFails, VblankTick, Unrealize, DisplayFreed, Drained, vars,
                    pointerVars, glyphVars
<1>5. CASE DeviceFreed
  BY <1>5 DEF DeviceFreed, Queued, pointerVars, glyphVars
<1>6. ASSUME NEW t \in Thread, Callback(t) PROVE PollTakesAll'
  <2>1. life # "draining" /\ life' = life
    <3>1. disp = "none" => pc[t] = "idle" /\ call[t] = "idle"
      BY DEF Stages, NoCallback
    <3>2. disp # "none"
      BY <1>6, <3>1 DEF Callback, CompleteFrame, AnnounceFrame, BeginModeChange, ChangeMode,
            MoveCursor, ShowCursor, ScheduleMove, CursorGlyph, CanCall, Calls, FrameReady,
            Try01, Try12, Schedule, At
    <3>3. life' = life
      BY <1>6 DEF Callback, CompleteFrame, AnnounceFrame, BeginModeChange, ChangeMode,
            MoveCursor, ShowCursor, ScheduleMove, CursorGlyph, lifeVars
    <3>. QED  BY <3>2, <3>3 DEF Stages, LifeTypeOK
  <2>2. IsFiniteSet(glyphs')
    <3>1. CASE UNCHANGED glyphs
      BY <3>1
    <3>2. ASSUME NEW c \in Cursor, CursorGlyph(t, c) PROVE IsFiniteSet(glyphs')
      BY <3>2, FS_AddElement DEF CursorGlyph
    <3>. QED  BY <1>6, <3>1, <3>2 DEF Callback, CompleteFrame, AnnounceFrame, BeginModeChange,
                 ChangeMode, MoveCursor, ShowCursor, ScheduleMove, glyphVars
  <2>. QED  BY <1>2, <2>1, <2>2
<1>7. CASE RaiseInterrupt
  BY <1>7 DEF RaiseInterrupt, Stages, lifeVars, glyphVars
<1>8. ASSUME Dispatch, IsFiniteSet(glyphs'), Cardinality(glyphs') \in Nat,
             {bhs', moves', irqs'} \subseteq Nat,
             Cardinality(glyphs') + bhs' + moves' + irqs' + 1
                 = Cardinality(glyphs) + bhs + moves + irqs
      PROVE  PollTakesAll'
  BY <1>1, <1>8 DEF Dispatch, Queued
<1>9. CASE FrameBh
  <2>1. UNCHANGED <<moves, glyphs, irqs>>
    BY <1>9 DEF FrameBh, pointerVars, glyphVars
  <2>2. CASE Dispatch /\ BhStart
    BY <1>1, <1>8, <2>1, <2>2 DEF BhStart
  <2>3. CASE UNCHANGED lifeVars /\ UNCHANGED bhs
    BY <1>3, <2>1, <2>3 DEF lifeVars
  <2>4. CASE UNCHANGED lifeVars /\ BhTail
    BY <1>2, <2>1, <2>4 DEF BhTail, lifeVars, Stages
  <2>. QED  BY <1>9, <2>2, <2>3, <2>4 DEF FrameBh, BhCheck, BhSub, BhRead, ReadFrame,
               ReadNoFrame, ReadFails, ReadReturns, FrameGone
<1>10. CASE ReadPosition
  BY <1>1, <1>8, <1>10 DEF ReadPosition, vars, glyphVars
<1>11. CASE SetPointer
  BY <1>3, <1>11 DEF SetPointer, vars, lifeVars, glyphVars
<1>12. ASSUME NEW c \in Cursor, GlyphBh(c) PROVE PollTakesAll'
  <2>1. glyphs' = glyphs \ {c} /\ c \in glyphs
    BY <1>12 DEF GlyphBh
  <2>2. IsFiniteSet(glyphs') /\ Cardinality(glyphs') = Cardinality(glyphs) - 1
    BY <2>1, FS_RemoveElement
  <2>3. Cardinality(glyphs') \in Nat
    BY <2>2, FS_CardinalityType
  <2>. QED  BY <1>1, <1>8, <1>12, <2>2, <2>3 DEF GlyphBh, vars, pointerVars
<1>13. CASE InterruptBh
  BY <1>1, <1>8, <1>13 DEF InterruptBh, vars, pointerVars, glyphVars
<1>. QED  BY <1>4, <1>5, <1>6, <1>7, <1>9, <1>10, <1>11, <1>12, <1>13
             DEF LifeNext, Teardown, BottomHalf

-----------------------------------------------------------------------------
\* LifeInv holds of every behaviour.
THEOREM LifeInvariance == LifeSpec => []LifeInv
<1>1. LifeInv /\ [LifeNext]_allVars => LifeInv'
  <2> SUFFICES ASSUME LifeInv, [LifeNext]_allVars PROVE LifeInv'
    OBVIOUS
  <2>1. CASE UNCHANGED allVars
    BY <2>1 DEF allVars, lifeVars, pointerVars, glyphVars, vars, LifeInv, LifeTypeOK, TypeOK,
                Stages, PointerTracked, CursorOwned, NoCallback, NothingQueued, MainIdle,
                LifeCore, PollTakesAll, Queued
  <2>2. CASE LifeNext
    <3>1. LifeCore'
      BY <2>2, MainLoopStep, CallbackKeeps, BottomHalfKeeps DEF LifeNext
    <3>. QED  BY <2>2, <3>1, PollStep DEF LifeInv
  <2>. QED  BY <2>1, <2>2
<1>. QED  BY InitLifeInv, <1>1, PTL DEF LifeSpec

\* Types, in particular the cap of 2 on pending_frames, which unrealize clears
\* while frame bottom halves are still queued, and which they never make negative.
THEOREM LifeTypeCorrect == LifeSpec => []LifeTypeOK
BY LifeInvariance, PTL DEF LifeInv, LifeCore

\* The console's pointer settles where the cursor is, although cursor_show and the
\* position change without a lock (apple_gfx_cursor_show, apple_gfx_cursor_moved_bh).
THEOREM PointerSafety == LifeSpec => []PointerSettles
<1>1. LifeInv => PointerSettles
  BY DEF LifeInv, LifeCore, PointerTracked, PointerSettles
<1>. QED  BY LifeInvariance, <1>1, PTL

\* The one poll of apple_gfx_pci_unrealize leaves no bottom half of the device behind.
THEOREM TeardownSafety == LifeSpec => []QuietWhenGone
<1>1. LifeInv => QuietWhenGone
  BY QueuedParts DEF LifeInv, LifeCore, PollTakesAll, Stages, QuietWhenGone
<1>. QED  BY LifeInvariance, <1>1, PTL

\* No cursor leaks and none is released while a bottom half has it
\* (apple_gfx_cursor_glyph, apple_gfx_cursor_glyph_bh, apple_gfx_pci_unrealize).
THEOREM CursorSafety == LifeSpec => []CursorOwned
BY LifeInvariance, PTL DEF LifeInv, LifeCore
=============================================================================
