----------------------- MODULE MCAppleGfxLifecycle -----------------------
(* AppleGfxLifecycle for TLC: the library stops after MaxFrame frames and    *)
(* MaxMove moves, and begins no callback that leaves a bottom half while     *)
(* MaxQueued are waiting.                                                    *)
EXTENDS AppleGfxLifecycle

CONSTANTS MaxFrame, MaxMove, MaxQueued

HasRoom == Queued < MaxQueued

MCCallback(t) ==
    \/ newest < MaxFrame /\ HasRoom /\ CompleteFrame(t)
    \/ AnnounceFrame(t)
    \/ BeginModeChange(t) \/ \E m \in Mode : ChangeMode(t, m)
    \/ pos < MaxMove /\ HasRoom /\ MoveCursor(t)
    \/ HasRoom /\ \E visible \in BOOLEAN : ShowCursor(t, visible)
    \/ ScheduleMove(t)
    \/ HasRoom /\ \E c \in Cursor : CursorGlyph(t, c)

MCNext ==
    \/ Realize \/ RealizeFails \/ VblankTick \/ Unrealize \/ Teardown
    \/ \E t \in Thread : MCCallback(t)
    \/ HasRoom /\ RaiseInterrupt
    \/ BottomHalf

MCSpec == LifeInit /\ [][MCNext]_allVars /\ LifeFairness
=============================================================================
