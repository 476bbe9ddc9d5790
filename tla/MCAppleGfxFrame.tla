------------------------- MODULE MCAppleGfxFrame -------------------------
(* AppleGfxFrame for TLC: the renderer stops after MaxFrame frames.         *)
EXTENDS AppleGfxFrame

CONSTANT MaxFrame

MCRender(t) == newest < MaxFrame /\ Render(t)

MCNext ==
    \/ \E t \in Thread : MCRender(t) \/ FrameReady(t)
    \/ \E t \in Thread, m \in Mode : ModeChanged(t, m)
    \/ BhStep

MCSpec == Init /\ [][MCNext]_vars /\ Fairness
=============================================================================
