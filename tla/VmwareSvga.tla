----------------------------- MODULE VmwareSvga -----------------------------
(***************************************************************************)
(* The VMware SVGA II device above its FIFO                                *)
(* (src/hw/display/vmware_vga.c): mode registers, the redraw queue, the    *)
(* invalidated flag, the refresh of the console, reset and migration.      *)
(*                                                                         *)
(* Every handler runs to its end under the BQL, so each is one action;     *)
(* commands are whole here (their words and the concurrent guest are       *)
(* module SvgaFifo).  Pixels are abstracted to tiles, one word of width    *)
(* and height each, and to whether the console may lack what a finished    *)
(* command has announced of a tile.                                        *)
(*                                                                         *)
(* The console's surface is either vmsvga's own, which has the framebuffer *)
(* as its memory (vmsvga_check_size), so that announcing a tile shows it,  *)
(* or one with memory of its own that VGA mode or a new process left: that *)
(* one gets a tile only where vmsvga_update_rect copies it.                *)
(***************************************************************************)
EXTENDS Integers, Sequences

CONSTANTS
    MaxWidth,   \* SVGA_MAX_WIDTH, in tiles
    MaxHeight,  \* SVGA_MAX_HEIGHT, in tiles
    VgaSize,    \* the size of the surface in standard VGA mode
    RedrawLen,  \* REDRAW_FIFO_LEN
    MaxLoop,    \* maxloop of vmsvga_fifo_run
    FifoLen     \* commands the guest keeps in the FIFO at most

ASSUME SizeAssumption ==
    /\ MaxWidth \in Nat \ {0} /\ MaxHeight \in Nat \ {0}
    /\ VgaSize \in (1 .. MaxWidth) \X (1 .. MaxHeight)
ASSUME LenAssumption == RedrawLen \in Nat \ {0} /\ MaxLoop \in Nat \ {0} /\ FifoLen \in Nat

Tile == (1 .. MaxWidth) \X (1 .. MaxHeight)
Size == (0 .. MaxWidth) \X (0 .. MaxHeight)

\* UPDATE names a rectangle the guest has drawn; RECT_FILL and RECT_COPY (blit)
\* have the device draw dst, from src for a copy.
Cmd == [op : {"update"}, dst : Tile] \cup [op : {"blit"}, src : Tile, dst : Tile]

VARIABLES
    enable,       \* s->enable
    config,       \* s->config
    size,         \* <<s->new_width, s->new_height>>
    surface,      \* the size of the console's surface
    own,          \* whether its memory is the framebuffer
    invalidated,  \* s->invalidated
    redraw,       \* s->redraw_fifo, redraw_fifo_last entries
    fifo,         \* the commands in the FIFO
    stale         \* tiles the console may not show as the last finished command left them

mode == <<enable, config, size>>
vars == <<enable, config, size, surface, own, invalidated, redraw, fifo, stale>>

TypeOK ==
    /\ enable \in BOOLEAN /\ config \in BOOLEAN
    /\ size \in Size /\ surface \in Size
    /\ own \in BOOLEAN /\ invalidated \in BOOLEAN
    /\ redraw \in Seq(Tile) /\ Len(redraw) <= RedrawLen
    /\ fifo \in Seq(Cmd) /\ Len(fifo) <= FifoLen
    /\ stale \subseteq Tile

\* After realize and the first reset; nothing of the framebuffer is shown yet.
Init ==
    /\ enable = FALSE /\ config = FALSE
    /\ size = <<0, 0>> /\ surface = VgaSize
    /\ own = FALSE /\ invalidated = FALSE
    /\ redraw = <<>> /\ fifo = <<>>
    /\ stale = Tile

Accelerated == enable /\ config

\* The tiles of a surface, and vmsvga_verify_rect.
Tiles(s) == (1 .. s[1]) \X (1 .. s[2])
Fits(t, s) == t \in Tiles(s)

-----------------------------------------------------------------------------
(***************************************************************************)
(* The redraw queue.  A step of the device works on [redraw, stale], with   *)
(* the surface s and the invalidated flag inv as they are at that moment.  *)
(***************************************************************************)

\* vmsvga_update_rect copies a rectangle from the framebuffer and announces it; one
\* outside the surface stands for all of it.
Shown(t, s) == IF Fits(t, s) THEN {t} ELSE Tiles(s)

\* vmsvga_update_rect_flush: a full update is coming if the display is invalid, and the
\* queue is dropped.
Flush(r, s, inv) ==
    [redraw |-> <<>>,
     stale |-> IF inv THEN r.stale
              ELSE r.stale \ UNION {Shown(r.redraw[i], s) : i \in DOMAIN r.redraw}]

DelayedUnlimited(r, t, s, inv) == [r EXCEPT !.redraw = Append(@, t)]

\* vmsvga_update_rect_delayed: a full queue is flushed first.
Delayed(r, t, s, inv) ==
    LET room == IF Len(r.redraw) >= RedrawLen THEN Flush(r, s, inv) ELSE r
    IN  [room EXCEPT !.redraw = Append(@, t)]

\* A command; a blit that does not fit the surface is skipped as a bad one.
Run(r, c, s, inv) ==
    IF c.op = "blit" /\ ~(Fits(c.src, s) /\ Fits(c.dst, s)) THEN r
    ELSE Delayed([r EXCEPT !.stale = @ \cup {c.dst}], c.dst, s, inv)

\* The commands one vmsvga_fifo_run takes: "while (len > 0 && --maxloop > 0)".
Batch == IF ~Accelerated THEN 0 ELSE
         IF Len(fifo) < MaxLoop THEN Len(fifo) ELSE MaxLoop - 1

FifoRun(s, inv) ==
    LET done[n \in 0 .. Batch] ==
            IF n = 0 THEN [redraw |-> redraw, stale |-> stale]
            ELSE Run(done[n - 1], fifo[n], s, inv)
    IN  done[Batch]

-----------------------------------------------------------------------------
(***************************************************************************)
(* Register writes (vmsvga_value_write), one action per register.          *)
(***************************************************************************)

Submit(c) ==
    /\ Len(fifo) < FifoLen
    /\ fifo' = Append(fifo, c)
    /\ UNCHANGED <<enable, config, size, surface, own, invalidated, redraw, stale>>

WriteEnableQuietly(v) ==
    /\ enable' = v
    /\ UNCHANGED <<config, size, surface, own, invalidated, redraw, fifo, stale>>

WriteEnable(v) ==
    /\ enable' = v
    /\ invalidated' = TRUE
    /\ UNCHANGED <<config, size, surface, own, redraw, fifo, stale>>

\* SVGA_REG_WIDTH and SVGA_REG_HEIGHT: the surface follows at the next refresh.
WriteSize(n, v) ==
    /\ size' = [size EXCEPT ![n] = v]
    /\ invalidated' = TRUE
    /\ UNCHANGED <<enable, config, surface, own, redraw, fifo, stale>>

\* SVGA_REG_BITS_PER_PIXEL, a depth other than 32.
WriteBadDepth ==
    /\ config' = FALSE
    /\ invalidated' = TRUE
    /\ UNCHANGED <<enable, size, surface, own, redraw, fifo, stale>>

WriteConfigDone(v) ==
    /\ config' = v
    /\ UNCHANGED <<enable, size, surface, own, invalidated, redraw, fifo, stale>>

\* SVGA_REG_SYNC: runs the FIFO at once and clears s->syncing, which the guest reads
\* as BUSY, on the way out: every read of BUSY returns 0.
WriteSync ==
    LET r == FifoRun(surface, invalidated)
    IN  /\ redraw' = r.redraw /\ stale' = r.stale
        /\ fifo' = SubSeq(fifo, Batch + 1, Len(fifo))
        /\ UNCHANGED <<enable, config, size, surface, own, invalidated>>

-----------------------------------------------------------------------------
(***************************************************************************)
(* The console's refresh timer and redraw requests.                        *)
(***************************************************************************)

\* vmsvga_update_display in standard VGA mode: vga.c draws a picture of its own, on a
\* surface of its own, over all there was.
RefreshVga ==
    /\ ~Accelerated
    /\ surface' = VgaSize /\ own' = FALSE
    /\ stale' = Tile
    /\ UNCHANGED <<enable, config, size, invalidated, redraw, fifo>>

\* dpy_gfx_update_full announces the surface, and copies nothing to it.
FullUpdate(t, isOwn) == IF isOwn THEN t \ Tiles(size) ELSE t

RefreshBeforeSize ==
    /\ Accelerated
    /\ own' = (own \/ size # surface)
    /\ LET r == Flush(FifoRun(surface, invalidated), surface, invalidated)
       IN  /\ redraw' = r.redraw
           /\ stale' = IF invalidated THEN FullUpdate(r.stale, own') ELSE r.stale
    /\ surface' = size
    /\ fifo' = SubSeq(fifo, Batch + 1, Len(fifo))
    /\ invalidated' = FALSE
    /\ UNCHANGED mode

\* vmsvga_update_display: a surface over the framebuffer if the size is a new one (an
\* equal one is kept, whoever made it), the FIFO, the queue, and a full update if the
\* display is invalid.
Refresh ==
    /\ Accelerated
    /\ own' = (own \/ size # surface)
    /\ LET inv == invalidated \/ size # surface
           r == Flush(FifoRun(size, inv), size, inv)
       IN  /\ redraw' = r.redraw
           /\ stale' = IF inv THEN FullUpdate(r.stale, own') ELSE r.stale
    /\ surface' = size
    /\ fifo' = SubSeq(fifo, Batch + 1, Len(fifo))
    /\ invalidated' = FALSE
    /\ UNCHANGED mode

\* vmsvga_invalidate_display: in VGA mode it is vga.c's business.
Invalidate ==
    /\ enable
    /\ invalidated' = TRUE
    /\ UNCHANGED <<enable, config, size, surface, own, redraw, fifo, stale>>

-----------------------------------------------------------------------------

\* vmsvga_reset; the mode registers and the flag stay.
Reset ==
    /\ enable' = FALSE /\ config' = FALSE
    /\ redraw' = <<>>
    /\ UNCHANGED <<size, surface, own, invalidated, fifo, stale>>

\* Migration to a new process: the mode registers and the guest's memory arrive,
\* the surface is a new one, the queue (not in the VMState) is empty;
\* vmsvga_post_load sets invalidated.
PostLoad ==
    /\ surface' = VgaSize /\ own' = FALSE
    /\ redraw' = <<>>
    /\ invalidated' = TRUE
    /\ stale' = Tile
    /\ UNCHANGED mode /\ UNCHANGED fifo

Next ==
    \/ \E c \in Cmd : Submit(c)
    \/ \E v \in BOOLEAN : WriteEnable(v) \/ WriteConfigDone(v)
    \/ \E v \in 0 .. MaxWidth : WriteSize(1, v)
    \/ \E v \in 0 .. MaxHeight : WriteSize(2, v)
    \/ WriteBadDepth \/ WriteSync
    \/ RefreshVga \/ Refresh \/ Invalidate
    \/ Reset \/ PostLoad

Spec == Init /\ [][Next]_vars

-----------------------------------------------------------------------------
(***************************************************************************)
(* Correctness.                                                            *)
(***************************************************************************)

\* On its own surface the device owes the console every update the guest was told is
\* done: as long as a tile on it may not be shown, it is in the queue, or the queue
\* holds a rectangle that will redraw everything, or a full update is due
\* (invalidated, or a surface of another size to come).  A reset empties the queue,
\* and so does the queue's limit; the debt must survive both.
NoLostUpdate ==
    Accelerated /\ own /\ surface = size /\ ~invalidated =>
        stale \cap Tiles(surface) \subseteq UNION {Shown(redraw[i], surface) : i \in DOMAIN redraw}

\* A refresh that ends on the device's own surface, kept or new, leaves nothing of it
\* unshown, whatever modes, queue limits and migrations came before.  A surface of the
\* guest's size that VGA mode or a migration left is kept as it is
\* (vmware_vga.c:1139-1141) and gets no more than the rectangles queued on a valid
\* display.
RefreshShowsAll == [][Refresh /\ own' => stale' \cap Tiles(surface') = {}]_vars
=============================================================================
