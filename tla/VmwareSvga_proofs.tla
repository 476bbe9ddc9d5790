-------------------------- MODULE VmwareSvga_proofs --------------------------
(***************************************************************************)
(* Proofs about VmwareSvga for every size of the screen, of the redraw     *)
(* queue and of the FIFO, and every number of commands a run takes.        *)
(***************************************************************************)
EXTENDS VmwareSvga, WellFoundedInduction, TLAPS

\* What the device works on while it runs the FIFO.
Queues == {r \in [redraw : Seq(Tile), stale : SUBSET Tile] : Len(r.redraw) <= RedrawLen}

\* The tiles a flush of queue q shows on a surface of size s.
Cover(q, s) == UNION {Shown(q[i], s) : i \in DOMAIN q}

\* The next flush shows whatever of T is on the surface.
Covered(T, q, s) == T \cap Tiles(s) \subseteq Cover(q, s)

\* While the display is valid, the device's own surface has the guest's size, and the
\* queue covers the debt also while CONFIG_DONE is 0, which the guest may set again
\* without an invalidation.
DebtIsQueued ==
    enable /\ own /\ ~invalidated => surface = size /\ Covered(stale, redraw, surface)

IInv == TypeOK /\ DebtIsQueued

-----------------------------------------------------------------------------
(***************************************************************************)
(* The redraw queue.                                                       *)
(***************************************************************************)

\* A rectangle on the surface is shown by its own update, or by a full one.
LEMMA ShownResult ==
    ASSUME NEW t \in Tile, NEW s PROVE {t} \cap Tiles(s) \subseteq Shown(t, s)
BY DEF Shown, Fits

\* vmsvga_update_rect_flush empties the queue and, if no full update is due, the debt.
LEMMA FlushResult ==
    ASSUME NEW r \in Queues, NEW s, NEW inv \in BOOLEAN
    PROVE  /\ Flush(r, s, inv) \in Queues
           /\ Flush(r, s, inv).redraw = <<>>
           /\ Flush(r, s, inv).stale \subseteq r.stale
           /\ \A T : ~inv /\ Covered(T, r.redraw, s)
                        => Flush(r, s, inv).stale \cap T \cap Tiles(s) = {}
<1> DEFINE f == Flush(r, s, inv)
           stale1 == IF inv THEN r.stale ELSE r.stale \ Cover(r.redraw, s)
<1>1. r.stale \subseteq Tile /\ RedrawLen \in Nat
  BY LenAssumption DEF Queues
<1>2. f = [redraw |-> <<>>, stale |-> stale1]
  BY DEF Flush, Cover
<1>3. stale1 \subseteq r.stale
  OBVIOUS
<1>4. f.redraw = <<>> /\ f.stale = stale1
  BY <1>2
<1>5. f \in Queues
  <2>1. <<>> \in Seq(Tile) /\ Len(<<>>) <= RedrawLen /\ stale1 \in SUBSET Tile
    BY <1>1, <1>3
  <2> HIDE DEF stale1, f
  <2> QED
    BY <2>1, <1>2, <1>4 DEF Queues
<1>6. ASSUME NEW T, ~inv, Covered(T, r.redraw, s) PROVE f.stale \cap T \cap Tiles(s) = {}
  BY <1>4, <1>6 DEF Covered
<1> QED
  BY <1>3, <1>4, <1>5, <1>6

\* vmsvga_update_rect_delayed: the queue keeps its bound, and covers the new tile as
\* well as those it covered, or has just shown them.
LEMMA DelayedResult ==
    ASSUME NEW r \in Queues, NEW t \in Tile, NEW s, NEW inv \in BOOLEAN
    PROVE  /\ Delayed(r, t, s, inv) \in Queues
           /\ ~inv /\ Covered(r.stale \ {t}, r.redraw, s)
                => Covered(Delayed(r, t, s, inv).stale, Delayed(r, t, s, inv).redraw, s)
<1> DEFINE room == IF Len(r.redraw) >= RedrawLen THEN Flush(r, s, inv) ELSE r
           d == Delayed(r, t, s, inv)
<1>1. d = [room EXCEPT !.redraw = Append(room.redraw, t)]
  BY DEF Delayed
<1>2. /\ Flush(r, s, inv) \in Queues /\ Flush(r, s, inv).redraw = <<>>
      /\ Flush(r, s, inv).stale \subseteq r.stale
      /\ ~inv /\ Covered(r.stale \ {t}, r.redraw, s)
            => Flush(r, s, inv).stale \cap (r.stale \ {t}) \cap Tiles(s) = {}
  BY FlushResult
<1>3. room \in Queues /\ Len(room.redraw) < RedrawLen /\ room.stale \subseteq r.stale
  <2>1. CASE Len(r.redraw) >= RedrawLen
    BY <2>1, <1>2, LenAssumption
  <2>2. CASE ~(Len(r.redraw) >= RedrawLen)
    BY <2>2, LenAssumption DEF Queues
  <2> QED
    BY <2>1, <2>2
<1>4. ~inv /\ Covered(r.stale \ {t}, r.redraw, s) => Covered(room.stale \ {t}, room.redraw, s)
  <2>1. CASE Len(r.redraw) >= RedrawLen
    BY <2>1, <1>2 DEF Covered
  <2>2. CASE ~(Len(r.redraw) >= RedrawLen)
    BY <2>2
  <2> QED
    BY <2>1, <2>2
<1> DEFINE q == room.redraw
           n == Len(q)
<1>5. q \in Seq(Tile) /\ n \in Nat /\ n < RedrawLen /\ RedrawLen \in Nat
  BY <1>3, LenAssumption DEF Queues
<1>6. /\ Append(q, t) \in Seq(Tile) /\ Len(Append(q, t)) = n + 1
      /\ DOMAIN q = 1 .. n /\ DOMAIN Append(q, t) = 1 .. n + 1
      /\ \A i \in 1 .. n : Append(q, t)[i] = q[i]
      /\ Append(q, t)[n + 1] = t
  BY <1>5
<1>7. d.redraw = Append(q, t) /\ d.stale = room.stale /\ d \in [redraw : Seq(Tile), stale : SUBSET Tile]
  BY <1>1, <1>3, <1>6 DEF Queues
<1>8. n + 1 <= RedrawLen
  <2> HIDE DEF n
  <2> QED
    BY <1>5
<1>9. d \in Queues
  <2> HIDE DEF d, q, n, room
  <2>1. Len(d.redraw) <= RedrawLen
    BY <1>6, <1>7, <1>8
  <2> QED
    BY <2>1, <1>7 DEF Queues
<1> HIDE DEF d, room, q, n
<1>10. Cover(q, s) \subseteq Cover(Append(q, t), s) /\ Shown(t, s) \subseteq Cover(Append(q, t), s)
  <2> DEFINE a == Append(q, t)
  <2>1. \A i \in DOMAIN q : i \in DOMAIN a /\ a[i] = q[i]
    BY <1>5, <1>6
  <2>2. n + 1 \in DOMAIN a /\ a[n + 1] = t
    BY <1>5, <1>6
  <2> HIDE DEF a
  <2>3. Cover(q, s) \subseteq Cover(a, s)
    BY <2>1 DEF Cover
  <2>4. Shown(t, s) \subseteq Cover(a, s)
    BY <2>2 DEF Cover
  <2> QED
    BY <2>3, <2>4 DEF a
<1>11. ASSUME ~inv, Covered(r.stale \ {t}, r.redraw, s) PROVE Covered(d.stale, d.redraw, s)
  <2>1. Covered(room.stale \ {t}, q, s)
    BY <1>4, <1>11 DEF q
  <2>2. {t} \cap Tiles(s) \subseteq Shown(t, s)
    BY ShownResult
  <2> QED
    BY <2>1, <2>2, <1>7, <1>10 DEF Covered
<1> QED
  BY <1>9, <1>11 DEF d

\* A command adds to the debt only what it queues.
LEMMA RunResult ==
    ASSUME NEW r \in Queues, NEW c \in Cmd, NEW s, NEW inv \in BOOLEAN
    PROVE  /\ Run(r, c, s, inv) \in Queues
           /\ ~inv /\ Covered(r.stale, r.redraw, s)
                => Covered(Run(r, c, s, inv).stale, Run(r, c, s, inv).redraw, s)
<1>1. CASE c.op = "blit" /\ ~(Fits(c.src, s) /\ Fits(c.dst, s))
  BY <1>1 DEF Run
<1>2. CASE ~(c.op = "blit" /\ ~(Fits(c.src, s) /\ Fits(c.dst, s)))
  <2> DEFINE u == [r EXCEPT !.stale = r.stale \cup {c.dst}]
             t == c.dst
  <2>1. Run(r, c, s, inv) = Delayed(u, t, s, inv)
    BY <1>2 DEF Run
  <2>2. t \in Tile
    BY DEF Cmd
  <2>3. r \in [redraw : Seq(Tile), stale : SUBSET Tile] /\ Len(r.redraw) <= RedrawLen
    BY DEF Queues
  <2>4. u.redraw = r.redraw /\ u.stale = r.stale \cup {t} /\ u \in [redraw : Seq(Tile), stale : SUBSET Tile]
    BY <2>2, <2>3
  <2> HIDE DEF u, t
  <2>5. u \in Queues
    BY <2>3, <2>4 DEF Queues
  <2>6. Covered(r.stale, r.redraw, s) => Covered(u.stale \ {t}, u.redraw, s)
    BY <2>4 DEF Covered
  <2> QED
    BY <2>1, <2>2, <2>5, <2>6, DelayedResult
<1> QED
  BY <1>1, <1>2

-----------------------------------------------------------------------------
(***************************************************************************)
(* A run of the FIFO.  The run is a function defined by recursion on the   *)
(* number of commands taken; that it exists, and what it preserves, follow *)
(* by the least number for which they would fail.                          *)
(***************************************************************************)

\* The least element of a set of numbers.
LEMMA LeastOf ==
    ASSUME NEW T, T \subseteq Nat, T # {}
    PROVE  \E m \in T : \A k \in T : ~(k < m)
<1>1. PICK m \in T : \A k \in T : ~(<<k, m>> \in OpToRel(<, Nat))
  BY NatLessThanWellFounded, WFMin, Zenon
<1>2. \A k \in T : ~(k < m)
  BY <1>1 DEF OpToRel
<1> QED
  BY <1>2

\* f is the run of the first n of the commands c, from r on.
IsRun(f, n, r, c, s, inv) ==
    f = [k \in 0 .. n |-> IF k = 0 THEN r ELSE Run(f[k - 1], c[k], s, inv)]

LEMMA RunExists ==
    ASSUME NEW r, NEW c, NEW s, NEW inv, NEW n \in Nat
    PROVE  \E f : IsRun(f, n, r, c, s, inv)
<1> DEFINE T == {m \in Nat : ~\E f : IsRun(f, m, r, c, s, inv)}
<1>1. SUFFICES ASSUME T # {} PROVE FALSE
  BY <1>1
<1>2. PICK m \in T : \A k \in T : ~(k < m)
  BY <1>1, LeastOf
<1>3. m \in Nat /\ ~\E f : IsRun(f, m, r, c, s, inv)
  OBVIOUS
<1>4. CASE m = 0
  <2> DEFINE f == [k \in 0 .. 0 |-> r]
  <2>1. \A k \in 0 .. 0 : k = 0
    OBVIOUS
  <2>2. f = [k \in 0 .. 0 |-> IF k = 0 THEN r ELSE Run(f[k - 1], c[k], s, inv)]
    BY <2>1
  <2> HIDE DEF f
  <2>3. IsRun(f, 0, r, c, s, inv)
    BY <2>2 DEF IsRun
  <2> QED
    BY <2>3, <1>3, <1>4
<1>5. CASE m > 0
  <2>1. m - 1 \in Nat /\ m - 1 < m
    BY <1>3, <1>5
  <2>2. m - 1 \notin T
    BY <1>2, <2>1
  <2>3. PICK g : IsRun(g, m - 1, r, c, s, inv)
    BY <2>1, <2>2
  <2>4. \A k \in 0 .. m - 1 : g[k] = IF k = 0 THEN r ELSE Run(g[k - 1], c[k], s, inv)
    BY <2>3 DEF IsRun
  <2> DEFINE f == [k \in 0 .. m |-> IF k = m THEN Run(g[m - 1], c[m], s, inv) ELSE g[k]]
             h == [k \in 0 .. m |-> IF k = 0 THEN r ELSE Run(f[k - 1], c[k], s, inv)]
  <2>5. /\ \A k \in 0 .. m : f[k] = IF k = m THEN Run(g[m - 1], c[m], s, inv) ELSE g[k]
        /\ DOMAIN f = 0 .. m /\ f = [k \in 0 .. m |-> f[k]]
    OBVIOUS
  <2>6. h = [k \in 0 .. m |-> IF k = 0 THEN r ELSE Run(f[k - 1], c[k], s, inv)]
    OBVIOUS
  <2> HIDE DEF f
  <2>7. ASSUME NEW k \in 0 .. m
        PROVE  f[k] = IF k = 0 THEN r ELSE Run(f[k - 1], c[k], s, inv)
    <3>1. CASE k = 0
      <4>1. k \in 0 .. m - 1 /\ k # m
        BY <3>1, <2>1, <1>5
      <4> QED
        BY <3>1, <4>1, <2>4, <2>5
    <3>2. CASE k = m
      <4>1. m \in 0 .. m /\ m - 1 \in 0 .. m /\ m - 1 # m /\ m # 0
        BY <1>3, <1>5
      <4>2. f[m] = Run(g[m - 1], c[m], s, inv) /\ f[m - 1] = g[m - 1]
        BY <4>1, <2>5
      <4> QED
        BY <3>2, <4>1, <4>2
    <3>3. CASE k # 0 /\ k # m
      <4>1. k \in 0 .. m - 1 /\ k - 1 \in 0 .. m /\ k - 1 # m
        BY <3>3, <1>3
      <4>2. f[k] = g[k] /\ f[k - 1] = g[k - 1]
        BY <3>3, <4>1, <2>5
      <4>3. g[k] = Run(g[k - 1], c[k], s, inv)
        BY <3>3, <4>1, <2>4
      <4> QED
        BY <3>3, <4>2, <4>3
    <3> QED
      BY <3>1, <3>2, <3>3
  <2>8. f = h
    BY <2>5, <2>6, <2>7
  <2>9. IsRun(f, m, r, c, s, inv)
    BY <2>6, <2>8 DEF IsRun
  <2> QED
    BY <2>9, <1>3
<1> QED
  BY <1>3, <1>4, <1>5

\* Every command of a run keeps the queue and, on a valid display, what it covers.
LEMMA RunKeeps ==
    ASSUME NEW r \in Queues, NEW c, NEW s, NEW inv \in BOOLEAN, NEW n \in Nat,
           \A k \in 1 .. n : c[k] \in Cmd,
           NEW f, IsRun(f, n, r, c, s, inv)
    PROVE  /\ f[n] \in Queues
           /\ ~inv /\ Covered(r.stale, r.redraw, s) => Covered(f[n].stale, f[n].redraw, s)
<1> DEFINE P(k) == /\ f[k] \in Queues
                   /\ ~inv /\ Covered(r.stale, r.redraw, s) => Covered(f[k].stale, f[k].redraw, s)
           T == {k \in 0 .. n : ~P(k)}
<1>1. \A k \in 0 .. n : f[k] = IF k = 0 THEN r ELSE Run(f[k - 1], c[k], s, inv)
  BY DEF IsRun
<1>2. SUFFICES ASSUME T # {} PROVE FALSE
  BY <1>2
<1>3. PICK m \in T : \A k \in T : ~(k < m)
  <2>1. T \subseteq Nat
    OBVIOUS
  <2> HIDE DEF T
  <2> QED
    BY <1>2, <2>1, LeastOf
<1>4. m \in 0 .. n /\ ~P(m)
  OBVIOUS
<1>5. CASE m = 0
  <2>1. f[m] = r
    BY <1>1, <1>4, <1>5
  <2>2. P(m)
    BY <2>1
  <2> QED
    BY <2>2, <1>4
<1>6. CASE m # 0
  <2>1. m - 1 \in 0 .. n /\ m - 1 < m /\ m \in 1 .. n
    BY <1>4, <1>6
  <2>2. P(m - 1)
    BY <2>1, <1>3
  <2>3. f[m] = Run(f[m - 1], c[m], s, inv) /\ c[m] \in Cmd
    BY <1>1, <1>6, <2>1
  <2>4. P(m)
    BY <2>2, <2>3, RunResult
  <2> QED
    BY <2>4, <1>4
<1> QED
  BY <1>5, <1>6

\* vmsvga_fifo_run, with the surface and the flag as they are when it is called.
LEMMA FifoRunResult ==
    ASSUME TypeOK, NEW s, NEW inv \in BOOLEAN
    PROVE  /\ FifoRun(s, inv) \in Queues
           /\ ~inv /\ Covered(stale, redraw, s)
                => Covered(FifoRun(s, inv).stale, FifoRun(s, inv).redraw, s)
<1> DEFINE r == [redraw |-> redraw, stale |-> stale]
<1>1. r \in Queues /\ r.stale = stale /\ r.redraw = redraw
  BY DEF TypeOK, Queues
<1>2. Batch \in Nat /\ \A k \in 1 .. Batch : fifo[k] \in Cmd
  <2> DEFINE l == Len(fifo)
  <2>1. fifo \in Seq(Cmd) /\ MaxLoop \in Nat \ {0} /\ l \in Nat /\ \A k \in 1 .. l : fifo[k] \in Cmd
    BY LenAssumption DEF TypeOK
  <2>2. Batch = IF ~Accelerated THEN 0 ELSE IF l < MaxLoop THEN l ELSE MaxLoop - 1
    BY DEF Batch
  <2> HIDE DEF l
  <2> QED
    BY <2>1, <2>2
<1>3. PICK g : IsRun(g, Batch, r, fifo, s, inv)
  BY <1>2, RunExists
<1> DEFINE done == CHOOSE f : f = [n \in 0 .. Batch |-> IF n = 0 THEN r ELSE Run(f[n - 1], fifo[n], s, inv)]
<1>4. FifoRun(s, inv) = done[Batch]
  BY DEF FifoRun
<1>5. IsRun(done, Batch, r, fifo, s, inv)
  BY <1>3 DEF IsRun
<1> HIDE DEF done, r
<1>6. /\ done[Batch] \in Queues
      /\ ~inv /\ Covered(r.stale, r.redraw, s) => Covered(done[Batch].stale, done[Batch].redraw, s)
  BY <1>1, <1>2, <1>5, RunKeeps
<1> QED
  BY <1>1, <1>4, <1>6

-----------------------------------------------------------------------------
(***************************************************************************)
(* The invariant.                                                          *)
(***************************************************************************)

\* The console starts in VGA mode, on a surface that is not the device's.
LEMMA InitIInv == Init => IInv
<1> SUFFICES ASSUME Init PROVE IInv
  OBVIOUS
<1>1. VgaSize \in Size /\ <<0, 0>> \in Size
  BY SizeAssumption DEF Size
<1>2. /\ <<>> \in Seq(Tile) /\ Len(<<>>) <= RedrawLen
      /\ <<>> \in Seq(Cmd) /\ Len(<<>>) <= FifoLen
  BY LenAssumption
<1>3. TypeOK
  BY <1>1, <1>2 DEF Init, TypeOK
<1> QED
  BY <1>3 DEF Init, IInv, DebtIsQueued

\* What is left of the FIFO after a run.
LEMMA FifoLeft ==
    ASSUME TypeOK
    PROVE  /\ SubSeq(fifo, Batch + 1, Len(fifo)) \in Seq(Cmd)
           /\ Len(SubSeq(fifo, Batch + 1, Len(fifo))) <= FifoLen
<1> DEFINE l == Len(fifo)
<1>1. fifo \in Seq(Cmd) /\ l \in Nat /\ l <= FifoLen /\ MaxLoop \in Nat \ {0} /\ FifoLen \in Nat
  BY LenAssumption DEF TypeOK
<1>2. Batch = IF ~Accelerated THEN 0 ELSE IF l < MaxLoop THEN l ELSE MaxLoop - 1
  BY DEF Batch
<1> DEFINE b == Batch + 1
<1>3. b \in Nat /\ b >= 1 /\ b <= l + 1
  <2> HIDE DEF l
  <2> QED
    BY <1>1, <1>2
<1> HIDE DEF b
<1>4. \A i \in b .. l : fifo[i] \in Cmd
  BY <1>1, <1>3
<1>5. SubSeq(fifo, b, l) = [i \in 1 .. l - b + 1 |-> fifo[b + i - 1]]
  BY <1>1, <1>3
<1> DEFINE n == l - b + 1
           q == SubSeq(fifo, b, l)
<1> HIDE DEF l
<1>6. n \in Nat /\ n <= FifoLen
  BY <1>1, <1>3
<1>7. q \in Seq(Cmd) /\ Len(q) = n
  <2>1. \A i \in 1 .. n : fifo[b + i - 1] \in Cmd
    <3>1. \A i \in 1 .. n : b + i - 1 \in b .. l
      BY <1>1, <1>3
    <3> QED
      BY <3>1, <1>4
  <2>2. q = [i \in 1 .. n |-> fifo[b + i - 1]]
    BY <1>5
  <2> HIDE DEF n, q
  <2> QED
    BY <2>1, <2>2, <1>6
<1> QED
  BY <1>6, <1>7, Zenon DEF q, b, l

\* SYNC: the FIFO is run on the surface the console has.
LEMMA SyncKeeps ==
    ASSUME IInv, WriteSync
    PROVE  IInv'
<1> DEFINE r == FifoRun(surface, invalidated)
<1>1. /\ redraw' = r.redraw /\ stale' = r.stale
      /\ fifo' = SubSeq(fifo, Batch + 1, Len(fifo))
      /\ UNCHANGED <<enable, config, size, surface, own, invalidated>>
  BY DEF WriteSync
<1>2. TypeOK /\ DebtIsQueued
  BY DEF IInv
<1>3. fifo' \in Seq(Cmd) /\ Len(fifo') <= FifoLen
  BY <1>1, <1>2, FifoLeft
<1>4. /\ r \in Queues
      /\ ~invalidated /\ Covered(stale, redraw, surface) => Covered(r.stale, r.redraw, surface)
  BY <1>2, FifoRunResult DEF TypeOK
<1> HIDE DEF r
<1>5. TypeOK'
  BY <1>1, <1>2, <1>3, <1>4 DEF TypeOK, Queues
<1>6. DebtIsQueued'
  BY <1>1, <1>2, <1>4 DEF DebtIsQueued
<1> QED
  BY <1>5, <1>6 DEF IInv

\* A refresh shows all that is owed to the console on the device's own surface.
LEMMA RefreshResult ==
    ASSUME IInv, Refresh
    PROVE  IInv' /\ (own' => stale' \cap Tiles(surface') = {})
<1> DEFINE inv == invalidated \/ size # surface
           r == FifoRun(size, inv)
           f == Flush(r, size, inv)
<1>1. /\ enable /\ config
      /\ redraw' = f.redraw /\ stale' = IF inv /\ own' THEN f.stale \ Tiles(size) ELSE f.stale
      /\ surface' = size /\ invalidated' = FALSE
      /\ fifo' = SubSeq(fifo, Batch + 1, Len(fifo))
      /\ UNCHANGED <<enable, config, size>>
  BY DEF Refresh, FullUpdate, Accelerated, mode
<1>2. TypeOK /\ DebtIsQueued
  BY DEF IInv
<1>3. fifo' \in Seq(Cmd) /\ Len(fifo') <= FifoLen
  BY <1>1, <1>2, FifoLeft
<1>4. inv \in BOOLEAN
  OBVIOUS
<1>5. ~inv /\ own' => Covered(stale, redraw, size)
  BY <1>1, <1>2 DEF DebtIsQueued, Refresh
<1>5a. own' \in BOOLEAN
  BY <1>2 DEF TypeOK, Refresh
<1> HIDE DEF inv
<1>6. r \in Queues /\ (~inv /\ own' => Covered(r.stale, r.redraw, size))
  BY <1>2, <1>4, <1>5, FifoRunResult
<1> HIDE DEF r
<1>7. /\ f \in Queues /\ f.redraw = <<>> /\ f.stale \subseteq r.stale
      /\ ~inv /\ own' => f.stale \cap r.stale \cap Tiles(size) = {}
  BY <1>4, <1>6, FlushResult
<1> HIDE DEF f
<1>8. (own' => stale' \cap Tiles(size) = {}) /\ stale' \subseteq Tile /\ redraw' \in Seq(Tile) /\ Len(redraw') <= RedrawLen
  <2>1. f.stale \subseteq Tile /\ f.redraw \in Seq(Tile) /\ Len(f.redraw) <= RedrawLen
    BY <1>7 DEF Queues
  <2> QED
    BY <2>1, <1>1, <1>7
<1>9. TypeOK'
  BY <1>1, <1>2, <1>3, <1>5a, <1>8 DEF TypeOK
<1>10. DebtIsQueued'
  BY <1>1, <1>8 DEF DebtIsQueued, Covered
<1> QED
  BY <1>1, <1>8, <1>9, <1>10 DEF IInv

\* Every step keeps the invariant: whatever invalidates the display leaves the debt to a
\* full update, and nothing but a refresh takes that back.
LEMMA StepIInv == IInv /\ [Next]_vars => IInv'
<1> SUFFICES ASSUME IInv, [Next]_vars PROVE IInv'
  OBVIOUS
<1> USE DEF IInv
<1>1. ASSUME NEW c \in Cmd, Submit(c) PROVE IInv'
  <2>1. Len(fifo) < FifoLen /\ fifo' = Append(fifo, c) /\ fifo \in Seq(Cmd) /\ FifoLen \in Nat
        /\ UNCHANGED <<enable, config, size, surface, own, invalidated, redraw, stale>>
    BY <1>1, LenAssumption DEF Submit, TypeOK
  <2>2. fifo' \in Seq(Cmd) /\ Len(fifo') <= FifoLen
    BY <2>1
  <2> QED
    BY <2>1, <2>2 DEF TypeOK, DebtIsQueued
<1>2. ASSUME NEW v \in BOOLEAN, WriteEnable(v) PROVE IInv'
  BY <1>2 DEF WriteEnable, TypeOK, DebtIsQueued
<1>3. ASSUME NEW v \in BOOLEAN, WriteConfigDone(v) PROVE IInv'
  BY <1>3 DEF WriteConfigDone, TypeOK, DebtIsQueued
<1>4. ASSUME NEW v \in 0 .. MaxWidth, WriteSize(1, v) PROVE IInv'
  <2>1. size \in Size /\ size' = [size EXCEPT ![1] = v]
    BY <1>4 DEF WriteSize, TypeOK
  <2>2. size' = <<v, size[2]>> /\ size[1] \in 0 .. MaxWidth /\ size[2] \in 0 .. MaxHeight
    BY <2>1 DEF Size
  <2>3. size' \in Size
    BY <2>2 DEF Size
  <2> QED
    BY <1>4, <2>3 DEF WriteSize, TypeOK, DebtIsQueued
<1>5. ASSUME NEW v \in 0 .. MaxHeight, WriteSize(2, v) PROVE IInv'
  <2>1. size \in Size /\ size' = [size EXCEPT ![2] = v]
    BY <1>5 DEF WriteSize, TypeOK
  <2>2. size' = <<size[1], v>> /\ size[1] \in 0 .. MaxWidth /\ size[2] \in 0 .. MaxHeight
    BY <2>1 DEF Size
  <2>3. size' \in Size
    BY <2>2 DEF Size
  <2> QED
    BY <1>5, <2>3 DEF WriteSize, TypeOK, DebtIsQueued
<1>6. CASE WriteBadDepth
  BY <1>6 DEF WriteBadDepth, TypeOK, DebtIsQueued
<1>7. CASE WriteSync
  BY <1>7, SyncKeeps
<1>8. CASE RefreshVga
  <2>1. VgaSize \in Size
    BY SizeAssumption DEF Size
  <2> QED
    BY <1>8, <2>1 DEF RefreshVga, TypeOK, DebtIsQueued
<1>9. CASE Refresh
  BY <1>9, RefreshResult
<1>10. CASE Invalidate
  BY <1>10 DEF Invalidate, TypeOK, DebtIsQueued
<1>11. CASE Reset
  <2>1. <<>> \in Seq(Tile) /\ Len(<<>>) <= RedrawLen
    BY LenAssumption
  <2> QED
    BY <1>11, <2>1 DEF Reset, TypeOK, DebtIsQueued
<1>12. CASE PostLoad
  <2>1. <<>> \in Seq(Tile) /\ Len(<<>>) <= RedrawLen /\ VgaSize \in Size
    BY LenAssumption, SizeAssumption DEF Size
  <2> QED
    BY <1>12, <2>1 DEF PostLoad, mode, TypeOK, DebtIsQueued
<1>13. CASE UNCHANGED vars
  BY <1>13 DEF vars, TypeOK, DebtIsQueued
<1> QED
  BY <1>1, <1>2, <1>3, <1>4, <1>5, <1>6, <1>7, <1>8, <1>9, <1>10, <1>11, <1>12, <1>13 DEF Next

\* The inductive invariant holds in every state of every behaviour.
THEOREM Invariance == Spec => []IInv
BY InitIInv, StepIInv, PTL DEF Spec

\* The redraw queue keeps its bound, and nothing off the screen is announced.
THEOREM TypeCorrect == Spec => []TypeOK
BY Invariance, PTL DEF IInv

\* On the device's own surface, what a finished command has announced is queued or due
\* with a full update (vmsvga_update_rect_delayed, vmsvga_update_rect_flush, the
\* invalidated flag).
THEOREM UpdatesKept == Spec => []NoLostUpdate
<1>1. IInv => NoLostUpdate
  BY DEF IInv, DebtIsQueued, NoLostUpdate, Accelerated, Covered, Cover
<1> QED
  BY <1>1, Invariance, PTL

\* vmsvga_update_display settles the debt of the device's own surface, kept or new.
THEOREM RefreshSettles == Spec => RefreshShowsAll
<1>1. IInv /\ [Next]_vars => [Refresh /\ own' => stale' \cap Tiles(surface') = {}]_vars
  BY RefreshResult
<1> QED
  BY <1>1, Invariance, PTL DEF Spec, RefreshShowsAll
=============================================================================
