------------------------ MODULE MagicTrackpad_proofs ------------------------
(***************************************************************************)
(* Proofs about MagicTrackpad for every depth of the ring, every range of  *)
(* the sensor and of the positions, and every width of the frame number.   *)
(***************************************************************************)
EXTENDS MagicTrackpad, SequenceTheorems, TLAPS

\* What integer division by a positive number returns.
LEMMA Division ==
    ASSUME NEW n \in Int, NEW d \in Nat \ {0}
    PROVE  /\ n \div d \in Int
           /\ d * (n \div d) <= n
           /\ n < d * (n \div d) + d
BY Z3

LEMMA Product ==
    ASSUME NEW a \in Nat, NEW b \in Nat, NEW c \in Nat, a <= b
    PROVE  a * c \in Nat /\ a * c <= b * c
BY Z3

\* amtp_map_abs keeps a position inside the sensor's range.
LEMMA MapAbsInRange ==
    ASSUME NEW v \in Abs
    PROVE  MapAbs(v) \in OutMin .. OutMax
<1> DEFINE span == OutMax - OutMin
           scaled == v * span
           q == scaled \div AbsMax
<1>1. v \in Nat /\ AbsMax \in Nat \ {0} /\ v <= AbsMax /\ span \in Nat
  BY SizeAssumption DEF Abs
<1>2. scaled \in Nat /\ scaled <= AbsMax * span
  BY <1>1, Product
<1>. HIDE DEF span, scaled
<1>3. q \in Int /\ AbsMax * q <= scaled /\ scaled < AbsMax * q + AbsMax
  BY <1>1, <1>2, Division
<1>. HIDE DEF q
<1>4. q >= 0
  <2> SUFFICES ASSUME q <= -1 PROVE FALSE
    BY <1>3
  <2>1. AbsMax * q <= -AbsMax
    BY <1>1, <1>3, Z3
  <2>. QED  BY <1>1, <1>2, <1>3, <2>1
<1>5. q <= span
  <2> SUFFICES ASSUME q >= span + 1 PROVE FALSE
    BY <1>1, <1>3
  <2>1. AbsMax * q >= AbsMax * span + AbsMax
    BY <1>1, <1>3, Z3
  <2>. QED  BY <1>1, <1>2, <1>3, <2>1
<1>6. MapAbs(v) = OutMin + q
  BY DEF MapAbs, q, scaled, span
<1>. QED  BY <1>1, <1>3, <1>4, <1>5, <1>6, SizeAssumption DEF span

\* Both report shapes are of their type, so the ring and the host hold nothing else.
LEMMA BootReportType == TypeOK => BootReport \in Boot
<1> SUFFICES ASSUME TypeOK PROVE BootReport \in Boot
  OBVIOUS
<1>1. abs - prev \in Int
  BY SizeAssumption DEF TypeOK, Abs
<1>2. \A n \in Int : Quotient(n) \in Int
  <2> SUFFICES ASSUME NEW n \in Int PROVE Quotient(n) \in Int
    OBVIOUS
  <2>1. n \div Divisor \in Int /\ (-n) \div Divisor \in Int
    BY SizeAssumption, Division
  <2>. QED  BY <2>1 DEF Quotient
<1>3. \A n \in Int : ClampI8(n) \in -Clamp .. Clamp
  BY SizeAssumption DEF ClampI8
<1>4. ClampI8(Quotient(abs - prev)) \in -Clamp .. Clamp
  BY <1>1, <1>2, <1>3
<1>. QED  BY <1>4 DEF BootReport, Boot, TypeOK

LEMMA FrameReportType == TypeOK => FrameReport \in Frame
BY MapAbsInRange DEF FrameReport, Frame, TypeOK

-----------------------------------------------------------------------------
(***************************************************************************)
(* The inductive invariant.  The stream of reports is taken apart into the *)
(* report the host has and the ring, and what is true of its newest report *)
(* is stated of that report alone.                                         *)
(***************************************************************************)

IsFrame(r) == r.kind = "frame"
Follows(r, n) == n = (r.seq + 1) % SeqMod

\* Frames are emitted in multitouch mode only, which only a reset (and with it an
\* empty ring) ends; so boot reports precede frames.
FramesMeanMultitouch ==
    /\ \A i \in 1 .. Len(queue) : IsFrame(queue[i]) => multitouch
    /\ host # <<>> /\ IsFrame(host[1]) => multitouch

FramesLast ==
    /\ \A i, j \in 1 .. Len(queue) : i < j /\ IsFrame(queue[i]) => IsFrame(queue[j])
    /\ host # <<>> /\ IsFrame(host[1]) => \A j \in 1 .. Len(queue) : IsFrame(queue[j])

Numbered ==
    /\ \A i \in 1 .. Len(queue) - 1 :
          IsFrame(queue[i]) => Follows(queue[i], queue[i + 1].seq)
    /\ queue # <<>> /\ IsFrame(queue[Len(queue)]) => Follows(queue[Len(queue)], mt_seq)

\* A report says what the user does now.
UpToDate(r) ==
    /\ r.button = button
    /\ IsFrame(r) /\ finger => r.fingers = <<MapAbs(abs)>>

\* With nothing pending the newest report, in the ring or at the host, is up to date.
NewestUpToDate ==
    ~pending =>
        /\ queue # <<>> => UpToDate(queue[Len(queue)])
        /\ queue = <<>> /\ host # <<>> => UpToDate(host[1])
        /\ queue = <<>> /\ host = <<>> => ~button

IInv ==
    /\ TypeOK
    /\ FramesMeanMultitouch /\ FramesLast /\ Numbered
    /\ NewestUpToDate
    /\ HostIsWoken

\* amtp_enqueue, as the sequence it leaves: the old reports, the first of them gone if
\* the ring was full, then the new one.
LEMMA Enqueued ==
    ASSUME TypeOK, NEW r \in Boot \cup Frame, Enqueue(r)
    PROVE  /\ queue' \in Seq(Boot \cup Frame)
           /\ queue' # <<>> /\ Len(queue') <= Depth - 1
           /\ queue'[Len(queue')] = r
           /\ \E k \in {0, 1} :
                 /\ Len(queue') = Len(queue) - k + 1
                 /\ \A i \in 1 .. Len(queue') - 1 :
                       i + k \in 1 .. Len(queue) /\ queue'[i] = queue[i + k]
<1> DEFINE kept == IF Len(queue) < Depth - 1 THEN queue ELSE Tail(queue)
           k == IF Len(queue) < Depth - 1 THEN 0 ELSE 1
<1>1. /\ kept \in Seq(Boot \cup Frame)
      /\ Len(kept) = Len(queue) - k /\ Len(kept) < Depth - 1
      /\ \A i \in 1 .. Len(kept) : i + k \in 1 .. Len(queue) /\ kept[i] = queue[i + k]
  <2>1. CASE Len(queue) < Depth - 1
    BY <2>1 DEF TypeOK
  <2>2. CASE ~(Len(queue) < Depth - 1)
    <3>1. queue \in Seq(Boot \cup Frame) /\ queue # <<>> /\ Len(queue) = Depth - 1
      BY <2>2, SizeAssumption DEF TypeOK
    <3>. QED  BY <2>2, <3>1, HeadTailProperties
  <2>. QED  BY <2>1, <2>2
<1>2. queue' = Append(kept, r)
  BY DEF Enqueue
<1>. HIDE DEF kept
<1>3. /\ queue' \in Seq(Boot \cup Frame) /\ queue' # <<>>
      /\ Len(queue') = Len(kept) + 1
      /\ \A i \in 1 .. Len(kept) : queue'[i] = kept[i]
      /\ queue'[Len(kept) + 1] = r
  BY <1>1, <1>2, AppendProperties
<1>4. k \in {0, 1}
  OBVIOUS
<1>. HIDE DEF k
<1>5. Len(kept) \in Nat /\ Len(queue) \in Nat /\ Depth \in Nat
  BY <1>1, SizeAssumption DEF TypeOK
<1>6. Len(queue') - 1 = Len(kept) /\ Len(queue') <= Depth - 1
  BY <1>1, <1>3, <1>5
<1>. QED  BY <1>1, <1>3, <1>4, <1>5, <1>6

\* Zero and the empty ring are in their types.
LEMMA Zeroes ==
    /\ <<>> \in Seq(Boot \cup Frame) /\ Len(<<>>) = 0
    /\ 0 \in Abs /\ 0 \in 0 .. SeqMod - 1 /\ 0 <= Depth - 1
BY EmptySeq, SizeAssumption DEF Abs

\* The host's last report is a sequence of at most one.
LEMMA HostLength ==
    TypeOK => Len(host) \in {0, 1} /\ (host # <<>> <=> Len(host) = 1)
<1> SUFFICES ASSUME TypeOK PROVE Len(host) \in {0, 1} /\ (host # <<>> <=> Len(host) = 1)
  OBVIOUS
<1>1. Len(host) \in Nat /\ Len(host) <= 1
  BY LenProperties DEF TypeOK
<1>2. host # <<>> => Len(host) # 0
  BY EmptySeq DEF TypeOK
<1>3. host = <<>> => Len(host) = 0
  BY Zeroes
<1>. DEFINE n == Len(host)
<1>. HIDE DEF n
<1>4. n \in Nat /\ n <= 1 => n \in {0, 1} /\ (n # 0 <=> n = 1)
  OBVIOUS
<1>. QED  BY <1>1, <1>2, <1>3, <1>4, Zenon DEF n

LEMMA InitIInv == Init => IInv
<1> SUFFICES ASSUME Init PROVE IInv
  OBVIOUS
<1>1. Len(queue) = 0 /\ Len(host) = 0
  BY Zeroes DEF Init
<1>2. queue \in Seq(Boot \cup Frame) /\ host \in Seq(Boot \cup Frame)
  BY Zeroes DEF Init
<1>3. Len(queue) <= Depth - 1 /\ Len(host) <= 1
  BY <1>1, SizeAssumption
<1>4. TypeOK
  BY <1>2, <1>3, Zeroes DEF Init, TypeOK
<1>5. FramesMeanMultitouch /\ FramesLast /\ HostIsWoken
  BY <1>1 DEF Init, FramesMeanMultitouch, FramesLast, HostIsWoken
<1>6. Numbered
  BY <1>1 DEF Init, Numbered
<1>7. NewestUpToDate
  BY <1>1 DEF Init, NewestUpToDate
<1>. QED  BY <1>4, <1>5, <1>6, <1>7 DEF IInv

LEMMA TypeStep == TypeOK /\ [Next]_vars => TypeOK'
<1> SUFFICES ASSUME TypeOK, [Next]_vars PROVE TypeOK'
  OBVIOUS
<1>1. ASSUME NEW down \in BOOLEAN, ButtonEvent(down) PROVE TypeOK'
  BY <1>1 DEF ButtonEvent, TypeOK
<1>2. ASSUME OtherButtonEvent PROVE TypeOK'
  BY <1>2 DEF OtherButtonEvent, TypeOK
<1>3. ASSUME NEW v \in Abs, AbsEvent(v) PROVE TypeOK'
  BY <1>3 DEF AbsEvent, TypeOK
<1>4. ASSUME SyncBoot PROVE TypeOK'
  <2>1. queue' \in Seq(Boot \cup Frame) /\ Len(queue') <= Depth - 1
    BY <1>4, BootReportType, Enqueued DEF SyncBoot
  <2>. QED  BY <1>4, <2>1 DEF SyncBoot, Enqueue, TypeOK
<1>5. ASSUME SyncFrame PROVE TypeOK'
  <2>1. queue' \in Seq(Boot \cup Frame) /\ Len(queue') <= Depth - 1
    BY <1>5, FrameReportType, Enqueued DEF SyncFrame
  <2>2. (mt_seq + 1) % SeqMod \in 0 .. SeqMod - 1
    BY SizeAssumption DEF TypeOK
  <2>. QED  BY <1>5, <2>1, <2>2 DEF SyncFrame, Enqueue, TypeOK
<1>6. ASSUME EnableMultitouch PROVE TypeOK'
  BY <1>6 DEF EnableMultitouch, TypeOK
<1>7. ASSUME Poll PROVE TypeOK'
  <2>1. CASE queue = <<>>
    BY <1>7, <2>1 DEF Poll, TypeOK
  <2>2. CASE queue # <<>>
    <3>1. /\ Head(queue) \in Boot \cup Frame
          /\ Tail(queue) \in Seq(Boot \cup Frame) /\ Len(Tail(queue)) = Len(queue) - 1
      BY <2>2, HeadTailProperties DEF TypeOK
    <3>2. <<Head(queue)>> \in Seq(Boot \cup Frame) /\ Len(<<Head(queue)>>) = 1
      BY <3>1
    <3>3. queue' = Tail(queue) /\ host' = <<Head(queue)>>
      BY <1>7, <2>2 DEF Poll
    <3>4. Len(queue') <= Depth - 1 /\ Len(host') <= 1
      BY <3>1, <3>2, <3>3, SizeAssumption DEF TypeOK
    <3>. QED  BY <1>7, <3>1, <3>2, <3>3, <3>4 DEF Poll, TypeOK
  <2>. QED  BY <2>1, <2>2
<1>8. ASSUME Reset PROVE TypeOK'
  <2>1. queue' \in Seq(Boot \cup Frame) /\ Len(queue') = 0
    BY <1>8, Zeroes DEF Reset
  <2>2. host' \in Seq(Boot \cup Frame) /\ Len(host') = 0
    BY <1>8, Zeroes DEF Reset
  <2>3. Len(queue') <= Depth - 1 /\ Len(host') <= 1
    BY <2>1, <2>2, SizeAssumption
  <2>. QED  BY <1>8, <2>1, <2>2, <2>3, Zeroes DEF Reset, TypeOK
<1>9. ASSUME UNCHANGED vars PROVE TypeOK'
  BY <1>9 DEF vars, TypeOK
<1>. QED  BY <1>1, <1>2, <1>3, <1>4, <1>5, <1>6, <1>7, <1>8, <1>9 DEF Next

\* What enqueueing a report keeps of the ring's order: the reports that stay are in
\* their old order, so only the new one is looked at.
LEMMA EnqueueStep ==
    ASSUME IInv, NEW r \in Boot \cup Frame, Enqueue(r), UNCHANGED <<multitouch, host>>,
           IsFrame(r) <=> multitouch,
           multitouch => r.seq = mt_seq /\ Follows(r, mt_seq')
    PROVE  FramesMeanMultitouch' /\ FramesLast' /\ Numbered' /\ HostIsWoken'
<1>1. PICK k \in {0, 1} :
         /\ Len(queue') = Len(queue) - k + 1
         /\ \A i \in 1 .. Len(queue') - 1 :
               i + k \in 1 .. Len(queue) /\ queue'[i] = queue[i + k]
  BY Enqueued DEF IInv
<1>2. queue' # <<>> /\ queue'[Len(queue')] = r /\ queue' \in Seq(Boot \cup Frame)
  BY Enqueued DEF IInv
<1>3. Len(queue) \in Nat /\ Len(queue') \in Nat \ {0} /\ k \in Nat
  BY <1>2, EmptySeq DEF IInv, TypeOK
<1>4. FramesMeanMultitouch'
  <2>1. ASSUME NEW i \in 1 .. Len(queue'), IsFrame(queue'[i]) PROVE multitouch
    BY <1>1, <1>2, <1>3, <2>1 DEF IInv, FramesMeanMultitouch
  <2>. QED  BY <2>1 DEF IInv, FramesMeanMultitouch
<1>5. FramesLast'
  <2>1. ASSUME NEW i \in 1 .. Len(queue'), NEW j \in 1 .. Len(queue'),
               i < j, IsFrame(queue'[i])
        PROVE  IsFrame(queue'[j])
    <3>1. i + k \in 1 .. Len(queue) /\ IsFrame(queue[i + k])
      BY <1>1, <1>3, <2>1
    <3>2. multitouch
      BY <3>1 DEF IInv, FramesMeanMultitouch
    <3>3. CASE j = Len(queue')
      BY <1>2, <3>2, <3>3
    <3>4. CASE j < Len(queue')
      <4>1. j + k \in 1 .. Len(queue) /\ queue'[j] = queue[j + k] /\ i + k < j + k
        <5>1. j \in 1 .. Len(queue') - 1
          BY <1>3, <3>4
        <5>2. i \in Nat /\ j \in Nat
          OBVIOUS
        <5>. QED  BY <1>1, <1>3, <2>1, <5>1, <5>2
      <4>. QED  BY <3>1, <4>1 DEF IInv, FramesLast
    <3>. QED  BY <1>3, <3>3, <3>4
  <2>2. ASSUME host # <<>>, IsFrame(host[1]), NEW j \in 1 .. Len(queue')
        PROVE  IsFrame(queue'[j])
    <3>1. multitouch
      BY <2>2 DEF IInv, FramesMeanMultitouch
    <3>2. CASE j = Len(queue')
      BY <1>2, <3>1, <3>2
    <3>3. CASE j < Len(queue')
      <4>1. j + k \in 1 .. Len(queue) /\ queue'[j] = queue[j + k]
        BY <1>1, <1>3, <3>3
      <4>. QED  BY <2>2, <4>1 DEF IInv, FramesLast
    <3>. QED  BY <1>3, <3>2, <3>3
  <2>. QED  BY <2>1, <2>2 DEF FramesLast
<1>6. Numbered'
  <2>1. ASSUME NEW i \in 1 .. Len(queue') - 1, IsFrame(queue'[i])
        PROVE  Follows(queue'[i], queue'[i + 1].seq)
    <3>1. i + k \in 1 .. Len(queue) /\ queue'[i] = queue[i + k]
      BY <1>1
    <3>2. multitouch
      BY <2>1, <3>1 DEF IInv, FramesMeanMultitouch
    <3>3. CASE i + 1 = Len(queue')
      <4>1. i + k = Len(queue) /\ queue # <<>>
        BY <1>1, <1>3, <3>1, <3>3, EmptySeq DEF IInv, TypeOK
      <4>2. Follows(queue[i + k], mt_seq)
        BY <2>1, <3>1, <4>1 DEF IInv, Numbered
      <4>. QED  BY <1>2, <3>1, <3>2, <3>3, <4>2
    <3>4. CASE i + 1 < Len(queue')
      <4>1. /\ i + 1 + k \in 1 .. Len(queue) /\ queue'[i + 1] = queue[i + 1 + k]
            /\ i + k \in 1 .. Len(queue) - 1 /\ i + 1 + k = i + k + 1
        <5>1. i \in Nat /\ i + 1 \in 1 .. Len(queue') - 1
          BY <1>3, <3>4
        <5>. QED  BY <1>1, <1>3, <3>1, <5>1
      <4>. QED  BY <2>1, <3>1, <4>1 DEF IInv, Numbered
    <3>. QED  BY <1>3, <3>3, <3>4
  <2>2. IsFrame(queue'[Len(queue')]) => Follows(queue'[Len(queue')], mt_seq')
    BY <1>2
  <2>. QED  BY <2>1, <2>2 DEF Numbered
<1>7. HostIsWoken'
  BY DEF Enqueue, HostIsWoken
<1>. QED  BY <1>4, <1>5, <1>6, <1>7

\* The host takes the first report: of the ring's order nothing but the positions changes.
LEMMA PollStep == IInv /\ Poll => IInv'
<1> SUFFICES ASSUME IInv, Poll PROVE IInv'
  OBVIOUS
<1>1. TypeOK'
  BY TypeStep DEF IInv, Next
<1>2. CASE queue = <<>>
  BY <1>1, <1>2 DEF Poll, IInv, FramesMeanMultitouch, FramesLast, Numbered,
                    NewestUpToDate, UpToDate, MapAbs, HostIsWoken
<1>3. CASE queue # <<>>
  <2>1. /\ queue' \in Seq(Boot \cup Frame) /\ Len(queue') = Len(queue) - 1
        /\ \A i \in 1 .. Len(queue') : queue'[i] = queue[i + 1]
    BY <1>3, HeadTailProperties DEF Poll, IInv, TypeOK
  <2>2. Len(queue) \in Nat \ {0} /\ Len(queue') \in Nat
    BY <1>3, <2>1, EmptySeq DEF IInv, TypeOK
  <2>3. host' = <<queue[1]>> /\ host' # <<>> /\ host'[1] = queue[1]
    <3>1. Head(queue) = queue[1]
      BY <1>3 DEF IInv, TypeOK
    <3>2. host' = <<Head(queue)>>
      BY <1>3 DEF Poll
    <3>3. <<queue[1]>> # <<>> /\ <<queue[1]>>[1] = queue[1]
      OBVIOUS
    <3>. QED  BY <3>1, <3>2, <3>3
  <2>4. UNCHANGED <<multitouch, abs, button, finger, pending, mt_seq, parked>> /\ ~parked
    BY <1>3 DEF Poll
  <2>5. FramesMeanMultitouch'
    BY <2>1, <2>2, <2>3, <2>4 DEF IInv, FramesMeanMultitouch
  <2>6. FramesLast'
    <3>1. ASSUME NEW i \in 1 .. Len(queue'), NEW j \in 1 .. Len(queue'),
                 i < j, IsFrame(queue'[i])
          PROVE  IsFrame(queue'[j])
      <4>1. /\ i + 1 \in 1 .. Len(queue) /\ j + 1 \in 1 .. Len(queue) /\ i + 1 < j + 1
            /\ queue'[i] = queue[i + 1] /\ queue'[j] = queue[j + 1]
        BY <2>1, <2>2, <3>1
      <4>. QED  BY <3>1, <4>1 DEF IInv, FramesLast
    <3>2. ASSUME IsFrame(queue[1]), NEW j \in 1 .. Len(queue')
          PROVE  IsFrame(queue'[j])
      <4>1. /\ 1 \in 1 .. Len(queue) /\ j + 1 \in 1 .. Len(queue) /\ 1 < j + 1
            /\ queue'[j] = queue[j + 1]
        BY <2>1, <2>2
      <4>. QED  BY <3>2, <4>1 DEF IInv, FramesLast
    <3>. QED  BY <2>3, <3>1, <3>2 DEF FramesLast
  <2>7. Numbered'
    <3>1. ASSUME NEW i \in 1 .. Len(queue') - 1, IsFrame(queue'[i])
          PROVE  Follows(queue'[i], queue'[i + 1].seq)
      <4>1. /\ i + 1 \in 1 .. Len(queue) - 1
            /\ queue'[i] = queue[i + 1] /\ queue'[i + 1] = queue[i + 1 + 1]
        BY <2>1, <2>2
      <4>. QED  BY <3>1, <4>1 DEF IInv, Numbered
    <3>2. ASSUME queue' # <<>>, IsFrame(queue'[Len(queue')])
          PROVE  Follows(queue'[Len(queue')], mt_seq')
      <4>1. queue'[Len(queue')] = queue[Len(queue)]
        BY <2>1, <2>2, <3>2, EmptySeq
      <4>. QED  BY <1>3, <2>4, <3>2, <4>1 DEF IInv, Numbered
    <3>. QED  BY <3>1, <3>2 DEF Numbered
  <2>8. NewestUpToDate'
    <3>1. \A r : UpToDate(r)' <=> UpToDate(r)
      BY <2>4 DEF UpToDate, IsFrame, MapAbs
    <3>2. CASE queue' # <<>>
      <4>1. queue'[Len(queue')] = queue[Len(queue)]
        BY <2>1, <2>2, <3>2, EmptySeq
      <4>. QED  BY <1>3, <2>4, <3>1, <3>2, <4>1 DEF IInv, NewestUpToDate
    <3>3. CASE queue' = <<>>
      <4>1. Len(queue) = 1
        BY <2>1, <2>2, <3>3
      <4>. QED  BY <1>3, <2>3, <2>4, <3>1, <3>3, <4>1 DEF IInv, NewestUpToDate
    <3>. QED  BY <3>2, <3>3
  <2>9. HostIsWoken'
    BY <2>4 DEF HostIsWoken
  <2>. QED  BY <1>1, <2>5, <2>6, <2>7, <2>8, <2>9 DEF IInv
<1>. QED  BY <1>2, <1>3

\* Each action preserves the inductive invariant.
LEMMA StepIInv == IInv /\ [Next]_vars => IInv'
<1> SUFFICES ASSUME IInv, [Next]_vars PROVE IInv'
  OBVIOUS
<1>. DEFINE Order == FramesMeanMultitouch /\ FramesLast /\ Numbered
<1>1. TypeOK'
  BY TypeStep DEF IInv
<1>2. ASSUME UNCHANGED <<queue, host, multitouch, mt_seq>> PROVE Order'
  BY <1>2 DEF IInv, FramesMeanMultitouch, FramesLast, Numbered
<1>3. ASSUME UNCHANGED <<queue, parked>> PROVE HostIsWoken'
  BY <1>3 DEF IInv, HostIsWoken
\* An input event leaves the stream alone and something pending.
<1>4. ASSUME UNCHANGED <<multitouch, mt_seq, queue, parked, host>>, pending' PROVE IInv'
  BY <1>1, <1>2, <1>3, <1>4 DEF IInv, NewestUpToDate
<1>5. ASSUME NEW down \in BOOLEAN, ButtonEvent(down) PROVE IInv'
  BY <1>4, <1>5 DEF ButtonEvent
<1>6. ASSUME OtherButtonEvent PROVE IInv'
  BY <1>4, <1>6 DEF OtherButtonEvent
<1>7. ASSUME NEW v \in Abs, AbsEvent(v) PROVE IInv'
  BY <1>4, <1>7 DEF AbsEvent
<1>8. ASSUME SyncBoot PROVE IInv'
  <2>1. BootReport \in Boot \cup Frame /\ Enqueue(BootReport)
    BY <1>8, BootReportType DEF IInv, SyncBoot
  <2>2. ~IsFrame(BootReport) /\ ~multitouch /\ UNCHANGED <<multitouch, host>>
    BY <1>8 DEF SyncBoot, BootReport, IsFrame
  <2>3. Order' /\ HostIsWoken'
    BY <2>1, <2>2, EnqueueStep
  <2>4. queue' # <<>> /\ queue'[Len(queue')] = BootReport
    BY <2>1, Enqueued DEF IInv
  <2>5. NewestUpToDate'
    BY <1>8, <2>2, <2>4 DEF NewestUpToDate, UpToDate, IsFrame, BootReport, SyncBoot
  <2>. QED  BY <1>1, <2>3, <2>5 DEF IInv
<1>9. ASSUME SyncFrame PROVE IInv'
  <2>1. FrameReport \in Boot \cup Frame /\ Enqueue(FrameReport)
    BY <1>9, FrameReportType DEF IInv, SyncFrame
  <2>2. IsFrame(FrameReport) /\ multitouch /\ UNCHANGED <<multitouch, host>>
    BY <1>9 DEF SyncFrame, FrameReport, IsFrame
  <2>3. FrameReport.seq = mt_seq /\ Follows(FrameReport, mt_seq')
    BY <1>9 DEF SyncFrame, FrameReport, Follows
  <2>4. Order' /\ HostIsWoken'
    BY <2>1, <2>2, <2>3, EnqueueStep
  <2>5. queue' # <<>> /\ queue'[Len(queue')] = FrameReport
    BY <2>1, Enqueued DEF IInv
  <2>6. UNCHANGED <<abs, button, finger>>
    BY <1>9 DEF SyncFrame
  <2>7. UpToDate(FrameReport)'
    BY <2>6 DEF UpToDate, FrameReport, MapAbs
  <2>8. NewestUpToDate'
    BY <2>5, <2>7, <2>6 DEF NewestUpToDate, UpToDate, FrameReport, MapAbs
  <2>. QED  BY <1>1, <2>4, <2>8 DEF IInv
<1>10. ASSUME EnableMultitouch PROVE IInv'
  BY <1>1, <1>10 DEF EnableMultitouch, IInv, FramesMeanMultitouch, FramesLast, Numbered,
                     NewestUpToDate, UpToDate, MapAbs, HostIsWoken
<1>11. ASSUME Reset PROVE IInv'
  <2>1. queue' = <<>> /\ host' = <<>> /\ Len(queue') = 0
    BY <1>11, Zeroes DEF Reset
  <2>2. Order'
    BY <2>1 DEF FramesMeanMultitouch, FramesLast, Numbered
  <2>. QED  BY <1>1, <1>11, <2>1, <2>2 DEF Reset, IInv, NewestUpToDate, HostIsWoken
<1>12. ASSUME UNCHANGED vars PROVE IInv'
  BY <1>1, <1>12 DEF vars, IInv, FramesMeanMultitouch, FramesLast, Numbered,
                     NewestUpToDate, UpToDate, MapAbs, HostIsWoken
<1>. QED
  BY <1>5, <1>6, <1>7, <1>8, <1>9, <1>10, <1>11, <1>12, PollStep DEF Next

\* IInv holds in every reachable state.
THEOREM Invariance == Spec => []IInv
BY InitIInv, StepIInv, PTL DEF Spec

\* Type correctness: the ring stays below its depth, boot reports move by what a byte
\* can say, and a finger's position is within the range the device announces.
THEOREM TypeCorrect == Spec => []TypeOK
BY Invariance, PTL DEF IInv

\* Boot reports never follow a frame and frames are numbered without a gap, whatever
\* the ring has dropped (amtp_emit_multitouch, amtp_enqueue).
THEOREM FrameOrder == Spec => []FramesInOrder
<1>1. IInv => FramesInOrder
  <2> SUFFICES ASSUME IInv, NEW i \in 1 .. Len(Stream) - 1, Stream[i].kind = "frame"
               PROVE  /\ Stream[i + 1].kind = "frame"
                      /\ i > Len(host) => Stream[i + 1].seq = (Stream[i].seq + 1) % SeqMod
    BY DEF FramesInOrder
  <2>1. /\ Len(Stream) = Len(host) + Len(queue)
        /\ \A n \in 1 .. Len(host) + Len(queue) :
              Stream[n] = IF n <= Len(host) THEN host[n] ELSE queue[n - Len(host)]
    BY ConcatProperties DEF Stream, IInv, TypeOK
  <2>2. Len(queue) \in Nat /\ Len(host) \in {0, 1} /\ (host # <<>> <=> Len(host) = 1)
    BY HostLength, LenProperties DEF IInv, TypeOK
  <2>3. CASE i <= Len(host)
    <3>1. i = 1 /\ Len(host) = 1 /\ host # <<>> /\ Stream[1] = host[1]
      BY <2>1, <2>2, <2>3
    <3>2. Stream[i + 1] = queue[1] /\ 1 \in 1 .. Len(queue)
      BY <2>1, <2>2, <3>1
    <3>. QED  BY <2>3, <3>1, <3>2 DEF IInv, FramesLast, IsFrame
  <2>4. CASE i > Len(host)
    <3>. DEFINE n == i - Len(host)
    <3>1. n \in 1 .. Len(queue) - 1 /\ n + 1 \in 1 .. Len(queue) /\ n < n + 1
      BY <2>1, <2>2, <2>4
    <3>2. Stream[i] = queue[n] /\ Stream[i + 1] = queue[n + 1]
      BY <2>1, <2>2, <2>4
    <3>. HIDE DEF n
    <3>3. IsFrame(queue[n])
      BY <3>2 DEF IsFrame
    <3>4. n \in 1 .. Len(queue)
      BY <2>2, <3>1
    <3>5. IsFrame(queue[n + 1])
      BY <3>1, <3>3, <3>4 DEF IInv, FramesLast
    <3>6. Follows(queue[n], queue[n + 1].seq)
      BY <3>1, <3>3 DEF IInv, Numbered
    <3>. QED  BY <3>2, <3>5, <3>6 DEF IsFrame, Follows
  <2>. QED  BY <2>2, <2>3, <2>4
<1>. QED  BY <1>1, Invariance, PTL

\* The host ends with the user's button and finger, although the ring may have
\* overflowed on the way (amtp_enqueue drops the oldest report).
THEOREM SettledHost == Spec => []HostSettles
<1>1. IInv => HostSettles
  BY DEF IInv, NewestUpToDate, UpToDate, IsFrame, HostSettles
<1>. QED  BY <1>1, Invariance, PTL

\* amtp_enqueue wakes a parked host, so none is parked on a ring with reports.
THEOREM WokenHost == Spec => []HostIsWoken
BY Invariance, PTL DEF IInv
=============================================================================
