--------------------------- MODULE SvgaFifo_proofs ---------------------------
(***************************************************************************)
(* Proofs about SvgaFifo for every ring, set of commands and loop cap:     *)
(* types for every guest, the order of the commands for a sparing guest    *)
(* (SparingSpec) and commands that are WellSized.  Without either of the   *)
(* two the order is lost: see SvgaFifoFull.cfg and svga_fifo_blend.        *)
(*                                                                         *)
(* The argument is about the stream of words the device has not finished   *)
(* with: those in the ring from Base on, then those the guest has yet to   *)
(* write.  A Put does not change it, a device step at most drops words     *)
(* from its front, and a Begin adds the words of a command at its end.     *)
(***************************************************************************)
EXTENDS SvgaFifo, SequenceTheorems, TLAPS

Last(w) == w.at = Length(w.cmd)
Valid(w) == w.at \in 1 .. Length(w.cmd)
Successor(w) == [cmd |-> w.cmd, at |-> w.at + 1]
Follows(v, w) == IF Last(v) THEN w.at = 1 ELSE w = Successor(v)

\* The position from which on the device may still read: a rewind goes back to start.
Base == IF MayRewind THEN start ELSE stop

\* h words of r from position p on, then those of w.
View(r, p, h, w) ==
    [i \in 1 .. h + Len(w) |-> IF i <= h THEN r[(p + (i - 1)) % Ring] ELSE w[i - h]]

Held == Between(Base, next)
Total == Held + Len(writing)
Pending == View(ring, Base, Held, writing)

\* Words of cmd the device has read.
Got == CASE pc = "head" -> 1
         [] pc = "fixed" -> Fixed[cmd] - left
         [] pc = "args" -> Length(cmd) - left
         [] OTHER -> 0

\* The locals of vmsvga_fifo_run in the phases of a command.
Phases ==
    /\ pc \in {"idle", "loop", "head"} => left = 0
    /\ pc = "fixed" => left < Fixed[cmd]
    /\ pc = "args" => left <= Args[cmd]
    /\ pc # "idle" => maxloop > 0

\* The words the device counts on are there: len never exceeds what was published,
\* although the guest goes on writing and the device publishes every word it reads.
LenCovered ==
    /\ pc \in {"idle", "loop"} => len <= Unread
    /\ pc = "head" => 0 < len /\ len <= Unread + 1
    /\ pc \in {"fixed", "args"} => 0 <= len /\ len + left <= Unread

\* The first n words of S are the beginning of command c.
Begins(S, c, n) == \A i \in 1 .. n : S[i] = [cmd |-> c, at |-> i]

\* What a rewind gives back is still in the ring and is the beginning of cmd.
RewindKept ==
    MayRewind => Taken = Got /\ Unread + Taken < Ring /\ Begins(Pending, cmd, Taken)

\* A command whose rest is being read was in the ring as a whole when it was charged
\* for, so the distance from start to stop has not gone round the ring.
ArgsCounted == pc = "args" => Taken = Got /\ Length(cmd) < Ring

\* What the guest is writing is the rest of one command.
WritingRest ==
    \A i \in 1 .. Len(writing) :
        /\ writing[i].cmd = writing[1].cmd
        /\ writing[i].at = Length(writing[1].cmd) - Len(writing) + i

\* The n words of S are consecutive words of commands, up to the end of one.
Chained(S, n) ==
    /\ \A i \in 1 .. n : Valid(S[i])
    /\ \A i \in 2 .. n : Follows(S[i - 1], S[i])
    /\ n > 0 => Last(S[n])

\* What the device takes the next word for.
Expected(w) ==
    IF pc = "args" /\ left > 0 THEN w = [cmd |-> cmd, at |-> Got + 1] ELSE w.at = 1

\* Which command of sent a word belongs to, without counting: K[i] commands are
\* completed with the i-th word, and the K[i]-th of sent is the one it completes.
Numbers(K, S, h, first, sn) ==
    /\ K \in [0 .. h -> Nat]
    /\ K[0] = first /\ K[h] = Len(sn)
    /\ \A i \in 1 .. h :
          IF Last(S[i])
          THEN K[i] = K[i - 1] + 1 /\ K[i] <= Len(sn) /\ sn[K[i]] = S[i].cmd
          ELSE K[i] = K[i - 1]

Constant(K, n, v) == \A i \in 0 .. n - 1 : K[i] = v

FirstNumber == IF pc = "args" /\ left = 0 THEN Len(executed) + 1 ELSE Len(executed)

\* The words in the ring belong to the commands sent and not yet executed.
Numbered ==
    \E K : /\ Numbers(K, Pending, Held, FirstNumber, sent)
           /\ MayRewind => Constant(K, Taken, Len(executed))

\* A command whose words have all been read is the next one sent.
InHand ==
    pc = "args" /\ left = 0 => Len(executed) < Len(sent) /\ sent[Len(executed) + 1] = cmd

IInv ==
    /\ TypeOK
    /\ Phases
    /\ LenCovered
    /\ RewindKept
    /\ ArgsCounted
    /\ WritingRest
    /\ Chained(Pending, Total)
    /\ Total > 0 => Expected(Pending[1])
    /\ Numbered
    /\ InHand
    /\ NoDesync

-----------------------------------------------------------------------------
(***************************************************************************)
(* Positions: the remainders of C on the numbers the code takes them of,   *)
(* and distances along the ring.                                           *)
(***************************************************************************)

\* x % n for x below n.
LEMMA ModBelow == ASSUME NEW n \in Nat \ {0}, NEW x \in Int, 0 <= x, x < n PROVE x % n = x
BY Z3

\* One turn too far.
LEMMA ModAbove ==
    ASSUME NEW n \in Nat \ {0}, NEW x \in Int, n <= x, x < n + n PROVE x % n = x - n
BY Z3

\* One turn short, the remainder being that of Euclid.
LEMMA ModNegative ==
    ASSUME NEW n \in Nat \ {0}, NEW x \in Int, -n <= x, x < 0 PROVE x % n = x + n
BY Z3

\* The position o words after p, for an offset below the size of the ring.
At(p, o) == IF p + o < Ring THEN p + o ELSE (p + o) - Ring

\* The remainder of a position with an offset.
LEMMA AtResult ==
    ASSUME NEW p \in Position, NEW o \in 0 .. Ring
    PROVE  (p + o) % Ring = At(p, o) /\ At(p, o) \in Position
<1>1. Ring \in Nat \ {0} /\ p \in 0 .. Ring - 1
  BY RingAssumption DEF Position
<1>2. CASE p + o < Ring
  <2>1. p + o \in Int /\ 0 <= p + o /\ p + o < Ring
    BY <1>1, <1>2
  <2>2. (p + o) % Ring = p + o
    BY <1>1, <2>1, ModBelow
  <2> QED
    BY <1>1, <1>2, <2>1, <2>2 DEF At, Position
<1>3. CASE ~(p + o < Ring)
  <2>1. p + o \in Int /\ Ring <= p + o /\ p + o < Ring + Ring
    BY <1>1, <1>3
  <2>2. (p + o) % Ring = (p + o) - Ring
    BY <1>1, <2>1, ModAbove
  <2> QED
    BY <1>1, <1>3, <2>1, <2>2 DEF At, Position
<1> QED
  BY <1>2, <1>3

\* The distance from p to q.
LEMMA BetweenResult ==
    ASSUME NEW p \in Position, NEW q \in Position
    PROVE  /\ Between(p, q) = IF q >= p THEN q - p ELSE q - p + Ring
           /\ Between(p, q) \in 0 .. Ring - 1
<1>1. Ring \in Nat \ {0} /\ p \in 0 .. Ring - 1 /\ q \in 0 .. Ring - 1
  BY RingAssumption DEF Position
<1>2. CASE q >= p
  <2>1. q - p \in Int /\ 0 <= q - p /\ q - p < Ring
    BY <1>1, <1>2
  <2>2. (q - p) % Ring = q - p
    BY <1>1, <2>1, ModBelow
  <2> QED
    BY <1>1, <1>2, <2>1, <2>2 DEF Between
<1>3. CASE ~(q >= p)
  <2>1. q - p \in Int /\ -Ring <= q - p /\ q - p < 0
    BY <1>1, <1>3
  <2>2. (q - p) % Ring = q - p + Ring
    BY <1>1, <2>1, ModNegative
  <2> QED
    BY <1>1, <1>3, <2>1, <2>2 DEF Between
<1> QED
  BY <1>2, <1>3

\* A pointer that moves on by one word.
LEMMA AdvanceResult ==
    ASSUME NEW p \in Position PROVE Advance(p) = At(p, 1) /\ Advance(p) \in Position
<1>1. 1 \in 0 .. Ring
  BY RingAssumption
<1> QED
  BY <1>1, AtResult DEF Advance

\* The position a distance away from p is the one the distance was taken to.
LEMMA AtBetween ==
    ASSUME NEW p \in Position, NEW q \in Position
    PROVE  At(p, Between(p, q)) = q
<1>1. Ring \in Nat \ {0} /\ p \in 0 .. Ring - 1 /\ q \in 0 .. Ring - 1
  BY RingAssumption DEF Position
<1>2. Between(p, q) = IF q >= p THEN q - p ELSE q - p + Ring
  BY BetweenResult
<1> QED
  BY <1>1, <1>2 DEF At

\* Different offsets are different positions.
LEMMA AtInjective ==
    ASSUME NEW p \in Position, NEW o \in 0 .. Ring - 1, NEW u \in 0 .. Ring - 1,
           At(p, o) = At(p, u)
    PROVE  o = u
BY RingAssumption DEF At, Position

\* Offsets add up.
LEMMA AtAt ==
    ASSUME NEW p \in Position, NEW d \in 0 .. Ring - 1, NEW o \in 0 .. Ring - 1, d + o < Ring
    PROVE  At(At(p, d), o) = At(p, d + o)
BY RingAssumption DEF At, Position

\* The distance from a position further on.
LEMMA BetweenAt ==
    ASSUME NEW p \in Position, NEW q \in Position, NEW d \in 0 .. Between(p, q)
    PROVE  Between(At(p, d), q) = Between(p, q) - d
<1>1. Ring \in Nat \ {0} /\ p \in 0 .. Ring - 1 /\ q \in 0 .. Ring - 1
  BY RingAssumption DEF Position
<1>2. Between(p, q) = (IF q >= p THEN q - p ELSE q - p + Ring) /\ Between(p, q) \in 0 .. Ring - 1
  BY BetweenResult
<1>3. At(p, d) \in Position
  BY <1>1, <1>2 DEF At, Position
<1>4. Between(At(p, d), q) = IF q >= At(p, d) THEN q - At(p, d) ELSE q - At(p, d) + Ring
  BY <1>3, BetweenResult
<1> QED
  BY <1>1, <1>2, <1>3, <1>4 DEF At

\* The distance to one word further on.
LEMMA BetweenAdvance ==
    ASSUME NEW p \in Position, NEW q \in Position, Between(p, q) < Ring - 1
    PROVE  Between(p, Advance(q)) = Between(p, q) + 1
<1>1. Ring \in Nat \ {0} /\ p \in 0 .. Ring - 1 /\ q \in 0 .. Ring - 1
  BY RingAssumption DEF Position
<1>2. Between(p, q) = IF q >= p THEN q - p ELSE q - p + Ring
  BY BetweenResult
<1>3. Advance(q) = At(q, 1) /\ Advance(q) \in Position
  BY AdvanceResult
<1>4. Between(p, Advance(q)) =
        IF Advance(q) >= p THEN Advance(q) - p ELSE Advance(q) - p + Ring
  BY <1>3, BetweenResult
<1> QED
  BY <1>1, <1>2, <1>3, <1>4 DEF At

\* Two distances along the ring that do not go round it.
LEMMA BetweenSum ==
    ASSUME NEW p \in Position, NEW q \in Position, NEW r \in Position,
           Between(p, q) + Between(q, r) < Ring
    PROVE  Between(p, r) = Between(p, q) + Between(q, r)
<1>1. Ring \in Nat \ {0} /\ p \in 0 .. Ring - 1 /\ q \in 0 .. Ring - 1 /\ r \in 0 .. Ring - 1
  BY RingAssumption DEF Position
<1>2. Between(p, q) = IF q >= p THEN q - p ELSE q - p + Ring
  BY BetweenResult
<1>3. Between(q, r) = IF r >= q THEN r - q ELSE r - q + Ring
  BY BetweenResult
<1>4. Between(p, r) = IF r >= p THEN r - p ELSE r - p + Ring
  BY BetweenResult
<1> QED
  BY <1>1, <1>2, <1>3, <1>4

-----------------------------------------------------------------------------
(***************************************************************************)
(* Views of the ring.                                                      *)
(***************************************************************************)

\* The words of a view, by the position of each.
LEMMA ViewResult ==
    ASSUME NEW r \in [Position -> Word], NEW p \in Position, NEW h \in 0 .. Ring - 1,
           NEW w \in Seq(Word)
    PROVE  /\ View(r, p, h, w) \in [1 .. h + Len(w) -> Word]
           /\ \A i \in 1 .. h : View(r, p, h, w)[i] = r[At(p, i - 1)]
           /\ \A i \in h + 1 .. h + Len(w) : View(r, p, h, w)[i] = w[i - h]
<1> DEFINE n == Len(w)
<1>1. n \in Nat /\ Ring \in Nat \ {0} /\ \A i \in 1 .. n : w[i] \in Word
  BY RingAssumption
<1>2. View(r, p, h, w) =
        [i \in 1 .. h + n |-> IF i <= h THEN r[(p + (i - 1)) % Ring] ELSE w[i - h]]
  BY DEF View
<1> HIDE DEF n
<1>3. ASSUME NEW i \in 1 .. h
      PROVE  /\ View(r, p, h, w)[i] = r[At(p, i - 1)] /\ View(r, p, h, w)[i] \in Word
             /\ i \in 1 .. h + n
  <2>1. i - 1 \in 0 .. Ring /\ i <= h /\ i \in 1 .. h + n
    BY <1>1 DEF Position
  <2>2. (p + (i - 1)) % Ring = At(p, i - 1) /\ At(p, i - 1) \in Position
    BY <2>1, AtResult
  <2> QED
    BY <1>2, <2>1, <2>2
<1>4. ASSUME NEW i \in h + 1 .. h + n
      PROVE  View(r, p, h, w)[i] = w[i - h] /\ View(r, p, h, w)[i] \in Word
  <2>1. i \in 1 .. h + n /\ ~(i <= h) /\ i - h \in 1 .. n
    BY <1>1
  <2> QED
    BY <1>1, <1>2, <2>1
<1>5. ASSUME NEW i \in 1 .. h + n PROVE View(r, p, h, w)[i] \in Word
  <2>1. i \in 1 .. h \/ i \in h + 1 .. h + n
    BY <1>1
  <2> QED
    BY <2>1, <1>3, <1>4
<1>6. View(r, p, h, w) \in [1 .. h + n -> Word]
  BY <1>2, <1>5
<1> QED
  BY <1>3, <1>4, <1>6 DEF n

\* A word the guest writes where its NEXT is: the view is the same, with one word
\* more of it in the ring.
LEMMA PutView ==
    ASSUME NEW r \in [Position -> Word], NEW p \in Position, NEW q \in Position,
           NEW w \in Seq(Word), w # <<>>, Between(p, q) < Ring - 1
    PROVE  View([r EXCEPT ![q] = w[1]], p, Between(p, q) + 1, Tail(w))
             = View(r, p, Between(p, q), w)
<1> DEFINE h == Between(p, q)
           n == Len(w)
           u == Tail(w)
           s == [r EXCEPT ![q] = w[1]]
<1>1. h \in Nat /\ h < Ring - 1 /\ Ring \in Nat /\ At(p, h) = q /\ Position = 0 .. Ring - 1
  BY BetweenResult, AtBetween, RingAssumption DEF Position
<1>2. n \in Nat /\ n > 0 /\ u \in Seq(Word) /\ Len(u) = n - 1 /\ w[1] \in Word
      /\ \A k \in 1 .. n - 1 : u[k] = w[k + 1]
  OBVIOUS
<1>3. s \in [Position -> Word] /\ s[q] = w[1] /\ \A x \in Position : x # q => s[x] = r[x]
  BY <1>2
<1>4. n = Len(w)
  OBVIOUS
<1> HIDE DEF h, n, u, s
<1>5. h \in 0 .. Ring - 1 /\ h + 1 \in 0 .. Ring - 1
  BY <1>1
<1>6. /\ View(r, p, h, w) \in [1 .. h + n -> Word]
      /\ \A i \in 1 .. h : View(r, p, h, w)[i] = r[At(p, i - 1)]
      /\ \A i \in h + 1 .. h + n : View(r, p, h, w)[i] = w[i - h]
  BY <1>5, ViewResult DEF n
<1>7. /\ View(s, p, h + 1, u) \in [1 .. h + 1 + Len(u) -> Word]
      /\ \A i \in 1 .. h + 1 : View(s, p, h + 1, u)[i] = s[At(p, i - 1)]
      /\ \A i \in h + 1 + 1 .. h + 1 + Len(u) : View(s, p, h + 1, u)[i] = u[i - (h + 1)]
  <2>1. s \in [Position -> Word] /\ h + 1 \in 0 .. Ring - 1 /\ u \in Seq(Word)
    BY <1>2, <1>3, <1>5
  <2>. QED  BY <2>1, ViewResult, Zenon
<1>8. ASSUME NEW i \in 1 .. h + n PROVE View(s, p, h + 1, u)[i] = View(r, p, h, w)[i]
  <2>1. CASE i <= h
    <3>1. i \in 1 .. h /\ i \in 1 .. h + 1 /\ i - 1 \in 0 .. Ring - 1 /\ i - 1 # h
      BY <2>1, <1>1
    <3>2. At(p, i - 1) \in Position
      BY <3>1, AtResult, RingAssumption
    <3>3. At(p, i - 1) # q
      BY <3>1, <1>1, <1>5, AtInjective
    <3> QED
      BY <3>1, <3>2, <3>3, <1>3, <1>6, <1>7
  <2>2. CASE i = h + 1
    <3>1. i \in 1 .. h + 1 /\ i \in h + 1 .. h + n /\ i - 1 = h /\ i - h = 1
      BY <2>2, <1>1, <1>2
    <3> QED
      BY <3>1, <1>1, <1>3, <1>6, <1>7
  <2>3. CASE i > h + 1
    <3>1. i \in h + 1 + 1 .. h + 1 + Len(u) /\ i \in h + 1 .. h + n
          /\ i - (h + 1) \in 1 .. n - 1 /\ (i - (h + 1)) + 1 = i - h
      BY <2>3, <1>1, <1>2
    <3> QED
      BY <3>1, <1>2, <1>6, <1>7
  <2> QED
    BY <2>1, <2>2, <2>3, <1>1
<1>9. 1 .. h + 1 + Len(u) = 1 .. h + n
  BY <1>1, <1>2
<1>10. View(s, p, h + 1, u) = View(r, p, h, w)
  <2> DEFINE A == View(s, p, h + 1, u)
             B == View(r, p, h, w)
             D == 1 .. h + n
  <2>1. A \in [D -> Word] /\ B \in [D -> Word] /\ \A i \in D : A[i] = B[i]
    BY <1>6, <1>7, <1>8, <1>9, Zenon
  <2> HIDE DEF A, B, D
  <2>2. A = B
    BY <2>1
  <2> QED
    BY <2>2 DEF A, B
<1> QED
  BY <1>10 DEF h, u, s

\* The words a device step leaves: those from d words further on.
LEMMA ShiftView ==
    ASSUME NEW r \in [Position -> Word], NEW p \in Position, NEW h \in 0 .. Ring - 1,
           NEW w \in Seq(Word), NEW d \in 0 .. h
    PROVE  View(r, At(p, d), h - d, w)
             = [i \in 1 .. (h - d) + Len(w) |-> View(r, p, h, w)[i + d]]
<1> DEFINE n == Len(w)
           V == View(r, p, h, w)
           U == View(r, At(p, d), h - d, w)
<1>1. n \in Nat /\ Ring \in Nat /\ d \in 0 .. Ring
  BY RingAssumption
<1>2. At(p, d) \in Position /\ h - d \in 0 .. Ring - 1
  BY <1>1, AtResult
<1>3. /\ \A i \in 1 .. h : V[i] = r[At(p, i - 1)]
      /\ \A i \in h + 1 .. h + n : V[i] = w[i - h]
  BY ViewResult
<1>4. /\ U \in [1 .. (h - d) + n -> Word]
      /\ \A i \in 1 .. h - d : U[i] = r[At(At(p, d), i - 1)]
      /\ \A i \in (h - d) + 1 .. (h - d) + n : U[i] = w[i - (h - d)]
  BY <1>2, ViewResult
<1> HIDE DEF n, V, U
<1>5. ASSUME NEW i \in 1 .. (h - d) + n PROVE U[i] = V[i + d]
  <2>1. CASE i <= h - d
    <3>1. /\ i \in 1 .. h - d /\ i + d \in 1 .. h
          /\ d \in 0 .. Ring - 1 /\ i - 1 \in 0 .. Ring - 1 /\ d + (i - 1) < Ring
          /\ d + (i - 1) = (i + d) - 1
      BY <2>1, <1>1
    <3>2. At(At(p, d), i - 1) = At(p, d + (i - 1))
      BY <3>1, AtAt
    <3>3. U[i] = r[At(At(p, d), i - 1)] /\ V[i + d] = r[At(p, (i + d) - 1)]
      BY <3>1, <1>3, <1>4, Zenon
    <3> QED
      BY <3>1, <3>2, <3>3, Zenon
  <2>2. CASE ~(i <= h - d)
    <3>1. i \in (h - d) + 1 .. (h - d) + n /\ i + d \in h + 1 .. h + n
          /\ i - (h - d) = (i + d) - h
      BY <2>2, <1>1
    <3> QED
      BY <3>1, <1>3, <1>4
  <2> QED
    BY <2>1, <2>2
<1>6. U = [i \in 1 .. (h - d) + n |-> V[i + d]]
  BY <1>4, <1>5
<1> QED
  BY <1>6 DEF n, U, V

-----------------------------------------------------------------------------
(***************************************************************************)
(* What the parts of the invariant say of the stream in a state.           *)
(***************************************************************************)

\* The words of a command, its fixed part being charged with the command word.
LEMMA LengthResult ==
    ASSUME WellSized, NEW c \in Command
    PROVE  /\ Fixed[c] \in Nat /\ Fixed[c] > 0 /\ Fixed[c] <= Slack /\ Args[c] \in Nat
           /\ Length(c) = Fixed[c] + Args[c] /\ Length(c) \in Nat /\ Length(c) > 0
<1>1. Fixed[c] \in Nat /\ Args[c] \in Nat /\ Slack \in Nat /\ Fixed[c] \in 1 .. Slack
  BY CommandAssumption, RingAssumption DEF WellSized
<1> QED
  BY <1>1 DEF Length

\* Where the device may still read, how many words there are, and where it reads.
LEMMA WindowResult ==
    ASSUME TypeOK, RewindKept
    PROVE  /\ Base \in Position /\ Held \in 0 .. Ring - 1
           /\ Unread \in 0 .. Ring - 1 /\ Taken \in 0 .. Ring - 1
           /\ IF MayRewind THEN Base = start /\ Held = Taken + Unread /\ stop = At(Base, Taken)
                           ELSE Base = stop /\ Held = Unread
<1>1. start \in Position /\ stop \in Position /\ next \in Position
  BY DEF TypeOK
<1>2. Base \in Position /\ Held \in 0 .. Ring - 1 /\ Unread \in 0 .. Ring - 1
      /\ Taken \in 0 .. Ring - 1
  BY <1>1, BetweenResult DEF Base, Held, Unread, Taken
<1>3. CASE MayRewind
  <2>1. Taken + Unread < Ring
    BY <1>2, <1>3, RingAssumption DEF RewindKept
  <2>2. Between(start, next) = Between(start, stop) + Between(stop, next)
    BY <1>1, <2>1, BetweenSum DEF Taken, Unread
  <2>3. At(start, Between(start, stop)) = stop
    BY <1>1, AtBetween
  <2> QED
    BY <1>2, <1>3, <2>2, <2>3 DEF Base, Held, Unread, Taken
<1>4. CASE ~MayRewind
  BY <1>2, <1>4 DEF Base, Held, Unread
<1> QED
  BY <1>3, <1>4

\* The words of the stream.
LEMMA PendingResult ==
    ASSUME TypeOK, RewindKept
    PROVE  /\ Len(writing) \in Nat /\ Total \in Nat /\ Total = Held + Len(writing)
           /\ Pending \in [1 .. Total -> Word]
           /\ \A i \in 1 .. Held : Pending[i] = ring[At(Base, i - 1)]
           /\ \A i \in Held + 1 .. Total : Pending[i] = writing[i - Held]
           /\ Held < Total => Pending[Held + 1] = writing[1]
           /\ Unread > 0 =>
                 ring[stop] = Pending[IF MayRewind THEN Taken + 1 ELSE 1]
<1>1. ring \in [Position -> Word] /\ writing \in Seq(Word) /\ Ring \in Nat
      /\ stop \in Position /\ Position = 0 .. Ring - 1
  BY RingAssumption DEF TypeOK, Position
<1>2. /\ Base \in Position /\ Held \in 0 .. Ring - 1
      /\ Unread \in 0 .. Ring - 1 /\ Taken \in 0 .. Ring - 1
      /\ IF MayRewind THEN Base = start /\ Held = Taken + Unread /\ stop = At(Base, Taken)
                      ELSE Base = stop /\ Held = Unread
  BY WindowResult
<1> DEFINE n == Len(writing)
<1>3. n \in Nat
  BY <1>1
<1>4. Total = Held + n
  BY DEF Total
<1>5. /\ Pending \in [1 .. Held + n -> Word]
      /\ \A i \in 1 .. Held : Pending[i] = ring[At(Base, i - 1)]
      /\ \A i \in Held + 1 .. Held + n : Pending[i] = writing[i - Held]
  <2> DEFINE V == View(ring, Base, Held, writing)
  <2>1. /\ V \in [1 .. Held + n -> Word]
        /\ \A i \in 1 .. Held : V[i] = ring[At(Base, i - 1)]
        /\ \A i \in Held + 1 .. Held + n : V[i] = writing[i - Held]
    <3>1. ring \in [Position -> Word] /\ Base \in Position /\ Held \in 0 .. Ring - 1
          /\ writing \in Seq(Word)
      BY <1>1, <1>2
    <3> QED
      BY <3>1, ViewResult
  <2>2. V = Pending
    BY DEF Pending
  <2> HIDE DEF V
  <2> QED
    BY <2>1, <2>2, Zenon
<1> HIDE DEF n
<1>6. Held < Total => Pending[Held + 1] = writing[1]
  <2>1. SUFFICES ASSUME Held < Total PROVE Pending[Held + 1] = writing[1]
    OBVIOUS
  <2>2. Held + 1 \in Held + 1 .. Held + n /\ (Held + 1) - Held = 1
    BY <2>1, <1>2, <1>3, <1>4
  <2> QED
    BY <2>2, <1>5
<1>7. ASSUME Unread > 0 PROVE ring[stop] = Pending[IF MayRewind THEN Taken + 1 ELSE 1]
  <2>1. CASE MayRewind
    <3>1. Taken + 1 \in 1 .. Held /\ (Taken + 1) - 1 = Taken
      BY <2>1, <1>1, <1>2, <1>7
    <3> QED
      BY <2>1, <3>1, <1>2, <1>5
  <2>2. CASE ~MayRewind
    <3>1. 1 \in 1 .. Held /\ 1 - 1 = 0 /\ At(stop, 0) = stop
      BY <2>2, <1>1, <1>2, <1>7 DEF At
    <3> QED
      BY <2>2, <3>1, <1>2, <1>5
  <2> QED
    BY <2>1, <2>2
<1>8. Total \in Nat
  BY <1>2, <1>3, <1>4
<1> QED
  BY <1>3, <1>4, <1>5, <1>6, <1>7, <1>8 DEF n

\* A step that moves neither the base nor the guest leaves the stream alone.
LEMMA StreamKept ==
    ASSUME UNCHANGED guest, Base' = Base
    PROVE  Held' = Held /\ Total' = Total /\ Pending' = Pending
BY DEF guest, Held, Total, Pending

\* A step that moves the base by d words takes them off the front of the stream.
LEMMA StreamDropped ==
    ASSUME TypeOK, RewindKept, UNCHANGED guest, NEW d \in 0 .. Held, Base' = At(Base, d)
    PROVE  /\ Held' = Held - d /\ Total' = Total - d
           /\ Pending' = [i \in 1 .. Total - d |-> Pending[i + d]]
<1>1. ring \in [Position -> Word] /\ writing \in Seq(Word) /\ next \in Position
      /\ ring' = ring /\ writing' = writing /\ next' = next
  BY DEF TypeOK, guest
<1>2. Base \in Position /\ Held \in 0 .. Ring - 1 /\ Len(writing) \in Nat /\ Ring \in Nat
  BY WindowResult, PendingResult, RingAssumption
<1>3. Held' = Held - d
  BY <1>1, <1>2, BetweenAt DEF Held
<1>4. Total' = (Held - d) + Len(writing) /\ Total = Held + Len(writing)
  BY <1>1, <1>3 DEF Total
<1>5. Total' = Total - d /\ (Held - d) + Len(writing) = Total - d
  <2> DEFINE n == Len(writing)
  <2>1. n \in Nat /\ Total' = (Held - d) + n /\ Total = Held + n
    BY <1>2, <1>4
  <2> HIDE DEF n
  <2>2. Total' = Total - d /\ (Held - d) + n = Total - d
    BY <1>2, <2>1
  <2> QED
    BY <2>2 DEF n
<1>6. Pending' = View(ring, At(Base, d), Held - d, writing)
  BY <1>1, <1>3 DEF Pending
<1>7. View(ring, At(Base, d), Held - d, writing)
        = [i \in 1 .. (Held - d) + Len(writing) |-> View(ring, Base, Held, writing)[i + d]]
  <2>1. ring \in [Position -> Word] /\ Base \in Position /\ Held \in 0 .. Ring - 1
        /\ writing \in Seq(Word) /\ d \in 0 .. Held
    BY <1>1, <1>2
  <2>. QED  BY <2>1, ShiftView, SMTT(30)
<1>8. Pending' = [i \in 1 .. Total - d |-> Pending[i + d]]
  BY <1>5, <1>6, <1>7, Zenon DEF Pending
<1> QED
  BY <1>3, <1>5, <1>8

\* What is left of a chain is a chain.
LEMMA ChainedDropped ==
    ASSUME NEW S, NEW n \in Nat, NEW d \in 0 .. n, Chained(S, n)
    PROVE  Chained([i \in 1 .. n - d |-> S[i + d]], n - d)
<1> DEFINE U == [i \in 1 .. n - d |-> S[i + d]]
<1>1. \A i \in 1 .. n - d : U[i] = S[i + d] /\ i + d \in 1 .. n
  OBVIOUS
<1> HIDE DEF U
<1>2. \A i \in 1 .. n - d : Valid(U[i])
  BY <1>1, Zenon DEF Chained
<1>3. ASSUME NEW i \in 2 .. n - d PROVE Follows(U[i - 1], U[i])
  <2>1. /\ i \in 1 .. n - d /\ i - 1 \in 1 .. n - d /\ i + d \in 2 .. n
        /\ (i + d) - 1 = (i - 1) + d
    OBVIOUS
  <2>2. U[i] = S[i + d] /\ U[i - 1] = S[(i + d) - 1]
    BY <1>1, <2>1
  <2>3. Follows(S[(i + d) - 1], S[i + d])
    BY <2>1 DEF Chained
  <2> QED
    BY <2>2, <2>3
<1>4. ASSUME n - d > 0 PROVE Last(U[n - d])
  <2>1. n - d \in 1 .. n - d /\ (n - d) + d = n /\ n > 0
    BY <1>4
  <2>2. U[n - d] = S[n]
    BY <1>1, <2>1
  <2> QED
    BY <2>1, <2>2 DEF Chained
<1> QED
  BY <1>2, <1>3, <1>4 DEF Chained, U

\* The numbers of the words that are left.
LEMMA NumbersDropped ==
    ASSUME NEW K, NEW S, NEW h \in Nat, NEW n \in Nat, h <= n, NEW f, NEW sn,
           Numbers(K, S, h, f, sn), NEW d \in 0 .. h
    PROVE  Numbers([i \in 0 .. h - d |-> K[i + d]], [i \in 1 .. n - d |-> S[i + d]],
                   h - d, K[d], sn)
<1> DEFINE L == [i \in 0 .. h - d |-> K[i + d]]
           U == [i \in 1 .. n - d |-> S[i + d]]
<1>1. K \in [0 .. h -> Nat] /\ K[h] = Len(sn)
  BY DEF Numbers
<1>2. /\ L \in [0 .. h - d -> Nat]
      /\ \A i \in 0 .. h - d : L[i] = K[i + d]
  BY <1>1
<1>3. \A i \in 1 .. n - d : U[i] = S[i + d]
  OBVIOUS
<1>4. \A j \in 1 .. h :
        IF Last(S[j])
        THEN K[j] = K[j - 1] + 1 /\ K[j] <= Len(sn) /\ sn[K[j]] = S[j].cmd
        ELSE K[j] = K[j - 1]
  BY Zenon DEF Numbers
<1> HIDE DEF L, U
<1>5. L[0] = K[d] /\ L[h - d] = Len(sn)
  <2>1. 0 \in 0 .. h - d /\ h - d \in 0 .. h - d /\ 0 + d = d /\ (h - d) + d = h
    OBVIOUS
  <2> QED
    BY <1>1, <1>2, <2>1
<1>6. ASSUME NEW i \in 1 .. h - d
      PROVE  IF Last(U[i])
             THEN L[i] = L[i - 1] + 1 /\ L[i] <= Len(sn) /\ sn[L[i]] = U[i].cmd
             ELSE L[i] = L[i - 1]
  <2>1. /\ i \in 1 .. n - d /\ i \in 0 .. h - d /\ i - 1 \in 0 .. h - d
        /\ i + d \in 1 .. h /\ (i - 1) + d = (i + d) - 1
    OBVIOUS
  <2>2. U[i] = S[i + d] /\ L[i] = K[i + d] /\ L[i - 1] = K[(i + d) - 1]
    BY <1>2, <1>3, <2>1
  <2> QED
    BY <1>4, <2>1, <2>2, Zenon
<1> QED
  BY <1>2, <1>5, <1>6, Zenon DEF Numbers, L, U

\* The number of a word the guest adds to those in the ring.
LEMMA NumbersMore ==
    ASSUME NEW C, NEW K, NEW S, NEW h \in Nat, NEW f, NEW sn \in Seq(C),
           Numbers(K, S, h, f, sn), NEW c \in C, S[h + 1].cmd = c
    PROVE  Numbers([i \in 0 .. h + 1 |-> IF i <= h THEN K[i]
                                         ELSE IF Last(S[h + 1]) THEN Len(sn) + 1 ELSE Len(sn)],
                   S, h + 1, f, IF Last(S[h + 1]) THEN Append(sn, c) ELSE sn)
<1> DEFINE m == Len(sn)
           g == IF Last(S[h + 1]) THEN m + 1 ELSE m
           t == IF Last(S[h + 1]) THEN Append(sn, c) ELSE sn
           L == [i \in 0 .. h + 1 |-> IF i <= h THEN K[i] ELSE g]
<1>1. m \in Nat /\ g \in Nat /\ Len(t) = g /\ m <= g
      /\ (\A j \in 1 .. m : t[j] = sn[j])
      /\ (Last(S[h + 1]) => g = m + 1 /\ t[m + 1] = c)
      /\ (~Last(S[h + 1]) => g = m)
  OBVIOUS
<1>2. /\ K \in [0 .. h -> Nat] /\ K[0] = f /\ K[h] = m
      /\ \A i \in 1 .. h :
          IF Last(S[i])
          THEN K[i] = K[i - 1] + 1 /\ K[i] <= m /\ sn[K[i]] = S[i].cmd
          ELSE K[i] = K[i - 1]
  BY DEF Numbers
<1> HIDE DEF m, g, t
<1>3. /\ L \in [0 .. h + 1 -> Nat]
      /\ \A i \in 0 .. h : L[i] = K[i]
      /\ L[h + 1] = g
  BY <1>1, <1>2
<1> HIDE DEF L
<1>4. ASSUME NEW i \in 1 .. h + 1
      PROVE  IF Last(S[i])
             THEN L[i] = L[i - 1] + 1 /\ L[i] <= g /\ t[L[i]] = S[i].cmd
             ELSE L[i] = L[i - 1]
  <2>1. CASE i \in 1 .. h
    <3>1. i \in 0 .. h /\ i - 1 \in 0 .. h
      BY <2>1
    <3>2. L[i] = K[i] /\ L[i - 1] = K[i - 1] /\ K[i] \in Nat /\ K[i - 1] \in Nat
      BY <1>2, <1>3, <3>1
    <3>3. CASE Last(S[i])
      <4>1. K[i] = K[i - 1] + 1 /\ K[i] <= m /\ sn[K[i]] = S[i].cmd
        BY <1>2, <2>1, <3>3
      <4>2. K[i] \in 1 .. m /\ K[i] <= g
        BY <1>1, <3>2, <4>1
      <4>3. t[K[i]] = S[i].cmd
        BY <1>1, <4>1, <4>2
      <4> QED
        BY <3>2, <3>3, <4>1, <4>2, <4>3
    <3>4. CASE ~Last(S[i])
      BY <1>2, <2>1, <3>2, <3>4
    <3> QED
      BY <3>3, <3>4
  <2>2. CASE i = h + 1
    <3>1. L[i] = g /\ i - 1 = h /\ L[i - 1] = m
      BY <1>2, <1>3, <2>2
    <3>2. CASE Last(S[i])
      <4>1. g = m + 1 /\ t[m + 1] = c /\ S[i].cmd = c
        BY <1>1, <2>2, <3>2
      <4>2. t[g] = S[i].cmd
        BY <4>1
      <4> QED
        BY <1>1, <3>1, <3>2, <4>1, <4>2
    <3>3. CASE ~Last(S[i])
      BY <1>1, <2>2, <3>1, <3>3
    <3> QED
      BY <3>2, <3>3
  <2> QED
    BY <2>1, <2>2
<1>5. L[0] = f /\ L[h + 1] = Len(t)
  BY <1>1, <1>2, <1>3
<1>6. Numbers(L, S, h + 1, f, t)
  BY <1>1, <1>3, <1>4, <1>5, Zenon DEF Numbers
<1> QED
  BY <1>6 DEF L, m, g, t

-----------------------------------------------------------------------------
(***************************************************************************)
(* The guest's steps.                                                      *)
(***************************************************************************)

\* The words of a command are the rest of one, namely all of it.
LEMMA WordsResult ==
    ASSUME WellSized, NEW c \in Command
    PROVE  /\ WordsOf(c) \in Seq(Word) /\ Len(WordsOf(c)) = Length(c)
           /\ \A i \in 1 .. Length(c) : WordsOf(c)[i] = [cmd |-> c, at |-> i]
<1> DEFINE l == Length(c)
<1>1. l \in Nat
  BY LengthResult
<1>2. WordsOf(c) = [i \in 1 .. l |-> [cmd |-> c, at |-> i]]
  BY DEF WordsOf
<1> HIDE DEF l
<1>3. WordsOf(c) \in Seq(Word) /\ Len(WordsOf(c)) = l
      /\ \A i \in 1 .. l : WordsOf(c)[i] = [cmd |-> c, at |-> i]
  BY <1>1, <1>2 DEF Word
<1> QED
  BY <1>3 DEF l

\* The guest turns to a new command: its words follow the last word of the one before.
LEMMA BeginKeeps ==
    ASSUME WellSized, IInv, NEW c \in Command, Begin(c)
    PROVE  IInv'
<1> USE DEF IInv
<1> DEFINE l == Length(c)
           h == Held
<1>1. /\ writing = <<>> /\ writing' = WordsOf(c)
      /\ UNCHANGED <<ring, next, sent>> /\ UNCHANGED device
  BY DEF Begin
<1>2. UNCHANGED <<ring, next, sent, stop, pc, cmd, start, len, left, maxloop, executed>>
  BY <1>1 DEF device
<1>3. /\ Base' = Base /\ MayRewind' = MayRewind /\ Taken' = Taken /\ Unread' = Unread /\ Got' = Got
      /\ FirstNumber' = FirstNumber /\ Held' = Held
  BY <1>2 DEF Base, MayRewind, Taken, Unread, Got, FirstNumber, Held
<1>4. l \in Nat /\ l > 0 /\ Len(writing) = 0
  BY <1>1, LengthResult
<1>5. /\ Base \in Position /\ Held \in 0 .. Ring - 1
      /\ Unread \in 0 .. Ring - 1 /\ Taken \in 0 .. Ring - 1
      /\ IF MayRewind THEN Base = start /\ Held = Taken + Unread /\ stop = At(Base, Taken)
                      ELSE Base = stop /\ Held = Unread
      /\ Ring \in Nat
  BY WindowResult, RingAssumption
<1>6. /\ WordsOf(c) \in Seq(Word) /\ Len(WordsOf(c)) = l
      /\ \A i \in 1 .. l : WordsOf(c)[i] = [cmd |-> c, at |-> i]
  BY WordsResult
<1>7. TypeOK'
  BY <1>1, <1>2, <1>6 DEF TypeOK
<1>8. Total = Held /\ Total' = Held + l
  BY <1>1, <1>3, <1>4, <1>5, <1>6 DEF Total
<1>9. \A i \in 1 .. h : Pending[i] = ring[At(Base, i - 1)]
  BY PendingResult
<1>10. /\ \A i \in 1 .. h : Pending'[i] = ring[At(Base, i - 1)]
       /\ \A i \in h + 1 .. h + l : Pending'[i] = WordsOf(c)[i - h]
  <2> DEFINE V == View(ring, Base, Held, WordsOf(c))
  <2>1. ring \in [Position -> Word]
    BY DEF TypeOK
  <2>2. /\ \A i \in 1 .. h : V[i] = ring[At(Base, i - 1)]
        /\ \A i \in h + 1 .. h + Len(WordsOf(c)) : V[i] = WordsOf(c)[i - h]
    <3>1. Base \in Position /\ Held \in 0 .. Ring - 1 /\ WordsOf(c) \in Seq(Word)
      BY <1>5, <1>6
    <3>. QED  BY <2>1, <3>1, ViewResult, Zenon
  <2>3. V = Pending'
    BY <1>1, <1>2, <1>3 DEF Pending
  <2> HIDE DEF V, h, l
  <2> QED
    BY <2>2, <2>3, <1>6, Zenon
<1> HIDE DEF l, h
<1>11. h = Held /\ h \in Nat
  BY <1>5 DEF h
<1>12. \A i \in 1 .. h : Pending'[i] = Pending[i]
  BY <1>9, <1>10
<1>13. ASSUME NEW i \in h + 1 .. h + l
       PROVE  /\ Pending'[i] = [cmd |-> c, at |-> i - h]
              /\ Pending'[i].cmd = c /\ Pending'[i].at = i - h
  <2>1. i - h \in 1 .. l
    BY <1>4, <1>11
  <2>2. Pending'[i] = [cmd |-> c, at |-> i - h]
    BY <2>1, <1>6, <1>10
  <2> QED
    BY <2>2
<1>14. Phases' /\ LenCovered' /\ ArgsCounted' /\ InHand' /\ NoDesync'
  BY <1>2, <1>3 DEF Phases, LenCovered, ArgsCounted, InHand, NoDesync
<1>15. RewindKept'
  <2>1. SUFFICES ASSUME MayRewind
                 PROVE  Taken = Got /\ Unread + Taken < Ring /\ Begins(Pending', cmd, Taken)
    BY <1>2, <1>3 DEF RewindKept
  <2>2. \A i \in 1 .. Taken : i \in 1 .. h /\ Pending[i] = [cmd |-> cmd, at |-> i]
    BY <2>1, <1>5, <1>11 DEF RewindKept, Begins
  <2> QED
    BY <2>1, <2>2, <1>12 DEF RewindKept, Begins
<1>16. WritingRest'
  <2>1. writing' = WordsOf(c) /\ Len(writing') = l /\ 1 \in 1 .. l
    BY <1>1, <1>4, <1>6
  <2>2. \A i \in 1 .. l : writing'[i].cmd = c /\ writing'[i].at = i /\ writing'[1].cmd = c
    BY <2>1, <1>6
  <2>3. l = Length(c)
    BY DEF l
  <2>4. \A i \in 1 .. l : writing'[i].at = Length(writing'[1].cmd) - l + i
    <3>1. TAKE i \in 1 .. l
    <3>2. l - l + i = i
      BY <1>4
    <3> QED
      BY <2>2, <2>3, <3>2
  <2> QED
    BY <2>1, <2>2, <2>4, Zenon DEF WritingRest
<1>17. Chained(Pending', h + l)
  <2>1. l = Length(c)
    BY DEF l
  <2>2. ASSUME NEW i \in 1 .. h + l PROVE Valid(Pending'[i])
    <3>1. CASE i \in 1 .. h
      BY <3>1, <1>8, <1>11, <1>12 DEF Chained
    <3>2. CASE i \in h + 1 .. h + l
      <4>1. i - h \in 1 .. Length(c)
        BY <2>1, <3>2, <1>4, <1>11
      <4> QED
        BY <3>2, <4>1, <1>13 DEF Valid
    <3> QED
      BY <3>1, <3>2, <1>4, <1>11
  <2>3. ASSUME NEW i \in 2 .. h + l PROVE Follows(Pending'[i - 1], Pending'[i])
    <3>1. CASE i \in 2 .. h
      <4>1. i \in 1 .. h /\ i - 1 \in 1 .. h
        BY <3>1, <1>11
      <4>2. Follows(Pending[i - 1], Pending[i])
        BY <3>1, <1>8, <1>11 DEF Chained
      <4>3. Pending'[i] = Pending[i] /\ Pending'[i - 1] = Pending[i - 1]
        BY <4>1, <1>12, Zenon
      <4> QED
        BY <4>2, <4>3, Zenon
    <3>2. CASE i = h + 1
      <4>1. h \in 1 .. h /\ i \in h + 1 .. h + l /\ i - 1 = h /\ h > 0 /\ i - h = 1
        BY <3>2, <1>4, <1>11
      <4>2. Last(Pending[h])
        BY <4>1, <1>8, <1>11 DEF Chained
      <4>3. Pending'[i - 1] = Pending[h] /\ Pending'[i].at = 1
        BY <4>1, <1>12, <1>13
      <4> QED
        BY <4>2, <4>3 DEF Follows
    <3>3. CASE i \in h + 2 .. h + l
      <4>1. /\ i - 1 \in h + 1 .. h + l /\ i \in h + 1 .. h + l
            /\ (i - 1) - h = (i - h) - 1 /\ i - h \in 2 .. l
        BY <3>3, <1>4, <1>11
      <4>2. Pending'[i - 1] = [cmd |-> c, at |-> (i - h) - 1] /\ Pending'[i] = [cmd |-> c, at |-> i - h]
        BY <4>1, <1>13, Zenon
      <4>3. (i - h) - 1 # l /\ ((i - h) - 1) + 1 = i - h
        BY <4>1, <1>4
      <4> QED
        BY <2>1, <4>2, <4>3 DEF Follows, Last, Successor
    <3> QED
      BY <3>1, <3>2, <3>3, <1>4, <1>11
  <2>4. Last(Pending'[h + l])
    <3>1. h + l \in h + 1 .. h + l /\ (h + l) - h = l
      BY <1>4, <1>11
    <3>2. Pending'[h + l] = [cmd |-> c, at |-> l]
      BY <3>1, <1>13
    <3> QED
      BY <3>2, <2>1 DEF Last
  <2> QED
    BY <2>2, <2>3, <2>4 DEF Chained
<1>18. (Total > 0 => Expected(Pending[1]))'
  <2>1. CASE h > 0
    <3>1. 1 \in 1 .. h /\ Total > 0
      BY <2>1, <1>8, <1>11
    <3>2. Pending'[1] = Pending[1] /\ Expected(Pending[1])
      BY <3>1, <1>12
    <3>3. Expected(Pending[1])'
      BY <3>2, <1>2, <1>3 DEF Expected
    <3> QED
      BY <3>3, Zenon
  <2>2. CASE ~(h > 0)
    <3>1. 1 \in h + 1 .. h + l /\ 1 - h = 1
      BY <2>2, <1>4, <1>11
    <3>2. Pending'[1].at = 1
      BY <3>1, <1>13
    <3>3. ~(pc = "args" /\ left > 0)
      <4>1. SUFFICES ASSUME pc = "args", left > 0 PROVE FALSE
        OBVIOUS
      <4>2. left \in Nat /\ len \in Int /\ 0 <= len /\ len + left <= Unread
        BY <4>1 DEF TypeOK, LenCovered
      <4>3. Held = Unread /\ Unread \in Nat
        BY <4>1, <1>5 DEF MayRewind
      <4> QED
        BY <2>2, <4>1, <4>2, <4>3, <1>11
    <3>4. Expected(Pending[1])'
      BY <3>2, <3>3, <1>2 DEF Expected
    <3> QED
      BY <3>4, Zenon
  <2> QED
    BY <2>1, <2>2
<1>19. Numbered'
  <2>1. PICK K : /\ Numbers(K, Pending, h, FirstNumber, sent)
                 /\ MayRewind => Constant(K, Taken, Len(executed))
    BY <1>11 DEF Numbered
  <2>2. Numbers(K, Pending', h, FirstNumber, sent)
    BY <2>1, <1>12 DEF Numbers
  <2> QED
    BY <2>1, <2>2, <1>2, <1>3, <1>11 DEF Numbered
<1>20. Chained(Pending, Total)'
  BY <1>8, <1>11, <1>17
<1> QED
  BY <1>7, <1>14, <1>15, <1>16, <1>18, <1>19, <1>20

\* The guest publishes a word: the slack a sparing guest leaves is what a rewind gives back.
LEMMA PutKeeps ==
    ASSUME WellSized, IInv, SparingPut
    PROVE  IInv'
<1> USE DEF IInv
<1> DEFINE n == Len(writing)
           h == Held
<1>1. /\ writing # <<>> /\ Unread + Slack < Ring - 1
      /\ ring' = [ring EXCEPT ![next] = writing[1]]
      /\ next' = Advance(next)
      /\ writing' = Tail(writing)
      /\ sent' = IF n = 1 THEN Append(sent, writing[1].cmd) ELSE sent
      /\ UNCHANGED device
  BY DEF SparingPut, Put
<1>2. UNCHANGED <<stop, pc, cmd, start, len, left, maxloop, executed>>
  BY <1>1 DEF device
<1>3. /\ Base' = Base /\ MayRewind' = MayRewind /\ Taken' = Taken /\ Got' = Got
  BY <1>2 DEF Base, MayRewind, Taken, Got
<1>4. /\ Base \in Position /\ Held \in 0 .. Ring - 1
      /\ Unread \in 0 .. Ring - 1 /\ Taken \in 0 .. Ring - 1
      /\ IF MayRewind THEN Base = start /\ Held = Taken + Unread /\ stop = At(Base, Taken)
                      ELSE Base = stop /\ Held = Unread
      /\ Ring \in Nat /\ Ring > 0 /\ Slack \in Nat
  BY WindowResult, RingAssumption
<1>5. /\ ring \in [Position -> Word] /\ next \in Position /\ stop \in Position
      /\ writing \in Seq(Word) /\ sent \in Seq(Command) /\ cmd \in Command /\ left \in Nat
  BY DEF TypeOK
<1>6. /\ n \in Nat /\ n > 0 /\ writing[1] \in Word /\ writing[1].cmd \in Command
      /\ writing' \in Seq(Word) /\ Len(writing') = n - 1
      /\ \A k \in 1 .. n - 1 : writing'[k] = writing[k + 1]
  <2>1. n \in Nat /\ n > 0 /\ writing[1] \in Word
        /\ Tail(writing) \in Seq(Word) /\ Len(Tail(writing)) = n - 1
        /\ \A k \in 1 .. n - 1 : Tail(writing)[k] = writing[k + 1]
    BY <1>1, <1>5
  <2> HIDE DEF n
  <2>2. writing[1].cmd \in Command
    BY <2>1 DEF Word
  <2> QED
    BY <2>1, <2>2, <1>1, Zenon
<1>7. Unread + Taken < Ring - 1 \/ ~MayRewind
  <2>1. SUFFICES ASSUME MayRewind PROVE Taken <= Slack
    BY <1>1, <1>4
  <2>2. Fixed[cmd] \in Nat /\ Fixed[cmd] > 0 /\ Fixed[cmd] <= Slack
    BY <1>5, LengthResult
  <2>3. Taken = Got
    BY <2>1 DEF RewindKept
  <2> QED
    <3>1. pc \in {"head", "fixed"} => Taken <= Fixed[cmd]
      BY <2>2, <2>3, <1>5 DEF Got
    <3>. QED  BY <2>1, <2>2, <2>3, <3>1, <1>4, <1>5 DEF MayRewind, Got
<1>8. Held < Ring - 1 /\ Unread < Ring - 1
  BY <1>1, <1>4, <1>7
<1>9. Held' = Held + 1 /\ Unread' = Unread + 1
  BY <1>1, <1>2, <1>3, <1>4, <1>5, <1>8, BetweenAdvance DEF Held, Unread
<1>10. Total = h + n /\ Total' = Total
  <2>1. Total = h + n /\ Total' = (h + 1) + Len(writing')
    BY <1>9 DEF Total
  <2> HIDE DEF n, h
  <2>2. h \in Nat
    BY <1>4 DEF h
  <2> QED
    BY <2>1, <2>2, <1>6
<1>11. Pending' = Pending
  <2>1. Between(Base, next) = Held
    BY DEF Held
  <2>2. View([ring EXCEPT ![next] = writing[1]], Base, Between(Base, next) + 1, Tail(writing))
          = View(ring, Base, Between(Base, next), writing)
    BY <2>1, <1>1, <1>4, <1>5, <1>8, PutView
  <2> QED
    BY <2>1, <2>2, <1>1, <1>3, <1>9, Zenon DEF Pending
<1>12. /\ \A i \in 1 .. n : writing[i].cmd = writing[1].cmd
                            /\ writing[i].at = Length(writing[1].cmd) - n + i
  BY DEF WritingRest
<1>13. Length(writing[1].cmd) \in Nat
  BY <1>6, LengthResult
<1>14. Last(writing[1]) <=> n = 1
  <2> HIDE DEF n
  <2>1. writing[1].at = Length(writing[1].cmd) - n + 1
    BY <1>6, <1>12
  <2> QED
    BY <2>1, <1>6, <1>13 DEF Last
<1>15. Pending[h + 1] = writing[1]
  <2> HIDE DEF n
  <2>1. Held < Total
    BY <1>4, <1>6, <1>10
  <2> QED
    BY <2>1, PendingResult
<1>16. /\ sent' \in Seq(Command) /\ Len(sent) <= Len(sent')
       /\ \A i \in 1 .. Len(sent) : sent'[i] = sent[i]
  <2> HIDE DEF n
  <2>1. CASE n = 1
    BY <2>1, <1>1, <1>5, <1>6
  <2>2. CASE n # 1
    BY <2>2, <1>1, <1>5
  <2> QED
    BY <2>1, <2>2
<1>17. TypeOK'
  <2>1. next' \in Position
    BY <1>1, <1>5, AdvanceResult
  <2>2. ring' \in [Position -> Word]
    BY <1>1, <1>5, <1>6
  <2> QED
    BY <2>1, <2>2, <1>2, <1>6, <1>16 DEF TypeOK
<1>18. Phases' /\ ArgsCounted'
  BY <1>2, <1>3 DEF Phases, ArgsCounted
<1>19. LenCovered'
  <2>1. len \in Int /\ Unread \in Nat /\ left \in Nat
    BY <1>4 DEF TypeOK
  <2> QED
    BY <2>1, <1>2, <1>9 DEF LenCovered
<1>20. RewindKept'
  <2>1. SUFFICES ASSUME MayRewind
                 PROVE  Taken = Got /\ Unread' + Taken < Ring /\ Begins(Pending, cmd, Taken)
    BY <1>2, <1>3, <1>11 DEF RewindKept
  <2>2. Taken = Got /\ Begins(Pending, cmd, Taken)
    BY <2>1 DEF RewindKept
  <2>3. Unread' + Taken < Ring
    BY <2>1, <1>4, <1>7, <1>9
  <2> QED
    BY <2>2, <2>3
<1>21. WritingRest'
  <2> DEFINE c == writing[1].cmd
  <2> HIDE DEF n, c
  <2>1. ASSUME NEW i \in 1 .. n - 1
        PROVE  writing'[i].cmd = c /\ writing'[i].at = Length(c) - (n - 1) + i /\ writing'[1].cmd = c
    <3>1. i + 1 \in 1 .. n /\ 2 \in 1 .. n /\ 1 \in 1 .. n - 1 /\ 1 + 1 = 2
      BY <1>6
    <3>2. writing'[i] = writing[i + 1] /\ writing'[1] = writing[2]
      BY <3>1, <1>6
    <3>3. writing[i + 1].cmd = c /\ writing[2].cmd = c /\ writing[i + 1].at = Length(c) - n + (i + 1)
      BY <3>1, <1>12 DEF c
    <3>4. Length(c) - n + (i + 1) = Length(c) - (n - 1) + i
      BY <1>6, <1>13 DEF c
    <3> QED
      BY <3>2, <3>3, <3>4
  <2>2. Len(writing') = n - 1
    BY <1>6
  <2>3. \A i \in 1 .. n - 1 : writing'[i].cmd = writing'[1].cmd
                              /\ writing'[i].at = Length(writing'[1].cmd) - (n - 1) + i
    BY <2>1
  <2> QED
    BY <2>2, <2>3, Zenon DEF WritingRest
<1>22. Chained(Pending, Total)'
  BY <1>10, <1>11
<1>23. (Total > 0 => Expected(Pending[1]))'
  BY <1>2, <1>3, <1>10, <1>11 DEF Expected
<1>24. Numbered'
  <2>1. PICK K : /\ Numbers(K, Pending, h, FirstNumber, sent)
                 /\ MayRewind => Constant(K, Taken, Len(executed))
    BY DEF Numbered
  <2> DEFINE f == FirstNumber
             L == [i \in 0 .. h + 1 |-> IF i <= h THEN K[i]
                                        ELSE IF Last(Pending[h + 1]) THEN Len(sent) + 1 ELSE Len(sent)]
  <2>2. Pending[h + 1].cmd = writing[1].cmd /\ h \in Nat
    BY <1>4, <1>15
  <2> HIDE DEF n, h, f
  <2>3. Numbers(K, Pending, h, f, sent)
    BY <2>1 DEF f
  <2>4. Numbers(L, Pending, h + 1, f,
                IF Last(Pending[h + 1]) THEN Append(sent, writing[1].cmd) ELSE sent)
    <3>1. sent \in Seq(Command) /\ writing[1].cmd \in Command
      BY <1>5, <1>6
    <3> QED
      BY <2>2, <2>3, <3>1, NumbersMore, ZenonT(60)
  <2>5. sent' = IF Last(Pending[h + 1]) THEN Append(sent, writing[1].cmd) ELSE sent
    BY <1>1, <1>14, <1>15, Zenon
  <2>6. Numbers(L, Pending', Held', FirstNumber', sent')
    <3>1. FirstNumber' = f /\ Held' = h + 1
      BY <1>2, <1>9 DEF f, h, FirstNumber
    <3> HIDE DEF L
    <3> QED
      BY <2>4, <2>5, <3>1, <1>11, Zenon
  <2>7. MayRewind => Constant(L, Taken, Len(executed))
    <3>1. SUFFICES ASSUME MayRewind, NEW i \in 0 .. Taken - 1 PROVE L[i] = Len(executed)
      BY DEF Constant
    <3>2. i \in 0 .. h + 1 /\ i <= h
      BY <3>1, <1>4 DEF h
    <3>3. L[i] = K[i] /\ K[i] = Len(executed)
      BY <3>1, <3>2, <2>1 DEF Constant
    <3> QED
      BY <3>3
  <2> HIDE DEF L
  <2> QED
    BY <2>6, <2>7, <1>2, <1>3 DEF Numbered
<1>25. InHand' /\ NoDesync'
  <2> DEFINE m == Len(executed)
             k == Len(sent)
             j == Len(sent')
  <2>1. m \in Nat /\ k \in Nat /\ j \in Nat /\ k <= j /\ \A i \in 1 .. k : sent'[i] = sent[i]
    BY <1>5, <1>16 DEF TypeOK
  <2>2. /\ pc = "args" /\ left = 0 => m < k /\ sent[m + 1] = cmd
        /\ m <= k /\ \A i \in 1 .. m : executed[i] = sent[i]
    BY DEF InHand, NoDesync
  <2> HIDE DEF m, k, j
  <2>3. pc = "args" /\ left = 0 => m < j /\ sent'[m + 1] = cmd
    BY <2>1, <2>2
  <2>4. m <= j /\ \A i \in 1 .. m : executed[i] = sent'[i]
    BY <2>1, <2>2
  <2> QED
    BY <2>3, <2>4, <1>2, Zenon DEF InHand, NoDesync, m, j
<1> QED
  BY <1>17, <1>18, <1>19, <1>20, <1>21, <1>22, <1>23, <1>24, <1>25

-----------------------------------------------------------------------------
(***************************************************************************)
(* The device's steps.                                                     *)
(***************************************************************************)

\* Between two commands nothing of the stream changes.
LEMMA LoopKept ==
    ASSUME IInv, UNCHANGED guest, Base' = Base, pc' \in {"idle", "loop"},
           ~(pc = "args" /\ left > 0), FirstNumber' = FirstNumber
    PROVE  /\ RewindKept' /\ ArgsCounted' /\ WritingRest' /\ Chained(Pending, Total)'
           /\ (Total > 0 => Expected(Pending[1]))' /\ Numbered' /\ InHand'
<1> USE DEF IInv
<1>1. Held' = Held /\ Total' = Total /\ Pending' = Pending
  BY StreamKept
<1>2. ~MayRewind' /\ pc' # "args"
  BY DEF MayRewind
<1>3. RewindKept' /\ ArgsCounted' /\ InHand'
  BY <1>2 DEF RewindKept, ArgsCounted, InHand
<1>4. WritingRest' /\ writing' = writing /\ sent' = sent
  BY DEF guest, WritingRest
<1>5. Chained(Pending, Total)'
  BY <1>1
<1>6. (Total > 0 => Expected(Pending[1]))'
  BY <1>1, <1>2 DEF Expected
<1>7. Numbered'
  <2>1. PICK K : Numbers(K, Pending, Held, FirstNumber, sent)
    BY DEF Numbered
  <2>2. Numbers(K, Pending', Held', FirstNumber', sent')
    BY <2>1, <1>1, <1>4, Zenon
  <2> QED
    BY <2>2, <1>2 DEF Numbered
<1> QED
  BY <1>3, <1>4, <1>5, <1>6, <1>7

\* vmsvga_fifo_length: the words counted are there.
LEMMA RunKeeps ==
    ASSUME WellSized, IInv, Run
    PROVE  IInv'
<1> USE DEF IInv
<1>1. /\ pc = "idle" /\ pc' = "loop" /\ len' = Unread /\ maxloop' = MaxLoop
      /\ UNCHANGED <<stop, cmd, start, left, executed>> /\ UNCHANGED guest
  BY DEF Run
<1>2. UNCHANGED <<ring, next, writing, sent>>
  BY <1>1 DEF guest
<1>3. Base' = Base /\ FirstNumber' = FirstNumber /\ Unread' = Unread
  BY <1>1, <1>2 DEF Base, MayRewind, FirstNumber, Unread
<1>4. Unread \in 0 .. Ring - 1 /\ Ring \in Nat /\ MaxLoop \in Nat /\ MaxLoop > 0
  BY WindowResult, RingAssumption
<1>5. TypeOK'
  BY <1>1, <1>2, <1>4 DEF TypeOK
<1>6. Phases' /\ LenCovered' /\ NoDesync'
  BY <1>1, <1>2, <1>3, <1>4 DEF Phases, LenCovered, NoDesync
<1> QED
  BY <1>1, <1>3, <1>5, <1>6, LoopKept

\* The function returns with nothing charged for.
LEMMA ReturnKeeps ==
    ASSUME WellSized, IInv, Return
    PROVE  IInv'
<1> USE DEF IInv
<1>1. /\ pc = "loop" /\ pc' = "idle" /\ len' = 0
      /\ maxloop' = IF len > 0 THEN maxloop - 1 ELSE maxloop
      /\ UNCHANGED <<stop, cmd, start, left, executed>> /\ UNCHANGED guest
  BY DEF Return
<1>2. UNCHANGED <<ring, next, writing, sent>>
  BY <1>1 DEF guest
<1>3. Base' = Base /\ FirstNumber' = FirstNumber /\ Unread' = Unread
  BY <1>1, <1>2 DEF Base, MayRewind, FirstNumber, Unread
<1>4. Unread \in 0 .. Ring - 1 /\ Ring \in Nat /\ MaxLoop \in Nat
  BY WindowResult, RingAssumption
<1>5. maxloop \in 0 .. MaxLoop /\ maxloop > 0
  BY <1>1 DEF TypeOK, Phases
<1>6. maxloop' \in 0 .. MaxLoop
  BY <1>1, <1>4, <1>5
<1>7. TypeOK'
  BY <1>1, <1>2, <1>6 DEF TypeOK
<1>8. Phases' /\ LenCovered' /\ NoDesync'
  BY <1>1, <1>2, <1>3, <1>4 DEF Phases, LenCovered, NoDesync
<1> QED
  BY <1>1, <1>3, <1>7, <1>8, LoopKept

\* Back to cmd_start: the words given back are still in the ring.
LEMMA RewindKeeps ==
    ASSUME WellSized, IInv, Rewind
    PROVE  IInv'
<1> USE DEF IInv
<1>1. /\ pc \in {"head", "fixed"} /\ left = 0 /\ len < Charge /\ len' = len - Charge
      /\ stop' = start /\ pc' = "loop"
      /\ UNCHANGED <<cmd, start, left, maxloop, executed>> /\ UNCHANGED guest
  BY DEF Rewind
<1>2. UNCHANGED <<ring, next, writing, sent>>
  BY <1>1 DEF guest
<1>3. Base' = Base /\ FirstNumber' = FirstNumber /\ Unread' = Held
  BY <1>1, <1>2 DEF Base, MayRewind, FirstNumber, Unread, Held
<1>4. Held \in 0 .. Ring - 1 /\ Ring \in Nat
  BY WindowResult, RingAssumption
<1>5. Charge \in Nat
  BY <1>1, CommandAssumption DEF TypeOK, Charge
<1>6. len' \in Int /\ len' < 0
  BY <1>1, <1>5 DEF TypeOK
<1>7. TypeOK'
  BY <1>1, <1>2, <1>6 DEF TypeOK
<1>8. LenCovered'
  BY <1>1, <1>3, <1>4, <1>6 DEF LenCovered
<1>9. Phases' /\ NoDesync'
  BY <1>1, <1>2 DEF Phases, NoDesync
<1> QED
  BY <1>1, <1>3, <1>7, <1>8, <1>9, LoopKept

\* The command executed is the next one the guest sent.
LEMMA FinishKeeps ==
    ASSUME WellSized, IInv, Finish
    PROVE  IInv'
<1> USE DEF IInv
<1> DEFINE m == Len(executed)
           k == Len(sent)
<1>1. /\ pc = "args" /\ left = 0 /\ executed' = Append(executed, cmd) /\ pc' = "loop"
      /\ UNCHANGED <<stop, cmd, start, len, left, maxloop>> /\ UNCHANGED guest
  BY DEF Finish
<1>2. UNCHANGED <<ring, next, writing, sent>>
  BY <1>1 DEF guest
<1>3. /\ executed' \in Seq(Command) /\ Len(executed') = m + 1 /\ m \in Nat /\ k \in Nat
      /\ executed'[m + 1] = cmd /\ \A i \in 1 .. m : executed'[i] = executed[i]
  BY <1>1 DEF TypeOK
<1>4. Base' = Base /\ Unread' = Unread
  BY <1>1, <1>2 DEF Base, MayRewind, Unread
<1>5. FirstNumber' = FirstNumber
  BY <1>1, <1>3 DEF FirstNumber
<1>6. TypeOK' /\ Phases'
  BY <1>1, <1>2, <1>3 DEF TypeOK, Phases
<1>7. LenCovered'
  <2>1. len \in Int /\ Unread \in Int
    BY WindowResult, RingAssumption DEF TypeOK
  <2> QED
    BY <2>1, <1>1, <1>4 DEF LenCovered
<1>8. NoDesync'
  <2>1. m < k /\ sent[m + 1] = cmd /\ \A i \in 1 .. m : executed[i] = sent[i]
    BY <1>1 DEF InHand, NoDesync
  <2> HIDE DEF m, k
  <2>2. m + 1 <= k /\ \A i \in 1 .. m + 1 : executed'[i] = sent[i]
    BY <2>1, <1>3
  <2> QED
    BY <2>2, <1>2, <1>3, Zenon DEF NoDesync, k
<1> QED
  BY <1>1, <1>4, <1>5, <1>6, <1>7, <1>8, LoopKept

\* The pointer the device publishes after a word.
LEMMA StopAdvanced ==
    ASSUME TypeOK, RewindKept, stop' = Advance(stop), next' = next, Unread > 0
    PROVE  stop' \in Position /\ stop' = At(stop, 1) /\ Unread' = Unread - 1
<1>1. stop \in Position /\ next \in Position
  BY DEF TypeOK
<1>2. stop' = At(stop, 1) /\ stop' \in Position
  BY <1>1, AdvanceResult
<1>3. Unread \in 0 .. Ring - 1 /\ Ring \in Nat
  BY WindowResult, RingAssumption
<1>4. 1 \in 0 .. Between(stop, next)
  BY <1>3 DEF Unread
<1>5. Between(At(stop, 1), next) = Between(stop, next) - 1
  BY <1>1, <1>4, BetweenAt
<1> QED
  BY <1>2, <1>5 DEF Unread

\* The command word: the first word of the stream is one, and a rewind may return it.
LEMMA FetchKeeps ==
    ASSUME WellSized, IInv, Fetch
    PROVE  IInv'
<1> USE DEF IInv
<1>1. /\ pc = "loop" /\ len > 0 /\ maxloop > 1 /\ maxloop' = maxloop - 1
      /\ start' = stop /\ cmd' \in Meaning(ring[stop]) /\ stop' = Advance(stop) /\ pc' = "head"
      /\ UNCHANGED <<len, left, executed>> /\ UNCHANGED guest
  BY DEF Fetch
<1>2. UNCHANGED <<ring, next, writing, sent>>
  BY <1>1 DEF guest
<1>3. ~MayRewind /\ MayRewind' /\ left = 0
  BY <1>1 DEF MayRewind, Phases
<1>4. /\ Base = stop /\ Held = Unread /\ Unread \in 0 .. Ring - 1 /\ Ring \in Nat
      /\ Held \in 0 .. Ring - 1 /\ len \in Int /\ len <= Unread /\ stop \in Position
      /\ next \in Position
  BY <1>1, <1>3, WindowResult, RingAssumption DEF TypeOK, LenCovered
<1>5. Base' = Base
  BY <1>1, <1>3, <1>4 DEF Base
<1>6. Held' = Held /\ Total' = Total /\ Pending' = Pending
  BY <1>1, <1>5, StreamKept
<1>7. /\ Total \in Nat /\ Held <= Total /\ Pending \in [1 .. Total -> Word]
      /\ ring[stop] = Pending[1]
  <2>1. /\ Len(writing) \in Nat /\ Total \in Nat /\ Total = Held + Len(writing)
        /\ Pending \in [1 .. Total -> Word]
        /\ Unread > 0 => ring[stop] = Pending[IF MayRewind THEN Taken + 1 ELSE 1]
    BY PendingResult
  <2>2. Unread > 0
    BY <1>1, <1>4
  <2> DEFINE n == Len(writing)
  <2>3. n \in Nat /\ Total = Held + n
    BY <2>1
  <2> HIDE DEF n
  <2>4. Held <= Total
    BY <2>3, <1>4
  <2> QED
    BY <2>1, <2>2, <2>4, <1>3
<1>8. 1 \in 1 .. Held /\ 1 \in 1 .. Total /\ Total > 0
  BY <1>1, <1>4, <1>7
<1>9. Pending[1] \in Word /\ Pending[1].at = 1
  BY <1>1, <1>7, <1>8 DEF Expected
<1>10. cmd' = Pending[1].cmd /\ cmd' \in Command
       /\ Pending[1] = [cmd |-> cmd', at |-> 1]
  BY <1>1, <1>7, <1>9 DEF Meaning, Word
<1>11. stop' \in Position /\ stop' = At(stop, 1) /\ Unread' = Unread - 1
  BY <1>1, <1>2, <1>4, StopAdvanced
<1>12. Taken' = 1
  <2>1. 1 \in 0 .. Ring
    BY <1>4
  <2>2. Between(stop, Advance(stop)) = 1
    <3>1. Ring \in Nat \ {0} /\ stop \in 0 .. Ring - 1 /\ Ring > 1
      BY <1>1, <1>4, RingAssumption DEF Position
    <3>2. Advance(stop) = At(stop, 1) /\ At(stop, 1) \in Position
      BY <1>4, AdvanceResult
    <3>3. Between(stop, At(stop, 1)) =
            IF At(stop, 1) >= stop THEN At(stop, 1) - stop ELSE At(stop, 1) - stop + Ring
      BY <3>2, <1>4, BetweenResult
    <3> QED
      BY <3>1, <3>2, <3>3 DEF At
  <2> QED
    BY <1>1, <2>2 DEF Taken
<1>13. TypeOK'
  <2>1. maxloop' \in 0 .. MaxLoop
    BY <1>1, RingAssumption DEF TypeOK
  <2> QED
    BY <2>1, <1>1, <1>2, <1>4, <1>10, <1>11 DEF TypeOK
<1>14. Phases'
  BY <1>1, <1>3 DEF Phases, TypeOK
<1>15. LenCovered'
  BY <1>1, <1>4, <1>11 DEF LenCovered
<1>16. RewindKept'
  <2>1. Got' = 1
    BY <1>1 DEF Got
  <2>2. Unread' + Taken' < Ring
    BY <1>4, <1>11, <1>12
  <2>3. Begins(Pending', cmd', Taken')
    <3>1. \A i \in 1 .. 1 : i = 1
      OBVIOUS
    <3> QED
      BY <3>1, <1>6, <1>10, <1>12 DEF Begins
  <2> QED
    BY <2>1, <2>2, <2>3, <1>12 DEF RewindKept
<1>17. WritingRest'
  BY <1>2 DEF WritingRest
<1>18. Chained(Pending, Total)'
  BY <1>6
<1>19. (Total > 0 => Expected(Pending[1]))'
  BY <1>1, <1>6, <1>9 DEF Expected
<1>20. Numbered'
  <2>1. PICK K : Numbers(K, Pending, Held, FirstNumber, sent)
    BY DEF Numbered
  <2>2. FirstNumber = Len(executed) /\ FirstNumber' = FirstNumber
    BY <1>1 DEF FirstNumber
  <2>3. Numbers(K, Pending', Held', FirstNumber', sent')
    BY <2>1, <2>2, <1>2, <1>6, Zenon
  <2>4. Constant(K, 1, Len(executed))
    BY <2>1, <2>2 DEF Numbers, Constant
  <2>5. Constant(K, Taken', Len(executed'))
    BY <2>4, <1>1, <1>12
  <2> QED
    BY <2>3, <2>5 DEF Numbered
<1>21. ArgsCounted' /\ InHand' /\ NoDesync'
  BY <1>1, <1>2 DEF ArgsCounted, InHand, NoDesync
<1> QED
  BY <1>13, <1>14, <1>15, <1>16, <1>17, <1>18, <1>19, <1>20, <1>21

\* The fixed part is charged for: the command word was read already.
LEMMA AcceptHeadKeeps ==
    ASSUME WellSized, IInv, Accept, pc = "head"
    PROVE  IInv'
<1> USE DEF IInv
<1>1. /\ left = 0 /\ len >= Fixed[cmd] /\ len' = len - Fixed[cmd]
      /\ pc' = "fixed" /\ left' = IF Fixed[cmd] = 0 THEN 0 ELSE Fixed[cmd] - 1
      /\ UNCHANGED <<stop, cmd, start, maxloop, executed>> /\ UNCHANGED guest
  BY DEF Accept, Charge
<1>2. UNCHANGED <<ring, next, writing, sent>>
  BY <1>1 DEF guest
<1>3. MayRewind /\ MayRewind'
  BY <1>1 DEF MayRewind
<1>4. Base' = Base /\ Taken' = Taken /\ Unread' = Unread
  BY <1>1, <1>2, <1>3 DEF Base, Taken, Unread
<1>5. Held' = Held /\ Total' = Total /\ Pending' = Pending
  BY <1>1, <1>4, StreamKept
<1>6. /\ Fixed[cmd] \in Nat /\ Fixed[cmd] > 0 /\ len \in Int /\ cmd \in Command
  BY LengthResult DEF TypeOK
<1>7. left' = Fixed[cmd] - 1 /\ left' \in Nat /\ len' \in Nat
  BY <1>1, <1>6
<1>8. TypeOK'
  BY <1>1, <1>2, <1>7 DEF TypeOK
<1>9. Phases'
  BY <1>1, <1>6, <1>7 DEF Phases
<1>10. Unread \in 0 .. Ring - 1 /\ Ring \in Nat
  BY WindowResult, RingAssumption
<1>11. LenCovered'
  BY <1>1, <1>4, <1>6, <1>7, <1>10 DEF LenCovered
<1>12. Got = 1 /\ Got' = 1
  BY <1>1, <1>6, <1>7 DEF Got
<1>13. RewindKept'
  BY <1>1, <1>3, <1>4, <1>5, <1>12 DEF RewindKept
<1>14. WritingRest'
  BY <1>2 DEF WritingRest
<1>15. Chained(Pending, Total)'
  BY <1>5
<1>16. (Total > 0 => Expected(Pending[1]))'
  BY <1>1, <1>5 DEF Expected
<1>17. Numbered'
  <2>1. FirstNumber' = FirstNumber
    BY <1>1 DEF FirstNumber
  <2>2. PICK K : /\ Numbers(K, Pending, Held, FirstNumber, sent)
                 /\ Constant(K, Taken, Len(executed))
    BY <1>3 DEF Numbered
  <2>3. Numbers(K, Pending', Held', FirstNumber', sent')
    BY <2>1, <2>2, <1>2, <1>5, Zenon
  <2>4. Constant(K, Taken', Len(executed'))
    BY <2>2, <1>1, <1>4
  <2> QED
    BY <2>3, <2>4 DEF Numbered
<1>18. ArgsCounted' /\ InHand' /\ NoDesync'
  BY <1>1, <1>2 DEF ArgsCounted, InHand, NoDesync
<1> QED
  BY <1>8, <1>9, <1>11, <1>13, <1>14, <1>15, <1>16, <1>17, <1>18

\* Numbers, kept apart from the words: the one of the word a step has just read.
LEMMA NumberOf ==
    ASSUME NEW K, NEW S, NEW h, NEW f, NEW sn, Numbers(K, S, h, f, sn), NEW i \in 1 .. h
    PROVE  IF Last(S[i])
           THEN K[i] = K[i - 1] + 1 /\ K[i] <= Len(sn) /\ sn[K[i]] = S[i].cmd
           ELSE K[i] = K[i - 1]
BY Zenon DEF Numbers

\* The rest is charged for: the words read so far will not be given back.
LEMMA AcceptFixedKeeps ==
    ASSUME WellSized, IInv, Accept, pc = "fixed"
    PROVE  IInv'
<1> USE DEF IInv
<1> DEFINE d == Taken
<1>1. /\ left = 0 /\ len >= Args[cmd] /\ len' = len - Args[cmd]
      /\ pc' = "args" /\ left' = Args[cmd]
      /\ UNCHANGED <<stop, cmd, start, maxloop, executed>> /\ UNCHANGED guest
  BY DEF Accept, Charge
<1>2. UNCHANGED <<ring, next, writing, sent>>
  BY <1>1 DEF guest
<1>3. MayRewind /\ ~MayRewind'
  BY <1>1 DEF MayRewind
<1>4. /\ Fixed[cmd] \in Nat /\ Fixed[cmd] > 0 /\ Args[cmd] \in Nat
      /\ Length(cmd) = Fixed[cmd] + Args[cmd] /\ Length(cmd) \in Nat
      /\ len \in Int /\ cmd \in Command
  BY LengthResult DEF TypeOK
<1>5. /\ Held \in 0 .. Ring - 1 /\ Unread \in 0 .. Ring - 1 /\ Taken \in 0 .. Ring - 1
      /\ Held = Taken + Unread /\ stop = At(Base, Taken) /\ Ring \in Nat
  BY <1>3, WindowResult, RingAssumption
<1>6. d = Fixed[cmd] /\ Begins(Pending, cmd, d)
  BY <1>1, <1>3, <1>4 DEF RewindKept, Got
<1>7. /\ Len(writing) \in Nat /\ Total \in Nat /\ Total = Held + Len(writing)
      /\ Pending \in [1 .. Total -> Word]
  BY PendingResult
<1>8. Held <= Total
  <2> DEFINE n == Len(writing)
  <2>1. n \in Nat /\ Total = Held + n
    BY <1>7
  <2> HIDE DEF n
  <2> QED
    BY <2>1, <1>5
<1>9. Base' = At(Base, d) /\ d \in 0 .. Held
  BY <1>1, <1>3, <1>5 DEF Base
<1>10. /\ Held' = Held - d /\ Total' = Total - d
       /\ Pending' = [i \in 1 .. Total - d |-> Pending[i + d]]
  BY <1>1, <1>9, StreamDropped
<1> HIDE DEF d
<1>11. d \in 1 .. Held /\ d \in 1 .. Total
  BY <1>4, <1>5, <1>6, <1>7, <1>8, <1>9
<1>12. Pending[d].cmd = cmd /\ Pending[d].at = d /\ (Last(Pending[d]) <=> Args[cmd] = 0)
  <2>1. Pending[d] = [cmd |-> cmd, at |-> d]
    BY <1>6, <1>11 DEF Begins
  <2> QED
    BY <2>1, <1>4, <1>6 DEF Last
<1>13. PICK K : Numbers(K, Pending, Held, FirstNumber, sent) /\ Constant(K, d, Len(executed))
  BY <1>3 DEF Numbered, d
<1>14. IF Args[cmd] = 0
       THEN K[d] = Len(executed) + 1 /\ K[d] <= Len(sent) /\ sent[K[d]] = cmd
       ELSE K[d] = Len(executed)
  <2>1. IF Last(Pending[d])
        THEN K[d] = K[d - 1] + 1 /\ K[d] <= Len(sent) /\ sent[K[d]] = Pending[d].cmd
        ELSE K[d] = K[d - 1]
    BY <1>11, <1>13, NumberOf
  <2>2. d - 1 \in 0 .. d - 1
    BY <1>11, <1>5
  <2>3. K[d - 1] = Len(executed)
    BY <2>2, <1>13 DEF Constant
  <2> QED
    BY <2>1, <2>3, <1>12, Zenon
<1>15. TypeOK'
  BY <1>1, <1>2, <1>4 DEF TypeOK
<1>16. Phases'
  BY <1>1, <1>4 DEF Phases
<1>17. LenCovered'
  <2>1. Unread' = Unread /\ len + left <= Unread
    BY <1>1, <1>2 DEF Unread, LenCovered
  <2> QED
    BY <2>1, <1>1, <1>4, <1>5 DEF LenCovered
<1>18. RewindKept'
  BY <1>3 DEF RewindKept
<1>19. WritingRest'
  BY <1>2 DEF WritingRest
<1>20. Chained(Pending, Total)'
  <2>1. Chained([i \in 1 .. Total - d |-> Pending[i + d]], Total - d)
    <3>1. Total \in Nat /\ d \in 0 .. Total /\ Chained(Pending, Total)
      BY <1>7, <1>11
    <3> QED
      BY <3>1, ChainedDropped, Zenon
  <2> QED
    BY <2>1, <1>10, Zenon
<1>21. (Total > 0 => Expected(Pending[1]))'
  <2>1. SUFFICES ASSUME Total - d > 0
                 PROVE  Expected(Pending[1])'
    BY <1>10
  <2>2. 1 \in 1 .. Total - d /\ 1 + d \in 2 .. Total /\ (1 + d) - 1 = d
    BY <2>1, <1>5, <1>7, <1>11
  <2>3. Pending'[1] = Pending[1 + d]
    BY <2>2, <1>10
  <2>4. Follows(Pending[d], Pending[1 + d])
    BY <2>2 DEF Chained
  <2>5. CASE Args[cmd] = 0
    BY <2>3, <2>4, <2>5, <1>1, <1>12 DEF Follows, Expected
  <2>6. CASE Args[cmd] # 0
    <3>1. Pending'[1] = [cmd |-> cmd, at |-> d + 1]
      BY <2>3, <2>4, <2>6, <1>12 DEF Follows, Successor
    <3>2. Got' = d
      BY <1>1, <1>4, <1>6 DEF Got
    <3> QED
      BY <3>1, <3>2, <2>6, <1>1, <1>4 DEF Expected
  <2> QED
    BY <2>5, <2>6
<1>22. Numbered'
  <2> DEFINE L == [i \in 0 .. Held - d |-> K[i + d]]
  <2>1. d \in 0 .. Held /\ Held \in Nat
    BY <1>5, <1>11
  <2>2. Numbers(L, [i \in 1 .. Total - d |-> Pending[i + d]], Held - d, K[d], sent)
    BY <2>1, <1>7, <1>8, <1>13, NumbersDropped
  <2>3. FirstNumber' = K[d]
    BY <1>1, <1>14, <1>4 DEF FirstNumber
  <2> HIDE DEF L
  <2>4. Numbers(L, Pending', Held', FirstNumber', sent')
    BY <2>2, <2>3, <1>2, <1>10, Zenon
  <2> QED
    BY <2>4, <1>3 DEF Numbered
<1>23. InHand'
  <2>1. Len(executed) \in Nat /\ Len(sent) \in Nat
    BY DEF TypeOK
  <2> DEFINE m == Len(executed)
             k == Len(sent)
  <2>2. m \in Nat /\ k \in Nat
    BY <2>1
  <2>3. Args[cmd] = 0 => K[d] = m + 1 /\ K[d] <= k /\ sent[K[d]] = cmd
    BY <1>14
  <2> HIDE DEF m, k
  <2>4. Args[cmd] = 0 => m < k /\ sent[m + 1] = cmd
    BY <2>2, <2>3
  <2> QED
    BY <2>4, <1>1, <1>2 DEF InHand, m, k
<1>24. NoDesync'
  BY <1>1, <1>2 DEF NoDesync
<1>25. ArgsCounted'
  <2>1. Taken' = d /\ Got' = d
    BY <1>1, <1>4, <1>6 DEF d, Taken, Got
  <2>2. Held = d + Unread /\ len <= Unread
    BY <1>1, <1>4, <1>5 DEF d, LenCovered
  <2>3. Length(cmd) < Ring
    BY <2>2, <1>1, <1>4, <1>5, <1>6
  <2> QED
    BY <2>1, <2>3, <1>1 DEF ArgsCounted
<1> QED
  BY <1>25, <1>15, <1>16, <1>17, <1>18, <1>19, <1>20, <1>21, <1>22, <1>23, <1>24

\* A word of the fixed part, which a rewind may still return.
LEMMA ReadFixedKeeps ==
    ASSUME WellSized, IInv, Read, pc = "fixed"
    PROVE  IInv'
<1> USE DEF IInv
<1> DEFINE d == Taken
<1>1. /\ left > 0 /\ left' = left - 1 /\ stop' = Advance(stop)
      /\ UNCHANGED <<pc, cmd, start, len, maxloop, executed>> /\ UNCHANGED guest
  BY DEF Read
<1>2. UNCHANGED <<ring, next, writing, sent>>
  BY <1>1 DEF guest
<1>3. MayRewind /\ MayRewind'
  BY <1>1 DEF MayRewind
<1>4. /\ Fixed[cmd] \in Nat /\ Fixed[cmd] > 0 /\ Args[cmd] \in Nat
      /\ Length(cmd) = Fixed[cmd] + Args[cmd] /\ Length(cmd) \in Nat
      /\ len \in Int /\ left \in Nat /\ cmd \in Command
      /\ start \in Position /\ stop \in Position /\ next \in Position
      /\ left < Fixed[cmd] /\ 0 <= len /\ len + left <= Unread
  BY LengthResult DEF TypeOK, Phases, LenCovered
<1>5. /\ Held \in 0 .. Ring - 1 /\ Unread \in 0 .. Ring - 1 /\ d \in 0 .. Ring - 1
      /\ Held = d + Unread /\ Ring \in Nat
  BY <1>3, WindowResult, RingAssumption
<1>6. d = Fixed[cmd] - left /\ Begins(Pending, cmd, d) /\ Got = d
  BY <1>3, <1>4 DEF RewindKept, Got
<1>7. /\ Len(writing) \in Nat /\ Total \in Nat /\ Total = Held + Len(writing)
      /\ Pending \in [1 .. Total -> Word]
  BY PendingResult
<1>8. Held <= Total
  <2> DEFINE n == Len(writing)
  <2>1. n \in Nat /\ Total = Held + n
    BY <1>7
  <2> HIDE DEF n
  <2> QED
    BY <2>1, <1>5
<1>9. Base' = Base
  BY <1>1, <1>3 DEF Base
<1>10. Held' = Held /\ Total' = Total /\ Pending' = Pending
  BY <1>1, <1>9, StreamKept
<1>11. Unread > 0
  BY <1>1, <1>4, <1>5
<1>12. stop' \in Position /\ Unread' = Unread - 1
  BY <1>1, <1>2, <1>11, StopAdvanced
<1>13. Taken' = d + 1
  <2>1. Between(start, stop) = d
    BY DEF Taken
  <2>2. d < Ring - 1
    BY <1>5, <1>11
  <2>3. Between(start, Advance(stop)) = d + 1
    BY <2>1, <2>2, <1>4, BetweenAdvance
  <2> QED
    BY <2>3, <1>1 DEF Taken
<1> HIDE DEF d
<1>14. d \in 1 .. Held /\ d \in 1 .. Total /\ d + 1 \in 2 .. Total
  <2>1. d \in Nat /\ d > 0 /\ d + 1 <= Held /\ Held \in Nat
    BY <1>4, <1>5, <1>6, <1>11
  <2>2. Total \in Nat
    BY <1>7
  <2> QED
    BY <2>1, <2>2, <1>8
<1>15. Pending[d] = [cmd |-> cmd, at |-> d]
  BY <1>6, <1>14 DEF Begins
<1>16. ~Last(Pending[d])
  BY <1>1, <1>4, <1>6, <1>15 DEF Last
<1>17. Pending[d + 1] = [cmd |-> cmd, at |-> d + 1]
  <2>1. (d + 1) - 1 = d
    BY <1>5
  <2>2. Follows(Pending[d], Pending[d + 1])
    BY <2>1, <1>14 DEF Chained
  <2> QED
    BY <2>2, <1>15, <1>16 DEF Follows, Successor
<1>18. TypeOK'
  BY <1>1, <1>2, <1>4, <1>12 DEF TypeOK
<1>19. Phases'
  BY <1>1, <1>4 DEF Phases
<1>20. LenCovered'
  BY <1>1, <1>4, <1>5, <1>12 DEF LenCovered
<1>21. RewindKept'
  <2>1. Got' = d + 1
    BY <1>1, <1>4, <1>6 DEF Got
  <2>2. Unread' + Taken' < Ring
    BY <1>5, <1>12, <1>13
  <2>3. Begins(Pending, cmd, d + 1)
    <3>1. SUFFICES ASSUME NEW i \in 1 .. d + 1 PROVE Pending[i] = [cmd |-> cmd, at |-> i]
      BY DEF Begins
    <3>2. i \in 1 .. d \/ i = d + 1
      BY <1>5
    <3> QED
      BY <3>2, <1>6, <1>17 DEF Begins
  <2> QED
    BY <2>1, <2>2, <2>3, <1>1, <1>10, <1>13 DEF RewindKept
<1>22. WritingRest'
  BY <1>2 DEF WritingRest
<1>23. Chained(Pending, Total)'
  BY <1>10
<1>24. (Total > 0 => Expected(Pending[1]))'
  BY <1>1, <1>10 DEF Expected
<1>25. Numbered'
  <2>1. PICK K : Numbers(K, Pending, Held, FirstNumber, sent) /\ Constant(K, d, Len(executed))
    BY <1>3 DEF Numbered, d
  <2>2. FirstNumber' = FirstNumber
    BY <1>1 DEF FirstNumber
  <2>3. Numbers(K, Pending', Held', FirstNumber', sent')
    BY <2>1, <2>2, <1>2, <1>10, Zenon
  <2>4. Constant(K, d + 1, Len(executed))
    <3>1. SUFFICES ASSUME NEW i \in 0 .. (d + 1) - 1 PROVE K[i] = Len(executed)
      BY DEF Constant
    <3>2. i \in 0 .. d - 1 \/ i = d
      BY <1>5
    <3>3. K[d] = K[d - 1]
      BY <2>1, <1>14, <1>16, NumberOf
    <3>4. d - 1 \in 0 .. d - 1
      BY <1>14, <1>5
    <3> QED
      BY <3>2, <3>3, <3>4, <2>1 DEF Constant
  <2>5. Constant(K, Taken', Len(executed'))
    BY <2>4, <1>1, <1>13
  <2> QED
    BY <2>3, <2>5 DEF Numbered
<1>26. ArgsCounted' /\ InHand' /\ NoDesync'
  BY <1>1, <1>2 DEF ArgsCounted, InHand, NoDesync
<1> QED
  BY <1>18, <1>19, <1>20, <1>21, <1>22, <1>23, <1>24, <1>25, <1>26

\* A word of the rest: the stream loses it.
LEMMA ReadArgsKeeps ==
    ASSUME WellSized, IInv, Read, pc = "args"
    PROVE  IInv'
<1> USE DEF IInv
<1>1. /\ left > 0 /\ left' = left - 1 /\ stop' = Advance(stop)
      /\ UNCHANGED <<pc, cmd, start, len, maxloop, executed>> /\ UNCHANGED guest
  BY DEF Read
<1>2. UNCHANGED <<ring, next, writing, sent>>
  BY <1>1 DEF guest
<1>3. ~MayRewind /\ ~MayRewind'
  BY <1>1 DEF MayRewind
<1>4. /\ Fixed[cmd] \in Nat /\ Fixed[cmd] > 0 /\ Args[cmd] \in Nat
      /\ Length(cmd) = Fixed[cmd] + Args[cmd] /\ Length(cmd) \in Nat
      /\ len \in Int /\ left \in Nat /\ cmd \in Command
      /\ start \in Position /\ stop \in Position /\ next \in Position
      /\ left <= Args[cmd] /\ 0 <= len /\ len + left <= Unread
  BY LengthResult DEF TypeOK, Phases, LenCovered
<1>5. /\ Held \in 0 .. Ring - 1 /\ Unread \in 0 .. Ring - 1
      /\ Base = stop /\ Held = Unread /\ Ring \in Nat
  BY <1>3, WindowResult, RingAssumption
<1>6. Unread > 0
  BY <1>1, <1>4, <1>5
<1>7. /\ Len(writing) \in Nat /\ Total \in Nat /\ Total = Held + Len(writing)
      /\ Pending \in [1 .. Total -> Word]
  BY PendingResult
<1>8. Held <= Total
  <2> DEFINE n == Len(writing)
  <2>1. n \in Nat /\ Total = Held + n
    BY <1>7
  <2> HIDE DEF n
  <2> QED
    BY <2>1, <1>5
<1>9. stop' \in Position /\ stop' = At(stop, 1) /\ Unread' = Unread - 1
  BY <1>1, <1>2, <1>6, StopAdvanced
<1>10. Base' = At(Base, 1) /\ 1 \in 0 .. Held /\ 1 \in 1 .. Held /\ 1 \in 1 .. Total /\ Total > 0
  BY <1>3, <1>5, <1>6, <1>7, <1>8, <1>9 DEF Base
<1>11. /\ Held' = Held - 1 /\ Total' = Total - 1
       /\ Pending' = [i \in 1 .. Total - 1 |-> Pending[i + 1]]
  BY <1>1, <1>10, StreamDropped
<1>12. Got = Length(cmd) - left /\ Got' = Got + 1
  BY <1>1, <1>4 DEF Got
<1>13. /\ Pending[1] = [cmd |-> cmd, at |-> Got + 1]
       /\ Pending[1].cmd = cmd /\ (Last(Pending[1]) <=> left = 1)
  <2>1. Pending[1] = [cmd |-> cmd, at |-> Got + 1]
    BY <1>1, <1>10 DEF Expected
  <2> QED
    BY <2>1, <1>4, <1>12 DEF Last
<1>14. PICK K : Numbers(K, Pending, Held, FirstNumber, sent)
  BY DEF Numbered
<1>15. IF left = 1
       THEN K[1] = Len(executed) + 1 /\ K[1] <= Len(sent) /\ sent[K[1]] = cmd
       ELSE K[1] = Len(executed)
  <2>1. IF Last(Pending[1])
        THEN K[1] = K[1 - 1] + 1 /\ K[1] <= Len(sent) /\ sent[K[1]] = Pending[1].cmd
        ELSE K[1] = K[1 - 1]
    BY <1>10, <1>14, NumberOf
  <2>2. K[0] = Len(executed) /\ 1 - 1 = 0
    BY <1>1, <1>4, <1>14 DEF Numbers, FirstNumber
  <2> QED
    BY <2>1, <2>2, <1>13, Zenon
<1>16. TypeOK'
  BY <1>1, <1>2, <1>4, <1>9 DEF TypeOK
<1>17. Phases'
  BY <1>1, <1>4 DEF Phases
<1>18. LenCovered'
  BY <1>1, <1>4, <1>5, <1>9 DEF LenCovered
<1>19. RewindKept'
  BY <1>3 DEF RewindKept
<1>20. WritingRest'
  BY <1>2 DEF WritingRest
<1>21. Chained(Pending, Total)'
  <2>1. Chained([i \in 1 .. Total - 1 |-> Pending[i + 1]], Total - 1)
    <3>1. Total \in Nat /\ 1 \in 0 .. Total /\ Chained(Pending, Total)
      BY <1>7, <1>10
    <3> QED
      BY <3>1, ChainedDropped, Zenon
  <2> QED
    BY <2>1, <1>11, Zenon
<1>22. (Total > 0 => Expected(Pending[1]))'
  <2>1. SUFFICES ASSUME Total - 1 > 0
                 PROVE  Expected(Pending[1])'
    BY <1>11
  <2>2. 1 \in 1 .. Total - 1 /\ 2 \in 2 .. Total /\ 2 - 1 = 1 /\ 1 + 1 = 2
    BY <2>1, <1>7
  <2>3. Pending'[1] = Pending[2]
    BY <2>2, <1>11
  <2>4. Follows(Pending[1], Pending[2])
    BY <2>2 DEF Chained
  <2>5. CASE left = 1
    BY <2>3, <2>4, <2>5, <1>1, <1>13 DEF Follows, Expected
  <2>6. CASE left # 1
    <3>1. Pending'[1] = [cmd |-> cmd, at |-> (Got + 1) + 1]
      BY <2>3, <2>4, <2>6, <1>13 DEF Follows, Successor
    <3> QED
      BY <3>1, <2>6, <1>1, <1>4, <1>12 DEF Expected
  <2> QED
    BY <2>5, <2>6
<1>23. Numbered'
  <2> DEFINE L == [i \in 0 .. Held - 1 |-> K[i + 1]]
  <2>1. 1 \in 0 .. Held /\ Held \in Nat
    BY <1>5, <1>10
  <2>2. Numbers(L, [i \in 1 .. Total - 1 |-> Pending[i + 1]], Held - 1, K[1], sent)
    BY <2>1, <1>7, <1>8, <1>14, NumbersDropped
  <2>3. FirstNumber' = K[1]
    BY <1>1, <1>15, <1>4 DEF FirstNumber
  <2> HIDE DEF L
  <2>4. Numbers(L, Pending', Held', FirstNumber', sent')
    BY <2>2, <2>3, <1>2, <1>11, Zenon
  <2> QED
    BY <2>4, <1>3 DEF Numbered
<1>24. InHand'
  <2>1. Len(executed) \in Nat /\ Len(sent) \in Nat
    BY DEF TypeOK
  <2> DEFINE m == Len(executed)
             k == Len(sent)
  <2>2. m \in Nat /\ k \in Nat
    BY <2>1
  <2>3. left = 1 => K[1] = m + 1 /\ K[1] <= k /\ sent[K[1]] = cmd
    BY <1>15
  <2> HIDE DEF m, k
  <2>4. left = 1 => m < k /\ sent[m + 1] = cmd
    BY <2>2, <2>3
  <2> QED
    BY <2>4, <1>1, <1>2, <1>4 DEF InHand, m, k
<1>25. NoDesync'
  BY <1>1, <1>2 DEF NoDesync
<1>26. ArgsCounted'
  <2>1. Taken = Got /\ Length(cmd) < Ring /\ Between(start, stop) = Taken
    BY DEF ArgsCounted, Taken
  <2>2. Between(start, stop) < Ring - 1
    BY <2>1, <1>1, <1>4, <1>5, <1>12
  <2>3. Taken' = Taken + 1
    BY <2>1, <2>2, <1>1, <1>4, BetweenAdvance DEF Taken
  <2> QED
    BY <2>1, <2>3, <1>1, <1>12 DEF ArgsCounted
<1> QED
  BY <1>26, <1>16, <1>17, <1>18, <1>19, <1>20, <1>21, <1>22, <1>23, <1>24, <1>25

-----------------------------------------------------------------------------
(***************************************************************************)
(* The theorems.                                                           *)
(***************************************************************************)

\* Nothing is in the ring when the guest has just set CONFIG_DONE.
LEMMA InitKeeps ==
    ASSUME Init
    PROVE  IInv
<1>1. /\ next = 0 /\ stop = 0 /\ start = 0 /\ writing = <<>> /\ pc = "idle" /\ cmd \in Command
      /\ len = 0 /\ left = 0 /\ maxloop = 0 /\ sent = <<>> /\ executed = <<>>
  BY DEF Init
<1>2. 0 \in Position
  BY RingAssumption DEF Position
<1>3. ring \in [Position -> Word]
  <2>1. PICK c \in Command : ring = [p \in Position |-> [cmd |-> c, at |-> 0]]
    BY DEF Init
  <2> QED
    BY <2>1 DEF Word
<1>4. TypeOK
  BY <1>1, <1>2, <1>3, RingAssumption DEF TypeOK
<1>5. ~MayRewind /\ Base = 0
  BY <1>1 DEF MayRewind, Base
<1>6. Between(0, 0) = 0
  BY <1>2, BetweenResult, RingAssumption DEF Position
<1>7. Unread = 0 /\ Held = 0 /\ Total = 0
  BY <1>1, <1>5, <1>6 DEF Unread, Held, Total
<1>8. Phases /\ LenCovered /\ RewindKept /\ ArgsCounted /\ WritingRest /\ InHand /\ NoDesync
  BY <1>1, <1>5, <1>7 
  DEF Phases, LenCovered, RewindKept, ArgsCounted, WritingRest, InHand, NoDesync
<1>9. Chained(Pending, Total) /\ (Total > 0 => Expected(Pending[1]))
  BY <1>7 DEF Chained
<1>10. Numbered
  <2> DEFINE K == [i \in 0 .. 0 |-> 0]
  <2>1. K \in [0 .. 0 -> Nat] /\ K[0] = 0
    OBVIOUS
  <2> HIDE DEF K
  <2>2. FirstNumber = 0 /\ Len(sent) = 0
    BY <1>1 DEF FirstNumber
  <2>3. Numbers(K, Pending, 0, 0, sent)
    BY <2>1, <2>2 DEF Numbers
  <2> QED
    BY <2>2, <2>3, <1>5, <1>7 DEF Numbered
<1> QED
  BY <1>4, <1>8, <1>9, <1>10 DEF IInv

\* A step that changes no variable.
LEMMA StutterKeeps ==
    ASSUME IInv, UNCHANGED vars
    PROVE  IInv'
<1>1. UNCHANGED <<ring, next, stop, writing, pc, cmd, start, len, left, maxloop, sent, executed>>
  BY DEF vars
<1>2. /\ Base' = Base /\ MayRewind' = MayRewind /\ Taken' = Taken /\ Unread' = Unread
      /\ Got' = Got /\ FirstNumber' = FirstNumber
  BY <1>1 DEF Base, MayRewind, Taken, Unread, Got, FirstNumber
<1>3. Held' = Held /\ Total' = Total /\ Pending' = Pending
  BY <1>1, <1>2, StreamKept DEF guest
<1>4. TypeOK' /\ Phases' /\ LenCovered' /\ RewindKept' /\ ArgsCounted'
      /\ WritingRest' /\ InHand' /\ NoDesync'
  BY <1>1, <1>2, <1>3
  DEF IInv, TypeOK, Phases, LenCovered, RewindKept, ArgsCounted, WritingRest, InHand, NoDesync
<1>5. Chained(Pending, Total)' /\ (Total > 0 => Expected(Pending[1]))'
  BY <1>1, <1>2, <1>3 DEF IInv, Expected
<1>6. Numbered'
  BY <1>1, <1>2, <1>3 DEF IInv, Numbered
<1> QED
  BY <1>4, <1>5, <1>6 DEF IInv

\* Every step of a sparing guest and of the device keeps the stream in order.
THEOREM Invariance == ASSUME WellSized PROVE SparingSpec => []IInv
<1>1. Init => IInv
  BY InitKeeps
<1>2. IInv /\ [SparingNext]_vars => IInv'
  <2>1. SUFFICES ASSUME IInv, [SparingNext]_vars PROVE IInv'
    OBVIOUS
  <2>2. ASSUME NEW c \in Command, Begin(c) PROVE IInv'
    BY <2>1, <2>2, BeginKeeps
  <2>3. CASE SparingPut
    BY <2>1, <2>3, PutKeeps
  <2>4. CASE Run
    BY <2>1, <2>4, RunKeeps
  <2>5. CASE Fetch
    BY <2>1, <2>5, FetchKeeps
  <2>6. CASE Return
    BY <2>1, <2>6, ReturnKeeps
  <2>7. CASE Rewind
    BY <2>1, <2>7, RewindKeeps
  <2>8. CASE Accept
    <3>1. pc = "head" \/ pc = "fixed"
      BY <2>8 DEF Accept
    <3> QED
      BY <2>1, <2>8, <3>1, AcceptHeadKeeps, AcceptFixedKeeps
  <2>9. CASE Read
    <3>1. pc = "fixed" \/ pc = "args"
      BY <2>1, <2>9 DEF Read, IInv, TypeOK, Phases
    <3> QED
      BY <2>1, <2>9, <3>1, ReadFixedKeeps, ReadArgsKeeps
  <2>10. CASE Finish
    BY <2>1, <2>10, FinishKeeps
  <2>11. CASE UNCHANGED vars
    BY <2>1, <2>11, StutterKeeps
  <2> QED
    BY <2>1, <2>2, <2>3, <2>4, <2>5, <2>6, <2>7, <2>8, <2>9, <2>10, <2>11 DEF SparingNext, Device
<1> QED
  BY <1>1, <1>2, PTL DEF SparingSpec

\* The pointers stay in the ring and the counters in their ranges, whatever the commands
\* and however full the guest keeps the ring.
THEOREM TypeCorrect == Spec => []TypeOK
<1> DEFINE Typed == TypeOK /\ (pc # "idle" => maxloop > 0)
<1>1. Init => Typed
  <2> SUFFICES ASSUME Init PROVE Typed
    OBVIOUS
  <2>1. 0 \in Position /\ <<>> \in Seq(Word) /\ <<>> \in Seq(Command)
    BY RingAssumption DEF Position
  <2>2. ring \in [Position -> Word]
    BY DEF Init, Word
  <2>3. maxloop \in 0 .. MaxLoop
    BY RingAssumption DEF Init
  <2> QED
    BY <2>1, <2>2, <2>3 DEF Init, TypeOK
<1>2. Typed /\ [Next]_vars => Typed'
  <2> SUFFICES ASSUME Typed, [Next]_vars PROVE Typed'
    OBVIOUS
  <2> USE DEF TypeOK
  <2>1. Ring \in Nat \ {0} /\ MaxLoop \in Nat \ {0}
    BY RingAssumption
  <2>2. /\ Advance(next) \in Position /\ Advance(stop) \in Position
        /\ Unread \in Int
    BY <2>1 DEF Advance, Position, Unread, Between
  <2>3. /\ Fixed[cmd] \in Nat /\ Args[cmd] \in Nat
        /\ \A c \in Command : Length(c) \in Nat
    BY CommandAssumption DEF Length
  <2>4. ASSUME NEW c \in Command, Begin(c) PROVE Typed'
    <3> DEFINE l == Length(c)
    <3>1. l \in Nat /\ WordsOf(c) = [i \in 1 .. l |-> [cmd |-> c, at |-> i]]
      BY <2>3 DEF WordsOf
    <3> HIDE DEF l
    <3>2. WordsOf(c) \in Seq(Word)
      BY <3>1 DEF Word
    <3> QED
      BY <2>4, <3>2 DEF Begin, device
  <2>5. CASE Put
    <3>1. writing \in Seq(Word) /\ writing # <<>>
      BY <2>5 DEF Put
    <3>2. writing[1] \in Word /\ Tail(writing) \in Seq(Word)
      BY <3>1
    <3>3. writing[1].cmd \in Command
      BY <3>2 DEF Word
    <3>4. ring' \in [Position -> Word] /\ next' \in Position /\ writing' \in Seq(Word)
      BY <2>2, <2>5, <3>2 DEF Put
    <3>5. sent' \in Seq(Command)
      BY <2>5, <3>3 DEF Put
    <3> QED
      BY <2>5, <3>4, <3>5 DEF Put, device
  <2>6. CASE Run
    BY <2>1, <2>2, <2>6 DEF Run, guest
  <2>7. CASE Fetch
    <3>1. ring[stop] \in Word
      OBVIOUS
    <3>2. Meaning(ring[stop]) \subseteq Command
      BY <3>1 DEF Meaning, Word
    <3>3. maxloop' \in 0 .. MaxLoop
      BY <2>1, <2>7 DEF Fetch
    <3> QED
      BY <2>2, <2>7, <3>2, <3>3 DEF Fetch, guest
  <2>8. CASE Return
    <3>1. maxloop' \in 0 .. MaxLoop
      BY <2>1, <2>8 DEF Return
    <3> QED
      BY <2>8, <3>1 DEF Return, guest
  <2>9. CASE Rewind
    <3>1. Charge \in Nat
      BY <2>3, <2>9 DEF Rewind, Charge
    <3> QED
      BY <2>9, <3>1 DEF Rewind, guest
  <2>10. CASE Accept
    <3>1. Charge \in Nat
      BY <2>3, <2>10 DEF Accept, Charge
    <3>2. left' \in Nat /\ pc' \in {"fixed", "args"}
      BY <2>3, <2>10 DEF Accept
    <3> QED
      BY <2>10, <3>1, <3>2 DEF Accept, guest
  <2>11. CASE Read
    BY <2>2, <2>11 DEF Read, guest
  <2>12. CASE Finish
    BY <2>12 DEF Finish, guest
  <2>13. CASE UNCHANGED vars
    BY <2>13 DEF vars
  <2> QED
    BY <2>4, <2>5, <2>6, <2>7, <2>8, <2>9, <2>10, <2>11, <2>12, <2>13 DEF Next, Device
<1> QED
  BY <1>1, <1>2, PTL DEF Spec

\* With a sparing guest and well-sized commands, the device parses the stream where the
\* guest wrote it (the reads of vmsvga_fifo_run).
THEOREM InStep == ASSUME WellSized PROVE SparingSpec => []ParseInStep
<1>1. ASSUME IInv PROVE ParseInStep
  <2> USE <1>1 DEF IInv
  <2>1. /\ ring \in [Position -> Word] /\ Ring \in Nat
        /\ Held \in 0 .. Ring - 1 /\ Unread \in 0 .. Ring - 1 /\ Taken \in 0 .. Ring - 1
        /\ IF MayRewind THEN Base = start /\ Held = Taken + Unread /\ stop = At(Base, Taken)
                        ELSE Base = stop /\ Held = Unread
    BY WindowResult, RingAssumption DEF TypeOK
  <2>2. /\ Fixed[cmd] \in Nat /\ Fixed[cmd] > 0 /\ Args[cmd] \in Nat
        /\ Length(cmd) = Fixed[cmd] + Args[cmd] /\ Length(cmd) \in Nat
        /\ left \in Nat /\ len \in Int /\ cmd \in Command
    BY LengthResult DEF TypeOK
  <2>3. /\ \A i \in 1 .. Held : Pending[i] = ring[At(Base, i - 1)]
        /\ Unread > 0 => ring[stop] = Pending[IF MayRewind THEN Taken + 1 ELSE 1]
        /\ Len(writing) \in Nat /\ Total \in Nat /\ Total = Held + Len(writing)
    BY PendingResult
  <2>4. Held <= Total
    <3> DEFINE n == Len(writing)
    <3>1. n \in Nat /\ Total = Held + n
      BY <2>3
    <3> HIDE DEF n
    <3> QED
      BY <3>1, <2>1
  <2>5. ASSUME MayRewind PROVE ring[start] = [cmd |-> cmd, at |-> 1]
    <3>1. Taken = Got /\ Begins(Pending, cmd, Taken)
      BY <2>5 DEF RewindKept
    <3>2. Taken > 0
      BY <3>1, <2>2, <2>5 DEF MayRewind, Got, Phases
    <3>3. 1 \in 1 .. Taken /\ 1 \in 1 .. Held /\ 1 - 1 = 0 /\ At(start, 0) = start
      BY <3>2, <2>1, <2>5 DEF At, TypeOK, Position
    <3>4. Pending[1] = [cmd |-> cmd, at |-> 1]
      BY <3>1, <3>3 DEF Begins
    <3> QED
      BY <3>3, <3>4, <2>1, <2>3, <2>5
  <2>6. ASSUME left > 0 PROVE ring[stop] = [cmd |-> cmd, at |-> Taken + 1]
    <3>1. pc \in {"fixed", "args"} /\ Unread > 0
      BY <2>6, <2>1, <2>2 DEF TypeOK, Phases, LenCovered
    <3>2. CASE pc = "fixed"
      <4>1. MayRewind /\ Taken = Fixed[cmd] - left /\ Begins(Pending, cmd, Taken)
        BY <3>2 DEF MayRewind, RewindKept, Got
      <4>2. left < Fixed[cmd]
        BY <3>2 DEF Phases
      <4>3. Taken \in 1 .. Taken /\ Taken + 1 \in 2 .. Total /\ (Taken + 1) - 1 = Taken
        <5>1. Taken \in Nat /\ Taken > 0 /\ Taken + 1 <= Held /\ Held \in Nat
          BY <4>1, <4>2, <3>1, <2>1, <2>2
        <5>2. Total \in Nat
          BY <2>3
        <5> QED
          BY <5>1, <5>2, <2>4
      <4>4. Pending[Taken] = [cmd |-> cmd, at |-> Taken]
        BY <4>1, <4>3 DEF Begins
      <4>5. ~Last(Pending[Taken])
        BY <4>1, <4>2, <4>4, <2>2, <2>6 DEF Last
      <4>6. Follows(Pending[Taken], Pending[Taken + 1])
        BY <4>3 DEF Chained
      <4> QED
        BY <4>1, <4>4, <4>5, <4>6, <3>1, <2>3 DEF Follows, Successor
    <3>3. CASE pc = "args"
      <4>1. Taken = Got /\ ~MayRewind
        BY <3>3 DEF ArgsCounted, MayRewind
      <4>2. Total > 0
        <5>1. Held > 0 /\ Total \in Int
          BY <4>1, <3>1, <2>1, <2>3
        <5> QED
          BY <5>1, <2>1, <2>4
      <4>3. Pending[1] = [cmd |-> cmd, at |-> Got + 1]
        BY <4>2, <3>3, <2>6 DEF Expected
      <4> QED
        BY <4>1, <4>3, <3>1, <2>3
    <3> QED
      BY <3>1, <3>2, <3>3
  <2> QED
    BY <2>5, <2>6 DEF ParseInStep
<1> QED
  BY <1>1, Invariance, PTL

\* With a sparing guest and well-sized commands, what is executed is what was sent, in
\* order (vmware_vga.c:731-734).
THEOREM InOrder == ASSUME WellSized PROVE SparingSpec => []NoDesync
<1>1. IInv => NoDesync
  BY DEF IInv
<1> QED
  BY <1>1, Invariance, PTL

\* The safety part of ImplementsCommandStream, with a sparing guest and well-sized
\* commands: every step sends a command, executes the next one sent, or is none of the
\* abstract FIFO's business.
THEOREM RefinesStream == ASSUME WellSized PROVE SparingSpec => Stream!Init /\ [][Stream!Next]_(Stream!vars)
<1>1. Init => Stream!Init
  BY DEF Init, Stream!Init
<1>2. IInv /\ [SparingNext]_vars => [Stream!Next]_(Stream!vars)
  <2>1. SUFFICES ASSUME IInv, [SparingNext]_vars PROVE Stream!Next \/ UNCHANGED <<sent, executed>>
    BY DEF Stream!vars
  <2>2. CASE SparingPut
    <3>1. executed' = executed
          /\ sent' = IF Len(writing) = 1 THEN Append(sent, writing[1].cmd) ELSE sent
      BY <2>2 DEF SparingPut, Put, device
    <3>2. CASE Len(writing) = 1
      <4>1. writing[1] \in Word
        <5>1. writing \in Seq(Word)
          BY <2>1 DEF IInv, TypeOK
        <5> QED
          BY <5>1, <3>2
      <4>2. writing[1].cmd \in Command
        BY <4>1 DEF Word
      <4>3. Stream!Send(writing[1].cmd)
        BY <3>1, <3>2 DEF Stream!Send
      <4> QED
        BY <4>2, <4>3 DEF Stream!Next
    <3>3. CASE Len(writing) # 1
      BY <3>1, <3>3
    <3> QED
      BY <3>2, <3>3
  <2>3. CASE Finish
    <3>1. /\ pc = "args" /\ left = 0 /\ executed' = Append(executed, cmd) /\ sent' = sent
      BY <2>3 DEF Finish, guest
    <3>2. Len(executed) < Len(sent) /\ sent[Len(executed) + 1] = cmd
      BY <2>1, <3>1 DEF IInv, InHand
    <3> QED
      BY <3>1, <3>2 DEF Stream!Execute, Stream!Next
  <2>4. ASSUME NEW c \in Command, Begin(c) PROVE UNCHANGED <<sent, executed>>
    BY <2>4 DEF Begin, device
  <2>5. CASE Run \/ Fetch \/ Return \/ Rewind \/ Accept \/ Read
    BY <2>5 DEF Run, Fetch, Return, Rewind, Accept, Read, guest
  <2>6. CASE UNCHANGED vars
    BY <2>6 DEF vars
  <2> QED
    BY <2>1, <2>2, <2>3, <2>4, <2>5, <2>6 DEF SparingNext, Device
<1> QED
  BY <1>1, <1>2, Invariance, PTL DEF SparingSpec
=============================================================================
