------------------------- MODULE MightyMouse_proofs -------------------------
(***************************************************************************)
(* Proofs about MightyMouse for every depth of the ring, every range of a  *)
(* report and all motions.                                                 *)
(***************************************************************************)
EXTENDS MightyMouse, WellFoundedInduction, SequenceTheorems, TLAPS

-----------------------------------------------------------------------------
(* Cutting a motion into reports. *)

LEMMA ClampResult ==
    ASSUME NEW n \in Int
    PROVE  /\ ClampI8(n) \in -Clamp .. Clamp
           /\ n - ClampI8(n) = IF n > Clamp THEN n - Clamp ELSE IF n < -Clamp THEN n + Clamp ELSE 0
BY SizeAssumption DEF ClampI8

\* One report takes what it can hold, and what it cannot is left for the next.
LEMMA RestResult ==
    ASSUME NEW n \in Int
    PROVE  /\ Rest(n) \in [0 .. MaxLoops -> Int]
           /\ Rest(n)[0] = n
           /\ \A i \in 1 .. MaxLoops : Rest(n)[i - 1] = Rest(n)[i] + ClampI8(Rest(n)[i - 1])
<1>. DEFINE Left(p) == IF n >= 0 THEN IF n > p THEN n - p ELSE 0
                                 ELSE IF -n > p THEN n + p ELSE 0
<1>1. MaxLoops \in Nat /\ Clamp \in Nat \ {0}
  BY SizeAssumption
<1>2. \A i \in 0 .. MaxLoops : i * Clamp \in Nat
  BY <1>1
<1>3. \A i \in 0 .. MaxLoops : Rest(n)[i] = Left(i * Clamp)
  BY DEF Rest
<1>4. Rest(n) \in [0 .. MaxLoops -> Int]
  BY <1>2 DEF Rest
<1>5. Rest(n)[0] = n
  <2>1. 0 * Clamp = 0 /\ 0 \in 0 .. MaxLoops
    BY <1>1
  <2>. QED  BY <1>3, <2>1
<1>6. ASSUME NEW i \in 1 .. MaxLoops
      PROVE  Rest(n)[i - 1] = Rest(n)[i] + ClampI8(Rest(n)[i - 1])
  <2>. DEFINE p == (i - 1) * Clamp
  <2>1. i - 1 \in 0 .. MaxLoops /\ i \in 0 .. MaxLoops
    BY <1>1
  <2>2. p \in Nat /\ i * Clamp = p + Clamp
    BY <1>1
  <2>. HIDE DEF p
  <2>3. Rest(n)[i - 1] = Left(p) /\ Rest(n)[i] = Left(p + Clamp)
    BY <1>3, <2>1, <2>2 DEF p
  <2>4. Left(p) = Left(p + Clamp) + ClampI8(Left(p))
    BY <1>1, <2>2 DEF ClampI8
  <2>. QED  BY <2>3, <2>4
<1>. QED  BY <1>4, <1>5, <1>6

\* The loop of amt_input_sync ends with nothing left, or at its cap.
LEMMA LoopsResult ==
    ASSUME NEW m \in Int, NEW w \in Int
    PROVE  /\ Loops(m, w) \in 1 .. MaxLoops
           /\ Loops(m, w) = MaxLoops \/ (Rest(m)[Loops(m, w)] = 0 /\ Rest(w)[Loops(m, w)] = 0)
<1>. DEFINE Ends(i) == i = MaxLoops \/ (Rest(m)[i] = 0 /\ Rest(w)[i] = 0)
            ends == {i \in 1 .. MaxLoops : Ends(i)}
<1>1. MaxLoops \in ends /\ ends \subseteq Nat
  BY SizeAssumption
<1>2. PICK k \in ends : \A j \in ends : ~(<<j, k>> \in OpToRel(<, Nat))
  BY <1>1, NatLessThanWellFounded, WFMin, Zenon
<1>3. k \in 1 .. MaxLoops /\ Ends(k) /\ \A j \in ends : ~(j < k)
  BY <1>1, <1>2 DEF OpToRel
<1>4. \A j \in 1 .. k - 1 : Rest(m)[j] # 0 \/ Rest(w)[j] # 0
  BY <1>3, SizeAssumption
<1>5. \E i \in 1 .. MaxLoops : Ends(i) /\ \A j \in 1 .. i - 1 : Rest(m)[j] # 0 \/ Rest(w)[j] # 0
  BY <1>3, <1>4
<1>. QED  BY <1>5 DEF Loops

LEMMA ReportsResult ==
    ASSUME TypeOK
    PROVE  /\ Reports(motion, wheel) \in Seq(Report)
           /\ Len(Reports(motion, wheel)) = Loops(motion, wheel)
           /\ \A i \in 1 .. Loops(motion, wheel) :
                 Reports(motion, wheel)[i] = [button |-> button, motion |-> ClampI8(Rest(motion)[i - 1]),
                                              wheel |-> ClampI8(Rest(wheel)[i - 1])]
<1>. DEFINE n == Loops(motion, wheel)
<1>1. n \in 1 .. MaxLoops /\ n \in Nat
  <2>1. motion \in Int /\ wheel \in Int
    BY DEF TypeOK
  <2>2. n \in 1 .. MaxLoops
    BY <2>1, LoopsResult
  <2>. HIDE DEF n
  <2>. QED  BY <2>2, SizeAssumption
<1>. HIDE DEF n
<1>2. ASSUME NEW i \in 1 .. n
      PROVE  [button |-> button, motion |-> ClampI8(Rest(motion)[i - 1]),
              wheel |-> ClampI8(Rest(wheel)[i - 1])] \in Report
  <2>1. i - 1 \in 0 .. MaxLoops
    BY <1>1, SizeAssumption
  <2>2. Rest(motion)[i - 1] \in Int /\ Rest(wheel)[i - 1] \in Int
    BY <2>1, RestResult DEF TypeOK
  <2>. QED  BY <2>2, ClampResult DEF Report, TypeOK
<1>. QED  BY <1>1, <1>2 DEF Reports, n

\* amt_enqueue keeps the newest reports; below the depth it keeps all.
LEMMA EnqueueResult ==
    ASSUME NEW q \in Seq(Report)
    PROVE  /\ Enqueue(q) \in Seq(Report)
           /\ Len(Enqueue(q)) <= Depth - 1
           /\ Len(q) < Depth => Enqueue(q) = q
           /\ q # <<>> => Enqueue(q) # <<>> /\ Enqueue(q)[Len(Enqueue(q))] = q[Len(q)]
<1>. DEFINE n == Len(q)
            a == IF n < Depth THEN 1 ELSE n - Depth + 2
            s == SubSeq(q, a, n)
<1>1. n \in Nat /\ \A i \in 1 .. n : q[i] \in Report
  OBVIOUS
<1>2. Depth \in Nat \ {0, 1}
  BY SizeAssumption
<1>3. Enqueue(q) = s
  BY DEF Enqueue
<1>4. n < Depth => Enqueue(q) = q
  BY SubSeqFull DEF Enqueue
<1>5. q # <<>> <=> n # 0
  OBVIOUS
<1>. HIDE DEF n
<1>6. a \in 1 .. n + 1 /\ n - a + 1 <= Depth - 1 /\ (n # 0 => a <= n)
  BY <1>1, <1>2
<1>. HIDE DEF a
<1>7. \A i \in a .. n : q[i] \in Report
  BY <1>1, <1>6
<1>8. /\ s \in Seq(Report)
      /\ Len(s) = IF a <= n THEN n - a + 1 ELSE 0
      /\ \A i \in 1 .. n - a + 1 : s[i] = q[a + i - 1]
  BY <1>1, <1>6, <1>7, SubSeqProperties
<1>. DEFINE l == Len(s)
<1>. HIDE DEF s
<1>9. l \in Nat /\ (l # 0 => s # <<>>) /\ l = IF a <= n THEN n - a + 1 ELSE 0
  <2>1. s \in Seq(Report) => l \in Nat /\ (l # 0 => s # <<>>)
    OBVIOUS
  <2>. QED  BY <1>8, <2>1
<1>. HIDE DEF l
<1>10. l <= Depth - 1 /\ (n # 0 => l # 0)
  BY <1>1, <1>2, <1>6, <1>9
<1>11. ASSUME n # 0 PROVE s[l] = q[n]
  <2>1. l \in 1 .. n - a + 1 /\ a + l - 1 = n
    BY <1>1, <1>6, <1>9, <1>11
  <2>. QED  BY <1>8, <2>1
<1>. QED  BY <1>3, <1>4, <1>5, <1>8, <1>9, <1>10, <1>11 DEF l, n, s

-----------------------------------------------------------------------------
(***************************************************************************)
(* Ledgers.  That the reports in the ring add up to what is owed is said   *)
(* without a sum: some function r, what is left to be read after the i-th  *)
(* report, starts at total, falls by each report, and ends at rest.        *)
(***************************************************************************)

Ledger(a, n, total, rest) ==
    \E r \in [0 .. n -> Int] :
        r[0] = total /\ r[n] = rest /\ \A i \in 1 .. n : r[i - 1] = r[i] + a[i]

\* Motion that waits for a report is owed as well.
LEMMA LedgerMore ==
    ASSUME NEW n \in Nat, NEW a \in [1 .. n -> Int], NEW total \in Int, NEW rest \in Int,
           Ledger(a, n, total, rest), NEW d \in Int
    PROVE  Ledger(a, n, total + d, rest + d)
<1>1. PICK r \in [0 .. n -> Int] :
         r[0] = total /\ r[n] = rest /\ \A i \in 1 .. n : r[i - 1] = r[i] + a[i]
  BY DEF Ledger
<1>. DEFINE s == [i \in 0 .. n |-> r[i] + d]
<1>2. s \in [0 .. n -> Int] /\ s[0] = total + d /\ s[n] = rest + d
  BY <1>1
<1>3. ASSUME NEW i \in 1 .. n PROVE s[i - 1] = s[i] + a[i]
  <2>1. i \in 0 .. n /\ i - 1 \in 0 .. n
    OBVIOUS
  <2>. QED  BY <1>1, <2>1
<1>. HIDE DEF s
<1>. QED  BY <1>2, <1>3 DEF Ledger

\* The oldest report is read.
LEMMA LedgerTail ==
    ASSUME NEW n \in Nat \ {0}, NEW a \in [1 .. n -> Int], NEW total \in Int, NEW rest \in Int,
           Ledger(a, n, total, rest), NEW b, \A i \in 1 .. n - 1 : b[i] = a[i + 1]
    PROVE  Ledger(b, n - 1, total - a[1], rest)
<1>1. PICK r \in [0 .. n -> Int] :
         r[0] = total /\ r[n] = rest /\ \A i \in 1 .. n : r[i - 1] = r[i] + a[i]
  BY DEF Ledger
<1>. DEFINE s == [i \in 0 .. n - 1 |-> r[i + 1]]
<1>2. s \in [0 .. n - 1 -> Int]
  BY <1>1
<1>3. s[0] = total - a[1]
  <2>1. r[1 - 1] = r[1] + a[1] /\ r[1] \in Int /\ a[1] \in Int /\ 1 - 1 = 0
    BY <1>1
  <2>. QED  BY <1>1, <2>1
<1>4. s[n - 1] = rest
  BY <1>1
<1>5. ASSUME NEW i \in 1 .. n - 1 PROVE s[i - 1] = s[i] + b[i]
  <2>1. i + 1 \in 1 .. n /\ i \in 0 .. n - 1 /\ i - 1 \in 0 .. n - 1 /\ i - 1 + 1 = i /\ i + 1 - 1 = i
    OBVIOUS
  <2>2. r[i] = r[i + 1] + a[i + 1]
    BY <1>1, <2>1
  <2>. QED  BY <2>1, <2>2
<1>. HIDE DEF s
<1>. QED  BY <1>2, <1>3, <1>4, <1>5 DEF Ledger

\* What waited is cut into reports at the end of the ring, up to a new rest.
LEMMA LedgerAppend ==
    ASSUME NEW n \in Nat, NEW a \in [1 .. n -> Int], NEW total \in Int, NEW rest \in Int,
           Ledger(a, n, total, rest),
           NEW k \in Nat, NEW b \in [1 .. n + k -> Int], NEW r \in [0 .. k -> Int],
           \A i \in 1 .. n : b[i] = a[i],
           r[0] = rest, \A i \in 1 .. k : r[i - 1] = r[i] + b[n + i]
    PROVE  Ledger(b, n + k, total, r[k])
<1>1. PICK q \in [0 .. n -> Int] :
         q[0] = total /\ q[n] = rest /\ \A i \in 1 .. n : q[i - 1] = q[i] + a[i]
  BY DEF Ledger
<1>. DEFINE s == [i \in 0 .. n + k |-> IF i <= n THEN q[i] ELSE r[i - n]]
<1>2. ASSUME NEW i \in 0 .. k PROVE s[n + i] = r[i]
  <2>1. n + i \in 0 .. n + k /\ n + i - n = i
    OBVIOUS
  <2>2. CASE i = 0
    BY <1>1, <2>1, <2>2
  <2>3. CASE i # 0
    <3>1. ~(n + i <= n)
      BY <2>3
    <3>. QED  BY <2>1, <3>1
  <2>. QED  BY <2>2, <2>3
<1>3. s \in [0 .. n + k -> Int] /\ s[0] = total /\ s[n + k] = r[k]
  <2>1. ASSUME NEW i \in 0 .. n + k PROVE s[i] \in Int
    <3>1. CASE i <= n
      <4>1. i \in 0 .. n
        BY <3>1
      <4>. QED  BY <3>1, <4>1
    <3>2. CASE ~(i <= n)
      <4>1. i - n \in 0 .. k
        BY <3>2
      <4>. QED  BY <3>2, <4>1
    <3>. QED  BY <3>1, <3>2
  <2>2. s \in [0 .. n + k -> Int]
    BY <2>1
  <2>3. s[0] = total
    BY <1>1
  <2>4. s[n + k] = r[k]
    BY <1>2
  <2>. QED  BY <2>2, <2>3, <2>4
<1>4. ASSUME NEW i \in 1 .. n + k PROVE s[i - 1] = s[i] + b[i]
  <2>1. CASE i <= n
    BY <1>1, <2>1
  <2>2. CASE i > n
    <3>1. i - n \in 1 .. k /\ n + (i - n) = i /\ n + (i - n - 1) = i - 1 /\ i - n - 1 \in 0 .. k
      BY <2>2
    <3>. DEFINE j == i - n
    <3>2. j \in 0 .. k /\ j \in 1 .. k /\ j - 1 \in 0 .. k /\ n + j = i /\ n + (j - 1) = i - 1
      BY <3>1
    <3>. HIDE DEF s, j
    <3>3. s[i] = r[j]
      <4>1. s[n + j] = r[j]
        BY <1>2, <3>2
      <4>. QED  BY <3>2, <4>1
    <3>4. s[i - 1] = r[j - 1]
      <4>1. s[n + (j - 1)] = r[j - 1]
        BY <1>2, <3>2
      <4>. QED  BY <3>2, <4>1
    <3>. QED  BY <3>2, <3>3, <3>4
  <2>. QED  BY <2>1, <2>2
<1>. HIDE DEF s
<1>. QED  BY <1>3, <1>4 DEF Ledger

LEMMA LedgerEmpty ==
    ASSUME NEW a, NEW total, NEW rest, Ledger(a, 0, total, rest)
    PROVE  total = rest
BY DEF Ledger

LEMMA LedgerOfNothing ==
    ASSUME NEW a
    PROVE  Ledger(a, 0, 0, 0)
<1>. DEFINE r == [i \in 0 .. 0 |-> 0]
<1>1. r \in [0 .. 0 -> Int] /\ r[0] = 0 /\ \A i \in 1 .. 0 : r[i - 1] = r[i] + a[i]
  OBVIOUS
<1>. HIDE DEF r
<1>. QED  BY <1>1 DEF Ledger

-----------------------------------------------------------------------------
(* The invariant. *)

\* With nothing pending, the button is in the newest report, or the host has read it.
ButtonTracked ==
    ~pending => IF queue = <<>> THEN host = button ELSE queue[Len(queue)].button = button

\* A sync leaves nothing behind unless the ring overflows.
NothingLeft == ~pending /\ ~dropped => motion = 0 /\ wheel = 0

Motions(q) == [i \in 1 .. Len(q) |-> q[i].motion]
Wheels(q) == [i \in 1 .. Len(q) |-> q[i].wheel]

\* What is owed is what the ring holds and what waits for a sync.
OwedIsQueued ==
    ~dropped => /\ Ledger(Motions(queue), Len(queue), owed.motion, motion)
                /\ Ledger(Wheels(queue), Len(queue), owed.wheel, wheel)

IInv ==
    /\ TypeOK
    /\ HostIsWoken
    /\ ButtonTracked
    /\ NothingLeft
    /\ OwedIsQueued

LEMMA InvImplies == IInv => HostFollowsUser /\ ButtonSettles
<1> SUFFICES ASSUME IInv PROVE HostFollowsUser /\ ButtonSettles
  OBVIOUS
<1>1. ButtonSettles
  BY DEF IInv, ButtonTracked, ButtonSettles, Settled
<1>2. ASSUME Settled, ~dropped PROVE owed.motion = 0 /\ owed.wheel = 0
  <2>1. motion = 0 /\ wheel = 0 /\ Len(queue) = 0
    BY <1>2 DEF Settled, IInv, NothingLeft
  <2>2. /\ Ledger(Motions(queue), 0, owed.motion, 0)
        /\ Ledger(Wheels(queue), 0, owed.wheel, 0)
    BY <1>2, <2>1 DEF IInv, OwedIsQueued
  <2>. QED  BY <2>2, LedgerEmpty
<1>. QED  BY <1>1, <1>2 DEF HostFollowsUser

\* The ring as a ledger's reports.
LEMMA QueueTyped ==
    ASSUME NEW q \in Seq(Report)
    PROVE  /\ Len(q) \in Nat
           /\ Motions(q) \in [1 .. Len(q) -> Int] /\ Wheels(q) \in [1 .. Len(q) -> Int]
<1>1. Len(q) \in Nat /\ \A i \in 1 .. Len(q) : q[i] \in Report
  OBVIOUS
<1>2. \A x \in Report : x.motion \in Int /\ x.wheel \in Int
  BY SizeAssumption DEF Report
<1>. QED  BY <1>1, <1>2 DEF Motions, Wheels

LEMMA OwedTyped ==
    ASSUME TypeOK
    PROVE  motion \in Int /\ wheel \in Int /\ owed.motion \in Int /\ owed.wheel \in Int
BY DEF TypeOK

LEMMA InitIInv == Init => IInv
<1> SUFFICES ASSUME Init PROVE IInv
  OBVIOUS
<1>1. queue = <<>> /\ Len(queue) = 0 /\ queue \in Seq(Report)
  BY DEF Init
<1>2. TypeOK
  <2>1. 0 <= Depth - 1
    BY SizeAssumption
  <2>2. queue \in Seq(Report) /\ Len(queue) <= Depth - 1
    BY <1>1, <2>1, Zenon
  <2>3. owed \in [motion : Int, wheel : Int]
    BY DEF Init
  <2>. QED  BY <2>2, <2>3 DEF Init, TypeOK
<1>3. OwedIsQueued
  BY <1>1, LedgerOfNothing DEF Init, OwedIsQueued
<1>. QED  BY <1>1, <1>2, <1>3 DEF Init, IInv, HostIsWoken, ButtonTracked, NothingLeft

\* The effect of an event that adds m to the motion and w to the wheel.
Adds(m, w) ==
    /\ motion' = motion + m /\ wheel' = wheel + w
    /\ pending' = TRUE
    /\ UNCHANGED <<queue, parked, host, dropped>>
    /\ owed' = Owe(m, w)

LEMMA EventStep ==
    ASSUME IInv, NEW m \in Int, NEW w \in Int, Adds(m, w),
           button' \in BOOLEAN, last' \in Position \cup {-1}
    PROVE  IInv'
<1>1. TypeOK /\ queue \in Seq(Report) /\ Len(queue) <= Depth - 1
  BY DEF IInv, TypeOK
<1>2. motion \in Int /\ wheel \in Int /\ owed.motion \in Int /\ owed.wheel \in Int
  BY <1>1, OwedTyped
<1>3. owed' = IF dropped THEN Nothing ELSE [motion |-> owed.motion + m, wheel |-> owed.wheel + w]
  BY DEF Adds, Owe
<1>4. TypeOK'
  <2>1. owed' \in [motion : Int, wheel : Int]
    BY <1>2, <1>3 DEF Nothing
  <2>. QED  BY <1>1, <1>2, <2>1 DEF Adds, TypeOK
<1>5. HostIsWoken' /\ ButtonTracked' /\ NothingLeft'
  BY DEF IInv, Adds, HostIsWoken, ButtonTracked, NothingLeft
<1>6. OwedIsQueued'
  <2>1. SUFFICES ASSUME ~dropped
                 PROVE  /\ Ledger(Motions(queue), Len(queue), owed.motion + m, motion + m)
                        /\ Ledger(Wheels(queue), Len(queue), owed.wheel + w, wheel + w)
    <3>1. queue' = queue /\ dropped' = dropped /\ motion' = motion + m /\ wheel' = wheel + w
      BY DEF Adds
    <3>2. ~dropped => owed'.motion = owed.motion + m /\ owed'.wheel = owed.wheel + w
      BY <1>3
    <3>3. OwedIsQueued' <=>
            (~dropped' => /\ Ledger(Motions(queue'), Len(queue'), owed'.motion, motion')
                          /\ Ledger(Wheels(queue'), Len(queue'), owed'.wheel, wheel'))
      BY DEF OwedIsQueued
    <3>. QED  BY <2>1, <3>1, <3>2, <3>3, Zenon
  <2>2. /\ Ledger(Motions(queue), Len(queue), owed.motion, motion)
        /\ Ledger(Wheels(queue), Len(queue), owed.wheel, wheel)
    BY <2>1 DEF IInv, OwedIsQueued
  <2>3. /\ Len(queue) \in Nat
        /\ Motions(queue) \in [1 .. Len(queue) -> Int] /\ Wheels(queue) \in [1 .. Len(queue) -> Int]
    BY <1>1, QueueTyped
  <2>. QED  BY <1>2, <2>2, <2>3, LedgerMore
<1>. QED  BY <1>4, <1>5, <1>6 DEF IInv

LEMMA ButtonEventStep ==
    ASSUME IInv, NEW down \in BOOLEAN, ButtonEvent(down)
    PROVE  IInv'
<1>1. /\ button' = down /\ pending' = TRUE
      /\ UNCHANGED <<motion, wheel, last, queue, parked, host, owed, dropped>>
  BY DEF ButtonEvent
<1>2. TypeOK' /\ HostIsWoken' /\ ButtonTracked' /\ NothingLeft'
  BY <1>1 DEF IInv, TypeOK, HostIsWoken, ButtonTracked, NothingLeft
<1>3. OwedIsQueued'
  BY <1>1 DEF IInv, OwedIsQueued, Motions, Wheels, Ledger
<1>. QED  BY <1>2, <1>3 DEF IInv

LEMMA ConcatAt ==
    ASSUME NEW S, NEW q \in Seq(S), NEW s \in Seq(S), NEW n, n = Len(q), NEW k, k = Len(s)
    PROVE  /\ q \o s \in Seq(S) /\ Len(q \o s) = n + k
           /\ \A i \in 1 .. n : (q \o s)[i] = q[i]
           /\ \A i \in 1 .. k : (q \o s)[n + i] = s[i]
<1>. DEFINE t == q \o s
<1>1. n \in Nat /\ k \in Nat
  OBVIOUS
<1>2. /\ t \in Seq(S) /\ Len(t) = n + k
      /\ \A i \in 1 .. n + k : t[i] = IF i <= n THEN q[i] ELSE s[i - n]
  BY ConcatProperties
<1>. HIDE DEF t
<1>3. ASSUME NEW i \in 1 .. n PROVE t[i] = q[i]
  <2>1. i \in 1 .. n + k /\ i <= n
    BY <1>1
  <2>. QED  BY <1>2, <2>1, Zenon
<1>4. ASSUME NEW i \in 1 .. k PROVE t[n + i] = s[i]
  <2>. DEFINE j == n + i
  <2>1. j \in 1 .. n + k /\ ~(j <= n) /\ j - n = i
    BY <1>1
  <2>. HIDE DEF j
  <2>2. t[j] = IF j <= n THEN q[j] ELSE s[j - n]
    BY <1>2, <2>1
  <2>. QED  BY <2>1, <2>2, Zenon DEF j
<1>. QED  BY <1>2, <1>3, <1>4 DEF t

\* The ring with the reports of one sync at its end.
LEMMA AllResult ==
    ASSUME TypeOK, NEW all, all = queue \o Reports(motion, wheel)
    PROVE  /\ all \in Seq(Report)
           /\ Len(all) = Len(queue) + Loops(motion, wheel)
           /\ \A i \in 1 .. Len(queue) : all[i] = queue[i]
           /\ \A i \in 1 .. Loops(motion, wheel) :
                 all[Len(queue) + i] = [button |-> button, motion |-> ClampI8(Rest(motion)[i - 1]),
                                        wheel |-> ClampI8(Rest(wheel)[i - 1])]
<1>. DEFINE s == Reports(motion, wheel)
            n == Len(queue)
            k == Loops(motion, wheel)
<1>1. /\ s \in Seq(Report) /\ k = Len(s)
      /\ \A i \in 1 .. k : s[i] = [button |-> button, motion |-> ClampI8(Rest(motion)[i - 1]),
                                   wheel |-> ClampI8(Rest(wheel)[i - 1])]
  BY ReportsResult
<1>2. queue \in Seq(Report)
  BY DEF TypeOK
<1>. HIDE DEF s, k
<1>3. /\ queue \o s \in Seq(Report) /\ Len(queue \o s) = n + k
      /\ \A i \in 1 .. n : (queue \o s)[i] = queue[i]
      /\ \A i \in 1 .. k : (queue \o s)[n + i] = s[i]
  BY <1>1, <1>2, ConcatAt
<1>4. all = queue \o s
  BY DEF s
<1>. HIDE DEF n
<1>. QED  BY <1>1, <1>3, <1>4, Zenon DEF n, k

LEMMA SyncStep == ASSUME IInv, Sync PROVE IInv'
<1>. DEFINE all == queue \o Reports(motion, wheel)
            n == Len(queue)
            k == Loops(motion, wheel)
<1>1. TypeOK /\ queue \in Seq(Report) /\ n \in Nat
  BY DEF IInv, TypeOK
<1>2. motion \in Int /\ wheel \in Int /\ owed.motion \in Int /\ owed.wheel \in Int
  BY <1>1, OwedTyped
<1>3. k \in 1 .. MaxLoops /\ (k = MaxLoops \/ (Rest(motion)[k] = 0 /\ Rest(wheel)[k] = 0))
  BY <1>2, LoopsResult
<1>4. /\ queue' = Enqueue(all) /\ dropped' = (dropped \/ Len(all) >= Depth)
      /\ motion' = Rest(motion)[k] /\ wheel' = Rest(wheel)[k]
      /\ pending' = FALSE /\ parked' = FALSE /\ UNCHANGED <<button, last, host>>
      /\ owed' = IF dropped' THEN Nothing
                 ELSE [motion |-> owed.motion + 0, wheel |-> owed.wheel + 0]
  BY DEF Sync, Owe
<1>5. /\ all \in Seq(Report) /\ Len(all) = n + k
      /\ \A i \in 1 .. n : all[i] = queue[i]
      /\ \A i \in 1 .. k : all[n + i] = [button |-> button, motion |-> ClampI8(Rest(motion)[i - 1]),
                                         wheel |-> ClampI8(Rest(wheel)[i - 1])]
  BY <1>1, AllResult
<1>. HIDE DEF all, k, n
<1>6. k \in Nat \ {0} /\ k \in 0 .. MaxLoops /\ Depth \in Nat /\ MaxLoops >= Depth
  BY <1>3, SizeAssumption
<1>7. /\ Enqueue(all) \in Seq(Report) /\ Len(Enqueue(all)) <= Depth - 1
      /\ Len(all) < Depth => Enqueue(all) = all
      /\ all # <<>> => Enqueue(all) # <<>> /\ Enqueue(all)[Len(Enqueue(all))] = all[Len(all)]
  BY <1>5, EnqueueResult
<1>8. all # <<>>
  <2>1. Len(all) # 0
    BY <1>1, <1>5, <1>6
  <2>. QED  BY <2>1
<1>9. owed'.motion = (IF dropped' THEN 0 ELSE owed.motion)
      /\ owed'.wheel = (IF dropped' THEN 0 ELSE owed.wheel)
      /\ owed' \in [motion : Int, wheel : Int]
  BY <1>2, <1>4 DEF Nothing
<1>10. TypeOK'
  <2>1. motion' \in Int /\ wheel' \in Int
    BY <1>2, <1>4, <1>6, RestResult
  <2>2. dropped' \in BOOLEAN
    BY <1>1, <1>4 DEF TypeOK
  <2>. QED  BY <1>1, <1>4, <1>7, <1>9, <2>1, <2>2 DEF TypeOK
<1>11. ButtonTracked'
  <2>1. all[n + k].button = button
    <3>1. k \in 1 .. k
      BY <1>6
    <3>2. all[n + k] = [button |-> button, motion |-> ClampI8(Rest(motion)[k - 1]),
                        wheel |-> ClampI8(Rest(wheel)[k - 1])]
      BY <1>5, <3>1, Zenon
    <3>. QED  BY <3>2
  <2>. QED  BY <1>4, <1>5, <1>7, <1>8, <2>1, Zenon DEF ButtonTracked
<1>12. NothingLeft'
  <2>1. CASE k = MaxLoops
    <3>1. Len(all) >= Depth
      BY <1>1, <1>5, <1>6, <2>1
    <3>. QED  BY <1>4, <3>1 DEF NothingLeft
  <2>2. CASE Rest(motion)[k] = 0 /\ Rest(wheel)[k] = 0
    BY <1>4, <2>2 DEF NothingLeft
  <2>. QED  BY <1>3, <2>1, <2>2
<1>13. ASSUME ~dropped'
       PROVE  /\ Ledger(Motions(all), n + k, owed.motion, motion')
              /\ Ledger(Wheels(all), n + k, owed.wheel, wheel')
  <2>1. /\ Ledger(Motions(queue), n, owed.motion, motion)
        /\ Ledger(Wheels(queue), n, owed.wheel, wheel)
    BY <1>4, <1>13 DEF IInv, OwedIsQueued, n
  <2>2. /\ Motions(queue) \in [1 .. n -> Int] /\ Wheels(queue) \in [1 .. n -> Int]
        /\ Motions(all) \in [1 .. n + k -> Int] /\ Wheels(all) \in [1 .. n + k -> Int]
    <3>1. /\ Motions(all) \in [1 .. Len(all) -> Int] /\ Wheels(all) \in [1 .. Len(all) -> Int]
      BY <1>5, QueueTyped
    <3>. QED  BY <1>1, <1>5, <3>1, QueueTyped DEF n
  <2>3. \A i \in 1 .. n : Motions(all)[i] = Motions(queue)[i] /\ Wheels(all)[i] = Wheels(queue)[i]
    <3>1. \A i \in 1 .. n : i \in 1 .. n + k
      BY <1>1, <1>6
    <3>. QED  BY <1>5, <3>1 DEF Motions, Wheels, n
  <2>4. \A i \in 1 .. k : /\ Motions(all)[n + i] = ClampI8(Rest(motion)[i - 1])
                          /\ Wheels(all)[n + i] = ClampI8(Rest(wheel)[i - 1])
    <3>1. \A i \in 1 .. k : n + i \in 1 .. n + k
      BY <1>1, <1>6
    <3>2. ASSUME NEW i \in 1 .. k
          PROVE  /\ Motions(all)[n + i] = all[n + i].motion /\ Wheels(all)[n + i] = all[n + i].wheel
                 /\ all[n + i].motion = ClampI8(Rest(motion)[i - 1])
                 /\ all[n + i].wheel = ClampI8(Rest(wheel)[i - 1])
      <4>1. n + i \in 1 .. Len(all)
        BY <1>5, <3>1, Zenon
      <4>2. all[n + i] = [button |-> button, motion |-> ClampI8(Rest(motion)[i - 1]),
                          wheel |-> ClampI8(Rest(wheel)[i - 1])]
        BY <1>5, Zenon
      <4>. QED  BY <4>1, <4>2 DEF Motions, Wheels
    <3>. QED  BY <3>2
  <2>5. ASSUME NEW m \in Int
        PROVE  /\ [i \in 0 .. k |-> Rest(m)[i]] \in [0 .. k -> Int]
               /\ Rest(m)[0] = m
               /\ \A i \in 1 .. k : Rest(m)[i - 1] = Rest(m)[i] + ClampI8(Rest(m)[i - 1])
    <3>1. \A i \in 0 .. k : i \in 0 .. MaxLoops
      BY <1>6, SizeAssumption
    <3>2. \A i \in 1 .. k : i \in 1 .. MaxLoops
      BY <1>6, SizeAssumption
    <3>. QED  BY <3>1, <3>2, RestResult
  <2>6. Ledger(Motions(all), n + k, owed.motion, motion')
    <3>. DEFINE a == Motions(queue)
                b == Motions(all)
                r == [i \in 0 .. k |-> Rest(motion)[i]]
    <3>1. /\ r \in [0 .. k -> Int] /\ r[0] = motion /\ r[k] = motion'
          /\ \A i \in 1 .. k : r[i - 1] = r[i] + b[n + i]
      BY <1>2, <1>4, <1>6, <2>4, <2>5
    <3>. HIDE DEF a, b, r
    <3>2. a \in [1 .. n -> Int] /\ b \in [1 .. n + k -> Int] /\ \A i \in 1 .. n : b[i] = a[i]
      BY <2>2, <2>3 DEF a, b
    <3>3. Ledger(a, n, owed.motion, motion)
      BY <2>1 DEF a
    <3>. QED  BY <1>1, <1>2, <1>6, <3>1, <3>2, <3>3, LedgerAppend DEF b
  <2>7. Ledger(Wheels(all), n + k, owed.wheel, wheel')
    <3>. DEFINE a == Wheels(queue)
                b == Wheels(all)
                r == [i \in 0 .. k |-> Rest(wheel)[i]]
    <3>1. /\ r \in [0 .. k -> Int] /\ r[0] = wheel /\ r[k] = wheel'
          /\ \A i \in 1 .. k : r[i - 1] = r[i] + b[n + i]
      BY <1>2, <1>4, <1>6, <2>4, <2>5
    <3>. HIDE DEF a, b, r
    <3>2. a \in [1 .. n -> Int] /\ b \in [1 .. n + k -> Int] /\ \A i \in 1 .. n : b[i] = a[i]
      BY <2>2, <2>3 DEF a, b
    <3>3. Ledger(a, n, owed.wheel, wheel)
      BY <2>1 DEF a
    <3>. QED  BY <1>1, <1>2, <1>6, <3>1, <3>2, <3>3, LedgerAppend DEF b
  <2>. QED  BY <2>6, <2>7
<1>14. OwedIsQueued'
  <2>1. SUFFICES ASSUME ~dropped'
                 PROVE  /\ Ledger(Motions(queue'), Len(queue'), owed'.motion, motion')
                        /\ Ledger(Wheels(queue'), Len(queue'), owed'.wheel, wheel')
    BY DEF OwedIsQueued
  <2>2. Len(all) < Depth
    <3>1. ~(n + k >= Depth)
      BY <1>4, <1>5, <2>1, Zenon
    <3>2. n + k < Depth
      BY <1>1, <1>6, <3>1
    <3>. QED  BY <1>5, <3>2, Zenon
  <2>3. queue' = all /\ Len(queue') = n + k /\ owed'.motion = owed.motion /\ owed'.wheel = owed.wheel
    BY <1>4, <1>5, <1>7, <1>9, <2>1, <2>2, Zenon
  <2>. QED  BY <1>13, <2>1, <2>3, Zenon
<1>15. HostIsWoken'
  BY <1>4 DEF HostIsWoken
<1>. QED  BY <1>10, <1>11, <1>12, <1>14, <1>15 DEF IInv

LEMMA PollStep == ASSUME IInv, Poll PROVE IInv'
<1>1. TypeOK /\ queue \in Seq(Report) /\ Len(queue) <= Depth - 1
  BY DEF IInv, TypeOK
<1>2. motion \in Int /\ wheel \in Int /\ owed.motion \in Int /\ owed.wheel \in Int
  BY <1>1, OwedTyped
<1>3. ~parked /\ UNCHANGED <<motion, wheel, button, pending, last, dropped>>
  BY DEF Poll
<1>4. CASE queue = <<>>
  <2>1. parked' = TRUE /\ UNCHANGED <<queue, host, owed>>
    BY <1>4 DEF Poll
  <2>2. TypeOK' /\ HostIsWoken' /\ ButtonTracked' /\ NothingLeft'
    BY <1>3, <1>4, <2>1 DEF IInv, TypeOK, HostIsWoken, ButtonTracked, NothingLeft
  <2>3. OwedIsQueued'
    BY <1>3, <2>1 DEF IInv, OwedIsQueued, Motions, Wheels, Ledger
  <2>. QED  BY <2>2, <2>3 DEF IInv
<1>5. CASE queue # <<>>
  <2>. DEFINE r == queue[1]
              n == Len(queue)
  <2>1. queue' = Tail(queue) /\ host' = r.button /\ UNCHANGED parked
        /\ owed' = IF dropped THEN Nothing
                   ELSE [motion |-> owed.motion - r.motion, wheel |-> owed.wheel - r.wheel]
    <3>1. Head(queue) = r
      OBVIOUS
    <3>2. /\ queue' = Tail(queue) /\ host' = Head(queue).button /\ UNCHANGED parked
          /\ owed' = IF dropped THEN Nothing
                     ELSE [motion |-> owed.motion + (-Head(queue).motion),
                           wheel |-> owed.wheel + (-Head(queue).wheel)]
      BY <1>3, <1>5 DEF Poll, Owe
    <3>3. r \in Report
      BY <1>1, <1>5
    <3>4. /\ owed.motion + (-r.motion) = owed.motion - r.motion
          /\ owed.wheel + (-r.wheel) = owed.wheel - r.wheel
      BY <1>2, <3>3, SizeAssumption DEF Report
    <3>. QED  BY <3>1, <3>2, <3>4
  <2>2. n \in Nat \ {0} /\ r \in Report
    BY <1>1, <1>5
  <2>3. /\ queue' \in Seq(Report) /\ Len(queue') = n - 1
        /\ \A i \in 1 .. n - 1 : queue'[i] = queue[i + 1]
    <3>1. /\ Tail(queue) \in Seq(Report) /\ Len(Tail(queue)) = n - 1
          /\ \A i \in 1 .. Len(Tail(queue)) : Tail(queue)[i] = queue[i + 1]
      BY <1>1, <1>5, HeadTailProperties
    <3>. QED  BY <2>1, <3>1
  <2>. DEFINE n2 == Len(queue')
  <2>4. (n - 1 = 0 => queue' = <<>>) /\ (n - 1 # 0 => queue' # <<>>)
    <3>1. queue' \in Seq(Report) => (n2 = 0 <=> queue' = <<>>)
      OBVIOUS
    <3>. QED  BY <2>3, <3>1
  <2>. HIDE DEF n, r, n2
  <2>5. r.button \in BOOLEAN /\ r.motion \in Int /\ r.wheel \in Int
    BY <2>2, SizeAssumption DEF Report
  <2>6. TypeOK'
    <3>1. owed' \in [motion : Int, wheel : Int]
      BY <1>2, <2>1, <2>5 DEF Nothing
    <3>2. n - 1 <= Depth - 1
      BY <1>1, <2>2, SizeAssumption DEF n
    <3>3. queue' \in Seq(Report) /\ Len(queue') <= Depth - 1
      BY <2>3, <3>2, Zenon
    <3>. QED  BY <1>1, <1>3, <2>1, <2>5, <3>1, <3>3 DEF TypeOK
  <2>7. HostIsWoken' /\ NothingLeft'
    BY <1>3, <2>1 DEF IInv, HostIsWoken, NothingLeft
  <2>8. ButtonTracked'
    <3>1. SUFFICES ASSUME ~pending
                   PROVE  IF queue' = <<>> THEN host' = button ELSE queue'[n - 1].button = button
      BY <1>3, <2>3, Zenon DEF ButtonTracked
    <3>2. queue[n].button = button
      BY <1>5, <3>1 DEF IInv, ButtonTracked, n
    <3>3. CASE n - 1 = 0
      <4>1. n = 1
        BY <2>2, <3>3
      <4>. QED  BY <2>1, <2>4, <3>2, <3>3, <4>1 DEF r
    <3>4. CASE n - 1 # 0
      <4>1. n - 1 \in 1 .. n - 1 /\ n - 1 + 1 = n
        BY <2>2, <3>4
      <4>2. queue'[n - 1] = queue[n]
        BY <2>3, <4>1
      <4>. QED  BY <2>4, <3>2, <3>4, <4>2
    <3>. QED  BY <3>3, <3>4
  <2>9. OwedIsQueued'
    <3>1. SUFFICES ASSUME ~dropped'
                   PROVE  /\ Ledger(Motions(queue'), Len(queue'), owed'.motion, motion')
                          /\ Ledger(Wheels(queue'), Len(queue'), owed'.wheel, wheel')
      BY DEF OwedIsQueued
    <3>2. /\ Ledger(Motions(queue), n, owed.motion, motion)
          /\ Ledger(Wheels(queue), n, owed.wheel, wheel)
      BY <1>3, <3>1 DEF IInv, OwedIsQueued, n
    <3>3. /\ Motions(queue) \in [1 .. n -> Int] /\ Wheels(queue) \in [1 .. n -> Int]
          /\ Motions(queue)[1] = r.motion /\ Wheels(queue)[1] = r.wheel
      BY <1>1, <2>2, QueueTyped DEF n, r, Motions, Wheels
    <3>4. ASSUME NEW i \in 1 .. n - 1
          PROVE  /\ Motions(queue')[i] = Motions(queue)[i + 1]
                 /\ Wheels(queue')[i] = Wheels(queue)[i + 1]
      <4>1. i + 1 \in 1 .. Len(queue) /\ i \in 1 .. Len(queue')
        BY <2>2, <2>3 DEF n
      <4>. QED  BY <2>3, <4>1 DEF Motions, Wheels
    <3>5. /\ Ledger(Motions(queue'), n - 1, owed.motion - r.motion, motion)
          /\ Ledger(Wheels(queue'), n - 1, owed.wheel - r.wheel, wheel)
      <4>. DEFINE a == Motions(queue)
                  b == Wheels(queue)
                  c == Motions(queue')
                  d == Wheels(queue')
      <4>1. /\ a \in [1 .. n -> Int] /\ b \in [1 .. n -> Int] /\ a[1] = r.motion /\ b[1] = r.wheel
            /\ \A i \in 1 .. n - 1 : c[i] = a[i + 1] /\ d[i] = b[i + 1]
        BY <3>3, <3>4
      <4>2. Ledger(a, n, owed.motion, motion) /\ Ledger(b, n, owed.wheel, wheel)
        BY <3>2
      <4>. HIDE DEF a, b, c, d
      <4>3. Ledger(c, n - 1, owed.motion - a[1], motion)
        BY <1>2, <2>2, <4>1, <4>2, LedgerTail
      <4>4. Ledger(d, n - 1, owed.wheel - b[1], wheel)
        BY <1>2, <2>2, <4>1, <4>2, LedgerTail
      <4>. QED  BY <4>1, <4>3, <4>4 DEF c, d
    <3>6. owed'.motion = owed.motion - r.motion /\ owed'.wheel = owed.wheel - r.wheel
      BY <1>3, <2>1, <3>1
    <3>. QED  BY <1>3, <2>3, <3>5, <3>6, Zenon
  <2>. QED  BY <2>6, <2>7, <2>8, <2>9 DEF IInv
<1>. QED  BY <1>4, <1>5

LEMMA ResetStep == ASSUME Reset PROVE IInv'
<1>1. /\ motion' = 0 /\ wheel' = 0 /\ button' = FALSE /\ pending' = FALSE /\ last' = -1
      /\ queue' = <<>> /\ parked' = FALSE /\ host' = FALSE /\ owed' = Nothing /\ dropped' = FALSE
  BY DEF Reset
<1>2. queue' \in Seq(Report) /\ Len(queue') = 0
  BY <1>1
<1>3. owed' \in [motion : Int, wheel : Int] /\ owed'.motion = 0 /\ owed'.wheel = 0
  BY <1>1 DEF Nothing
<1>4. TypeOK'
  <2>1. 0 <= Depth - 1
    BY SizeAssumption
  <2>2. Len(queue') <= Depth - 1
    BY <1>2, <2>1, Zenon
  <2>. QED  BY <1>1, <1>2, <1>3, <2>2 DEF TypeOK
<1>5. OwedIsQueued'
  <2>1. /\ Ledger(Motions(queue'), 0, 0, 0) /\ Ledger(Wheels(queue'), 0, 0, 0)
    BY LedgerOfNothing
  <2>. QED  BY <1>1, <1>2, <1>3, <2>1, Zenon DEF OwedIsQueued
<1>. QED  BY <1>1, <1>4, <1>5 DEF IInv, HostIsWoken, ButtonTracked, NothingLeft

LEMMA StepIInv == IInv /\ [Next]_vars => IInv'
<1> SUFFICES ASSUME IInv, [Next]_vars PROVE IInv'
  OBVIOUS
<1>1. /\ motion \in Int /\ wheel \in Int /\ button \in BOOLEAN /\ last \in Position \cup {-1}
  BY DEF IInv, TypeOK
<1>2. ASSUME NEW d \in Rel, RelEvent(d) PROVE IInv'
  <2>1. d \in Int
    BY SizeAssumption
  <2>2. Adds(d, 0) /\ button' = button /\ last' = last
    BY <1>1, <1>2 DEF RelEvent, Move, Adds
  <2>. QED  BY <1>1, <2>1, <2>2, EventStep
<1>3. ASSUME NEW v \in Position, AbsEvent(v) PROVE IInv'
  <2>. DEFINE d == IF last >= 0 THEN v - last ELSE 0
  <2>1. d \in Int
    BY <1>1, SizeAssumption
  <2>2. Adds(d, 0) /\ button' = button /\ last' = v
    BY <1>1, <1>3 DEF AbsEvent, Move, Adds
  <2>. HIDE DEF d
  <2>. QED  BY <1>1, <2>1, <2>2, EventStep
<1>4. ASSUME NEW down \in BOOLEAN, ButtonEvent(down) PROVE IInv'
  BY <1>4, ButtonEventStep
<1>5. ASSUME NEW d \in {-1, 1}, WheelEvent(d) PROVE IInv'
  <2>1. d \in Int
    OBVIOUS
  <2>2. Adds(0, d) /\ button' = button /\ last' = last
    BY <1>1, <1>5 DEF WheelEvent, Adds
  <2>. QED  BY <1>1, <2>1, <2>2, EventStep
<1>6. CASE Sync
  BY <1>6, SyncStep
<1>7. CASE Poll
  BY <1>7, PollStep
<1>8. CASE Reset
  BY <1>8, ResetStep
<1>9. CASE UNCHANGED vars
  BY <1>9 DEF vars, IInv, TypeOK, HostIsWoken, ButtonTracked, NothingLeft, OwedIsQueued,
              Motions, Wheels, Ledger
<1>. QED  BY <1>2, <1>3, <1>4, <1>5, <1>6, <1>7, <1>8, <1>9 DEF Next

-----------------------------------------------------------------------------
\* The inductive invariant holds in every state of every behaviour.
THEOREM Invariance == Spec => []IInv
BY InitIInv, StepIInv, PTL DEF Spec

\* The ring holds at most Depth - 1 reports of one signed byte per axis.
THEOREM TypeCorrect == Spec => []TypeOK
BY Invariance, PTL DEF IInv

\* Between resets the host's pointer and wheel move as far as the user's unless the
\* ring overflows (amt_input_event, amt_input_sync, amt_clamp_i8, amt_enqueue).
THEOREM MotionArrives == Spec => []HostFollowsUser
BY Invariance, InvImplies, PTL

\* No button sticks, also after an overflow (amt_enqueue drops the oldest report).
THEOREM ButtonArrives == Spec => []ButtonSettles
BY Invariance, InvImplies, PTL

\* The host is woken by the sync that gives it something to read.
THEOREM WokenHost == Spec => []HostIsWoken
BY Invariance, PTL DEF IInv
=============================================================================
