------------------------ MODULE MagicKeyboard_proofs ------------------------
(***************************************************************************)
(* Proofs about MagicKeyboard for every set of keys, every mapping of keys *)
(* to usages and every number of slots.                                    *)
(***************************************************************************)
EXTENDS MagicKeyboard, FiniteSetTheorems, TLAPS

\* The slots of a report: no hole before a usage, and no usage twice.
Packed(s) ==
    /\ s \in [Slot -> (Usages \ Modifier) \cup {None}]
    /\ \A i, j \in Slot : j < i /\ s[i] # None => s[j] # None /\ s[j] # s[i]

\* What a report says is pressed.
Keys(r) == r.modifiers \cup ({r.slots[i] : i \in Slot} \ {None})

ReportOK(r) == r.modifiers \subseteq Modifier /\ Packed(r.slots)

LEMMA TypeOKPacked == TypeOK => ReportOK(Report)
<1> SUFFICES ASSUME TypeOK PROVE ReportOK(Report)
  OBVIOUS
<1>1. ASSUME NEW i \in Slot, NEW j \in Slot, j < i, slots[i] # None
      PROVE  slots[j] # None /\ slots[j] # slots[i]
  <2>1. i \in Occupied /\ j \in 1 .. i - 1
    BY <1>1, SlotAssumption DEF Occupied, Slot
  <2>. QED  BY <2>1 DEF TypeOK
<1>. QED  BY <1>1 DEF TypeOK, ReportOK, Packed, Report

\* The part of TypeOK that is about the report.
ReportTyped ==
    /\ modifiers \subseteq Modifier
    /\ slots \in [Slot -> (Usages \ Modifier) \cup {None}]
    /\ \A i \in Occupied : \A j \in 1 .. i - 1 : slots[j] \notin {None, slots[i]}

LEMMA PackedTypeOK == ReportOK(Report) => ReportTyped
<1> SUFFICES ASSUME ReportOK(Report), NEW i \in Occupied, NEW j \in 1 .. i - 1
             PROVE  slots[j] \notin {None, slots[i]}
  BY DEF ReportOK, Packed, Report, ReportTyped
<1>1. i \in Slot /\ j \in Slot /\ j < i /\ slots[i] # None
  BY SlotAssumption DEF Occupied, Slot
<1>. QED  BY <1>1 DEF ReportOK, Packed, Report

LEMMA PressedIsKeys == Pressed = Keys(Report)
BY DEF Pressed, Keys, Report, Occupied

\* With no holes the occupied slots are the first ones, so the slot that
\* apple_magic_kbd_apply_usage takes for a new key is the first free one.
LEMMA OccupiedSlots ==
    ASSUME TypeOK
    PROVE  /\ Cardinality(Occupied) \in 0 .. NumSlots
           /\ Occupied = 1 .. Cardinality(Occupied)
<1>. DEFINE free == Slot \ Occupied
<1>1. CASE free = {}
  <2>1. Occupied = 1 .. NumSlots
    BY <1>1 DEF Occupied, Slot
  <2>2. Cardinality(1 .. NumSlots) = NumSlots
    BY SlotAssumption, FS_Interval
  <2>. QED  BY <2>1, <2>2, SlotAssumption
<1>2. CASE free # {}
  <2>1. free \subseteq Nat
    BY DEF Slot
  <2>2. PICK k \in free : \A j \in free : ~(<<j, k>> \in OpToRel(<, Nat))
    BY <1>2, <2>1, NatLessThanWellFounded, WFMin, Zenon
  <2>3. k \in Slot /\ k \notin Occupied /\ \A j \in free : ~(j < k)
    BY <2>1, <2>2 DEF OpToRel
  <2>4. Occupied = 1 .. k - 1
    <3>1. ASSUME NEW i \in 1 .. k - 1 PROVE i \in Occupied
      BY <2>3, <3>1, SlotAssumption DEF Slot
    <3>2. ASSUME NEW i \in Occupied PROVE i \in 1 .. k - 1
      <4>1. i \in Slot /\ slots[i] # None /\ i # k
        BY <2>3, <3>2 DEF Occupied
      <4>2. ~(k < i)
        BY <2>3, <4>1, TypeOKPacked DEF ReportOK, Packed, Report, Occupied
      <4>. QED  BY <2>3, <4>1, <4>2, SlotAssumption DEF Slot
    <3>. QED  BY <3>1, <3>2
  <2>5. Cardinality(1 .. k - 1) = k - 1
    BY <2>3, SlotAssumption, FS_Interval DEF Slot
  <2>. QED  BY <2>3, <2>4, <2>5, SlotAssumption DEF Slot
<1>. QED  BY <1>1, <1>2

\* A key going down: the report stays well formed, and says at most this key more.
LEMMA PressResult ==
    ASSUME TypeOK, NEW u \in Usages
    PROVE  /\ ReportOK(Press(u))
           /\ Pressed \subseteq Keys(Press(u))
           /\ Keys(Press(u)) \subseteq Pressed \cup {u}
<1>1. ReportOK(Report) /\ Pressed = Keys(Report)
  BY TypeOKPacked, PressedIsKeys
<1>2. CASE u \in Modifier
  <2>1. Press(u) = [modifiers |-> modifiers \cup {u}, slots |-> slots]
    BY <1>2 DEF Press, Report
  <2>. QED  BY <1>1, <1>2, <2>1 DEF ReportOK, Keys, Report
<1>3. CASE u \notin Modifier /\ (u \in Pressed \/ Occupied = Slot)
  BY <1>1, <1>3 DEF Press
<1>4. CASE u \notin Modifier /\ u \notin Pressed /\ Occupied # Slot
  <2>. DEFINE n == Cardinality(Occupied) + 1
              s == [slots EXCEPT ![n] = u]
  <2>1. Press(u) = [modifiers |-> modifiers, slots |-> s]
    BY <1>4 DEF Press, Report
  <2>2. n \in Slot /\ n - 1 \in Nat /\ Occupied = 1 .. n - 1
    BY <1>4, OccupiedSlots, SlotAssumption DEF Slot
  <2>. HIDE DEF n
  <2>3. slots \in [Slot -> (Usages \ Modifier) \cup {None}]
    BY DEF TypeOK
  <2>4. slots[n] = None
    BY <2>2 DEF Occupied
  <2>5. \A i \in Slot : s[i] = IF i = n THEN u ELSE slots[i]
    BY <2>3
  <2>6. s \in [Slot -> (Usages \ Modifier) \cup {None}]
    BY <1>4, <2>2, <2>3
  <2>7. u # None
    BY UsageAssumption
  <2>. HIDE DEF s
  <2>8. ASSUME NEW i \in Slot, NEW j \in Slot, j < i, s[i] # None
        PROVE  s[j] # None /\ s[j] # s[i]
    <3>1. CASE i = n
      <4>1. j \in Occupied /\ j # n
        BY <2>2, <2>8, <3>1, SlotAssumption DEF Slot
      <4>2. slots[j] # None /\ slots[j] # u
        BY <1>4, <4>1 DEF Pressed, Occupied
      <4>. QED  BY <2>5, <3>1, <4>1, <4>2
    <3>2. CASE i # n
      <4>1. i \in Occupied
        BY <2>5, <2>8, <3>2 DEF Occupied
      <4>2. j # n
        BY <2>2, <2>8, <4>1, SlotAssumption DEF Slot
      <4>. QED  BY <1>1, <2>5, <2>8, <3>2, <4>2 DEF ReportOK, Packed, Report
    <3>. QED  BY <3>1, <3>2
  <2>9. ReportOK(Press(u))
    BY <2>1, <2>6, <2>8 DEF ReportOK, Packed, TypeOK
  <2>10. {s[i] : i \in Slot} \ {None} = ({slots[i] : i \in Slot} \ {None}) \cup {u}
    BY <2>2, <2>4, <2>5, <2>7
  <2>11. Keys(Press(u)) = Pressed \cup {u}
    BY <1>1, <2>1, <2>10 DEF Keys, Report
  <2>. QED  BY <2>9, <2>11
<1>. QED  BY <1>2, <1>3, <1>4

\* A key going up: the report stays well formed, and says exactly this key less.
LEMMA LiftResult ==
    ASSUME TypeOK, NEW u \in Usages
    PROVE  ReportOK(Lift(u)) /\ Keys(Lift(u)) = Pressed \ {u}
<1>1. ReportOK(Report) /\ Pressed = Keys(Report)
  BY TypeOKPacked, PressedIsKeys
<1>2. slots \in [Slot -> (Usages \ Modifier) \cup {None}]
  BY DEF TypeOK
<1>3. CASE u \in Modifier
  <2>1. Lift(u) = [modifiers |-> modifiers \ {u}, slots |-> slots]
    BY <1>3 DEF Lift, Report
  <2>2. u # None
    BY UsageAssumption
  <2>3. u \notin {slots[i] : i \in Slot}
    BY <1>2, <1>3, <2>2
  <2>. QED  BY <1>1, <2>1, <2>3 DEF ReportOK, Keys, Report
<1>4. CASE u \notin Modifier /\ u \notin Pressed
  <2>1. Lift(u) = Report
    BY <1>4 DEF Lift
  <2>. QED  BY <1>1, <1>4, <2>1
<1>5. CASE u \notin Modifier /\ u \in Pressed
  <2>. DEFINE at == CHOOSE i \in Slot : slots[i] = u
              s == [i \in Slot |-> IF i < at THEN slots[i]
                                   ELSE IF i < NumSlots THEN slots[i + 1] ELSE None]
  <2>1. Lift(u) = [modifiers |-> modifiers, slots |-> s]
    BY <1>5 DEF Lift, Report
  <2>2. u # None /\ u \notin modifiers
    BY <1>5, UsageAssumption DEF TypeOK
  <2>3. \E i \in Slot : slots[i] = u
    BY <1>5, <2>2 DEF Pressed, Occupied
  <2>4. at \in Slot /\ slots[at] = u
    BY <2>3
  <2>. HIDE DEF at
  <2>5. \A i \in Slot : i # at => slots[i] # u
    BY <1>1, <2>2, <2>4, SlotAssumption DEF ReportOK, Packed, Report, Slot
  \* Where the value of a slot comes from, and where it goes.
  <2>6. ASSUME NEW i \in Slot
        PROVE  \/ i < at /\ s[i] = slots[i]
               \/ i >= at /\ i < NumSlots /\ i + 1 \in Slot /\ s[i] = slots[i + 1]
               \/ i = NumSlots /\ s[i] = None
    BY <2>4, SlotAssumption DEF Slot
  <2>7. s \in [Slot -> (Usages \ Modifier) \cup {None}]
    BY <1>2, <2>6
  <2>8. ASSUME NEW i \in Slot, i # at, slots[i] # None
        PROVE  \E j \in Slot : s[j] = slots[i]
    <3>1. CASE i < at
      BY <3>1
    <3>2. CASE i > at
      <4>1. i - 1 \in Slot /\ ~(i - 1 < at) /\ i - 1 < NumSlots /\ i - 1 + 1 = i
        BY <2>4, <3>2, SlotAssumption DEF Slot
      <4>2. s[i - 1] = slots[i]
        BY <4>1
      <4>. QED  BY <4>1, <4>2
    <3>. QED  BY <2>4, <2>8, <3>1, <3>2 DEF Slot
  <2>. HIDE DEF s
  <2>9. ASSUME NEW i \in Slot, NEW j \in Slot, j < i, s[i] # None
        PROVE  s[j] # None /\ s[j] # s[i]
    <3>. DEFINE From(x, y) == y = IF x < at THEN x ELSE x + 1
    <3>1. i \in Nat /\ j \in Nat /\ at \in Nat /\ j < NumSlots
      BY <2>4, <2>9, SlotAssumption DEF Slot
    <3>2. PICK a \in Slot : From(i, a) /\ s[i] = slots[a]
      <4>1. CASE i < at
        BY <2>4, <2>6, <3>1, <4>1, SlotAssumption DEF Slot
      <4>2. CASE ~(i < at)
        BY <2>6, <2>9, <3>1, <4>2
      <4>. QED  BY <4>1, <4>2
    <3>3. PICK b \in Slot : From(j, b) /\ s[j] = slots[b]
      <4>1. CASE j < at
        BY <2>6, <3>1, <4>1
      <4>2. CASE ~(j < at)
        BY <2>6, <2>9, <3>1, <4>2, SlotAssumption
      <4>. QED  BY <4>1, <4>2
    <3>4. b < a
      BY <2>9, <3>1, <3>2, <3>3 DEF Slot
    <3>. QED  BY <1>1, <2>9, <3>2, <3>3, <3>4 DEF ReportOK, Packed, Report
  <2>10. ReportOK(Lift(u))
    BY <2>1, <2>7, <2>9 DEF ReportOK, Packed, TypeOK
  <2>11. {s[i] : i \in Slot} \ {None} = ({slots[i] : i \in Slot} \ {None}) \ {u}
    <3>1. ASSUME NEW i \in Slot, s[i] # None
          PROVE  s[i] # u /\ \E j \in Slot : s[i] = slots[j]
      BY <2>4, <2>5, <2>6, <3>1, SlotAssumption DEF Slot
    <3>2. ASSUME NEW i \in Slot, slots[i] # None, slots[i] # u
          PROVE  \E j \in Slot : s[j] = slots[i]
      BY <2>4, <2>8, <3>2
    <3>. QED  BY <3>1, <3>2
  <2>12. Keys(Lift(u)) = Pressed \ {u}
    <3>1. Keys(Lift(u)) = modifiers \cup ({s[i] : i \in Slot} \ {None})
      BY <2>1 DEF Keys
    <3>2. Pressed = modifiers \cup ({slots[i] : i \in Slot} \ {None})
      BY <1>1 DEF Keys, Report
    <3>. QED  BY <2>2, <2>11, <3>1, <3>2
  <2>. QED  BY <2>10, <2>12
<1>. QED  BY <1>3, <1>4, <1>5

-----------------------------------------------------------------------------
(* The invariant. *)

\* While no two held keys have shared a usage, letting go of one leaves the others.
DistinctUsages == exact => \A j, k \in held : Usage[j] = Usage[k] => j = k

IInv ==
    /\ TypeOK
    /\ HostUpToDate
    /\ OnlyHeldKeysPressed
    /\ EveryHeldKeyPressed
    /\ DistinctUsages

LEMMA InitIInv == Init => IInv
<1> SUFFICES ASSUME Init PROVE IInv
  OBVIOUS
<1>1. slots = [i \in Slot |-> None] /\ \A i \in Slot : slots[i] = None
  BY DEF Init, Released
<1>2. Occupied = {} /\ Pressed = {}
  BY <1>1 DEF Occupied, Pressed, Init
<1>. QED  BY <1>1, <1>2 DEF Init, Released, Report, IInv, TypeOK, HostUpToDate,
                            OnlyHeldKeysPressed, EveryHeldKeyPressed, DistinctUsages

\* The keys reported after an Apply are those of the report applied.
LEMMA ApplyResult ==
    ASSUME NEW r, Apply(r), r = [modifiers |-> r.modifiers, slots |-> r.slots], ReportOK(r)
    PROVE  Report' = r /\ ReportOK(Report)' /\ Pressed' = Keys(r)
<1>1. Report' = r
  BY DEF Report, Apply
<1>2. ReportOK(Report)'
  BY <1>1 DEF ReportOK, Packed, Slot, Usages
<1>3. Pressed' = Keys(Report')
  BY DEF Pressed, Keys, Report, Occupied, Slot
<1>. QED  BY <1>1, <1>2, <1>3

LEMMA StepIInv == IInv /\ [Next]_vars => IInv'
<1> SUFFICES ASSUME IInv, [Next]_vars PROVE IInv'
  OBVIOUS
<1>0. TypeOK /\ HostUpToDate /\ OnlyHeldKeysPressed /\ EveryHeldKeyPressed /\ DistinctUsages
  BY DEF IInv
<1>1. ASSUME NEW k \in Key, KeyDown(k) PROVE IInv'
  <2>. DEFINE u == Usage[k]
              r == Press(u)
  <2>1. u \in Usages
    BY DEF Usages
  <2>2. Apply(r) /\ held' = held \cup {k} /\ UNCHANGED host
    BY <1>1 DEF KeyDown
  <2>3. ReportOK(r) /\ Pressed \subseteq Keys(r) /\ Keys(r) \subseteq Pressed \cup {u}
    BY <1>0, <2>1, PressResult
  <2>4. r = [modifiers |-> r.modifiers, slots |-> r.slots]
    BY DEF Press, Report
  <2>5. exact' = (exact /\ u \in modifiers' \cup {slots'[i] : i \in Slot} /\ ~Sharing(k, held))
    BY <1>1 DEF KeyDown
  <2>. HIDE DEF r, u
  <2>6. Report' = r /\ ReportOK(Report)' /\ Pressed' = Keys(r)
    BY <2>2, <2>3, <2>4, ApplyResult
  <2>7. TypeOK'
    <3>1. changed' \in BOOLEAN /\ parked' \in BOOLEAN /\ exact' \in BOOLEAN /\ held' \subseteq Key
      BY <1>0, <2>2, <2>5 DEF Apply, TypeOK
    <3>2. ReportTyped'
      BY <2>6, PackedTypeOK, PTL
    <3>. QED  BY <3>1, <3>2 DEF TypeOK, ReportTyped
  <2>8. HostUpToDate'
    BY <1>0, <2>2, <2>6 DEF HostUpToDate, Apply
  <2>9. {Usage[j] : j \in held'} = {Usage[j] : j \in held} \cup {u}
    BY <2>2 DEF u
  <2>10. OnlyHeldKeysPressed'
    BY <1>0, <2>3, <2>6, <2>9 DEF OnlyHeldKeysPressed
  <2>11. EveryHeldKeyPressed'
    <3>1. SUFFICES ASSUME exact' PROVE u \in Keys(r) /\ {Usage[j] : j \in held} \subseteq Keys(r)
      BY <2>6, <2>9 DEF EveryHeldKeyPressed
    <3>2. u \in modifiers' \cup {slots'[i] : i \in Slot} /\ u # None
      BY <2>1, <2>5, <3>1, UsageAssumption
    <3>3. modifiers' = r.modifiers /\ slots' = r.slots
      BY <2>2 DEF Apply
    <3>. QED  BY <1>0, <2>3, <2>5, <3>1, <3>2, <3>3 DEF Keys, EveryHeldKeyPressed
  <2>12. DistinctUsages'
    BY <1>0, <2>2, <2>5 DEF DistinctUsages, Sharing, u
  <2>. QED  BY <2>7, <2>8, <2>10, <2>11, <2>12 DEF IInv
<1>2. ASSUME NEW k \in Key, KeyUp(k) PROVE IInv'
  <2>. DEFINE u == Usage[k]
              r == Lift(u)
  <2>1. u \in Usages
    BY DEF Usages
  <2>2. Apply(r) /\ k \in held /\ held' = held \ {k} /\ UNCHANGED host
    BY <1>2 DEF KeyUp
  <2>3. ReportOK(r) /\ Keys(r) = Pressed \ {u}
    BY <1>0, <2>1, LiftResult
  <2>4. r = [modifiers |-> r.modifiers, slots |-> r.slots]
    BY DEF Lift, Report
  <2>5. exact' = (exact \/ held' = {})
    BY <1>2 DEF KeyUp
  <2>. HIDE DEF r, u
  <2>6. Report' = r /\ ReportOK(Report)' /\ Pressed' = Keys(r)
    BY <2>2, <2>3, <2>4, ApplyResult
  <2>7. TypeOK'
    <3>1. changed' \in BOOLEAN /\ parked' \in BOOLEAN /\ exact' \in BOOLEAN /\ held' \subseteq Key
      BY <1>0, <2>2, <2>5 DEF Apply, TypeOK
    <3>2. ReportTyped'
      BY <2>6, PackedTypeOK, PTL
    <3>. QED  BY <3>1, <3>2 DEF TypeOK, ReportTyped
  <2>8. HostUpToDate'
    BY <1>0, <2>2, <2>6 DEF HostUpToDate, Apply
  <2>9. OnlyHeldKeysPressed'
    BY <1>0, <2>2, <2>3, <2>6 DEF OnlyHeldKeysPressed, u
  <2>10. EveryHeldKeyPressed'
    <3>1. CASE held' = {}
      BY <3>1 DEF EveryHeldKeyPressed
    <3>2. CASE exact
      <4>1. \A j \in held' : Usage[j] # u /\ Usage[j] \in Pressed
        BY <1>0, <2>2, <3>2 DEF DistinctUsages, EveryHeldKeyPressed, u
      <4>. QED  BY <2>3, <2>6, <4>1 DEF EveryHeldKeyPressed
    <3>. QED  BY <2>5, <3>1, <3>2 DEF EveryHeldKeyPressed
  <2>11. DistinctUsages'
    BY <1>0, <2>2, <2>5 DEF DistinctUsages
  <2>. QED  BY <2>7, <2>8, <2>9, <2>10, <2>11 DEF IInv
<1>3. CASE Poll
  <2>1. UNCHANGED <<modifiers, slots, held, exact>>
    BY <1>3 DEF Poll
  <2>2. UNCHANGED <<Report, Pressed, Occupied>>
    BY <2>1 DEF Report, Pressed, Occupied
  <2>3. HostUpToDate' /\ changed' \in BOOLEAN /\ parked' \in BOOLEAN
    BY <1>0, <1>3, <2>2 DEF Poll, HostUpToDate, TypeOK
  <2>4. TypeOK'
    BY <1>0, <2>1, <2>2, <2>3 DEF TypeOK
  <2>. QED  BY <1>0, <2>1, <2>2, <2>3, <2>4 DEF IInv, OnlyHeldKeysPressed, EveryHeldKeyPressed,
                                               DistinctUsages
<1>4. CASE GetReport
  BY <1>0, <1>4 DEF GetReport, IInv, TypeOK, HostUpToDate, OnlyHeldKeysPressed,
                    EveryHeldKeyPressed, DistinctUsages, Report, Pressed, Occupied
<1>5. CASE Reset
  <2>1. slots' = [i \in Slot |-> None] /\ \A i \in Slot : slots'[i] = None
    BY <1>5 DEF Reset, Released
  <2>2. Occupied' = {} /\ Pressed' = {}
    BY <1>5, <2>1 DEF Reset, Occupied, Pressed, Slot
  <2>3. TypeOK'
    BY <1>0, <1>5, <2>1, <2>2 DEF Reset, TypeOK, Slot, Usages
  <2>4. HostUpToDate'
    BY <1>5 DEF Reset, HostUpToDate, Report, Released, Slot
  <2>. QED  BY <1>5, <2>2, <2>3, <2>4 DEF Reset, IInv, OnlyHeldKeysPressed,
                                          EveryHeldKeyPressed, DistinctUsages
<1>6. CASE UNCHANGED vars
  BY <1>0, <1>6 DEF vars, IInv, TypeOK, HostUpToDate, OnlyHeldKeysPressed, EveryHeldKeyPressed,
                    DistinctUsages, Report, Pressed, Occupied
<1>. QED  BY <1>1, <1>2, <1>3, <1>4, <1>5, <1>6 DEF Next

\* The inductive invariant holds in every state of every behaviour.
THEOREM Invariance == Spec => []IInv
BY InitIInv, StepIInv, PTL DEF Spec

\* The report keeps its shape: usages from the first slot on without holes or
\* repetitions, modifiers apart (boot_keys and boot_modifiers of dev-hid.c).
THEOREM TypeCorrect == Spec => []TypeOK
BY Invariance, PTL DEF IInv

\* The host's last report is the present one unless boot_changed says otherwise
\* (usb_apple_magic_kbd_handle_data, _handle_control, _handle_reset).
THEOREM HostKnows == Spec => []HostUpToDate
BY Invariance, PTL DEF IInv

\* apple_magic_kbd_apply_usage reports no key that the user does not hold.
THEOREM NoGhostKeys == Spec => []OnlyHeldKeysPressed
BY Invariance, PTL DEF IInv

\* ... and, unless keys rolled over, shared a usage or were held over a reset, every
\* key that is held.
THEOREM NoKeyLost == Spec => []EveryHeldKeyPressed
BY Invariance, PTL DEF IInv
=============================================================================
