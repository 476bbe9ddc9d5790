--------------------------- MODULE MagicKeyboard ---------------------------
(***************************************************************************)
(* The Apple Magic Keyboard (src/hw/usb/dev-hid.c, from line 867): the     *)
(* keys the user holds, the boot report that is to say so, and the host    *)
(* that polls for it.                                                      *)
(*                                                                         *)
(* Input events and USB packets are handled under the BQL, so each is one  *)
(* action.  Descriptor, idle, protocol and SET_REPORT requests change no   *)
(* state, the vendor endpoint always answers NAK.                          *)
(***************************************************************************)
EXTENDS Naturals, Sequences, FiniteSets

CONSTANTS
    Key,       \* keys of QEMU's input subsystem (qcodes the table maps)
    Usage,     \* apple_magic_kbd_qcode_to_hid_usage; two keys may share a usage
    Modifier,  \* the usages 0xe0..0xe7
    NumSlots,  \* AMK_BOOT_NUM_KEYS
    None       \* 0, the empty slot

Usages == {Usage[k] : k \in Key}

ASSUME SlotAssumption == NumSlots \in Nat \ {0}
ASSUME UsageAssumption == DOMAIN Usage = Key /\ None \notin Usages

VARIABLES
    modifiers,  \* s->boot_modifiers, as a set
    slots,      \* s->boot_keys
    changed,    \* s->boot_changed
    parked,     \* the host got a NAK and waits for usb_wakeup before it polls again
    host,       \* the last report the host has read
    held,       \* the keys the user holds down
    exact       \* no rollover, shared usage or reset since the user last held no key

vars == <<modifiers, slots, changed, parked, host, held, exact>>

Slot == 1 .. NumSlots
Report == [modifiers |-> modifiers, slots |-> slots]
Released == [modifiers |-> {}, slots |-> [i \in Slot |-> None]]

Occupied == {i \in Slot : slots[i] # None}
Pressed == modifiers \cup {slots[i] : i \in Occupied}

TypeOK ==
    /\ modifiers \subseteq Modifier
    /\ slots \in [Slot -> (Usages \ Modifier) \cup {None}]
    /\ changed \in BOOLEAN /\ parked \in BOOLEAN /\ exact \in BOOLEAN
    /\ held \subseteq Key
    /\ \A i \in Occupied : \A j \in 1 .. i - 1 : slots[j] \notin {None, slots[i]}

Init ==
    /\ modifiers = {} /\ slots = Released.slots
    /\ changed = FALSE /\ parked = FALSE
    /\ host = Released
    /\ held = {} /\ exact = TRUE

-----------------------------------------------------------------------------
(***************************************************************************)
(* apple_magic_kbd_apply_usage: the report after a usage goes down or up.  *)
(***************************************************************************)

PressAgain(u) ==
    IF u \in Modifier THEN [Report EXCEPT !.modifiers = @ \cup {u}]
    ELSE IF Occupied = Slot THEN Report
    ELSE [Report EXCEPT !.slots[Cardinality(Occupied) + 1] = u]

\* A slot for a key that has none; with all slots taken the key is dropped.
Press(u) ==
    IF u \in Modifier THEN [Report EXCEPT !.modifiers = @ \cup {u}]
    ELSE IF u \in Pressed \/ Occupied = Slot THEN Report
    ELSE [Report EXCEPT !.slots[Cardinality(Occupied) + 1] = u]

LiftLeavesHole(u) ==
    IF u \in Modifier THEN [Report EXCEPT !.modifiers = @ \ {u}]
    ELSE [Report EXCEPT !.slots = [i \in Slot |-> IF slots[i] = u THEN None ELSE slots[i]]]

LiftDropsRest(u) ==
    IF u \in Modifier THEN [Report EXCEPT !.modifiers = @ \ {u}]
    ELSE IF u \notin Pressed THEN Report
    ELSE LET at == CHOOSE i \in Slot : slots[i] = u
         IN  [Report EXCEPT !.slots = [i \in Slot |-> IF i < at THEN slots[i] ELSE None]]

\* The slots behind the key move up by one.
Lift(u) ==
    IF u \in Modifier THEN [Report EXCEPT !.modifiers = @ \ {u}]
    ELSE IF u \notin Pressed THEN Report
    ELSE LET at == CHOOSE i \in Slot : slots[i] = u
         IN  [Report EXCEPT !.slots =
                [i \in Slot |-> IF i < at THEN slots[i]
                                ELSE IF i < NumSlots THEN slots[i + 1] ELSE None]]

\* A report that differs is to be sent, and the host is woken for it.
ApplyWithoutWakeup(r) ==
    /\ modifiers' = r.modifiers /\ slots' = r.slots
    /\ changed' = (changed \/ r # Report)
    /\ UNCHANGED parked

Apply(r) ==
    /\ modifiers' = r.modifiers /\ slots' = r.slots
    /\ changed' = (changed \/ r # Report)
    /\ parked' = (parked /\ r = Report)

Sharing(k, down) == \E j \in down \ {k} : Usage[j] = Usage[k]

\* apple_magic_kbd_input_event for a key going down, or repeating.
KeyDown(k) ==
    /\ Apply(Press(Usage[k]))
    /\ held' = held \cup {k}
    /\ exact' = (exact /\ Usage[k] \in modifiers' \cup {slots'[i] : i \in Slot}
                       /\ ~Sharing(k, held))
    /\ UNCHANGED host

\* ... and for a key going up.
KeyUp(k) ==
    /\ k \in held
    /\ Apply(Lift(Usage[k]))
    /\ held' = held \ {k}
    /\ exact' = (exact \/ held' = {})
    /\ UNCHANGED host

-----------------------------------------------------------------------------
(***************************************************************************)
(* The host.                                                               *)
(***************************************************************************)

\* usb_apple_magic_kbd_handle_data on EP2 IN: NAK or the live report.
Poll ==
    /\ ~parked
    /\ IF changed
       THEN changed' = FALSE /\ host' = Report /\ UNCHANGED parked
       ELSE parked' = TRUE /\ UNCHANGED <<changed, host>>
    /\ UNCHANGED <<modifiers, slots, held, exact>>

\* GET_REPORT(Input, 0x01) on Interface 1: the live report, not acknowledged.
GetReport ==
    /\ host' = Report
    /\ UNCHANGED <<modifiers, slots, changed, parked, held, exact>>

ResetKeepsKeys ==
    /\ changed' = FALSE
    /\ parked' = FALSE /\ host' = Released
    /\ exact' = (held = {})
    /\ UNCHANGED <<modifiers, slots, held>>

\* usb_apple_magic_kbd_handle_reset; the host enumerates the device again, takes
\* all keys for released and polls.
Reset ==
    /\ modifiers' = {} /\ slots' = Released.slots
    /\ changed' = FALSE
    /\ parked' = FALSE /\ host' = Released
    /\ exact' = (held = {})
    /\ UNCHANGED held

Next ==
    \/ \E k \in Key : KeyDown(k) \/ KeyUp(k)
    \/ Poll \/ GetReport \/ Reset

\* A host that has not been put off by a NAK keeps polling.
Spec == Init /\ [][Next]_vars /\ WF_vars(Poll)

-----------------------------------------------------------------------------
(***************************************************************************)
(* Correctness.                                                            *)
(***************************************************************************)

\* What the host believes is what the keyboard reports, unless a report is still
\* to be sent: no change is forgotten by the single boot_changed flag, whichever
\* polls, GET_REPORTs, repeats and resets fall in between.
HostUpToDate == ~changed => host = Report

\* No ghost keys: what is reported as pressed is held by the user, also after the
\* slots were full, were compacted, or a key shared its usage with another.
OnlyHeldKeysPressed == Pressed \subseteq {Usage[k] : k \in held}

\* And the other way round: but for a rollover, a reset under held keys or two keys
\* with one usage, all of which end when the user has let go of all keys, every key
\* that is held is reported.
EveryHeldKeyPressed == exact => {Usage[k] : k \in held} \subseteq Pressed

\* A change of the keys is read by the host in the end: a host parked after a NAK
\* is woken for it.
ChangeIsRead == changed ~> ~changed
=============================================================================
