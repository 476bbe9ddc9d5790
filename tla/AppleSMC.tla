------------------------------ MODULE AppleSMC ------------------------------
(***************************************************************************)
(* The port protocol of the emulated Apple System Management Controller    *)
(* (src/hw/misc/applesmc.c).  The guest has three byte-wide ports: it      *)
(* writes a command, streams the bytes of a key (and of a payload) into    *)
(* the data port, and streams the answer out of the same port, steering    *)
(* itself by the status port and the "1e" error port.  All handlers run    *)
(* under QEMU's big lock, so a handler is one action; what makes the       *)
(* protocol hard is that NOTHING forces the guest to finish a command      *)
(* before it starts the next one, and that four commands share one set of  *)
(* cursors and one buffer.                                                 *)
(*                                                                         *)
(* Abstractions: the status register is the set of its flag bits (the      *)
(* empty set is APPLESMC_ST_CMD_DONE), and the sizes of the C declarations *)
(* are constants so that TLC can use small ones.                           *)
(***************************************************************************)
EXTENDS Integers, Sequences

CONSTANTS
    ByteMod,     \* 256: a port access, read_pos, data_len and data_pos are uint8_t
    KeyLen,      \* 4: bytes of a key name, of an index and of the #KEY value
    DataSize,    \* 255: the buffer data[]
    ZeroLen,     \* APPLESMC_MAX_DATA_LENGTH: what an unknown key's answer zeroes
    Table,       \* the keys realize() adds before #KEY, in list (reverse) order
    NumKey,      \* the four bytes "#KEY"
    GuestBytes   \* the bytes this guest writes to the data port

Byte == 0 .. ByteMod - 1

ASSUME SizesAssumption ==
    /\ ByteMod \in Nat \ {0}
    /\ KeyLen \in Nat \ {0}
    /\ KeyLen + 2 < ByteMod
    /\ DataSize = ByteMod - 1
    /\ ZeroLen \in Nat
    /\ ZeroLen <= DataSize

ASSUME InputsAssumption ==
    /\ GuestBytes \subseteq Byte
    /\ NumKey \in [1..KeyLen -> Byte]

(***************************************************************************)
(* The commands, the error codes and the key table.                        *)
(***************************************************************************)
Commands == {"READ", "WRITE", "GET_KEY_BY_INDEX", "GET_KEY_TYPE"}
BadCommand == "unknown"     \* any other byte written to the command port
NoCommand  == "none"        \* the zeroed cmd of a device nobody has talked to

ErrorCodes == {"OK", "CMD_INTRUPTED", "STILL_BAD_CMD", "BAD_CMD", "BAD_INDEX"}

CMD_DONE == {}
Flags == {"DATA_READY", "ACK", "NEW_CMD"}

\* n with its last j bytes shifted out, for each j.
Shifted(n) ==
    LET rest[j \in 0..KeyLen] == IF j = 0 THEN n ELSE rest[j - 1] \div ByteMod
    IN  rest

\* The KeyLen big-endian bytes of n (stl_be_p).
BytesOf(n) == [i \in 1..KeyLen |-> Shifted(n)[KeyLen - i] % ByteMod]

\* The list as it would be if #KEY were counted before it is inserted.
DataDefCountsBefore ==
    <<[key |-> NumKey, value |-> BytesOf(Len(Table))]>> \o Table

\* realize() counts the list, adds one for #KEY itself and puts #KEY at the head.
DataDef ==
    <<[key |-> NumKey, value |-> BytesOf(Len(Table) + 1)]>> \o Table

Entry == [key : [1..KeyLen -> Byte],
          value : {v \in Seq(Byte) : Len(v) \in 1..DataSize}]

\* The count fits into the KeyLen bytes it is stored in.
ASSUME TableAssumption ==
    /\ DataDef \in Seq(Entry)
    /\ Shifted(Len(DataDef))[KeyLen] = 0

\* The entries a lookup of key k matches.
Matches(k) == {i \in DOMAIN DataDef : DataDef[i].key = k}

Known(k) == Matches(k) # {}

\* applesmc_find_key: the first entry from the head of the list.
FindKey(k) ==
    DataDef[CHOOSE i \in Matches(k) : \A j \in Matches(k) : i <= j]

\* The entry at index k, a big-endian number: none from Len(DataDef) on.
PlacesAt(k) == {i \in DOMAIN DataDef : BytesOf(i - 1) = k}

\* One code per four-letter type name: "ui8 ", "ui16", "ui32" and "ch8*".
TypeName(len) ==
    CASE len = 1 -> 1 % ByteMod
      [] len = 2 -> 2 % ByteMod
      [] len = 4 -> 3 % ByteMod
      [] OTHER   -> 0

Attributes == ByteMod - 1   \* the fixed attribute byte 0xD0

\* The type letters, the size and the attributes GET_KEY_TYPE answers with;
\* an unknown key is described as a one-byte "ui8 ".
TypeReply(k) ==
    LET len == IF Known(k) THEN Len(FindKey(k).value) ELSE 1
    IN  [i \in 1..KeyLen |-> TypeName(len)] \o <<len, Attributes>>

VARIABLES
    cmd,         \* the command the data port works for
    status,      \* the flags of the status port
    status_1e,   \* the error port
    last_ret,    \* the byte the last read of the data port returned
    key,         \* the key name (or index) received so far
    read_pos,    \* bytes received since the command, a uint8_t
    data_len,    \* length of the payload
    data_pos,    \* cursor into the payload
    data         \* the payload buffer, shared by all commands

vars == <<cmd, status, status_1e, last_ret, key, read_pos, data_len, data_pos, data>>

TypeOK ==
    /\ cmd \in Commands \cup {NoCommand}
    /\ status \in SUBSET Flags
    /\ status_1e \in ErrorCodes
    /\ last_ret \in Byte
    /\ key \in [1..KeyLen -> Byte]
    /\ read_pos \in Byte
    /\ data_len \in Byte
    /\ data_pos \in Byte
    /\ data \in [1..DataSize -> Byte]

Init ==
    /\ cmd = NoCommand
    /\ status = CMD_DONE
    /\ status_1e = "OK"
    /\ last_ret = 0
    /\ key = [i \in 1..KeyLen |-> 0]
    /\ read_pos = 0
    /\ data_len = 0
    /\ data_pos = 0
    /\ data = [i \in 1..DataSize |-> 0]

-----------------------------------------------------------------------------
(***************************************************************************)
(* The command port.                                                       *)
(***************************************************************************)

\* A command is taken when the last one is done, or was itself refused.
Idle == status \in {CMD_DONE, {"NEW_CMD"}}

AcceptCmd(c) ==
    /\ c \in Commands /\ Idle
    /\ cmd' = c
    /\ status' = {"NEW_CMD", "ACK"}
    /\ UNCHANGED status_1e

\* "previous command interrupted": cmd keeps the OLD command.
InterruptCmd(c) ==
    /\ c \in Commands /\ ~Idle
    /\ status' = {"NEW_CMD"}
    /\ status_1e' = "CMD_INTRUPTED"
    /\ UNCHANGED cmd

UnexpectedCmd(c) ==
    /\ c = BadCommand
    /\ status' = {"NEW_CMD"}
    /\ status_1e' = "BAD_CMD"
    /\ UNCHANGED cmd

CmdWriteKeepsDataPos(c) ==
    /\ \/ AcceptCmd(c)
       \/ InterruptCmd(c)
       \/ UnexpectedCmd(c)
    /\ read_pos' = 0
    /\ UNCHANGED <<last_ret, key, data_len, data_pos, data>>

CmdWrite(c) ==
    /\ \/ AcceptCmd(c)
       \/ InterruptCmd(c)
       \/ UnexpectedCmd(c)
    /\ read_pos' = 0
    /\ data_pos' = 0
    /\ UNCHANGED <<last_ret, key, data_len, data>>

-----------------------------------------------------------------------------
(***************************************************************************)
(* Writes to the data port.                                                *)
(***************************************************************************)

AdvanceNoWrap == read_pos' = read_pos + 1

\* read_pos++ on a uint8_t.
Advance == read_pos' = (read_pos + 1) % ByteMod

Overwrite(buf, bytes) ==
    [i \in DOMAIN buf |-> IF i <= Len(bytes) THEN bytes[i] ELSE buf[i]]

\* A byte that arrives after the command is done is dropped.
IgnoreByte(val) ==
    /\ cmd \in Commands
    /\ status = CMD_DONE
    /\ UNCHANGED vars

KeyByteKeepsStatus(val) ==
    /\ cmd \in Commands /\ status # CMD_DONE
    /\ read_pos < (IF cmd \in {"READ", "WRITE"} THEN KeyLen ELSE KeyLen - 1)
    /\ key' = [key EXCEPT ![read_pos + 1] = val]
    /\ Advance
    /\ UNCHANGED <<cmd, status, status_1e, last_ret, data_len, data_pos, data>>

KeyByteWithoutDoneCheck(val) ==
    /\ cmd \in Commands
    /\ read_pos < (IF cmd \in {"READ", "WRITE"} THEN KeyLen ELSE KeyLen - 1)
    /\ key' = [key EXCEPT ![read_pos + 1] = val]
    /\ status' = {"ACK"}
    /\ Advance
    /\ UNCHANGED <<cmd, status_1e, last_ret, data_len, data_pos, data>>

\* A byte of the key name.  For the two queries the last byte is not one of
\* these: it produces the answer at once.
KeyByte(val) ==
    /\ cmd \in Commands /\ status # CMD_DONE
    /\ read_pos < (IF cmd \in {"READ", "WRITE"} THEN KeyLen ELSE KeyLen - 1)
    /\ key' = [key EXCEPT ![read_pos + 1] = val]
    /\ status' = {"ACK"}
    /\ Advance
    /\ UNCHANGED <<cmd, status_1e, last_ret, data_len, data_pos, data>>

\* The length byte of a READ.  A known key answers with its own length; an
\* unknown one with the length the guest asked for, of which ZeroLen bytes are
\* zeroed and the rest is what the buffer held before.
ReadLength(val) ==
    /\ cmd = "READ" /\ status # CMD_DONE
    /\ read_pos = KeyLen
    /\ IF Known(key)
       THEN /\ data' = Overwrite(data, FindKey(key).value)
            /\ data_len' = Len(FindKey(key).value)
       ELSE /\ data' = Overwrite(data, [i \in 1..ZeroLen |-> 0])
            /\ data_len' = val
    /\ data_pos' = 0
    /\ status' = {"ACK", "DATA_READY"}
    /\ status_1e' = "OK"
    /\ Advance
    /\ UNCHANGED <<cmd, last_ret, key>>

\* Bytes after the length byte of a READ are only counted (and wrap).
ReadExcess(val) ==
    /\ cmd = "READ" /\ status # CMD_DONE
    /\ read_pos > KeyLen
    /\ Advance
    /\ UNCHANGED <<cmd, status, status_1e, last_ret, key, data_len, data_pos, data>>

WriteLength(val) ==
    /\ cmd = "WRITE" /\ status # CMD_DONE
    /\ read_pos = KeyLen
    /\ data_len' = val
    /\ data_pos' = 0
    /\ status' = {"ACK"}
    /\ Advance
    /\ UNCHANGED <<cmd, status_1e, last_ret, key, data>>

\* A payload byte of a WRITE; the last one completes the command.  The data is
\* accepted and kept only in the shared buffer: no key changes its value.
WritePayload(val) ==
    /\ cmd = "WRITE" /\ status # CMD_DONE
    /\ read_pos > KeyLen
    /\ data_pos < data_len
    /\ data' = [data EXCEPT ![data_pos + 1] = val]
    /\ data_pos' = data_pos + 1
    /\ IF data_pos' = data_len
       THEN status' = CMD_DONE /\ status_1e' = "OK"
       ELSE status' = {"ACK"} /\ UNCHANGED status_1e
    /\ Advance
    /\ UNCHANGED <<cmd, last_ret, key, data_len>>

\* A payload byte when the announced length was zero: counted, never done.
WriteExcess(val) ==
    /\ cmd = "WRITE" /\ status # CMD_DONE
    /\ read_pos > KeyLen
    /\ data_pos >= data_len
    /\ Advance
    /\ UNCHANGED <<cmd, status, status_1e, last_ret, key, data_len, data_pos, data>>

\* The last key byte of GET_KEY_TYPE produces the six-byte description.
TypeAnswer(val) ==
    /\ cmd = "GET_KEY_TYPE" /\ status # CMD_DONE
    /\ read_pos = KeyLen - 1
    /\ key' = [key EXCEPT ![KeyLen] = val]
    /\ data' = Overwrite(data, TypeReply(key'))
    /\ data_len' = KeyLen + 2
    /\ data_pos' = 0
    /\ status' = {"ACK", "DATA_READY"}
    /\ status_1e' = "OK"
    /\ Advance
    /\ UNCHANGED <<cmd, last_ret>>

\* The last index byte of GET_KEY_BY_INDEX: the name at that place ...
IndexAnswer(val) ==
    /\ cmd = "GET_KEY_BY_INDEX" /\ status # CMD_DONE
    /\ read_pos = KeyLen - 1
    /\ key' = [key EXCEPT ![KeyLen] = val]
    /\ \E i \in PlacesAt(key') : data' = Overwrite(data, DataDef[i].key)
    /\ data_len' = KeyLen
    /\ data_pos' = 0
    /\ status' = {"ACK", "DATA_READY"}
    /\ status_1e' = "OK"
    /\ Advance
    /\ UNCHANGED <<cmd, last_ret>>

\* ... or BAD_INDEX past the end of the list.
IndexPastEnd(val) ==
    /\ cmd = "GET_KEY_BY_INDEX" /\ status # CMD_DONE
    /\ read_pos = KeyLen - 1
    /\ key' = [key EXCEPT ![KeyLen] = val]
    /\ PlacesAt(key') = {}
    /\ data_len' = 0
    /\ status' = CMD_DONE
    /\ status_1e' = "BAD_INDEX"
    /\ Advance
    /\ UNCHANGED <<cmd, last_ret, data_pos, data>>

\* Bytes after the answer of a query are only counted (and wrap).
QueryExcess(val) ==
    /\ cmd \in {"GET_KEY_TYPE", "GET_KEY_BY_INDEX"} /\ status # CMD_DONE
    /\ read_pos >= KeyLen
    /\ Advance
    /\ UNCHANGED <<cmd, status, status_1e, last_ret, key, data_len, data_pos, data>>

\* A data byte before any command.
StrayByte(val) ==
    /\ cmd = NoCommand
    /\ status' = CMD_DONE
    /\ status_1e' = "STILL_BAD_CMD"
    /\ UNCHANGED <<cmd, last_ret, key, read_pos, data_len, data_pos, data>>

DataWrite(val) ==
    \/ IgnoreByte(val) \/ KeyByte(val) \/ StrayByte(val)
    \/ ReadLength(val) \/ ReadExcess(val)
    \/ WriteLength(val) \/ WritePayload(val) \/ WriteExcess(val)
    \/ TypeAnswer(val) \/ IndexAnswer(val) \/ IndexPastEnd(val) \/ QueryExcess(val)

-----------------------------------------------------------------------------
(***************************************************************************)
(* Reads of the data port, and reset.                                      *)
(***************************************************************************)

\* The next byte of a READ's answer; the last one completes the command.
ReadAnswer ==
    /\ cmd = "READ" /\ "DATA_READY" \in status
    /\ data_pos < data_len
    /\ last_ret' = data[data_pos + 1]
    /\ data_pos' = data_pos + 1
    /\ status' = IF data_pos' = data_len THEN CMD_DONE ELSE {"ACK", "DATA_READY"}
    /\ UNCHANGED <<cmd, status_1e, key, read_pos, data_len, data>>

\* Nothing to read: the port repeats last_ret.
ReadNothing ==
    /\ cmd = "READ"
    /\ "DATA_READY" \notin status \/ data_pos >= data_len
    /\ UNCHANGED vars

\* Every command but READ falls into the default case, with or without an
\* answer waiting: the command ends and last_ret is returned.
ReadUnsupported ==
    /\ cmd # "READ"
    /\ status' = CMD_DONE
    /\ status_1e' = "STILL_BAD_CMD"
    /\ UNCHANGED <<cmd, last_ret, key, read_pos, data_len, data_pos, data>>

DataRead == ReadAnswer \/ ReadNothing \/ ReadUnsupported

\* Reset clears the two status registers and last_ret, and nothing else.
Reset ==
    /\ status' = CMD_DONE
    /\ status_1e' = "OK"
    /\ last_ret' = 0
    /\ UNCHANGED <<cmd, key, read_pos, data_len, data_pos, data>>

Next ==
    \/ \E c \in Commands \cup {BadCommand} : CmdWrite(c)
    \/ \E val \in GuestBytes : DataWrite(val)
    \/ DataRead
    \/ Reset

Spec == Init /\ [][Next]_vars

-----------------------------------------------------------------------------
(***************************************************************************)
(* What the protocol promises.                                             *)
(***************************************************************************)

Ready(c) == cmd = c /\ "DATA_READY" \in status

\* While the answer to a READ of a known key is being handed out, the buffer
\* holds the value of the key the guest named, in full, however the command was
\* reached: through an interrupted WRITE that left its bytes in the shared
\* buffer, a repeated key name after read_pos wrapped, or a reset half way.
AnswerIsTheKeys ==
    Ready("READ") /\ Known(key) =>
        /\ data_len = Len(FindKey(key).value)
        /\ \A i \in 1..data_len : data[i] = FindKey(key).value[i]

\* "Return zeros for unknown keys" (applesmc.c:194): every byte the answer to a
\* READ of an unknown key hands out, as many as the guest asked for, is zero.
\* The code zeroes ZeroLen of them (SMCUnknownKey.cfg).
UnknownKeyReadsZero ==
    Ready("READ") /\ ~Known(key) => \A i \in 1..data_len : data[i] = 0

\* The payload cursor never leaves the payload, and a transfer the guest is told
\* is in progress has a byte left to move: a READ or WRITE of non-zero length
\* cannot be stuck between its last byte and CMD_DONE.
TransferCanAdvance ==
    /\ data_pos <= data_len
    /\ Ready("READ") /\ data_len > 0 => data_pos < data_len
    /\ cmd = "WRITE" /\ status # CMD_DONE /\ read_pos > KeyLen /\ data_len > 0
          => data_pos < data_len

\* The numbers the first j of KeyLen big-endian bytes stand for, and all of them.
Prefixes(bytes) ==
    LET value[j \in 0..KeyLen] ==
            IF j = 0 THEN 0 ELSE value[j - 1] * ByteMod + bytes[j]
    IN  value
BigEndian(bytes) == Prefixes(bytes)[KeyLen]

\* Enumerating keys by index agrees with #KEY: an index is answered with the
\* name at that place exactly when it is below the count #KEY reports, and is
\* BAD_INDEX from there on, so a guest that counts to #KEY sees every key and
\* no error.
EnumerationMatchesCount ==
    LET idx == BigEndian(key)
        count == BigEndian(FindKey(NumKey).value)
    IN  /\ Ready("GET_KEY_BY_INDEX") =>
              /\ idx < count
              /\ \A i \in 1..KeyLen : data[i] = DataDef[idx + 1].key[i]
        /\ cmd = "GET_KEY_BY_INDEX" /\ status_1e = "BAD_INDEX" /\ read_pos = KeyLen
              => idx >= count

\* A command that has completed stays completed: no stray data byte, late read
\* or reset restarts it; only the next command does.
DoneUntilNextCommand ==
    [][status = CMD_DONE /\ status' # CMD_DONE
          => \E c \in Commands \cup {BadCommand} : CmdWrite(c)]_vars

\* "GET_KEY_BY_INDEX ... returns the actual 4-character key name"
\* (CHANGELOG.md:32): a read of the data port while a key name is ready
\* returns the next byte of that name.
KeyNameReachesGuest ==
    [][Ready("GET_KEY_BY_INDEX") /\ DataRead => last_ret' = data[data_pos + 1]]_vars
=============================================================================
