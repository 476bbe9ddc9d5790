# TLA+ models of the qemu-mos15 devices

This directory specifies, model-checks and partly proves the devices this
repository adds to or changes in QEMU for macOS guests: the Apple SMC, the
paravirtualized GPU shell (`apple-gfx-pci`), the VMware SVGA II adapter and the
Apple USB input devices. Every definition is translated from the C sources under
`src/hw`; `PROJECT.json` names the lines each one stands for.

## Inventory

| Component | State | Operations | What must hold |
|---|---|---|---|
| Apple SMC (`misc/applesmc.c`) | command, two status registers, key, positions, 255-byte buffer, key table | command write, data write (five protocols), data read, reset | answers are not mixed between commands; transfers end; enumeration agrees with `#KEY` |
| apple-gfx frame delivery (`display/apple-gfx-common-linux.c:404-545`) | `pending_frames`, queued bottom halves, `surface` | `frame_ready` (render threads, no lock), its bottom half (BQL), `mode_changed` | no wakeup and, unless its read fails, no frame is lost; the frame goes into the current surface |
| apple-gfx tasks (same file, `111-327`) | task list under `task_mutex`, references on memory regions, library mappings | create, destroy, map, unmap, the drain in unrealize | references balance and outlive the mappings; partial failures are undone; no stale handle |
| apple-gfx life cycle, cursor, vblank, interrupts (`apple-gfx-common-linux.c:375-402, 470-494, 547-650, 711-810`, `apple-gfx-pci-linux.c`) | library handles, timer, cursor, queued bottom halves, migration blocker | realize, reset, unrealize, cursor callbacks | nothing is left to run after unrealize, which ends; no cursor leaks; the pointer is up to date |
| SVGA FIFO (`display/vmware_vga.c:567-799`) | ring, NEXT and STOP shared with the guest, `len`, `cmd_start` | the guest's writes, `vmsvga_fifo_run` | every command once, in order, eventually; what is read can be given back |
| SVGA registers and refresh (same file) | `enable`, `config`, sizes, `invalidated`, redraw queue | register writes, refresh, invalidate, reset, `post_load` | announced changes reach the console |
| apple-magic-keyboard (`usb/dev-hid.c:866-1696`) | modifiers, key slots, `boot_changed` | key events, poll, GET_REPORT, reset | the host sees the keys held |
| apple-mighty-mouse (`usb/dev-hid.c:1702-2287`) | accumulated motion, buttons, ring of reports | input events, sync, poll, reset | the host's pointer follows the user's |
| apple-magic-trackpad (`usb/dev-hid-apple-trackpad.c`) | position, mode, sequence number, ring | input events, sync, SET_REPORT, poll, reset | frames in order, the last state arrives |
| usb-kbd, usb-mouse, usb-tablet (`usb/dev-hid.c`) | in QEMU's `hid.c` | | upstream code, not modelled |
| descriptors, properties, patches, Docker and scripts | | | tables and tooling, not modelled |

The devices do not call each other. Each meets three kinds of actors: the guest
(port, MMIO and USB accesses, and for SVGA plain memory shared with the device),
QEMU's main loop (refresh, bottom halves, input events, reset, migration) and,
for apple-gfx, threads of libapplegfx. Almost every handler runs under the big
QEMU lock (BQL) and is one action here. The exceptions are where the hard
behaviour is, and there each atomic access is an action of its own:

- `apple_gfx_frame_ready` and its bottom half share `pending_frames` without a lock;
- the cursor callbacks change the position and `cursor_show` under a running bottom half,
  and unrealize tears the device down under all of them;
- the task callbacks hold a mutex for only part of their work;
- the SVGA FIFO is written by the guest while the device reads it.

The sequential devices are hard in another way: long sequences of legal accesses,
counters that wrap, rings that overflow, migration and reset between two steps,
and a host that sleeps until it is woken. `PROJECT.json` lists 40 such hazards,
each at its line, with the properties that would catch it or the reason none does.

## Modules

| Module | Models | Remarks |
|---|---|---|
| `AppleSMC` | the SMC state machine | one action per branch of the data port's switch |
| `AppleSMC_proofs` | | proofs for all tables and sizes |
| `AppleGfxFrame` | frame delivery and mode change | one action per atomic access |
| `LatestFrame` | abstract: a renderer and a viewer who sees the newest frame | implemented by `AppleGfxFrame` |
| `AppleGfxLifecycle` | realize, unrealize, cursor, vblank, interrupts | extends `AppleGfxFrame`: the frame protocol runs inside the device's life |
| `AppleGfx_proofs` | | proofs about both for all sets of threads, modes and cursors |
| `AppleGfxTasks` | task memory | one action per critical section, and one per mapped range |
| `AppleGfxTasks_proofs` | | proofs for all handles, regions and pages and finitely many threads |
| `SvgaFifo` | FIFO parsing | one action per word |
| `SvgaFifo_proofs` | | proofs for all rings and loop caps: types for all guests and commands, order for sparing guests and well-sized commands |
| `CommandStream` | abstract: commands sent are executed in order | implemented by `SvgaFifo` |
| `VmwareSvga` | registers, redraw queue, refresh | whole commands, tiles for pixels |
| `VmwareSvga_proofs` | | proofs for all sizes of the screen and the queues |
| `MagicKeyboard`, `MightyMouse`, `MagicTrackpad` | the USB input devices and their host | one action per handler |
| `MagicKeyboard_proofs`, `MightyMouse_proofs`, `MagicTrackpad_proofs` | | proofs for all sizes of rings, slots and reports |
| `MC*` | instances for TLC | constants and bounds only |

`SvgaFifo` and `VmwareSvga` split the same `vmsvga_fifo_run`: the first decides which
words make a command, the second what a command does. `SvgaFifo` shows that the
device executes a sparing guest's commands in order, one at a time, which is what
`VmwareSvga` assumes of its `fifo`.

Names of variables and actions follow the C names where TLA+ allows it (`pending`
for `pending_frames`, `BhTail` for the tail of `apple_gfx_frame_ready_bh`). Definitions
named after a fault, such as `BhTailDoesNotRearm`, are not part of a specification:
they are the plausible mistakes the properties are tested against.

### Correspondence and abstraction

- **AppleSMC.** A byte is a number below `ByteMod`, a key name has `KeyLen` bytes,
  the type name of a key is one byte per length class. `status` is the set of its
  flag bits; `CMD_DONE` is the empty set, as 0 is in the code. The table is a
  constant; `#KEY` is prepended with the count as `realize` does. Reset clears only
  what the code clears. `read_pos` wraps.
- **AppleGfxFrame.** `Try01` and `Try12` are the two compare-and-swaps, `Schedule` the
  call that queues a bottom half, which may be much later. `BhCheck`, `BhSub`,
  `BhRead` and `BhTail` are the accesses of the bottom half; it has the BQL between
  them, so `ModeChanged` cannot run. A frame is its number. `lagfx_display_read_frame` returns the
  newest completed frame if it was not read before (`ReadFrame`), says that there is none
  (`ReadNoFrame`), or fails (`ReadFails`: the notification is spent and nothing is retried). `shown` is
  the frame last given to `dpy_gfx_update`, `picture` the one whose pixels the current surface
  holds: a resize replaces the surface by a blank one. `missed` is a history variable: reading the
  newest frame has failed.
- **AppleGfxLifecycle.** `life` is the main loop's place in realize and unrealize: `Unrealize`
  (timer, tasks, `lagfx_display_free` called), `DisplayFreed`, `DeviceFreed` (with the clearing of
  `pending_frames` and the beginning of the one `aio_bh_poll`), the bottom halves of that poll, `Drained`.
  `todo` is the number of bottom halves the poll has taken: what is queued while it runs stays
  queued, and unrealize does not wait for it. From `Unrealize` to `Drained` the
  BQL is held, so `ChangeMode` has to wait. `FrameBh` uses the actions of `AppleGfxFrame`, with
  the branch for a NULL display (`FrameGone`) added; every bottom half begins with `Dispatch`. A cursor callback changes `pos` or `show`
  first and queues its bottom half later; the bottom half reads the position in one step and
  `cursor_show` in another. Queues are counters, and for glyphs a set, because QEMU promises no
  order among the one-shot bottom halves of a poll. The comment in unrealize assumes that
  `lagfx_display_free` starts no callback and waits for those in flight; the model assumes it too.
- **AppleGfxTasks.** The library is external: it hands out handles that are not in
  use, may reuse destroyed ones, and maps or fails at will. Its caller destroys or
  unmaps a task only while it has it. One map may cover pages of an earlier one. `Unrealize` is the
  drain of the list, taken when no thread is in a task callback; the code does not ensure that (see
  the hazard at `apple-gfx-pci-linux.c:205`). It drops the references and leaves the library's tasks
  and mappings as they are, as the code does.
- **SvgaFifo.** A word is the command it belongs to and its place in it. A word that is
  not the first of a command may look like any command word. The registers of the
  ring are in range and aligned, so `vmsvga_fifo_length` does not return early. `Put` stops when
  one more word would make NEXT meet STOP, which is all the device asks for. `SparingPut` is a guest that
  leaves `Slack` more words free: an assumption, made by name in `SparingSpec`, which `svga_fifo` and
  the proofs use; `SvgaFifoFull.cfg` does without.
- **VmwareSvga.** `own` says whether the console's surface has the framebuffer as its memory, as the
  one `vmsvga_check_size` makes; VGA mode and a new process have others. `stale` is a history
  variable: the tiles the console may not show as the last finished command left them. A rectangle of
  the queue is copied and announced, so it is shown on any surface; a full update only announces, and
  shows a tile on the device's own surface only. `vmsvga_check_size` keeps a surface of the guest's size
  whoever made it. Refresh is one action (check size, run the FIFO, flush, full update), as it is one
  call under the BQL.
- **MagicKeyboard.** `held` (the keys the user really holds) and `exact` (no key of those
  was dropped at rollover, shares a usage with another, or was held across a reset)
  are history variables.
- **MightyMouse, MagicTrackpad.** One axis, one wheel, one button; the others have the
  same code. The ring with head and tail is a sequence of at most `Depth - 1`.
  `owed` and `dropped` are history variables. `host` in the trackpad is what the host
  read last.

## Runs

| Run | Result | Question |
|---|---|---|
| `smc` | holds | are answers complete and unmixed, transfers finite, enumeration right under any port sequence? |
| `gfx_frame` | holds | is the newest frame shown with three racing threads, resizes, failed reads and a preempted bottom half? |
| `gfx_tasks` | holds | do references and mappings survive concurrency, partial failure and unrealize? |
| `gfx_lifecycle` | holds | does unrealize end, with nothing left to run or to release after its one poll, and does the pointer settle? |
| `svga_fifo` | holds | does the device execute what a sparing guest sends although it samples, rewinds and stops early? |
| `svga_display` | holds | is any announced update of the device's own surface lost in mode changes, queue overflow, reset or migration? |
| `keyboard` | holds | does the host's view converge to the keys held? |
| `mouse` | holds | does cut-up motion add up, and what does an overflow cost? |
| `trackpad` | holds | are frames ordered, from the first on, and the final state delivered? |
| `smc_key_name` | violated | CHANGELOG.md:32-34, "returns the actual 4-character key name" |
| `gfx_drain` | violated | apple-gfx-pci-linux.c:168-171, no bottom half may use the freed display |
| `svga_fifo_blend` | violated | vmware_vga.c:731-734, "avoid FIFO desync" |

### What the violated runs show

- **smc_key_name.** GET_KEY_BY_INDEX and GET_KEY_TYPE prepare their answer and announce
  it, but the data-port read serves READ only; the guest gets the last byte of an
  earlier READ and error 0x81.
- **gfx_drain.** Unrealize clears `lagfx_disp` and then runs the queued bottom halves. The frame
  bottom half checks for NULL; `apple_gfx_cursor_moved_bh` hands NULL to
  `lagfx_display_cursor_position`. What the poll leaves behind is nothing (`QuietWhenGone`).
- **svga_fifo_blend.** A command that goes straight to `badcmd` does not charge its own
  command word; a partly written one is then read past NEXT.

### Further disagreements

Five more statements of the repository do not hold. Each is a property of its own, and the passing runs
claim no more than what is left of it. They are not among the runs, but TLC refutes each in a few
seconds: `tlc -config <configuration> <module>`.

| Configuration | Module | Property | Statement |
|---|---|---|---|
| `SMCUnknownKey.cfg` | `MCAppleSMC` | `UnknownKeyReadsZero` | applesmc.c:194, "Return zeros for unknown keys" |
| `GfxPinned.cfg` | `MCAppleGfxTasks` | `MappingsKeepRegionsAlive` | apple-gfx-linux.h:21-22, a reference "to keep it alive for the mapping's lifetime" |
| `GfxRollback.cfg` | `MCAppleGfxTasks` | `MapIsAllOrNothing` | apple-gfx-common-linux.c:290-291, "an all-or-nothing map" |
| `SvgaFifoFull.cfg` | `MCSvgaFifo` | `RewindGivesBack` | vmware_vga.c:631, "May need to go back to the start of the command if incomplete" |
| `TrackpadSwitch.cfg` | `MCMagicTrackpad` | `FramesAfterSwitch` | dev-hid-apple-trackpad.c:10-12, "thereafter Report 0x02 carries multitouch frames" |

- **UnknownKeyReadsZero.** The answer for an unknown key is as long as the guest asks, up to 255 bytes, and
  32 bytes of it are zeroed. After a WRITE with a longer payload the rest is that payload.
- **MappingsKeepRegionsAlive.** `destroy_task` drops the references on the regions of a task before it calls
  `lagfx_task_destroy`, and unrealize drops them and never calls it. `MappedPagesPinned`, which holds,
  says that listed tasks are not affected.
- **MapIsAllOrNothing.** The rollback of a failed map unmaps each page this call has mapped. Where an earlier
  call of the same task had mapped the page, its mapping is gone, though its reference stays
  (`FailedMapLeavesNothing` holds). Whether the library lets one map replace another is not known here.
- **RewindGivesBack.** STOP is published after every word and taken back by `rewind`. A guest that fills the
  ring up to the one word that tells full from empty, while the device is inside an incomplete
  command, makes the rewind put STOP on NEXT: the full ring counts as empty and all of it is lost.
- **FramesAfterSwitch.** Enabling multitouch leaves the boot reports in the ring. The host reads them after the
  switch; frames follow (`FramesInOrder` holds).

### Bounds and why they are enough

- `smc`: bytes modulo 5, two-byte names, a buffer of 4, two keys and `#KEY`; guest bytes
  are 0, 2, 3 and 4, which spell known and unknown keys, the last valid index (2) and the first
  invalid one (3, the count), wrapped indices, and lengths around the buffer's. `read_pos` wraps after
  5 writes, so a command's excess bytes do reach the key again.
- `SMCUnknownKey.cfg`: a buffer of 7 of which 4 bytes are zeroed, as 32 are of 255, and guest bytes 1
  and 5: a length on either side of 4. `read_pos` wraps after 8.
- `gfx_frame`: three threads saturate the cap of 2 with one to spare; 5 frames allow
  a frame in every stage of the protocol. Two modes give one resize back and forth.
- `gfx_tasks`: two threads, two handles, two regions, two pages, lists of one or two
  ranges: a failure at the first or second range, with its region new or known.
  Threads and regions are symmetric; no property or constant distinguishes them.
- `gfx_lifecycle`: two threads, so that one can be inside a callback, or wait for the BQL, while
  the other's bottom half runs; two frames, the cap of `pending_frames`; two cursors, one current
  and one queued; one move and any number of visibility changes; at most two bottom halves waiting.
  Sizes of the surface play no part here (one mode; `gfx_frame` has two).
- `GfxPinned.cfg`, `GfxRollback.cfg`: the instance of `gfx_tasks` without its symmetry.
- `svga_fifo`: a ring of 9 with commands of 2 and 3 + 2 words wraps at every
  alignment; `MaxLoop` 3 stops the loop in the middle of the ring; four commands.
  The guest leaves `Slack` = 3 words free beyond the usual one, as many as the
  longest fixed part: what a rewind gives back then always fits. The real ring has at least 2560 words,
  but nothing in the device enforces the reserve, and `SvgaFifoFull.cfg`, the same instance
  with a guest that uses it, shows what happens then.
- `svga_display`: surfaces of up to 2 x 1 tiles including the empty ones, a redraw queue of 2 and
  FIFO of 3, so the queue overflows within one refresh; `MaxLoop` 3 leaves commands behind.
- `keyboard`: three slots and five slot keys (two on one usage) plus a modifier: rollover, a
  release in every slot, and a shared usage. The code has six slots.
- `mouse`, `trackpad`: rings of two reports, reports that carry one unit, motion up to 4:
  one sync can overrun the ring, and the loop cap exceeds the ring as 64 exceeds 63.
  The trackpad's sequence number wraps at 4.

All runs but `gfx_lifecycle` and `gfx_drain` check deadlock. Those two stop when the device is
gone or could not be realized, and when unrealize and a `mode_changed` callback wait for each
other; `TeardownEnds` says that the last is the only way for unrealize not to end. Every property of a passing run has been seen to fail under
one plausible mistake in the code it is about (`mutants` in `PROJECT.json`).

### Fairness

- `AppleGfxFrame`: weak fairness of `frame_ready`'s own steps and of the bottom half. A
  render thread inside the callback keeps running, and the main loop polls its
  AioContext for ever; rendering and mode changes are not fair.
- `AppleGfxLifecycle`: weak fairness of the steps of unrealize, of the bottom halves, and of a
  thread inside a callback that takes no lock. Unrealize itself and callbacks are not fair, nor is
  `mode_changed`, which needs the BQL.
- `SvgaFifo`: weak fairness of the device. The display refresh calls
  `vmsvga_fifo_run` periodically even if the guest never writes SYNC. The guest is not
  fair: a command it never completes need not be executed.
- `MagicKeyboard`: weak fairness of `Poll`. A host that has not been put off by a NAK
  polls at every interval; one that has is not fair until woken.

The other specifications state safety only.

## Proofs

`AppleGfx_proofs` proves of the frame protocol, for every set of threads and modes and any number of
frames, type correctness, `NoLostWakeup`, `NoLostFrame`, `FrameLandsInCurrentSurface` and the
safety part of the refinement of `LatestFrame`. `NoLostFrame` speaks about a quiet
system only and is not inductive. The inductive invariant `IInv` adds why it becomes true:
an unshown frame whose read has not failed is counted in `pending`, or about to be read, or its thread has not tried
the first compare-and-swap (`UnshownIsTracked`); a counted frame has a bottom half coming
(`NoLostWakeup`); and the bottom half's check stays valid until its decrement
(`BhHasWork`), since nobody else decrements; and the picture in the surface is the frame last
given to the console or blank (`PictureIsShown`). The one assumption is that the default mode is
a mode.

Of the life cycle it proves, for every set of threads, modes and cursors, the type invariant,
`PointerSettles`, `QuietWhenGone` and `CursorOwned`. Its inductive invariant `LifeInv` adds to the
types what each stage of the life rules out (`Stages`: a display exists exactly while the device
runs; without one no thread is in a callback; a bottom half past its check means the device runs,
since unrealize and bottom halves share a thread) and the reason the pointer settles
(`PointerTracked`: if no cursor bottom half is to come, the running one has read the last position,
and reads `cursor_show` only later). For `QuietWhenGone` it says that while unrealize's poll runs, everything
queued is among what the poll took (`PollTakesAll`: `Queued` equals `todo`). This is not a
guard: `Drained` asks only that the poll has run what it took. It holds because each thing that could
queue one more is ruled out by something else: callbacks by `lagfx_display_free`, which is assumed to wait for
them (the guard of `DisplayFreed`), interrupts by `lagfx_device_free` before the poll, and the frame bottom half's own
requeueing by the branch for a NULL display. A device freed after the poll breaks it.
The assumptions on constants are that the default mode is a mode and NULL is not a cursor.

`AppleSMC_proofs` proves type correctness, `AnswerIsTheKeys`, `TransferCanAdvance`,
`EnumerationMatchesCount` and `DoneUntilNextCommand` for every table of keys whose values fit the buffer, every byte
modulus, key length and set of guest bytes that satisfy the named assumptions of
`AppleSMC`. `AnswerIsTheKeys` speaks of known keys; what an unknown key's answer holds is refuted by
`SMCUnknownKey.cfg`. The
inductive invariant is the first four of these together with `QueriesDoNotMoveCursor`:
the query commands leave `data_pos` at 0, without which a failed GET_KEY_BY_INDEX, which clears `data_len` only, would leave the position
behind the end of the buffer's content. `AnswerIsTheKeys` needs no more than its own
strength because an interrupted command loses the flag DATA_READY in the same write. The lookup
lemmas (`FirstMatch`, `FindKeyEntry`) rest on the library's well-foundedness of `<`. So does
`EnumerationMatchesCount`: numbers and their bytes are recursive functions on `0..KeyLen`,
and that storing and reading are inverse to each other (`StoreThenRead`, `ReadThenStore`) is proved by the least
position where they would differ. The table's assumption is that its length fits into
`KeyLen` bytes; with a larger one an index would name two places.

`AppleGfxTasks_proofs` proves `TypeOK`, `RefBalance`, `MappedPagesPinned`, `ListedHandlesLive` and
the action property `FailedMapLeavesNothing`. Five more conjuncts make them inductive: a handle in
the hands of a creating or destroying thread is not listed (`HeldHandlesUnlisted`); a handle that is
created but not yet listed has nothing mapped (`CreatedRangesEmpty`: without it the insertion would
list mapped pages without a reference, and `MappedPagesPinned` is not inductive); one thread at a
time is mapping, because the mutex is held over the library's call (`OneMapper`); only a destroying
thread has regions to release (`JobRegionsOwned`); and a mapping thread's job records what the task
was before and every page it has changed since (`MapsAreLogged`), from which the failed map can be
undone. `RefBalance` counts with cardinalities, so the set of threads must be finite
(`ThreadAssumption`); a library that never hands out a handle is excluded (`HandleAssumption`).

`SvgaFifo_proofs` proves `TypeOK` of `Spec`, so for every guest and every set of commands. `ParseInStep`,
`NoDesync` and the safety part of the refinement of `CommandStream` it proves under two named
assumptions: the guest is a sparing one (`SparingSpec`: it leaves `Slack` words free), and the commands are
`WellSized`: each is charged for together with its command word, and its fixed part is at most `Slack`.
Both are needed: `svga_fifo_blend` refutes `NoDesync` for a command that is not well-sized, and
`SvgaFifoFull.cfg` shows a guest that is not sparing losing its words. They are assumptions about the guest
and its commands, not facts about the device. TLC checks that the constants of `svga_fifo` satisfy
`WellSized`. The argument is about the stream of words not finished with
(`Pending`): those in the ring from where a rewind could return to, then those the guest has
yet to write. A `Put` leaves the stream as it is, a `Begin` extends it, and a device step drops words from
its front or nothing. The invariant says of the stream that its words are consecutive words of
commands (`Chained`), that its first is the one the device expects, that the words read since
`cmd_start` are its beginning (`RewindKept`), and that as many words as `len` counts were published (`LenCovered`). That no
command is lost or repeated needs to know which command of `sent` a word belongs to. Counting would take
an induction; instead `Numbered` says that there is a numbering of the words which grows by one
with every last word of a command, from the commands executed to those sent. A command whose rest
is being read was in the ring as a whole when it was charged for (`ArgsCounted`); `ParseInStep` holds in
that phase only for this reason. The lemmas about remainders,
distances and views of the ring hold for every ring size. `MaxLoop` is at least 1.

`VmwareSvga_proofs` proves `TypeOK`, `NoLostUpdate` and the action property `RefreshShowsAll`.
`NoLostUpdate` holds in accelerated mode on the device's own surface and is not inductive: CONFIG_DONE may
be cleared and set again without an invalidation. `DebtIsQueued` drops the condition on `config` and says of a
valid display on an own surface that the surface has the guest's size and the queue covers what is stale. VGA mode
and migration leave a surface that is not own; only a size check that replaces it makes it own, and
that invalidates it, so the same refresh shows everything.
A run executes any number of commands and may flush in the middle. `RunResult` says what one command keeps,
`RunKeeps` extends it to all by the first command that would not, and `RunExists` shows that the run
is a function at all. `MaxLoop` and `RedrawLen` are at least 1.

`MagicKeyboard_proofs` proves `TypeOK`, `HostUpToDate`, `OnlyHeldKeysPressed` and `EveryHeldKeyPressed`.
The one addition is `DistinctUsages`, that no usage fills two slots: a release clears the first match only.

`MagicTrackpad_proofs` proves `TypeOK`, `FramesInOrder`, `HostSettles` and `HostIsWoken`. The invariant
adds that a frame in the ring means multitouch mode is on (`FramesMeanMultitouch`), that the ring's boot
reports come first and its frames carry consecutive numbers up to the next one
(`FramesLast`, `Numbered`), and that the newest report, in the ring or read, says how the pointer is
(`NewestUpToDate`): an overflow drops the oldest report only.

`MightyMouse_proofs` proves `TypeOK`, `HostFollowsUser`, `ButtonSettles` and `HostIsWoken`.
`HostFollowsUser` speaks of a quiet device; the invariant is that what the host is
still owed is in the ring (`OwedIsQueued`) or in the accumulators, which a sync leaves empty
(`NothingLeft`). The sum of the ring's reports is not computed by recursion but certified by a ledger of what remains
to be read after each report; lemmas say how a ledger grows at one end and shrinks at the other. `ButtonTracked` says that
the last report carries the button.

Model-checked only, and why:

- liveness in both refinements, `TeardownEnds`, `ChangeIsRead`: fairness and ENABLED are outside the prover;
- `NoNullDisplay`, `KeyNameReachesGuest` and the five further disagreements: they are false. `NoDesync` is violated for a command that
  is not `WellSized` and proved for the others with a sparing guest.

## Not modelled

- Of the apple-gfx life cycle: the migration blocker and the MSI capability, which are state of
  QEMU's core, the forwarding of reset to the library, and task callbacks that race the drain of the
  task list. The device is not hotpluggable, so QEMU ends when realize fails.
- Which of two glyphs queued between two polls stays the cursor: it depends on the order of
  one-shot bottom halves, which no document of the device states.
- What a console surface that VGA mode or migration has left should show when the guest's size equals
  its own: `vmsvga_check_size` keeps it, a full update copies nothing to it, and `NoLostUpdate` and
  `RefreshShowsAll` make no claim about it. That VGA mode draws on a surface of its own is QEMU's VGA core.
- The SVGA cursor, scratch, palette, identification and capability registers; VGA text mode.
- The library libapplegfx, QEMU's USB core, VGA core and console: modelled by how the
  code uses them, and marked external in the map.
- Constant tables (descriptors, key values, the usage table beyond sharing), bit layout of
  reports, logging, property parsing, and everything outside `src/hw`.

## Plan

1. Done: the SMC, the frame protocol with its refinement and its place in the device's life,
   tasks, the FIFO with its refinement, the SVGA display state, the three input devices; proofs
   of every safety property and action property the passing runs check.
2. SVGA cursor and the dirty log in `VmwareSvga`; a composition in which `VmwareSvga`'s
   commands come from `SvgaFifo`.
3. Proofs about these additions.
