--------------------------- MODULE AppleGfxTasks ---------------------------
(***************************************************************************)
(* The task table of apple-gfx                                             *)
(* (src/hw/display/apple-gfx-common-linux.c: apple_gfx_create_task,        *)
(* apple_gfx_destroy_task, apple_gfx_map_memory, apple_gfx_unmap_memory;   *)
(* apple-gfx-pci-linux.c: the drain of the list in unrealize).             *)
(*                                                                         *)
(* libapplegfx calls these from its own threads.  A task is a reserved     *)
(* virtual range that guest memory is mapped into; QEMU must hold a        *)
(* reference on every MemoryRegion it hands out a pointer into.  Only the  *)
(* list of tasks is under task_mutex: the library's create and destroy,    *)
(* the dropping of references, and the whole of unmap run outside it.      *)
(*                                                                         *)
(* External, modelled from the calls made here: the library's reservation  *)
(* of a handle (`alive'), the pages of its range (`va') and the success or *)
(* failure of each call.  A handle, a pointer, may be reused once its      *)
(* reservation is destroyed.                                               *)
(***************************************************************************)
EXTENDS Integers, Sequences, FiniteSets, SequencesExt

CONSTANTS
    Thread,     \* library threads that invoke the shell callbacks
    Handle,     \* lagfx_task_t pointers
    Region,     \* MemoryRegions of guest RAM
    NoRegion,   \* what an inaccessible guest-physical range translates to
    VaSize,     \* pages of a task's virtual range
    RangeLists  \* the range lists the guest asks to map

ASSUME NoRegionAssumption == NoRegion \notin Region
ASSUME VaSizeAssumption == VaSize \in Nat \ {0}
ASSUME ThreadAssumption == IsFiniteSet(Thread)
ASSUME HandleAssumption == Handle # {}

\* A guest-physical range: the region it lies in, and its length in pages.
PhysicalRange == [region : Region \cup {NoRegion}, length : Nat \ {0}]

ASSUME RangeListsAssumption == RangeLists \subseteq Seq(PhysicalRange)

Page == 0 .. VaSize - 1
Unmapped == [p \in Page |-> NoRegion]

VARIABLES
    tasks,   \* s->tasks: entries [handle, regions], in list order
    refs,    \* references the device holds on each region
    alive,   \* handles the library has reserved
    va,      \* the region behind each page of each handle's range
    pc,      \* where each thread is
    job      \* the locals of each thread's call

vars == <<tasks, refs, alive, va, pc, job>>

Entry == [handle : Handle, regions : SUBSET Region]

\* The locals of a call.  handle: the task; regions: destroy_task's unlinked
\* entry; base, cur, rest, fresh: map_memory's offsets, the ranges still to do
\* and the regions first referenced by this call.  before is a ghost: the
\* range and its regions when the call began.
Job == [handle : Handle, regions : SUBSET Region, base : Nat, cur : Nat,
        rest : Seq(PhysicalRange), fresh : SUBSET Region,
        before : [va : [Page -> Region \cup {NoRegion}], regions : SUBSET Region]]

AnyHandle == CHOOSE h \in Handle : TRUE

NoJob == [handle |-> AnyHandle, regions |-> {}, base |-> 0, cur |-> 0, rest |-> <<>>,
          fresh |-> {}, before |-> [va |-> Unmapped, regions |-> {}]]

TypeOK ==
    /\ tasks \in Seq(Entry)
    /\ refs \in [Region -> Nat]
    /\ alive \in SUBSET Handle
    /\ va \in [Handle -> [Page -> Region \cup {NoRegion}]]
    /\ pc \in [Thread -> {"idle", "created", "mapping", "unlinked", "released"}]
    /\ job \in [Thread -> Job]

Init ==
    /\ tasks = <<>>
    /\ refs = [r \in Region |-> 0]
    /\ alive = {}
    /\ va = [h \in Handle |-> Unmapped]
    /\ pc = [t \in Thread |-> "idle"]
    /\ job = [t \in Thread |-> NoJob]

-----------------------------------------------------------------------------
\* The first entry of the list with handle h, if any.
Entries(h) == {i \in DOMAIN tasks : tasks[i].handle = h}
Find(h) == CHOOSE i \in Entries(h) : \A j \in Entries(h) : i <= j

\* task_mutex is held across a whole map_memory; the other holders are single steps.
MutexFree == \A t \in Thread : pc[t] # "mapping"

Goto(t, from, to) == pc[t] = from /\ pc' = [pc EXCEPT ![t] = to]
Return(t) == job' = [job EXCEPT ![t] = NoJob]

-----------------------------------------------------------------------------
(* apple_gfx_create_task *)

\* lagfx_task_create reserves a range, outside the lock.
CreateReserve(t, h) ==
    /\ h \notin alive
    /\ alive' = alive \cup {h}
    /\ va' = [va EXCEPT ![h] = Unmapped]
    /\ Goto(t, "idle", "created")
    /\ job' = [job EXCEPT ![t] = [NoJob EXCEPT !.handle = h]]
    /\ UNCHANGED <<tasks, refs>>

\* The entry is appended under the lock and the handle returned to the library.
CreateInsert(t) ==
    /\ MutexFree
    /\ tasks' = Append(tasks, [handle |-> job[t].handle, regions |-> {}])
    /\ Goto(t, "created", "idle")
    /\ Return(t)
    /\ UNCHANGED <<refs, alive, va>>

-----------------------------------------------------------------------------
(* apple_gfx_destroy_task *)

DestroyKeepsEntry(t, h) ==
    /\ MutexFree
    /\ Entries(h) # {}
    /\ job' = [job EXCEPT ![t] =
                  [NoJob EXCEPT !.handle = h, !.regions = tasks[Find(h)].regions]]
    /\ Goto(t, "idle", "unlinked")
    /\ UNCHANGED <<tasks, refs, alive, va>>

\* Unlink the entry under the lock.  A handle not in the list is refused.
DestroyUnlink(t, h) ==
    /\ MutexFree
    /\ Entries(h) # {}
    /\ job' = [job EXCEPT ![t] =
                  [NoJob EXCEPT !.handle = h, !.regions = tasks[Find(h)].regions]]
    /\ tasks' = RemoveAt(tasks, Find(h))
    /\ Goto(t, "idle", "unlinked")
    /\ UNCHANGED <<refs, alive, va>>

\* Drop the entry's references, outside the lock.
DestroyUnref(t) ==
    /\ Goto(t, "unlinked", "released")
    /\ refs' = [r \in Region |-> IF r \in job[t].regions THEN refs[r] - 1 ELSE refs[r]]
    /\ job' = [job EXCEPT ![t].regions = {}]
    /\ UNCHANGED <<tasks, alive, va>>

\* lagfx_task_destroy: from here on the handle may be reused.
DestroyRelease(t) ==
    /\ Goto(t, "released", "idle")
    /\ alive' = alive \ {job[t].handle}
    /\ Return(t)
    /\ UNCHANGED <<tasks, refs, va>>

-----------------------------------------------------------------------------
(* apple_gfx_map_memory *)

MapBeginJob(h, base, ranges) ==
    [NoJob EXCEPT !.handle = h, !.base = base, !.cur = base, !.rest = ranges,
                  !.before = [va |-> va[h], regions |-> tasks[Find(h)].regions]]

MapBeginWithoutLookup(t, h, base, ranges) ==
    /\ MutexFree
    /\ h \in alive
    /\ Goto(t, "idle", "mapping")
    /\ job' = [job EXCEPT ![t] = [NoJob EXCEPT !.handle = h, !.base = base, !.cur = base,
                                               !.rest = ranges]]
    /\ UNCHANGED <<tasks, refs, alive, va>>

\* Take the lock and find the task; an unknown handle is refused.
MapBegin(t, h, base, ranges) ==
    /\ MutexFree
    /\ Entries(h) # {}
    /\ Goto(t, "idle", "mapping")
    /\ job' = [job EXCEPT ![t] = MapBeginJob(h, base, ranges)]
    /\ UNCHANGED <<tasks, refs, alive, va>>

PagesOf(from, len) == from .. from + len - 1

SetPages(row, pages, r) == [p \in Page |-> IF p \in pages THEN r ELSE row[p]]

MapRangeNoRef(t) ==
    /\ pc[t] = "mapping" /\ job[t].rest # <<>>
    /\ LET h == job[t].handle
           range == Head(job[t].rest)
       IN  /\ range.region # NoRegion
           /\ PagesOf(job[t].cur, range.length) \subseteq Page
           /\ va' = [va EXCEPT ![h] =
                        SetPages(@, PagesOf(job[t].cur, range.length), range.region)]
           /\ job' = [job EXCEPT ![t].cur = @ + range.length, ![t].rest = Tail(@)]
    /\ UNCHANGED <<tasks, refs, alive, pc>>

\* The next range: translate it, reference its region the first time this task
\* sees it, and let the library map it at the current offset.
MapRange(t) ==
    /\ pc[t] = "mapping" /\ job[t].rest # <<>>
    /\ LET h == job[t].handle
           i == Find(h)
           range == Head(job[t].rest)
           new == range.region \notin tasks[i].regions
       IN  /\ range.region # NoRegion
           /\ PagesOf(job[t].cur, range.length) \subseteq Page
           /\ tasks' = [tasks EXCEPT ![i].regions = @ \cup {range.region}]
           /\ refs' = IF new THEN [refs EXCEPT ![range.region] = @ + 1] ELSE refs
           /\ va' = [va EXCEPT ![h] =
                        SetPages(@, PagesOf(job[t].cur, range.length), range.region)]
           /\ job' = [job EXCEPT ![t].cur = @ + range.length,
                                 ![t].rest = Tail(@),
                                 ![t].fresh = IF new THEN @ \cup {range.region} ELSE @]
    /\ UNCHANGED <<alive, pc>>

\* All ranges are mapped: unlock and return true.
MapSucceed(t) ==
    /\ job[t].rest = <<>>
    /\ Goto(t, "mapping", "idle")
    /\ Return(t)
    /\ UNCHANGED <<tasks, refs, alive, va>>

MapFailForgetsUnmap(t) ==
    /\ job[t].rest # <<>>
    /\ LET h == job[t].handle
       IN  /\ tasks' = [tasks EXCEPT ![Find(h)].regions = @ \ job[t].fresh]
           /\ refs' = [r \in Region |-> IF r \in job[t].fresh THEN refs[r] - 1 ELSE refs[r]]
    /\ Goto(t, "mapping", "idle")
    /\ Return(t)
    /\ UNCHANGED <<alive, va>>

MapFailKeepsRegions(t) ==
    /\ job[t].rest # <<>>
    /\ LET h == job[t].handle
       IN  /\ va' = [va EXCEPT ![h] =
                        SetPages(@, PagesOf(job[t].base, job[t].cur - job[t].base), NoRegion)]
           /\ refs' = [r \in Region |-> IF r \in job[t].fresh THEN refs[r] - 1 ELSE refs[r]]
    /\ Goto(t, "mapping", "idle")
    /\ Return(t)
    /\ UNCHANGED <<tasks, alive>>

\* The next range cannot be accessed directly, or the library refuses to map it
\* (its region's reference, if taken for it, is dropped again): every range of
\* this call mapped so far is unmapped, the regions first seen in this call lose
\* their reference, and false is returned.
MapFail(t) ==
    /\ job[t].rest # <<>>
    /\ LET h == job[t].handle
       IN  /\ va' = [va EXCEPT ![h] =
                        SetPages(@, PagesOf(job[t].base, job[t].cur - job[t].base), NoRegion)]
           /\ tasks' = [tasks EXCEPT ![Find(h)].regions = @ \ job[t].fresh]
           /\ refs' = [r \in Region |-> IF r \in job[t].fresh THEN refs[r] - 1 ELSE refs[r]]
    /\ Goto(t, "mapping", "idle")
    /\ Return(t)
    /\ UNCHANGED alive

-----------------------------------------------------------------------------
\* apple_gfx_unmap_memory: no lock, and the regions keep their references until
\* the task is destroyed.
Unmap(t, h, pages) ==
    /\ pc[t] = "idle"
    /\ h \in alive
    /\ va' = [va EXCEPT ![h] = SetPages(@, pages, NoRegion)]
    /\ UNCHANGED <<tasks, refs, alive, pc, job>>

-----------------------------------------------------------------------------
(* apple_gfx_pci_unrealize *)

\* Every entry is unlinked and its references dropped, without the mutex.
\* lagfx_task_destroy is not called: the reservations and what is mapped in them
\* stay with the library.  Assumed: it has no task callback in flight.
Unrealize ==
    /\ \A t \in Thread : pc[t] = "idle"
    /\ tasks' = <<>>
    /\ refs' = [r \in Region |->
                  refs[r] - Cardinality({i \in DOMAIN tasks : r \in tasks[i].regions})]
    /\ UNCHANGED <<alive, va, pc, job>>

ThreadStep(t) ==
    \/ \E h \in Handle : CreateReserve(t, h) \/ DestroyUnlink(t, h)
    \/ CreateInsert(t) \/ DestroyUnref(t) \/ DestroyRelease(t)
    \/ \E h \in Handle, base \in Page, ranges \in RangeLists : MapBegin(t, h, base, ranges)
    \/ MapRange(t) \/ MapSucceed(t) \/ MapFail(t)
    \/ \E h \in Handle, from \in Page, len \in 1..VaSize :
          PagesOf(from, len) \subseteq Page /\ Unmap(t, h, PagesOf(from, len))

Next == Unrealize \/ \E t \in Thread : ThreadStep(t)

Spec == Init /\ [][Next]_vars

-----------------------------------------------------------------------------
(***************************************************************************)
(* Correctness.                                                            *)
(***************************************************************************)

\* Every reference on a region is owned by exactly one task entry that names the
\* region, listed or in the hands of a thread that is destroying it: none leaks
\* and none is dropped twice, whatever fails half way.
RefBalance ==
    \A r \in Region :
        refs[r] = Cardinality({i \in DOMAIN tasks : r \in tasks[i].regions})
                  + Cardinality({t \in Thread : r \in job[t].regions})

\* As long as a task is in the list, every page mapped for it is backed by a
\* region its entry holds a reference on, through concurrent maps, the rollback
\* of failed ones and unlocked unmaps.  It says nothing of a task that is being
\* destroyed or that unrealize has unlinked (MappingsKeepRegionsAlive does).
MappedPagesPinned ==
    \A i \in DOMAIN tasks, p \in Page :
        va[tasks[i].handle][p] \in tasks[i].regions \cup {NoRegion}

\* "We ref the backing MemoryRegion to keep it alive for the mapping's lifetime"
\* (apple-gfx-linux.h:21-22): whatever the library still has mapped, for a task
\* in the list or not, is referenced.  The code drops the references first
\* (GfxPinned.cfg).
MappingsKeepRegionsAlive ==
    \A h \in alive, p \in Page : va[h][p] # NoRegion => refs[va[h][p]] > 0

\* Although destroy works outside the lock, a handle is listed at most once and
\* only while the library still has it, even when the library reuses handles;
\* and a thread that maps works on a task that stays listed until it is done.
ListedHandlesLive ==
    /\ \A i, j \in DOMAIN tasks : tasks[i].handle = tasks[j].handle => i = j
    /\ \A i \in DOMAIN tasks : tasks[i].handle \in alive
    /\ \A t \in Thread : pc[t] = "mapping" => Entries(job[t].handle) # {}

\* A map that fails takes its own pages and references back: a page it had
\* mapped is unmapped, and the task has the references it had.  What an earlier
\* map had put on such a page does not come back (MapIsAllOrNothing).
FailedMapLeavesNothing ==
    [][\A t \in Thread : MapFail(t) =>
          LET h == job[t].handle
          IN  /\ \A p \in Page : va'[h][p] \in {NoRegion, job[t].before.va[p]}
              /\ tasks'[Find(h)].regions = job[t].before.regions]_vars

\* "Roll back everything done in this call so the caller sees an all-or-nothing
\* map" (apple-gfx-common-linux.c:290-291): a page this call had mapped is as it
\* was before the call, unless somebody else has unmapped it meanwhile.  The code
\* leaves it unmapped (GfxRollback.cfg).
MapIsAllOrNothing ==
    [][\A t \in Thread : MapFail(t) =>
          LET h == job[t].handle
          IN  \A p \in PagesOf(job[t].base, job[t].cur - job[t].base) :
                  va[h][p] = NoRegion \/ va'[h][p] = job[t].before.va[p]]_vars
=============================================================================
