------------------------ MODULE AppleGfxTasks_proofs ------------------------
(***************************************************************************)
(* Proofs about AppleGfxTasks for every set of handles, regions and range  *)
(* lists, every size of a task's range and every finite set of threads.    *)
(***************************************************************************)
EXTENDS AppleGfxTasks, FiniteSetTheorems, SequenceTheorems, TLAPS

\* Between the two locked parts of create and of destroy a thread holds a handle.
Holding(t) == pc[t] \in {"created", "unlinked", "released"}

\* A held handle is the library's, is not listed, and is held by one thread: this is
\* what the calls made outside task_mutex rely on.
HeldHandlesUnlisted ==
    \A t \in Thread : Holding(t) =>
        /\ job[t].handle \in alive
        /\ Entries(job[t].handle) = {}
        /\ \A u \in Thread : Holding(u) /\ job[u].handle = job[t].handle => u = t

\* Nothing has been mapped into a range that is reserved but not listed yet.
CreatedRangesEmpty ==
    \A t \in Thread : pc[t] = "created" => \A p \in Page : va[job[t].handle][p] = NoRegion

\* task_mutex is held by one map_memory at a time.
OneMapper == \A t, u \in Thread : pc[t] = "mapping" /\ pc[u] = "mapping" => t = u

\* Only an unlinked entry has its references in the hands of a thread.
JobRegionsOwned == \A t \in Thread : pc[t] # "unlinked" => job[t].regions = {}

\* The entry's regions are those it had before and those first seen in this call, and
\* outside the part of the range mapped so far no page has been mapped.
LogOf(t) ==
    LET j == job[t]
    IN  /\ j.base <= j.cur
        /\ \A i \in Entries(j.handle) :
              j.fresh \subseteq tasks[i].regions /\ j.before.regions = tasks[i].regions \ j.fresh
        /\ \A p \in Page : j.before.va[p] \in j.before.regions \cup {NoRegion}
        /\ \A p \in Page \ (j.base .. j.cur - 1) : va[j.handle][p] \in {NoRegion, j.before.va[p]}

MapsAreLogged == \A t \in Thread : pc[t] = "mapping" => LogOf(t)

IInv ==
    /\ TypeOK
    /\ RefBalance
    /\ MappedPagesPinned
    /\ ListedHandlesLive
    /\ HeldHandlesUnlisted
    /\ CreatedRangesEmpty
    /\ OneMapper
    /\ JobRegionsOwned
    /\ MapsAreLogged

-----------------------------------------------------------------------------
(* The list of tasks, and the references counted over it. *)

LEMMA NoJobTyped ==
    /\ Unmapped \in [Page -> Region \cup {NoRegion}]
    /\ NoJob \in Job /\ NoJob.regions = {}
<1>1. AnyHandle \in Handle
  BY HandleAssumption DEF AnyHandle
<1>2. Unmapped \in [Page -> Region \cup {NoRegion}]
  BY DEF Unmapped
<1>3. <<>> \in Seq(PhysicalRange)
  OBVIOUS
<1>. QED  BY <1>1, <1>2, <1>3 DEF NoJob, Job

\* A handle that is listed is listed once, so that the entry found first is the entry.
LEMMA UniqueEntry ==
    ASSUME TypeOK, ListedHandlesLive, NEW h, Entries(h) # {}
    PROVE  Entries(h) = {Find(h)} /\ Find(h) \in DOMAIN tasks /\ tasks[Find(h)].handle = h
<1>1. PICK i \in DOMAIN tasks : tasks[i].handle = h
  BY DEF Entries
<1>2. Entries(h) = {i}
  BY <1>1 DEF Entries, ListedHandlesLive
<1>3. i <= i
  BY DEF TypeOK
<1>4. Find(h) = i
  BY <1>2, <1>3 DEF Find
<1>. QED  BY <1>1, <1>2, <1>4

\* The list without its k-th entry: the entries behind it move up.
LEMMA RemoveAtResult ==
    ASSUME NEW S, NEW s \in Seq(S), NEW k \in 1 .. Len(s)
    PROVE  /\ RemoveAt(s, k) \in Seq(S)
           /\ Len(RemoveAt(s, k)) = Len(s) - 1
           /\ \A i \in 1 .. Len(s) - 1 : RemoveAt(s, k)[i] = s[IF i < k THEN i ELSE i + 1]
<1>. DEFINE n == Len(s)
            a == SubSeq(s, 1, k - 1)
            b == SubSeq(s, k + 1, n)
<1>1. n \in Nat /\ k \in 1 .. n /\ \A i \in 1 .. n : s[i] \in S
  OBVIOUS
<1>2. /\ a \in Seq(S) /\ Len(a) = k - 1
      /\ \A i \in 1 .. k - 1 : a[i] = s[i]
  <2>1. \A i \in 1 .. k - 1 : s[i] \in S
    BY <1>1
  <2>2. /\ a \in Seq(S) /\ Len(a) = IF 1 <= k - 1 THEN k - 1 - 1 + 1 ELSE 0
        /\ \A i \in 1 .. k - 1 - 1 + 1 : a[i] = s[1 + i - 1]
    BY <1>1, <2>1, SubSeqProperties
  <2>. QED  BY <1>1, <2>2
<1>3. /\ b \in Seq(S) /\ Len(b) = n - k
      /\ \A i \in 1 .. n - k : b[i] = s[k + i]
  <2>1. \A i \in k + 1 .. n : s[i] \in S
    BY <1>1
  <2>2. /\ b \in Seq(S) /\ Len(b) = IF k + 1 <= n THEN n - (k + 1) + 1 ELSE 0
        /\ \A i \in 1 .. n - (k + 1) + 1 : b[i] = s[k + 1 + i - 1]
    BY <1>1, <2>1, SubSeqProperties
  <2>. QED  BY <1>1, <2>2
<1>. HIDE DEF n, a, b
<1>4. /\ a \o b \in Seq(S) /\ Len(a \o b) = n - 1
      /\ \A i \in 1 .. n - 1 : (a \o b)[i] = IF i <= k - 1 THEN a[i] ELSE b[i - (k - 1)]
  <2>1. /\ a \o b \in Seq(S) /\ Len(a \o b) = (k - 1) + (n - k)
        /\ \A i \in 1 .. (k - 1) + (n - k) :
              (a \o b)[i] = IF i <= k - 1 THEN a[i] ELSE b[i - (k - 1)]
    <3>1. /\ a \o b \in Seq(S) /\ Len(a \o b) = Len(a) + Len(b)
          /\ \A i \in 1 .. Len(a) + Len(b) : (a \o b)[i] = IF i <= Len(a) THEN a[i] ELSE b[i - Len(a)]
      BY <1>2, <1>3, ConcatProperties
    <3>. QED  BY <1>2, <1>3, <3>1, Zenon
  <2>2. (k - 1) + (n - k) = n - 1
    BY <1>1
  <2>. QED  BY <2>1, <2>2, Zenon
<1>5. \A i \in 1 .. n - 1 : (a \o b)[i] = s[IF i < k THEN i ELSE i + 1]
  <2>1. ASSUME NEW i \in 1 .. n - 1, i < k PROVE (a \o b)[i] = s[i]
    BY <1>1, <1>2, <1>4, <2>1
  <2>2. ASSUME NEW i \in 1 .. n - 1, ~(i < k) PROVE (a \o b)[i] = s[i + 1]
    <3>1. i - (k - 1) \in 1 .. n - k /\ ~(i <= k - 1) /\ k + (i - (k - 1)) = i + 1
      BY <1>1, <2>2
    <3>. QED  BY <1>1, <1>3, <1>4, <3>1
  <2>. QED  BY <2>1, <2>2
<1>. QED  BY <1>4, <1>5 DEF RemoveAt, n, a, b

\* A count over the list, without its k-th place.
LEMMA CountWithout ==
    ASSUME NEW n \in Nat, NEW k \in 1 .. n, NEW A \in SUBSET (1 .. n), NEW B \in SUBSET (1 .. n - 1),
           \A i \in 1 .. n - 1 : i \in B <=> (IF i < k THEN i ELSE i + 1) \in A
    PROVE  Cardinality(A) = Cardinality(B) + (IF k \in A THEN 1 ELSE 0)
<1>. DEFINE f == [i \in B |-> IF i < k THEN i ELSE i + 1]
<1>1. IsFiniteSet(A) /\ IsFiniteSet(B) /\ IsFiniteSet(A \ {k})
  <2>1. IsFiniteSet(1 .. n) /\ IsFiniteSet(1 .. n - 1)
    BY FS_Interval
  <2>. QED  BY <2>1, FS_Subset
<1>2. f \in [B -> A \ {k}]
  OBVIOUS
<1>3. \A i, j \in B : f[i] = f[j] => i = j
  OBVIOUS
<1>4. ASSUME NEW j \in A \ {k} PROVE \E i \in B : f[i] = j
  <2>1. CASE j < k
    <3>1. j \in 1 .. n - 1
      BY <2>1
    <3>. QED  BY <2>1, <3>1
  <2>2. CASE ~(j < k)
    <3>1. j - 1 \in 1 .. n - 1 /\ ~(j - 1 < k) /\ j - 1 + 1 = j
      BY <2>2
    <3>2. j - 1 \in B
      BY <3>1
    <3>. QED  BY <3>1, <3>2
  <2>. QED  BY <2>1, <2>2
<1>. HIDE DEF f
<1>5. f \in Bijection(B, A \ {k})
  BY <1>2, <1>3, <1>4 DEF Bijection, Injection, Surjection, IsInjective
<1>6. Cardinality(A \ {k}) = Cardinality(B)
  BY <1>1, <1>5, FS_Bijection DEF ExistsBijection
<1>7. Cardinality(A \ {k}) = IF k \in A THEN Cardinality(A) - 1 ELSE Cardinality(A)
  BY <1>1, FS_RemoveElement
<1>8. Cardinality(A) \in Nat
  BY <1>1, FS_CardinalityType
<1>. QED  BY <1>6, <1>7, <1>8

\* The owners of a region's references.
Owners(r) == {i \in DOMAIN tasks : r \in tasks[i].regions}
Holders(r) == {t \in Thread : r \in job[t].regions}

CountsFinite ==
    \A r \in Region : /\ IsFiniteSet(Owners(r)) /\ Cardinality(Owners(r)) \in Nat
                      /\ IsFiniteSet(Holders(r)) /\ Cardinality(Holders(r)) \in Nat

LEMMA OwnersFinite == TypeOK => CountsFinite
<1> SUFFICES ASSUME TypeOK, NEW r \in Region
             PROVE  /\ IsFiniteSet(Owners(r)) /\ Cardinality(Owners(r)) \in Nat
                    /\ IsFiniteSet(Holders(r)) /\ Cardinality(Holders(r)) \in Nat
  BY DEF CountsFinite
<1>1. DOMAIN tasks = 1 .. Len(tasks) /\ Len(tasks) \in Nat
  BY DEF TypeOK
<1>2. IsFiniteSet(1 .. Len(tasks))
  BY <1>1, FS_Interval
<1>3. IsFiniteSet(Owners(r)) /\ IsFiniteSet(Holders(r))
  BY <1>1, <1>2, FS_Subset, ThreadAssumption DEF Owners, Holders
<1>. QED  BY <1>3, FS_CardinalityType

\* RefBalance in these terms; it also makes every count a natural number.
LEMMA Balance == RefBalance <=> \A r \in Region : refs[r] = Cardinality(Owners(r)) + Cardinality(Holders(r))
BY DEF RefBalance, Owners, Holders

-----------------------------------------------------------------------------
(* The invariant is kept by every action. *)

LEMMA InitIInv == Init => IInv
<1> SUFFICES ASSUME Init PROVE IInv
  OBVIOUS
<1>1. TypeOK
  BY NoJobTyped DEF Init, TypeOK
<1>2. \A t \in Thread : pc[t] = "idle" /\ job[t].regions = {}
  BY NoJobTyped DEF Init
<1>3. DOMAIN tasks = {}
  BY DEF Init
<1>4. \A r \in Region : Owners(r) = {} /\ Holders(r) = {} /\ refs[r] = 0
  BY <1>2, <1>3 DEF Owners, Holders, Init
<1>5. Cardinality({}) = 0
  BY FS_EmptySet
<1>6. RefBalance
  BY <1>4, <1>5, Balance
<1>. QED  BY <1>1, <1>2, <1>3, <1>6 DEF IInv, MappedPagesPinned, ListedHandlesLive,
                 HeldHandlesUnlisted, Holding, CreatedRangesEmpty, OneMapper, JobRegionsOwned,
                 MapsAreLogged

\* What a call in another thread knows is untouched by a step that leaves its locals,
\* its handle's entry and its handle's range alone.
LEMMA LogKept ==
    ASSUME NEW u \in Thread, LogOf(u), job'[u] = job[u],
           NEW h, h = job[u].handle, Entries(h)' = Entries(h),
           \A i \in Entries(h) : tasks'[i].regions = tasks[i].regions,
           va'[h] = va[h]
    PROVE  LogOf(u)'
BY DEF LogOf, Page, Entries

LEMMA CreateReserveStep ==
    ASSUME IInv, NEW t \in Thread, NEW h \in Handle, CreateReserve(t, h)
    PROVE  IInv'
<1>. DEFINE x == [NoJob EXCEPT !.handle = h]
<1>1. TypeOK /\ ListedHandlesLive /\ RefBalance /\ HeldHandlesUnlisted
  BY DEF IInv
<1>2. x \in Job /\ x.handle = h /\ x.regions = {}
  BY NoJobTyped DEF Job
<1>. HIDE DEF x
<1>3. /\ h \notin alive /\ alive' = alive \cup {h} /\ va' = [va EXCEPT ![h] = Unmapped]
      /\ pc[t] = "idle" /\ pc' = [pc EXCEPT ![t] = "created"]
      /\ job' = [job EXCEPT ![t] = x] /\ UNCHANGED <<tasks, refs>>
  BY DEF CreateReserve, Goto, x
<1>4. /\ pc'[t] = "created" /\ \A u \in Thread \ {t} : pc'[u] = pc[u]
      /\ job'[t] = x /\ \A u \in Thread \ {t} : job'[u] = job[u]
      /\ \A g \in Handle \ {h} : va'[g] = va[g]
  BY <1>1, <1>3 DEF TypeOK
<1>5. TypeOK'
  BY <1>1, <1>2, <1>3, NoJobTyped DEF TypeOK
<1>6. \A i \in DOMAIN tasks : tasks[i].handle \in Handle \ {h} /\ tasks[i].handle \in alive
  BY <1>1, <1>3 DEF ListedHandlesLive, TypeOK
<1>7. \A g : Entries(g)' = Entries(g)
  BY <1>3 DEF Entries
<1>8. job[t].regions = {}
  BY <1>3 DEF IInv, JobRegionsOwned
<1>9. RefBalance'
  <2>1. \A r \in Region : Owners(r)' = Owners(r) /\ Holders(r)' = Holders(r)
    BY <1>2, <1>3, <1>4, <1>8 DEF Owners, Holders
  <2>. QED  BY <1>1, <1>3, <2>1, Balance DEF RefBalance, Owners, Holders
<1>10. MappedPagesPinned'
  BY <1>3, <1>4, <1>6 DEF IInv, MappedPagesPinned, Page
<1>11. ListedHandlesLive'
  BY <1>1, <1>3, <1>4, <1>7 DEF ListedHandlesLive
<1>12. HeldHandlesUnlisted'
  <2>1. Entries(h) = {}
    BY <1>6 DEF Entries
  <2>2. ASSUME NEW u \in Thread \ {t}, Holding(u)'
        PROVE  job[u].handle \in alive /\ Entries(job[u].handle) = {} /\ job[u].handle # h
    BY <1>1, <1>3, <1>4, <2>2 DEF HeldHandlesUnlisted, Holding
  <2>. QED  BY <1>1, <1>2, <1>3, <1>4, <1>7, <2>1, <2>2 DEF HeldHandlesUnlisted, Holding
<1>13. OneMapper' /\ JobRegionsOwned'
  BY <1>2, <1>4 DEF IInv, OneMapper, JobRegionsOwned
<1>14. CreatedRangesEmpty'
  <2>1. \A p \in Page : va'[h][p] = NoRegion
    BY <1>1, <1>3 DEF TypeOK, Unmapped
  <2>2. \A u \in Thread \ {t} : pc[u] = "created" => job[u].handle \in Handle \ {h}
    BY <1>1, <1>3 DEF HeldHandlesUnlisted, Holding, TypeOK, Job
  <2>. QED  BY <1>2, <1>4, <2>1, <2>2 DEF IInv, CreatedRangesEmpty, Page
<1>15. MapsAreLogged'
  <2>1. SUFFICES ASSUME NEW u \in Thread, pc'[u] = "mapping" PROVE LogOf(u)'
    BY DEF MapsAreLogged
  <2>2. u # t /\ pc[u] = "mapping" /\ job'[u] = job[u]
    BY <1>4, <2>1
  <2>3. LogOf(u) /\ Entries(job[u].handle) # {}
    BY <1>1, <2>2 DEF IInv, MapsAreLogged, ListedHandlesLive
  <2>4. job[u].handle \in Handle \ {h}
    BY <1>6, <2>3 DEF Entries
  <2>. QED  BY <1>3, <1>4, <1>7, <2>2, <2>3, <2>4, LogKept
<1>. QED  BY <1>5, <1>9, <1>10, <1>11, <1>12, <1>13, <1>14, <1>15 DEF IInv

LEMMA CreateInsertStep ==
    ASSUME IInv, NEW t \in Thread, CreateInsert(t)
    PROVE  IInv'
<1>. DEFINE h == job[t].handle
            e == [handle |-> h, regions |-> {}]
            n == Len(tasks)
<1>1. TypeOK /\ ListedHandlesLive /\ RefBalance /\ HeldHandlesUnlisted
  BY DEF IInv
<1>2. /\ MutexFree /\ tasks' = Append(tasks, e)
      /\ pc[t] = "created" /\ pc' = [pc EXCEPT ![t] = "idle"]
      /\ job' = [job EXCEPT ![t] = NoJob] /\ UNCHANGED <<refs, alive, va>>
  BY DEF CreateInsert, Goto, Return
<1>3. /\ pc'[t] = "idle" /\ \A u \in Thread \ {t} : pc'[u] = pc[u]
      /\ job'[t] = NoJob /\ \A u \in Thread \ {t} : job'[u] = job[u]
  BY <1>1, <1>2 DEF TypeOK
<1>4. e \in Entry /\ h \in Handle /\ e.handle = h /\ e.regions = {}
  BY <1>1 DEF TypeOK, Entry, Job
<1>5. TypeOK'
  BY <1>1, <1>2, <1>4, NoJobTyped DEF TypeOK
<1>6. h \in alive /\ Entries(h) = {} /\ \A u \in Thread \ {t} : Holding(u) => job[u].handle # h
  BY <1>1, <1>2 DEF HeldHandlesUnlisted, Holding
<1>7. /\ n \in Nat /\ DOMAIN tasks = 1 .. n /\ DOMAIN tasks' = 1 .. n + 1
      /\ tasks'[n + 1] = e /\ \A i \in 1 .. n : tasks'[i] = tasks[i]
  BY <1>1, <1>2, <1>4 DEF TypeOK
<1>. HIDE DEF n, e
<1>8. \A i \in 1 .. n : tasks[i].handle # h
  BY <1>6, <1>7 DEF Entries
<1>9. job[t].regions = {}
  BY <1>2 DEF IInv, JobRegionsOwned
<1>10. RefBalance'
  <2>1. \A r \in Region : Owners(r)' = Owners(r) /\ Holders(r)' = Holders(r)
    BY <1>3, <1>4, <1>7, <1>9, NoJobTyped DEF Owners, Holders
  <2>. QED  BY <1>1, <1>2, <2>1, Balance DEF RefBalance, Owners, Holders
<1>11. \A u \in Thread : pc'[u] # "mapping"
  BY <1>2, <1>3 DEF MutexFree
<1>12. MappedPagesPinned'
  <2>1. SUFFICES ASSUME NEW i \in 1 .. n + 1, NEW p \in Page
                 PROVE  va[tasks'[i].handle][p] \in tasks'[i].regions \cup {NoRegion}
    BY <1>2, <1>7 DEF MappedPagesPinned, Page
  <2>2. CASE i \in 1 .. n
    BY <1>7, <2>2 DEF IInv, MappedPagesPinned
  <2>3. CASE i = n + 1
    BY <1>2, <1>4, <1>7, <2>3 DEF IInv, CreatedRangesEmpty
  <2>. QED  BY <1>7, <2>2, <2>3
<1>13. ListedHandlesLive'
  <2>1. ASSUME NEW i \in 1 .. n + 1, NEW j \in 1 .. n + 1, tasks'[i].handle = tasks'[j].handle
        PROVE  i = j
    <3>1. \A k \in 1 .. n + 1 : k # n + 1 => k \in 1 .. n
      BY <1>7
    <3>2. CASE i \in 1 .. n /\ j \in 1 .. n
      <4>1. tasks[i].handle = tasks[j].handle
        BY <1>7, <2>1, <3>2
      <4>. QED  BY <1>1, <1>7, <3>2, <4>1 DEF ListedHandlesLive
    <3>3. CASE i = n + 1 /\ j \in 1 .. n
      BY <1>4, <1>7, <1>8, <2>1, <3>3
    <3>4. CASE i \in 1 .. n /\ j = n + 1
      BY <1>4, <1>7, <1>8, <2>1, <3>4
    <3>. QED  BY <3>1, <3>2, <3>3, <3>4
  <2>2. \A i \in 1 .. n + 1 : tasks'[i].handle \in alive
    BY <1>1, <1>4, <1>6, <1>7 DEF ListedHandlesLive
  <2>. QED  BY <1>2, <1>7, <1>11, <2>1, <2>2 DEF ListedHandlesLive
<1>14. HeldHandlesUnlisted'
  <2>1. SUFFICES ASSUME NEW u \in Thread, Holding(u)'
                 PROVE  /\ job'[u].handle \in alive'
                        /\ Entries(job[u].handle)' = {}
                        /\ \A v \in Thread : Holding(v)' /\ job'[v].handle = job'[u].handle => v = u
    BY DEF HeldHandlesUnlisted
  <2>2. u # t /\ Holding(u) /\ job'[u] = job[u]
    BY <1>3, <2>1 DEF Holding
  <2>3. job[u].handle \in alive /\ Entries(job[u].handle) = {} /\ job[u].handle # h
    BY <1>1, <1>6, <2>2 DEF HeldHandlesUnlisted
  <2>4. Entries(job[u].handle)' = {}
    BY <1>4, <1>7, <2>2, <2>3 DEF Entries
  <2>5. \A v \in Thread : Holding(v)' => v # t /\ Holding(v)
    BY <1>3 DEF Holding
  <2>. QED  BY <1>1, <1>2, <1>3, <2>2, <2>3, <2>4, <2>5 DEF HeldHandlesUnlisted
<1>15. CreatedRangesEmpty' /\ OneMapper' /\ JobRegionsOwned' /\ MapsAreLogged'
  BY <1>2, <1>3, <1>11, NoJobTyped
     DEF IInv, CreatedRangesEmpty, OneMapper, JobRegionsOwned, MapsAreLogged, Page
<1>. QED  BY <1>5, <1>10, <1>12, <1>13, <1>14, <1>15 DEF IInv

LEMMA DestroyUnlinkStep ==
    ASSUME IInv, NEW t \in Thread, NEW h \in Handle, DestroyUnlink(t, h)
    PROVE  IInv'
<1>. DEFINE k == Find(h)
            n == Len(tasks)
            x == [NoJob EXCEPT !.handle = h, !.regions = tasks[k].regions]
            From(i) == IF i < k THEN i ELSE i + 1
<1>1. TypeOK /\ ListedHandlesLive /\ RefBalance /\ HeldHandlesUnlisted
  BY DEF IInv
<1>2. /\ MutexFree /\ Entries(h) # {} /\ tasks' = RemoveAt(tasks, k)
      /\ pc[t] = "idle" /\ pc' = [pc EXCEPT ![t] = "unlinked"]
      /\ job' = [job EXCEPT ![t] = x] /\ UNCHANGED <<refs, alive, va>>
  BY DEF DestroyUnlink, Goto
<1>3. n \in Nat /\ DOMAIN tasks = 1 .. n /\ tasks \in Seq(Entry)
  BY <1>1 DEF TypeOK
<1>4. Entries(h) = {k} /\ k \in 1 .. n /\ tasks[k].handle = h
  BY <1>1, <1>2, <1>3, UniqueEntry
<1>5. tasks[k].regions \in SUBSET Region
  <2>1. tasks[k] \in Entry
    BY <1>3, <1>4, ElementOfSeq
  <2>. QED  BY <2>1 DEF Entry
<1>6. x \in Job /\ x.handle = h /\ x.regions = tasks[k].regions
  BY <1>5, NoJobTyped DEF Job
<1>7. /\ tasks' \in Seq(Entry) /\ DOMAIN tasks' = 1 .. n - 1
      /\ \A i \in 1 .. n - 1 : tasks'[i] = tasks[From(i)]
  <2>1. /\ tasks' \in Seq(Entry) /\ Len(tasks') = n - 1
        /\ \A i \in 1 .. n - 1 : tasks'[i] = tasks[From(i)]
    BY <1>2, <1>3, <1>4, RemoveAtResult, Zenon
  <2>. QED  BY <2>1
<1>8. \A i \in 1 .. n - 1 : From(i) \in 1 .. n /\ From(i) # k
  BY <1>3, <1>4
<1>9. \A i, j \in 1 .. n - 1 : From(i) = From(j) => i = j
  BY <1>3, <1>4
<1>10. \A i \in 1 .. n : i # k => \E j \in 1 .. n - 1 : From(j) = i
  <2>1. ASSUME NEW i \in 1 .. n, i # k PROVE \E j \in 1 .. n - 1 : From(j) = i
    <3>1. CASE i < k
      BY <1>3, <1>4, <3>1
    <3>2. CASE i > k
      <4>1. i - 1 \in 1 .. n - 1 /\ From(i - 1) = i
        BY <1>3, <1>4, <3>2
      <4>. QED  BY <4>1
    <3>. QED  BY <1>3, <1>4, <2>1, <3>1, <3>2
  <2>. QED  BY <2>1
<1>11. /\ pc'[t] = "unlinked" /\ \A u \in Thread \ {t} : pc'[u] = pc[u]
       /\ job'[t] = x /\ \A u \in Thread \ {t} : job'[u] = job[u]
  BY <1>1, <1>2 DEF TypeOK
<1>12. job[t].regions = {}
  BY <1>2 DEF IInv, JobRegionsOwned
<1>13. TypeOK'
  BY <1>1, <1>2, <1>6, <1>7 DEF TypeOK
<1>14. ASSUME NEW r \in Region
       PROVE  refs'[r] = Cardinality(Owners(r))' + Cardinality(Holders(r))'
  <2>1. Owners(r) \in SUBSET (1 .. n) /\ Owners(r)' \in SUBSET (1 .. n - 1)
    BY <1>3, <1>7 DEF Owners
  <2>2. \A i \in 1 .. n - 1 : i \in Owners(r)' <=> From(i) \in Owners(r)
    BY <1>3, <1>7, <1>8 DEF Owners
  <2>3. Cardinality(Owners(r)) = Cardinality(Owners(r)') + (IF k \in Owners(r) THEN 1 ELSE 0)
    <3>. DEFINE A == Owners(r)
                B == Owners(r)'
    <3>1. A \in SUBSET (1 .. n) /\ B \in SUBSET (1 .. n - 1)
      BY <2>1
    <3>2. \A i \in 1 .. n - 1 : i \in B <=> (IF i < k THEN i ELSE i + 1) \in A
      BY <2>2
    <3>. HIDE DEF A, B, k, n
    <3>3. Cardinality(A) = Cardinality(B) + (IF k \in A THEN 1 ELSE 0)
      BY <1>3, <1>4, <3>1, <3>2, CountWithout
    <3>. QED  BY <3>3 DEF A, B
  <2>4. Holders(r)' = IF r \in tasks[k].regions THEN Holders(r) \cup {t} ELSE Holders(r)
    BY <1>6, <1>11, <1>12 DEF Holders
  <2>5. t \notin Holders(r) /\ (k \in Owners(r) <=> r \in tasks[k].regions)
    BY <1>3, <1>4, <1>12 DEF Holders, Owners
  <2>6. /\ IsFiniteSet(Holders(r)) /\ Cardinality(Holders(r)) \in Nat
        /\ Cardinality(Owners(r)) \in Nat /\ Cardinality(Owners(r)') \in Nat
    <3>1. CountsFinite'
      BY <1>13, OwnersFinite, PTL
    <3>. QED  BY <1>1, <3>1, OwnersFinite DEF CountsFinite
  <2>7. Cardinality(Holders(r) \cup {t}) = Cardinality(Holders(r)) + 1
    BY <2>5, <2>6, FS_AddElement
  <2>8. refs'[r] = Cardinality(Owners(r)) + Cardinality(Holders(r))
    BY <1>1, <1>2, Balance
  <2>. QED  BY <2>3, <2>4, <2>5, <2>6, <2>7, <2>8
<1>15. RefBalance'
  BY <1>14 DEF RefBalance, Owners, Holders
<1>. HIDE DEF x, k, From
<1>16. MappedPagesPinned'
  BY <1>2, <1>3, <1>7, <1>8 DEF IInv, MappedPagesPinned, Page
<1>17. \A u \in Thread : pc'[u] # "mapping"
  BY <1>2, <1>11 DEF MutexFree
<1>18. ListedHandlesLive'
  <2>1. ASSUME NEW i \in 1 .. n - 1, NEW j \in 1 .. n - 1, tasks'[i].handle = tasks'[j].handle
        PROVE  i = j
    BY <1>1, <1>3, <1>7, <1>8, <1>9, <2>1 DEF ListedHandlesLive
  <2>2. \A i \in 1 .. n - 1 : tasks'[i].handle \in alive
    BY <1>1, <1>3, <1>7, <1>8 DEF ListedHandlesLive
  <2>. QED  BY <1>2, <1>7, <1>17, <2>1, <2>2 DEF ListedHandlesLive
<1>19. \A g : Entries(g) = {} => Entries(g)' = {}
  BY <1>3, <1>7, <1>8 DEF Entries
<1>20. Entries(h)' = {}
  BY <1>3, <1>4, <1>7, <1>8 DEF Entries
<1>21. h \in alive
  BY <1>1, <1>3, <1>4 DEF ListedHandlesLive
<1>22. HeldHandlesUnlisted'
  <2>1. ASSUME NEW u \in Thread \ {t}, Holding(u)'
        PROVE  Holding(u) /\ job[u].handle \in alive /\ Entries(job[u].handle) = {} /\ job[u].handle # h
    BY <1>1, <1>2, <1>11, <2>1 DEF HeldHandlesUnlisted, Holding
  <2>. QED  BY <1>1, <1>2, <1>6, <1>11, <1>19, <1>20, <1>21, <2>1 DEF HeldHandlesUnlisted
<1>23. CreatedRangesEmpty' /\ OneMapper' /\ JobRegionsOwned' /\ MapsAreLogged'
  BY <1>2, <1>11, <1>17
     DEF IInv, CreatedRangesEmpty, OneMapper, JobRegionsOwned, MapsAreLogged, Page
<1>. QED  BY <1>13, <1>15, <1>16, <1>18, <1>22, <1>23 DEF IInv

LEMMA DestroyUnrefStep ==
    ASSUME IInv, NEW t \in Thread, DestroyUnref(t)
    PROVE  IInv'
<1>. DEFINE x == [job[t] EXCEPT !.regions = {}]
<1>1. TypeOK /\ ListedHandlesLive /\ RefBalance /\ HeldHandlesUnlisted
  BY DEF IInv
<1>2. /\ pc[t] = "unlinked" /\ pc' = [pc EXCEPT ![t] = "released"]
      /\ refs' = [r \in Region |-> IF r \in job[t].regions THEN refs[r] - 1 ELSE refs[r]]
      /\ job' = [job EXCEPT ![t] = x] /\ UNCHANGED <<tasks, alive, va>>
  BY DEF DestroyUnref, Goto
<1>3. x \in Job /\ x.handle = job[t].handle /\ x.regions = {}
  BY <1>1 DEF TypeOK, Job
<1>. HIDE DEF x
<1>4. /\ pc'[t] = "released" /\ \A u \in Thread \ {t} : pc'[u] = pc[u]
      /\ job'[t] = x /\ \A u \in Thread \ {t} : job'[u] = job[u]
  BY <1>1, <1>2 DEF TypeOK
<1>5. ASSUME NEW r \in Region
      PROVE  refs'[r] \in Nat /\ refs'[r] = Cardinality(Owners(r)') + Cardinality(Holders(r)')
  <2>1. Owners(r)' = Owners(r)
    BY <1>2 DEF Owners
  <2>2. Holders(r)' = Holders(r) \ {t}
    BY <1>3, <1>4 DEF Holders
  <2>3. /\ IsFiniteSet(Holders(r)) /\ Cardinality(Holders(r)) \in Nat /\ Cardinality(Owners(r)) \in Nat
    BY <1>1, OwnersFinite DEF CountsFinite
  <2>4. refs[r] = Cardinality(Owners(r)) + Cardinality(Holders(r))
    BY <1>1, Balance
  <2>5. t \in Holders(r) <=> r \in job[t].regions
    BY DEF Holders
  <2>6. /\ IsFiniteSet(Holders(r) \ {t})
        /\ Cardinality(Holders(r) \ {t}) = Cardinality(Holders(r)) - (IF t \in Holders(r) THEN 1 ELSE 0)
    BY <2>3, FS_RemoveElement
  <2>7. Cardinality(Holders(r) \ {t}) \in Nat
    BY <2>6, FS_CardinalityType
  <2>. QED  BY <1>2, <2>1, <2>2, <2>3, <2>4, <2>5, <2>6, <2>7
<1>6. TypeOK'
  BY <1>1, <1>2, <1>3, <1>5 DEF TypeOK
<1>7. RefBalance'
  BY <1>5 DEF RefBalance, Owners, Holders
<1>8. \A g : Entries(g)' = Entries(g)
  BY <1>2 DEF Entries
<1>9. MappedPagesPinned' /\ ListedHandlesLive' /\ OneMapper'
  BY <1>2, <1>4, <1>8 DEF IInv, MappedPagesPinned, ListedHandlesLive, OneMapper, Page
<1>10. HeldHandlesUnlisted' /\ CreatedRangesEmpty' /\ JobRegionsOwned'
  <2>1. \A u \in Thread : job'[u].handle = job[u].handle /\ (Holding(u)' <=> Holding(u))
    BY <1>2, <1>3, <1>4 DEF Holding
  <2>2. HeldHandlesUnlisted'
    BY <1>1, <1>2, <1>8, <2>1 DEF HeldHandlesUnlisted
  <2>. QED  BY <1>2, <1>3, <1>4, <2>2 DEF IInv, CreatedRangesEmpty, JobRegionsOwned, Page
<1>11. MapsAreLogged'
  BY <1>2, <1>4, <1>8, LogKept DEF IInv, MapsAreLogged
<1>. QED  BY <1>6, <1>7, <1>9, <1>10, <1>11 DEF IInv

LEMMA DestroyReleaseStep ==
    ASSUME IInv, NEW t \in Thread, DestroyRelease(t)
    PROVE  IInv'
<1>. DEFINE h == job[t].handle
<1>1. TypeOK /\ ListedHandlesLive /\ RefBalance /\ HeldHandlesUnlisted
  BY DEF IInv
<1>2. /\ pc[t] = "released" /\ pc' = [pc EXCEPT ![t] = "idle"] /\ alive' = alive \ {h}
      /\ job' = [job EXCEPT ![t] = NoJob] /\ UNCHANGED <<tasks, refs, va>>
  BY DEF DestroyRelease, Goto, Return
<1>3. /\ pc'[t] = "idle" /\ \A u \in Thread \ {t} : pc'[u] = pc[u]
      /\ job'[t] = NoJob /\ \A u \in Thread \ {t} : job'[u] = job[u]
  BY <1>1, <1>2 DEF TypeOK
<1>4. job[t].regions = {}
  BY <1>2 DEF IInv, JobRegionsOwned
<1>5. TypeOK'
  BY <1>1, <1>2, NoJobTyped DEF TypeOK
<1>6. RefBalance'
  <2>1. \A r \in Region : Owners(r)' = Owners(r) /\ Holders(r)' = Holders(r)
    BY <1>2, <1>3, <1>4, NoJobTyped DEF Owners, Holders
  <2>. QED  BY <1>1, <1>2, <2>1, Balance DEF RefBalance, Owners, Holders
<1>7. \A g : Entries(g)' = Entries(g)
  BY <1>2 DEF Entries
<1>8. Entries(h) = {} /\ \A u \in Thread \ {t} : Holding(u) => job[u].handle # h
  BY <1>1, <1>2 DEF HeldHandlesUnlisted, Holding
<1>9. \A i \in DOMAIN tasks : tasks[i].handle # h
  BY <1>8 DEF Entries
<1>10. MappedPagesPinned' /\ OneMapper'
  BY <1>2, <1>3 DEF IInv, MappedPagesPinned, OneMapper, Page
<1>11. ListedHandlesLive'
  BY <1>1, <1>2, <1>3, <1>7, <1>9 DEF ListedHandlesLive
<1>12. HeldHandlesUnlisted'
  <2>1. \A u \in Thread : Holding(u)' => u # t /\ Holding(u)
    BY <1>3 DEF Holding
  <2>. QED  BY <1>1, <1>2, <1>3, <1>7, <1>8, <2>1 DEF HeldHandlesUnlisted
<1>13. CreatedRangesEmpty' /\ JobRegionsOwned'
  BY <1>2, <1>3, NoJobTyped DEF IInv, CreatedRangesEmpty, JobRegionsOwned, Page
<1>14. MapsAreLogged'
  BY <1>2, <1>3, <1>7, LogKept DEF IInv, MapsAreLogged
<1>. QED  BY <1>5, <1>6, <1>10, <1>11, <1>12, <1>13, <1>14 DEF IInv

LEMMA MapBeginStep ==
    ASSUME IInv, NEW t \in Thread, NEW h \in Handle, NEW base \in Page, NEW ranges \in RangeLists,
           MapBegin(t, h, base, ranges)
    PROVE  IInv'
<1>. DEFINE k == Find(h)
            x == MapBeginJob(h, base, ranges)
<1>1. TypeOK /\ ListedHandlesLive /\ RefBalance
  BY DEF IInv
<1>2. /\ MutexFree /\ Entries(h) # {}
      /\ pc[t] = "idle" /\ pc' = [pc EXCEPT ![t] = "mapping"]
      /\ job' = [job EXCEPT ![t] = x] /\ UNCHANGED <<tasks, refs, alive, va>>
  BY DEF MapBegin, Goto
<1>3. Entries(h) = {k} /\ k \in DOMAIN tasks /\ tasks[k].handle = h
  BY <1>1, <1>2, UniqueEntry
<1>4. tasks[k].regions \in SUBSET Region
  <2>1. tasks \in Seq(Entry) /\ DOMAIN tasks = 1 .. Len(tasks)
    BY <1>1 DEF TypeOK
  <2>2. tasks[k] \in Entry
    BY <1>3, <2>1, ElementOfSeq
  <2>. QED  BY <2>2 DEF Entry
<1>5. va[h] \in [Page -> Region \cup {NoRegion}] /\ base \in Nat /\ ranges \in Seq(PhysicalRange)
  BY <1>1, RangeListsAssumption DEF TypeOK, Page
<1>. HIDE DEF k
<1>6. /\ x \in Job /\ x.handle = h /\ x.regions = {} /\ x.base = base /\ x.cur = base
      /\ x.fresh = {} /\ x.before = [va |-> va[h], regions |-> tasks[k].regions]
  BY <1>4, <1>5, NoJobTyped DEF MapBeginJob, NoJob, Job, k
<1>. HIDE DEF x
<1>7. /\ pc'[t] = "mapping" /\ \A u \in Thread \ {t} : pc'[u] = pc[u] /\ pc[u] # "mapping"
      /\ job'[t] = x /\ \A u \in Thread \ {t} : job'[u] = job[u]
  BY <1>1, <1>2 DEF TypeOK, MutexFree
<1>8. job[t].regions = {}
  BY <1>2 DEF IInv, JobRegionsOwned
<1>9. TypeOK'
  BY <1>1, <1>2, <1>6 DEF TypeOK
<1>10. RefBalance'
  <2>1. \A r \in Region : Owners(r)' = Owners(r) /\ Holders(r)' = Holders(r)
    BY <1>2, <1>6, <1>7, <1>8 DEF Owners, Holders
  <2>. QED  BY <1>1, <1>2, <2>1, Balance DEF RefBalance, Owners, Holders
<1>11. \A g : Entries(g)' = Entries(g)
  BY <1>2 DEF Entries
<1>12. MappedPagesPinned' /\ ListedHandlesLive' /\ OneMapper'
  <2>1. MappedPagesPinned'
    BY <1>2 DEF IInv, MappedPagesPinned, Page
  <2>2. ListedHandlesLive'
    <3>1. \A u \in Thread : pc'[u] = "mapping" => Entries(job'[u].handle) # {}
      BY <1>2, <1>6, <1>7
    <3>. QED  BY <1>1, <1>2, <1>11, <3>1 DEF ListedHandlesLive
  <2>3. OneMapper'
    BY <1>7 DEF OneMapper
  <2>. QED  BY <2>1, <2>2, <2>3
<1>13. HeldHandlesUnlisted' /\ CreatedRangesEmpty' /\ JobRegionsOwned'
  <2>1. \A u \in Thread : Holding(u)' => u # t /\ Holding(u)
    BY <1>7 DEF Holding
  <2>2. HeldHandlesUnlisted'
    BY <1>2, <1>7, <1>11, <2>1 DEF IInv, HeldHandlesUnlisted
  <2>. QED  BY <1>2, <1>6, <1>7, <2>2 DEF IInv, CreatedRangesEmpty, JobRegionsOwned, Page
<1>14. MapsAreLogged'
  <2>1. Entries(h)' = {k}
    BY <1>3, <1>11
  <2>2. \A p \in Page : va[h][p] \in tasks[k].regions \cup {NoRegion}
    BY <1>3 DEF IInv, MappedPagesPinned
  <2>3. base <= base
    BY <1>5
  <2>4. LogOf(t)'
    BY <1>2, <1>6, <1>7, <2>1, <2>2, <2>3 DEF LogOf, Page, Entries
  <2>. QED  BY <1>7, <2>4 DEF MapsAreLogged
<1>. QED  BY <1>9, <1>10, <1>12, <1>13, <1>14 DEF IInv

\* Mapping or unmapping pages of a range.
LEMMA SetPagesResult ==
    ASSUME NEW row \in [Page -> Region \cup {NoRegion}], NEW pages, NEW r \in Region \cup {NoRegion}
    PROVE  /\ SetPages(row, pages, r) \in [Page -> Region \cup {NoRegion}]
           /\ \A p \in Page : SetPages(row, pages, r)[p] = IF p \in pages THEN r ELSE row[p]
BY DEF SetPages

LEMMA MapRangeStep ==
    ASSUME IInv, NEW t \in Thread, MapRange(t)
    PROVE  IInv'
<1>. DEFINE h == job[t].handle
            k == Find(h)
            n == Len(tasks)
            range == Head(job[t].rest)
            q == range.region
            new == q \notin tasks[k].regions
            pages == PagesOf(job[t].cur, range.length)
            e == [tasks[k] EXCEPT !.regions = @ \cup {q}]
            x == [job[t] EXCEPT !.cur = @ + range.length, !.rest = Tail(@),
                                !.fresh = IF new THEN @ \cup {q} ELSE @]
<1>1. TypeOK /\ ListedHandlesLive /\ RefBalance /\ OneMapper
  BY DEF IInv
<1>2. /\ pc[t] = "mapping" /\ job[t].rest # <<>> /\ q # NoRegion /\ pages \subseteq Page
      /\ tasks' = [tasks EXCEPT ![k] = e]
      /\ refs' = IF new THEN [refs EXCEPT ![q] = @ + 1] ELSE refs
      /\ va' = [va EXCEPT ![h] = SetPages(@, pages, q)]
      /\ job' = [job EXCEPT ![t] = x]
      /\ UNCHANGED <<alive, pc>>
  BY DEF MapRange
<1>3. job[t] \in Job /\ h \in Handle
  BY <1>1 DEF TypeOK, Job
<1>4. range \in PhysicalRange /\ Tail(job[t].rest) \in Seq(PhysicalRange)
  BY <1>2, <1>3, HeadTailProperties DEF Job
<1>5. q \in Region /\ range.length \in Nat \ {0}
  BY <1>2, <1>4 DEF PhysicalRange
<1>6. Entries(h) = {k} /\ k \in DOMAIN tasks /\ tasks[k].handle = h
  BY <1>1, <1>2, UniqueEntry DEF ListedHandlesLive
<1>7. n \in Nat /\ DOMAIN tasks = 1 .. n /\ tasks \in Seq(Entry) /\ tasks[k] \in Entry
  BY <1>1, <1>6, ElementOfSeq DEF TypeOK
<1>8. e \in Entry /\ e.handle = h /\ e.regions = tasks[k].regions \cup {q}
  BY <1>5, <1>6, <1>7 DEF Entry
<1>9. /\ x \in Job /\ x.handle = h /\ x.regions = job[t].regions
      /\ x.base = job[t].base /\ x.cur = job[t].cur + range.length /\ x.before = job[t].before
      /\ x.fresh = IF new THEN job[t].fresh \cup {q} ELSE job[t].fresh
  <2>. DEFINE j == job[t]
              s == Tail(job[t].rest)
              c == job[t].cur + range.length
              f == IF new THEN job[t].fresh \cup {q} ELSE job[t].fresh
  <2>1. x = [j EXCEPT !.cur = c, !.rest = s, !.fresh = f]
    BY <1>3 DEF Job
  <2>2. j \in Job /\ c \in Nat /\ s \in Seq(PhysicalRange) /\ f \in SUBSET Region
    BY <1>3, <1>4, <1>5 DEF Job
  <2>. HIDE DEF j, s, c, f, x
  <2>3. /\ x \in Job /\ x.handle = j.handle /\ x.regions = j.regions
        /\ x.base = j.base /\ x.cur = c /\ x.before = j.before /\ x.fresh = f
    BY <2>1, <2>2 DEF Job
  <2>. QED  BY <2>3 DEF j, c, f
<1>10. job[t].base \in Nat /\ job[t].cur \in Nat /\ job[t].fresh \in SUBSET Region
  BY <1>3 DEF Job
<1>. HIDE DEF range, e, x, k, n, h
<1>11. /\ tasks' \in Seq(Entry) /\ DOMAIN tasks' = 1 .. n /\ tasks'[k] = e
       /\ \A i \in 1 .. n : i # k => tasks'[i] = tasks[i]
  BY <1>2, <1>6, <1>7, <1>8
<1>12. /\ job'[t] = x /\ \A u \in Thread \ {t} : job'[u] = job[u] /\ pc[u] # "mapping"
  BY <1>1, <1>2 DEF TypeOK, OneMapper
<1>13. /\ va' \in [Handle -> [Page -> Region \cup {NoRegion}]]
       /\ \A g \in Handle \ {h} : va'[g] = va[g]
       /\ \A p \in Page : va'[h][p] = IF p \in pages THEN q ELSE va[h][p]
  <2>1. va \in [Handle -> [Page -> Region \cup {NoRegion}]] /\ h \in Handle
    BY <1>1, <1>3 DEF TypeOK
  <2>2. /\ SetPages(va[h], pages, q) \in [Page -> Region \cup {NoRegion}]
        /\ \A p \in Page : SetPages(va[h], pages, q)[p] = IF p \in pages THEN q ELSE va[h][p]
    BY <1>5, <2>1, SetPagesResult
  <2>. QED  BY <1>2, <2>1, <2>2
<1>14. \A g : Entries(g)' = Entries(g)
  BY <1>6, <1>7, <1>8, <1>11 DEF Entries
<1>15. job[t].regions = {}
  BY <1>2 DEF IInv, JobRegionsOwned
<1>16. ASSUME NEW r \in Region
       PROVE  refs'[r] \in Nat /\ refs'[r] = Cardinality(Owners(r)') + Cardinality(Holders(r)')
  <2>1. Holders(r)' = Holders(r)
    BY <1>9, <1>12 DEF Holders
  <2>2. Owners(r)' = IF r = q THEN Owners(r) \cup {k} ELSE Owners(r)
    BY <1>6, <1>7, <1>8, <1>11 DEF Owners
  <2>3. k \in Owners(q) <=> ~new
    BY <1>6 DEF Owners
  <2>4. /\ IsFiniteSet(Owners(r)) /\ Cardinality(Owners(r)) \in Nat /\ Cardinality(Holders(r)) \in Nat
    BY <1>1, OwnersFinite DEF CountsFinite
  <2>5. Cardinality(Owners(r) \cup {k}) = IF k \in Owners(r) THEN Cardinality(Owners(r))
                                                              ELSE Cardinality(Owners(r)) + 1
    BY <2>4, FS_AddElement
  <2>6. refs[r] = Cardinality(Owners(r)) + Cardinality(Holders(r))
    BY <1>1, Balance
  <2>7. refs'[r] = IF r = q /\ new THEN refs[r] + 1 ELSE refs[r]
    BY <1>1, <1>2, <1>5 DEF TypeOK
  <2>. QED  BY <2>1, <2>2, <2>3, <2>4, <2>5, <2>6, <2>7
<1>17. TypeOK'
  <2>1. refs' \in [Region -> Nat]
    BY <1>1, <1>2, <1>5 DEF TypeOK
  <2>. QED  BY <1>1, <1>2, <1>9, <1>11, <1>13, <2>1 DEF TypeOK
<1>18. RefBalance'
  BY <1>16 DEF RefBalance, Owners, Holders
<1>19. MappedPagesPinned'
  <2>1. SUFFICES ASSUME NEW i \in 1 .. n, NEW p \in Page
                 PROVE  va'[tasks'[i].handle][p] \in tasks'[i].regions \cup {NoRegion}
    BY <1>11 DEF MappedPagesPinned, Page
  <2>2. va[tasks[i].handle][p] \in tasks[i].regions \cup {NoRegion}
    BY <1>7 DEF IInv, MappedPagesPinned
  <2>3. CASE i = k
    BY <1>6, <1>8, <1>11, <1>13, <2>2, <2>3
  <2>4. CASE i # k
    <3>1. tasks[i].handle \in Handle \ {h}
      <4>1. tasks[i] \in Entry
        BY <1>7, ElementOfSeq
      <4>. QED  BY <1>1, <1>6, <1>7, <2>4, <4>1 DEF ListedHandlesLive, Entry
    <3>. QED  BY <1>11, <1>13, <2>2, <2>4, <3>1
  <2>. QED  BY <2>3, <2>4
<1>20. ListedHandlesLive' /\ OneMapper'
  <2>1. \A i \in 1 .. n : tasks'[i].handle = tasks[i].handle
    BY <1>6, <1>8, <1>11
  <2>2. \A i, j \in 1 .. n : tasks'[i].handle = tasks'[j].handle => i = j
    BY <1>1, <1>7, <2>1 DEF ListedHandlesLive
  <2>3. \A i \in 1 .. n : tasks'[i].handle \in alive'
    BY <1>1, <1>2, <1>7, <1>9, <1>11, <2>1 DEF ListedHandlesLive
  <2>4. ASSUME NEW u \in Thread, pc'[u] = "mapping" PROVE Entries(job'[u].handle) # {}
    <3>1. pc[u] = "mapping" /\ Entries(job[u].handle) # {}
      BY <1>1, <1>2, <2>4 DEF ListedHandlesLive
    <3>2. job'[u].handle = job[u].handle
      BY <1>9, <1>12 DEF h
    <3>. QED  BY <3>1, <3>2
  <2>5. ListedHandlesLive'
    BY <1>7, <1>11, <1>14, <2>2, <2>3, <2>4 DEF ListedHandlesLive
  <2>6. OneMapper'
    BY <1>2, <1>9 DEF OneMapper, IInv
  <2>. QED  BY <2>5, <2>6
<1>21. HeldHandlesUnlisted' /\ CreatedRangesEmpty' /\ JobRegionsOwned'
  <2>1. \A u \in Thread : Holding(u)' => u # t /\ Holding(u)
    BY <1>2 DEF Holding
  <2>2. HeldHandlesUnlisted'
    BY <1>2, <1>12, <1>14, <2>1 DEF IInv, HeldHandlesUnlisted
  <2>3. ASSUME NEW u \in Thread, pc[u] = "created"
        PROVE  job'[u] = job[u] /\ job[u].handle \in Handle \ {h}
    <3>1. u # t /\ Entries(job[u].handle) = {}
      BY <1>2, <2>3 DEF IInv, HeldHandlesUnlisted, Holding
    <3>. QED  BY <1>1, <1>6, <1>12, <3>1 DEF TypeOK, Job
  <2>4. CreatedRangesEmpty'
    BY <1>2, <1>13, <2>3 DEF IInv, CreatedRangesEmpty, Page
  <2>. QED  BY <1>2, <1>9, <1>12, <1>15, <2>2, <2>4 DEF IInv, JobRegionsOwned
<1>22. MapsAreLogged'
  <2>1. LogOf(t)
    BY <1>2 DEF IInv, MapsAreLogged
  <2>2. \A g : g = h => Entries(g)' = {k}
    BY <1>6, <1>14
  <2>3. x.base <= x.cur
    BY <1>5, <1>9, <1>10, <2>1 DEF LogOf
  <2>4. x.fresh \subseteq e.regions /\ x.before.regions = e.regions \ x.fresh
    BY <1>6, <1>8, <1>9, <2>1 DEF LogOf, h
  <2>5. ASSUME NEW p \in Page \ (x.base .. x.cur - 1)
        PROVE  va'[h][p] \in {NoRegion, x.before.va[p]}
    <3>1. p \notin pages /\ p \notin job[t].base .. job[t].cur - 1
      BY <1>5, <1>9, <1>10, <2>1, <2>5 DEF LogOf, PagesOf, Page
    <3>. QED  BY <1>9, <1>13, <2>1, <3>1 DEF LogOf, h
  <2>6. \A p \in Page : x.before.va[p] \in x.before.regions \cup {NoRegion}
    BY <1>9, <2>1 DEF LogOf
  <2>7. LogOf(t)'
    BY <1>9, <1>11, <1>12, <2>2, <2>3, <2>4, <2>5, <2>6 DEF LogOf, Page, Entries
  <2>. QED  BY <1>2, <1>12, <2>7 DEF MapsAreLogged
<1>. QED  BY <1>17, <1>18, <1>19, <1>20, <1>21, <1>22 DEF IInv

LEMMA MapSucceedStep ==
    ASSUME IInv, NEW t \in Thread, MapSucceed(t)
    PROVE  IInv'
<1>1. TypeOK /\ ListedHandlesLive /\ RefBalance /\ OneMapper
  BY DEF IInv
<1>2. /\ pc[t] = "mapping" /\ pc' = [pc EXCEPT ![t] = "idle"]
      /\ job' = [job EXCEPT ![t] = NoJob] /\ UNCHANGED <<tasks, refs, alive, va>>
  BY DEF MapSucceed, Goto, Return
<1>3. /\ pc'[t] = "idle" /\ job'[t] = NoJob
      /\ \A u \in Thread \ {t} : pc'[u] = pc[u] /\ job'[u] = job[u] /\ pc[u] # "mapping"
  BY <1>1, <1>2 DEF TypeOK, OneMapper
<1>4. TypeOK'
  BY <1>1, <1>2, NoJobTyped DEF TypeOK
<1>5. job[t].regions = {}
  BY <1>2 DEF IInv, JobRegionsOwned
<1>6. RefBalance'
  <2>1. \A r \in Region : Owners(r)' = Owners(r) /\ Holders(r)' = Holders(r)
    BY <1>2, <1>3, <1>5, NoJobTyped DEF Owners, Holders
  <2>. QED  BY <1>1, <1>2, <2>1, Balance DEF RefBalance, Owners, Holders
<1>7. \A g : Entries(g)' = Entries(g)
  BY <1>2 DEF Entries
<1>8. MappedPagesPinned' /\ ListedHandlesLive' /\ OneMapper' /\ MapsAreLogged'
  BY <1>1, <1>2, <1>3, <1>7
     DEF IInv, MappedPagesPinned, ListedHandlesLive, OneMapper, MapsAreLogged, Page
<1>9. HeldHandlesUnlisted' /\ CreatedRangesEmpty' /\ JobRegionsOwned'
  <2>1. \A u \in Thread : Holding(u)' => u # t /\ Holding(u)
    BY <1>3 DEF Holding
  <2>2. HeldHandlesUnlisted'
    BY <1>2, <1>3, <1>7, <2>1 DEF IInv, HeldHandlesUnlisted
  <2>. QED  BY <1>2, <1>3, <2>2, NoJobTyped DEF IInv, CreatedRangesEmpty, JobRegionsOwned, Page
<1>. QED  BY <1>4, <1>6, <1>8, <1>9 DEF IInv

\* What a failing call does, from what was logged: its pages are unmapped or as they
\* were, and its entry has the regions it had.
Undone(t, h, k) ==
    /\ h \in Handle /\ k \in DOMAIN tasks /\ Entries(h) = {k}
    /\ tasks' \in Seq(Entry) /\ DOMAIN tasks' = DOMAIN tasks
    /\ tasks'[k].handle = h /\ tasks'[k].regions = tasks[k].regions \ job[t].fresh
    /\ tasks'[k].regions = job[t].before.regions
    /\ \A i \in DOMAIN tasks : i # k => tasks'[i] = tasks[i]
    /\ va' \in [Handle -> [Page -> Region \cup {NoRegion}]]
    /\ \A g \in Handle \ {h} : va'[g] = va[g]
    /\ \A p \in Page : va'[h][p] \in {NoRegion, job[t].before.va[p]}

LEMMA MapFailResult ==
    ASSUME IInv, NEW t \in Thread, MapFail(t)
    PROVE  \A h, k : h = job[t].handle /\ k = Find(h) => Undone(t, h, k)
<1>. SUFFICES ASSUME NEW h, h = job[t].handle, NEW k, k = Find(h) PROVE Undone(t, h, k)
  OBVIOUS
<1>. DEFINE n == Len(tasks)
            b == job[t].base
            c == job[t].cur
            pages == PagesOf(b, c - b)
            e == [tasks[k] EXCEPT !.regions = @ \ job[t].fresh]
<1>1. TypeOK /\ ListedHandlesLive /\ LogOf(t) /\ pc[t] = "mapping"
  BY DEF IInv, MapFail, Goto, MapsAreLogged
<1>2. tasks' = [tasks EXCEPT ![k] = e] /\ va' = [va EXCEPT ![h] = SetPages(@, pages, NoRegion)]
  BY DEF MapFail
<1>3. job[t] \in Job /\ h \in Handle /\ b \in Nat /\ c \in Nat /\ job[t].fresh \in SUBSET Region
  BY <1>1 DEF TypeOK, Job
<1>4. Entries(h) = {k} /\ k \in DOMAIN tasks /\ tasks[k].handle = h
  BY <1>1, UniqueEntry DEF ListedHandlesLive
<1>5. n \in Nat /\ DOMAIN tasks = 1 .. n /\ tasks \in Seq(Entry) /\ tasks[k] \in Entry
  BY <1>1, <1>4, ElementOfSeq DEF TypeOK
<1>6. e \in Entry /\ e.handle = h /\ e.regions = tasks[k].regions \ job[t].fresh
  BY <1>3, <1>4, <1>5 DEF Entry
<1>. HIDE DEF e, n, pages
<1>7. /\ tasks' \in Seq(Entry) /\ DOMAIN tasks' = DOMAIN tasks /\ tasks'[k] = e
      /\ \A i \in DOMAIN tasks : i # k => tasks'[i] = tasks[i]
  BY <1>2, <1>4, <1>5, <1>6
<1>8. va[h] \in [Page -> Region \cup {NoRegion}]
  BY <1>1, <1>3 DEF TypeOK
<1>9. /\ SetPages(va[h], pages, NoRegion) \in [Page -> Region \cup {NoRegion}]
      /\ \A p \in Page : SetPages(va[h], pages, NoRegion)[p] = IF p \in pages THEN NoRegion ELSE va[h][p]
  BY <1>8, SetPagesResult
<1>10. /\ va' \in [Handle -> [Page -> Region \cup {NoRegion}]]
       /\ \A g \in Handle \ {h} : va'[g] = va[g]
       /\ \A p \in Page : va'[h][p] = IF p \in pages THEN NoRegion ELSE va[h][p]
  BY <1>1, <1>2, <1>3, <1>9 DEF TypeOK
<1>11. ASSUME NEW p \in Page PROVE va'[h][p] \in {NoRegion, job[t].before.va[p]}
  <2>1. pages = b .. c - 1
    <3>1. b + (c - b) - 1 = c - 1
      BY <1>3
    <3>. QED  BY <3>1 DEF PagesOf, pages
  <2>. QED  BY <1>1, <1>10, <2>1 DEF LogOf
<1>12. tasks[k].regions \ job[t].fresh = job[t].before.regions
  BY <1>1, <1>4 DEF LogOf
<1>. QED  BY <1>3, <1>4, <1>6, <1>7, <1>10, <1>11, <1>12 DEF Undone

LEMMA MapFailStep ==
    ASSUME IInv, NEW t \in Thread, MapFail(t)
    PROVE  IInv'
<1>1. TypeOK /\ ListedHandlesLive /\ RefBalance /\ OneMapper
  BY DEF IInv
<1>2. PICK h, k : h = job[t].handle /\ k = Find(h)
  OBVIOUS
<1>3. /\ pc[t] = "mapping" /\ pc' = [pc EXCEPT ![t] = "idle"]
      /\ refs' = [r \in Region |-> IF r \in job[t].fresh THEN refs[r] - 1 ELSE refs[r]]
      /\ job' = [job EXCEPT ![t] = NoJob] /\ UNCHANGED alive
  BY DEF MapFail, Goto, Return
<1>4. /\ pc'[t] = "idle" /\ job'[t] = NoJob
      /\ \A u \in Thread \ {t} : pc'[u] = pc[u] /\ job'[u] = job[u] /\ pc[u] # "mapping"
  BY <1>1, <1>3 DEF TypeOK, OneMapper
<1>5. /\ h \in Handle /\ k \in DOMAIN tasks /\ Entries(h) = {k}
      /\ tasks' \in Seq(Entry) /\ DOMAIN tasks' = DOMAIN tasks
      /\ tasks'[k].handle = h /\ tasks'[k].regions = tasks[k].regions \ job[t].fresh
      /\ tasks'[k].regions = job[t].before.regions
      /\ \A i \in DOMAIN tasks : i # k => tasks'[i] = tasks[i]
      /\ va' \in [Handle -> [Page -> Region \cup {NoRegion}]]
      /\ \A g \in Handle \ {h} : va'[g] = va[g]
      /\ \A p \in Page : va'[h][p] \in {NoRegion, job[t].before.va[p]}
  <2>1. Undone(t, h, k)
    BY <1>2, MapFailResult
  <2>. QED  BY <2>1 DEF Undone
<1>6. tasks[k].handle = h
  BY <1>5 DEF Entries
<1>7. \A g : Entries(g)' = Entries(g)
  BY <1>5, <1>6 DEF Entries
<1>8. /\ job[t].fresh \subseteq tasks[k].regions
      /\ \A p \in Page : job[t].before.va[p] \in job[t].before.regions \cup {NoRegion}
  BY <1>2, <1>3, <1>5 DEF IInv, MapsAreLogged, LogOf
<1>9. job[t].regions = {}
  BY <1>3 DEF IInv, JobRegionsOwned
<1>10. ASSUME NEW r \in Region
       PROVE  refs'[r] \in Nat /\ refs'[r] = Cardinality(Owners(r)') + Cardinality(Holders(r)')
  <2>1. Holders(r)' = Holders(r)
    BY <1>4, <1>9, NoJobTyped DEF Holders
  <2>2. Owners(r)' = IF r \in job[t].fresh THEN Owners(r) \ {k} ELSE Owners(r)
    BY <1>5 DEF Owners
  <2>3. r \in job[t].fresh => k \in Owners(r)
    BY <1>5, <1>8 DEF Owners
  <2>4. /\ IsFiniteSet(Owners(r)) /\ Cardinality(Owners(r)) \in Nat /\ Cardinality(Holders(r)) \in Nat
    BY <1>1, OwnersFinite DEF CountsFinite
  <2>5. IsFiniteSet(Owners(r) \ {k})
        /\ Cardinality(Owners(r) \ {k}) = IF k \in Owners(r) THEN Cardinality(Owners(r)) - 1
                                                              ELSE Cardinality(Owners(r))
    BY <2>4, FS_RemoveElement
  <2>6. Cardinality(Owners(r) \ {k}) \in Nat
    BY <2>5, FS_CardinalityType
  <2>7. refs[r] = Cardinality(Owners(r)) + Cardinality(Holders(r))
    BY <1>1, Balance
  <2>. QED  BY <1>3, <2>1, <2>2, <2>3, <2>4, <2>5, <2>6, <2>7
<1>11. TypeOK'
  BY <1>1, <1>3, <1>5, <1>10, NoJobTyped DEF TypeOK
<1>12. RefBalance'
  BY <1>10 DEF RefBalance, Owners, Holders
<1>13. MappedPagesPinned'
  <2>1. SUFFICES ASSUME NEW i \in DOMAIN tasks, NEW p \in Page
                 PROVE  va'[tasks'[i].handle][p] \in tasks'[i].regions \cup {NoRegion}
    BY <1>5 DEF MappedPagesPinned, Page
  <2>2. CASE i = k
    BY <1>5, <1>8, <2>2
  <2>3. CASE i # k
    <3>1. tasks[i].handle \in Handle
      <4>1. tasks[i] \in Entry
        BY <1>1 DEF TypeOK
      <4>. QED  BY <4>1 DEF Entry
    <3>2. tasks[i].handle # h
      BY <1>1, <1>5, <1>6, <2>3 DEF ListedHandlesLive
    <3>. QED  BY <1>5, <2>3, <3>1, <3>2 DEF IInv, MappedPagesPinned
  <2>. QED  BY <2>2, <2>3
<1>14. ListedHandlesLive' /\ OneMapper' /\ MapsAreLogged'
  <2>1. \A i \in DOMAIN tasks : tasks'[i].handle = tasks[i].handle
    BY <1>5, <1>6
  <2>2. \A u \in Thread : pc'[u] # "mapping"
    BY <1>4
  <2>3. ListedHandlesLive'
    BY <1>1, <1>3, <1>5, <2>1, <2>2 DEF ListedHandlesLive
  <2>. QED  BY <2>2, <2>3 DEF OneMapper, MapsAreLogged
<1>15. HeldHandlesUnlisted' /\ CreatedRangesEmpty' /\ JobRegionsOwned'
  <2>1. \A u \in Thread : Holding(u)' => u # t /\ Holding(u)
    BY <1>4 DEF Holding
  <2>2. HeldHandlesUnlisted'
    BY <1>3, <1>4, <1>7, <2>1 DEF IInv, HeldHandlesUnlisted
  <2>3. ASSUME NEW u \in Thread, pc'[u] = "created"
        PROVE  pc[u] = "created" /\ job'[u] = job[u] /\ job[u].handle \in Handle \ {h}
    <3>1. u # t /\ pc[u] = "created"
      BY <1>4, <2>3
    <3>2. Entries(job[u].handle) = {} /\ job[u].handle \in Handle
      BY <1>1, <3>1 DEF IInv, HeldHandlesUnlisted, Holding, TypeOK, Job
    <3>. QED  BY <1>4, <1>5, <3>1, <3>2
  <2>4. CreatedRangesEmpty'
    BY <1>5, <2>3 DEF IInv, CreatedRangesEmpty, Page
  <2>. QED  BY <1>4, <2>2, <2>4, NoJobTyped DEF IInv, JobRegionsOwned
<1>. QED  BY <1>11, <1>12, <1>13, <1>14, <1>15 DEF IInv

LEMMA UnmapStep ==
    ASSUME IInv, NEW t \in Thread, NEW h \in Handle, NEW pages, Unmap(t, h, pages)
    PROVE  IInv'
<1>1. TypeOK /\ ListedHandlesLive /\ RefBalance
  BY DEF IInv
<1>2. /\ va' = [va EXCEPT ![h] = SetPages(@, pages, NoRegion)]
      /\ UNCHANGED <<tasks, refs, alive, pc, job>>
  BY DEF Unmap
<1>3. va \in [Handle -> [Page -> Region \cup {NoRegion}]]
  BY <1>1 DEF TypeOK
<1>4. /\ SetPages(va[h], pages, NoRegion) \in [Page -> Region \cup {NoRegion}]
      /\ \A p \in Page : SetPages(va[h], pages, NoRegion)[p] = IF p \in pages THEN NoRegion ELSE va[h][p]
  BY <1>3, SetPagesResult
<1>5. /\ va' \in [Handle -> [Page -> Region \cup {NoRegion}]]
      /\ \A g \in Handle, p \in Page : va'[g][p] \in {NoRegion, va[g][p]}
  BY <1>2, <1>3, <1>4
<1>6. TypeOK' /\ RefBalance' /\ ListedHandlesLive' /\ OneMapper' /\ JobRegionsOwned'
  BY <1>1, <1>2, <1>5
     DEF IInv, TypeOK, RefBalance, ListedHandlesLive, OneMapper, JobRegionsOwned, Entries
<1>7. MappedPagesPinned'
  <2>1. SUFFICES ASSUME NEW i \in DOMAIN tasks, NEW p \in Page
                 PROVE  va'[tasks[i].handle][p] \in tasks[i].regions \cup {NoRegion}
    BY <1>2 DEF MappedPagesPinned, Page
  <2>2. tasks[i] \in Entry
    BY <1>1 DEF TypeOK
  <2>. QED  BY <1>5, <2>2 DEF IInv, MappedPagesPinned, Entry
<1>8. HeldHandlesUnlisted'
  BY <1>2 DEF IInv, HeldHandlesUnlisted, Holding, Entries
<1>9. \A u \in Thread : job[u].handle \in Handle
  BY <1>1 DEF TypeOK, Job
<1>10. CreatedRangesEmpty'
  BY <1>2, <1>5, <1>9 DEF IInv, CreatedRangesEmpty, Page
<1>11. MapsAreLogged'
  <2>1. SUFFICES ASSUME NEW u \in Thread, pc[u] = "mapping" PROVE LogOf(u)'
    BY <1>2 DEF MapsAreLogged
  <2>2. LogOf(u)
    BY <2>1 DEF IInv, MapsAreLogged
  <2>3. ASSUME NEW p \in Page \ (job[u].base .. job[u].cur - 1)
        PROVE  va'[job[u].handle][p] \in {NoRegion, job[u].before.va[p]}
    BY <1>5, <1>9, <2>2, <2>3 DEF LogOf
  <2>. QED  BY <1>2, <2>2, <2>3 DEF LogOf, Page, Entries
<1>. QED  BY <1>6, <1>7, <1>8, <1>10, <1>11 DEF IInv

LEMMA UnrealizeStep ==
    ASSUME IInv, Unrealize
    PROVE  IInv'
<1>1. TypeOK /\ RefBalance
  BY DEF IInv
<1>2. /\ \A t \in Thread : pc[t] = "idle" /\ job[t].regions = {}
      /\ tasks' = <<>> /\ refs' = [r \in Region |-> refs[r] - Cardinality(Owners(r))]
      /\ UNCHANGED <<alive, va, pc, job>>
  BY DEF Unrealize, Owners, IInv, JobRegionsOwned
<1>3. DOMAIN tasks' = {}
  BY <1>2
<1>4. ASSUME NEW r \in Region
      PROVE  refs'[r] = 0 /\ Owners(r)' = {} /\ Holders(r)' = {}
  <2>1. Holders(r) = {} /\ Owners(r)' = {} /\ Holders(r)' = {}
    BY <1>2, <1>3 DEF Holders, Owners
  <2>2. refs[r] = Cardinality(Owners(r)) + 0
    BY <1>1, <2>1, Balance, FS_EmptySet
  <2>3. Cardinality(Owners(r)) \in Nat
    BY <1>1, OwnersFinite DEF CountsFinite
  <2>. QED  BY <1>2, <2>1, <2>2, <2>3
<1>5. TypeOK'
  BY <1>1, <1>2, <1>4, NoJobTyped DEF TypeOK
<1>6. RefBalance'
  <2>1. Cardinality({}) = 0
    BY FS_EmptySet
  <2>. QED  BY <1>4, <2>1 DEF RefBalance, Owners, Holders
<1>. QED  BY <1>2, <1>3, <1>5, <1>6 DEF IInv, MappedPagesPinned, ListedHandlesLive,
             HeldHandlesUnlisted, Holding, CreatedRangesEmpty, OneMapper, JobRegionsOwned,
             MapsAreLogged

LEMMA StepIInv == IInv /\ [Next]_vars => IInv'
<1> SUFFICES ASSUME IInv, [Next]_vars PROVE IInv'
  OBVIOUS
<1>1. CASE Unrealize
  BY <1>1, UnrealizeStep
<1>2. ASSUME NEW t \in Thread, ThreadStep(t) PROVE IInv'
  BY <1>2, CreateReserveStep, CreateInsertStep, DestroyUnlinkStep, DestroyUnrefStep,
     DestroyReleaseStep, MapBeginStep, MapRangeStep, MapSucceedStep, MapFailStep, UnmapStep
     DEF ThreadStep
<1>3. CASE UNCHANGED vars
  BY <1>3 DEF vars, IInv, TypeOK, RefBalance, MappedPagesPinned, ListedHandlesLive,
              HeldHandlesUnlisted, Holding, CreatedRangesEmpty, OneMapper, JobRegionsOwned,
              MapsAreLogged, LogOf, Entries
<1>. QED  BY <1>1, <1>2, <1>3 DEF Next

-----------------------------------------------------------------------------
\* The inductive invariant holds in every state of every behaviour.
THEOREM Invariance == Spec => []IInv
BY InitIInv, StepIInv, PTL DEF Spec

\* The task list, the reference counts and the ranges keep their types; in
\* particular no reference count goes below zero.
THEOREM TypeCorrect == Spec => []TypeOK
BY Invariance, PTL DEF IInv

\* Every reference on a region has one owner (memory_region_ref and _unref in
\* apple_gfx_map_memory, apple_gfx_destroy_task and unrealize).
THEOREM ReferencesBalance == Spec => []RefBalance
BY Invariance, PTL DEF IInv

\* A listed task holds a reference on whatever its range is mapped to, also while
\* maps, their failures and unlocked unmaps interleave.
THEOREM PagesPinned == Spec => []MappedPagesPinned
BY Invariance, PTL DEF IInv

\* Handles in the list are alive and unique, and a mapping thread's task stays listed,
\* although create and destroy call the library outside task_mutex.
THEOREM HandlesLive == Spec => []ListedHandlesLive
BY Invariance, PTL DEF IInv

\* The failure path of apple_gfx_map_memory takes back exactly what the call did.
THEOREM FailuresUndone == Spec => FailedMapLeavesNothing
<1>1. ASSUME IInv, NEW t \in Thread, MapFail(t)
      PROVE  LET h == job[t].handle
             IN  /\ \A p \in Page : va'[h][p] \in {NoRegion, job[t].before.va[p]}
                 /\ tasks'[Find(h)].regions = job[t].before.regions
  BY <1>1, MapFailResult DEF Undone
<1>2. IInv => [\A t \in Thread : MapFail(t) =>
                 LET h == job[t].handle
                 IN  /\ \A p \in Page : va'[h][p] \in {NoRegion, job[t].before.va[p]}
                     /\ tasks'[Find(h)].regions = job[t].before.regions]_vars
  BY <1>1
<1>. QED  BY <1>2, Invariance, PTL DEF FailedMapLeavesNothing
=============================================================================
