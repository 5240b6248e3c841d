------------------------ MODULE IntensityCacheProofs ------------------------
(***************************************************************************)
(* Theorems about IntensityCache, for every set of zones, callers and      *)
(* refresh tasks and every ttl and timeout.  TypeOK and RefreshExclusive   *)
(* are inductive together; ServedAgeBound needs the strengthening HeldAge. *)
(***************************************************************************)
EXTENDS IntensityCache, TLAPS

\* A refresh is only ever scheduled on a free task, for zones that no other
\* refresh fetches; scheduling leaves every other task alone.
LEMMA ScheduleEffect ==
  ASSUME TypeOK, NEW zs \in SUBSET Zones, ScheduleRefresh(zs)
  PROVE  \/ UNCHANGED <<refreshing, task>>
         \/ \E t \in Tasks :
              /\ task[t].zones = {}
              /\ refreshing' = refreshing \cup (zs \ refreshing)
              /\ task' = [task EXCEPT ![t] = [zones |-> zs \ refreshing, elapsed |-> 0]]
<1>1. CASE zs \ refreshing = {}
  BY <1>1 DEF ScheduleRefresh
<1>2. CASE zs \ refreshing # {}
  <2>1. FreeTask \in Tasks /\ task[FreeTask].zones = {}
    BY <1>2 DEF ScheduleRefresh, FreeTask
  <2>2. QED
    BY <1>2, <2>1 DEF ScheduleRefresh
<1>3. QED
  BY <1>1, <1>2

\* Scheduling preserves the types of the variables it writes.
LEMMA ScheduleType ==
  ASSUME TypeOK, NEW zs \in SUBSET Zones, ScheduleRefresh(zs)
  PROVE  /\ refreshing' \subseteq Zones
         /\ task' \in [Tasks -> [zones : SUBSET Zones, elapsed : 0..RefreshTimeout]]
BY ScheduleEffect, CacheAssumption DEF TypeOK

\* Scheduling preserves the exclusivity of refreshes.
LEMMA ScheduleExclusive ==
  ASSUME TypeOK, RefreshExclusive, NEW zs \in SUBSET Zones, ScheduleRefresh(zs)
  PROVE  RefreshExclusive'
<1>1. CASE UNCHANGED <<refreshing, task>>
  BY <1>1 DEF RefreshExclusive
<1>2. ASSUME NEW t \in Tasks,
             task[t].zones = {},
             refreshing' = refreshing \cup (zs \ refreshing),
             task' = [task EXCEPT ![t] = [zones |-> zs \ refreshing, elapsed |-> 0]]
      PROVE  RefreshExclusive'
  <2>1. \A u \in Tasks : task'[u].zones = IF u = t THEN zs \ refreshing ELSE task[u].zones
    BY <1>2 DEF TypeOK
  <2>2. refreshing' = UNION {task'[u].zones : u \in Tasks}
    <3>1. refreshing = UNION {task[u].zones : u \in Tasks}
      BY DEF RefreshExclusive
    <3>2. ASSUME NEW z \in refreshing' PROVE z \in UNION {task'[u].zones : u \in Tasks}
      BY <1>2, <2>1, <3>1, <3>2
    <3>3. ASSUME NEW u \in Tasks, NEW z \in task'[u].zones PROVE z \in refreshing'
      BY <1>2, <2>1, <3>1, <3>3
    <3>4. QED
      BY <3>2, <3>3
  <2>3. ASSUME NEW u \in Tasks, NEW v \in Tasks, u # v
        PROVE  task'[u].zones \cap task'[v].zones = {}
    <3>1. \A w \in Tasks : task[w].zones \subseteq refreshing
      BY DEF RefreshExclusive
    <3>2. task[u].zones \cap task[v].zones = {}
      BY <2>3 DEF RefreshExclusive
    <3>3. QED
      BY <2>1, <2>3, <3>1, <3>2
  <2>4. QED
    BY <2>2, <2>3 DEF RefreshExclusive
<1>3. QED
  BY <1>1, <1>2, ScheduleEffect

----------------------------------------------------------------------------

\* What a request holds was usable when the request began, and has aged only
\* while the request awaited.
HeldAge ==
  \A c \in Callers, z \in Zones :
    call[c].got[z] # Absent => call[c].got[z] < 2 * TTL + call[c].elapsed

\* The inductive invariant: the bound of HeldAge keeps held values in their
\* type when the clock ticks, and the type gives HeldAge its arithmetic.
CacheInv == TypeOK /\ HeldAge /\ RefreshExclusive

CallType ==
  [phase : {"idle", "fetching", "done", "failed"}, batch : BOOLEAN,
   missing : SUBSET Zones, stale : SUBSET Zones,
   got : [Zones -> Held \cup {Absent}], elapsed : 0..FetchMax]

\* A request that held only usable entries when it was classified, or fresh
\* answers, satisfies HeldAge.
LEMMA UsableHeld ==
  ASSUME TypeOK, NEW z \in Zones, ~Missing(z)
  PROVE  store[z] \in Held /\ store[z] # Absent /\ store[z] < 2 * TTL
<1>1. store[z] # Absent /\ store[z] < 2 * TTL
  <2>1. CASE Fresh(z)
    BY <2>1, CacheAssumption DEF Fresh, TypeOK, Entry, Held
  <2>2. CASE Stale(z)
    BY <2>2 DEF Stale
  <2>3. QED
    BY <2>1, <2>2 DEF Missing
<1>2. QED
  BY <1>1, CacheAssumption DEF TypeOK, Entry, Held

LEMMA InitCacheInv == Init => CacheInv
<1> SUFFICES ASSUME Init PROVE CacheInv
  OBVIOUS
<1>1. TypeOK
  BY CacheAssumption DEF Init, TypeOK, NoTask, NoCall
<1>2. HeldAge
  BY DEF Init, HeldAge, NoCall
<1>3. RefreshExclusive
  BY DEF Init, RefreshExclusive, NoTask
<1>4. QED
  BY <1>1, <1>2, <1>3 DEF CacheInv

LEMMA GetOrFetchInv ==
  ASSUME CacheInv, NEW c \in Callers, NEW z \in Zones, GetOrFetch(c, z)
  PROVE  CacheInv'
<1> USE DEF CacheInv
<1> DEFINE zs == IF Stale(z) THEN {z} ELSE {}
<1>1. zs \in SUBSET Zones /\ ScheduleRefresh(zs)
  BY DEF GetOrFetch
<1> DEFINE r == [phase |-> IF Missing(z) THEN "fetching" ELSE "done",
                 batch |-> FALSE,
                 missing |-> IF Missing(z) THEN {z} ELSE {},
                 stale |-> zs,
                 got |-> [y \in Zones |-> IF y = z /\ ~Missing(z) THEN store[z] ELSE Absent],
                 elapsed |-> 0]
<1>2. call' = [call EXCEPT ![c] = r] /\ store' = store
  BY DEF GetOrFetch
<1>3. /\ r \in CallType
      /\ \A y \in Zones : r.got[y] # Absent => r.got[y] < 2 * TTL + r.elapsed
  <2>1. ~Missing(z) => store[z] \in Held /\ store[z] # Absent /\ store[z] < 2 * TTL
    BY UsableHeld
  <2>2. \A y \in Zones : r.got[y] # Absent => r.got[y] < 2 * TTL + r.elapsed
    BY <2>1, CacheAssumption DEF TypeOK, Entry
  <2>3. r.got \in [Zones -> Held \cup {Absent}]
    BY <2>1
  <2>4. r \in CallType
    BY <2>3, CacheAssumption DEF CallType
  <2>5. QED
    BY <2>2, <2>4
<1> HIDE DEF r, zs
<1>4. TypeOK'
  BY <1>1, <1>2, <1>3, ScheduleType DEF TypeOK, CallType
<1>5. HeldAge'
  BY <1>2, <1>3 DEF HeldAge, TypeOK
<1>6. RefreshExclusive'
  BY <1>1, ScheduleExclusive
<1>7. QED
  BY <1>4, <1>5, <1>6

LEMMA GetOrFetchBatchInv ==
  ASSUME CacheInv, NEW c \in Callers, NEW zs \in SUBSET Zones, GetOrFetchBatch(c, zs)
  PROVE  CacheInv'
<1> USE DEF CacheInv
<1> DEFINE missing == {z \in zs : Missing(z)}
           stale == {z \in zs : Stale(z)}
           due == IF missing = {} THEN stale ELSE {}
           r == [phase |-> IF missing = {} THEN "done" ELSE "fetching",
                 batch |-> missing # {}, missing |-> missing, stale |-> stale,
                 got |-> [z \in Zones |-> IF z \in zs \ missing THEN store[z] ELSE Absent],
                 elapsed |-> 0]
<1>1. due \in SUBSET Zones /\ ScheduleRefresh(due)
  BY DEF GetOrFetchBatch
<1>2. call' = [call EXCEPT ![c] = r] /\ store' = store
  BY DEF GetOrFetchBatch
<1>3. \A z \in zs \ missing : store[z] \in Held /\ store[z] # Absent /\ store[z] < 2 * TTL
  BY UsableHeld
<1>4. \A z \in Zones : r.got[z] # Absent => r.got[z] < 2 * TTL + r.elapsed
  BY <1>3, CacheAssumption DEF TypeOK, Entry
<1>5. r \in CallType
  <2>1. r.got \in [Zones -> Held \cup {Absent}]
    BY <1>3
  <2>2. QED
    BY <2>1, CacheAssumption DEF CallType
<1> HIDE DEF r, due
<1>6. TypeOK'
  BY <1>1, <1>2, <1>5, ScheduleType DEF TypeOK, CallType
<1>7. HeldAge'
  BY <1>2, <1>4 DEF HeldAge, TypeOK
<1>8. RefreshExclusive'
  BY <1>1, ScheduleExclusive
<1>9. QED
  BY <1>6, <1>7, <1>8

LEMMA FetchReturnsInv ==
  ASSUME CacheInv, NEW c \in Callers, FetchReturns(c)
  PROVE  CacheInv'
<1> USE DEF CacheInv
<1>1. PICK got \in SUBSET call[c].missing :
        /\ store' = Updated(store, got)
        /\ call' = [call EXCEPT ![c] = Ended(c, "done", Updated(call[c].got, got), call[c].elapsed)]
  BY DEF FetchReturns
<1>2. call[c].stale \in SUBSET Zones /\ ScheduleRefresh(call[c].stale)
  BY DEF FetchReturns, TypeOK
<1>3. /\ Updated(store, got) \in [Zones -> Entry \cup {Absent}]
      /\ Updated(call[c].got, got) \in [Zones -> Held \cup {Absent}]
  BY CacheAssumption DEF Updated, TypeOK, Entry, Held
<1>4. call' \in [Callers -> CallType]
  <2>1. Ended(c, "done", Updated(call[c].got, got), call[c].elapsed) \in CallType
    BY <1>3 DEF Ended, TypeOK, CallType
  <2>2. QED
    BY <1>1, <2>1 DEF TypeOK, CallType
<1>5. TypeOK'
  BY <1>1, <1>2, <1>3, <1>4, ScheduleType DEF TypeOK, CallType
<1>6. HeldAge'
  <2> SUFFICES ASSUME NEW d \in Callers, NEW z \in Zones, call'[d].got[z] # Absent
               PROVE  call'[d].got[z] < 2 * TTL + call'[d].elapsed
    BY DEF HeldAge
  <2>1. CASE d # c
    BY <1>1, <2>1 DEF HeldAge, TypeOK
  <2>2. CASE d = c
    <3>1. /\ call'[c].elapsed = call[c].elapsed
          /\ call[c].elapsed \in 0..FetchMax
          /\ call'[c].got[z] = IF z \in got THEN 0 ELSE call[c].got[z]
      BY <1>1 DEF TypeOK, Updated, Ended
    <3>2. QED
      BY <2>2, <3>1, CacheAssumption DEF HeldAge
  <2>3. QED
    BY <2>1, <2>2
<1>7. RefreshExclusive'
  BY <1>2, ScheduleExclusive
<1>8. QED
  BY <1>5, <1>6, <1>7

LEMMA FetchRaisesInv ==
  ASSUME CacheInv, NEW c \in Callers, FetchRaises(c)
  PROVE  CacheInv'
<1> USE DEF CacheInv
<1> DEFINE r == Ended(c, "failed", NoCall.got, 0)
<1>1. /\ call' = [call EXCEPT ![c] = r]
      /\ UNCHANGED <<store, refreshing, task>>
  BY DEF FetchRaises
<1>3. r \in CallType /\ \A z \in Zones : r.got[z] = Absent
  BY CacheAssumption DEF Ended, NoCall, CallType, TypeOK
<1> HIDE DEF r
<1>4. TypeOK'
  BY <1>1, <1>3 DEF TypeOK, CallType
<1>5. HeldAge'
  BY <1>1, <1>3 DEF HeldAge, TypeOK
<1>6. RefreshExclusive'
  BY <1>1 DEF RefreshExclusive
<1>7. QED
  BY <1>4, <1>5, <1>6

\* Every outcome of a refresh releases its zones and only those: no other
\* refresh fetches them.
LEMMA RefreshEndsInv ==
  ASSUME CacheInv, NEW t \in Tasks, RefreshEnds(t)
  PROVE  CacheInv'
<1> USE DEF CacheInv
<1>1. PICK got \in SUBSET task[t].zones : store' = Updated(store, got)
  BY DEF RefreshEnds
<1>2. /\ refreshing' = refreshing \ task[t].zones
      /\ task' = [task EXCEPT ![t] = NoTask]
      /\ call' = call
  BY DEF RefreshEnds
<1>3. TypeOK'
  <2>1. store' \in [Zones -> Entry \cup {Absent}]
    BY <1>1, CacheAssumption DEF Updated, TypeOK, Entry
  <2>2. task' \in [Tasks -> [zones : SUBSET Zones, elapsed : 0..RefreshTimeout]]
    BY <1>2, CacheAssumption DEF TypeOK, NoTask
  <2>3. QED
    BY <1>2, <2>1, <2>2 DEF TypeOK
<1>4. HeldAge'
  BY <1>2 DEF HeldAge
<1>5. RefreshExclusive'
  <2>1. \A u \in Tasks : task'[u].zones = IF u = t THEN {} ELSE task[u].zones
    BY <1>2 DEF TypeOK, NoTask
  <2>2. refreshing' = UNION {task'[u].zones : u \in Tasks}
    <3>1. ASSUME NEW z \in refreshing' PROVE z \in UNION {task'[u].zones : u \in Tasks}
      <4>1. z \notin task[t].zones
        BY <1>2, <3>1
      <4>2. PICK u \in Tasks : z \in task[u].zones
        BY <1>2, <3>1 DEF RefreshExclusive
      <4>3. QED
        BY <2>1, <4>1, <4>2
    <3>2. ASSUME NEW u \in Tasks, NEW z \in task'[u].zones PROVE z \in refreshing'
      <4>1. u # t /\ z \in task[u].zones
        BY <2>1, <3>2
      <4>2. z \in refreshing /\ z \notin task[t].zones
        BY <4>1 DEF RefreshExclusive
      <4>3. QED
        BY <1>2, <4>2
    <3>3. QED
      BY <3>1, <3>2
  <2>3. QED
    BY <2>1, <2>2 DEF RefreshExclusive
<1>6. QED
  BY <1>3, <1>4, <1>5

LEMMA InvalidateInv ==
  ASSUME CacheInv, NEW zs \in SUBSET Zones, Invalidate(zs)
  PROVE  CacheInv'
<1> USE DEF CacheInv
<1>1. TypeOK'
  BY DEF Invalidate, TypeOK
<1>2. HeldAge' /\ RefreshExclusive'
  BY DEF Invalidate, HeldAge, RefreshExclusive
<1>3. QED
  BY <1>1, <1>2

LEMMA TickInv ==
  ASSUME CacheInv, Tick
  PROVE  CacheInv'
<1> USE DEF CacheInv
<1>1. store' \in [Zones -> Entry \cup {Absent}]
  <2>1. ASSUME NEW z \in Zones PROVE Older(store[z]) \in Entry \cup {Absent}
    <3>1. CASE store[z] = Absent
      BY <3>1 DEF Older
    <3>2. CASE store[z] # Absent
      <4>1. store[z] \in 0..(2 * TTL)
        BY <3>2 DEF TypeOK, Entry
      <4>2. QED
        BY <3>2, <4>1, CacheAssumption DEF Older, Entry
    <3>3. QED
      BY <3>1, <3>2
  <2>2. QED
    BY <2>1 DEF Tick
<1>2. /\ \A t \in Tasks : task'[t].zones = task[t].zones
      /\ task' \in [Tasks -> [zones : SUBSET Zones, elapsed : 0..RefreshTimeout]]
  BY CacheAssumption DEF Tick, TaskOlder, TypeOK
<1>3. ASSUME NEW c \in Callers, call[c].phase = "fetching"
      PROVE  /\ call'[c] \in CallType
             /\ \A z \in Zones : call'[c].got[z] # Absent
                                   => call'[c].got[z] < 2 * TTL + call'[c].elapsed
  <2> DEFINE g == [z \in Zones |-> HeldOlder(call[c].got[z])]
  <2>1. /\ call[c] \in CallType
        /\ call'[c] = [phase |-> call[c].phase, batch |-> call[c].batch,
                       missing |-> call[c].missing, stale |-> call[c].stale,
                       got |-> g, elapsed |-> call[c].elapsed + 1]
        /\ call[c].elapsed < FetchMax
    BY <1>3 DEF Tick, CallOlder, TypeOK, CallType
  <2>2. \A z \in Zones :
          \/ call[c].got[z] = Absent /\ g[z] = Absent
          \/ /\ call[c].got[z] \in Held
             /\ call[c].got[z] < 2 * TTL + call[c].elapsed
             /\ g[z] = call[c].got[z] + 1
    BY <2>1 DEF HeldOlder, HeldAge, CallType
  <2>3. call[c].elapsed \in 0..FetchMax
    BY <2>1 DEF CallType
  <2>4. g \in [Zones -> Held \cup {Absent}]
    BY <2>1, <2>2, <2>3, CacheAssumption DEF Held
  <2>5. \A z \in Zones : g[z] # Absent => g[z] < 2 * TTL + (call[c].elapsed + 1)
    BY <2>2, <2>3, CacheAssumption DEF Held
  <2> HIDE DEF g
  <2>6. call'[c].got = g /\ call'[c].elapsed = call[c].elapsed + 1
    BY <2>1 DEF CallType
  <2>7. call'[c] \in CallType
    BY <2>1, <2>3, <2>4, CacheAssumption DEF CallType
  <2>8. QED
    BY <2>5, <2>6, <2>7
<1>4. ASSUME NEW c \in Callers, call[c].phase # "fetching"
      PROVE  call'[c] = call[c]
  BY <1>4 DEF Tick, CallOlder
<1>5. call' \in [Callers -> CallType]
  <2>1. \A c \in Callers : call'[c] \in CallType
    BY <1>3, <1>4 DEF TypeOK, CallType
  <2>2. call' = [c \in Callers |-> call'[c]]
    BY DEF Tick
  <2>3. QED
    BY <2>1, <2>2
<1>6. TypeOK'
  BY <1>1, <1>2, <1>5 DEF Tick, TypeOK, CallType
<1>7. HeldAge'
  BY <1>3, <1>4 DEF HeldAge
<1>8. RefreshExclusive'
  BY <1>2 DEF Tick, RefreshExclusive
<1>9. QED
  BY <1>6, <1>7, <1>8

LEMMA NextCacheInv == CacheInv /\ [Next]_vars => CacheInv'
<1> SUFFICES ASSUME CacheInv, [Next]_vars PROVE CacheInv'
  OBVIOUS
<1>1. ASSUME NEW c \in Callers, NEW z \in Zones, GetOrFetch(c, z) PROVE CacheInv'
  BY <1>1, GetOrFetchInv
<1>2. ASSUME NEW c \in Callers, NEW zs \in SUBSET Zones, GetOrFetchBatch(c, zs)
      PROVE  CacheInv'
  BY <1>2, GetOrFetchBatchInv
<1>3. ASSUME NEW c \in Callers, FetchReturns(c) PROVE CacheInv'
  BY <1>3, FetchReturnsInv
<1>4. ASSUME NEW c \in Callers, FetchRaises(c) PROVE CacheInv'
  BY <1>4, FetchRaisesInv
<1>5. ASSUME NEW t \in Tasks, RefreshEnds(t) PROVE CacheInv'
  BY <1>5, RefreshEndsInv
<1>6. ASSUME NEW zs \in SUBSET Zones, Invalidate(zs) PROVE CacheInv'
  BY <1>6, InvalidateInv
<1>7. CASE Tick
  BY <1>7, TickInv
<1>8. CASE UNCHANGED vars
  BY <1>8 DEF vars, CacheInv, TypeOK, HeldAge, RefreshExclusive
<1>9. QED
  BY <1>1, <1>2, <1>3, <1>4, <1>5, <1>6, <1>7, <1>8 DEF Next

----------------------------------------------------------------------------

\* Every reachable state of the cache has the declared types; no refresh
\* outlives its wait_for.
THEOREM CacheTypeCorrect == Spec => []TypeOK
<1>1. CacheInv => TypeOK
  BY DEF CacheInv
<1>2. QED
  BY <1>1, InitCacheInv, NextCacheInv, PTL DEF Spec

\* However requests, refreshes, failures, timeouts and invalidations
\* interleave, a zone is marked in _refreshing exactly while one and only one
\* background refresh fetches it.
THEOREM CacheRefreshExclusive == Spec => []RefreshExclusive
<1>1. CacheInv => RefreshExclusive
  BY DEF CacheInv
<1>2. QED
  BY <1>1, InitCacheInv, NextCacheInv, PTL DEF Spec

\* No request returns a value that was stored 2 * ttl or longer before the
\* request began.
THEOREM CacheServedAge == Spec => []ServedAgeBound
<1>1. CacheInv => ServedAgeBound
  BY DEF CacheInv, HeldAge, ServedAgeBound
<1>2. QED
  BY <1>1, InitCacheInv, NextCacheInv, PTL DEF Spec

----------------------------------------------------------------------------

\* Whatever is scheduled is under way, by this task or by an earlier one.
LEMMA ScheduleCovers ==
  ASSUME NEW zs, ScheduleRefresh(zs)
  PROVE  zs \subseteq refreshing'
BY DEF ScheduleRefresh

\* A step in which a request is answered schedules what it found stale, be it
\* before its await or after.
LEMMA AnsweredRevalidates ==
  ASSUME TypeOK, [Next]_vars, NEW c \in Callers,
         call'[c].phase = "done", call'[c] # call[c]
  PROVE  call'[c].stale \subseteq refreshing'
<1> USE DEF TypeOK
<1>1. ASSUME NEW d \in Callers, NEW z \in Zones, GetOrFetch(d, z)
      PROVE  call'[c].stale \subseteq refreshing'
  <2>1. d = c
    BY <1>1 DEF GetOrFetch
  <2>2. call'[c].stale = IF Stale(z) THEN {z} ELSE {}
    BY <1>1, <2>1 DEF GetOrFetch
  <2>3. QED
    BY <1>1, <2>2, ScheduleCovers DEF GetOrFetch
<1>2. ASSUME NEW d \in Callers, NEW zs \in SUBSET Zones, GetOrFetchBatch(d, zs)
      PROVE  call'[c].stale \subseteq refreshing'
  <2> DEFINE missing == {z \in zs : Missing(z)}
             stale == {z \in zs : Stale(z)}
  <2>1. d = c
    BY <1>2 DEF GetOrFetchBatch
  <2>2. call'[c].phase = (IF missing = {} THEN "done" ELSE "fetching") /\ call'[c].stale = stale
    BY <1>2, <2>1 DEF GetOrFetchBatch
  <2>3. missing = {}
    BY <2>2
  <2>4. ScheduleRefresh(stale)
    BY <1>2, <2>3 DEF GetOrFetchBatch
  <2>5. QED
    BY <2>2, <2>4, ScheduleCovers
<1>3. ASSUME NEW d \in Callers, FetchReturns(d)
      PROVE  call'[c].stale \subseteq refreshing'
  <2>1. d = c
    BY <1>3 DEF FetchReturns
  <2>2. call'[c].stale = call[c].stale
    BY <1>3, <2>1 DEF FetchReturns, Ended
  <2>3. QED
    BY <1>3, <2>1, <2>2, ScheduleCovers DEF FetchReturns
<1>4. ASSUME NEW d \in Callers, FetchRaises(d)
      PROVE  FALSE
  BY <1>4 DEF FetchRaises, Ended
<1>5. CASE Tick
  BY <1>5 DEF Tick, CallOlder
<1>6. ASSUME call' = call
      PROVE  FALSE
  BY <1>6
<1>7. QED
  BY <1>1, <1>2, <1>3, <1>4, <1>5, <1>6 DEF Next, RefreshEnds, Invalidate, vars

\* Whatever a request returns stale is being refreshed when it returns, also
\* when it awaited other zones in between (cache.py:56-99).
THEOREM CacheStaleRevalidates == Spec => StaleServedRevalidates
<1>1. CacheInv /\ [Next]_vars
        => [\A c \in Callers :
              call'[c].phase = "done" /\ call'[c] # call[c]
                => call'[c].stale \subseteq refreshing']_vars
  BY AnsweredRevalidates DEF CacheInv
<1>2. QED
  BY InitCacheInv, NextCacheInv, <1>1, PTL DEF Spec, StaleServedRevalidates
============================================================================
