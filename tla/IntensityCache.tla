--------------------------- MODULE IntensityCache ---------------------------
(***************************************************************************)
(* The in-memory stale-while-revalidate cache of src/carbonlens/engine/    *)
(* cache.py, shared by the router, the scheduler, the carbon API and the   *)
(* SLA engine (api/deps.py wraps the carbon source in it).                 *)
(*                                                                         *)
(* asyncio runs one coroutine at a time, so an action is the code between  *)
(* two awaits.  A request awaits its blocking fetch; a background refresh  *)
(* awaits its fetch under a 30 s wait_for.  Everything else is atomic.     *)
(*                                                                         *)
(* The code reads the clock only to subtract stored stamps from it, so the *)
(* model keeps, of each cached value, its age: the time since it was       *)
(* stored.                                                                 *)
(***************************************************************************)
EXTENDS Integers, FiniteSets

CONSTANTS
  Zones,           \* grid zones
  Callers,         \* concurrent requests
  Tasks,           \* identities of background refresh tasks
  TTL,             \* ttl_seconds
  FetchMax,        \* longest blocking fetch (the provider's own HTTP timeouts)
  RefreshTimeout,  \* the timeout of asyncio.wait_for around a refresh
  Absent           \* no entry in _store for a zone

\* Ages are capped at 2 * TTL: the code treats every older entry alike.
Entry == 0..(2 * TTL)

\* A value already handed to a request keeps ageing while the request awaits
\* the zones it misses.
Held == 0..(2 * TTL + FetchMax)

ASSUME CacheAssumption ==
  /\ TTL \in Nat \ {0}
  /\ FetchMax \in Nat
  /\ RefreshTimeout \in Nat
  /\ Absent \notin Held

VARIABLES
  store,       \* store[z]: the age of zone z's entry in _store, or Absent
  refreshing,  \* _refreshing: zones a background refresh is running for
  task,        \* task[t]: zones that refresh task t fetches ({}: no task), and for how long
  call         \* call[c]: the request of caller c (batch matters only while it fetches)

vars == <<store, refreshing, task, call>>

NoTask == [zones |-> {}, elapsed |-> 0]

NoCall == [phase |-> "idle", batch |-> FALSE, missing |-> {}, stale |-> {},
           got |-> [z \in Zones |-> Absent], elapsed |-> 0]

Init ==
  /\ store = [z \in Zones |-> Absent]
  /\ refreshing = {}
  /\ task = [t \in Tasks |-> NoTask]
  /\ call = [c \in Callers |-> NoCall]

----------------------------------------------------------------------------
(* How an entry is classified: _age and the comparisons with the ttl.      *)

Fresh(z) == store[z] # Absent /\ store[z] < TTL

\* Fault: `<=` for `<` at the far end of the stale window.
StaleOffByOne(z) == store[z] # Absent /\ store[z] >= TTL /\ store[z] <= 2 * TTL

Stale(z) == store[z] # Absent /\ store[z] >= TTL /\ store[z] < 2 * TTL

Missing(z) == ~Fresh(z) /\ ~Stale(z)

\* The identity of the next task asyncio.create_task makes.
FreeTask == CHOOSE t \in Tasks : task[t].zones = {}

\* Fault: zones already being refreshed are not left out.
ScheduleRefreshAgain(zs) ==
  IF zs = {}
  THEN UNCHANGED <<refreshing, task>>
  ELSE /\ refreshing' = refreshing \cup zs
       /\ \E t \in Tasks : task[t].zones = {}
       /\ task' = [task EXCEPT ![FreeTask] = [zones |-> zs, elapsed |-> 0]]

(* _schedule_refresh_single and _schedule_refresh_batch: zones that are    *)
(* already being refreshed are left out, and nothing is started for none.  *)
ScheduleRefresh(zs) ==
  LET todo == zs \ refreshing IN
  IF todo = {}
  THEN UNCHANGED <<refreshing, task>>
  ELSE /\ refreshing' = refreshing \cup todo
       /\ \E t \in Tasks : task[t].zones = {}
       /\ task' = [task EXCEPT ![FreeTask] = [zones |-> todo, elapsed |-> 0]]

\* `entries` with the zones `got` just fetched: _store, or a request's results.
Updated(entries, got) == [z \in Zones |-> IF z \in got THEN 0 ELSE entries[z]]

----------------------------------------------------------------------------
(* A request: get_or_fetch (one zone) or get_or_fetch_batch (several).     *)

\* get_or_fetch before its await: a fresh or stale entry is returned, a stale
\* one after a refresh was scheduled; a missing or expired one is fetched.
GetOrFetch(c, z) ==
  /\ call[c].phase # "fetching"
  /\ call' = [call EXCEPT ![c] =
       [phase |-> IF Missing(z) THEN "fetching" ELSE "done",
        batch |-> FALSE,
        missing |-> IF Missing(z) THEN {z} ELSE {},
        stale |-> IF Stale(z) THEN {z} ELSE {},
        got |-> [y \in Zones |-> IF y = z /\ ~Missing(z) THEN store[z] ELSE Absent],
        elapsed |-> 0]]
  /\ ScheduleRefresh(IF Stale(z) THEN {z} ELSE {})
  /\ UNCHANGED store

\* get_or_fetch_batch before its await: every zone is classified against one
\* clock reading.  Refreshes are scheduled here only when no zone is missing.
GetOrFetchBatch(c, zs) ==
  LET missing == {z \in zs : Missing(z)}
      stale == {z \in zs : Stale(z)} IN
  /\ call[c].phase # "fetching"
  /\ call' = [call EXCEPT ![c] =
       [phase |-> IF missing = {} THEN "done" ELSE "fetching",
        batch |-> missing # {}, missing |-> missing, stale |-> stale,
        got |-> [z \in Zones |-> IF z \in zs \ missing THEN store[z] ELSE Absent],
        elapsed |-> 0]]
  /\ ScheduleRefresh(IF missing = {} THEN stale ELSE {})
  /\ UNCHANGED store

\* The request of c after its await, with what it returns.
Ended(c, phase, got, elapsed) ==
  [phase |-> phase, batch |-> FALSE, missing |-> {}, stale |-> call[c].stale,
   got |-> got, elapsed |-> elapsed]

\* Fault: the batch forgets, after its await, the stale zones found before it.
FetchReturnsOnly(c) ==
  /\ call[c].phase = "fetching"
  /\ \E got \in SUBSET call[c].missing :
       /\ ~call[c].batch => got = call[c].missing
       /\ store' = Updated(store, got)
       /\ call' = [call EXCEPT ![c] = Ended(c, "done", Updated(call[c].got, got), call[c].elapsed)]
  /\ UNCHANGED <<refreshing, task>>

\* The awaited fetch returns: a single fetch its zone, a batch fetch any part
\* of what it was asked for.  The stale zones found before the await are
\* refreshed now.
FetchReturns(c) ==
  /\ call[c].phase = "fetching"
  /\ \E got \in SUBSET call[c].missing :
       /\ ~call[c].batch => got = call[c].missing
       /\ store' = Updated(store, got)
       /\ call' = [call EXCEPT ![c] = Ended(c, "done", Updated(call[c].got, got), call[c].elapsed)]
  /\ ScheduleRefresh(call[c].stale)

\* The awaited fetch raises: the exception leaves get_or_fetch[_batch] before
\* anything is stored, returned or scheduled.
FetchRaises(c) ==
  /\ call[c].phase = "fetching"
  /\ call' = [call EXCEPT ![c] = Ended(c, "failed", NoCall.got, 0)]
  /\ UNCHANGED <<store, refreshing, task>>

----------------------------------------------------------------------------
\* Fault: zones are released by the success path and not by `finally`.
RefreshEndsNoFinally(t) ==
  /\ task[t].zones # {}
  /\ \E got \in SUBSET task[t].zones :
       /\ store' = Updated(store, got)
       /\ refreshing' = IF got = {} THEN refreshing ELSE refreshing \ task[t].zones
  /\ task' = [task EXCEPT ![t] = NoTask]
  /\ UNCHANGED call

(* A background refresh ends: with what the source answered, which is      *)
(* nothing when it raised or the 30 s ran out.  `finally` releases its     *)
(* zones in every case.                                                    *)
RefreshEnds(t) ==
  /\ task[t].zones # {}
  /\ \E got \in SUBSET task[t].zones : store' = Updated(store, got)
  /\ refreshing' = refreshing \ task[t].zones
  /\ task' = [task EXCEPT ![t] = NoTask]
  /\ UNCHANGED call

\* invalidate(zone), and invalidate() for every zone.  Fetches and refreshes
\* under way are not told.
Invalidate(zs) ==
  /\ store' = [z \in Zones |-> IF z \in zs THEN Absent ELSE store[z]]
  /\ UNCHANGED <<refreshing, task, call>>

----------------------------------------------------------------------------
(* Time.  A refresh does not outlive its wait_for, a blocking fetch does   *)
(* not outlive the provider's timeouts.                                    *)

Older(e) == IF e = Absent \/ e = 2 * TTL THEN e ELSE e + 1

HeldOlder(e) == IF e = Absent THEN e ELSE e + 1

TaskOlder(k) ==
  IF k.zones = {} THEN k ELSE [zones |-> k.zones, elapsed |-> k.elapsed + 1]

CallOlder(r) ==
  IF r.phase # "fetching" THEN r
  ELSE [phase |-> r.phase, batch |-> r.batch, missing |-> r.missing, stale |-> r.stale,
        got |-> [z \in Zones |-> HeldOlder(r.got[z])], elapsed |-> r.elapsed + 1]

\* Fault: the refresh runs without asyncio.wait_for.
TickNoTimeout ==
  /\ \A c \in Callers : call[c].phase = "fetching" => call[c].elapsed < FetchMax
  /\ store' = [z \in Zones |-> Older(store[z])]
  /\ task' = [t \in Tasks |-> TaskOlder(task[t])]
  /\ call' = [c \in Callers |-> CallOlder(call[c])]
  /\ UNCHANGED refreshing

Tick ==
  /\ \A t \in Tasks : task[t].elapsed < RefreshTimeout
  /\ \A c \in Callers : call[c].phase = "fetching" => call[c].elapsed < FetchMax
  /\ store' = [z \in Zones |-> Older(store[z])]
  /\ task' = [t \in Tasks |-> TaskOlder(task[t])]
  /\ call' = [c \in Callers |-> CallOlder(call[c])]
  /\ UNCHANGED refreshing

----------------------------------------------------------------------------

Next ==
  \/ \E c \in Callers, z \in Zones : GetOrFetch(c, z)
  \/ \E c \in Callers, zs \in SUBSET Zones : GetOrFetchBatch(c, zs)
  \/ \E c \in Callers : FetchReturns(c)
  \/ \E c \in Callers : FetchRaises(c)
  \/ \E t \in Tasks : RefreshEnds(t)
  \/ \E z \in Zones : Invalidate({z})
  \/ Invalidate(Zones)
  \/ Tick

\* wait_for ends every refresh: answered, failed or timed out.
Fairness == \A t \in Tasks : WF_vars(RefreshEnds(t))

Spec == Init /\ [][Next]_vars /\ Fairness

----------------------------------------------------------------------------

\* Every variable has its type; in particular no refresh outlives its
\* wait_for (cache.py:98, cache.py:119).
TypeOK ==
  /\ store \in [Zones -> Entry \cup {Absent}]
  /\ refreshing \subseteq Zones
  /\ task \in [Tasks -> [zones : SUBSET Zones, elapsed : 0..RefreshTimeout]]
  /\ call \in [Callers ->
       [phase : {"idle", "fetching", "done", "failed"}, batch : BOOLEAN,
        missing : SUBSET Zones, stale : SUBSET Zones,
        got : [Zones -> Held \cup {Absent}], elapsed : 0..FetchMax]]

\* A zone is in _refreshing exactly while one background refresh fetches it:
\* concurrent stale reads never start a second one (cache.py:92, cache.py:113)
\* and no zone stays marked without a task that will release it.
RefreshExclusive ==
  /\ refreshing = UNION {task[t].zones : t \in Tasks}
  /\ \A t, u \in Tasks : t # u => task[t].zones \cap task[u].zones = {}

\* No request returns an entry stored 2 * ttl or longer before the request
\* began: what it returns has aged past the documented window by no more than
\* the time the request itself awaited the zones it missed (cache.py:76-83).
ServedAgeBound ==
  \A c \in Callers, z \in Zones :
    call[c].phase = "done" /\ call[c].got[z] # Absent
      => call[c].got[z] < 2 * TTL + call[c].elapsed

\* Stale-while-revalidate: in the step in which a request returns values it
\* found stale, each of their zones has a refresh under way, also when the
\* request awaited other zones in between.
StaleServedRevalidates ==
  [][\A c \in Callers :
       call'[c].phase = "done" /\ call'[c] # call[c]
         => call'[c].stale \subseteq refreshing']_vars

\* A zone marked as being refreshed is released again, whatever the fetch
\* does, so it never becomes a zone that is served stale for good.
RefreshReleased ==
  \A z \in Zones : z \in refreshing ~> z \notin refreshing
============================================================================
