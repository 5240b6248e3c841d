# Carbon Lens: specifications, checks and proofs

Carbon Lens tells programs where and when electricity is clean. It is a Python service (`src/src/carbonlens`) with an
SDK, middleware and a Kubernetes controller beside it, and a scheduled workflow that publishes a snapshot of every grid
for clients that use no server. This directory holds TLA+ models of it (first of the parts that keep state while other
things happen, then of the engines that compute an answer from readings), the TLC configurations that check them, and
proofs that TLAPS checks.

Paths below are relative to the repository; its Python package is `src/carbonlens`.

## 1. Inventory

### Components

| Component | State | Operations | Talks to |
|---|---|---|---|
| Intensity cache, `engine/cache.py` | `_store` (value, time) and `_refreshing` | `get_or_fetch`, `get_or_fetch_batch`, `invalidate`, background refreshes | called by router, scheduler, API, SLA engine; calls the carbon source |
| Hybrid source, `carbon_sources/hybrid.py`, `http_pool.py` | pooled clients | single and batch fetch, provider by provider | provider adapters, snapshot, mock |
| Provider adapters, `carbon_sources/*.py`, `flow_tracing.py`, `marginal.py` | a token, a curve kept half an hour | figures of an operator to a reading; marginal figures; consumption | the operators' services |
| SLA engine, `sla/engine.py` | none | `check_sla`, `generate_report` | cache or source |
| SLA monitor, `sla/monitor.py` | `_running`, `_task`, `_last_check`, `_alerts_sent` | `start`, `stop`, loop | SLA engine, webhooks |
| SLA service, `sla/routes.py`, `repository.py`, `seed.py` | tables `green_slas`, `sla_checks`, `sla_reports` | create, update, delete, check, report, `monitor/run`, demo seed | database, SLA engine; hourly cron |
| Carbon-suspend, `k8s/carbon_suspend.py` | none of its own; `.spec.suspend` of CronJobs | `reconcile` | Kubernetes API, carbon API; its own Job |
| Snapshot builder, `scripts/build_snapshot.py`, `snapshot.yml` | `snapshot.json`, `history.json` on the data branch | fetch, carry forward, append history, publish | hybrid source, CDN, git |
| Snapshot readers: `web/worker.js`, `snapshot_source.py`, `history_store.py`, `sdk.py` | cached copies | read, refresh, answer | CDN |
| Shedder, `middleware.py` | `_signal`, `_fetched_at`, `_refreshing` | `dispatch` | SDK |
| Waiting clients: `sdk.py`, `integrations/*`, `cli/green_run.py` | a deadline each | poll, defer, run, report | API or snapshot |
| Scheduler `scheduler/engine.py`, router and scorer `engine/router.py`, `scorer.py`, signal `engine/signal.py` | none | pure functions over readings | cache, history |
| Patterns: `engine/besttime.py`, `anomaly.py`, `recurring.py`, `clean_compute.py` | the series of weekly reports | pure functions over the archive | history store |
| Compliance, `compliance/*` | `_usage_store`, `_calculation_store`, `_report_store` | ingest, calculate (awaits the carbon source), report | hybrid source |
| Ledger and accounting, `cli/ledger.py`, `accounting/*` | entries in files and a table | append, summarize, calibrate, state | database or memory |
| WebSocket feed, metrics, badges, embeds, auth, CLI, web frontend | connections at most | formatting and wiring | the parts above |

### Interactions

* The cache sits between every request handler and the hybrid source. All of it runs on one asyncio event loop:
  everything between two `await`s is atomic, and anything may happen across one.
* The SLA service has two ways of checking: the in-process monitor, a task per process, and `POST /monitor/run`,
  triggered hourly by `sla-monitor.yml`. Both call `check_sla`. They share no memory, and the database only through the
  service.
* The snapshot builder reads the *previous* snapshot and history through a CDN that may be behind, and replaces both by
  a force push. Its readers see the two files through the same CDN, each at its own time.
* Waiting clients read a signal through caches that are refilled each on its own time (the SDK's copy of the snapshot;
  the API's copy of it and, behind that copy, its intensity cache), and keep a deadline of their own. The API's fetches of
  the snapshot may overtake each other.
* `/calculate` awaits the carbon source with the list of usage records in hand, which uploads extend meanwhile.
* The carbon-suspend controller is a Job: it lists, asks for signals, patches and reports over HTTP, while Kubernetes
  runs CronJobs and may kill or retry the Job.

### What is hard, and what makes each part correct

| Part | Hard behaviour | Correctness |
|---|---|---|
| Cache | many requests over one stale zone; refreshes that hang or fail; batches that wait on some zones while others age | one refresh per zone; it is released; nothing older than the stale window is served; stale values are refreshed |
| Monitor | `start`/`stop` by several callers across an await; failing checks and alerts | one loop; `stop` ends it; no check too early; no SLA starves; bounded alert list |
| Service | overlapping cron runs, PUT/DELETE between a load and a commit, checks committed out of order, two processes seeding | deleted stays deleted; newest check is the newest; due is checked; column and payload agree |
| Carbon-suspend | decisions on a listing that has aged; timeouts that add up to the Job's deadline; retries; partly applied patches | an overdue CronJob is never suspended and always gets to run |
| Snapshot | carrying carried readings; two files cached apart; cancelled runs; a bad day of the providers | live means recent; the files agree; a good snapshot is not replaced by an empty one; history is kept |
| Shedder | first requests at once; failed fetches; background fetches | one fetch; spacing; only the first waits; newest signal wins; shed on a dirty signal only |
| Waiting clients, readers | copies of copies; an API that fails; a triggerer that restarts; polls and countdowns | a job is started once, for a reason, no later than a poll past its patience; every wait ends; a clean start rests on a recent signal |
| Cascade | a batch answered in parts by several providers, some failing as a whole | every zone is answered; the most trusted batch that has a zone wins; where no batch lost a zone that its provider would have answered alone, batch and single agree |
| Compliance | usage that grows during a calculation; repeated calculations | a region is calculated whole or not at all; energy is counted once |
| Engines | ends of windows, ties, empty inputs, zero totals, rules written twice | agreement of the engines with each other, see `Questions` |

`PROJECT.json` lists the hazards one by one with their lines, and the property that would catch each.

## 2. Modules

| Module | Models | Extended by |
|---|---|---|
| `IntensityCache` | `engine/cache.py` | `MCIntensityCache`, `IntensityCacheProofs` |
| `SLAMonitor` | `sla/monitor.py` with the two endpoints that drive it | `MCSLAMonitor`, `SLAMonitorProofs` |
| `SLAService` | `sla/routes.py`, `repository.py` (database), `seed.py`, the cron | `MCSLAService`, `SLAServiceProofs` |
| `CarbonSuspend` | `k8s/carbon_suspend.py`, its Job and the CronJobs it governs | `MCCarbonSuspend`, `CarbonSuspendProofs` |
| `SnapshotBuild` | `scripts/build_snapshot.py`, `snapshot.yml`, the CDN | `MCSnapshotBuild`, `SnapshotBuildProofs` |
| `Shedder` | `middleware.py` | `MCShedder`, `ShedderProofs` |
| `WaitingClients` | `sdk.py`, `integrations/*`, `carbonlens run`, the API's and the SDK's copy of the snapshot | `MCWaitingClients`, `WaitingClientsProofs` |
| `Deferral` | what deferring a job promises (abstract) | implemented by `WaitingClients` |
| `Compliance` | `compliance/*` | `MCCompliance`, `QuestionsProofs` |
| `Readings` | a reading, its units, Python's `round()`, clean surplus | the modules below |
| `Scheduler`, `Signal`, `Decisions`, `Patterns`, `Ledger`, `Routing`, `SLAEvaluation` | the engines, one module each | `Questions` |
| `Providers`, `Cascade` | adapters; cascade, snapshot source, marginal source, archive, flow tracing | `Questions` |
| `Questions` | the stateless requests over those engines, one action each | `MCQuestions`, `QuestionsProofs` |

Each `MC` module gives values to constants that a `.cfg` cannot write. Operators whose comment begins with "Fault:" are
bugs the code does not have. Nothing uses them; each is a variant of the definition that follows it, kept to show that
the properties can fail.

Conventions. The code reads the clock only to subtract stored stamps from it, so models keep *ages* and one action
(`Tick`) lets them grow, capped where the code treats all older values alike; `SnapshotBuild` alone needs absolute time,
because stamps are compared with each other. Values of readings are abstracted to what a decision depends on.

### IntensityCache

`store[z]` is the age of the entry of `_store`, `refreshing` is `_refreshing`, `task[t]` a background task with the
zones it fetches, `call[c]` a request. `GetOrFetch` and `GetOrFetchBatch` are the two methods up to their await;
`FetchReturns` and `FetchRaises` what follows it; `RefreshEnds` both `_refresh_*` coroutines with their `finally`;
`Invalidate` both forms of `invalidate`. A batch fetch may answer for any part of the zones it was asked for. The stale
zones of a batch are scheduled *before* its await when nothing is missing and *after* it otherwise, as in the code, and
not at all when the fetch raises. The number of tasks that can exist at once is bounded by `Tasks`; with exclusive
refreshes as many as there are zones are enough.

### SLAMonitor

`Start`, `Stop`, `StopReturns` are the methods cut at `await self._task`; `Wake`, `Visit`, `CheckReturns`, `CheckRaises`,
`Alert`, `PassOver` the loop; `Cancelled` is CancelledError at whatever await the task stands at. `cancel()` only marks a
task. A loop keeps the list of SLAs it was started with. `Sequential` says whether `start()` may be called while a
`stop()` is under way: nothing in the code prevents it, so both are run.

### SLAService

A request is a handler with a session of its own. `Run`, `Demand` and `Seed` begin the handlers that check; `Look`,
`CheckReturns`, `Add` are the steps between their awaits. A row holds `active` twice, `column` (filtered by
`list_active_slas`) and `payload` (what clients read). `PutLoad`, `PutFetch` and `PutCommit` are the three database
round trips of a PUT: the copy made of the first read, the row loaded by `update_sla`, and the UPDATE, in which
SQLAlchemy leaves out a column whose value did not change since that session loaded it (`Written`). The database is
external: transactions commit atomically and an UPDATE of a row that is gone raises. A commit that fails in `add_check`
(`AddRaises`) leaves its session in need of a rollback that nothing does: the run logs it, and its next `latest_check`
raises outside of the `try`, so the run ends there, whatever SLAs it had still to visit.

### CarbonSuspend

`reconcile()` request by request: `Listed`, then for each item `SignalReturns` (once per region and pass, remembered in
`signals`), `SignalUnavailable` (skipped, *not* remembered), `SignalGarbled` (an uncaught exception), `Decide`,
`PatchReturns`/`PatchFails`, `Report`. `Raised` is the Job's retry, `Killed` its `activeDeadlineSeconds`. `Fire` is
Kubernetes running a CronJob, at any time, also between the list and the patch; `Tick` is the period of the controller.
`spent` counts the Job's deadline in timeouts of 20 s: a call that fails, of whatever kind, takes none or one; an answer
is taken to be prompt.
`since` is the age of the last run, which the code measures in hours since `lastScheduleTime` or creation.

### SnapshotBuild

`Start`, `LoadBaseline`, `Fetch` (the batch fetch and `_carry_forward`, with no step in between that changes state),
`Stamp` (`generated_at`), `Publish` or `TooFewLive`, and `Cancelled` between any two. `cdn` is what a GET of each file
answers; `CdnSnapshot` and `CdnHistory` bring it up to date separately. A region's history is the sequence of stamps of
its points. `Remap` is a commit that changes the region map.

### Shedder

`FirstFetch`, `Revalidate` and `Serve` are `_current_signal()` in its three outcomes, with the decision of `dispatch()`;
`FetchReturns` and `FetchRaises` end a fetch. `signalAge` and `endedAge` are history variables: the age of the data in
`_signal`, and the time since a fetch last ended.

### WaitingClients and Deferral

`job[j]` is a deferred job: its phase, how long it has `waited`, the client's own clock (`elapsed`) and sleep (`left`).
`kind[j]` says which client defers it. `PollSignal` is one turn of `wait_for_clean_window` and of the Airflow trigger's
`run()`, `ApplyWhenClean` and `RunPlanned` decide once, `WakePlanned` is the end of a countdown or sleep,
`RestartTrigger` a triggerer that starts `run()` again from `serialize()`. `server` holds the API's copy of the snapshot
and its entry of the `IntensityCache` for the zone, `flight` a fetch of either by another request, `sdk[j]` the SDK's
copy; a copy carries the time since it left the CDN or the operator (`taken`) beside the time since it was stored (`age`,
which is what the code looks at). As `api/deps.py` wires them, a signal is built from the snapshot where its copy has the
zone and from the cache elsewhere, and its current figures always come from the cache (`engine/signal.py:87`), which
answers with a stale entry up to twice its TTL old and refreshes it behind the answer; a signal is as old as the older of
the two (`Signal`). ENTSO-E's forecast curves have a cache of their own, which only shapes hours to come and is left out.
A client's own request takes no time, others' fetches may. `Deferral` has only phase, time waited, the reason of the
start, and the longest a job is kept; `Promised` maps one onto the other.

### Compliance

`usage`, `calculations`, `reports` are the stores; `call[c]` is a `/calculate` between its two halves (`CalculateBegins`,
`CalculateReturns`), with the zones looked up before the await. All else is atomic on the event loop. Adapters turn a
feed into records or fail as a whole.

### The engines and Questions

Functions of the code are operators over the same arguments, in whole numbers of the precision the code rounds to
(hundredths of a gram, tenths of a percent); `RoundDiv` is Python's `round()`. Floating-point error below that precision
is not modelled. Where the code compares unrounded floats of one expression, the operator compares the expression scaled
to integers. A `Questions` behaviour is one request: `question` holds what the engine is given, and one action per kind
of question answers it. What is asked of an answer is never its own definition again: it is compared with another engine
(`ClientsAgree`: SDK, Celery and controller; `LedgerAgrees`: host, fleet, regions, server copy), with another way to the
same figure (`ScheduleSound`: the forecast endpoint; `ReadingsSound`: single requests; `FiguresSound`: other operators'
formats), or with the answer to a neighbouring question (one more hour, a stricter limit, reversed points).

Three of these agreements hold only in part, and the properties say in which:

* `GET /forecast` takes ENTSO-E's curve and, without one, Open-Meteo's (`scheduler/engine.py:337`); the search for a slot
  knows ENTSO-E's only, for the cleanest zones, up to the last hour a job may start (`:165`). `FollowsForecast` speaks of
  every job: an hour for which the search has a curve must be what the endpoint shows, and any other hour what it would
  show without curves (`HourShown`).
* A provider of the cascade has `single`, what it answers zone by zone, and `batch`, what it answers when asked for a set
  of zones, and some calls raise as a whole (`raises`). The two differ in the adapters that have a batch of their own:
  `UKProvider` runs `UKRegional`, whose loop ends at the first region without a figure, and `ElectricityMapsProvider`
  loses a batch to one malformed reply. `ReadingsSound` says what a batch is in every case (each zone from the first
  provider whose batch has it), and that a zone is answered as it is alone unless some batch lost it. `ENTSOEProvider`
  alone retries, zone by zone.
* Adapters map the operator's labels by tables (`ENTSOETable`, `EIATable`, ...). `FiguresSound` compares the formats
  over generation whose labels an adapter knows, with several entries of one fuel, some negative: AEMO's and Taiwan's
  drop a negative figure, EIA's, ENTSO-E's and GridStatus's net it (IESO and AESO publish none). What ENTSO-E calls
  pumped storage is generation there and storage elsewhere.

## 3. Runs

| Run | Shows |
|---|---|
| `cache` | `RefreshExclusive`, `ServedAgeBound`, `StaleServedRevalidates`, `RefreshReleased` |
| `sla_monitor` | with `Sequential`: `OneLoop`, `StopStops`, `CheckSpacing`, `DueIsChecked` |
| `sla_monitor_overlap` | without it `StopStops` fails (finding) |
| `sla_service` | `DeletedStaysDeleted`, `NewestNeverOlder`, `DueIsChecked` |
| `carbon_suspend` | `NoSuspendOverdue`, `BackstopReached` |
| `carbon_suspend_outage` | `NeverStarved` fails for a region whose signal stays away (finding) |
| `snapshot_build` | `LiveIsRecent`, `HistorySound`, `BlipsBridged` |
| `shedder` | `OneFetch`, `OnlyFirstAwaits`, `SignalNeverOlder`, `FetchSpacing`, `RefreshEnds` |
| `waiting_clients` | `Promise` (refinement), `AlwaysEnds`, `ActedOnRecent` |
| `compliance` | `RegionWholeOrAbsent` |
| `compliance_double` | a calculation by each method makes a report count energy twice: `UsageCountedOnce` fails (finding) |
| `questions` | `ScheduleSound`, `ClientsAgree`, `PlanSound`, `PatternsSound`, `RouteSound`, `LedgerAgrees`, `ReadingsSound`, `FiguresSound`, `SLASound` |

### Bounds

* `IntensityCache.cfg`: two zones are the least for which a batch can be part missing, part stale; two callers the least
  that meet on a refresh; two tasks are as many as exclusive refreshes of two zones can need, so no step is lost to the
  bound. `TTL = 1` gives one fresh, one stale and the expired age; fetches and refreshes may last one unit, long enough
  for an entry to change class under way.
* `SLAMonitor.cfg`: two loop identities and two `stop()` callers allow a start between the two halves of a stop, and a
  stop while a stop waits. The two frequencies differ, and a pass may last one poll, so an SLA may come due during a pass.
* `SLAService.cfg`: two checking handlers overlap over two SLAs, one of which is the demo SLA that can be seeded again.
  Updates are of the demo SLA (`Edited`), which is also deleted and seeded again: a PUT meets its row, none, or a new
  one. The demo SLA is due
  at every second tick and a handler lasts one at most: a check that is as old as its SLA's frequency when it is stored
  would be due again at once. One PUT overlaps with deletes.
* `CarbonSuspend.cfg`: three CronJobs, two of the region whose signal may stay away (listed first, one of them without a
  deadline and one with a cap) and one of a reliable region listed last, which is the one that earlier trouble could
  starve. `Deadline` counts 20 s timeouts; the manifest's 120 s allow six, with which a pass and its retry look at all
  three CronJobs whatever times out. The run takes `Deadline = 5`, with which Jobs do get killed half-way. **With 4
  `BackstopReached` fails**: the failed signal of a region is not remembered, every item of that region waits for its own
  timeout, and the retry of a pass that raised shares the deadline of the first attempt, so a Job can be killed in every
  period before it looks at its last item. A cluster with more CronJobs in an unreachable region than half the deadline
  has timeouts is in that case.
* `SnapshotBuild.cfg`: two regions in two zones, readings carried for one tick, two points of history, and four ticks, in
  which a carried reading can be carried again, expire, and its history be trimmed.
* `Shedder.cfg`: three requests are the least for one that awaits, one that is answered meanwhile and one that comes
  after; two background tasks let a second fetch start, if the code let it.
* `WaitingClients.cfg`: every kind of client, each beside another that reads the same API, so that one client's fetch is
  the other's cached copy. `MaxWait = 3` is no multiple of `Poll = 2`: the last poll falls past the deadline. The
  copies' lifetimes differ and a fetch may last a unit, so a fetch begun earlier can be stored later. The proportions
  are the code's in this: an entry of the intensity cache is served longer (`2 * CacheTTL`) than the API's copy of the
  snapshot (`ServerTTL`), so that it, and not that copy, makes the bound (`ApiKept`) for clients of the API. A trigger
  restarts once.
* `Compliance.cfg`: two calculations at once over usage that grows to three records, of feeds that bring several records
  of one region, one without a figure and one of a region the map lacks, or that fail; the carbon source answers for any
  part of the zones.
* `Questions.cfg`: each question is asked with every combination of a few values on both sides of what its engine decides
  by: ties, empty lists, zero totals, missing figures, ends of windows, caps just below and at an intensity. The code's
  larger constants (`_FORECAST_TOP_K`, 24 hours of slots, minimum sample counts) are scaled down so that both sides of
  each are reached. An SLA with five zones is among those checked, the least number of which one may exceed the limit
  without a breach (the 20% rule), so that a check ends as a warning. The chains of providers contain batches that lose a
  zone and batches that do not; zones are forecast by Open-Meteo alone or by ENTSO-E as well, and jobs run past
  the end of the curve.

### Fairness

* Cache, shedder: weak fairness of the end of a fetch only, which `asyncio.wait_for` or the client's timeout enforces. No
  request is obliged to come.
* Monitor: weak fairness of each ready task, of `stop()`'s resumption and of time. Nobody is obliged to call `start()`.
* Service: time passes and the cron comes round again (strong fairness of `Run`: the cron finds a free handler again and
  again); a handler under way is resumed; handlers stop half-way and checks of the reliable SLAs fail only finitely
  often, and so do the commits of a check (`Breakdown`): a commit that fails whenever a run comes to it would end each
  run there and keep it from every SLA after that one. Checks of other SLAs may fail for ever. The last assumption is
  about steps, and a step of a failure can look like one of success: `Breakdown` leaves out the steps a healthy handler
  could have made, else no handler could end.
* Carbon-suspend: periods pass, schedules come round; the Kubernetes API answers again and again, and so do the regions
  called reliable; an item's signal is not answered with a non-JSON body for ever. Everything else may fail for ever.
* Waiting clients: timers fire, each source's fetch ends, stored or lost (httpx has timeouts), time passes, and a client
  whose turn has come takes it. Nothing is assumed of the grid or of outcomes: every request may fail, and the grid may
  stay dirty.
* Snapshot, compliance, questions: no fairness; their properties are safety properties.

### Findings

1. `sla/monitor.py:62`: a `start()` during a `stop()` loses its task; a later `stop()` cannot cancel it.
2. `k8s/carbon_suspend.py:171`: a CronJob whose signal is unavailable is skipped before its deadline is looked at, though
   the docstring promises that deferral never starves it. It stays suspended for as long as the outage lasts.
3. `compliance/routes.py:210`: `/calculate` recalculates all stored usage and extends the store, and a report that needs
   both accounting methods sums the energy and scope 3 of both calculations.

Met while modelling, and not the subject of a run:

* `scripts/build_snapshot.py:533`: a history baseline that could not be loaded, or that a CDN served from before the last
  push, is published without the earlier points (`:424` "Append this snapshot's readings to the rolling per-region
  history archive").
* `middleware.py:105`: without any signal, during and after a failed first fetch, optional requests get the 503 of a dirty
  grid (`:9` "while the grid is dirty").
* `sla/repository.py:135`: of two concurrent PUTs, one switching `active` off, the payload and the column can come to
  differ: SQLAlchemy leaves out the column that did not change since the session loaded it.
* `engine/signal.py:106`: the surplus window a signal names may be dirtier than now (`models/carbon.py:161` calls it the
  window of cleaner power). `NotablyCleaner` is not asked of it.
* `carbon_sources/gridstatus.py:90`: a mix in which nothing generates is published as 0 g, where the other adapters raise
  (`emission_factors.py:181`). `FeedsAgree` leaves this adapter out for such a mix.
* `sla/engine.py:206`: a day whose first check found no data stays "unknown" through later warnings, though not through a
  breach; `SLASound` leaves such days out.
* `sla/repository.py:149`: `add_check` commits without a rollback on failure, and `run_due_checks` catches and logs what
  it raises and goes on to the next SLA (`sla/routes.py:208`); but the session then refuses the next
  `latest_check` (`:206`), outside of the `try`, and the run answers 500 with the other SLAs unchecked until the next one.
* `scheduler/engine.py:176`: a search fetches curves up to `max_delay_hours`, the last hour a job may *start*, though a
  slot is scored over "its whole run window, including every hour it spans" (`:188`); the hours a job runs on past that
  are projected by the time-of-day model even in a zone with a forecast. So a longer search can rate the same slot worse
  and answer a worse one, and `/now` (which fetches one hour, `routes.py:105`) can rate a job of more than two hours
  differently from a search that starts it now. `LongerNeverWorse` and `NowIsTheFirstSlot` are stated for jobs that are
  over by the end of the fetched curve; TLC violates both for longer ones.
* `scheduler/engine.py:165`: a search knows ENTSO-E's curves only, though `GET /forecast` shows Open-Meteo's where ENTSO-E
  has none (`:337`): in such a zone the slot found, and the saving it promises, are not of the forecast a user sees.
* `carbon_sources/entsoe.py:93`: pumped storage (B10) is counted as hydro, so it enters the average and the renewable
  share of ENTSO-E's zones, though `emission_factors.py:19` leaves storage out of both and EIA's pumped storage is left
  out. `FiguresSound` states the exception.
* `carbon_sources/aemo.py`, `taiwan.py`: a negative figure (a plant that draws power) is dropped before the figures of a
  fuel are added up; EIA's, ENTSO-E's and GridStatus's net it. One generation gives different readings in the two kinds
  of format.
* `integrations/airflow.py:88`: a restarted trigger waits its whole time again; the patience in `Promise` counts that in.
* `sdk.py:145`: after a failed fetch the SDK serves its last snapshot whatever its age; `ActedOnRecent` leaves starts on
  such a copy out.
* `cli/green_run.py`: over one region, `choose_run_index` prefers an hour under the cap to a surplus ahead and
  `choose_run_plan` the reverse; `PlanSound` compares them where only one applies.
* `engine/scorer.py:45`: scores are rounded before sorting, so of two nearly equal regions the dirtier can win;
  `RouteSound` allows what the rounding hides.
* `carbon_sources/uk.py:101`: one region without a figure ends the loop of a batch, and the regions behind it are left to
  the cascade, though a request for one of them alone gets the UK's figure: a zone's source depends on what it is asked
  with. `carbon_sources/electricity_maps.py:52` does the same to a whole batch when one reply lacks its field.
* `carbon_sources/history_store.py:31`: a failed load is remembered for a TTL as an empty archive.
* `compliance/usage_ingestion.py`: Azure quantities may come from cost columns and count as vCPU hours.

## 4. Proofs

Every theorem says of a specification that it keeps an invariant, obeys an action property or, in one case, implements
another specification, for all values of the constants that satisfy the named assumptions. Each rests on an inductive
invariant with one lemma per action.

* `IntensityCacheProofs` (`CacheTypeCorrect`, `CacheRefreshExclusive`, `CacheServedAge`, `CacheStaleRevalidates`).
  `CacheInv` adds `HeldAge` to types and exclusiveness. `ServedAgeBound` speaks of requests that are done; for the
  induction the same has to hold of what a request holds *while* it awaits, in terms of how long it has been waiting.
  What scheduling does to `_refreshing` and the tasks is one lemma (`ScheduleEffect`), used by the three actions that
  schedule.
* `SLAMonitorProofs` (`MonitorTypeCorrect`; `MonitorOneLoop`, `MonitorStopStops` and `MonitorCheckSpacing` under
  `Sequential`). `Tracked` says that every loop task is
  the tracked one, that `_task` is set while the flag is, and that a live loop under a cleared flag has a `stop()`
  waiting for it. `DueInv` carries the decision that an SLA is due over the await of its check, which needs that no other
  loop records a check of it meanwhile, hence `Tracked`. `sla_monitor_overlap` shows that the assumption is needed. That
  some SLA has the longest frequency is assumed, as the code's frequencies are three constants.
* `SnapshotBuildProofs` (`BuildTypeCorrect`, `PublishedLiveIsRecent`, `PublishedHistorySound`, `PublishedBlipsBridged`).
  `BuildInv` bounds the age of live entries in the published snapshot, in the CDN, in the loaded baseline and in the
  snapshot being built, each relative to the time its run fetched. `HistoryInv` says that whatever version of a series a
  run can load is ordered and ends no later than the published stamp, and that the next stamp is later; that
  `AppendHistory` and the trimming keep a series ordered are lemmas about sequences. That the two files are read through
  a CDN at different times is why the invariant speaks of every version, not of the last. `Bridged` carries what a run
  owes its baseline from the fetch to the stamp.
* `SLAServiceProofs` (`ServiceTypeCorrect`, `ServiceDeletedStaysDeleted`, `ServiceNewestNeverOlder`). The UPDATE of a PUT
  meets a row or raises, so of the steps that touch the tables only the creates make a row, by whatever handler and with
  whatever copy. For the newest check, `StampInRun` (no check is stamped before its handler began) gives the new stamp
  its type, and the table keeps the newer of two checks in whatever order they are committed.
* `WaitingClientsProofs`. `ClientsKeepPromise` is the refinement `ClientsSpec => Promise`: every initial state and every
  step of the clients maps to one of `Deferral`. `Promise` forbids a job to wait beyond its patience, so the invariant
  has to say why each client wakes up in time: `JobsTimely` keeps, for each kind of job, its clock and its sleep within
  the time it may still spend, with a whole wait more for each restart its trigger has left. `ClientsActOnRecent` rests
  on `CopiesInv`: each copy of the API's, of the snapshot and of the live reading, and each fetch under way, left its
  source no longer before it was stored than a fetch may take, in whatever order fetches end; the bound is then that of
  the copy that is served longest, `2 * CacheTTL` for a stale entry that answers while it is refreshed.
  `WaitingAssumption` asks that forecasts are sequences of naturals, which the planned start needs to fall within the
  time agreed to.
* `ShedderProofs` (`ShedderTypeCorrect`, `ShedderOneFetch`, `ShedderOnlyFirstAwaits`, `ShedderFetchSpacing`,
  `ShedderNeverOlder`). `Awaits` ties a request that awaits to the one fetch under way and to no fetch having ended
  before; `Counted` says that `_fetched_at` is the end of the last fetch, failed or not, which makes the spacing a
  consequence of `NeedsFetch`; `Newer` says that a fetch under way began after the one whose signal is held.
* `CarbonSuspendProofs` (`SuspendTypeCorrect`, `SuspendNeverOverdue`). The controller's knowledge only errs to one side:
  ages grow between passes only, and a run in between makes them smaller, so what was listed is never younger than what
  is (`ListingOld`). A patch that suspends was decided for an item that the listing showed not to be overdue
  (`WantJustified`), hence it is not overdue at the moment of the patch.
* `QuestionsProofs` (`SignalClientsAgree`, `PlansKeepPromise`, `BatchIsOfSingles`, `ReportsTellTheWorst`,
  `RoutesAreAllowedAndClean`, `LedgersAgree`, `SchedulesAreSound`, and of `Compliance` `RegionsAreWhole`). A behaviour
  of `Questions` is one request, so the inductive invariant `Replies` only says what an answer is made of; the work is
  in lemmas about the engines. `QuestionsAssumption` types what they are given: a forecast has an hour 0 and figures
  within the bounds of the reading's type, a region that is named twice has one forecast, no figure of a provider's
  batch differs from the one it answers alone (a batch may lack any of them, `BatchOfSingles`), batches of an SLA are of
  finitely many zones, a carbon weight is between 0 and 1, no run is recorded with a negative reduction
  (`cli/main.py:361` takes the greater of it and 0), a curve is in percent of the load and a search is of an hour or
  more (`scheduler/routes.py:56`).
  * *Signal*: `SignalHasShape` says what `build_signal` can answer, and `ReadersAgree` that SDK, Celery and
    controller read it alike.
  * *Plan*: the chosen candidate is least in the order the code sorts by, and every reason but a surplus, a cap or the
    least saving puts the cleanest hour of all first.
  * *Readings*: `MergeIsFirst` says that the fold over the chain gives each zone the first answer of the chain.
    `BatchFollowsSingles` then reads a batch as single requests over the chain without the providers that lost the zone;
    that leaving providers out of a chain moves its first answer as it should is a fact about `Picked`, the elements of a
    sequence at a set of indices, counted off in order (`CountedOff`, `PickedAre`), and `KeepingAnswersAlike` gives the
    case in which nothing was lost. Nothing is assumed of which zones a batch loses.
  * *SLA*: folds over finite sets have no induction theorem the provers can use. `FoldExists` constructs the fold level by
    level of cardinality, and `SubsetInduction` then shows that sums are integers and that a day is its worst check
    (`DayFoldIsWorst`) whatever order the set is gone through in.
  * *Route*: `CandidatesAreOffered` and `ReachedAreAllowed` make the loops over providers and regions the set `Allowed`;
    `SortedAre` says that sorting gives each scored candidate one place and puts the least score first; a score that
    rounds to 0 bounds what the choice gave up (`RoundDivFacts`). `SumAtLeast` bounds the tracker's mean: the cleanest
    choice is sure to count as a reduction when the dirtiest candidate is further from it, in hundredths of a gram, than
    there are candidates; otherwise rounding to two decimals may hide it. `RouteSound` says exactly that.
  * *Ledger*: each loop's filter is the set of indices it keeps (`FiltersPick`), and a sum over the entries kept is a sum
    over a finite set (`SumOn`, `SumOfPicked`), which can be split by region (`GroupsAddUp`, `GroupSumsAddUp`) and
    carried along a renumbering (`SetsTaken`). So the fleet's rows add up to its totals but for one unit of rounding a
    region (`RoundedSums`), and the server's newest-first copy has the host's summary (`CopySummarizesAlike`).
    `RatioOfMeans` bounds what rounding does to a calibration: mean prediction and ratio are rounded before they are
    multiplied.
  * *Scheduler*: `WindowIsLeader` says that a search answers the one slot that ranks before all others (`OneLeads`).
    `SlotOfBoth` says that two searches of the same regions see the same slot where the curves of both reach the job's
    last hour: so an hour more of patience only adds slots, and the slots of a search for now are the first of a longer
    one. `ForecastIsFollowed` compares the slot found with the forecast endpoint hour by hour (`HourIsShown`), for jobs of
    any length: a curve fetched up to an hour and one fetched up to the last start agree wherever both reach
    (`FetchesAgree`), and where the search has no curve both fall back to the time of day.
  * *Compliance*: `Metered` says that the stored usage and the stored calculations of every organisation are lists of
    records with whole energies (for all four parsers of uploads), and that a `/calculate` under way is one of an
    organisation of the store. `CalculatedAreMetered` is the step: whatever was looked up before the await, what is
    appended after it is picked from the store as it is then, and has of every region all of the energy or, without an
    intensity, none of it. Energies are sums over picked records (`EnergyOfUsage`), so no induction over data is needed.

Only model-checked: every liveness property (fairness and ENABLED are outside the prover's reach), and of the engines
behind `Questions` the patterns and the figures (`PatternsSound`, `FiguresSound`). The first filter with `SelectSeq`,
whose recursion the backends cannot expand, and compare what a report says with the same report of reversed points. The
second relate an operator's megawatts to a reading by quotients of sums and by a fixed number of rounds of flow tracing,
where each round is rational arithmetic that no backend here decides. Engines that are reasoned about filter with
`Picked` and sort by counting instead.

Three proofs did not go through at first for a reason in the model. The bound first stated for a calibration took one
rounding into account, and the ratio times the mean prediction is rounded three times; TLC violates the earlier bound
with predictions of 1 and 2. A ratio of 0 is not applied by `carbonlens run` (`cli/main.py:383`) and is left out. And
the scheduler's curves were taken to reach as far as a job does and to be those of the forecast endpoint (see the findings
on `scheduler/engine.py`).

## 5. Not modelled

* The WebSocket feed (a loop per connection that sends what the cache answers), authentication (a comparison per
  request), database declarations and migrations, the web frontend and worker, generated files, charts and deployment
  manifests other than the ones named: no state or decision of their own beyond the parts above.
* Of the API: siting and shiftability listings (sorts of figures modelled in `Patterns`), badges, embeds, citations,
  methodology, metrics, weather, source health (it asks the cascade, whose mock answers for a dead source).
* Of the CLI: the commands that print an answer, `config` and `doctor`; files of the ledger.
* Of the adapters: requests, XML and HTML parsing, tables of zones. Tables of labels are modelled by the fuels they lead
  to, labels that lead to one fuel as one. Their unit is the figure they were given.
* Within modelled parts: the wording and delivery formats of alerts, SLA reports (appended, never read back by a
  decision), the in-memory SLA store's cap, signals, forecasts and weather of a snapshot (best effort, no effect on the
  two files' agreement), stored cron schedules (a dictionary), compliance exports.

## 6. Plan

1. An abstract *bounded-staleness cache* that `IntensityCache`, `Shedder` and the snapshot readers implement, and
   `WaitingClients` composed with `SnapshotBuild`, so that the age a client acts on counts from the measurement.
2. The hourly cron composed with `SLAService`: the rate at which an hourly SLA is checked.
3. Proofs: `PatternsSound` and `FiguresSound`, starting with their conjuncts that need no sum.
4. Siting and shiftability listings; the stored cron schedules.
