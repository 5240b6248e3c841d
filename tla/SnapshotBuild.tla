---------------------------- MODULE SnapshotBuild ----------------------------
(***************************************************************************)
(* The snapshot builder of scripts/build_snapshot.py and the workflow that *)
(* runs it (.github/workflows/snapshot.yml): every run fetches all zones,  *)
(* carries recent live readings of the previous snapshot forward over      *)
(* gaps, appends to the rolling history and force-pushes both files to the *)
(* data branch, from which the next run, the API, the worker and the       *)
(* frontend read them through a CDN.                                       *)
(*                                                                         *)
(* The concurrency group of the workflow cancels a run that is in progress *)
(* when the next one starts, so one run exists at a time and may end after *)
(* any of its steps.  The CDN caches each file by itself and may answer    *)
(* with the version before the last push.                                  *)
(***************************************************************************)
EXTENDS Integers, Sequences, FiniteSets

CONSTANTS
  Regions,    \* keys "provider/region"
  Zones,      \* grid zones
  ZoneOf,     \* ZoneOf[k]: the zone of region k
  MaxStale,   \* max_stale_hours
  Lag,        \* how old the reading of a live provider can be when fetched
  MaxPoints,  \* _HISTORY_MAX_POINTS
  MinLive,    \* --min-live
  BuildMax,   \* longest run
  Horizon,    \* bound: the clock stops here
  None        \* no entry, no file

Time == 0..Horizon

\* An entry of `intensities`: its quality and the timestamp of its reading.
Entry == [quality : {"live", "estimated"}, ts : Int]

ASSUME BuildAssumption ==
  /\ ZoneOf \in [Regions -> Zones]
  /\ IsFiniteSet(Regions)
  /\ MaxStale \in Nat /\ Lag \in Nat /\ BuildMax \in Nat /\ Horizon \in Nat
  /\ MaxPoints \in Nat \ {0}
  /\ MinLive \in Nat
  /\ None \notin Entry

VARIABLES
  now,        \* the wall clock
  published,  \* snapshot.json on the data branch
  history,    \* history.json on the data branch
  cdn,        \* what a GET of the two files answers now
  mapped,     \* the regions of the region map
  phase,      \* the next step of the run; "idle" between runs
  started,    \* when the run started
  baseline,   \* the intensities it loaded of the previous snapshot
  snapshot    \* the snapshot it has built so far

run == <<phase, started, baseline, snapshot>>
files == <<published, history>>
vars == <<now, files, cdn, mapped, run>>

NoEntries == [k \in Regions |-> None]
NoSeries == [k \in Regions |-> <<>>]
NoSnapshot == [generatedAt |-> 0, intensities |-> NoEntries]

Init ==
  /\ now = 0
  /\ published = NoSnapshot
  /\ history = NoSeries
  /\ cdn = [snapshot |-> NoSnapshot, history |-> NoSeries]
  /\ mapped = Regions
  /\ phase = "idle"
  /\ started = 0
  /\ baseline = NoEntries
  /\ snapshot = NoSnapshot

----------------------------------------------------------------------------
(* build_snapshot and _carry_forward.                                      *)

Live(entry) == entry # None /\ entry.quality = "live"

\* What the cascade answers for a zone: a live reading of some age, an
\* estimate made now, or the mock.
Answers == {[quality |-> q, ts |-> t] : q \in {"live", "estimated"}, t \in (now - Lag)..now}
           \cup {None}

\* Fault: no cutoff.
CarriedForever(prev, k) == Live(prev[k])

\* A region keeps its last live reading while that is recent enough.
Carried(prev, k) == Live(prev[k]) /\ now - prev[k].ts <= MaxStale

\* Fault: a region is bridged only when there is no answer for it at all.
IntensitiesGapsOnly(answer, prev) ==
  [k \in Regions |->
     IF k \notin mapped THEN None
     ELSE IF answer[ZoneOf[k]] = None /\ Carried(prev, k) THEN prev[k]
     ELSE answer[ZoneOf[k]]]

\* The intensities of this run, for the regions of the map: live readings, then
\* carried ones, then estimates; mock readings are dropped.
Intensities(answer, prev) ==
  [k \in Regions |->
     IF k \notin mapped THEN None
     ELSE IF ~Live(answer[ZoneOf[k]]) /\ Carried(prev, k) THEN prev[k]
     ELSE answer[ZoneOf[k]]]

----------------------------------------------------------------------------
(* append_history.                                                         *)

\* Fault: trimmed from the wrong end.
LastPointsDropped(series) ==
  IF Len(series) <= MaxPoints THEN series ELSE SubSeq(series, 1, MaxPoints)

\* Fault: not trimmed.
AllPoints(series) == series

\* series[-max_points:]
LastPoints(series) ==
  IF Len(series) <= MaxPoints THEN series
  ELSE SubSeq(series, Len(series) - MaxPoints + 1, Len(series))

\* Every region of the snapshot gets a point stamped generated_at, which
\* replaces a last point of the same stamp; other series stay as they are.
AppendHistory(prev, snap) ==
  [k \in Regions |->
     IF snap.intensities[k] = None THEN prev[k]
     ELSE LET n == Len(prev[k])
              kept == IF n > 0 /\ prev[k][n] = snap.generatedAt
                      THEN SubSeq(prev[k], 1, n - 1) ELSE prev[k]
          IN  LastPoints(Append(kept, snap.generatedAt))]

----------------------------------------------------------------------------
(* A run: _main and the publish step of the workflow.                      *)

Idle ==
  /\ phase' = "idle"
  /\ started' = 0
  /\ baseline' = NoEntries
  /\ snapshot' = NoSnapshot

\* The cron, or a workflow_dispatch.
Start ==
  /\ phase = "idle"
  /\ phase' = "baseline"
  /\ started' = now
  /\ UNCHANGED <<now, files, cdn, mapped, baseline, snapshot>>

\* _load_baseline of the snapshot: what the CDN has, or nothing on any failure.
LoadBaseline ==
  /\ phase = "baseline"
  /\ phase' = "fetch"
  /\ baseline' \in {cdn.snapshot.intensities, NoEntries}
  /\ UNCHANGED <<now, files, cdn, mapped, started, snapshot>>

\* The batch fetch of all zones, and the carry-forward right after it.
Fetch ==
  /\ phase = "fetch"
  /\ phase' = "precompute"
  /\ \E answer \in [Zones -> Answers] :
       snapshot' = [snapshot EXCEPT !.intensities = Intensities(answer, baseline)]
  /\ UNCHANGED <<now, files, cdn, mapped, started, baseline>>

\* Signals, forecasts and weather are computed, best effort; generated_at is
\* stamped after them.  No two runs read the same microsecond.
Stamp ==
  /\ phase = "precompute"
  /\ now > published.generatedAt
  /\ phase' = "history"
  /\ snapshot' = [snapshot EXCEPT !.generatedAt = now]
  /\ UNCHANGED <<now, files, cdn, mapped, started, baseline>>

LiveRegions(snap) == {k \in Regions : Live(snap.intensities[k])}

\* Fault: the exit status of the build is not looked at.
EnoughAlways(snap) == TRUE

\* The exit status: --min-live regions are published live.
Enough(snap) == Cardinality(LiveRegions(snap)) >= MinLive

\* The history baseline is loaded like the snapshot's, the snapshot appended
\* to it, and both files are pushed in one commit.
Publish ==
  /\ phase = "history"
  /\ Enough(snapshot)
  /\ \E prev \in {cdn.history, NoSeries} : history' = AppendHistory(prev, snapshot)
  /\ published' = snapshot
  /\ Idle
  /\ UNCHANGED <<now, cdn, mapped>>

\* Too few live regions: exit 1, and the job ends before the publish step.
TooFewLive ==
  /\ phase = "history"
  /\ ~Enough(snapshot)
  /\ Idle
  /\ UNCHANGED <<now, files, cdn, mapped>>

\* A failed step, or the next run cancels this one.
Cancelled ==
  /\ phase # "idle"
  /\ Idle
  /\ UNCHANGED <<now, files, cdn, mapped>>

----------------------------------------------------------------------------
(* The CDN, the region map and the clock.  The CDN is behind for less than *)
(* a tick.                                                                 *)

CdnSnapshot ==
  /\ cdn' = [snapshot |-> published, history |-> cdn.history]
  /\ UNCHANGED <<now, files, mapped, run>>

CdnHistory ==
  /\ cdn' = [snapshot |-> cdn.snapshot, history |-> history]
  /\ UNCHANGED <<now, files, mapped, run>>

\* A commit changes data/region_grid_map.yaml; a run works on its own checkout.
Remap ==
  /\ phase = "idle"
  /\ mapped' \in SUBSET Regions
  /\ UNCHANGED <<now, files, cdn, run>>

Tick ==
  /\ now < Horizon
  /\ cdn = [snapshot |-> published, history |-> history]
  /\ phase # "idle" => now - started < BuildMax
  /\ now' = now + 1
  /\ UNCHANGED <<files, cdn, mapped, run>>

----------------------------------------------------------------------------

Next ==
  \/ Start \/ LoadBaseline \/ Fetch \/ Stamp \/ Publish \/ TooFewLive \/ Cancelled
  \/ CdnSnapshot \/ CdnHistory \/ Remap \/ Tick

Spec == Init /\ [][Next]_vars

----------------------------------------------------------------------------

\* The oldest reading a run can label live.
OldestLive == IF MaxStale > Lag THEN MaxStale ELSE Lag

Snapshots == [generatedAt : Time, intensities : [Regions -> Entry \cup {None}]]

\* Every variable has its type; the history stays within its bound
\* (build_snapshot.py:417-418).
TypeOK ==
  /\ now \in Time /\ started \in Time /\ mapped \subseteq Regions
  /\ phase \in {"idle", "baseline", "fetch", "precompute", "history"}
  /\ published \in Snapshots /\ snapshot \in Snapshots /\ cdn.snapshot \in Snapshots
  /\ baseline \in [Regions -> Entry \cup {None}]
  /\ \A k \in Regions : \A series \in {history[k], cdn.history[k]} :
       series \in Seq(Time) /\ Len(series) <= MaxPoints

\* Carrying a carried reading forward again does not keep it alive: whatever
\* is published as live was measured at most max_stale_hours (or the lag of a
\* live provider) before the run that published it fetched its readings.
LiveIsRecent ==
  \A k \in Regions :
    Live(published.intensities[k])
      => published.generatedAt - published.intensities[k].ts <= BuildMax + OldestLive

\* The two files agree, though their previous versions are read through a CDN
\* that may be behind: each series is strictly ordered, ends no later than the
\* snapshot, and for a region of the snapshot ends with the snapshot's stamp.
HistorySound ==
  \A k \in Regions :
    LET n == Len(history[k]) IN
    /\ \A i \in 1..(n - 1) : history[k][i] < history[k][i + 1]
    /\ n > 0 => history[k][n] <= published.generatedAt
    /\ published.intensities[k] # None => n > 0 /\ history[k][n] = published.generatedAt

\* What was live is not lost to a blip: a region that was live in the baseline
\* a run loaded, and whose reading is still recent when the run publishes, is
\* published live, whatever the providers answered in between
\* (build_snapshot.py:68-71); and a snapshot with too few live regions does not
\* replace the last good one (:576).
BlipsBridged ==
  [][published' # published =>
       /\ Cardinality(LiveRegions(published')) >= MinLive
       /\ \A k \in mapped :
            Live(baseline[k]) /\ published'.generatedAt - baseline[k].ts <= MaxStale
              => Live(published'.intensities[k])]_vars
============================================================================
