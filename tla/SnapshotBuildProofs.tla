------------------------- MODULE SnapshotBuildProofs -------------------------
(***************************************************************************)
(* Theorems about SnapshotBuild: however often a reading is carried from   *)
(* one snapshot to the next, whatever versions the CDN answers with and    *)
(* wherever runs are cancelled, what is published as live is recent.       *)
(***************************************************************************)
EXTENDS SnapshotBuild, SequenceTheorems, TLAPS

Entries == [Regions -> Entry \cup {None}]

\* What the ages depend on.
BuildType ==
  /\ now \in Int
  /\ started \in Int
  /\ phase \in {"idle", "baseline", "fetch", "precompute", "history"}
  /\ baseline \in Entries
  /\ published \in [generatedAt : Int, intensities : Entries]
  /\ snapshot \in [generatedAt : Int, intensities : Entries]
  /\ cdn.snapshot \in [generatedAt : Int, intensities : Entries]

\* A run is at most BuildMax old.
RunBounded ==
  phase # "idle" => started <= now /\ now - started <= BuildMax

\* Once fetched, what a run calls live was recent when the run started.
SnapshotRecent ==
  phase \in {"precompute", "history"} =>
    \A k \in Regions :
      Live(snapshot.intensities[k]) => started - snapshot.intensities[k].ts <= OldestLive

\* The stamp is made during the run.
StampBounded ==
  phase = "history" => snapshot.generatedAt - started <= BuildMax

BuildInv ==
  BuildType /\ RunBounded /\ SnapshotRecent /\ StampBounded /\ LiveIsRecent

----------------------------------------------------------------------------

LEMMA NoEntriesType == NoEntries \in Entries
BY DEF NoEntries, Entries

LEMMA NoEntriesLive == \A k \in Regions : ~Live(NoEntries[k])
BY DEF NoEntries, Live

\* The end of a run leaves nothing to bound.
LEMMA IdleInv ==
  ASSUME BuildInv, Idle, UNCHANGED <<now, published, cdn>>
  PROVE  BuildInv'
<1>1. BuildType'
  BY NoEntriesType DEF BuildInv, BuildType, Idle, NoSnapshot
<1>2. LiveIsRecent'
  BY DEF BuildInv, LiveIsRecent
<1>3. QED
  BY <1>1, <1>2 DEF BuildInv, Idle, RunBounded, SnapshotRecent, StampBounded

LEMMA StartInv ==
  ASSUME BuildInv, Start
  PROVE  BuildInv'
<1>1. BuildType'
  BY DEF BuildInv, BuildType, Start, files
<1>2. RunBounded'
  BY BuildAssumption DEF BuildInv, BuildType, RunBounded, Start
<1>3. LiveIsRecent'
  BY DEF BuildInv, LiveIsRecent, Start, files
<1>4. QED
  BY <1>1, <1>2, <1>3 DEF BuildInv, Start, SnapshotRecent, StampBounded

LEMMA LoadBaselineInv ==
  ASSUME BuildInv, LoadBaseline
  PROVE  BuildInv'
<1>1. BuildType'
  BY NoEntriesType DEF BuildInv, BuildType, LoadBaseline, files
<1>2. RunBounded'
  BY DEF BuildInv, RunBounded, LoadBaseline
<1>3. LiveIsRecent'
  BY DEF BuildInv, LiveIsRecent, LoadBaseline, files
<1>4. QED
  BY <1>1, <1>2, <1>3 DEF BuildInv, LoadBaseline, SnapshotRecent, StampBounded

\* A fetched reading is at most Lag old, a carried one at most MaxStale.
LEMMA IntensitiesRecent ==
  ASSUME BuildType, NEW answer \in [Zones -> Answers], NEW k \in Regions,
         Live(Intensities(answer, baseline)[k])
  PROVE  now - Intensities(answer, baseline)[k].ts <= OldestLive
<1> DEFINE a == answer[ZoneOf[k]]
<1>1. a \in Answers
  BY BuildAssumption
<1>2. CASE ~Live(a) /\ Carried(baseline, k)
  <2>1. Intensities(answer, baseline)[k] = baseline[k]
    BY <1>2 DEF Intensities, Live
  <2>2. baseline[k] \in Entry /\ now - baseline[k].ts <= MaxStale
    BY <1>2 DEF Carried, Live, BuildType, Entries
  <2>3. QED
    BY <2>1, <2>2, BuildAssumption DEF OldestLive, Entry, BuildType
<1>3. CASE ~(~Live(a) /\ Carried(baseline, k))
  <2>1. Intensities(answer, baseline)[k] = a
    BY <1>3 DEF Intensities, Live
  <2>2. a.ts \in Int /\ now - a.ts <= Lag
    BY <1>1, <2>1, BuildAssumption DEF Answers, Live, BuildType
  <2>3. QED
    BY <2>1, <2>2, BuildAssumption DEF OldestLive, BuildType
<1>4. QED
  BY <1>2, <1>3

LEMMA IntensitiesType ==
  ASSUME BuildType, NEW answer \in [Zones -> Answers]
  PROVE  Intensities(answer, baseline) \in Entries
<1> SUFFICES ASSUME NEW k \in Regions
             PROVE  Intensities(answer, baseline)[k] \in Entry \cup {None}
  BY DEF Intensities, Entries
<1>1. answer[ZoneOf[k]] \in Entry \cup {None}
  <2>1. answer[ZoneOf[k]] \in Answers
    BY BuildAssumption
  <2>2. QED
    BY <2>1, BuildAssumption DEF Answers, Entry, BuildType
<1>2. baseline[k] \in Entry \cup {None}
  BY DEF BuildType, Entries
<1>3. QED
  BY <1>1, <1>2 DEF Intensities

LEMMA FetchInv ==
  ASSUME BuildInv, Fetch
  PROVE  BuildInv'
<1>1. PICK answer \in [Zones -> Answers] :
        snapshot' = [snapshot EXCEPT !.intensities = Intensities(answer, baseline)]
  BY DEF Fetch
<1>2. Intensities(answer, baseline) \in Entries
  BY IntensitiesType DEF BuildInv
<1>3. snapshot'.intensities = Intensities(answer, baseline)
  BY <1>1, <1>2 DEF BuildInv, BuildType
<1>4. BuildType'
  BY <1>1, <1>2 DEF BuildInv, BuildType, Fetch, files
<1>5. RunBounded'
  BY DEF BuildInv, RunBounded, Fetch
<1>6. SnapshotRecent'
  <2> SUFFICES ASSUME NEW k \in Regions, Live(snapshot'.intensities[k])
               PROVE  started' - snapshot'.intensities[k].ts <= OldestLive
    BY DEF SnapshotRecent, Live
  <2> DEFINE e == snapshot'.intensities[k]
  <2>1. now - e.ts <= OldestLive
    BY <1>3, IntensitiesRecent DEF BuildInv
  <2>2. e.ts \in Int
    BY <1>2, <1>3 DEF Live, Entries, Entry
  <2>3. started' = started /\ started <= now /\ started \in Int /\ now \in Int
    BY DEF Fetch, BuildInv, RunBounded, BuildType
  <2>4. OldestLive \in Int
    BY BuildAssumption DEF OldestLive
  <2> HIDE DEF e
  <2>5. started' - e.ts <= OldestLive
    BY <2>1, <2>2, <2>3, <2>4
  <2>6. QED
    BY <2>5 DEF e
<1>7. LiveIsRecent'
  BY DEF BuildInv, LiveIsRecent, Fetch, files
<1>8. QED
  BY <1>4, <1>5, <1>6, <1>7 DEF BuildInv, Fetch, StampBounded

LEMMA StampInv ==
  ASSUME BuildInv, Stamp
  PROVE  BuildInv'
<1>1. snapshot' = [snapshot EXCEPT !.generatedAt = now] /\ phase' = "history"
  BY DEF Stamp
<1>2. /\ snapshot'.intensities = snapshot.intensities
      /\ snapshot'.generatedAt = now
  BY <1>1 DEF BuildInv, BuildType
<1>3. BuildType'
  BY <1>1 DEF BuildInv, BuildType, Stamp, files
<1>4. RunBounded'
  BY DEF BuildInv, RunBounded, Stamp
<1>5. SnapshotRecent'
  BY <1>2 DEF BuildInv, SnapshotRecent, Stamp
<1>6. StampBounded'
  BY <1>2 DEF BuildInv, RunBounded, StampBounded, Stamp
<1>7. LiveIsRecent'
  BY DEF BuildInv, LiveIsRecent, Stamp, files
<1>8. QED
  BY <1>3, <1>4, <1>5, <1>6, <1>7 DEF BuildInv

\* What is published was recent when its run started, and stamped in the run.
LEMMA PublishInv ==
  ASSUME BuildInv, Publish
  PROVE  BuildInv'
<1>1. published' = snapshot /\ Idle /\ phase = "history" /\ UNCHANGED <<now, cdn>>
  BY DEF Publish
<1>2. BuildType'
  BY <1>1, NoEntriesType DEF BuildInv, BuildType, Idle, NoSnapshot
<1>3. LiveIsRecent'
  <2> SUFFICES ASSUME NEW k \in Regions, Live(snapshot.intensities[k])
               PROVE  snapshot.generatedAt - snapshot.intensities[k].ts
                        <= BuildMax + OldestLive
    BY <1>1 DEF LiveIsRecent
  <2> DEFINE e == snapshot.intensities[k]
             g == snapshot.generatedAt
  <2>1. started - e.ts <= OldestLive
    BY <1>1 DEF BuildInv, SnapshotRecent
  <2>2. g - started <= BuildMax
    BY <1>1 DEF BuildInv, StampBounded
  <2>3. e.ts \in Int
    BY DEF Live, BuildInv, BuildType, Entries, Entry
  <2>4. g \in Int /\ started \in Int /\ OldestLive \in Int /\ BuildMax \in Int
    BY BuildAssumption DEF OldestLive, BuildInv, BuildType
  <2> HIDE DEF e, g
  <2>5. g - e.ts <= BuildMax + OldestLive
    BY <2>1, <2>2, <2>3, <2>4
  <2>6. QED
    BY <2>5 DEF e, g
<1>4. QED
  BY <1>1, <1>2, <1>3 DEF BuildInv, Idle, RunBounded, SnapshotRecent, StampBounded

\* The CDN catches up with a file.
LEMMA CdnInv ==
  ASSUME BuildInv, CdnSnapshot \/ CdnHistory
  PROVE  BuildInv'
<1>1. UNCHANGED <<now, published, phase, started, baseline, snapshot>>
  BY DEF CdnSnapshot, CdnHistory, files, run
<1>2. cdn'.snapshot \in {cdn.snapshot, published}
  BY DEF CdnSnapshot, CdnHistory
<1>3. BuildType'
  BY <1>1, <1>2 DEF BuildInv, BuildType
<1>4. QED
  BY <1>1, <1>3 DEF BuildInv, RunBounded, SnapshotRecent, StampBounded, LiveIsRecent

LEMMA TickInv ==
  ASSUME BuildInv, Tick
  PROVE  BuildInv'
<1>1. /\ now' = now + 1
      /\ phase # "idle" => now - started < BuildMax
      /\ UNCHANGED <<published, cdn, phase, started, baseline, snapshot>>
  BY DEF Tick, files, run
<1>2. BuildType'
  BY <1>1 DEF BuildInv, BuildType
<1>3. RunBounded'
  BY <1>1, BuildAssumption DEF BuildInv, BuildType, RunBounded
<1>4. QED
  BY <1>1, <1>2, <1>3 DEF BuildInv, SnapshotRecent, StampBounded, LiveIsRecent

LEMMA InitInv == Init => BuildInv
<1> SUFFICES ASSUME Init PROVE BuildInv
  OBVIOUS
<1>1. BuildType
  BY NoEntriesType DEF Init, BuildType, NoSnapshot
<1>2. LiveIsRecent
  BY NoEntriesLive DEF Init, LiveIsRecent, NoSnapshot
<1>3. QED
  BY <1>1, <1>2 DEF Init, BuildInv, RunBounded, SnapshotRecent, StampBounded

LEMMA NextInv == BuildInv /\ [Next]_vars => BuildInv'
<1> SUFFICES ASSUME BuildInv, [Next]_vars PROVE BuildInv'
  OBVIOUS
<1>1. CASE Start
  BY <1>1, StartInv
<1>2. CASE LoadBaseline
  BY <1>2, LoadBaselineInv
<1>3. CASE Fetch
  BY <1>3, FetchInv
<1>4. CASE Stamp
  BY <1>4, StampInv
<1>5. CASE Publish
  BY <1>5, PublishInv
<1>6. CASE TooFewLive
  BY <1>6, IdleInv DEF TooFewLive, files
<1>7. CASE Cancelled
  BY <1>7, IdleInv DEF Cancelled, files
<1>8. CASE CdnSnapshot \/ CdnHistory
  BY <1>8, CdnInv
<1>9. CASE Tick
  BY <1>9, TickInv
<1>10. CASE Remap \/ UNCHANGED vars
  <2>1. UNCHANGED <<now, published, cdn, phase, started, baseline, snapshot>>
    BY <1>10 DEF Remap, vars, files, run
  <2>2. QED
    BY <2>1 DEF BuildInv, BuildType, RunBounded, SnapshotRecent, StampBounded, LiveIsRecent
<1>11. QED
  BY <1>1, <1>2, <1>3, <1>4, <1>5, <1>6, <1>7, <1>8, <1>9, <1>10 DEF Next

\* Whatever is published as live was measured at most max_stale_hours, or the
\* lag of a live provider, before the run that published it fetched, for any
\* number of runs that carried it forward (build_snapshot.py:61-93).
THEOREM PublishedLiveIsRecent == Spec => []LiveIsRecent
<1>1. BuildInv => LiveIsRecent
  BY DEF BuildInv
<1>2. QED
  BY InitInv, NextInv, <1>1, PTL DEF Spec

----------------------------------------------------------------------------
(* The history.  Every version of it that the CDN may answer with ends no  *)
(* later than the published snapshot, and the next stamp is later still;   *)
(* so appending to any of them keeps the order, and what is appended is    *)
(* the stamp of what is published with it.                                 *)

\* A series in order that ends no later than `last`.
Ordered(series, last) ==
  /\ series \in Seq(Int)
  /\ \A i \in 1..(Len(series) - 1) : series[i] < series[i + 1]
  /\ \A i \in 1..Len(series) : series[i] <= last

\* A series that ends with the stamp of its snapshot.
EndsWith(series, stamp) == Len(series) > 0 /\ series[Len(series)] = stamp

HistoryInv ==
  /\ phase = "history" => snapshot.generatedAt > published.generatedAt
  /\ \A k \in Regions : /\ Ordered(history[k], published.generatedAt)
                        /\ Ordered(cdn.history[k], published.generatedAt)
  /\ \A k \in Regions :
       published.intensities[k] # None => EndsWith(history[k], published.generatedAt)

LEMMA EmptyOrdered ==
  ASSUME NEW last \in Int
  PROVE  Ordered(<<>>, last)
BY DEF Ordered

LEMMA OrderedLater ==
  ASSUME NEW a \in Int, NEW b \in Int, a <= b, NEW series, Ordered(series, a)
  PROVE  Ordered(series, b)
<1>1. \A i \in 1..Len(series) : series[i] \in Int /\ series[i] <= a
  BY DEF Ordered
<1>2. \A i \in 1..Len(series) : series[i] <= b
  BY <1>1
<1>3. QED
  BY <1>2 DEF Ordered

\* A later stamp is appended in order.
LEMMA AppendOrdered ==
  ASSUME NEW a \in Int, NEW b \in Int, a < b, NEW series, Ordered(series, a)
  PROVE  Ordered(Append(series, b), b) /\ EndsWith(Append(series, b), b)
<1> DEFINE t == Append(series, b)
<1>1. series \in Seq(Int) /\ Len(series) \in Nat
  BY DEF Ordered
<1>2. /\ t \in Seq(Int) /\ Len(t) = Len(series) + 1
      /\ \A i \in 1..Len(series) : t[i] = series[i]
      /\ t[Len(t)] = b
  BY <1>1
<1>3. \A i \in 1..Len(series) : series[i] \in Int /\ series[i] <= a
  BY DEF Ordered
<1> HIDE DEF t
<1>4. ASSUME NEW i \in 1..(Len(t) - 1) PROVE t[i] < t[i + 1]
  <2>1. i \in 1..Len(series)
    BY <1>1, <1>2
  <2>2. CASE i = Len(series)
    BY <1>1, <1>2, <1>3, <2>1, <2>2
  <2>3. CASE i # Len(series)
    <3>1. i \in 1..(Len(series) - 1) /\ i + 1 \in 1..Len(series)
      BY <1>1, <2>1, <2>3
    <3>2. series[i] < series[i + 1]
      BY <3>1 DEF Ordered
    <3>3. QED
      BY <1>2, <2>1, <3>1, <3>2
  <2>4. QED
    BY <2>2, <2>3
<1>5. ASSUME NEW i \in 1..Len(t) PROVE t[i] <= b
  <2>1. i \in 1..Len(series) \/ i = Len(t)
    BY <1>1, <1>2
  <2>2. QED
    BY <1>2, <1>3, <2>1
<1>6. Len(t) > 0
  BY <1>1, <1>2
<1>7. QED
  BY <1>2, <1>4, <1>5, <1>6 DEF Ordered, EndsWith, t

\* The last points of a series are in order and end as it does.
LEMMA LastPointsOrdered ==
  ASSUME NEW b \in Int, NEW series, Ordered(series, b), EndsWith(series, b)
  PROVE  Ordered(LastPoints(series), b) /\ EndsWith(LastPoints(series), b)
<1>1. CASE Len(series) <= MaxPoints
  BY <1>1 DEF LastPoints
<1>2. CASE ~(Len(series) <= MaxPoints)
  <2> DEFINE m == Len(series) - MaxPoints
             t == LastPoints(series)
  <2>1. series \in Seq(Int) /\ Len(series) \in Nat /\ MaxPoints \in Nat /\ MaxPoints > 0
        /\ m \in Nat /\ Len(series) = m + MaxPoints
    BY <1>2, BuildAssumption DEF Ordered
  <2>2. t = SubSeq(series, m + 1, Len(series))
    BY <1>2 DEF LastPoints
  <2> HIDE DEF m, t
  <2>3. /\ t \in Seq(Int) /\ Len(t) = MaxPoints
        /\ \A i \in 1..MaxPoints : t[i] = series[m + i]
    <3>1. \A i \in (m + 1)..Len(series) : series[i] \in Int
      BY <2>1
    <3>2. /\ SubSeq(series, m + 1, Len(series)) \in Seq(Int)
          /\ Len(SubSeq(series, m + 1, Len(series))) =
               IF m + 1 <= Len(series) THEN Len(series) - (m + 1) + 1 ELSE 0
          /\ \A i \in 1..(Len(series) - (m + 1) + 1) :
               SubSeq(series, m + 1, Len(series))[i] = series[(m + 1) + i - 1]
      <4>1. m + 1 \in Int /\ Len(series) \in Int
        BY <2>1
      <4>2. QED
        BY <3>1, <4>1, SubSeqProperties
    <3>3. Len(series) - (m + 1) + 1 = MaxPoints /\ m + 1 <= Len(series)
      BY <2>1
    <3>4. \A i \in 1..MaxPoints : (m + 1) + i - 1 = m + i
      BY <2>1
    <3>5. QED
      BY <2>2, <3>2, <3>3, <3>4
  <2>4. ASSUME NEW i \in 1..(Len(t) - 1) PROVE t[i] < t[i + 1]
    <3>1. i \in 1..MaxPoints /\ i + 1 \in 1..MaxPoints
      BY <2>1, <2>3
    <3>2. m + i \in 1..(Len(series) - 1) /\ m + (i + 1) = (m + i) + 1
      BY <2>1, <2>3
    <3>3. series[m + i] < series[(m + i) + 1]
      BY <3>2 DEF Ordered
    <3>4. QED
      BY <2>3, <3>1, <3>2, <3>3
  <2>5. ASSUME NEW i \in 1..Len(t) PROVE t[i] <= b
    <3>1. m + i \in 1..Len(series) /\ i \in 1..MaxPoints
      BY <2>1, <2>3
    <3>2. QED
      BY <2>3, <3>1 DEF Ordered
  <2>6. Len(t) > 0 /\ t[Len(t)] = b
    <3>1. MaxPoints \in 1..MaxPoints /\ m + MaxPoints = Len(series)
      BY <2>1
    <3>2. QED
      BY <2>1, <2>3, <3>1 DEF EndsWith
  <2>7. QED
    BY <2>3, <2>4, <2>5, <2>6 DEF Ordered, EndsWith, t
<1>3. QED
  BY <1>1, <1>2

\* Appending a later snapshot to a version of the history.
LEMMA AppendHistoryOrdered ==
  ASSUME NEW a \in Int, NEW prev, NEW snap, snap.generatedAt \in Int, a < snap.generatedAt,
         NEW k \in Regions, Ordered(prev[k], a)
  PROVE  /\ Ordered(AppendHistory(prev, snap)[k], snap.generatedAt)
         /\ snap.intensities[k] # None => EndsWith(AppendHistory(prev, snap)[k], snap.generatedAt)
<1> DEFINE g == snap.generatedAt
           n == Len(prev[k])
<1>1. CASE snap.intensities[k] = None
  <2>1. AppendHistory(prev, snap)[k] = prev[k]
    BY <1>1 DEF AppendHistory
  <2>2. a <= g
    OBVIOUS
  <2>3. QED
    BY <1>1, <2>1, <2>2, OrderedLater
<1>2. CASE snap.intensities[k] # None
  <2>1. ~(n > 0 /\ prev[k][n] = g)
    <3>1. n \in Nat /\ (n > 0 => n \in 1..n)
      BY DEF Ordered
    <3>2. \A i \in 1..n : prev[k][i] \in Int /\ prev[k][i] <= a
      BY DEF Ordered
    <3>3. QED
      BY <3>1, <3>2
  <2>2. AppendHistory(prev, snap)[k] = LastPoints(Append(prev[k], g))
    BY <1>2, <2>1 DEF AppendHistory
  <2>3. QED
    BY <2>2, AppendOrdered, LastPointsOrdered
<1>3. QED
  BY <1>1, <1>2

\* No run, no stamp.
LEMMA IdleHistory ==
  ASSUME HistoryInv, Idle, UNCHANGED <<published, history, cdn>>
  PROVE  HistoryInv'
BY DEF HistoryInv, Idle

\* A step of a run before its stamp.
LEMMA UnstampedHistory ==
  ASSUME HistoryInv, phase' # "history", UNCHANGED <<published, history, cdn>>
  PROVE  HistoryInv'
BY DEF HistoryInv

LEMMA StampHistory ==
  ASSUME BuildInv, HistoryInv, Stamp
  PROVE  HistoryInv'
<1>1. snapshot' = [snapshot EXCEPT !.generatedAt = now] /\ now > published.generatedAt
      /\ UNCHANGED <<published, history, cdn>>
  BY DEF Stamp, files
<1>2. snapshot'.generatedAt = now
  BY <1>1 DEF BuildInv, BuildType
<1>3. QED
  BY <1>1, <1>2 DEF HistoryInv

LEMMA PublishHistory ==
  ASSUME BuildInv, HistoryInv, Publish
  PROVE  HistoryInv'
<1>1. PICK prev \in {cdn.history, NoSeries} : history' = AppendHistory(prev, snapshot)
  BY DEF Publish
<1>2. /\ published' = snapshot /\ phase' = "idle" /\ UNCHANGED cdn
      /\ snapshot.generatedAt > published.generatedAt
      /\ snapshot.generatedAt \in Int /\ published.generatedAt \in Int
  BY DEF Publish, Idle, HistoryInv, BuildInv, BuildType
<1>3. ASSUME NEW k \in Regions PROVE Ordered(prev[k], published.generatedAt)
  <2>1. Ordered(NoSeries[k], published.generatedAt)
    BY <1>2, EmptyOrdered DEF NoSeries
  <2>2. QED
    BY <1>1, <2>1 DEF HistoryInv
<1>4. ASSUME NEW k \in Regions
      PROVE  /\ Ordered(history'[k], snapshot.generatedAt)
             /\ snapshot.intensities[k] # None => EndsWith(history'[k], snapshot.generatedAt)
             /\ Ordered(cdn.history[k], snapshot.generatedAt)
  <2>1. Ordered(cdn.history[k], snapshot.generatedAt)
    <3>1. published.generatedAt <= snapshot.generatedAt /\ Ordered(cdn.history[k], published.generatedAt)
      BY <1>2 DEF HistoryInv
    <3>2. QED
      BY <1>2, <3>1, OrderedLater
  <2>2. published.generatedAt < snapshot.generatedAt
    BY <1>2
  <2>3. QED
    BY <1>1, <1>2, <1>3, <2>1, <2>2, AppendHistoryOrdered
<1>5. QED
  BY <1>2, <1>4 DEF HistoryInv, Ordered, EndsWith

LEMMA CdnHistoryKept ==
  ASSUME HistoryInv, CdnSnapshot \/ CdnHistory
  PROVE  HistoryInv'
<1>1. UNCHANGED <<published, history, phase, snapshot>> /\ cdn'.history \in {cdn.history, history}
  BY DEF CdnSnapshot, CdnHistory, files, run
<1>2. QED
  BY <1>1 DEF HistoryInv, Ordered, EndsWith

LEMMA InitHistory == Init => HistoryInv
<1> SUFFICES ASSUME Init PROVE HistoryInv
  OBVIOUS
<1>1. \A k \in Regions : history[k] = <<>> /\ cdn.history[k] = <<>> /\ published.intensities[k] = None
  BY DEF Init, NoSeries, NoSnapshot, NoEntries
<1>2. published.generatedAt = 0 /\ phase = "idle"
  BY DEF Init, NoSnapshot
<1>3. QED
  BY <1>1, <1>2, EmptyOrdered DEF HistoryInv

LEMMA NextHistory == BuildInv /\ HistoryInv /\ [Next]_vars => HistoryInv'
<1> SUFFICES ASSUME BuildInv, HistoryInv, [Next]_vars PROVE HistoryInv'
  OBVIOUS
<1>1. CASE Start \/ LoadBaseline \/ Fetch
  BY <1>1, UnstampedHistory DEF Start, LoadBaseline, Fetch, files
<1>2. CASE Stamp
  BY <1>2, StampHistory
<1>3. CASE Publish
  BY <1>3, PublishHistory
<1>4. CASE TooFewLive \/ Cancelled
  BY <1>4, IdleHistory DEF TooFewLive, Cancelled, files
<1>5. CASE CdnSnapshot \/ CdnHistory
  BY <1>5, CdnHistoryKept
<1>6. CASE Remap \/ Tick \/ UNCHANGED vars
  <2>1. UNCHANGED <<published, history, cdn, phase, snapshot>>
    BY <1>6 DEF Remap, Tick, vars, files, run
  <2>2. QED
    BY <2>1 DEF HistoryInv, Ordered, EndsWith
<1>7. QED
  BY <1>1, <1>2, <1>3, <1>4, <1>5, <1>6 DEF Next

\* The two published files agree, whichever versions of their predecessors
\* the CDN answered with and wherever runs were cancelled: series are in
\* order, end no later than the snapshot, and with its stamp for its regions
\* (build_snapshot.py:398-425).
THEOREM PublishedHistorySound == Spec => []HistorySound
<1>1. HistoryInv /\ BuildInv => HistorySound
  <2> SUFFICES ASSUME HistoryInv, BuildInv, NEW k \in Regions
               PROVE  LET n == Len(history[k]) IN
                      /\ \A i \in 1..(n - 1) : history[k][i] < history[k][i + 1]
                      /\ n > 0 => history[k][n] <= published.generatedAt
                      /\ published.intensities[k] # None => n > 0 /\ history[k][n] = published.generatedAt
    BY DEF HistorySound
  <2>1. Ordered(history[k], published.generatedAt)
    BY DEF HistoryInv
  <2>2. published.intensities[k] # None => EndsWith(history[k], published.generatedAt)
    BY DEF HistoryInv
  <2>3. Len(history[k]) > 0 => Len(history[k]) \in 1..Len(history[k])
    BY <2>1 DEF Ordered
  <2>4. QED
    BY <2>1, <2>2, <2>3 DEF Ordered, EndsWith
<1>2. QED
  BY InitInv, NextInv, InitHistory, NextHistory, <1>1, PTL DEF Spec

----------------------------------------------------------------------------
(* Types, and how long a series gets.                                      *)

Series == {t \in Seq(Time) : Len(t) <= MaxPoints}

\* A prefix of a sequence, and a sequence with one stamp more, keep its type.
LEMMA PrefixType ==
  ASSUME NEW t \in Seq(Time), Len(t) > 0
  PROVE  SubSeq(t, 1, Len(t) - 1) \in Seq(Time)
<1>1. Len(t) \in Nat /\ Len(t) - 1 \in Int
  OBVIOUS
<1>2. \A i \in 1..(Len(t) - 1) : t[i] \in Time
  BY <1>1
<1>3. QED
  BY <1>1, <1>2, SubSeqProperties

\* The last points are no more than MaxPoints.
LEMMA LastPointsType ==
  ASSUME NEW t \in Seq(Time)
  PROVE  LastPoints(t) \in Series
<1>1. CASE Len(t) <= MaxPoints
  BY <1>1 DEF LastPoints, Series
<1>2. CASE ~(Len(t) <= MaxPoints)
  <2> DEFINE m == Len(t) - MaxPoints + 1
             u == SubSeq(t, m, Len(t))
  <2>1. Len(t) \in Nat /\ MaxPoints \in Nat \ {0} /\ m \in Int /\ 1 <= m /\ m <= Len(t)
        /\ Len(t) - m + 1 = MaxPoints
    BY <1>2, BuildAssumption
  <2>2. LastPoints(t) = u
    BY <1>2 DEF LastPoints
  <2> HIDE DEF m
  <2>3. \A i \in m..Len(t) : t[i] \in Time
    BY <2>1
  <2>4. u \in Seq(Time) /\ Len(u) = IF m <= Len(t) THEN Len(t) - m + 1 ELSE 0
    BY <2>1, <2>3, SubSeqProperties
  <2> HIDE DEF u
  <2>5. QED
    BY <2>1, <2>2, <2>4 DEF Series
<1>3. QED
  BY <1>1, <1>2

\* So appending a snapshot keeps every series within its bound.
LEMMA AppendHistoryType ==
  ASSUME NEW prev, NEW snap, snap.generatedAt \in Time, NEW k \in Regions, prev[k] \in Series
  PROVE  AppendHistory(prev, snap)[k] \in Series
<1> DEFINE n == Len(prev[k])
           g == snap.generatedAt
           kept == IF n > 0 /\ prev[k][n] = g THEN SubSeq(prev[k], 1, n - 1) ELSE prev[k]
<1>1. prev[k] \in Seq(Time)
  BY DEF Series
<1>2. kept \in Seq(Time)
  BY <1>1, PrefixType
<1>3. AppendHistory(prev, snap)[k]
        = IF snap.intensities[k] = None THEN prev[k] ELSE LastPoints(Append(kept, g))
  BY DEF AppendHistory
<1> HIDE DEF kept
<1>4. Append(kept, g) \in Seq(Time)
  BY <1>2
<1>5. QED
  BY <1>3, <1>4, LastPointsType

\* The histories' part of TypeOK, and the rest of it.
HistoryType == \A k \in Regions : history[k] \in Series /\ cdn.history[k] \in Series
RunType ==
  /\ now \in Time /\ started \in Time /\ mapped \subseteq Regions
  /\ phase \in {"idle", "baseline", "fetch", "precompute", "history"}
  /\ published \in Snapshots /\ snapshot \in Snapshots /\ cdn.snapshot \in Snapshots
  /\ baseline \in Entries

LEMMA TypeParts == TypeOK <=> RunType /\ HistoryType
BY DEF TypeOK, RunType, HistoryType, Series, Entries

LEMMA NoSnapshotType == NoSnapshot \in Snapshots /\ 0 \in Time
BY NoEntriesType, BuildAssumption DEF NoSnapshot, Snapshots, Entries, Time

LEMMA NextRunType == BuildInv /\ RunType /\ [Next]_vars => RunType'
<1> SUFFICES ASSUME BuildInv, RunType, [Next]_vars PROVE RunType'
  OBVIOUS
<1> USE DEF RunType
<1>1. CASE Start
  BY <1>1 DEF Start, files
<1>2. CASE LoadBaseline
  <2>1. cdn.snapshot.intensities \in Entries
    BY DEF Snapshots, Entries
  <2>2. QED
    BY <1>2, <2>1, NoEntriesType DEF LoadBaseline, files
<1>3. CASE Fetch
  <2>1. PICK answer \in [Zones -> Answers] :
          snapshot' = [snapshot EXCEPT !.intensities = Intensities(answer, baseline)]
    BY <1>3 DEF Fetch
  <2>2. Intensities(answer, baseline) \in Entries
    BY IntensitiesType DEF BuildInv
  <2>3. snapshot' \in Snapshots
    BY <2>1, <2>2 DEF Snapshots, Entries
  <2>4. QED
    BY <1>3, <2>3 DEF Fetch, files
<1>4. CASE Stamp
  <2>1. snapshot' \in Snapshots
    BY <1>4 DEF Stamp, Snapshots
  <2>2. QED
    BY <1>4, <2>1 DEF Stamp, files
<1>5. CASE Publish
  BY <1>5, NoSnapshotType, NoEntriesType DEF Publish, Idle
<1>6. CASE TooFewLive \/ Cancelled
  BY <1>6, NoSnapshotType, NoEntriesType DEF TooFewLive, Cancelled, Idle, files
<1>7. CASE CdnSnapshot \/ CdnHistory
  BY <1>7 DEF CdnSnapshot, CdnHistory, files, run
<1>8. CASE Remap
  BY <1>8 DEF Remap, files, run
<1>9. CASE Tick
  <2>1. now' \in Time
    BY <1>9, BuildAssumption DEF Tick, Time
  <2>2. QED
    BY <1>9, <2>1 DEF Tick, files, run
<1>10. CASE UNCHANGED vars
  BY <1>10 DEF vars, files, run
<1>11. QED
  BY <1>1, <1>2, <1>3, <1>4, <1>5, <1>6, <1>7, <1>8, <1>9, <1>10 DEF Next

LEMMA NextHistoryType == RunType /\ HistoryType /\ [Next]_vars => HistoryType'
<1> SUFFICES ASSUME RunType, HistoryType, [Next]_vars PROVE HistoryType'
  OBVIOUS
<1> USE DEF HistoryType
<1>1. CASE Publish
  <2>1. PICK prev \in {cdn.history, NoSeries} : history' = AppendHistory(prev, snapshot)
    BY <1>1 DEF Publish
  <2>2. \A k \in Regions : NoSeries[k] \in Series
    BY BuildAssumption DEF NoSeries, Series
  <2>3. \A k \in Regions : prev[k] \in Series
    BY <2>1, <2>2
  <2>4. snapshot.generatedAt \in Time
    BY DEF RunType, Snapshots
  <2>5. \A k \in Regions : AppendHistory(prev, snapshot)[k] \in Series
    BY <2>3, <2>4, AppendHistoryType
  <2>6. QED
    BY <1>1, <2>1, <2>5 DEF Publish
<1>2. CASE CdnSnapshot \/ CdnHistory
  <2>1. UNCHANGED history /\ cdn'.history \in {cdn.history, history}
    BY <1>2 DEF CdnSnapshot, CdnHistory, files
  <2>2. QED
    BY <2>1
<1>3. CASE UNCHANGED <<history, cdn>>
  BY <1>3
<1>4. QED
  BY <1>1, <1>2, <1>3 DEF Next, Start, LoadBaseline, Fetch, Stamp, TooFewLive, Cancelled,
                         Remap, Tick, vars, files

LEMMA InitTypes == Init => RunType /\ HistoryType
<1> SUFFICES ASSUME Init PROVE RunType /\ HistoryType
  OBVIOUS
<1>1. RunType
  BY NoSnapshotType, NoEntriesType DEF Init, RunType
<1>2. <<>> \in Series
  BY BuildAssumption DEF Series
<1>3. HistoryType
  BY <1>2 DEF Init, HistoryType, NoSeries
<1>4. QED
  BY <1>1, <1>3

\* The builder's variables keep their types, and no version of a series is
\* ever longer than its bound (build_snapshot.py:417-418).
THEOREM BuildTypeCorrect == Spec => []TypeOK
BY InitInv, NextInv, InitTypes, NextRunType, NextHistoryType, TypeParts, PTL DEF Spec

----------------------------------------------------------------------------
(* What a run owes to the baseline it loaded.                              *)

\* When a run takes a reading's age: now, or once it is stamped, its stamp.
RunTime == IF phase = "history" THEN snapshot.generatedAt ELSE now

\* Once fetched, what was live in the baseline and is recent still is live.
Bridged ==
  phase \in {"precompute", "history"} =>
    \A k \in mapped :
      Live(baseline[k]) /\ RunTime - baseline[k].ts <= MaxStale => Live(snapshot.intensities[k])

\* The reading of a baseline's live entry has a time.
LEMMA LiveTime ==
  ASSUME BuildInv, NEW k \in Regions, Live(baseline[k])
  PROVE  baseline[k].ts \in Int
BY DEF BuildInv, BuildType, Entries, Entry, Live

LEMMA NextBridged == BuildInv /\ RunType /\ Bridged /\ [Next]_vars => Bridged'
<1> SUFFICES ASSUME BuildInv, RunType, Bridged, [Next]_vars PROVE Bridged'
  OBVIOUS
<1>1. CASE Start
  BY <1>1 DEF Start, Bridged
<1>2. CASE LoadBaseline
  BY <1>2 DEF LoadBaseline, Bridged
<1>3. CASE Fetch
  <2>1. PICK answer \in [Zones -> Answers] :
          snapshot' = [snapshot EXCEPT !.intensities = Intensities(answer, baseline)]
    BY <1>3 DEF Fetch
  <2>2. snapshot'.intensities = Intensities(answer, baseline)
    BY <2>1 DEF BuildInv, BuildType
  <2>3. /\ phase' = "precompute" /\ UNCHANGED <<now, mapped, baseline>>
    BY <1>3 DEF Fetch
  <2>4. ASSUME NEW k \in mapped, Live(baseline[k]), now - baseline[k].ts <= MaxStale
        PROVE  Live(Intensities(answer, baseline)[k])
    <3>1. k \in Regions
      BY DEF RunType
    <3>2. Carried(baseline, k)
      BY <2>4 DEF Carried
    <3>3. Intensities(answer, baseline)[k]
            = IF ~Live(answer[ZoneOf[k]]) THEN baseline[k] ELSE answer[ZoneOf[k]]
      BY <3>1, <3>2 DEF Intensities
    <3>4. QED
      BY <2>4, <3>3
  <2>5. QED
    BY <2>2, <2>3, <2>4 DEF Bridged, RunTime, Live
<1>4. CASE Stamp
  <2>1. /\ phase = "precompute" /\ phase' = "history" /\ UNCHANGED <<mapped, baseline>>
        /\ snapshot' = [snapshot EXCEPT !.generatedAt = now]
    BY <1>4 DEF Stamp
  <2>2. snapshot'.generatedAt = now /\ snapshot'.intensities = snapshot.intensities
    BY <2>1 DEF BuildInv, BuildType
  <2>3. RunTime' = RunTime
    BY <2>1, <2>2 DEF RunTime
  <2>4. QED
    BY <2>1, <2>2, <2>3 DEF Bridged, Live
<1>5. CASE Publish \/ TooFewLive \/ Cancelled
  BY <1>5 DEF Publish, TooFewLive, Cancelled, Idle, Bridged
<1>6. CASE Remap
  BY <1>6 DEF Remap, run, Bridged
<1>7. CASE Tick
  <2>1. now' = now + 1 /\ now \in Int /\ UNCHANGED <<mapped, phase, baseline, snapshot>>
    BY <1>7 DEF Tick, run, BuildInv, BuildType
  <2>2. ASSUME NEW k \in mapped, Live(baseline[k]), RunTime' - baseline[k].ts <= MaxStale
        PROVE  RunTime - baseline[k].ts <= MaxStale
    <3>1. k \in Regions
      BY DEF RunType
    <3>2. baseline[k].ts \in Int
      BY <2>2, <3>1, LiveTime
    <3>3. RunTime' = RunTime \/ (RunTime = now /\ RunTime' = now + 1)
      BY <2>1 DEF RunTime
    <3>4. QED
      BY <2>1, <2>2, <3>2, <3>3, BuildAssumption
  <2>3. QED
    BY <2>1, <2>2 DEF Bridged, Live
<1>8. CASE CdnSnapshot \/ CdnHistory \/ UNCHANGED vars
  <2>1. UNCHANGED <<now, mapped, phase, baseline, snapshot>>
    BY <1>8 DEF CdnSnapshot, CdnHistory, vars, run
  <2>2. QED
    BY <2>1 DEF Bridged, RunTime, Live
<1>9. QED
  BY <1>1, <1>2, <1>3, <1>4, <1>5, <1>6, <1>7, <1>8 DEF Next

\* Only a publish with enough live regions changes the published snapshot.
LEMMA PublishBridged ==
  ASSUME BuildInv, Bridged, [Next]_vars, published' # published
  PROVE  /\ Cardinality(LiveRegions(published')) >= MinLive
         /\ \A k \in mapped :
              Live(baseline[k]) /\ published'.generatedAt - baseline[k].ts <= MaxStale
                => Live(published'.intensities[k])
<1>1. Publish
  BY DEF Next, Start, LoadBaseline, Fetch, Stamp, TooFewLive, Cancelled, CdnSnapshot, CdnHistory,
         Remap, Tick, vars, files
<1>2. published' = snapshot /\ phase = "history" /\ Enough(snapshot)
  BY <1>1 DEF Publish
<1>3. LiveRegions(published') = LiveRegions(snapshot)
  BY <1>2 DEF LiveRegions, Live
<1>4. Cardinality(LiveRegions(published')) >= MinLive
  BY <1>2, <1>3 DEF Enough
<1>5. QED
  BY <1>2, <1>4 DEF Bridged, RunTime, Live

\* A blip of the providers, or a day without them, does not take from the
\* published snapshot what was live and is recent (build_snapshot.py:62-93).
THEOREM PublishedBlipsBridged == Spec => BlipsBridged
<1>1. Init => Bridged
  BY DEF Init, Bridged
<1>2. BuildInv /\ Bridged /\ [Next]_vars
        => [published' # published =>
              /\ Cardinality(LiveRegions(published')) >= MinLive
              /\ \A k \in mapped :
                   Live(baseline[k]) /\ published'.generatedAt - baseline[k].ts <= MaxStale
                     => Live(published'.intensities[k])]_vars
  BY PublishBridged
<1>3. QED
  BY InitInv, NextInv, InitTypes, NextRunType, NextBridged, <1>1, <1>2, PTL DEF Spec, BlipsBridged
============================================================================
