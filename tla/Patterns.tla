------------------------------ MODULE Patterns ------------------------------
(***************************************************************************)
(* What the engine reads out of the history archive: the ranking of hours  *)
(* (engine/recurring.py), the best time of a daily job (besttime.py), the  *)
(* anomaly of a reading (anomaly.py) and the weekly report and its trend   *)
(* (clean_compute.py).                                                     *)
(*                                                                         *)
(* A point is [at, c]: at counts hours from a midnight UTC, None for a     *)
(* timestamp that does not parse; c is hundredths of a gram, None for a    *)
(* missing figure.  Means are in tenths of a gram, shares in tenths of a   *)
(* percent.  MinHistory and the two sample floors of the anomaly are       *)
(* parameters: 8, 3 and 6 in the code.                                     *)
(***************************************************************************)
EXTENDS Readings

CONSTANTS MinHistory, MinHourSamples, MinRecentSamples

ASSUME PatternsAssumption ==
    /\ MinHistory \in Nat
    /\ MinHourSamples \in Nat \ {0}
    /\ MinRecentSamples \in Nat \ {0}

-----------------------------------------------------------------------------
(* recurring.py                                                            *)

Figures(points) == SelectSeq(points, LAMBDA p: p.c # None)
Dated(points) == SelectSeq(Figures(points), LAMBDA p: p.at # None)
Values(points) == [i \in DOMAIN points |-> points[i].c]

MeanTenths(values) == RoundDiv(SumOf(values), 10 * Len(values))

(* One row per hour that has a point, cleanest first, the earlier of equals first. *)
RankHours(points) ==
    LET of(h) == SelectSeq(Dated(points), LAMBDA p: p.at % 24 = h)
        hours == SelectSeq([i \in 1 .. 24 |-> i - 1], LAMBDA h: of(h) # <<>>)
        rows == [i \in DOMAIN hours |-> [hour |-> hours[i], mean |-> MeanTenths(Values(of(hours[i]))),
                                         samples |-> Len(of(hours[i]))]]
    IN  SortSeq(rows, LAMBDA a, b: a.mean < b.mean \/ (a.mean = b.mean /\ a.hour < b.hour))

Samples(ranked) == SumOf([i \in DOMAIN ranked |-> ranked[i].samples])

MeanIntensity(points) ==
    IF Figures(points) = <<>> THEN None ELSE MeanTenths(Values(Figures(points)))

(* From the worst hour to the best. *)
Shiftability(ranked) ==
    IF ranked = <<>> \/ ranked[Len(ranked)].mean <= 0 THEN None
    ELSE LET worst == ranked[Len(ranked)].mean
         IN  RoundDiv((worst - ranked[1].mean) * 1000, worst)

-----------------------------------------------------------------------------
(* besttime.py: thin history gives way to the forecast, if that has points.*)

BestTimeBasis(history, forecast) ==
    IF Samples(RankHours(history)) >= MinHistory THEN "history"
    ELSE IF RankHours(forecast) # <<>> THEN "forecast"
    ELSE IF RankHours(history) # <<>> THEN "history"
    ELSE "insufficient"

(* energy is kWh a day, 0 for none; the saving is tenths of a kg a year. *)
BestTime(history, forecast, energy) ==
    LET basis == BestTimeBasis(history, forecast)
        ranked == IF basis = "forecast" THEN RankHours(forecast) ELSE RankHours(history)
    IN  [basis |-> basis,
         cleanest |-> IF ranked = <<>> THEN None ELSE ranked[1].hour,
         dirtiest |-> IF ranked = <<>> THEN None ELSE ranked[Len(ranked)].hour,
         saves |-> Shiftability(ranked),
         annualKg |-> IF ranked = <<>> \/ energy = 0 THEN None
                      ELSE RoundDiv((ranked[Len(ranked)].mean - ranked[1].mean) * energy * 365, 1000),
         ranked |-> SubSeq(ranked, 1, IF Len(ranked) < 6 THEN Len(ranked) ELSE 6)]

-----------------------------------------------------------------------------
(* anomaly.py                                                              *)

(* Twice the median, which is the sum of the middle pair. *)
TwiceMedian(values) ==
    LET sorted == SortSeq(values, <)
        n == Len(sorted)
    IN  sorted[(n + 1) \div 2] + sorted[(n + 2) \div 2]

Insufficient(n) == [status |-> "insufficient_history", basis |-> "insufficient",
                    baseline |-> None, delta |-> None, size |-> n]

AnomalyStatus(delta) ==
    IF delta <= -100 THEN "cleaner_than_usual"
    ELSE IF delta >= 100 THEN "dirtier_than_usual" ELSE "typical"

(* The same hour of the day where it has enough points, else all of them. *)
ComputeAnomaly(current, points, hour) ==
    LET all == Values(Figures(points))
        same == Values(SelectSeq(Dated(points), LAMBDA p: p.at % 24 = hour))
        sample == IF Len(same) >= MinHourSamples THEN same ELSE all
        twice == TwiceMedian(sample)
        delta == RoundDiv((2 * current - twice) * 1000, twice)
    IN  IF Len(same) < MinHourSamples /\ Len(all) < MinRecentSamples THEN Insufficient(Len(all))
        ELSE IF twice <= 0 THEN Insufficient(Len(all))
        ELSE [status |-> AnomalyStatus(delta),
              basis |-> IF sample = same /\ Len(same) >= MinHourSamples THEN "hour_of_day" ELSE "recent",
              baseline |-> RoundDiv(twice, 20), delta |-> delta, size |-> Len(sample)]

-----------------------------------------------------------------------------
(* clean_compute.py                                                        *)

(* Fault: the halves are taken in the order of the archive. *)
TrendUnsorted(points) ==
    LET pts == Dated(points)
        mid == Len(pts) \div 2
        early == SumOf(Values(SubSeq(pts, 1, mid)))
        late == SumOf(Values(SubSeq(pts, mid + 1, Len(pts))))
    IN  IF Len(pts) < 4 \/ early <= 0 THEN None
        ELSE RoundDiv(1000 * (late * mid - early * (Len(pts) - mid)), early * (Len(pts) - mid))

(* The later half of the points against the earlier, in tenths of a percent. *)
TrendPct(points) ==
    LET pts == SortSeq(Dated(points), LAMBDA p, q: p.at < q.at)
        mid == Len(pts) \div 2
        early == SumOf(Values(SubSeq(pts, 1, mid)))
        late == SumOf(Values(SubSeq(pts, mid + 1, Len(pts))))
    IN  IF Len(pts) < 4 \/ early <= 0 THEN None
        ELSE RoundDiv(1000 * (late * mid - early * (Len(pts) - mid)), early * (Len(pts) - mid))

(***************************************************************************)
(* build_clean_compute_report: series is a sequence of [region, zone,      *)
(* points] in the archive's order; a zone is shiftable once, by the first  *)
(* of its regions that has a share.                                        *)
(***************************************************************************)
RecentPoints(points, cutoff) == SelectSeq(points, LAMBDA p: p.at # None /\ p.at >= cutoff)
Eligible(series, cutoff) ==
    SelectSeq([i \in DOMAIN series |-> [series[i] EXCEPT !.points = RecentPoints(@, cutoff)]],
              LAMBDA s: Samples(RankHours(s.points)) >= MinHistory)

ShiftableZones(eligible) ==
    LET rows == SelectSeq([i \in DOMAIN eligible |->
                    [zone |-> eligible[i].zone, saves |-> Shiftability(RankHours(eligible[i].points)),
                     cleanest |-> RankHours(eligible[i].points)[1].hour]],
                    LAMBDA r: r.saves # None)
    IN  FoldLeft(LAMBDA kept, r: IF \E k \in Range(kept) : k.zone = r.zone THEN kept
                                 ELSE Append(kept, r), <<>>, rows)

(* sort() is stable; a report lists `top` rows of each kind. *)
StableSort(rows, before(_, _)) ==
    LET at == [i \in DOMAIN rows |-> [row |-> rows[i], i |-> i]]
        sorted == SortSeq(at, LAMBDA a, b: before(a.row, b.row)
                                 \/ (~before(b.row, a.row) /\ a.i < b.i))
    IN  [i \in DOMAIN rows |-> sorted[i].row]
FirstRows(rows, top) == SubSeq(rows, 1, IF Len(rows) < top THEN Len(rows) ELSE top)

CleanComputeReport(series, now, days, top) ==
    LET eligible == Eligible(series, now - 24 * days)
        greenest == [i \in DOMAIN eligible |->
                        [region |-> eligible[i].region, typical |-> MeanIntensity(eligible[i].points),
                         trend |-> TrendPct(eligible[i].points)]]
    IN  [shiftable |-> FirstRows(StableSort(ShiftableZones(eligible),
                                            LAMBDA a, b: a.saves > b.saves), top),
         greenest |-> FirstRows(StableSort(greenest, LAMBDA a, b: a.typical < b.typical), top)]

(* One summary a day, replaced when the day is reported again, the last kept. *)
UpdateCleanComputeHistory(days, report, day, maxPoints) ==
    LET point == [date |-> day,
                  mean |-> IF report.greenest = <<>> THEN None
                           ELSE Mean([i \in DOMAIN report.greenest |-> report.greenest[i].typical]),
                  top |-> IF report.shiftable = <<>> THEN None ELSE report.shiftable[1].saves]
        series == SortSeq(Append(SelectSeq(days, LAMBDA e: e.date # day), point),
                          LAMBDA a, b: a.date < b.date)
    IN  SubSeq(series, Greatest({1, Len(series) - maxPoints + 1}), Len(series))
=============================================================================
