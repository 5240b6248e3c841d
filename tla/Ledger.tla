------------------------------- MODULE Ledger -------------------------------
(***************************************************************************)
(* The impact ledger: cli/ledger.py's aggregations over run records, the   *)
(* copy of them kept by the server (accounting/impact_repo.py), and the    *)
(* tracker of routed requests (accounting/tracker.py).                     *)
(*                                                                         *)
(* An entry is what `carbonlens run` appends: [ts, region, deferred, basis,*)
(* reduction, predicted, energy].  ts is a day or None (undated entries    *)
(* are kept), deferred whole hours, reduction and predicted in tenths of a *)
(* gram, energy in kWh, None for a run without a figure; predicted is      *)
(* Absent in an entry that has no such key.                                *)
(***************************************************************************)
EXTENDS Readings

Absent == -2

Within(entry, now, days) == entry.ts = None \/ entry.ts >= now - days
Recent(entries, now, days) == Picked(entries, {i \in DOMAIN entries : Within(entries[i], now, days)})

Shifted(entries) == Picked(entries, {i \in DOMAIN entries : entries[i].deferred > 0})
Verified(entries) == Picked(entries, {i \in DOMAIN entries : entries[i].basis = "measured"})
WithEnergy(entries) == Picked(entries, {i \in DOMAIN entries : entries[i].energy > 0})

(* Tenths of a gram avoided by entries that have an energy. *)
Avoided(entries) == SumOf([i \in DOMAIN entries |-> entries[i].reduction * entries[i].energy])

Reductions(entries) == [i \in DOMAIN entries |-> entries[i].reduction]
MeanOrZero(s) == IF s = <<>> THEN 0 ELSE Mean(s)

(* summarize: one host; kg in hundredths, that is tenths of a gram over 100. *)
Summarize(entries, now, days) ==
    LET recent == Recent(entries, now, days)
        shifted == Shifted(recent)
    IN  [jobs |-> Len(recent), shifted |-> Len(shifted), measured |-> Len(Verified(shifted)),
         withEnergy |-> Len(WithEnergy(shifted)),
         meanReduction |-> MeanOrZero(Reductions(shifted)),
         grams |-> Avoided(WithEnergy(shifted)),
         kg |-> RoundDiv(Avoided(WithEnergy(shifted)), 100)]

RegionsOf(entries) == {entries[i].region : i \in DOMAIN entries}
OfRegion(entries, region) == Picked(entries, {i \in DOMAIN entries : entries[i].region = region})

(* The row of one region. *)
RegionRow(entries, region) ==
    LET own == OfRegion(entries, region)
        shifted == Shifted(own)
    IN  [region |-> region, jobs |-> Len(own), shifted |-> Len(shifted),
         kg |-> RoundDiv(Avoided(WithEnergy(shifted)), 100),
         meanReduction |-> MeanOrZero(Reductions(shifted))]

(***************************************************************************)
(* fleet_summary: the rows with the most kg avoided, `top` at most, in any *)
(* order among equals (the order in which the regions first appear).       *)
(***************************************************************************)
TopRows(rows, top) ==
    {r \in rows : Cardinality({s \in rows : s.kg > r.kg}) < top}

FleetSummary(entries, now, days, top) ==
    LET recent == Recent(entries, now, days)
        shifted == Shifted(recent)
    IN  [jobs |-> Len(recent), shifted |-> Len(shifted), measured |-> Len(Verified(shifted)),
         withEnergy |-> Len(WithEnergy(shifted)),
         kg |-> RoundDiv(Avoided(WithEnergy(shifted)), 100),
         regions |-> TopRows({RegionRow(recent, r) : r \in RegionsOf(recent)}, top)]

-----------------------------------------------------------------------------
(* Calibration of forecasts: actual over predicted, in hundredths.         *)

(* Verified shifted runs that recorded a prediction. *)
Predicted(entries) == Picked(entries, {i \in DOMAIN entries : entries[i].predicted # Absent})
Pairs(entries, now, days) == Predicted(Verified(Shifted(Recent(entries, now, days))))

Predictions(pairs) == [i \in DOMAIN pairs |-> pairs[i].predicted]
Errors(pairs) == [i \in DOMAIN pairs |->
    Greatest({pairs[i].reduction - pairs[i].predicted, pairs[i].predicted - pairs[i].reduction})]

Calibration(entries, now, days) ==
    LET pairs == Pairs(entries, now, days)
        predicted == SumOf(Predictions(pairs))
    IN  [samples |-> Len(pairs), meanPredicted |-> MeanOrZero(Predictions(pairs)),
         meanActual |-> MeanOrZero(Reductions(pairs)), meanError |-> MeanOrZero(Errors(pairs)),
         ratio |-> IF predicted = 0 THEN 0
                   ELSE RoundDiv(100 * SumOf(Reductions(pairs)), predicted)]

(* Only regions with a sample appear. *)
CalibrationByRegion(entries, now, days) ==
    [region \in {r \in RegionsOf(entries) :
                    Calibration(OfRegion(entries, r), now, days).samples > 0} |->
        Calibration(OfRegion(entries, region), now, days)]

AdjustedPrediction(predicted, ratio) == RoundDiv(predicted * ratio, 100)

Verdict(ratio) ==
    IF ratio \in 85 .. 115 THEN "well-calibrated"
    ELSE IF ratio < 85 THEN "over-promised" ELSE "under-promised"

(* The share of verified savings in tenths of a percent. *)
OrgStatement(entries, now, days) ==
    LET s == FleetSummary(entries, now, days, 20)
    IN  [jobs |-> s.jobs, shifted |-> s.shifted, withEnergy |-> s.withEnergy, kg |-> s.kg,
         verified |-> IF s.shifted = 0 THEN 0 ELSE RoundDiv(1000 * s.measured, s.shifted),
         calibration |-> Calibration(entries, now, days), regions |-> s.regions]

(* verify: the accuracy line appears only with samples. *)
DisclosureMarkdown(stmt) ==
    [headline |-> <<stmt.jobs, stmt.shifted, stmt.verified, stmt.kg, stmt.withEnergy>>,
     accuracy |-> IF stmt.calibration.samples = 0 THEN "none" ELSE Verdict(stmt.calibration.ratio),
     table |-> stmt.regions]

-----------------------------------------------------------------------------
(* The server's copy: the columns of a row, and the entries read back.     *)

(* Fault: a run that was not deferred is stored as deferred for an hour. *)
AtLeastAnHour(entry, ts) ==
    [ts |-> ts, region |-> entry.region, deferred |-> Greatest({1, entry.deferred}),
     reduction |-> entry.reduction, energy |-> entry.energy, basis |-> entry.basis]

RecordImpact(entry, ts) ==
    [ts |-> ts, region |-> entry.region, deferred |-> entry.deferred,
     reduction |-> entry.reduction, energy |-> entry.energy, basis |-> entry.basis]

(* Newest first, RecentImpactLimit at most (10000 rows in the code: never  *)
(* reached here); a row has no prediction.                                 *)
AsEntry(row) ==
    [ts |-> row.ts, region |-> row.region, deferred |-> row.deferred, reduction |-> row.reduction,
     energy |-> row.energy, basis |-> row.basis, predicted |-> Absent]
RecentImpacts(rows, since) ==
    LET newest == SortedByScore({[score |-> -rows[i].ts, at |-> i] :
                                     i \in {j \in DOMAIN rows : rows[j].ts >= since}})
    IN  [k \in DOMAIN newest |-> AsEntry(rows[newest[k].at])]

-----------------------------------------------------------------------------
(* accounting/tracker.py: a routed request's saving against the mean of    *)
(* its candidates (a sequence of readings, the chosen one first).          *)

Baseline(candidates) == Mean([i \in DOMAIN candidates |-> candidates[i].carbon])

TrackerRecord(candidates) ==
    LET carbons == [i \in DOMAIN candidates |-> candidates[i].carbon]
    IN  [chosen |-> candidates[1].carbon, baseline |-> Baseline(candidates),
         reduction |-> RoundDiv(SumOf(carbons) - Len(carbons) * carbons[1], Len(carbons)),
         renewable |-> candidates[1].renewable]

(* The savings report over the records kept. *)
TrackerReport(records) ==
    [requests |-> Len(records),
     meanReduction |-> MeanOrZero([i \in DOMAIN records |-> records[i].reduction]),
     meanRenewable |-> MeanOrZero([i \in DOMAIN records |-> records[i].renewable])]
=============================================================================
