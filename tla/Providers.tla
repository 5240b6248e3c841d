------------------------------ MODULE Providers -----------------------------
(***************************************************************************)
(* carbon_sources: from what a grid operator publishes to a reading.       *)
(*                                                                         *)
(* The formats (XML, HTML, CSV columns, field names) are abstracted to     *)
(* sequences of entries [fuel, mw]: fuel is what the operator's label says *)
(* a plant is, until an adapter's table turns it into a fuel of the        *)
(* corpus, and mw None for a missing or unreadable number (so that no      *)
(* figure is -1 MW).  An adapter answers a reading, or NoReading where the *)
(* code raises or leaves the zone out, which the cascade treats alike.     *)
(***************************************************************************)
EXTENDS Readings

CONSTANTS
    Factor,        \* corpus: fuel -> gCO2/kWh; storage has none
    Renewables,    \* fuels the corpus marks renewable
    Storage,       \* fuels that store
    MeritOrder     \* price-setting fuels, the costliest first

ASSUME ProvidersAssumption ==
    /\ \A f \in DOMAIN Factor : Factor[f] \in Nat
    /\ Renewables \subseteq DOMAIN Factor
    /\ Storage \cap DOMAIN Factor = {}

NoReading == Reading(None, None, None)

(* MW by fuel; entries of one fuel add up. *)
Tally(entries) ==
    [f \in {entries[i].fuel : i \in DOMAIN entries} |->
        SumOf([i \in DOMAIN entries |-> IF entries[i].fuel = f THEN entries[i].mw ELSE 0])]

TotalMW(mix) == FoldSet(LAMBDA f, sum: sum + mix[f], 0, DOMAIN mix)

Read(entries) == SelectSeq(entries, LAMBDA e: e.mw # None)

(* The adapters' tables of labels.  Labels of one fuel are one here, but   *)
(* for ENTSO-E's pumped storage, which its table makes hydro.              *)
AsNamed(labels) == [l \in labels |-> l]
EIATable == AsNamed({"coal", "natural_gas", "nuclear", "wind", "solar", "hydro", "petroleum",
                   "geothermal", "other", "battery", "pumped_storage"})
GridStatusTable == EIATable @@ AsNamed({"biomass"})
ENTSOETable == AsNamed({"coal", "natural_gas", "nuclear", "wind", "solar", "hydro", "petroleum",
                      "geothermal", "other", "biomass"}) @@ "pumped_storage" :> "hydro"
AEMOTable == AsNamed({"coal", "natural_gas", "petroleum", "hydro", "wind", "solar", "biomass"})
IESOTable == AsNamed({"nuclear", "natural_gas", "hydro", "wind", "solar", "biomass"})
AESOTable == AsNamed({"coal", "natural_gas", "hydro", "wind", "solar", "battery", "other"})
TaiwanTable == AsNamed({"coal", "natural_gas", "nuclear", "solar", "wind", "hydro", "geothermal",
                      "battery"}) @@ "petroleum" :> "oil"

(* A label that a table lacks is left out, or counts as "other". *)
Mapped(table, entries) ==
    LET known == SelectSeq(entries, LAMBDA e: e.fuel \in DOMAIN table)
    IN  [i \in DOMAIN known |-> [known[i] EXCEPT !.fuel = table[@]]]
AsOther(table, entries) ==
    [i \in DOMAIN entries |->
        [entries[i] EXCEPT !.fuel = IF @ \in DOMAIN table THEN table[@] ELSE "other"]]

-----------------------------------------------------------------------------
(* emission_factors.py                                                     *)

GeneratingMW(mix) == [f \in {g \in DOMAIN mix : mix[g] > 0 /\ g \notin Storage} |-> mix[f]]

(* An average of one decimal; 0 for a mix that generates nothing. *)
CalculateCarbonIntensity(mix) ==
    LET gen == GeneratingMW(mix)
        grams == FoldSet(LAMBDA f, sum: sum + gen[f] * Factor[f], 0, DOMAIN gen)
    IN  IF TotalMW(gen) = 0 THEN 0 ELSE 10 * RoundDiv(10 * grams, TotalMW(gen))

(* The factor of the costliest fossil fuel that runs, else the average. *)
CalculateMarginalIntensity(mix) ==
    LET gen == GeneratingMW(mix)
        running == {i \in DOMAIN MeritOrder : MeritOrder[i] \in DOMAIN gen}
    IN  IF running # {} THEN 100 * Factor[MeritOrder[Least(running)]]
        ELSE CalculateCarbonIntensity(mix)

CalculateRenewablePercentage(mix) ==
    LET gen == GeneratingMW(mix)
        green == [f \in DOMAIN gen \cap Renewables |-> gen[f]]
    IN  IF TotalMW(gen) = 0 THEN 0 ELSE RoundDiv(1000 * TotalMW(green), TotalMW(gen))

IntensityFromFuelMix(mix) ==
    IF TotalMW(GeneratingMW(mix)) <= 0 THEN NoReading
    ELSE Reading(CalculateCarbonIntensity(mix), CalculateRenewablePercentage(mix),
                 CalculateMarginalIntensity(mix))

-----------------------------------------------------------------------------
(* Fuel-mix adapters.                                                      *)

(* Rows [period, fuel, mw], the newest first: only the newest period       *)
(* counts, and a missing figure adds nothing.                              *)
EIA(rows) ==
    LET latest == SelectSeq(rows, LAMBDA r: r.period = rows[1].period)
    IN  IF rows = <<>> THEN NoReading ELSE IntensityFromFuelMix(Tally(AsOther(EIATable, Read(latest))))

(* One request per respondent, answered to every zone of it that was asked. *)
EIABatch(zones, respondent, rows) ==
    [z \in {y \in zones : y \in DOMAIN respondent /\ EIA(rows[respondent[y]]) # NoReading} |->
        EIA(rows[respondent[z]])]

(* The most recent figure of a series that has one. *)
Latest(points) ==
    LET known == SelectSeq(points, LAMBDA v: v # None)
    IN  IF known = <<>> THEN None ELSE known[Len(known)]

(* Series [zone, fuel, points]; unmapped, silent and idle ones are left out. *)
RegionFuel(series, zone) ==
    LET now == [i \in DOMAIN series |-> [fuel |-> series[i].fuel, zone |-> series[i].zone,
                                         mw |-> Latest(series[i].points)]]
    IN  Mapped(AEMOTable, SelectSeq(now, LAMBDA e: e.zone = zone /\ e.mw # None /\ e.mw > 0))

AEMOBatch(zones, series) ==
    LET answer(z) == IntensityFromFuelMix(Tally(RegionFuel(series, z)))
    IN  [z \in {y \in zones : answer(y) # NoReading} |-> answer(z)]

(* Series [fuel, points]: the last point counts, or nothing if it is empty. *)
ENTSOE(series) ==
    LET last == [i \in DOMAIN series |-> [fuel |-> series[i].fuel,
                     mw |-> IF series[i].points = <<>> THEN None
                            ELSE series[i].points[Len(series[i].points)]]]
    IN  IntensityFromFuelMix(Tally(AsOther(ENTSOETable, Read(last))))

(* Hours, oldest first: the latest one that has generation. *)
IESO(hours) ==
    LET mix(h) == Tally(Mapped(IESOTable, hours[h]))
        live == {h \in DOMAIN hours : TotalMW(mix(h)) > 0}
    IN  IF live = {} THEN NoReading ELSE IntensityFromFuelMix(mix(Greatest(live)))

AESO(entries) ==
    LET mix == Tally(Mapped(AESOTable, entries))
    IN  IF TotalMW(mix) <= 0 THEN NoReading ELSE IntensityFromFuelMix(mix)

(* A fixed estimate. *)
Quebec == Reading(3000, 950, None)

(* Per-unit rows; storage that charges is a load, which is skipped. *)
Taiwan(rows) ==
    LET running == SelectSeq(rows, LAMBDA r: r.fuel # "charging" /\ r.mw # None /\ r.mw > 0)
        mix == Tally(AsOther(TaiwanTable, running))
    IN  IF TotalMW(mix) <= 0 THEN NoReading ELSE IntensityFromFuelMix(mix)

(* No row raises; the averages are published without the guard above. *)
GridStatus(row) ==
    LET mix == Tally(Read(Mapped(GridStatusTable, row)))
    IN  IF row = <<>> THEN NoReading
        ELSE Reading(CalculateCarbonIntensity(mix), CalculateRenewablePercentage(mix), None)

-----------------------------------------------------------------------------
(* Operators that publish totals by kind, and estimates.                   *)

(* What an adapter with a fixed thermal factor makes of thermal, clean and *)
(* nuclear MW; a total of 0 falls back to its heuristic.                   *)
FromTotals(thermal, clean, nuclear, factor, heuristic) ==
    LET total == thermal + clean + nuclear
    IN  IF total = 0 THEN heuristic
        ELSE Reading(10 * RoundDiv(10 * thermal * factor, total), RoundDiv(1000 * clean, total), None)

(* Defaults of a region, scaled by the local hour. *)
IndiaHeuristic(base, hour) ==
    IF hour \in 10 .. 16
    THEN Reading(10 * RoundDiv(base.carbon * 75, 1000), Least({1000, (base.renewable * 3) \div 2}), None)
    ELSE IF hour < 6 \/ hour > 20
    THEN Reading(10 * RoundDiv(base.carbon * 110, 1000), RoundDiv(base.renewable * 7, 10), None)
    ELSE base

GridIndia(entry, base, hour) ==
    IF entry = <<>> THEN IndiaHeuristic(base, hour)
    ELSE FromTotals(entry.thermal, entry.hydro + entry.renewable, entry.nuclear, 820,
                    IndiaHeuristic(base, hour))

(* Entries of the zone's subsystem; an unknown kind only enters the total. *)
ONSBrazil(entries, base) ==
    LET of(kinds) == SumOf([i \in DOMAIN entries |->
                         IF entries[i].fuel \in kinds THEN entries[i].mw ELSE 0])
        total == SumOf([i \in DOMAIN entries |-> entries[i].mw])
        clean == of({"hydro", "wind", "solar"})
    IN  FromTotals(of({"thermal"}), clean, total - of({"thermal"}) - clean, 490, base)

Eskom(hour) ==
    IF hour \in 10 .. 15 THEN Reading(71760, 140, None)
    ELSE IF hour < 5 \/ hour > 21 THEN Reading(79560, 50, None)
    ELSE Reading(78000, 80, None)

(* Tenths of a percent from W/m2 and km/h: 40% of sun and 30% of wind at most. *)
WeatherRenewable(radiation, wind) ==
    Least({400, (radiation * 400) \div 1000})
        + IF wind > 12 THEN Least({300, ((wind - 12) * 300) \div 33}) ELSE 0

(* The baseline less the renewable share over 150, ten grams at least. *)
OpenMeteo(baseline, radiation, wind) ==
    LET share == WeatherRenewable(radiation, wind)
    IN  Reading(Greatest({1000, 10 * RoundDiv(baseline * 10 * (1500 - share), 1500)}), share, None)

(* Fetched as they are; a share that cannot be fetched is 0. *)
ElectricityMaps(carbon, share) == Reading(carbon, IF share = None THEN 0 ELSE share, None)

-----------------------------------------------------------------------------
(* The British operator: a national figure, and regions.                   *)

(* Python's `or`: an actual of 0 gives way to the forecast. *)
UKNational(actual, forecast, share) ==
    Reading(IF actual \in {None, 0} THEN forecast ELSE actual, IF share = None THEN 0 ELSE share, None)

RegionIntensity(region) == IF region.actual # None THEN region.actual ELSE region.forecast

(* None of a mix that is absent or adds up to nothing. *)
RenewableFromMix(shares) ==
    LET total == TotalMW(shares)
        green == TotalMW([f \in DOMAIN shares \cap {"wind", "solar", "hydro"} |-> shares[f]])
    IN  IF total <= 0 THEN None ELSE RoundDiv(1000 * green, total)

RenewableOrZero(region) ==
    LET pct == RenewableFromMix(region.mix) IN IF pct = None THEN 0 ELSE pct

RegionReading(region) == Reading(RegionIntensity(region), RenewableOrZero(region), None)

(* Regions in the order answered: one without a figure raises inside the   *)
(* loop, and ends it for those behind.                                     *)
UKRegional(zones, regions) ==
    LET dead == {i \in DOMAIN regions : regions[i].zone \in zones /\ RegionIntensity(regions[i]) = None}
        read == {i \in DOMAIN regions : regions[i].zone \in zones /\ \A d \in dead : i < d}
        of(z) == regions[CHOOSE i \in read : regions[i].zone = z]
    IN  [z \in {regions[i].zone : i \in read} |-> RegionReading(of(z))]

-----------------------------------------------------------------------------
(* Day-ahead shares: entsoe_forecast.py and OpenMeteoForecastSource.       *)

(* Points [hour, mw] of all series: averaged within a series' hour, summed over series. *)
SeriesByHour(series) ==
    LET hours(s) == {s[i].hour : i \in DOMAIN s}
        mean(s, h) == LET own == SelectSeq(s, LAMBDA p: p.hour = h)
                      IN  Mean([i \in DOMAIN own |-> own[i].mw])
    IN  [h \in UNION {hours(series[i]) : i \in DOMAIN series} |->
            SumOf([i \in DOMAIN series |-> IF h \in hours(series[i]) THEN mean(series[i], h) ELSE 0])]

(* Percent of load, clamped, for hours with a load and a forecast. *)
VRECurve(generation, load, maxHours) ==
    [h \in {g \in DOMAIN load \cap DOMAIN generation : load[g] > 0 /\ g \in 0 .. maxHours} |->
        Clamp((100 * generation[h]) \div load[h], 0, 100)]

WeatherCurve(points, maxHours) ==
    [h \in {points[i].hour : i \in DOMAIN points} \cap 0 .. maxHours |->
        LET p == points[Greatest({i \in DOMAIN points : points[i].hour = h})]
        IN  WeatherRenewable(p.radiation, p.wind) \div 10]

(* Kept half an hour if it is not empty; a fetch that raises is not kept. *)
ZoneSeries(cached, age, ttl, fetched) ==
    IF cached # <<>> /\ age < ttl THEN cached ELSE fetched
=============================================================================
