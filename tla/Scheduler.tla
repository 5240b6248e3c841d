----------------------------- MODULE Scheduler ------------------------------
(***************************************************************************)
(* scheduler/engine.py: projection of a grid's intensity over the coming   *)
(* hours, and the search for the best slot to run a job in.                *)
(*                                                                         *)
(* What the engine is given is a record env:                               *)
(*   hour      the UTC hour of now (the code's fraction of an hour of      *)
(*             longitude is left out: regions lie on whole hours)          *)
(*   regions   the region map, [provider, region, zone, offset] in file    *)
(*             order; offset is longitude / 15                             *)
(*   readings  the batch answered by the carbon source: zone -> reading,   *)
(*             for the zones it had                                        *)
(*   curves    ENTSO-E's day-ahead curves: zone -> (hour offset -> VRE     *)
(*             percent) for the zones it covers; an empty function is a    *)
(*             fetch that failed                                           *)
(*   weather   the same of Open-Meteo, which covers some of those zones    *)
(*   marginals measured marginal forecasts: zone -> (hour -> marginal)     *)
(***************************************************************************)
EXTENDS Readings

CONSTANTS
    ForecastTopK,      \* _FORECAST_TOP_K: zones given a real forecast (4 in the code)
    HoursPerDay        \* hours of a window covered slot by slot (24 in the code)

ASSUME SchedulerAssumption ==
    /\ ForecastTopK \in Nat
    /\ HoursPerDay \in Nat \ {0}

-----------------------------------------------------------------------------
(* The local time-of-day model.                                            *)

(* Tenths: the demand factor by local hour. *)
DemandFactor(h) ==
    IF h \in 17 .. 20 THEN 10 ELSE IF h \in 7 .. 9 THEN 7 ELSE IF h \in 7 .. 22 THEN 5 ELSE 2

(* 36ths: 1 - ((h - 12) / 6)^2 between 6 and 18. *)
SolarFactor(h) == IF h \in 6 .. 18 THEN 36 - (h - 12) * (h - 12) ELSE 0

(* The factor 1 + (demand - solar) * 0.15, over 2400. *)
ProjectIntensity(utcHour, current, hoursAhead, offset) ==
    IF hoursAhead = 0 THEN current
    ELSE LET local == (utcHour + hoursAhead + offset) % 24
             factor == 2400 + 36 * DemandFactor(local) - 10 * SolarFactor(local)
             renewable == RoundDiv(current.renewable * (360 + SolarFactor(local)), 360)
         IN  Reading(Clamp(RoundDiv(current.carbon * factor, 2400), 0, 1000000),
                     Clamp(renewable, 0, 1000), None)

(* Scales by the share left to other sources, (1 - vre future) / (1 - vre now). *)
ProjectWithForecast(current, now, future, hoursAhead) ==
    IF hoursAhead = 0 THEN current
    ELSE Reading(Clamp(RoundDiv(current.carbon * (100 - future), 100 - now), 0, 1000000),
                 Clamp(current.renewable + 10 * (future - now), 0, 1000), None)

NoCurve == [h \in {} |-> 0]

(* What a fetch up to an hour brings of a curve. *)
FirstHours(curve, hours) == [h \in {g \in DOMAIN curve : g <= hours} |-> curve[h]]

(* The forecast curve where it has both hours, else the time-of-day model. *)
ProjectAt(utcHour, current, curve, hoursAhead, offset) ==
    IF {0, hoursAhead} \subseteq DOMAIN curve /\ (hoursAhead = 0 \/ curve[0] < 99)
    THEN ProjectWithForecast(current, curve[0], curve[hoursAhead], hoursAhead)
    ELSE ProjectIntensity(utcHour, current, hoursAhead, offset)

-----------------------------------------------------------------------------
(* forecast_zone: the current reading and `hours` projections, by the      *)
(* first source that has a curve, stamped with the measured marginal where *)
(* the operator's source has one.                                          *)

FetchedCurve(curves, zone, hours) ==
    IF zone \in DOMAIN curves THEN FirstHours(curves[zone], hours) ELSE NoCurve

ForecastZone(env, zone, offset, hours) ==
    LET dayAhead == FetchedCurve(env.curves, zone, hours)
        curve == IF DOMAIN dayAhead # {} THEN dayAhead ELSE FetchedCurve(env.weather, zone, hours)
        marginal == IF zone \in DOMAIN env.marginals THEN env.marginals[zone] ELSE NoCurve
        point(h) == IF h = 0 THEN env.readings[zone]
                    ELSE ProjectAt(env.hour, env.readings[zone], curve, h, offset)
    IN  [i \in 1 .. hours + 1 |->
            IF i - 1 \in DOMAIN marginal
            THEN [point(i - 1) EXCEPT !.marginal = marginal[i - 1]]
            ELSE point(i - 1)]

-----------------------------------------------------------------------------
(* find_optimal_window.                                                    *)

Named(r, provider, region) == r.provider = provider /\ r.region = region

(* Preferred regions in the order asked for, provider by provider, else all *)
(* of the providers'.                                                       *)
ResolveRegions(env, req) ==
    LET asked == Len(req.preferred)
        provider(n) == req.providers[((n - 1) \div asked) + 1]
        region(n) == req.preferred[((n - 1) % asked) + 1]
        known(n) == {r \in Range(env.regions) : Named(r, provider(n), region(n))}
        pairs == 1 .. Len(req.providers) * asked
    IN  IF req.preferred = <<>>
        THEN Picked(env.regions, {i \in DOMAIN env.regions : env.regions[i].provider \in Range(req.providers)})
        ELSE Picked([n \in pairs |-> CHOOSE r \in known(n) : TRUE], {n \in pairs : known(n) # {}})

(* One region per grid zone, the first that names it. *)
ZoneMap(env, req) ==
    LET regions == ResolveRegions(env, req)
    IN  Picked(regions, {i \in DOMAIN regions :
                            \A j \in DOMAIN regions : j < i => regions[j].zone # regions[i].zone})

(* The zones whose curve is fetched: the cleanest now, ties in map order. *)
ForecastZones(env, regions) ==
    LET carbon(i) == env.readings[regions[i].zone].carbon
        eu == {i \in DOMAIN regions : regions[i].zone \in DOMAIN env.readings \cap DOMAIN env.curves}
        ahead(i) == {j \in eu : carbon(j) < carbon(i) \/ (carbon(j) = carbon(i) /\ j < i)}
    IN  {regions[i].zone : i \in {k \in eu : Cardinality(ahead(k)) < ForecastTopK}}

SlotInterval(maxDelay) == Greatest({1, maxDelay \div HoursPerDay})
DurationHours(minutes) == Greatest({1, (minutes + 59) \div 60})

(* Lower is better, but for highest_renewable; scaled to whole numbers. *)
ScoreSlot(p, strategy, surplus) ==
    LET balanced == 3 * p.carbon + 100 * (1000 - p.renewable)
    IN  CASE strategy = "lowest_carbon" -> (IF surplus THEN 3 ELSE 5) * p.carbon
          [] strategy = "highest_renewable" -> p.renewable + (IF surplus THEN 50 ELSE 0)
          [] strategy = "balanced" -> (IF surplus THEN 3 ELSE 5) * balanced

(* Fault: a slot is scored by its first hour alone. *)
FirstHourOnly(env, req, region, curve, hour) ==
    LET p == ProjectAt(env.hour, env.readings[region.zone], curve, hour, region.offset)
    IN  [start |-> hour, region |-> region, carbon |-> p.carbon, renewable |-> p.renewable,
         surplus |-> IsCleanSurplus(p), score |-> ScoreSlot(p, req.strategy, IsCleanSurplus(p))]

(* A slot is scored by the mean over every hour the job runs in. *)
SlotAt(env, req, region, curve, hour) ==
    LET window == [d \in 1 .. DurationHours(req.minutes) |->
                      ProjectAt(env.hour, env.readings[region.zone], curve, hour + d - 1,
                                region.offset)]
        mean == Reading(Mean([d \in DOMAIN window |-> window[d].carbon]),
                        Mean([d \in DOMAIN window |-> window[d].renewable]), None)
        surplus == IsCleanSurplus(mean)
    IN  [start |-> hour, region |-> region, carbon |-> mean.carbon,
         renewable |-> mean.renewable, surplus |-> surplus,
         score |-> ScoreSlot(mean, req.strategy, surplus)]

AnsweredRegions(env, req) ==
    LET regions == ZoneMap(env, req)
    IN  Picked(regions, {i \in DOMAIN regions : regions[i].zone \in DOMAIN env.readings})

(* The curve a search has of a zone: ENTSO-E's, fetched up to its last      *)
(* start, whatever the job's length.                                        *)
CurveOf(env, req, zone) ==
    IF zone \in ForecastZones(env, ZoneMap(env, req))
    THEN FirstHours(env.curves[zone], req.maxDelay) ELSE NoCurve

(* Hour by hour, and within an hour zone by zone. *)
SlotsOver(env, req, answered) ==
    LET zones == Len(answered)
        step == SlotInterval(req.maxDelay)
        region(n) == answered[((n - 1) % zones) + 1]
    IN  [n \in 1 .. zones * ((req.maxDelay + step - 1) \div step) |->
            SlotAt(env, req, region(n), CurveOf(env, req, region(n).zone), step * ((n - 1) \div zones))]

Slots(env, req) == SlotsOver(env, req, AnsweredRegions(env, req))

RankSlots(slots, strategy) ==
    LET score(s) == IF strategy = "highest_renewable" THEN -s.score ELSE s.score
        ranked == SortedByScore({[score |-> score(slots[i]), at |-> i] : i \in DOMAIN slots})
    IN  [k \in DOMAIN ranked |-> slots[ranked[k].at]]

(* Tenths of a percent, against running now in the worst region; never below 0. *)
SavedVsNow(slots, best) ==
    LET now == {s.carbon : s \in {t \in Range(slots) : t.start = 0}}
    IN  IF now = {} \/ Greatest(now) <= 0 THEN 0
        ELSE Greatest({0, RoundDiv((Greatest(now) - best.carbon) * 1000, Greatest(now))})

(* No slot at all: "now", in the first region if any, with nothing evaluated. *)
Fallback(env, req) ==
    LET regions == ZoneMap(env, req)
    IN  [recommended |-> [start |-> 0, carbon |-> 0, renewable |-> 0, surplus |-> FALSE,
                          score |-> 0,
                          region |-> IF regions = <<>>
                                     THEN [provider |-> "unknown", region |-> "unknown",
                                           zone |-> "unknown", offset |-> 0]
                                     ELSE regions[1]],
         alternatives |-> <<>>, forecast |-> <<>>, saved |-> 0, evaluated |-> 0]

(* The best slot and ten at most in all, with its region's curve. *)
Recommend(env, req, slots, ranked) ==
    IF slots = <<>> THEN Fallback(env, req)
    ELSE [recommended |-> ranked[1],
          alternatives |-> SubSeq(ranked, 2, IF Len(ranked) < 10 THEN Len(ranked) ELSE 10),
          forecast |-> Picked(slots, {i \in DOMAIN slots :
                           Named(slots[i].region, ranked[1].region.provider, ranked[1].region.region)}),
          saved |-> SavedVsNow(slots, ranked[1]), evaluated |-> Len(slots)]

FindOptimalWindow(env, req) ==
    LET slots == Slots(env, req)
    IN  Recommend(env, req, slots, RankSlots(slots, req.strategy))

(* GET /now: the same search over the current hour, by lowest carbon. *)
BestRegionNow(env, minutes, providers) ==
    FindOptimalWindow(env, [minutes |-> minutes, providers |-> providers, preferred |-> <<>>,
                            strategy |-> "lowest_carbon", maxDelay |-> 1])
=============================================================================
