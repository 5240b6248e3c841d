------------------------------ MODULE Questions -----------------------------
(***************************************************************************)
(* The API's stateless requests, one action per engine: a question arrives *)
(* with everything the engine is given, and is answered.  The engines are  *)
(* the modules extended here.  What the properties ask of an answer is     *)
(* stated against another engine, another way to the same figure, or the   *)
(* answer to a neighbouring question.                                      *)
(***************************************************************************)
EXTENDS Scheduler, Signal, Decisions, Patterns, Ledger, SLAEvaluation, Cascade

CONSTANT Asked         \* kind -> the questions of it, [kind, ...]

(***************************************************************************)
(* What is assumed of the questions.  A forecast has an hour 0 and figures *)
(* within the bounds of the reading's type.                                *)
(***************************************************************************)
IsSignalQuestion(q) ==
    /\ q.points \in Seq(ReadingRecords) \ {<<>>}
    /\ q.current \in ReadingRecords
    /\ {q.measured, q.cap} \subseteq Nat \cup {None}
    /\ q.maxWait \in Nat

(* A region that is named twice has one forecast. *)
IsPlanQuestion(q) ==
    /\ q.regions \in Seq([label : STRING, intensities : Seq(Nat), surplus : SUBSET Nat])
    /\ \A r, s \in DOMAIN q.regions :
          q.regions[r].label = q.regions[s].label => q.regions[r] = q.regions[s]
    /\ q.cap \in Nat \cup {None}
    /\ q.maxWait \in Nat
    /\ q.minSavings \in Int

(* A batch has no figure that a request for the zone alone would not get,  *)
(* but it may lack one.                                                    *)
BatchOfSingles(p) ==
    \A asked \in SUBSET p.handles :
        /\ DOMAIN p.batch[asked] \subseteq asked
        /\ \A z \in DOMAIN p.batch[asked] : p.batch[asked][z] = p.single[z] /\ p.single[z] # NoReading

IsReadingsQuestion(q) ==
    /\ q.providers \in Seq(Range(q.providers))
    /\ \A p \in Range(q.providers) : BatchOfSingles(p)

(* Each batch of readings is of finitely many zones. *)
IsSLAQuestion(q) ==
    /\ q.batches \in Seq(Range(q.batches))
    /\ \A b \in Range(q.batches) : /\ IsFiniteSet(DOMAIN b.readings)
                                   /\ \A z \in DOMAIN b.readings : b.readings[z] \in ReadingRecords
    /\ q.sla \in [providers : Seq(STRING), regions : Seq(STRING), maxCarbon : Int, minRenewable : Int]

IsRouteQuestion(q) ==
    /\ q.map \in Seq(Range(q.map))
    /\ q.req.providers \in Seq(Range(q.req.providers))
    /\ q.req.weight \in 0 .. 10
    /\ \A z \in DOMAIN q.readings : q.readings[z] \in ReadingRecords

(* A forecast source gives percent of load; a search looks an hour ahead at least. *)
IsScheduleQuestion(q) ==
    /\ q.env \in [hour : 0 .. 23, readings : {q.env.readings}, curves : {q.env.curves},
                  weather : {q.env.weather}, marginals : {q.env.marginals},
                  regions : Seq([provider : STRING, region : STRING, zone : STRING,
                                 offset : -12 .. 14, areas : SUBSET STRING])]
    /\ \A z \in DOMAIN q.env.readings : q.env.readings[z] \in ReadingRecords
    /\ \A z \in DOMAIN q.env.curves :
          \A h \in DOMAIN q.env.curves[z] : q.env.curves[z][h] \in 0 .. 100
    /\ q.req \in [minutes : Nat \ {0}, providers : Seq(STRING), preferred : Seq(STRING),
                  strategy : {"lowest_carbon", "highest_renewable", "balanced"},
                  maxDelay : Nat \ {0}]

(* No run is recorded with less than no reduction. *)
IsLedgerQuestion(q) ==
    /\ q.entries \in Seq(Range(q.entries))
    /\ \A e \in Range(q.entries) : /\ e.ts \in Nat \cup {None}
                                   /\ e.reduction \in Nat
                                   /\ e.predicted \in Nat \cup {Absent}
                                   /\ e.energy \in Nat \cup {None}
    /\ q.top \in Nat

ASSUME QuestionsAssumption ==
    /\ \A kind \in DOMAIN Asked : \A q \in Asked[kind] : q.kind = kind
    /\ "signal" \in DOMAIN Asked => \A q \in Asked["signal"] : IsSignalQuestion(q)
    /\ "plan" \in DOMAIN Asked => \A q \in Asked["plan"] : IsPlanQuestion(q)
    /\ "readings" \in DOMAIN Asked => \A q \in Asked["readings"] : IsReadingsQuestion(q)
    /\ "sla" \in DOMAIN Asked => \A q \in Asked["sla"] : IsSLAQuestion(q)
    /\ "route" \in DOMAIN Asked => \A q \in Asked["route"] : IsRouteQuestion(q)
    /\ "schedule" \in DOMAIN Asked => \A q \in Asked["schedule"] : IsScheduleQuestion(q)
    /\ "ledger" \in DOMAIN Asked => \A q \in Asked["ledger"] : IsLedgerQuestion(q)

VARIABLES
    question,
    answer             \* Pending, then the answer

questionVars == <<question, answer>>

Pending == [pending |-> TRUE]

QuestionsInit ==
    /\ \E kind \in DOMAIN Asked : question \in Asked[kind]
    /\ answer = Pending

Answer(kind, result) ==
    /\ answer = Pending
    /\ question.kind = kind
    /\ answer' = result
    /\ UNCHANGED question

-----------------------------------------------------------------------------
(* POST /scheduler/find-window, and GET /scheduler/now for the same job. *)
AnswerSchedule ==
    Answer("schedule", [window |-> FindOptimalWindow(question.env, question.req),
                        now |-> BestRegionNow(question.env, question.req.minutes, question.req.providers)])

(* GET /signal: the forecast, then the reading and the marginal figure as  *)
(* they are answered after it.                                             *)
AnswerSignal ==
    Answer("signal", BuildSignal(question.points, question.current, question.measured))

(* carbonlens run and plan *)
AnswerPlan ==
    Answer("plan", [index |-> ChooseRunIndex(question.regions[1].intensities, question.cap,
                                             question.maxWait, question.regions[1].surplus,
                                             question.minSavings),
                    plan |-> ChooseRunPlan(question.regions, question.cap, question.maxWait,
                                           question.minSavings)])

(* GET /carbon/best-time and /carbon/anomaly, and the weekly report, over  *)
(* what the history store has of the last ReportDays days, of a midnight;  *)
(* the report is kept in the series of reports.                            *)
ReportDays == 2
Found(archive) ==
    LET store == HistoryLoad(question.store, question.ttl, archive)
        since == question.now - 24 * ReportDays
        series == <<[region |-> "r1", zone |-> "A", points |-> SeriesFor(store.data, "r1", since)],
                    [region |-> "r2", zone |-> "B", points |-> SeriesFor(store.data, "r2", since)]>>
        report == CleanComputeReport(series, question.now, ReportDays, 1)
    IN  [best |-> BestTime(series[1].points, question.forecast, 3),
         anomaly |-> ComputeAnomaly(question.current, series[1].points, question.hour),
         report |-> report,
         kept |-> UpdateCleanComputeHistory(question.kept, report, question.now, 2)]
AnswerPatterns == Answer("patterns", Found(question.archive))

(* POST /route, and what the tracker records of the answer. *)
TrackedRoute(routed) == <<routed.recommended>> \o routed.alternatives
AnswerRoute ==
    LET routed == Route(question.map, question.req, question.readings)
    IN  Answer("route", [routed |-> routed,
                         savings |-> TrackerReport(IF routed = NoRoute THEN <<>>
                                                   ELSE <<TrackerRecord(TrackedRoute(routed))>>)])

(* carbonlens impact, fleet-impact, calibration, org-statement and verify *)
AnswerLedger ==
    LET e == question.entries
        n == question.now
        d == question.days
        statement == OrgStatement(e, n, d)
    IN  Answer("ledger", [host |-> Summarize(e, n, d), fleet |-> FleetSummary(e, n, d, question.top),
                          statement |-> statement, disclosure |-> DisclosureMarkdown(statement),
                          byRegion |-> CalibrationByRegion(e, n, d)])

(* GET /carbon/{provider}/{region} and /carbon/batch. *)
Chain == BuildProviderChain(question.providers, question.configured)
AnswerReadings ==
    LET map == ZoneMapFromIntensities(question.snapshot)
    IN  Answer("readings", [batch |-> SnapshotBatch(map, Chain, question.mock, question.zones),
                            single |-> [z \in question.zones |->
                                           SnapshotSingle(map, Chain, question.mock, z)]])

(* One hour's generation, as the adapters read it from the formats of the  *)
(* operators; older figures stand beside it where the format has them,     *)
(* and no negative ones where it has no sign.                              *)
OldMW == 7
Unsigned(entries) == SelectSeq(entries, LAMBDA e: e.mw >= 0)
Rows(period, entries) ==
    [i \in DOMAIN entries |-> [period |-> period, fuel |-> entries[i].fuel, mw |-> entries[i].mw]]
Published(entries) ==
    LET before == [i \in DOMAIN entries |-> [entries[i] EXCEPT !.mw = OldMW]]
        series(missing) == [i \in DOMAIN entries |->
            [zone |-> "Z", fuel |-> entries[i].fuel, points |-> <<OldMW, entries[i].mw>> \o missing]]
        rows == Rows(2, entries) \o Rows(1, before)
        one(batch) == IF batch = <<>> THEN NoReading ELSE batch["Z"]
    IN  [eia |-> EIA(rows), eiaBatch |-> one(EIABatch({"Z"}, "Z" :> "R", "R" :> rows)),
         aemo |-> one(AEMOBatch({"Z"}, series(<<None>>))),
         entsoe |-> ENTSOE(series(<<>>)), ieso |-> IESO(<<before, Unsigned(entries)>>),
         aeso |-> AESO(Unsigned(entries)), taiwan |-> Taiwan(entries), gridstatus |-> GridStatus(entries)]
AnswerFeeds == Answer("feeds", Published(question.entries))

(* Operators that publish totals, estimates, and the British regions. *)
AnswerEstimates ==
    Answer("estimates",
           [of |-> {GridIndia(question.totals, question.base, question.hour),
                    ONSBrazil(question.entries, question.base), Eskom(question.hour), Quebec,
                    ElectricityMaps(question.base.carbon, None),
                    OpenMeteo(question.base.carbon \div 100, question.radiation, question.wind)},
            uk |-> UKRegional(question.zones, question.regions),
            national |-> UKNational(question.actual, question.base.carbon, RenewableFromMix(question.mix)),
            curve |-> ZoneSeries(<<>>, 0, 0, VRECurve(SeriesByHour(question.vre), SeriesByHour(question.load), 2)),
            weather |-> WeatherCurve(<<[hour |-> 0, radiation |-> question.radiation, wind |-> question.wind]>>, 2)])

(* The operator's marginal source, now and ahead. *)
AnswerMarginal ==
    LET settings == [wattToken |-> question.wattToken, wattMap |-> ParseZoneMap(question.wattPairs),
                     emKey |-> question.emKey, emMap |-> ParseZoneMap(question.emPairs)]
        z == question.zone
        body == question.body
        now == CASE MarginalSource(settings) = "watttime" -> WattTimeMarginal(settings.wattMap, z, body)
                 [] MarginalSource(settings) = "electricity_maps" ->
                        ElectricityMapsMarginal(settings.emMap, z, body)
                 [] MarginalSource(settings) = "none" -> None
        ahead == CASE MarginalSource(settings) = "watttime" ->
                          WattTimeForecast(settings.wattMap, z, body, question.hours)
                   [] MarginalSource(settings) = "electricity_maps" ->
                          ElectricityMapsForecast(settings.emMap, z, body, question.hours)
                   [] MarginalSource(settings) = "none" -> [h \in {} |-> 0]
    IN  Answer("marginal", [now |-> now, ahead |-> ahead, unmapped |-> MarginalUnmapped(settings)])

(* Consumption of the traced zones. *)
AnswerFlows ==
    Answer("flows", ComputeConsumption(question.zones, question.loads, question.intensity,
                                       question.borders, question.measured, question.sweeps))

(* Checks of an SLA, one for each batch of readings, and their report. *)
ChecksOf(sla) ==
    [i \in DOMAIN question.batches |->
        CheckSLA(question.map, sla, question.batches[i].readings, question.batches[i].day)]
AnswerSLA ==
    Answer("sla", [checks |-> ChecksOf(question.sla), report |-> AttestationReport(ChecksOf(question.sla))])

QuestionsNext ==
    \/ AnswerSchedule
    \/ AnswerSignal
    \/ AnswerPlan
    \/ AnswerPatterns
    \/ AnswerRoute
    \/ AnswerLedger
    \/ AnswerReadings
    \/ AnswerFeeds
    \/ AnswerEstimates
    \/ AnswerMarginal
    \/ AnswerFlows
    \/ AnswerSLA

QuestionsSpec == QuestionsInit /\ [][QuestionsNext]_questionVars

-----------------------------------------------------------------------------
(* Properties.                                                             *)

Replied(kind) == answer # Pending /\ question.kind = kind

(***************************************************************************)
(* The slot recommended carries the mean over the hours the job would run  *)
(* in, of what GET /forecast shows where the search has ENTSO-E's curve    *)
(* for the hour, and of the time of day elsewhere: in a zone that is not   *)
(* among the cleanest now, or that only Open-Meteo forecasts, and past the *)
(* last hour the job may start (engine.py:165-181, 337-348).  Agreeing to  *)
(* wait an hour longer, at the same spacing of slots, never gets a worse   *)
(* one, if the job is over by the last start; and /now names the slot of a *)
(* search that finds nothing better than now.                              *)
(***************************************************************************)
LastHour(req, start) == start + DurationHours(req.minutes) - 1

HasForecast(q, zone, hour) ==
    /\ zone \in ForecastZones(q.env, ZoneMap(q.env, q.req))
    /\ hour \in DOMAIN q.env.curves[zone] /\ hour <= q.req.maxDelay

HourShown(q, region, hour) ==
    LET unstamped == [q.env EXCEPT !.marginals = NoCurve]
        env == IF HasForecast(q, region.zone, hour) THEN unstamped
               ELSE [unstamped EXCEPT !.curves = NoCurve, !.weather = NoCurve]
    IN  ForecastZone(env, region.zone, region.offset, hour)[hour + 1]

FollowsForecast(q, best) ==
    best.carbon = Mean([d \in 1 .. DurationHours(q.req.minutes) |->
                           HourShown(q, best.region, best.start + d - 1).carbon])

LongerNeverWorse(q, window) ==
    LET longer == FindOptimalWindow(q.env, [q.req EXCEPT !.maxDelay = @ + 1])
    IN  SlotInterval(q.req.maxDelay) = SlotInterval(q.req.maxDelay + 1)
        /\ LastHour(q.req, window.recommended.start) <= q.req.maxDelay
            => IF q.req.strategy = "highest_renewable"
               THEN longer.recommended.score >= window.recommended.score
               ELSE longer.recommended.score <= window.recommended.score

NowIsTheFirstSlot(q, window, now) ==
    q.req.strategy = "lowest_carbon" /\ q.req.preferred = <<>> /\ window.recommended.start = 0
    /\ LastHour(q.req, 0) <= 1
        => now.recommended = window.recommended

ScheduleSound ==
    Replied("schedule") =>
        /\ answer.window.saved \in 0 .. 1000
        /\ answer.window.evaluated > 0 =>
              /\ FollowsForecast(question, answer.window.recommended)
              /\ LongerNeverWorse(question, answer.window)
        /\ NowIsTheFirstSlot(question, answer.window, answer.now)

(***************************************************************************)
(* Whoever reads a signal decides alike: the SDK says it is a good time    *)
(* exactly when the Kubernetes controller would not suspend; a task whose  *)
(* caller agreed to wait is deferred exactly when it is not, within the    *)
(* time agreed to; and running now never reports a reduction.              *)
(***************************************************************************)
ClientsAgree ==
    Replied("signal") =>
        LET good == IsGoodTime(answer, question.cap)
            hours == DeferHours(answer, question.cap, question.maxWait)
        IN  /\ good <=> ~ShouldSuspend(answer, question.cap)
            /\ good \/ question.maxWait = 0 <=> hours = 0
            /\ hours <= question.maxWait
            /\ ChooseByCarbon(answer, "clean", "dirty", question.cap) = "clean" <=> good
            /\ answer.advice = "run_now" => ImpactFromSignal("r", answer, hours).reduction = 0

(***************************************************************************)
(* Planning over one region chooses the hour that running in it chooses    *)
(* (unless a cap and a surplus compete, which the two rank differently);   *)
(* a plan never defers further than agreed, and gives up cleaner hours     *)
(* only for a surplus, a cap, or less than the least saving.               *)
(***************************************************************************)
PlanSound ==
    Replied("plan") =>
        LET plan == answer.plan
            regions == question.regions
            all == UNION {Range(Window(regions[r].intensities, question.maxWait)) : r \in DOMAIN regions}
            chosen == CHOOSE r \in DOMAIN regions : regions[r].label = plan.label
            carbon == regions[chosen].intensities[plan.hour + 1]
        IN  /\ plan.hour <= question.maxWait
            /\ Len(regions) = 1 /\ (question.cap = None \/ regions[1].surplus = {})
                  => [hour |-> plan.hour, reason |-> plan.reason] = answer.index
            /\ all # {} /\ plan.reason \in {"now", "cleanest", "cleanest_fallback"}
                  => carbon = Least(all)
            /\ plan.reason = "now_no_benefit"
                  => (carbon - Least(all)) * 100 < question.minSavings * carbon

(***************************************************************************)
(* What is read out of the archive does not depend on the order of its     *)
(* points; a reading that is the median of its own history is typical;     *)
(* shares stay within their range; and a day that is reported twice is     *)
(* kept once.                                                              *)
(***************************************************************************)
PatternsSound ==
    Replied("patterns") =>
        /\ Found([r \in DOMAIN question.archive |-> Reverse(question.archive[r])]) = answer
        /\ answer.best.saves \in {None} \cup 0 .. 1000
        /\ \A points \in Range(question.archive) :
               LET all == Values(Figures(points))
                   typical == ComputeAnomaly(TwiceMedian(all) \div 2, points, None)
               IN  all # <<>> => typical.status \in {"typical", "insufficient_history"}
        /\ UpdateCleanComputeHistory(answer.kept, answer.report, question.now, 2) = answer.kept

(***************************************************************************)
(* The region recommended is one that was allowed and answered; a cleaner  *)
(* one was passed over at most for a difference that rounding the scores   *)
(* hides; there is a recommendation whenever an allowed one answered, and  *)
(* one that is the cleanest is never recorded as an increase, and as a     *)
(* reduction unless the candidates are too many for the dirtiest of them   *)
(* to show in their rounded mean.                                          *)
(***************************************************************************)
Allowed(q) ==
    {r \in Range(q.map) :
        /\ r.provider \in Range(q.req.providers) /\ r.zone \in DOMAIN q.readings
        /\ q.req.candidates = {} \/ r.region \in q.req.candidates
        /\ q.req.residency = {} \/ r.areas \cap q.req.residency # {}}

RouteSound ==
    Replied("route") =>
        LET allowed == Allowed(question)
            carbons == {question.readings[r.zone].carbon : r \in allowed}
            chosen == answer.routed.recommended
        IN  /\ (answer.routed = NoRoute) <=> (allowed = {})
            /\ allowed # {} =>
                  /\ chosen.region \in allowed
                  /\ 2000 * question.req.weight * (chosen.carbon - Least(carbons))
                        <= Greatest(carbons) - Least(carbons)
                  /\ chosen.saves \in 0 .. 1000
                  /\ answer.savings.requests = 1
                  /\ chosen.carbon = Least(carbons) =>
                        /\ answer.savings.meanReduction >= 0
                        /\ Greatest(carbons) - Least(carbons) > Len(answer.routed.alternatives)
                              => answer.savings.meanReduction > 0

(***************************************************************************)
(* The host's own summary and the fleet's agree, the regions' rows add up  *)
(* to it, predictions adjusted by a calibration that is used (`run` leaves *)
(* out a ratio of 0) give what was measured, and the copy the server keeps *)
(* of dated entries summarizes to the same figures.                        *)
(***************************************************************************)
ServerCopy(entries) == RecentImpacts([i \in DOMAIN entries |-> RecordImpact(entries[i], entries[i].ts)], 0)
(* What a ratio in hundredths, and means in tenths, leave open. *)
RatioRounding(c) == c.meanPredicted \div 200 + c.ratio \div 200 + 2
OverRegions(rows, figure) == FoldSet(LAMBDA r, sum: sum + r[figure], 0, rows)
OverSamples(byRegion) == FoldSet(LAMBDA r, sum: sum + byRegion[r].samples, 0, DOMAIN byRegion)

LedgerAgrees ==
    Replied("ledger") =>
        LET host == answer.host
            fleet == answer.fleet
            calibration == answer.statement.calibration
            dated == Picked(question.entries, {i \in DOMAIN question.entries : question.entries[i].ts # None})
        IN  /\ \A f \in {"jobs", "shifted", "measured", "withEnergy", "kg"} : host[f] = fleet[f]
            /\ Cardinality(RegionsOf(question.entries)) <= question.top =>
                  /\ OverRegions(fleet.regions, "jobs") = fleet.jobs
                  /\ OverRegions(fleet.regions, "shifted") = fleet.shifted
                  /\ OverRegions(fleet.regions, "kg") - fleet.kg
                        \in -Cardinality(fleet.regions) .. Cardinality(fleet.regions)
            /\ calibration.ratio > 0 =>
                  AdjustedPrediction(calibration.meanPredicted, calibration.ratio) - calibration.meanActual
                     \in -RatioRounding(calibration) .. RatioRounding(calibration)
            /\ OverSamples(answer.byRegion) = calibration.samples
            /\ Summarize(ServerCopy(dated), question.now, question.days)
                  = Summarize(dated, question.now, question.days)

(***************************************************************************)
(* A batch answers every zone it is asked for, each by the first source of *)
(* the chain whose own batch has it.  That is what a request for the zone  *)
(* alone gets, unless a source that would have answered it lost it with    *)
(* another zone's: behind a British region without a figure                *)
(* (uk.py:95-112), or in a batch that raised as a whole                    *)
(* (electricity_maps.py:52-56).                                            *)
(***************************************************************************)
Loses(p, zones, z) ==
    LET asked == zones \cap p.handles
    IN  z \in asked /\ (asked \cap p.raises # {} \/ z \notin DOMAIN p.batch[asked])

NoAnswerLost(zones, z) ==
    \A i \in DOMAIN Chain : Loses(Chain[i], zones, z) => Chain[i].single[z] = NoReading

ReadingsSound ==
    Replied("readings") =>
        LET map == ZoneMapFromIntensities(question.snapshot)
            missing == question.zones \ DOMAIN map
            keeping(z) == Picked(Chain, {i \in DOMAIN Chain : ~Loses(Chain[i], missing, z)})
        IN  /\ answer.batch = [z \in question.zones |-> SnapshotSingle(map, keeping(z), question.mock, z)]
            /\ \A z \in question.zones : NoAnswerLost(missing, z) => answer.batch[z] = answer.single[z]

(***************************************************************************)
(* One generation gives one reading, whichever operator's format it comes  *)
(* in, if the adapter knows its labels: formats differ only in what they   *)
(* leave out.  AEMO's and Taiwan's adapters drop a negative figure where   *)
(* the others net it against its fuel's other figures.  Storage does not   *)
(* enter the reading (emission_factors.py:19-22), except that ENTSO-E's    *)
(* pumped storage is read as hydro (entsoe.py:93).  A reading lies between *)
(* the factors of what generates, and without any there is none (IESO goes *)
(* back an hour, and GridStatus publishes 0).  Consumption lies between    *)
(* the intensities of the zones it is traced over; a marginal source says  *)
(* of now what it forecasts for now.                                       *)
(***************************************************************************)
Tables == [eia |-> EIATable, eiaBatch |-> EIATable, aemo |-> AEMOTable, entsoe |-> ENTSOETable,
           ieso |-> IESOTable, aeso |-> AESOTable, taiwan |-> TaiwanTable, gridstatus |-> GridStatusTable]
LeavesOutUnknown == {"aemo", "ieso", "aeso", "gridstatus"}
Netting == {"eia", "eiaBatch", "entsoe", "gridstatus"}

(* The adapters to which no label of the entries is new. *)
Knowing(entries) ==
    {a \in DOMAIN Tables :
        {e.fuel : e \in Range(entries)} \subseteq
            DOMAIN Tables[a] \cup (IF a \in LeavesOutUnknown THEN Storage ELSE {})}

(* What a format has of the generation, as EIA would publish it. *)
GenerationIn(a, entries) ==
    LET signed == IF a \in Netting THEN entries ELSE Unsigned(entries)
        named == IF a = "entsoe" THEN AsOther(ENTSOETable, signed) ELSE signed
    IN  SelectSeq(named, LAMBDA e: e.fuel \notin Storage)

FeedsAgree ==
    LET generating(a) == DOMAIN GeneratingMW(Tally(GenerationIn(a, question.entries)))
        factors(a) == {100 * Factor[f] : f \in generating(a)}
        read(a) == EIA(Rows(1, GenerationIn(a, question.entries)))
    IN  \A a \in Knowing(question.entries) :
            IF generating(a) = {} THEN a \in {"gridstatus", "ieso"} \/ answer[a] = NoReading
            ELSE /\ answer[a] = IF a = "gridstatus" THEN [read(a) EXCEPT !.marginal = None] ELSE read(a)
                 /\ answer[a].carbon \in Least(factors(a)) .. Greatest(factors(a))
                 /\ a # "gridstatus" => answer[a].marginal \in factors(a) \cup {answer[a].carbon}

EstimatesBounded ==
    /\ \A r \in answer.of : r.carbon \in 1 .. 100000 /\ r.renewable \in 0 .. 1000
    /\ DOMAIN answer.uk \subseteq question.zones
    /\ \A z \in DOMAIN answer.uk : answer.uk[z].renewable \in 0 .. 1000
    /\ Range(answer.curve) \cup Range(answer.weather) \subseteq 0 .. 100

MarginalAgrees ==
    LET atNow == SelectSeq(question.body, LAMBDA p: p.hour = 0)
    IN  /\ answer.unmapped => answer.now = None /\ DOMAIN answer.ahead = {}
        /\ question.body # <<>> /\ question.body[1].hour = 0 /\ Len(atNow) = 1 /\ answer.now # None
              => answer.ahead[0] = answer.now

ConsumptionBounded ==
    LET made == {question.intensity[z] : z \in DOMAIN answer}
    IN  \A z \in DOMAIN answer : answer[z] \in Least(made) .. Greatest(made)

FiguresSound ==
    /\ Replied("feeds") => FeedsAgree
    /\ Replied("estimates") => EstimatesBounded
    /\ Replied("marginal") => MarginalAgrees
    /\ Replied("flows") => ConsumptionBounded

(***************************************************************************)
(* A stricter limit never makes a check look better; a report's counts add *)
(* up; and a day is as bad as its worst check, whatever came first         *)
(* (days with a check that found no data apart).                           *)
(***************************************************************************)
Rank(status) == CASE status = "compliant" -> 0 [] status = "warning" -> 1 [] status = "breached" -> 2
                  [] status = "unknown" -> 3

SLASound ==
    Replied("sla") =>
        LET report == answer.report
            checks == answer.checks
            stricter == ChecksOf([question.sla EXCEPT !.maxCarbon = @ - 5000])
            of(day) == {Rank(c.status) : c \in {d \in Range(checks) : d.day = day}}
        IN  /\ \A i \in DOMAIN checks : Rank(stricter[i].status) >= Rank(checks[i].status)
            /\ report.compliant + report.warning + report.breached
                  = Cardinality({i \in DOMAIN checks : checks[i].status # "unknown"})
            /\ \A d \in DOMAIN report.byDay :
                  3 \notin of(d) => Rank(report.byDay[d].status) = Greatest(of(d))
=============================================================================
