------------------------------- MODULE Cascade ------------------------------
(***************************************************************************)
(* How sources are put together: the hybrid cascade, the snapshot in front *)
(* of it, retries, the measured marginal source, the history archive, and  *)
(* consumption traced along physical flows.                                *)
(*                                                                         *)
(* A provider of the chain is [name, handles, single, batch, raises]:      *)
(* handles the zones it covers, single what it answers zone by zone        *)
(* (NoReading where it raises), batch what one batch call answers, by the  *)
(* zones it is asked for, and raises the zones that make such a call raise *)
(* as a whole.  The chain is a sequence, the most trusted provider first.  *)
(***************************************************************************)
EXTENDS Providers

LaidOver(first, second) ==
    [z \in DOMAIN first \cup DOMAIN second |-> IF z \in DOMAIN first THEN first[z] ELSE second[z]]

(* A provider without a batch of its own (carbon_sources/base.py): its     *)
(* batch fetches zone by zone and leaves out what raises.                  *)
SingleZoneProvider(name, single) ==
    [name |-> name, handles |-> DOMAIN single, single |-> single, raises |-> {},
     batch |-> [asked \in SUBSET DOMAIN single |->
                   [z \in {y \in asked : single[y] # NoReading} |-> single[z]]]]

(* http_pool.py: outcomes of successive attempts, "ok", "refused" (a 4xx,  *)
(* returned as it is) or "transient" (429, 5xx, no connection).            *)
Attempts == 3
GetWithRetry(outcomes) ==
    LET final == {i \in 1 .. Attempts : outcomes[i] # "transient"}
    IN  IF final = {} THEN "transient" ELSE outcomes[Least(final)]

(* ENTSO-E alone retries, for each zone apart. *)
ENTSOEProvider(single, outcomes) ==
    SingleZoneProvider("ENTSO-E", [z \in DOMAIN single |->
        IF GetWithRetry(outcomes[z]) = "ok" THEN single[z] ELSE NoReading])

(* A zone is fetched after the other, but a reply without its field ends   *)
(* the batch.                                                              *)
ElectricityMapsProvider(single, malformed) ==
    [SingleZoneProvider("Electricity Maps",
                        [z \in DOMAIN single |-> IF z \in malformed THEN NoReading ELSE single[z]])
        EXCEPT !.raises = malformed]

(* Asked for one region, a reply is searched for it; in a batch it is read *)
(* up to the first region without a figure.                                *)
UKProvider(national, regions) ==
    LET handles == {"GB"} \cup {regions[i].zone : i \in DOMAIN regions}
        of(z) == regions[Least({i \in DOMAIN regions : regions[i].zone = z})]
        single(z) == IF z = "GB" THEN national
                     ELSE IF RegionIntensity(of(z)) = None THEN NoReading ELSE RegionReading(of(z))
        nationally(asked) == [z \in {y \in asked \cap {"GB"} : national # NoReading} |-> national]
    IN  [name |-> "UK", handles |-> handles, single |-> [z \in handles |-> single(z)], raises |-> {},
         batch |-> [asked \in SUBSET handles |-> LaidOver(nationally(asked), UKRegional(asked, regions))]]

(* Built once; a provider whose key is not configured is left out. *)
BuildProviderChain(providers, configured) ==
    Picked(providers, {i \in DOMAIN providers : providers[i].name \in configured})

(* The static figures, one for every zone. *)
MockReading(mock, z) == IF z \in DOMAIN mock THEN mock[z] ELSE Reading(25000, 300, None)

(* hybrid.get_carbon_intensity: the first that does not raise. *)
HybridSingle(chain, mock, z) ==
    LET hits == {i \in DOMAIN chain : z \in chain[i].handles /\ chain[i].single[z] # NoReading}
    IN  IF hits = {} THEN MockReading(mock, z) ELSE chain[Least(hits)].single[z]

(* Every provider that covers a zone is asked at once and waited for; the  *)
(* answers are laid over each other from the last of the chain to the      *)
(* first, so that the first wins.                                          *)
Answered(provider, zones) ==
    LET asked == zones \cap provider.handles
    IN  IF asked \cap provider.raises # {} THEN [z \in {} |-> NoReading] ELSE provider.batch[asked]

(* Fault: later answers of the chain overwrite earlier ones. *)
LastWins(chain, zones) ==
    FoldLeft(LAMBDA merged, p: LaidOver(Answered(p, zones), merged), [z \in {} |-> NoReading], chain)

MergeAnswers(chain, zones) ==
    FoldRight(LAMBDA p, merged: LaidOver(Answered(p, zones), merged), chain, [z \in {} |-> NoReading])

HybridBatch(chain, mock, zones) ==
    LET live == MergeAnswers(chain, zones)
    IN  [z \in zones |-> IF z \in DOMAIN live THEN live[z] ELSE MockReading(mock, z)]

-----------------------------------------------------------------------------
(* snapshot_source.py: entries [zone, reading], the first of a zone counts *)
(* unless it cannot be read, then the next.                                *)

ZoneMapFromIntensities(entries) ==
    LET good == {i \in DOMAIN entries : entries[i].reading # NoReading}
        of(z) == entries[Least({i \in good : entries[i].zone = z})]
    IN  [z \in {entries[i].zone : i \in good} |-> of(z).reading]

SnapshotSingle(map, chain, mock, z) ==
    IF z \in DOMAIN map THEN map[z] ELSE HybridSingle(chain, mock, z)

SnapshotBatch(map, chain, mock, zones) ==
    LET missing == zones \ DOMAIN map
    IN  LaidOver([z \in zones \ missing |-> map[z]], HybridBatch(chain, mock, missing))

-----------------------------------------------------------------------------
(* marginal.py                                                             *)

(* lbs/MWh to hundredths of g/kWh, of one decimal. *)
MoerToGrams(lbs) == 10 * RoundDiv(lbs * 4536, 1000)

(* Points [hour, value]: undated or empty ones are skipped, later ones win. *)
ParseForecast(points, hours, convert(_)) ==
    LET good == {i \in DOMAIN points : points[i].value # None /\ points[i].hour \in 0 .. hours}
        of(h) == points[Greatest({i \in good : points[i].hour = h})]
    IN  [h \in {points[i].hour : i \in good} |-> convert(of(h).value)]

(* Pairs [zone, region]; malformed ones (a side is missing) are ignored. *)
ParseZoneMap(pairs) ==
    LET good == {i \in DOMAIN pairs : pairs[i].zone # "" /\ pairs[i].region # ""}
    IN  [z \in {pairs[i].zone : i \in good} |->
            pairs[Greatest({i \in good : pairs[i].zone = z})].region]

(* A token and a map are both needed; WattTime comes first. *)
MarginalSource(settings) ==
    IF settings.wattToken /\ DOMAIN settings.wattMap # {} THEN "watttime"
    ELSE IF settings.emKey /\ DOMAIN settings.emMap # {} THEN "electricity_maps"
    ELSE "none"

MarginalUnmapped(settings) ==
    /\ MarginalSource(settings) = "none"
    /\ (settings.wattToken /\ DOMAIN settings.wattMap = {}) \/ (settings.emKey /\ DOMAIN settings.emMap = {})

(* body: the points of a reply, first now; <<>> for a failed request. *)
WattTimeMarginal(zoneMap, zone, body) ==
    IF zone \notin DOMAIN zoneMap \/ body = <<>> \/ body[1].value = None THEN None
    ELSE MoerToGrams(body[1].value)

WattTimeForecast(zoneMap, zone, body, hours) ==
    IF zone \notin DOMAIN zoneMap THEN [h \in {} |-> 0] ELSE ParseForecast(body, hours, MoerToGrams)

ElectricityMapsMarginal(zoneMap, zone, body) ==
    IF zone \notin DOMAIN zoneMap \/ body = <<>> \/ body[1].value = None THEN None
    ELSE 10 * RoundDiv(body[1].value, 10)

ElectricityMapsForecast(zoneMap, zone, body, hours) ==
    IF zone \notin DOMAIN zoneMap THEN [h \in {} |-> 0]
    ELSE ParseForecast(body, hours, LAMBDA v: 10 * RoundDiv(v, 10))

-----------------------------------------------------------------------------
(* history_store.py: what a load leaves behind; a failed one is kept for a *)
(* TTL as an empty archive.                                                *)

HistoryLoad(store, ttl, fetched) ==
    IF store.loaded /\ store.age < ttl THEN store
    ELSE [loaded |-> TRUE, age |-> 0, data |-> fetched]

SeriesFor(data, region, since) ==
    IF region \notin DOMAIN data THEN <<>>
    ELSE SelectSeq(data[region], LAMBDA p: p.at # None /\ p.at >= since)

-----------------------------------------------------------------------------
(* flow_tracing.py.  zones is a sequence; production and intensity are     *)
(* functions of zones, flows a function of pairs <<from, to>> to MW.       *)

ImportsInto(flows, production, z) ==
    {p \in DOMAIN flows : p[2] = z /\ flows[p] > 0 /\ {p[1], z} \subseteq DOMAIN production}

(* Fault: imports enter the mix but not what it is divided by. *)
DividedByProduction(production, intensity, flows, c, z) ==
    LET imported == FoldSet(LAMBDA p, sum: sum + flows[p] * c[p[1]], 0, ImportsInto(flows, production, z))
    IN  IF production[z] <= 0 THEN c[z]
        ELSE RoundDiv(production[z] * intensity[z] + imported, production[z])

(* One zone: what it makes and what it imports, mixed. *)
Mixed(production, intensity, flows, c, z) ==
    LET imports == ImportsInto(flows, production, z)
        inflow == production[z] + FoldSet(LAMBDA p, sum: sum + flows[p], 0, imports)
        imported == FoldSet(LAMBDA p, sum: sum + flows[p] * c[p[1]], 0, imports)
    IN  IF inflow <= 0 THEN c[z] ELSE RoundDiv(production[z] * intensity[z] + imported, inflow)

(* Zones are relaxed one after the other, each seeing the earlier ones' new value. *)
Sweep(zones, production, intensity, flows, c) ==
    FoldLeft(LAMBDA d, z: [d EXCEPT ![z] = Mixed(production, intensity, flows, d, z)], c, zones)

(* Sweeps at most, fewer when nothing changes any more. *)
TraceConsumption(zones, production, intensity, flows, sweeps) ==
    LET after[k \in 0 .. sweeps] ==
            IF k = 0 THEN intensity ELSE Sweep(zones, production, intensity, flows, after[k - 1])
    IN  after[sweeps]

(* The flows each way over a border cancel out; one that cannot be fetched is 0. *)
NetFlow(there, back) == there - back

Flows(borders, measured) ==
    LET flow(a, b) == IF <<a, b>> \in DOMAIN measured THEN measured[<<a, b>>] ELSE 0
        both == borders \cup {<<p[2], p[1]>> : p \in borders}
    IN  [p \in {q \in both : NetFlow(flow(q[1], q[2]), flow(q[2], q[1])) > 0} |->
            NetFlow(flow(p[1], p[2]), flow(p[2], p[1]))]

(* Zones that answered with a load take part. *)
ComputeConsumption(zones, loads, intensity, borders, measured, sweeps) ==
    LET known == SelectSeq(zones, LAMBDA z: z \in DOMAIN loads /\ loads[z] # 0)
        production == [z \in Range(known) |-> loads[z]]
        between == {p \in borders : {p[1], p[2]} \subseteq DOMAIN production}
    IN  TraceConsumption(known, production, [z \in Range(known) |-> intensity[z]],
                         Flows(between, measured), sweeps)
=============================================================================
