----------------------------- MODULE Compliance -----------------------------
(***************************************************************************)
(* compliance/: usage of cloud resources is ingested, turned into          *)
(* emissions, and reported.  The stores are dictionaries of the process.   *)
(* Everything but /calculate runs to its end at once on the event loop;    *)
(* /calculate awaits the carbon source in its middle, and goes on reading  *)
(* the list it was given, which may have grown meanwhile.                  *)
(*                                                                         *)
(* Energy is in whole units of coefficient * PUE, emissions in energy *    *)
(* hundredths of g/kWh, so that nothing needs rounding but shares.         *)
(***************************************************************************)
EXTENDS Routing

CONSTANTS
    Orgs, Callers,     \* organisations; requests to /calculate at once
    Feeds,             \* what can be ingested: [adapter, data]
    RegionMap,         \* the grid mapper's regions (see Routing)
    Intensities,       \* zone -> reading, what the carbon source may answer
    Coefficient,       \* unit -> (family -> energy of one unit)
    PUE,               \* provider -> overhead, in hundredths
    Periods,           \* periods a report may be asked for, [from, to]
    Managed,           \* services the provider operates (scope 3)
    MaxUsage, MaxCalculations, MaxReports     \* bounds on the stores

(* Rows with quantities; pages of them for AWS.  A feed that could not be  *)
(* fetched, or a page of one, is Failed.                                   *)
Failed == <<[failed |-> TRUE]>>
IsRows(rows) == rows \in Seq(Range(rows)) /\ \A r \in Range(rows) : r.quantity \in Int
IsFeed(feed) ==
    CASE feed.adapter \in {"csv", "mock"} -> IsRows(feed.data)
      [] feed.adapter = "aws" -> /\ feed.data \in Seq(Range(feed.data))
                                 /\ \A page \in Range(feed.data) : page = Failed \/ IsRows(page)
      [] feed.adapter \in {"gcp", "azure"} -> feed.data = Failed \/ IsRows(feed.data)

ASSUME ComplianceAssumption ==
    /\ MaxUsage \in Nat /\ MaxCalculations \in Nat /\ MaxReports \in Nat
    /\ "default" \in DOMAIN PUE /\ \A p \in DOMAIN PUE : PUE[p] \in Nat
    /\ \A u \in DOMAIN Coefficient : /\ "default" \in DOMAIN Coefficient[u]
                                     /\ \A f \in DOMAIN Coefficient[u] : Coefficient[u][f] \in Nat
    /\ \A feed \in Feeds : /\ feed.adapter \in {"csv", "mock", "aws", "gcp", "azure"}
                            /\ IsFeed(feed)
    /\ Feeds # {} /\ Periods # {}

VARIABLES
    usage,             \* org -> sequence of usage records
    calculations,      \* org -> sequence of calculations
    reports,           \* org -> sequence of reports
    call               \* caller -> its /calculate while it awaits, or Idle

complianceVars == <<usage, calculations, reports, call>>

Idle == [org |-> "none"]
Methods == {"location", "market"}

-----------------------------------------------------------------------------
(* usage_ingestion.py                                                      *)

(* The family's coefficient, or the unit's default; an unknown unit is 0. *)
EstimateEnergy(quantity, unit, family, provider) ==
    LET pue == PUE[IF provider \in DOMAIN PUE THEN provider ELSE "default"]
        by == Coefficient[unit]
    IN  IF unit \notin DOMAIN Coefficient THEN 0
        ELSE quantity * by[IF family \in DOMAIN by THEN family ELSE "default"] * pue

UsageRecord(provider, region, service, quantity, unit, family, from, to) ==
    [provider |-> provider, region |-> region, service |-> service, from |-> from, to |-> to,
     energy |-> EstimateEnergy(quantity, unit, family, provider)]

(* A field that does not parse (quantity None) fails the whole upload, as  *)
(* does a file without rows.                                               *)
ManualCSV(rows) ==
    IF rows = <<>> \/ \E r \in Range(rows) : r.quantity = None THEN Failed
    ELSE [i \in DOMAIN rows |-> LET r == rows[i] IN
             UsageRecord(r.provider, r.region, r.service, r.quantity, r.unit, r.family, r.from, r.to)]

Used(rows) == Picked(rows, {i \in DOMAIN rows : rows[i].quantity > 0})

(* What is billed without a region counts as "global"; the unit follows    *)
(* from the service.                                                       *)
AWSUnit(service) ==
    CASE service \in {"s3", "ebs"} -> "gb_hours"
      [] service \in {"cloudfront", "vpc"} -> "gb_transferred"
      [] OTHER -> "vcpu_hours"

AWSRecord(row) ==
    UsageRecord("aws", IF row.region = "NoRegion" THEN "global" ELSE row.region, row.service,
                row.quantity, AWSUnit(row.service), "default", row.from, row.to)

(* Page by page; a page that fails loses the pages before it. *)
AWSCostExplorer(pages) ==
    IF \E i \in DOMAIN pages : pages[i] = Failed THEN Failed
    ELSE LET rows == FoldLeft(LAMBDA read, page: read \o Used(page), <<>>, pages)
         IN  [i \in DOMAIN rows |-> AWSRecord(rows[i])]

(* Billing units; one the table lacks counts as vCPU hours. *)
GCPUnit(unit) ==
    CASE unit = "byte-seconds" -> "gb_transferred"
      [] unit = "gibibyte month" -> "gb_hours"
      [] unit = "requests" -> "requests"
      [] OTHER -> "vcpu_hours"

GCPBilling(rows) ==
    IF rows = Failed THEN Failed
    ELSE LET used == Used(rows) IN [i \in DOMAIN used |-> LET r == used[i] IN
             UsageRecord("gcp", r.region, r.service, r.quantity, GCPUnit(r.unit), "default", r.from, r.to)]

(* Everything counts as vCPU hours, whatever column the quantity came from. *)
AzureCostManagement(rows) ==
    IF rows = Failed THEN Failed
    ELSE LET used == Used(rows) IN [i \in DOMAIN used |-> LET r == used[i] IN
             UsageRecord("azure", r.region, r.service, r.quantity, "vcpu_hours", "default", r.from, r.to)]

(* Rows of demo usage, each with its provider, unit and family. *)
MockUsage(rows) == ManualCSV(rows)

FetchUsage(feed) ==
    CASE feed.adapter = "csv" -> ManualCSV(feed.data)
      [] feed.adapter = "aws" -> AWSCostExplorer(feed.data)
      [] feed.adapter = "gcp" -> GCPBilling(feed.data)
      [] feed.adapter = "azure" -> AzureCostManagement(feed.data)
      [] feed.adapter = "mock" -> MockUsage(feed.data)

-----------------------------------------------------------------------------
(* calculator.py                                                           *)

ScopeForService(service) == IF service \in Managed THEN 3 ELSE 2

Key(rec) == <<rec.provider, rec.region>>

(* The zone of every region used; one the map lacks is the zone "unknown". *)
RegionToZone(records) ==
    [k \in {Key(records[i]) : i \in DOMAIN records} |-> GetGridZone(RegionMap, k[1], k[2])]

(* Fault: one record stands for all of its region. *)
OncePerRegion(records, zones, answered, method) ==
    LET first == SelectSeq([i \in DOMAIN records |-> records[i] @@ [at |-> i]],
                           LAMBDA r: /\ Key(r) \in DOMAIN zones
                                     /\ zones[Key(r)] \in DOMAIN answered
                                     /\ \A k \in 1 .. r.at - 1 : Key(records[k]) # Key(r))
    IN  [i \in DOMAIN first |-> LET r == first[i]
                                    ci == answered[zones[Key(r)]] IN
            [scope |-> ScopeForService(r.service), method |-> method, provider |-> r.provider,
             region |-> r.region, service |-> r.service, energy |-> r.energy,
             emissions |-> r.energy * ci.carbon, renewable |-> ci.renewable,
             from |-> r.from, to |-> r.to]]

(* Records whose region was looked up and whose zone was answered. *)
Emissions(records, zones, answered, method) ==
    LET billable == Picked(records, {i \in DOMAIN records : /\ Key(records[i]) \in DOMAIN zones
                                                             /\ zones[Key(records[i])] \in DOMAIN answered})
    IN  [i \in DOMAIN billable |-> LET r == billable[i]
                                       ci == answered[zones[Key(r)]] IN
            [scope |-> ScopeForService(r.service), method |-> method, provider |-> r.provider,
             region |-> r.region, service |-> r.service, energy |-> r.energy,
             emissions |-> r.energy * ci.carbon, renewable |-> ci.renewable,
             from |-> r.from, to |-> r.to]]

-----------------------------------------------------------------------------
(* reporting.py                                                            *)

Total(calcs) == SumOf([i \in DOMAIN calcs |-> calcs[i].emissions])
GroupSum(calcs, key(_)) ==
    [k \in {key(calcs[i]) : i \in DOMAIN calcs} |-> Total(SelectSeq(calcs, LAMBDA c: key(c) = k))]

Scope2(calcs, method) == SelectSeq(calcs, LAMBDA c: c.scope = 2 /\ c.method = method)

(* A method without emissions takes the other's calculations. *)
Reported(calcs, method, other) ==
    IF Total(Scope2(calcs, method)) = 0 /\ Total(Scope2(calcs, other)) > 0
    THEN Scope2(calcs, other) ELSE Scope2(calcs, method)

(* What coal would have emitted for the same energy, 900 g/kWh. *)
WorstCase(energy) == energy * 90000

ReportOn(calcs) ==
    LET location == Reported(calcs, "location", "market")
        market == Reported(calcs, "market", "location")
        scope3 == SelectSeq(calcs, LAMBDA c: c.scope = 3)
        energy == SumOf([i \in DOMAIN calcs |-> calcs[i].energy])
        total == Total(location) + Total(scope3)
        saved == Greatest({0, WorstCase(energy) - total})
        weighted == SumOf([i \in DOMAIN calcs |-> calcs[i].renewable * calcs[i].energy])
    IN  [location |-> Total(location), market |-> Total(market), scope3 |-> Total(scope3),
         byProvider |-> GroupSum(location, LAMBDA c: c.provider),
         byRegion |-> GroupSum(location, Key),
         byService |-> GroupSum(scope3, LAMBDA c: c.service),
         total |-> total, energy |-> energy,
         renewable |-> IF energy = 0 THEN 0 ELSE RoundDiv(weighted, energy),
         regions |-> {Key(calcs[i]) : i \in DOMAIN calcs}, saved |-> saved,
         savedPct |-> IF energy = 0 THEN 0 ELSE RoundDiv(saved, RoundDiv(WorstCase(energy), 1000)),
         from |-> Least({calcs[i].from : i \in DOMAIN calcs}),
         to |-> Greatest({calcs[i].to : i \in DOMAIN calcs}), count |-> Len(calcs)]

-----------------------------------------------------------------------------
(* routes.py                                                               *)

ComplianceInit ==
    /\ usage = [o \in Orgs |-> <<>>]
    /\ calculations = [o \in Orgs |-> <<>>]
    /\ reports = [o \in Orgs |-> <<>>]
    /\ call = [c \in Callers |-> Idle]

(* POST /usage/ingest, /usage/upload-csv: nothing is stored of a feed that fails. *)
Ingest(o, feed) ==
    LET records == FetchUsage(feed)
    IN  /\ records # Failed
        /\ Len(usage[o]) + Len(records) <= MaxUsage
        /\ usage' = [usage EXCEPT ![o] = @ \o records]
        /\ UNCHANGED <<calculations, reports, call>>

(* POST /calculate up to its await: the regions of the usage so far. *)
CalculateBegins(c, o, method) ==
    /\ call[c] = Idle
    /\ usage[o] # <<>>
    /\ call' = [call EXCEPT ![c] = [org |-> o, method |-> method, zones |-> RegionToZone(usage[o])]]
    /\ UNCHANGED <<usage, calculations, reports>>

(* After it: every record that is stored by now, appended to what was      *)
(* calculated before.                                                      *)
CalculateReturns(c, answered) ==
    LET o == call[c].org
        new == Emissions(usage[o], call[c].zones, answered, call[c].method)
    IN  /\ call[c] # Idle
        /\ Len(calculations[o]) + Len(new) <= MaxCalculations
        /\ calculations' = [calculations EXCEPT ![o] = @ \o new]
        /\ call' = [call EXCEPT ![c] = Idle]
        /\ UNCHANGED <<usage, reports>>

CalculateRaises(c) ==
    /\ call[c] # Idle
    /\ call' = [call EXCEPT ![c] = Idle]
    /\ UNCHANGED <<usage, calculations, reports>>

InPeriod(calcs, period) ==
    SelectSeq(calcs, LAMBDA c: c.from >= period.from /\ c.to <= period.to)

(* POST /reports/generate *)
GenerateReport(o, period) ==
    LET filtered == InPeriod(calculations[o], period)
    IN  /\ filtered # <<>>
        /\ Len(reports[o]) < MaxReports
        /\ reports' = [reports EXCEPT ![o] = Append(@, ReportOn(filtered))]
        /\ UNCHANGED <<usage, calculations, call>>

(* Some of the zones asked for are answered. *)
Answers(c) == IF call[c] = Idle THEN {}
              ELSE {[z \in Z |-> Intensities[z]] : Z \in SUBSET (Range(call[c].zones) \cap DOMAIN Intensities)}

ComplianceNext ==
    \/ \E o \in Orgs : \E feed \in Feeds : Ingest(o, feed)
    \/ \E c \in Callers : \E o \in Orgs : \E m \in Methods : CalculateBegins(c, o, m)
    \/ \E c \in Callers : \E answered \in Answers(c) : CalculateReturns(c, answered)
    \/ \E c \in Callers : CalculateRaises(c)
    \/ \E o \in Orgs : \E p \in Periods : GenerateReport(o, p)

ComplianceSpec == ComplianceInit /\ [][ComplianceNext]_complianceVars

-----------------------------------------------------------------------------
(* Properties.                                                             *)

UsageOf(records, k) == Picked(records, {i \in DOMAIN records : Key(records[i]) = k})
EnergyOf(records) == SumOf([i \in DOMAIN records |-> records[i].energy])

(***************************************************************************)
(* /calculate goes on with a list that may have grown during its await:    *)
(* what it appends has, of every region, all of the energy stored by then  *)
(* or none of it, and never energy that was not stored.                    *)
(***************************************************************************)
Appended(o) == SubSeq(calculations'[o], Len(calculations[o]) + 1, Len(calculations'[o]))
RegionsWhole(o) ==
    \A k \in {Key(usage[o][i]) : i \in DOMAIN usage[o]} \cup {Key(Appended(o)[i]) : i \in DOMAIN Appended(o)} :
        EnergyOf(UsageOf(Appended(o), k)) \in {0, EnergyOf(UsageOf(usage[o], k))}
RegionWholeOrAbsent ==
    [][\A o \in Orgs : calculations'[o] # calculations[o] => RegionsWhole(o)]_complianceVars

(***************************************************************************)
(* compliance/routes.py:196 "Calculate emissions from ingested usage data  *)
(* for an organization." and reporting.py:61 "split by accounting method": *)
(* a report over calculations by either method, none of them repeated, has *)
(* no more energy than was ingested.                                       *)
(***************************************************************************)
ByMethod(o, m) == SelectSeq(calculations[o], LAMBDA c: c.method = m)
UsageCountedOnce ==
    \A o \in Orgs : \A i \in DOMAIN reports[o] :
        (\A m \in Methods : EnergyOf(ByMethod(o, m)) <= EnergyOf(usage[o]))
            => reports[o][i].energy <= EnergyOf(usage[o])
=============================================================================
