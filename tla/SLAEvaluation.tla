---------------------------- MODULE SLAEvaluation ---------------------------
(***************************************************************************)
(* sla/engine.py: one compliance check of an SLA, and the attestation      *)
(* report drawn from many of them.                                         *)
(*                                                                         *)
(* An SLA is [providers, regions, maxCarbon, minRenewable]: regions is a   *)
(* sequence of names, empty for every region of the providers.  A check is *)
(* stamped with its day, the precision the report's breakdown needs.       *)
(***************************************************************************)
EXTENDS Routing

(* Named regions that the map has, else all regions of the providers. *)
SLARegions(map, providers, regions) ==
    IF regions = <<>>
    THEN SelectSeq(map, LAMBDA r: r.provider \in Range(providers))
    ELSE FlattenSeq([i \in DOMAIN providers |->
             FlattenSeq([j \in DOMAIN regions |->
                 SelectSeq(map, LAMBDA r: r.provider = providers[i] /\ r.region = regions[j])])])

(* zone_map keeps the last region of a zone. *)
RegionOf(regions, zone) == regions[Greatest({i \in DOMAIN regions : regions[i].zone = zone})]

CarbonOk(sla, reading) == reading.carbon <= sla.maxCarbon
RenewableOk(sla, reading) == reading.renewable >= sla.minRenewable

(* Up to a fifth of the zones may breach before the SLA does. *)
StatusOf(breached, total) ==
    IF total = 0 THEN "unknown"
    ELSE IF breached = 0 THEN "compliant"
    ELSE IF 5 * breached <= total THEN "warning"
    ELSE "breached"

OrZero(S, pick(_)) == IF S = {} THEN 0 ELSE pick(S)

(* Zones are counted once, and only those the source answered. *)
CheckSLA(map, sla, readings, day) ==
    LET regions == SLARegions(map, sla.providers, sla.regions)
        zones == {r.zone : r \in Range(regions)} \cap DOMAIN readings
        ok == {z \in zones : CarbonOk(sla, readings[z]) /\ RenewableOk(sla, readings[z])}
        carbons == {readings[z].carbon : z \in zones}
        total(f(_)) == FoldSet(LAMBDA z, sum: sum + f(readings[z]), 0, zones)
        n == Greatest({1, Cardinality(zones)})
    IN  [day |-> day, status |-> StatusOf(Cardinality(zones \ ok), Cardinality(zones)),
         carbon |-> RoundDiv(total(LAMBDA p: p.carbon), n),
         max |-> OrZero(carbons, Greatest), min |-> OrZero(carbons, Least),
         renewable |-> RoundDiv(total(LAMBDA p: p.renewable), n),
         checked |-> Cardinality(zones), compliant |-> Cardinality(ok),
         breaches |-> {[zone |-> z, region |-> RegionOf(regions, z), carbon |-> readings[z].carbon,
                        carbonBreached |-> ~CarbonOk(sla, readings[z]),
                        renewableBreached |-> ~RenewableOk(sla, readings[z])] : z \in zones \ ok}]

-----------------------------------------------------------------------------
(* generate_report, over a sequence of checks.                             *)

(* Fault: the day shows its latest check. *)
LatestStatus(kept, status) == status

Worse(kept, status) ==
    IF status = "breached" THEN "breached"
    ELSE IF status = "warning" /\ kept = "compliant" THEN "warning"
    ELSE kept

(* One check folded into its day's entry: the worst status, running means. *)
FoldCheck(entry, check) ==
    LET n == entry.checks + 1
        running(mean, x) == RoundDiv(mean * (n - 1) + x, n)
    IN  [status |-> Worse(entry.status, check.status), checks |-> n,
         carbon |-> running(entry.carbon, check.carbon),
         renewable |-> running(entry.renewable, check.renewable)]

DayEntry(check) == [status |-> check.status, checks |-> 1, carbon |-> check.carbon,
                    renewable |-> check.renewable]

ChecksByDay(checks) ==
    [day \in {c.day : c \in Range(checks)} |->
        LET own == Picked(checks, {i \in DOMAIN checks : checks[i].day = day})
        IN  FoldLeft(FoldCheck, DayEntry(own[1]), Tail(own))]

(* Every region that ever breached, with its highest reading and its count;*)
(* the ten worst, more if they tie.                                        *)
Breaches(checks) == UNION {{[at |-> i, row |-> b] : b \in checks[i].breaches} : i \in DOMAIN checks}
WorstRegions(checks) ==
    LET all == Breaches(checks)
        of(r) == {b \in all : b.row.region = r}
        rows == {[region |-> r, count |-> Cardinality(of(r)),
                  max |-> Greatest({b.row.carbon : b \in of(r)})] : r \in {b.row.region : b \in all}}
    IN  {r \in rows : Cardinality({s \in rows : s.max > r.max}) < 10}

With(checks, status) == Cardinality({i \in DOMAIN checks : checks[i].status = status})

(* No checks make a report of zeros. *)
AttestationReport(checks) ==
    LET n == Len(checks)
        sum(f(_)) == SumOf([i \in DOMAIN checks |-> f(checks[i])])
    IN  [total |-> n, compliant |-> With(checks, "compliant"),
         warning |-> With(checks, "warning"), breached |-> With(checks, "breached"),
         percentage |-> IF n = 0 THEN 0 ELSE RoundDiv(1000 * With(checks, "compliant"), n),
         carbon |-> IF n = 0 THEN 0 ELSE RoundDiv(sum(LAMBDA c: c.carbon), n),
         max |-> OrZero({c.max : c \in Range(checks)}, Greatest),
         renewable |-> IF n = 0 THEN 0 ELSE RoundDiv(sum(LAMBDA c: c.renewable), n),
         minRenewable |-> OrZero({c.renewable : c \in Range(checks)}, Least),
         byDay |-> ChecksByDay(checks), worst |-> WorstRegions(checks)]
=============================================================================
