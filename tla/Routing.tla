------------------------------- MODULE Routing ------------------------------
(***************************************************************************)
(* engine/router.py and engine/scorer.py: the greenest region that a job's *)
(* constraints allow; grid/mapper.py: the region map.                      *)
(*                                                                         *)
(* A region is [provider, region, zone, areas], areas being the residency  *)
(* codes its name or location matches.  A request is [providers (in the    *)
(* order asked), candidates, residency, weight]: an empty candidates or    *)
(* residency constrains nothing, weight is carbon_weight in tenths.        *)
(***************************************************************************)
EXTENDS Readings

-----------------------------------------------------------------------------
(* grid/mapper.py                                                          *)

ListRegions(map, provider) == Picked(map, {i \in DOMAIN map : map[i].provider = provider})

GetGridZone(map, provider, region) ==
    LET found == {r.zone : r \in {s \in Range(map) : s.provider = provider /\ s.region = region}}
    IN  IF found = {} THEN "unknown" ELSE CHOOSE z \in found : TRUE

-----------------------------------------------------------------------------
(* router.py                                                               *)

MatchesResidency(region, residency) == \E r \in residency : r \in region.areas

(* Fault: a candidate that is asked for by name escapes the residency. *)
NamedEscapesResidency(listed, req) ==
    Picked(listed, {i \in DOMAIN listed :
        IF req.candidates # {} THEN listed[i].region \in req.candidates
        ELSE req.residency # {} => MatchesResidency(listed[i], req.residency)})

Permitted(listed, req) ==
    Picked(listed, {i \in DOMAIN listed :
        /\ req.candidates # {} => listed[i].region \in req.candidates
        /\ req.residency # {} => MatchesResidency(listed[i], req.residency)})

RouteCandidates(map, req) ==
    FoldLeft(LAMBDA found, p: found \o Permitted(ListRegions(map, p), req), <<>>, req.providers)

(* Rounded to four decimals: near-equal candidates tie. *)
Score(carbon, least, greatest, weight) ==
    IF greatest = least THEN 0
    ELSE RoundDiv(1000 * weight * (carbon - least), greatest - least)

(* Tenths of a percent below the worst candidate. *)
SavingsVsWorst(carbon, greatest) ==
    IF greatest > 0 THEN RoundDiv((greatest - carbon) * 1000, greatest) ELSE 0

ScoreCandidates(candidates, weight) ==
    LET carbons == {candidates[i].carbon : i \in DOMAIN candidates}
        scored == {[region |-> candidates[i].region, carbon |-> candidates[i].carbon,
                    renewable |-> candidates[i].renewable, at |-> i,
                    score |-> Score(candidates[i].carbon, Least(carbons), Greatest(carbons), weight),
                    saves |-> SavingsVsWorst(candidates[i].carbon, Greatest(carbons))] :
                        i \in DOMAIN candidates}
    IN  SortedByScore(scored)

NoRoute == [refused |-> TRUE]

(***************************************************************************)
(* route: readings is what the cache's batch answered, zone -> reading,    *)
(* which may lack zones.  No candidate, or none with a reading, raises     *)
(* ValueError (NoRoute).                                                   *)
(***************************************************************************)
Route(map, req, readings) ==
    LET found == RouteCandidates(map, req)
        answered == Picked(found, {i \in DOMAIN found : found[i].zone \in DOMAIN readings})
        scored == ScoreCandidates([i \in DOMAIN answered |->
                      LET p == readings[answered[i].zone]
                      IN  [region |-> answered[i], carbon |-> p.carbon, renewable |-> p.renewable]],
                      req.weight)
    IN  IF answered = <<>> THEN NoRoute
        ELSE [recommended |-> scored[1], alternatives |-> Tail(scored)]
=============================================================================
