------------------------------- MODULE Signal -------------------------------
(***************************************************************************)
(* engine/signal.py: the run-now / wait decision over a 24 h forecast, and *)
(* the clients that read it.                                               *)
(***************************************************************************)
EXTENDS Readings

SignalState(carbon) ==
    IF carbon <= 15000 THEN "green" ELSE IF carbon <= 40000 THEN "yellow" ELSE "red"

(* Which caveat goes with an average and a marginal figure, if any. *)
MarginalNote(avg, marginal) ==
    IF marginal = None THEN "none"
    ELSE IF marginal >= 30000 /\ 10 * marginal >= 13 * avg THEN "dirty_margin"
    ELSE IF marginal <= 10000 THEN "clean_margin"
    ELSE "none"

(* The first of the cleanest points, 0 when none is cleaner than now. *)
CleanestAhead(points) ==
    LET least == Least({p.carbon : p \in Range(points)})
    IN  Least({h \in 0 .. Len(points) - 1 : points[h + 1].carbon = least})

(* At least 15% below now. *)
NotablyCleaner(points) ==
    LET h == CleanestAhead(points)
    IN  h >= 1 /\ 100 * points[h + 1].carbon <= 85 * points[1].carbon

(* A measured marginal figure is preferred to the reading's estimate. *)
Marginal(current, measured) == IF measured # None THEN measured ELSE current.marginal

(***************************************************************************)
(* points is the forecast, hour 0 first; current the zone's reading as the *)
(* source answers it now, which may be newer than points[1]; measured what *)
(* an operator's marginal source answered, or None.                        *)
(***************************************************************************)
BuildSignal(points, current, measured) ==
    LET now == points[1].carbon
        marginal == Marginal(current, measured)
        surplus == IsCleanSurplus(Reading(now, current.renewable, marginal))
        ahead == {h \in SurplusOffsets(points) : h >= 1}
        soonest == IF ahead = {} THEN None ELSE Least(ahead)
        cleanest == CleanestAhead(points)
        signal(window, note) ==
            [state |-> SignalState(now), intensity |-> RoundDiv(now, 100),
             advice |-> IF window = None THEN "run_now" ELSE "wait_for_cleaner",
             windowHours |-> window,
             windowCarbon |-> IF window = None THEN None ELSE points[window + 1].carbon,
             surplus |-> surplus, surplusWindow |-> soonest, note |-> note,
             basis |-> IF measured = None THEN "heuristic" ELSE "measured"]
    IN  IF surplus THEN signal(None, "surplus_now")
        ELSE IF soonest # None THEN signal(soonest, "surplus_ahead")
        ELSE IF SignalState(now) = "green" \/ ~NotablyCleaner(points)
             THEN signal(None, MarginalNote(now, marginal))
        ELSE signal(cleanest, MarginalNote(now, marginal))
=============================================================================
