----------------------------- MODULE Decisions ------------------------------
(***************************************************************************)
(* What clients decide from a signal (see Signal): the SDK's functions,    *)
(* the Celery countdown, the Kubernetes controller's should_suspend, and   *)
(* cli/green_run.py's choice of a forecast hour and of a region.           *)
(* Intensities of a forecast are in whole grams; a cap is in grams or None.*)
(***************************************************************************)
EXTENDS Readings

-----------------------------------------------------------------------------
(* sdk.py, celery.py, carbon_suspend.py                                    *)

UnderCap(signal, cap) == cap = None \/ signal.intensity <= cap

(* Fault: a surplus counts whatever the cap. *)
SurplusBeatsCap(signal, cap) == signal.surplus \/ (signal.advice = "run_now" /\ UnderCap(signal, cap))

IsGoodTime(signal, cap) ==
    (signal.advice = "run_now" \/ signal.surplus) /\ UnderCap(signal, cap)

ChooseByCarbon(signal, whenClean, whenDirty, cap) ==
    IF IsGoodTime(signal, cap) THEN whenClean ELSE whenDirty

(* Python's `or` also skips a window of 0 hours. *)
SoonestCleanWindowHours(signal, default) ==
    IF signal.surplusWindow > 0 THEN signal.surplusWindow
    ELSE IF signal.windowHours > 0 THEN signal.windowHours
    ELSE default

DeferHours(signal, cap, maxWait) ==
    IF IsGoodTime(signal, cap) THEN 0
    ELSE Least({SoonestCleanWindowHours(signal, maxWait), maxWait})

(* The entry posted to the ledger; the window's intensity is rounded to grams. *)
ImpactFromSignal(region, signal, hours) ==
    [region |-> region, deferred |-> hours, energy |-> None, basis |-> signal.basis,
     reduction |-> IF signal.windowCarbon = None THEN 0
                   ELSE Greatest({0, signal.intensity - RoundDiv(signal.windowCarbon, 100)})]

(* carbon_suspend.py's own copy of the rule. *)
ShouldSuspend(signal, cap) ==
    LET clean == signal.advice = "run_now" \/ signal.surplus
    IN  ~(IF cap # None /\ signal.intensity > cap THEN FALSE ELSE clean)

-----------------------------------------------------------------------------
(* green_run.py: choose_run_index over one forecast.                       *)

Window(intensities, maxWait) ==
    SubSeq(intensities, 1, Least({Len(intensities), maxWait + 1}))

(* The first of the least elements, and the least hour of a set. *)
CleanestHour(window) ==
    Least({h \in 0 .. Len(window) - 1 :
              \A k \in 1 .. Len(window) : window[h + 1] <= window[k]})

(* At least minSavings percent below now; an empty now saves nothing. *)
WorthWaiting(now, then, minSavings) ==
    IF now = 0 THEN minSavings <= 0 ELSE (now - then) * 100 >= minSavings * now

ChooseRunIndex(intensities, cap, maxWait, surplusHours, minSavings) ==
    LET window == Window(intensities, maxWait)
        hours == 0 .. Len(window) - 1
        surplus == surplusHours \cap hours
        under == {h \in hours : window[h + 1] <= cap}
        pick(h, reason) == [hour |-> h, reason |-> reason]
    IN  IF window = <<>> THEN pick(0, "now")
        ELSE LET cleanest == CleanestHour(window)
        IN CASE 0 \in surplus -> pick(0, "surplus_now")
             [] 0 \notin surplus /\ cap # None /\ under # {} -> pick(Least(under), "threshold")
             [] 0 \notin surplus /\ (cap = None \/ under = {}) /\ surplus # {} ->
                    pick(Least(surplus), "surplus")
             [] surplus = {} /\ cap # None /\ under = {} -> pick(cleanest, "cleanest_fallback")
             [] surplus = {} /\ cap = None ->
                    IF cleanest = 0 THEN pick(0, "now")
                    ELSE IF WorthWaiting(window[1], window[cleanest + 1], minSavings)
                    THEN pick(cleanest, "cleanest")
                    ELSE pick(0, "now_no_benefit")

-----------------------------------------------------------------------------
(* choose_run_plan over several regions, a sequence of [label, intensities,*)
(* surplus].  min() keeps the first candidate of a tie, and candidates are *)
(* listed region by region, hour by hour.                                  *)

(* Fault: the whole forecast is searched. *)
BeyondTheWait(regions, maxWait) ==
    UNION {{[region |-> r, hour |-> h, carbon |-> regions[r].intensities[h + 1],
             surplus |-> h \in regions[r].surplus] : h \in 0 .. Len(regions[r].intensities) - 1}
             : r \in DOMAIN regions}

Candidates(regions, maxWait) ==
    UNION {LET window == Window(regions[r].intensities, maxWait)
           IN  {[region |-> r, hour |-> h, carbon |-> window[h + 1],
                 surplus |-> h \in regions[r].surplus] : h \in 0 .. Len(window) - 1}
             : r \in DOMAIN regions}

Earlier(a, b) == a.region < b.region \/ (a.region = b.region /\ a.hour <= b.hour)

Cleanest(C) == CHOOSE c \in C : \A d \in C :
                   c.carbon < d.carbon \/ (c.carbon = d.carbon /\ Earlier(c, d))

(* By hour, then by intensity. *)
Soonest(C) == Cleanest({c \in C : \A d \in C : c.hour <= d.hour})

ChooseRunPlan(regions, cap, maxWait, minSavings) ==
    LET cands == Candidates(regions, maxWait)
        surplus == {c \in cands : c.surplus}
        under == {c \in cands : cap # None /\ c.carbon <= cap}
        now == {c \in cands : c.hour = 0}
        best == Cleanest(cands)
        bestNow == Cleanest(now)
        pick(c, reason) == [label |-> regions[c.region].label, hour |-> c.hour, reason |-> reason]
    IN  IF cands = {}
        THEN [label |-> IF regions = <<>> THEN "" ELSE regions[1].label, hour |-> 0, reason |-> "now"]
        ELSE IF surplus \cap now # {} THEN pick(Cleanest(surplus \cap now), "surplus_now")
        ELSE IF surplus # {} THEN pick(Soonest(surplus), "surplus")
        ELSE IF under # {} THEN pick(Soonest(under), "threshold")
        ELSE IF cap # None THEN pick(best, "cleanest_fallback")
        ELSE IF best.hour = 0 THEN pick(best, "now")
        ELSE IF bestNow.carbon # 0 /\ ~WorthWaiting(bestNow.carbon, best.carbon, minSavings)
             THEN pick(bestNow, "now_no_benefit")
        ELSE pick(best, "cleanest")
=============================================================================
