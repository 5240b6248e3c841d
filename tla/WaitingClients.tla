--------------------------- MODULE WaitingClients ---------------------------
(***************************************************************************)
(* Clients that hold a job back until the grid is clean, and what they     *)
(* read: the published snapshot (CDN), the API in front of its own copy of *)
(* it and of its IntensityCache, and the SDK's copy.  A job is deferred by *)
(* one of                                                                  *)
(*   sdk, sdk_cdn   CarbonClient.wait_for_clean_window, without and with a *)
(*                  snapshot URL (the Prefect task and the Dagster op call *)
(*                  the former)                                            *)
(*   airflow        CarbonCleanTrigger, which the triggerer may restart    *)
(*   celery         apply_when_clean                                       *)
(*   cli            carbonlens run                                         *)
(*                                                                         *)
(* Ages are kept instead of times; Tick lets them grow.  Timers fire when  *)
(* they are due, and a client's request takes no time; one of the API's    *)
(* fetches may take RequestTime, so that it can end after a later one.     *)
(***************************************************************************)
EXTENDS Decisions

CONSTANTS
    Jobs,
    Clients,           \* what may defer them, job -> kind of client
    MaxWait,           \* max_wait_hours
    Poll,              \* poll_seconds
    SdkTTL, ServerTTL, \* _SNAPSHOT_TTL_SECONDS, _TTL_SECONDS
    CacheTTL,          \* cache_ttl_seconds of the IntensityCache
    RequestTime,       \* the longest an API's fetch takes
    MaxRestarts,       \* bound: restarts of an Airflow trigger
    Forecasts,         \* what a forecast of MaxWait hours may be, in grams
    MinSavings         \* min_savings_pct of choose_run_index

ASSUME WaitingAssumption ==
    /\ MaxWait \in Nat /\ MaxRestarts \in Nat
    /\ Poll \in Nat \ {0}
    /\ SdkTTL \in Nat \ {0} /\ ServerTTL \in Nat \ {0} /\ CacheTTL \in Nat \ {0}
    /\ RequestTime \in Nat
    /\ Forecasts \subseteq Seq(Nat) /\ MinSavings \in Nat

VARIABLES
    kind,              \* job -> which client defers it
    job,               \* job -> [phase, waited, elapsed, left, restarts, why]
    acted,             \* job -> the readings its start rested on, [taken, failed]
    posted,            \* job -> entries posted to the organisation's ledger
    server,            \* the API's copies: of the snapshot, and its entry for the
                       \* zone in the IntensityCache, [taken, age] or NoCopy
    flight,            \* the API's fetches under way, one for each, or NoCopy
    sdk                \* job -> the SDK's copy, [clean, taken, age] or NoSignal

clientVars == <<kind, job, acted, posted, server, flight, sdk>>

Kinds == {"sdk", "sdk_cdn", "airflow", "celery", "cli"}
ASSUME ClientsAssumption == Clients \subseteq [Jobs -> Kinds]

(* The API keeps readings, of which signals are made anew: what they say   *)
(* is left open.  The SDK keeps signals, clean or not.                     *)
NoCopy == [taken |-> None, age |-> None]
NoSignal == [clean |-> FALSE, taken |-> None, age |-> None]
NewCopy == [taken |-> 0, age |-> 0]
Published == [clean : BOOLEAN, taken : {0}, age : {0}]
Held(copy) == copy.age # None

Sources == {"snapshot", "live"}
(* How long a copy is fresh, and how long it is served: a stale entry of   *)
(* the IntensityCache is, while it is refreshed.                           *)
FreshFor(c) == IF c = "snapshot" THEN ServerTTL ELSE CacheTTL
ServedFor(c) == IF c = "snapshot" THEN ServerTTL ELSE 2 * CacheTTL

(* taken counts from when a copy left the CDN or the grid operator, age    *)
(* from when it was stored; both stop at OldAge, beyond which no code or   *)
(* property tells them apart.                                              *)
OldAge == SdkTTL + ServerTTL + 2 * CacheTTL + RequestTime + 1
Older(copy) ==
    IF Held(copy) THEN [copy EXCEPT !.taken = Least({@ + 1, OldAge}), !.age = Least({@ + 1, OldAge})]
    ELSE copy

(* Fault: a copy is still used when its time is up. *)
UsableAtTTL(copy, ttl) == Held(copy) /\ copy.age <= ttl

Usable(copy, ttl) == Held(copy) /\ copy.age < ttl

(* One that the API will not serve again is as good as none. *)
Served(c, copy) == IF Usable(copy, ServedFor(c)) THEN copy ELSE NoCopy

Waiting(j) == job[j].phase = "waiting"
Due(j) == Waiting(j) /\ job[j].left = 0

-----------------------------------------------------------------------------
(* Reading a signal: [signal, taken, failed, sdk, server, flight], the     *)
(* last three being the copies and fetches after the read.                 *)

(* snapshot_source.py: a usable copy, else a fetch; a failed one leaves    *)
(* what there is, which does not answer.                                   *)
SnapshotReads ==
    IF Usable(server["snapshot"], ServedFor("snapshot")) THEN {server["snapshot"]}
    ELSE {NewCopy, server["snapshot"]}

(* cache.py get_or_fetch: the entry that answers and is kept, and the      *)
(* refresh that a stale one leaves behind.                                 *)
LiveRead ==
    LET entry == server["live"]
    IN  [entry |-> IF Usable(entry, ServedFor("live")) THEN entry ELSE NewCopy,
         flight |-> IF /\ Usable(entry, ServedFor("live")) /\ ~Usable(entry, FreshFor("live"))
                       /\ ~Held(flight["live"])
                    THEN NewCopy ELSE flight["live"]]

(* build_signal: the forecast begins with the snapshot's reading of the    *)
(* zone, or with the live one where it has none; the live one tells of a   *)
(* surplus, whichever the forecast begins with.                            *)
Signal(copy, says, snapshot, from) ==
    LET first == IF from = "snapshot" /\ Usable(snapshot, ServedFor("snapshot")) THEN snapshot
                 ELSE LiveRead.entry
    IN  [signal |-> says, taken |-> Greatest({first.taken, LiveRead.entry.taken}), failed |-> FALSE,
         sdk |-> copy,
         server |-> [c \in Sources |-> IF c = "snapshot" THEN snapshot ELSE LiveRead.entry],
         flight |-> [flight EXCEPT !["live"] = LiveRead.flight]]

(* GET /signal; a fetch may also fail, or the API be unreachable. *)
ApiReads(copy) ==
    {Signal(copy, says, s, from) : says \in {"clean", "dirty"}, s \in SnapshotReads, from \in Sources}
        \cup {[signal |-> "error", taken |-> None, failed |-> TRUE, sdk |-> copy,
               server |-> server, flight |-> flight]}

(* sdk._load_snapshot: after a failed fetch the last good copy, however    *)
(* old; without one the API.                                               *)
CopyRead(copy, failed) ==
    [signal |-> IF copy.clean THEN "clean" ELSE "dirty", taken |-> copy.taken, failed |-> failed,
     sdk |-> copy, server |-> server, flight |-> flight]

SdkReads(j) ==
    IF kind[j] # "sdk_cdn" THEN ApiReads(NoSignal)
    ELSE IF Usable(sdk[j], SdkTTL) THEN {CopyRead(sdk[j], FALSE)}
    ELSE {CopyRead(p, FALSE) : p \in Published}
             \cup (IF Held(sdk[j]) THEN {CopyRead(sdk[j], TRUE)} ELSE ApiReads(NoSignal))

-----------------------------------------------------------------------------
ClientsInit ==
    /\ kind \in Clients
    /\ job = [j \in Jobs |-> [phase |-> "asked", waited |-> 0, elapsed |-> 0, left |-> 0,
                              restarts |-> 0, why |-> "none"]]
    /\ acted = [j \in Jobs |-> [taken |-> None, failed |-> FALSE]]
    /\ posted = [j \in Jobs |-> 0]
    /\ server = [c \in Sources |-> NoCopy]
    /\ flight = [c \in Sources |-> NoCopy]
    /\ sdk = [j \in Jobs |-> NoSignal]

Started(j, reason) == [job EXCEPT ![j].phase = "ran", ![j].why = reason]
(* Fault: an error is slept over, and the deadline with it. *)
AbortedSleeps(j) == [job EXCEPT ![j].left = Poll]

Aborted(j) == [job EXCEPT ![j].phase = "failed"]

(* A report is best effort: it is posted, or lost. *)
Reporting(j, shifted) ==
    IF shifted THEN {posted, [posted EXCEPT ![j] = @ + 1]} ELSE {posted}

Polling(j) == kind[j] \in {"sdk", "sdk_cdn", "airflow"}

(* wait_for_clean_window and the trigger's run(): the first poll is at once. *)
Begin(j) ==
    /\ job[j].phase = "asked"
    /\ Polling(j)
    /\ job' = [job EXCEPT ![j].phase = "waiting"]
    /\ UNCHANGED <<kind, acted, posted, server, flight, sdk>>

(* Fault: the wait ends if another poll would be late. *)
DeadlineNear(j) == job[j].elapsed + Poll >= MaxWait

DeadlineReached(j) == job[j].elapsed >= MaxWait

(* One turn of the loop: a clean signal, the deadline, or another sleep.   *)
(* An API error ends the SDK's wait; the trigger takes it for no signal.   *)
PollSignal(j) ==
    /\ Due(j) /\ Polling(j)
    /\ \E r \in SdkReads(j) :
          /\ sdk' = [sdk EXCEPT ![j] = r.sdk]
          /\ server' = r.server /\ flight' = r.flight
          /\ \/ /\ r.signal = "clean"
                /\ job' = Started(j, "clean")
                /\ acted' = [acted EXCEPT ![j] = [taken |-> r.taken, failed |-> r.failed]]
                /\ posted' \in Reporting(j, kind[j] # "airflow" /\ job[j].waited > 0)
             \/ /\ r.signal = "error" /\ kind[j] # "airflow"
                /\ job' = Aborted(j)
                /\ UNCHANGED <<acted, posted>>
             \/ /\ r.signal = "dirty" \/ (r.signal = "error" /\ kind[j] = "airflow")
                /\ job' = IF DeadlineReached(j) THEN Started(j, "deadline")
                          ELSE [job EXCEPT ![j].left = Poll]
                /\ UNCHANGED <<acted, posted>>
    /\ UNCHANGED <<kind>>

(* A triggerer that goes away: run() begins again, with a new deadline. *)
RestartTrigger(j) ==
    /\ kind[j] = "airflow" /\ Waiting(j)
    /\ job[j].restarts < MaxRestarts
    /\ job' = [job EXCEPT ![j].restarts = @ + 1, ![j].elapsed = 0, ![j].left = 0]
    /\ UNCHANGED <<kind, acted, posted, server, flight, sdk>>

-----------------------------------------------------------------------------
(* Celery: one read, one countdown.  A dirty signal names a window or none.*)

DirtySignals ==
    {[advice |-> "wait_for_cleaner", surplus |-> FALSE, intensity |-> 0,
      surplusWindow |-> None, windowHours |-> h] : h \in {None} \cup 1 .. MaxWait + 1}
CleanSignal ==
    [advice |-> "run_now", surplus |-> FALSE, intensity |-> 0, surplusWindow |-> None,
     windowHours |-> None]

ApplyWhenClean(j) ==
    /\ kind[j] = "celery" /\ job[j].phase = "asked"
    /\ \E r \in ApiReads(NoSignal) : \E s \in (IF r.signal = "clean" THEN {CleanSignal} ELSE DirtySignals) :
          LET countdown == DeferHours(s, None, MaxWait)
          IN  /\ server' = r.server /\ flight' = r.flight
              /\ \/ /\ r.signal = "error"
                    /\ job' = Aborted(j) /\ UNCHANGED <<acted, posted>>
                 \/ /\ r.signal # "error" /\ countdown = 0
                    /\ job' = Started(j, IF r.signal = "clean" THEN "clean" ELSE "planned")
                    /\ acted' = [acted EXCEPT ![j] = [taken |-> r.taken, failed |-> r.failed]]
                    /\ UNCHANGED posted
                 \/ /\ r.signal # "error" /\ countdown > 0
                    /\ job' = [job EXCEPT ![j].phase = "waiting", ![j].left = countdown]
                    /\ posted' \in Reporting(j, TRUE)
                    /\ UNCHANGED acted
    /\ UNCHANGED <<kind, sdk>>

(* carbonlens run: one forecast, one hour; none is a reason to run at once,*)
(* and an unreachable API to give up.                                      *)
RunPlanned(j) ==
    /\ kind[j] = "cli" /\ job[j].phase = "asked"
    /\ \/ \E f \in Forecasts :
             LET plan == ChooseRunIndex(f, None, MaxWait, {}, MinSavings)
             IN  job' = IF plan.hour = 0 THEN Started(j, "planned")
                        ELSE [job EXCEPT ![j].phase = "waiting", ![j].left = plan.hour]
       \/ job' = Aborted(j)
    /\ UNCHANGED <<kind, acted, posted, server, flight, sdk>>

(* The countdown or the sleep is over; the CLI then posted the run, and   *)
(* Celery has done so before.                                              *)
WakePlanned(j) ==
    /\ Due(j) /\ ~Polling(j)
    /\ job' = Started(j, "planned")
    /\ posted' \in Reporting(j, kind[j] = "cli")
    /\ UNCHANGED <<kind, acted, server, flight, sdk>>

-----------------------------------------------------------------------------
(* The rest of the system.                                                 *)

(* Other requests make the API fetch: the snapshot, when its copy is used  *)
(* up, or the zone's live reading, when the entry is no longer fresh.      *)
Fetch(c) ==
    /\ ~Usable(server[c], FreshFor(c))
    /\ ~Held(flight[c])
    /\ flight' = [flight EXCEPT ![c] = NewCopy]
    /\ UNCHANGED <<kind, job, acted, posted, server, sdk>>

Store(c) ==
    /\ Held(flight[c])
    /\ server' = [server EXCEPT ![c] = [flight[c] EXCEPT !.age = 0]]
    /\ flight' = [flight EXCEPT ![c] = NoCopy]
    /\ UNCHANGED <<kind, job, acted, posted, sdk>>

Lose(c) ==
    /\ Held(flight[c])
    /\ flight' = [flight EXCEPT ![c] = NoCopy]
    /\ UNCHANGED <<kind, job, acted, posted, server, sdk>>

(* How long a kind of client may keep a job: a poll may be a whole         *)
(* interval late, and a restart begins anew.                               *)
PatienceOf(k) ==
    CASE k \in {"sdk", "sdk_cdn"} -> MaxWait + Poll
      [] k = "airflow" -> (MaxRestarts + 1) * (MaxWait + Poll)
      [] k \in {"celery", "cli"} -> MaxWait

(* Both counts stop where nothing tells them apart any more. *)
Kept(j) == Least({job[j].waited + 1, PatienceOf(kind[j]) + 1})

Pass(j) ==
    [job[j] EXCEPT !.left = @ - 1, !.waited = Kept(j), !.elapsed = Least({@ + 1, MaxWait})]

Tick ==
    /\ \A j \in Jobs : ~Due(j)
    /\ \A c \in Sources : Held(flight[c]) => flight[c].age < RequestTime
    /\ \E j \in Jobs : Waiting(j)
    /\ job' = [j \in Jobs |-> IF Waiting(j) THEN Pass(j) ELSE job[j]]
    /\ server' = [c \in Sources |-> Served(c, Older(server[c]))]
    /\ flight' = [c \in Sources |-> Older(flight[c])]
    /\ sdk' = [j \in Jobs |-> Older(sdk[j])]
    /\ UNCHANGED <<kind, acted, posted>>

ClientStep(j) ==
    \/ Begin(j)
    \/ PollSignal(j)
    \/ ApplyWhenClean(j)
    \/ RunPlanned(j)
    \/ WakePlanned(j)

ClientsNext ==
    \/ \E j \in Jobs : Begin(j)
    \/ \E j \in Jobs : PollSignal(j)
    \/ \E j \in Jobs : RestartTrigger(j)
    \/ \E j \in Jobs : ApplyWhenClean(j)
    \/ \E j \in Jobs : RunPlanned(j)
    \/ \E j \in Jobs : WakePlanned(j)
    \/ \E c \in Sources : Fetch(c)
    \/ \E c \in Sources : Store(c)
    \/ \E c \in Sources : Lose(c)
    \/ Tick

(* Timers fire, fetches end, and time passes; nothing else need happen. *)
ClientsFairness ==
    /\ WF_clientVars(Tick)
    /\ \A c \in Sources : WF_clientVars(Store(c) \/ Lose(c))
    /\ \A j \in Jobs : WF_clientVars(ClientStep(j))

ClientsSpec == ClientsInit /\ [][ClientsNext]_clientVars /\ ClientsFairness

-----------------------------------------------------------------------------
(* What the clients promise.                                               *)

Promised == INSTANCE Deferral WITH
    phase <- [j \in Jobs |-> job[j].phase],
    waited <- [j \in Jobs |-> job[j].waited],
    why <- [j \in Jobs |-> job[j].why],
    patience <- [j \in Jobs |-> PatienceOf(kind[j])]

(***************************************************************************)
(* Every client defers as Deferral promises: it starts its job once, on a  *)
(* clean signal, at an hour planned within the time agreed to or after it, *)
(* and keeps it no longer than a poll beyond.                              *)
(***************************************************************************)
Promise == Promised!Spec

(***************************************************************************)
(* A job that waits is started or given up in the end, however dirty the   *)
(* grid stays and whatever fails.                                          *)
(***************************************************************************)
AlwaysEnds == \A j \in Jobs : Waiting(j) ~> job[j].phase \in {"ran", "failed"}

(***************************************************************************)
(* The readings that a clean start rests on left the CDN or the operator   *)
(* less long ago than the copies in between are served and a fetch may     *)
(* take, unless a fetch of the client's had failed: fetches that end in    *)
(* another order than they began, and stale entries that are answered      *)
(* while they are refreshed, do not add to it (sdk.py:132-167,             *)
(* snapshot_source.py:53-76, cache.py:34-56, signal.py:67-101).            *)
(***************************************************************************)
ApiKept == Greatest({ServerTTL, 2 * CacheTTL}) + RequestTime
LongestKept(k) == IF k = "sdk_cdn" THEN Greatest({SdkTTL, ApiKept}) ELSE ApiKept
ActedOnRecent ==
    \A j \in Jobs : job[j].why = "clean" /\ ~acted[j].failed => acted[j].taken < LongestKept(kind[j])
=============================================================================
