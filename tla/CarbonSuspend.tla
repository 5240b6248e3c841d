---------------------------- MODULE CarbonSuspend ----------------------------
(***************************************************************************)
(* The Kubernetes controller of src/carbonlens/k8s/carbon_suspend.py: a    *)
(* CronJob that runs reconcile() every 20 minutes, suspends the annotated  *)
(* CronJobs whose grid is dirty and resumes the others.                    *)
(*                                                                         *)
(* reconcile() is one thread, but the cluster goes on while it waits for a *)
(* request: an action is the code between two HTTP calls.  The Job that    *)
(* runs it retries a pass that raised and is killed at its                 *)
(* activeDeadlineSeconds (deploy/k8s/carbon-suspend/cronjob.yaml); the     *)
(* time of a pass is counted in requests that ran into their 20 s timeout, *)
(* quick ones are free.                                                    *)
(*                                                                         *)
(* One tick is one period of the controller.  The age of a CronJob's last  *)
(* run is its last tick's value throughout a pass.                         *)
(***************************************************************************)
EXTENDS Integers

CONSTANTS
  JobCount,      \* annotated CronJobs, numbered in the order the API lists them
  Regions,       \* values of the region annotation
  Region,        \* Region[j]: carbonlens.dev/region
  Cap,           \* Cap[j]: carbonlens.dev/max-intensity, or None
  MaxDefer,      \* MaxDefer[j]: carbonlens.dev/max-defer-hours in ticks, or None
  Signals,       \* the grid signals a region can have
  Reliable,      \* regions whose signal does not stay unavailable for good
  BackoffLimit,  \* backoffLimit: retries of a pass that raised
  Deadline,      \* activeDeadlineSeconds, in request timeouts
  None

Jobs == 1..JobCount

\* `clean`: the advice is run_now or there is clean surplus.
Signal == [clean : BOOLEAN, intensity : Nat]

ASSUME SuspendAssumption ==
  /\ JobCount \in Nat
  /\ Region \in [Jobs -> Regions]
  /\ Cap \in [Jobs -> Nat \cup {None}]
  /\ MaxDefer \in [Jobs -> Nat \cup {None}]
  /\ Signals \subseteq Signal
  /\ Reliable \subseteq Regions
  /\ BackoffLimit \in Nat
  /\ Deadline \in Nat \ {0}
  /\ None \notin Int \cup Signals \cup BOOLEAN

VARIABLES
  suspend,        \* suspend[j]: .spec.suspend of CronJob j
  since,          \* since[j]: ticks since its lastScheduleTime or creation
  due,            \* this period's pass has not begun
  phase,          \* the call reconcile() makes next; "idle" between passes
  at,             \* the item the loop is at
  listedSuspend,  \* .spec.suspend and the last run of the items not visited
  listedSince,    \*   yet, as the list call returned them
  signals,        \* the signals this pass has fetched, by region
  want,           \* the .spec.suspend to patch
  spent,          \* timeouts this Job ran into
  attempt         \* retries of this Job so far

cluster == <<suspend, since>>
pass == <<at, listedSuspend, listedSince, signals, want>>
job == <<due, spent, attempt>>
vars == <<cluster, phase, pass, job>>

Phases == {"idle", "list", "item", "patch", "report"}

\* Beyond the deadline the code treats every age alike; without one, all ages.
SinceMax(j) == IF MaxDefer[j] = None THEN 0 ELSE MaxDefer[j]

NoPass ==
  /\ at' = 1
  /\ listedSuspend' = [j \in Jobs |-> FALSE]
  /\ listedSince' = [j \in Jobs |-> 0]
  /\ signals' = [r \in Regions |-> None]
  /\ want' = FALSE

Init ==
  /\ suspend = [j \in Jobs |-> FALSE]
  /\ since = [j \in Jobs |-> 0]
  /\ due = TRUE
  /\ phase = "idle"
  /\ at = 1
  /\ listedSuspend = [j \in Jobs |-> FALSE]
  /\ listedSince = [j \in Jobs |-> 0]
  /\ signals = [r \in Regions |-> None]
  /\ want = FALSE
  /\ spent = 0
  /\ attempt = 0

----------------------------------------------------------------------------
(* The decision.                                                           *)

\* overdue(): no run within the max-defer window.
Overdue(j, hours) == MaxDefer[j] # None /\ hours >= MaxDefer[j]

\* should_suspend(): not clean, or above the cap.
ShouldSuspend(signal, cap) ==
  \/ ~signal.clean
  \/ cap # None /\ signal.intensity > cap

\* Fault: the deadline is not looked at.
DesiredNoBackstop(j, signal, hours) == ShouldSuspend(signal, Cap[j])

\* desired_suspend_change(), before the comparison with the current value.
Desired(j, signal, hours) == ShouldSuspend(signal, Cap[j]) /\ ~Overdue(j, hours)

----------------------------------------------------------------------------
(* reconcile() and the Job it runs in.                                     *)

\* Fault: the Job has no activeDeadlineSeconds.
InTimeAlways == TRUE

\* activeDeadlineSeconds has not run out.
InTime == spent < Deadline

\* A call that fails does so at once, or after up to one timeout; answers are
\* taken to be prompt.
Spend == spent' \in {spent, spent + 1}

\* The period's Job starts (concurrencyPolicy Forbid: there is one at a time).
Begin ==
  /\ phase = "idle"
  /\ due
  /\ phase' = "list"
  /\ due' = FALSE
  /\ UNCHANGED <<cluster, pass, spent, attempt>>

Idle ==
  /\ phase' = "idle"
  /\ NoPass
  /\ spent' = 0
  /\ attempt' = 0
  /\ UNCHANGED due

\* A call fails and the exception leaves reconcile(): the Job starts the pod
\* again, on what is left of its deadline, or fails.
Raised ==
  \/ /\ attempt < BackoffLimit
     /\ phase' = "list"
     /\ NoPass
     /\ attempt' = attempt + 1
     /\ Spend
     /\ UNCHANGED due
  \/ attempt = BackoffLimit /\ Idle

\* The list call returns all items as they are now.
Listed ==
  /\ phase = "list"
  /\ InTime
  /\ phase' = "item"
  /\ listedSuspend' = suspend
  /\ listedSince' = since
  /\ UNCHANGED <<cluster, at, signals, want, job>>

ListFails ==
  /\ phase = "list"
  /\ InTime
  /\ Raised
  /\ UNCHANGED cluster

\* The loop goes on to the next item; what was listed of this one is not
\* used again.
NextItem ==
  /\ at' = at + 1
  /\ listedSuspend' = [listedSuspend EXCEPT ![at] = FALSE]
  /\ listedSince' = [listedSince EXCEPT ![at] = 0]
  /\ want' = FALSE

AtItem(r) ==
  /\ phase = "item"
  /\ InTime
  /\ at \in Jobs
  /\ Region[at] = r

\* The signal of the item's region is fetched, once per pass.
SignalReturns(r) ==
  /\ AtItem(r)
  /\ signals[r] = None
  /\ \E s \in Signals : signals' = [signals EXCEPT ![r] = s]
  /\ UNCHANGED <<cluster, phase, at, listedSuspend, listedSince, want, job>>

\* Fault: an unavailable signal ends the pass.
SignalUnavailableAborts(r) ==
  /\ AtItem(r)
  /\ signals[r] = None
  /\ Raised
  /\ UNCHANGED cluster

\* The fetch fails with an httpx error: `continue`.  The failure is not
\* remembered, the next item of the region asks again.
SignalUnavailable(r) ==
  /\ AtItem(r)
  /\ signals[r] = None
  /\ NextItem
  /\ Spend
  /\ UNCHANGED <<cluster, phase, signals, due, attempt>>

\* The body of the answer is not JSON: json() raises, and no one catches it.
SignalGarbled(r) ==
  /\ AtItem(r)
  /\ signals[r] = None
  /\ Raised
  /\ UNCHANGED cluster

\* With the signal at hand: nothing to change, or a patch.
Decide(r) ==
  LET desired == Desired(at, signals[r], listedSince[at]) IN
  /\ AtItem(r)
  /\ signals[r] # None
  /\ \/ /\ desired = listedSuspend[at]
        /\ NextItem
        /\ UNCHANGED phase
     \/ /\ desired # listedSuspend[at]
        /\ phase' = "patch"
        /\ want' = desired
        /\ UNCHANGED <<at, listedSuspend, listedSince>>
  /\ UNCHANGED <<cluster, signals, job>>

\* The patch is applied; a fresh deferral is then reported.
PatchReturns(j) ==
  /\ phase = "patch"
  /\ InTime
  /\ at = j
  /\ suspend' = [suspend EXCEPT ![j] = want]
  /\ \/ /\ want
        /\ phase' = "report"
        /\ UNCHANGED pass
     \/ /\ ~want
        /\ phase' = "item"
        /\ NextItem
        /\ UNCHANGED signals
  /\ UNCHANGED <<since, job>>

\* raise_for_status or a transport error after the patch was applied or not.
PatchFails ==
  /\ phase = "patch"
  /\ InTime
  /\ suspend' \in {suspend, [suspend EXCEPT ![at] = want]}
  /\ Raised
  /\ UNCHANGED since

\* The report is posted, or fails and is logged: the loop goes on either way.
Report ==
  /\ phase = "report"
  /\ InTime
  /\ phase' = "item"
  /\ NextItem
  /\ Spend
  /\ UNCHANGED <<cluster, signals, due, attempt>>

PassEnds ==
  /\ phase = "item"
  /\ at = JobCount + 1
  /\ Idle
  /\ UNCHANGED cluster

\* activeDeadlineSeconds: the Job is killed and not tried again.
Killed ==
  /\ phase # "idle"
  /\ ~InTime
  /\ Idle
  /\ UNCHANGED cluster

----------------------------------------------------------------------------
(* The cluster: Kubernetes runs a CronJob that is not suspended when its   *)
(* schedule comes round, and skips it otherwise.                           *)

Fire(j) ==
  /\ ~suspend[j]
  /\ since' = [since EXCEPT ![j] = 0]
  /\ UNCHANGED <<suspend, phase, pass, job>>

\* A period passes.  A pass is over long before.
Tick ==
  /\ phase = "idle"
  /\ ~due
  /\ due' = TRUE
  /\ since' = [j \in Jobs |-> IF since[j] < SinceMax(j) THEN since[j] + 1 ELSE since[j]]
  /\ UNCHANGED <<suspend, phase, pass, spent, attempt>>

----------------------------------------------------------------------------

\* The signal of item j is answered with JSON, or not at all.
NotGarbled(j) ==
  at = j /\ (SignalReturns(Region[j]) \/ SignalUnavailable(Region[j]))

Controller ==
  \/ Begin \/ Listed \/ ListFails
  \/ \E r \in Regions : SignalReturns(r)
  \/ \E r \in Regions : SignalUnavailable(r)
  \/ \E r \in Regions : SignalGarbled(r)
  \/ \E r \in Regions : Decide(r)
  \/ \E j \in Jobs : PatchReturns(j)
  \/ PatchFails \/ Report \/ PassEnds \/ Killed

Next ==
  \/ Controller
  \/ \E j \in Jobs : Fire(j)
  \/ Tick

\* Periods pass, every pass is run to an end and every schedule comes round.
\* The cluster's API, asked for the same again and again, answers again and
\* again, and so do the regions in Reliable; no item is answered with rubbish
\* for good.
Fairness ==
  /\ WF_vars(Controller)
  /\ WF_vars(Tick)
  /\ SF_vars(Listed)
  /\ \A j \in Jobs : WF_vars(Fire(j)) /\ SF_vars(PatchReturns(j)) /\ SF_vars(NotGarbled(j))
  /\ \A r \in Reliable : SF_vars(SignalReturns(r))

Spec == Init /\ [][Next]_vars /\ Fairness

----------------------------------------------------------------------------

\* Every variable has its type; a pass never has more timeouts than its
\* deadline allows (cronjob.yaml:17).
TypeOK ==
  /\ suspend \in [Jobs -> BOOLEAN]
  /\ since \in [Jobs -> Nat]
  /\ \A j \in Jobs : since[j] <= SinceMax(j)
  /\ due \in BOOLEAN
  /\ phase \in Phases
  /\ at \in 1..(JobCount + 1)
  /\ phase \in {"patch", "report"} => at \in Jobs
  /\ listedSuspend \in [Jobs -> BOOLEAN]
  /\ listedSince \in [Jobs -> Nat]
  /\ signals \in [Regions -> Signals \cup {None}]
  /\ want \in BOOLEAN
  /\ spent \in 0..Deadline
  /\ attempt \in 0..BackoffLimit

\* The deadline holds at the moment of the patch, though the controller
\* decided on a listing the cluster has moved on from: no CronJob is suspended
\* that has not run within its max-defer window (carbon_suspend.py:100-101).
NoSuspendOverdue ==
  [][\A j \in Jobs : suspend'[j] /\ ~suspend[j] => ~Overdue(j, since[j])]_vars

\* A CronJob that has not run within its max-defer window runs, dirty grid or
\* not, as long as its own region's signal comes back: an outage of another
\* region, failing patches and reports, retries and killed passes do not
\* starve it.
BackstopReached ==
  \A j \in Jobs :
    Region[j] \in Reliable
      => (Overdue(j, since[j]) ~> ~Overdue(j, since[j]))

\* What the docstring says of the deadline (carbon_suspend.py:90-92, "so
\* carbon-aware deferral never starves a job indefinitely"): the same of every
\* CronJob with a deadline.
NeverStarved ==
  \A j \in Jobs : Overdue(j, since[j]) ~> ~Overdue(j, since[j])
============================================================================
