------------------------- MODULE CarbonSuspendProofs -------------------------
(***************************************************************************)
(* Types of CarbonSuspend, and that it never suspends an overdue CronJob.  *)
(*                                                                         *)
(* What reconcile() knows of the items it has not visited is what the list *)
(* call returned.  The cluster moves on from it in one direction only:     *)
(* while a pass is under way CronJobs run, which makes the age of a last   *)
(* run smaller.  An item that the listing shows within its deadline is     *)
(* therefore within it when the patch arrives.                             *)
(***************************************************************************)
EXTENDS CarbonSuspend, TLAPS

InLoop == phase \in {"item", "patch", "report"}

\* No CronJob that is still to be visited has waited longer than was listed.
ListingOld == InLoop => \A j \in Jobs : j >= at => since[j] <= listedSince[j]

\* A patch that suspends is for an item listed within its deadline.
WantJustified == phase = "patch" /\ want => ~Overdue(at, listedSince[at])

SuspendInv == TypeOK /\ ListingOld /\ WantJustified

----------------------------------------------------------------------------

\* Between passes nothing is remembered.
LEMMA NoPassType ==
  ASSUME NoPass
  PROVE  /\ at' \in 1..(JobCount + 1)
         /\ listedSuspend' \in [Jobs -> BOOLEAN]
         /\ listedSince' \in [Jobs -> Nat]
         /\ signals' \in [Regions -> Signals \cup {None}]
         /\ want' \in BOOLEAN
  <1>1. 1 \in 1..(JobCount + 1)
    BY SuspendAssumption
  <1>2. at' = 1 /\ want' \in BOOLEAN
    BY DEF NoPass
  <1>3. listedSuspend' \in [Jobs -> BOOLEAN]
    BY DEF NoPass
  <1>4. listedSince' \in [Jobs -> Nat]
    BY DEF NoPass
  <1>5. signals' \in [Regions -> Signals \cup {None}]
    BY DEF NoPass
  <1> QED
    BY <1>1, <1>2, <1>3, <1>4, <1>5

LEMMA InitInv == Init => SuspendInv
  <1> SUFFICES ASSUME Init PROVE SuspendInv
    OBVIOUS
  <1>1. \A j \in Jobs : 0 <= SinceMax(j)
    BY SuspendAssumption DEF SinceMax
  <1>2. TypeOK
    <2>1. suspend \in [Jobs -> BOOLEAN] /\ listedSuspend \in [Jobs -> BOOLEAN]
      BY DEF Init
    <2>2. since \in [Jobs -> Nat] /\ listedSince \in [Jobs -> Nat]
      BY DEF Init
    <2>3. \A j \in Jobs : since[j] <= SinceMax(j)
      BY <1>1 DEF Init
    <2>4. signals \in [Regions -> Signals \cup {None}]
      BY DEF Init
    <2>5. at \in 1..(JobCount + 1) /\ spent \in 0..Deadline /\ attempt \in 0..BackoffLimit
      BY SuspendAssumption DEF Init
    <2> QED
      BY <2>1, <2>2, <2>3, <2>4, <2>5 DEF Init, TypeOK, Phases
  <1> QED
    BY <1>2 DEF Init, SuspendInv, ListingOld, WantJustified, InLoop

\* A pass that raised leaves no listing behind, whether it is retried or not.
LEMMA RaisedInv ==
  ASSUME SuspendInv, InTime, Raised, UNCHANGED since, suspend' \in [Jobs -> BOOLEAN]
  PROVE  SuspendInv'
  <1>1. /\ phase' \in {"list", "idle"}
        /\ NoPass
        /\ UNCHANGED due
        /\ spent' \in 0..Deadline
        /\ attempt' \in 0..BackoffLimit
    BY SuspendAssumption DEF Raised, Idle, InTime, Spend, SuspendInv, TypeOK
  <1>2. TypeOK'
    BY <1>1, NoPassType, SuspendAssumption DEF SuspendInv, TypeOK, Phases, SinceMax
  <1> QED
    BY <1>1, <1>2 DEF SuspendInv, ListingOld, WantJustified, InLoop

LEMMA IdleInv ==
  ASSUME SuspendInv, Idle, UNCHANGED cluster
  PROVE  SuspendInv'
  <1>1. TypeOK'
    BY NoPassType, SuspendAssumption
    DEF Idle, SuspendInv, TypeOK, Phases, SinceMax, cluster
  <1> QED
    BY <1>1 DEF Idle, SuspendInv, ListingOld, WantJustified, InLoop

\* Going on to the next item keeps what was listed of the later ones.
LEMMA NextItemListing ==
  ASSUME TypeOK, ListingOld, InLoop, at \in Jobs, NextItem, UNCHANGED since
  PROVE  /\ at' \in 1..(JobCount + 1)
         /\ listedSuspend' \in [Jobs -> BOOLEAN]
         /\ listedSince' \in [Jobs -> Nat]
         /\ want' = FALSE
         /\ \A j \in Jobs : j >= at' => since'[j] <= listedSince'[j]
  <1>1. at' = at + 1 /\ at \in 1..JobCount /\ want' = FALSE
    BY DEF NextItem, Jobs
  <1>2. listedSuspend' \in [Jobs -> BOOLEAN] /\ listedSince' \in [Jobs -> Nat]
    BY DEF NextItem, TypeOK
  <1>3. ASSUME NEW j \in Jobs, j >= at'
        PROVE  since'[j] <= listedSince'[j]
    <2>1. j # at /\ j >= at
      BY <1>1, <1>3, SuspendAssumption DEF Jobs
    <2> QED
      BY <2>1 DEF NextItem, ListingOld, TypeOK
  <1>4. at' \in 1..(JobCount + 1)
    BY <1>1, SuspendAssumption
  <1> QED
    BY <1>1, <1>2, <1>3, <1>4

\* A step of the loop that goes on to the next item, and patches, suspends and
\* ages nothing else.
LEMMA GoOnInv ==
  ASSUME SuspendInv, InLoop, at \in Jobs, NextItem, phase' = "item",
         UNCHANGED <<since, signals, due, attempt>>,
         spent' \in 0..Deadline, suspend' \in [Jobs -> BOOLEAN]
  PROVE  SuspendInv'
  <1>1. TypeOK'
    BY NextItemListing, SuspendAssumption DEF SuspendInv, TypeOK, Phases, SinceMax
  <1> QED
    BY <1>1, NextItemListing DEF SuspendInv, ListingOld, WantJustified, InLoop

LEMMA DecideInv ==
  ASSUME SuspendInv, NEW r \in Regions, Decide(r)
  PROVE  SuspendInv'
  <1> DEFINE desired == Desired(at, signals[r], listedSince[at])
  <1>1. /\ phase = "item" /\ at \in Jobs /\ signals[r] # None
        /\ UNCHANGED <<suspend, since, signals, due, spent, attempt>>
    BY DEF Decide, AtItem, cluster, job
  <1>2. CASE desired = listedSuspend[at] /\ NextItem /\ UNCHANGED phase
    BY <1>1, <1>2, GoOnInv DEF InLoop, SuspendInv, TypeOK
  <1>3. CASE /\ desired # listedSuspend[at]
             /\ phase' = "patch" /\ want' = desired
             /\ UNCHANGED <<at, listedSuspend, listedSince>>
    <2>1. desired \in BOOLEAN
      BY DEF Desired
    <2>2. desired => ~Overdue(at, listedSince[at])
      BY DEF Desired
    <2> HIDE DEF desired
    <2>3. TypeOK'
      BY <1>1, <1>3, <2>1, SuspendAssumption DEF SuspendInv, TypeOK, Phases, SinceMax
    <2>4. ListingOld'
      BY <1>1, <1>3 DEF SuspendInv, ListingOld, InLoop
    <2>5. WantJustified'
      BY <1>1, <1>3, <2>2 DEF WantJustified, Overdue
    <2> QED
      BY <2>3, <2>4, <2>5 DEF SuspendInv
  <1> QED
    BY <1>2, <1>3 DEF Decide

LEMMA ListedInv ==
  ASSUME SuspendInv, Listed
  PROVE  SuspendInv'
  <1>1. TypeOK'
    BY DEF Listed, SuspendInv, TypeOK, Phases, SinceMax, cluster, job
  <1>2. ListingOld'
    BY DEF Listed, SuspendInv, TypeOK, ListingOld, cluster
  <1> QED
    BY <1>1, <1>2 DEF Listed, SuspendInv, WantJustified

LEMMA SignalReturnsInv ==
  ASSUME SuspendInv, NEW r \in Regions, SignalReturns(r)
  PROVE  SuspendInv'
  <1>1. TypeOK'
    BY DEF SignalReturns, SuspendInv, TypeOK, SinceMax, cluster, job
  <1> QED
    BY <1>1
    DEF SignalReturns, SuspendInv, ListingOld, WantJustified, InLoop, Overdue, cluster, job

LEMMA PatchReturnsInv ==
  ASSUME SuspendInv, NEW j \in Jobs, PatchReturns(j)
  PROVE  SuspendInv'
  <1>1. /\ phase = "patch" /\ at = j /\ UNCHANGED <<since, due, spent, attempt>>
        /\ suspend' \in [Jobs -> BOOLEAN]
    BY DEF PatchReturns, job, SuspendInv, TypeOK
  <1>2. CASE phase' = "report" /\ UNCHANGED pass
    <2>1. TypeOK'
      BY <1>1, <1>2 DEF SuspendInv, TypeOK, Phases, SinceMax, pass
    <2> QED
      BY <1>1, <1>2, <2>1 DEF SuspendInv, ListingOld, WantJustified, InLoop, pass
  <1>3. CASE phase' = "item" /\ NextItem /\ UNCHANGED signals
    BY <1>1, <1>3, GoOnInv DEF SuspendInv, TypeOK, InLoop
  <1> QED
    BY <1>2, <1>3 DEF PatchReturns

\* A CronJob that runs has waited less than was listed.
LEMMA FireInv ==
  ASSUME SuspendInv, NEW j \in Jobs, Fire(j)
  PROVE  SuspendInv'
  <1>1. since' \in [Jobs -> Nat] /\ \A i \in Jobs : since'[i] \in {since[i], 0}
    BY DEF Fire, SuspendInv, TypeOK
  <1>2. \A i \in Jobs : 0 <= SinceMax(i)
    BY SuspendAssumption DEF SinceMax
  <1>3. TypeOK'
    BY <1>1, <1>2 DEF Fire, SuspendInv, TypeOK, SinceMax, pass, job
  <1>4. ListingOld'
    <2> SUFFICES ASSUME InLoop, NEW i \in Jobs, i >= at
                 PROVE  since'[i] <= listedSince[i]
      BY DEF Fire, ListingOld, InLoop, pass
    <2>1. since[i] <= listedSince[i] /\ listedSince[i] \in Nat
      BY DEF SuspendInv, ListingOld, TypeOK
    <2> QED
      BY <1>1, <2>1
  <1> QED
    BY <1>3, <1>4 DEF Fire, SuspendInv, WantJustified, Overdue, pass

LEMMA TickInv ==
  ASSUME SuspendInv, Tick
  PROVE  SuspendInv'
  <1>1. \A j \in Jobs : SinceMax(j) \in Nat
    BY SuspendAssumption DEF SinceMax
  <1>2. since' \in [Jobs -> Nat] /\ \A j \in Jobs : since'[j] <= SinceMax(j)
    BY <1>1 DEF Tick, SuspendInv, TypeOK
  <1>3. TypeOK'
    BY <1>2 DEF Tick, SuspendInv, TypeOK, SinceMax, pass
  <1> QED
    BY <1>3 DEF Tick, SuspendInv, ListingOld, WantJustified, InLoop, pass

LEMMA NextInv == SuspendInv /\ [Next]_vars => SuspendInv'
  <1> SUFFICES ASSUME SuspendInv, [Next]_vars PROVE SuspendInv'
    OBVIOUS
  <1>1. CASE Begin
    <2>1. TypeOK'
      BY <1>1 DEF Begin, SuspendInv, TypeOK, Phases, SinceMax, cluster, pass
    <2> QED
      BY <1>1, <2>1 DEF Begin, SuspendInv, ListingOld, WantJustified, InLoop
  <1>2. CASE Listed
    BY <1>2, ListedInv
  <1>3. CASE ListFails
    BY <1>3, RaisedInv DEF ListFails, cluster, SuspendInv, TypeOK
  <1>4. ASSUME NEW r \in Regions, SignalReturns(r) PROVE SuspendInv'
    BY <1>4, SignalReturnsInv
  <1>5. ASSUME NEW r \in Regions, SignalUnavailable(r) PROVE SuspendInv'
    <2>1. spent' \in 0..Deadline
      BY <1>5, SuspendAssumption
      DEF SignalUnavailable, AtItem, InTime, Spend, SuspendInv, TypeOK
    <2> QED
      BY <1>5, <2>1, GoOnInv
      DEF SignalUnavailable, AtItem, InLoop, cluster, SuspendInv, TypeOK
  <1>6. ASSUME NEW r \in Regions, SignalGarbled(r) PROVE SuspendInv'
    BY <1>6, RaisedInv DEF SignalGarbled, AtItem, cluster, SuspendInv, TypeOK
  <1>7. ASSUME NEW r \in Regions, Decide(r) PROVE SuspendInv'
    BY <1>7, DecideInv
  <1>8. ASSUME NEW j \in Jobs, PatchReturns(j) PROVE SuspendInv'
    BY <1>8, PatchReturnsInv
  <1>9. CASE PatchFails
    <2>1. suspend' \in [Jobs -> BOOLEAN]
      BY <1>9 DEF PatchFails, SuspendInv, TypeOK
    <2> QED
      BY <1>9, <2>1, RaisedInv DEF PatchFails
  <1>10. CASE Report
    <2>1. spent' \in 0..Deadline
      BY <1>10, SuspendAssumption DEF Report, InTime, Spend, SuspendInv, TypeOK
    <2> QED
      BY <1>10, <2>1, GoOnInv DEF Report, InLoop, cluster, SuspendInv, TypeOK
  <1>11. CASE PassEnds
    BY <1>11, IdleInv DEF PassEnds
  <1>12. CASE Killed
    BY <1>12, IdleInv DEF Killed
  <1>13. ASSUME NEW j \in Jobs, Fire(j) PROVE SuspendInv'
    BY <1>13, FireInv
  <1>14. CASE Tick
    BY <1>14, TickInv
  <1>15. CASE UNCHANGED vars
    BY <1>15
    DEF vars, cluster, pass, job, SuspendInv, TypeOK, SinceMax, ListingOld, WantJustified,
        InLoop, Overdue
  <1> QED
    BY <1>1, <1>2, <1>3, <1>4, <1>5, <1>6, <1>7, <1>8, <1>9, <1>10, <1>11, <1>12, <1>13,
       <1>14, <1>15
    DEF Next, Controller

LEMMA AlwaysInv == Spec => []SuspendInv
  BY InitInv, NextInv, PTL DEF Spec

----------------------------------------------------------------------------

\* The controller's variables have their types; a Job never runs into more
\* timeouts than its activeDeadlineSeconds allow (cronjob.yaml:17).
THEOREM SuspendTypeCorrect == Spec => []TypeOK
  <1>1. SuspendInv => TypeOK
    BY DEF SuspendInv
  <1> QED
    BY <1>1, AlwaysInv, PTL

\* A step that suspends is a patch, of the item the loop is at.
LEMMA SuspendStep ==
  ASSUME SuspendInv, [Next]_vars, NEW j \in Jobs, suspend'[j], ~suspend[j]
  PROVE  phase = "patch" /\ at = j /\ want /\ since' = since
  <1>1. suspend' # suspend
    OBVIOUS
  <1>2. PatchFails \/ \E i \in Jobs : PatchReturns(i)
    BY <1>1
    DEF Next, Controller, vars, cluster, Begin, Listed, ListFails, SignalReturns,
        SignalUnavailable, SignalGarbled, Decide, Report, PassEnds, Killed, Fire, Tick
  <1>3. phase = "patch" /\ since' = since /\ suspend' \in {suspend, [suspend EXCEPT ![at] = want]}
    BY <1>2 DEF PatchFails, PatchReturns
  <1> QED
    BY <1>1, <1>3 DEF SuspendInv, TypeOK

\* For any number of CronJobs, whatever the cluster does between the listing
\* and the patch: no CronJob is suspended beyond its max-defer window
\* (carbon_suspend.py:100-101).
THEOREM SuspendNeverOverdue == Spec => NoSuspendOverdue
  <1>1. SuspendInv /\ [Next]_vars
          => [\A j \in Jobs : suspend'[j] /\ ~suspend[j] => ~Overdue(j, since[j])]_vars
    <2> SUFFICES ASSUME SuspendInv, [Next]_vars, NEW j \in Jobs, suspend'[j], ~suspend[j]
                 PROVE  ~Overdue(j, since[j])
      OBVIOUS
    <2>1. phase = "patch" /\ at = j /\ want
      BY SuspendStep
    <2>2. ~Overdue(j, listedSince[j])
      BY <2>1 DEF SuspendInv, WantJustified
    <2>3. since[j] <= listedSince[j] /\ since[j] \in Nat /\ listedSince[j] \in Nat
      BY <2>1, SuspendAssumption DEF SuspendInv, ListingOld, InLoop, TypeOK, Jobs
    <2> QED
      BY <2>2, <2>3, SuspendAssumption DEF Overdue
  <1> QED
    BY <1>1, AlwaysInv, PTL DEF Spec, NoSuspendOverdue
============================================================================
