----------------------------- MODULE SLAService -----------------------------
(***************************************************************************)
(* The SLA endpoints of src/carbonlens/sla/routes.py over the Postgres     *)
(* store of sla/repository.py, with the demo SLA of sla/seed.py: requests  *)
(* of several clients and of the hourly cron (.github/workflows/           *)
(* sla-monitor.yml), each with a database session of its own.              *)
(*                                                                         *)
(* An action is the code of one handler between two awaits, with the       *)
(* transaction it commits.  A row of green_slas keeps `active` twice: in a *)
(* column, for filtering, and inside the JSON payload, which is what       *)
(* clients read.  The table sla_checks refers to no other table.  Of the   *)
(* checks of an SLA only the newest is kept here: it is all that decides   *)
(* whether the next one is due.                                            *)
(*                                                                         *)
(* Without a database the store is a dictionary and its calls do not       *)
(* suspend: the steps of a handler between two calls of it are then one.   *)
(***************************************************************************)
EXTENDS Integers, FiniteSets

CONSTANTS
  SLACount,   \* ids, numbered in the order list_active_slas returns them
  Demo,       \* DEMO_SLA_ID
  Jobs,       \* concurrent handlers that check SLAs
  Puts,       \* concurrent PUT handlers
  Frequency,  \* Frequency[s]: FREQUENCY_SECONDS, in ticks
  JobMax,     \* longest handler
  Edited,     \* SLAs that clients PUT
  Reliable,   \* SLAs whose checks do not fail for good
  None

SLAs == 1..SLACount

ASSUME ServiceAssumption ==
  /\ SLACount \in Nat
  /\ Demo \in SLAs
  /\ Frequency \in [SLAs -> Nat \ {0}]
  /\ JobMax \in Nat
  /\ Edited \subseteq SLAs
  /\ Reliable \subseteq SLAs
  /\ None \notin Int \cup BOOLEAN
  /\ None \notin [column : BOOLEAN, payload : BOOLEAN]

VARIABLES
  row,     \* row[s]: the two copies of `active` of SLA s, or None
  unused,  \* ids that uuid4 has not given out
  newest,  \* newest[s]: the age of its newest check, or None
  job,     \* the handlers that check
  put      \* the PUT handlers

vars == <<row, unused, newest, job, put>>

NoJob == [phase |-> "idle", todo |-> {}, sla |-> Demo, age |-> 0, stamp |-> 0]
NoPut == [phase |-> "idle", sla |-> Demo, active |-> FALSE, column |-> FALSE]

Init ==
  /\ row = [s \in SLAs |-> None]
  /\ unused = SLAs \ {Demo}
  /\ newest = [s \in SLAs |-> None]
  /\ job = [j \in Jobs |-> NoJob]
  /\ put = [p \in Puts |-> NoPut]

ActiveRow(active) == [column |-> active, payload |-> active]

Exists(s) == row[s] # None

Active(s) == Exists(s) /\ row[s].column

AgeMax(s) == Frequency[s] + JobMax

----------------------------------------------------------------------------
(* Handlers that check: POST /monitor/run, POST /{id}/check, a POST        *)
(* /{id}/report that finds no checks in its period, and the seed.          *)

JobAt(j, phase) == job[j].phase = phase

SetJob(j, phase) == job' = [job EXCEPT ![j].phase = phase]

\* run_due_checks() reads the clock and lists the active SLAs.
Run(j) ==
  /\ JobAt(j, "idle")
  /\ job' = [job EXCEPT ![j] =
       [phase |-> "look", todo |-> {s \in SLAs : Active(s)}, sla |-> Demo, age |-> 0,
        stamp |-> 0]]
  /\ UNCHANGED <<row, unused, newest, put>>

\* check_sla() and generate_report() load the SLA, or answer 404.
Demand(j, s) ==
  /\ JobAt(j, "idle")
  /\ Exists(s)
  /\ job' = [job EXCEPT ![j] =
       [phase |-> "check", todo |-> {}, sla |-> s, age |-> 0, stamp |-> 0]]
  /\ UNCHANGED <<row, unused, newest, put>>

\* seed_demo_sla() at startup finds no demo SLA.
Seed(j) ==
  /\ JobAt(j, "idle")
  /\ ~Exists(Demo)
  /\ job' = [job EXCEPT ![j] =
       [phase |-> "create", todo |-> {}, sla |-> Demo, age |-> 0, stamp |-> 0]]
  /\ UNCHANGED <<row, unused, newest, put>>

\* It creates it and goes on to its first check.  Another process may have
\* been faster: the insert then breaks the primary key and the seed gives up.
SeedCreate(j) ==
  /\ JobAt(j, "create")
  /\ IF Exists(Demo)
     THEN job' = [job EXCEPT ![j] = NoJob] /\ UNCHANGED row
     ELSE SetJob(j, "check") /\ row' = [row EXCEPT ![Demo] = ActiveRow(TRUE)]
  /\ UNCHANGED <<unused, newest, put>>

\* is_due() of the newest check against the clock the run has read.
IsDue(s, ago) == newest[s] = None \/ newest[s] - ago >= Frequency[s]

\* The next SLA of the run: skipped when it is not due.
Look(j, s) ==
  /\ JobAt(j, "look")
  /\ s \in job[j].todo
  /\ \A other \in job[j].todo : s <= other
  /\ job' = [job EXCEPT ![j].todo = @ \ {s},
                        ![j].phase = IF IsDue(s, job[j].age) THEN "check" ELSE "look",
                        ![j].sla = IF IsDue(s, job[j].age) THEN s ELSE Demo]
  /\ UNCHANGED <<row, unused, newest, put>>

\* The engine's check_sla() returns a check stamped with the time of its return.
CheckReturns(j) ==
  /\ JobAt(j, "check")
  /\ job' = [job EXCEPT ![j].phase = "add", ![j].stamp = 0]
  /\ UNCHANGED <<row, unused, newest, put>>

\* Fault: an exception of one check ends run_due_checks().
CheckRaisesAborts(j) ==
  /\ JobAt(j, "check")
  /\ job' = [job EXCEPT ![j].phase = "look", ![j].todo = {}]
  /\ UNCHANGED <<row, unused, newest, put>>

\* check_sla() raises: a run logs it and goes on, the others end.
CheckRaises(j) ==
  /\ JobAt(j, "check")
  /\ SetJob(j, "look")
  /\ UNCHANGED <<row, unused, newest, put>>

\* Fault: latest_check() goes by the order of the inserts.
LatestInserted(old, new) == new

\* latest_check() goes by checked_at.
Latest(old, new) == IF old = None \/ new <= old THEN new ELSE old

\* add_check() commits the check, whatever became of the SLA meanwhile.
Add(j) ==
  LET s == job[j].sla IN
  /\ JobAt(j, "add")
  /\ newest' = [newest EXCEPT ![s] = Latest(newest[s], job[j].stamp)]
  /\ job' = [job EXCEPT ![j].phase = "look", ![j].sla = Demo, ![j].stamp = 0]
  /\ UNCHANGED <<row, unused, put>>

\* add_check() raises: the commit fails, and leaves the session of the handler
\* waiting for a rollback that nothing does.  A run logs it, and its next
\* latest_check() raises at once, outside of the `try`: so ends the handler,
\* whatever it had still to do.
AddRaises(j) ==
  /\ JobAt(j, "add")
  /\ job' = [job EXCEPT ![j] = NoJob]
  /\ UNCHANGED <<row, unused, newest, put>>

\* The handler answers.
JobReturns(j) ==
  /\ JobAt(j, "look")
  /\ job[j].todo = {}
  /\ job' = [job EXCEPT ![j] = NoJob]
  /\ UNCHANGED <<row, unused, newest, put>>

\* latest_check() raises, which nothing catches; or the host stops.
JobStops(j) ==
  /\ ~JobAt(j, "idle")
  /\ job' = [job EXCEPT ![j] = NoJob]
  /\ UNCHANGED <<row, unused, newest, put>>

----------------------------------------------------------------------------
(* Handlers that change SLAs.                                              *)

\* POST /create, with a new uuid.
Create(s) ==
  /\ s \in unused
  /\ unused' = unused \ {s}
  /\ row' = [row EXCEPT ![s] = ActiveRow(TRUE)]
  /\ UNCHANGED <<newest, job, put>>

\* DELETE: one transaction removes the row, its checks and its reports.
Delete(s) ==
  /\ Exists(s)
  /\ row' = [row EXCEPT ![s] = None]
  /\ newest' = [newest EXCEPT ![s] = None]
  /\ UNCHANGED <<unused, job, put>>

\* PUT loads the SLA and copies it with the fields of the request: a new
\* `active`, or None for a request that names other fields only.
PutLoad(p, s, active) ==
  /\ put[p].phase = "idle"
  /\ Exists(s)
  /\ put' = [put EXCEPT ![p] =
       [phase |-> "loaded", sla |-> s, column |-> FALSE,
        active |-> IF active = None THEN row[s].payload ELSE active]]
  /\ UNCHANGED <<row, unused, newest, job>>

\* update_sla() fetches the row; without one it returns and PUT answers 200.
PutFetch(p) ==
  /\ put[p].phase = "loaded"
  /\ put' = [put EXCEPT ![p] =
       IF ~Exists(put[p].sla) THEN NoPut
       ELSE [phase |-> "fetched", sla |-> put[p].sla, active |-> put[p].active,
             column |-> row[put[p].sla].column]]
  /\ UNCHANGED <<row, unused, newest, job>>

\* What its UPDATE writes: the payload always, the column only when it differs
\* from the value the session has loaded.
Written(p) ==
  [payload |-> put[p].active,
   column |-> IF put[p].active = put[p].column THEN row[put[p].sla].column
              ELSE put[p].active]

\* Fault: the row is inserted when it is gone.
PutCommitUpserts(p) ==
  LET s == put[p].sla IN
  /\ put[p].phase = "fetched"
  /\ put' = [put EXCEPT ![p] = NoPut]
  /\ row' = [row EXCEPT ![s] = IF Exists(s) THEN Written(p) ELSE ActiveRow(put[p].active)]
  /\ UNCHANGED <<unused, newest, job>>

\* The commit.  An UPDATE that finds no row raises, and changes nothing.
PutCommit(p) ==
  LET s == put[p].sla IN
  /\ put[p].phase = "fetched"
  /\ put' = [put EXCEPT ![p] = NoPut]
  /\ row' = [row EXCEPT ![s] = IF Exists(s) THEN Written(p) ELSE None]
  /\ UNCHANGED <<unused, newest, job>>

\* A PUT fails or its process stops before the commit.
PutFails(p) ==
  /\ put[p].phase # "idle"
  /\ put' = [put EXCEPT ![p] = NoPut]
  /\ UNCHANGED <<row, unused, newest, job>>

----------------------------------------------------------------------------
\* Time.  A check counts as old as an SLA's frequency and a handler need.
Older(s) == IF newest[s] \in {None, AgeMax(s)} THEN newest[s] ELSE newest[s] + 1

JobOlder(j) ==
  CASE JobAt(j, "idle") -> job[j]
    [] JobAt(j, "add") -> [job[j] EXCEPT !.age = @ + 1, !.stamp = @ + 1]
    [] OTHER -> [job[j] EXCEPT !.age = @ + 1]

\* Fault: a handler runs on past the timeouts of its requests.
TickAlways ==
  /\ newest' = [s \in SLAs |-> Older(s)]
  /\ job' = [j \in Jobs |-> JobOlder(j)]
  /\ UNCHANGED <<row, unused, put>>

Tick ==
  /\ \A j \in Jobs : ~JobAt(j, "idle") => job[j].age < JobMax
  /\ newest' = [s \in SLAs |-> Older(s)]
  /\ job' = [j \in Jobs |-> JobOlder(j)]
  /\ UNCHANGED <<row, unused, put>>

----------------------------------------------------------------------------

JobStep(j) ==
  \/ SeedCreate(j)
  \/ \E s \in SLAs : Look(j, s)
  \/ CheckReturns(j)
  \/ CheckRaises(j)
  \/ Add(j)
  \/ AddRaises(j)
  \/ JobReturns(j)

Next ==
  \/ \E j \in Jobs : Run(j)
  \/ \E j \in Jobs, s \in SLAs : Demand(j, s)
  \/ \E j \in Jobs : Seed(j)
  \/ \E j \in Jobs : JobStep(j)
  \/ \E j \in Jobs : JobStops(j)
  \/ \E s \in SLAs : Create(s)
  \/ \E s \in SLAs : Delete(s)
  \/ \E p \in Puts, s \in Edited, active \in BOOLEAN \cup {None} : PutLoad(p, s, active)
  \/ \E p \in Puts : PutFetch(p)
  \/ \E p \in Puts : PutCommit(p)
  \/ \E p \in Puts : PutFails(p)
  \/ Tick

\* A handler stops half-way, the database refuses a commit, or the check of a
\* reliable SLA fails.  The other checks may fail each time they are made.
Breakdown ==
  \E j \in Jobs :
    \/ JobStops(j) /\ ~JobStep(j)
    \/ AddRaises(j)
    \/ job[j].sla \in Reliable /\ CheckRaises(j)

\* The cron comes round again and again, handlers end, and breakdowns do not
\* go on for ever: a commit that fails whenever a run comes to it would keep
\* the run from every SLA after that one.
Fairness ==
  /\ WF_vars(Tick)
  /\ SF_vars(\E j \in Jobs : Run(j))
  /\ \A j \in Jobs : WF_vars(JobStep(j))
  /\ <>[][~Breakdown]_vars

Spec == Init /\ [][Next]_vars /\ Fairness

----------------------------------------------------------------------------

\* Every variable has its type; no handler outlives the timeouts of the
\* requests it makes (engine.py:88).
TypeOK ==
  /\ row \in [SLAs -> [column : BOOLEAN, payload : BOOLEAN] \cup {None}]
  /\ unused \subseteq SLAs
  /\ newest \in [SLAs -> Nat \cup {None}]
  /\ job \in [Jobs -> [phase : {"idle", "create", "look", "check", "add"},
                       todo : SUBSET SLAs, sla : SLAs, age : 0..JobMax, stamp : 0..JobMax]]
  /\ put \in [Puts -> [phase : {"idle", "loaded", "fetched"}, sla : SLAs,
                       active : BOOLEAN, column : BOOLEAN]]

\* A deleted SLA stays deleted, whatever PUT was under way: only a create, of
\* an id never used or of the demo SLA by a seed, makes a row
\* (repository.py:130-137).
DeletedStaysDeleted ==
  [][\A s \in SLAs :
       ~Exists(s) /\ Exists(s)' => s \in unused \/ (s = Demo /\ \E j \in Jobs : SeedCreate(j))]_vars

\* Checks that are committed in another order than they were made do not make
\* the newest check of an SLA an older one: a check once seen does not make
\* the SLA due again early (repository.py:165-173).
NewestNeverOlder ==
  [][\A s \in SLAs :
       newest[s] # None /\ newest'[s] # None
         => newest'[s] <= newest[s] \/ Tick]_vars

\* An active SLA that is due is checked, or is no longer active: checks of
\* other SLAs that always fail, now and then a run that stops half-way or a
\* commit that fails and ends it, and overlapping runs do not keep the cron
\* from it (routes.py:205-215).
DueIsChecked ==
  \A s \in Reliable : (Active(s) /\ IsDue(s, 0)) ~> (~Active(s) \/ ~IsDue(s, 0))
============================================================================
