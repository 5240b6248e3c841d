-------------------------- MODULE SLAServiceProofs --------------------------
(***************************************************************************)
(* Types of SLAService, and what the overlapping handlers cannot do: bring *)
(* a deleted SLA back, and make its newest check an older one.             *)
(*                                                                         *)
(* A check is stamped while its handler runs, so the stamp is no older     *)
(* than the handler: that bounds it by the timeouts of the requests.       *)
(***************************************************************************)
EXTENDS SLAService, TLAPS

Rows == [column : BOOLEAN, payload : BOOLEAN]
JobStates == [phase : {"idle", "create", "look", "check", "add"},
              todo : SUBSET SLAs, sla : SLAs, age : 0..JobMax, stamp : 0..JobMax]
PutStates == [phase : {"idle", "loaded", "fetched"}, sla : SLAs,
              active : BOOLEAN, column : BOOLEAN]

\* Stamps are made while the handler runs.
StampInRun == \A j \in Jobs : job[j].stamp <= job[j].age

ServiceInv == TypeOK /\ StampInRun

----------------------------------------------------------------------------

LEMMA NoJobType == NoJob \in JobStates /\ NoJob.stamp <= NoJob.age
  <1>1. 0 \in 0..JobMax /\ Demo \in SLAs
    BY ServiceAssumption
  <1> QED
    BY <1>1 DEF NoJob, JobStates

LEMMA NoPutType == NoPut \in PutStates
  BY ServiceAssumption DEF NoPut, PutStates

LEMMA ActiveRowType ==
  ASSUME NEW a \in BOOLEAN
  PROVE  ActiveRow(a) \in Rows
  BY DEF ActiveRow, Rows

\* What the invariant says of a handler.
LEMMA JobFacts ==
  ASSUME ServiceInv, NEW j \in Jobs
  PROVE  job[j] \in JobStates /\ job[j].stamp <= job[j].age
  BY DEF ServiceInv, TypeOK, StampInRun, JobStates

\* A step of one handler that stores neither a row nor a check.
LEMMA OneJob ==
  ASSUME ServiceInv, NEW j \in Jobs, NEW new \in JobStates, new.stamp <= new.age,
         job' = [job EXCEPT ![j] = new],
         row' \in [SLAs -> Rows \cup {None}], newest' \in [SLAs -> Nat \cup {None}],
         UNCHANGED <<unused, put>>
  PROVE  ServiceInv'
  <1>1. job' \in [Jobs -> JobStates]
    BY DEF ServiceInv, TypeOK, JobStates
  <1>2. \A i \in Jobs : job'[i] = IF i = j THEN new ELSE job[i]
    BY DEF ServiceInv, TypeOK
  <1>3. StampInRun'
    BY <1>2 DEF ServiceInv, StampInRun
  <1>4. TypeOK'
    BY <1>1 DEF ServiceInv, TypeOK, JobStates, Rows
  <1> QED
    BY <1>3, <1>4 DEF ServiceInv

\* A handler begins, or goes on to its next phase without a stamp.
LEMMA JobRecordType ==
  ASSUME NEW p \in {"idle", "create", "look", "check", "add"}, NEW t \in SUBSET SLAs, NEW s \in SLAs
  PROVE  LET new == [phase |-> p, todo |-> t, sla |-> s, age |-> 0, stamp |-> 0]
         IN  new \in JobStates /\ new.stamp <= new.age
  <1>1. 0 \in 0..JobMax
    BY ServiceAssumption
  <1> QED
    BY <1>1 DEF JobStates

LEMMA BeginInv ==
  ASSUME ServiceInv, NEW j \in Jobs, Run(j) \/ (\E s \in SLAs : Demand(j, s)) \/ Seed(j)
  PROVE  ServiceInv'
  <1>1. PICK p \in {"look", "check", "create"}, t \in SUBSET SLAs, s \in SLAs :
           job' = [job EXCEPT ![j] = [phase |-> p, todo |-> t, sla |-> s, age |-> 0, stamp |-> 0]]
    BY ServiceAssumption DEF Run, Demand, Seed
  <1>2. UNCHANGED <<row, unused, newest, put>>
    BY DEF Run, Demand, Seed
  <1> DEFINE new == [phase |-> p, todo |-> t, sla |-> s, age |-> 0, stamp |-> 0]
  <1>3. new \in JobStates /\ new.stamp <= new.age
    BY JobRecordType
  <1>4. job' = [job EXCEPT ![j] = new]
    BY <1>1
  <1> HIDE DEF new
  <1> QED
    BY <1>2, <1>3, <1>4, OneJob DEF ServiceInv, TypeOK, Rows

\* Every other step of a handler keeps its age and its stamp, or resets the stamp.
LEMMA JobGoesOn ==
  ASSUME ServiceInv, NEW j \in Jobs,
         NEW p \in {"idle", "create", "look", "check", "add"}, NEW t \in SUBSET SLAs, NEW s \in SLAs,
         NEW stamp \in {0, job[j].stamp},
         job' = [job EXCEPT ![j].phase = p, ![j].todo = t, ![j].sla = s, ![j].stamp = stamp],
         row' \in [SLAs -> Rows \cup {None}], newest' \in [SLAs -> Nat \cup {None}],
         UNCHANGED <<unused, put>>
  PROVE  ServiceInv'
  <1> DEFINE new == [job[j] EXCEPT !.phase = p, !.todo = t, !.sla = s, !.stamp = stamp]
  <1>1. job[j] \in JobStates /\ job[j].stamp <= job[j].age
    BY JobFacts
  <1>2. stamp \in 0..JobMax /\ stamp <= job[j].age
    BY <1>1, ServiceAssumption DEF JobStates
  <1>3. new \in JobStates /\ new.stamp <= new.age
    BY <1>1, <1>2 DEF JobStates
  <1>4. job' = [job EXCEPT ![j] = new]
    OBVIOUS
  <1> HIDE DEF new
  <1> QED
    BY <1>3, <1>4, OneJob

\* A handler ends.
LEMMA JobEnds ==
  ASSUME ServiceInv, NEW j \in Jobs, job' = [job EXCEPT ![j] = NoJob],
         UNCHANGED <<row, unused, newest, put>>
  PROVE  ServiceInv'
  BY NoJobType, OneJob DEF ServiceInv, TypeOK, Rows

LEMMA SeedCreateInv ==
  ASSUME ServiceInv, NEW j \in Jobs, SeedCreate(j)
  PROVE  ServiceInv'
  <1>1. job[j] \in JobStates
    BY JobFacts
  <1>2. CASE Exists(Demo)
    BY <1>2, JobEnds DEF SeedCreate
  <1>3. CASE ~Exists(Demo)
    <2>1. row' \in [SLAs -> Rows \cup {None}]
      BY <1>3, ActiveRowType DEF SeedCreate, ServiceInv, TypeOK, Rows
    <2>2. job' = [job EXCEPT ![j].phase = "check", ![j].todo = job[j].todo, ![j].sla = job[j].sla,
                             ![j].stamp = job[j].stamp]
      BY <1>1, <1>3 DEF SeedCreate, SetJob, JobStates
    <2>3. job[j].todo \in SUBSET SLAs /\ job[j].sla \in SLAs
      BY <1>1 DEF JobStates
    <2>4. newest' \in [SLAs -> Nat \cup {None}] /\ UNCHANGED <<unused, put>>
      BY DEF SeedCreate, ServiceInv, TypeOK
    <2> QED
      BY <2>1, <2>2, <2>3, <2>4, JobGoesOn
  <1> QED
    BY <1>2, <1>3

\* The steps that change the handler alone.
LEMMA HandlerInv ==
  ASSUME ServiceInv, NEW j \in Jobs,
         (\E s \in SLAs : Look(j, s)) \/ CheckReturns(j) \/ CheckRaises(j)
  PROVE  ServiceInv'
  <1>1. job[j] \in JobStates /\ job[j].todo \in SUBSET SLAs /\ job[j].sla \in SLAs
    BY JobFacts DEF JobStates
  <1>2. PICK p \in {"look", "check", "add"}, t \in SUBSET SLAs, s \in SLAs, stamp \in {0, job[j].stamp} :
           job' = [job EXCEPT ![j].phase = p, ![j].todo = t, ![j].sla = s, ![j].stamp = stamp]
    <2>1. ASSUME NEW s \in SLAs, Look(j, s)
          PROVE  \E p \in {"look", "check"} : \E o \in {s, Demo} :
                   job' = [job EXCEPT ![j].phase = p, ![j].todo = job[j].todo \ {s}, ![j].sla = o,
                                      ![j].stamp = job[j].stamp]
      <3>1. CASE IsDue(s, job[j].age)
        <4>1. job' = [job EXCEPT ![j].phase = "check", ![j].todo = job[j].todo \ {s}, ![j].sla = s,
                                 ![j].stamp = job[j].stamp]
          BY <1>1, <2>1, <3>1 DEF Look, JobStates
        <4> QED
          BY <4>1
      <3>2. CASE ~IsDue(s, job[j].age)
        <4>1. job' = [job EXCEPT ![j].phase = "look", ![j].todo = job[j].todo \ {s}, ![j].sla = Demo,
                                 ![j].stamp = job[j].stamp]
          BY <1>1, <2>1, <3>2 DEF Look, JobStates
        <4> QED
          BY <4>1
      <3> QED
        BY <3>1, <3>2
    <2>2. CASE CheckReturns(j)
      <3>1. job' = [job EXCEPT ![j].phase = "add", ![j].todo = job[j].todo, ![j].sla = job[j].sla,
                               ![j].stamp = 0]
        BY <1>1, <2>2 DEF CheckReturns, JobStates
      <3> QED
        BY <1>1, <3>1
    <2>3. CASE CheckRaises(j)
      <3>1. job' = [job EXCEPT ![j].phase = "look", ![j].todo = job[j].todo, ![j].sla = job[j].sla,
                               ![j].stamp = job[j].stamp]
        BY <1>1, <2>3 DEF CheckRaises, SetJob, JobStates
      <3> QED
        BY <1>1, <3>1
    <2>4. ASSUME NEW s \in SLAs, Look(j, s)
          PROVE  \E p \in {"look", "check", "add"}, t \in SUBSET SLAs, o \in SLAs, stamp \in {0, job[j].stamp} :
                   job' = [job EXCEPT ![j].phase = p, ![j].todo = t, ![j].sla = o, ![j].stamp = stamp]
      <3>1. PICK p \in {"look", "check"}, o \in {s, Demo} :
               job' = [job EXCEPT ![j].phase = p, ![j].todo = job[j].todo \ {s}, ![j].sla = o,
                                  ![j].stamp = job[j].stamp]
        BY <2>1, <2>4
      <3>2. job[j].todo \ {s} \in SUBSET SLAs /\ o \in SLAs
        BY <1>1, ServiceAssumption
      <3> QED
        BY <3>1, <3>2
    <2> QED
      BY <2>2, <2>3, <2>4
  <1>3. UNCHANGED <<row, unused, newest, put>>
    BY DEF Look, CheckReturns, CheckRaises
  <1> QED
    BY <1>2, <1>3, JobGoesOn DEF ServiceInv, TypeOK, Rows

LEMMA AddInv ==
  ASSUME ServiceInv, NEW j \in Jobs, Add(j)
  PROVE  ServiceInv'
  <1>1. job[j] \in JobStates /\ job[j].todo \in SUBSET SLAs /\ job[j].sla \in SLAs /\ job[j].stamp \in Nat
    BY JobFacts, ServiceAssumption DEF JobStates
  <1>2. job' = [job EXCEPT ![j].phase = "look", ![j].todo = job[j].todo, ![j].sla = Demo, ![j].stamp = 0]
    BY <1>1 DEF Add, JobStates
  <1>3. newest' \in [SLAs -> Nat \cup {None}]
    <2>1. newest[job[j].sla] \in Nat \cup {None}
      BY <1>1 DEF ServiceInv, TypeOK
    <2>2. Latest(newest[job[j].sla], job[j].stamp) \in Nat \cup {None}
      BY <1>1, <2>1 DEF Latest
    <2> QED
      BY <2>2 DEF Add, ServiceInv, TypeOK
  <1>4. row' \in [SLAs -> Rows \cup {None}] /\ UNCHANGED <<unused, put>>
    BY DEF Add, ServiceInv, TypeOK, Rows
  <1> QED
    BY <1>1, <1>2, <1>3, <1>4, ServiceAssumption, JobGoesOn

\* The steps of the handlers that change SLAs.
LEMMA RowsInv ==
  ASSUME ServiceInv,
         \/ \E s \in SLAs : Create(s) \/ Delete(s)
         \/ \E p \in Puts : PutCommit(p)
  PROVE  ServiceInv'
  <1>1. CASE \E s \in SLAs : Create(s)
    <2>1. row' \in [SLAs -> Rows \cup {None}] /\ unused' \subseteq SLAs
      <3>1. PICK s \in SLAs : Create(s)
        BY <1>1
      <3>2. row \in [SLAs -> Rows \cup {None}] /\ unused \subseteq SLAs
        BY DEF ServiceInv, TypeOK, Rows
      <3>3. ActiveRow(TRUE) \in Rows \cup {None}
        BY ActiveRowType
      <3> QED
        BY <3>1, <3>2, <3>3 DEF Create
    <2>2. UNCHANGED <<newest, job, put>>
      BY <1>1 DEF Create
    <2> QED
      BY <2>1, <2>2 DEF ServiceInv, TypeOK, StampInRun, Rows
  <1>2. CASE \E s \in SLAs : Delete(s)
    <2>1. row' \in [SLAs -> Rows \cup {None}] /\ newest' \in [SLAs -> Nat \cup {None}]
      BY <1>2 DEF Delete, ServiceInv, TypeOK, Rows
    <2>2. UNCHANGED <<unused, job, put>>
      BY <1>2 DEF Delete
    <2> QED
      BY <2>1, <2>2 DEF ServiceInv, TypeOK, StampInRun, Rows
  <1>3. ASSUME NEW p \in Puts, PutCommit(p)
        PROVE  ServiceInv'
    <2> DEFINE s == put[p].sla
    <2>1. put[p] \in PutStates /\ s \in SLAs /\ row[s] \in Rows \cup {None}
      BY DEF ServiceInv, TypeOK, PutStates, Rows
    <2>2. Exists(s) => Written(p) \in Rows
      <3>1. Exists(s) => row[s].column \in BOOLEAN
        BY <2>1 DEF Exists, Rows
      <3>2. put[p].active \in BOOLEAN
        BY <2>1 DEF PutStates
      <3> QED
        BY <3>1, <3>2 DEF Written, Rows
    <2>3. row' \in [SLAs -> Rows \cup {None}]
      <3> DEFINE n == IF Exists(s) THEN Written(p) ELSE None
      <3>1. n \in Rows \cup {None}
        BY <2>2
      <3>2. row' = [row EXCEPT ![s] = n] /\ row \in [SLAs -> Rows \cup {None}]
        BY <1>3 DEF PutCommit, ServiceInv, TypeOK, Rows
      <3> HIDE DEF n, s
      <3> QED
        BY <3>1, <3>2
    <2>4. put' \in [Puts -> PutStates]
      BY <1>3, NoPutType DEF PutCommit, ServiceInv, TypeOK, PutStates
    <2>5. UNCHANGED <<unused, newest, job>>
      BY <1>3 DEF PutCommit
    <2> QED
      BY <2>3, <2>4, <2>5 DEF ServiceInv, TypeOK, StampInRun, Rows, PutStates
  <1> QED
    BY <1>1, <1>2, <1>3

\* The steps of a PUT before its commit.
LEMMA PutInv ==
  ASSUME ServiceInv, NEW p \in Puts,
         \/ \E s \in Edited, active \in BOOLEAN \cup {None} : PutLoad(p, s, active)
         \/ PutFetch(p) \/ PutFails(p)
  PROVE  ServiceInv'
  <1>1. UNCHANGED <<row, unused, newest, job>>
    BY DEF PutLoad, PutFetch, PutFails
  <1>2. put' \in [Puts -> PutStates]
    <2>1. put \in [Puts -> PutStates] /\ put[p] \in PutStates /\ row \in [SLAs -> Rows \cup {None}]
      BY DEF ServiceInv, TypeOK, PutStates, Rows
    <2>2. ASSUME NEW s \in Edited, NEW active \in BOOLEAN \cup {None}, PutLoad(p, s, active)
          PROVE  put' \in [Puts -> PutStates]
      <3> DEFINE a == IF active = None THEN row[s].payload ELSE active
                 new == [phase |-> "loaded", sla |-> s, column |-> FALSE, active |-> a]
      <3>1. s \in SLAs /\ row[s] \in Rows
        BY <2>1, <2>2, ServiceAssumption DEF PutLoad, Exists
      <3>2. a \in BOOLEAN
        <4>1. row[s].payload \in BOOLEAN
          BY <3>1 DEF Rows
        <4> QED
          BY <4>1
      <3> HIDE DEF a
      <3>3. new \in PutStates
        BY <3>1, <3>2 DEF PutStates
      <3>4. put' = [put EXCEPT ![p] = new]
        BY <2>2 DEF PutLoad, a
      <3> HIDE DEF new
      <3> QED
        BY <2>1, <3>3, <3>4
    <2>3. CASE PutFetch(p)
      <3> DEFINE s == put[p].sla
                 new == IF ~Exists(s) THEN NoPut
                        ELSE [phase |-> "fetched", sla |-> s, active |-> put[p].active,
                              column |-> row[s].column]
      <3>1. s \in SLAs /\ put[p].active \in BOOLEAN
        BY <2>1 DEF PutStates
      <3>2. Exists(s) => row[s].column \in BOOLEAN
        BY <2>1, <3>1 DEF Exists, Rows
      <3>3. new \in PutStates
        BY <3>1, <3>2, NoPutType DEF PutStates
      <3>4. put' = [put EXCEPT ![p] = new]
        BY <2>3 DEF PutFetch
      <3> HIDE DEF new
      <3> QED
        BY <2>1, <3>3, <3>4
    <2>4. CASE PutFails(p)
      BY <2>1, <2>4, NoPutType DEF PutFails
    <2> QED
      BY <2>2, <2>3, <2>4
  <1> QED
    BY <1>1, <1>2 DEF ServiceInv, TypeOK, StampInRun, Rows, PutStates

\* No handler gets older than JobMax, nor its stamp older than it.
LEMMA TickInv ==
  ASSUME ServiceInv, Tick
  PROVE  ServiceInv'
  <1>1. newest' \in [SLAs -> Nat \cup {None}]
    <2>1. ASSUME NEW s \in SLAs PROVE Older(s) \in Nat \cup {None}
      BY DEF Older, ServiceInv, TypeOK
    <2> QED
      BY <2>1 DEF Tick
  <1>2. ASSUME NEW j \in Jobs PROVE JobOlder(j) \in JobStates /\ JobOlder(j).stamp <= JobOlder(j).age
    <2>1. /\ job[j] \in JobStates /\ job[j].stamp <= job[j].age
          /\ job[j].age \in 0..JobMax /\ job[j].stamp \in 0..JobMax
      BY JobFacts DEF JobStates
    <2>2. CASE JobAt(j, "idle")
      <3>1. ~JobAt(j, "add")
        BY <2>2 DEF JobAt
      <3>2. JobOlder(j) = job[j]
        BY <2>2, <3>1 DEF JobOlder
      <3> QED
        BY <2>1, <3>2
    <2>3. CASE ~JobAt(j, "idle")
      <3> DEFINE older == job[j].age + 1
                 stamp == job[j].stamp + 1
      <3>1. /\ older \in 0..JobMax /\ stamp \in 0..JobMax
            /\ stamp <= older /\ job[j].stamp <= older
        BY <2>1, <2>3, ServiceAssumption DEF Tick
      <3>2. JobOlder(j) \in {[job[j] EXCEPT !.age = older, !.stamp = stamp],
                             [job[j] EXCEPT !.age = older]}
        BY <2>3 DEF JobOlder
      <3> HIDE DEF older, stamp
      <3> QED
        BY <2>1, <3>1, <3>2 DEF JobStates
    <2> QED
      BY <2>2, <2>3
  <1>3. job' = [j \in Jobs |-> JobOlder(j)] /\ UNCHANGED <<row, unused, put>>
    BY DEF Tick
  <1>4. job' \in [Jobs -> JobStates] /\ StampInRun'
    BY <1>2, <1>3 DEF StampInRun
  <1> QED
    BY <1>1, <1>3, <1>4 DEF ServiceInv, TypeOK, Rows, JobStates, PutStates

LEMMA InitInv == Init => ServiceInv
  <1> SUFFICES ASSUME Init PROVE ServiceInv
    OBVIOUS
  <1>1. job \in [Jobs -> JobStates] /\ StampInRun
    BY NoJobType DEF Init, StampInRun
  <1>2. put \in [Puts -> PutStates]
    BY NoPutType DEF Init
  <1> QED
    BY <1>1, <1>2 DEF Init, ServiceInv, TypeOK, JobStates, PutStates

LEMMA NextInv == ServiceInv /\ [Next]_vars => ServiceInv'
  <1> SUFFICES ASSUME ServiceInv, [Next]_vars PROVE ServiceInv'
    OBVIOUS
  <1>1. ASSUME NEW j \in Jobs, Run(j) \/ (\E s \in SLAs : Demand(j, s)) \/ Seed(j) PROVE ServiceInv'
    BY <1>1, BeginInv
  <1>2. ASSUME NEW j \in Jobs, JobStep(j) PROVE ServiceInv'
    <2>1. CASE SeedCreate(j)
      BY <2>1, SeedCreateInv
    <2>2. CASE (\E s \in SLAs : Look(j, s)) \/ CheckReturns(j) \/ CheckRaises(j)
      BY <2>2, HandlerInv
    <2>3. CASE Add(j)
      BY <2>3, AddInv
    <2>4. CASE AddRaises(j) \/ JobReturns(j)
      BY <2>4, JobEnds DEF AddRaises, JobReturns
    <2> QED
      BY <1>2, <2>1, <2>2, <2>3, <2>4 DEF JobStep
  <1>3. ASSUME NEW j \in Jobs, JobStops(j) PROVE ServiceInv'
    BY <1>3, JobEnds DEF JobStops
  <1>4. CASE (\E s \in SLAs : Create(s) \/ Delete(s)) \/ (\E p \in Puts : PutCommit(p))
    BY <1>4, RowsInv
  <1>5. ASSUME NEW p \in Puts,
               \/ \E s \in Edited, active \in BOOLEAN \cup {None} : PutLoad(p, s, active)
               \/ PutFetch(p) \/ PutFails(p)
        PROVE  ServiceInv'
    BY <1>5, PutInv
  <1>6. CASE Tick
    BY <1>6, TickInv
  <1>7. CASE UNCHANGED vars
    BY <1>7 DEF vars, ServiceInv, TypeOK, StampInRun
  <1> QED
    BY <1>1, <1>2, <1>3, <1>4, <1>5, <1>6, <1>7 DEF Next

(***************************************************************************)
(* The variables have their types; no handler, and no stamp, gets older    *)
(* than the timeouts of its requests (engine.py:88).                       *)
(***************************************************************************)
THEOREM ServiceTypeCorrect == Spec => []TypeOK
  <1>1. ServiceInv => TypeOK
    BY DEF ServiceInv
  <1> QED
    BY InitInv, NextInv, <1>1, PTL DEF Spec

----------------------------------------------------------------------------

Revived(s) == ~Exists(s) /\ Exists(s)'

\* Where a row appears, it was created.
LEMMA RowAppears ==
  ASSUME ServiceInv, [Next]_vars, NEW s \in SLAs, Revived(s)
  PROVE  s \in unused \/ (s = Demo /\ \E j \in Jobs : SeedCreate(j))
  <1>1. row \in [SLAs -> Rows \cup {None}] /\ row[s] = None /\ row'[s] # None
    BY DEF Revived, Exists, ServiceInv, TypeOK, Rows
  <1>2. row' # row
    BY <1>1
  <1>3. CASE \E j \in Jobs : SeedCreate(j)
    <2>1. s = Demo
      BY <1>1, <1>3, ServiceAssumption DEF SeedCreate
    <2> QED
      BY <1>3, <2>1
  <1>4. ASSUME NEW t \in SLAs, Create(t) PROVE s \in unused
    BY <1>1, <1>4 DEF Create
  <1>5. ASSUME NEW t \in SLAs, Delete(t) PROVE FALSE
    BY <1>1, <1>5 DEF Delete
  <1>6. ASSUME NEW p \in Puts, PutCommit(p) PROVE FALSE
    <2>1. put[p].sla \in SLAs
      BY DEF ServiceInv, TypeOK
    <2>2. CASE put[p].sla = s
      BY <1>1, <1>6, <2>2 DEF PutCommit, Exists
    <2>3. CASE put[p].sla # s
      BY <1>1, <1>6, <2>3 DEF PutCommit
    <2> QED
      BY <2>2, <2>3
  <1> QED
    BY <1>2, <1>3, <1>4, <1>5, <1>6
    DEF Next, vars, Run, Demand, Seed, JobStep, Look, CheckReturns, CheckRaises, Add, AddRaises,
        JobReturns, JobStops, PutLoad, PutFetch, PutFails, Tick

(***************************************************************************)
(* A deleted SLA stays deleted, for any number of handlers: no PUT that    *)
(* was under way brings its row back (repository.py:130-137).              *)
(***************************************************************************)
THEOREM ServiceDeletedStaysDeleted == Spec => DeletedStaysDeleted
  <1>1. ServiceInv /\ [Next]_vars =>
          [\A s \in SLAs :
             ~Exists(s) /\ Exists(s)' => s \in unused \/ (s = Demo /\ \E j \in Jobs : SeedCreate(j))]_vars
    BY RowAppears DEF Revived
  <1> QED
    BY InitInv, NextInv, <1>1, PTL DEF Spec, DeletedStaysDeleted

\* Where the newest check of an SLA changes, it is a newer one, or time passes.
LEMMA NewestReplaced ==
  ASSUME ServiceInv, [Next]_vars, NEW s \in SLAs, newest[s] # None, newest'[s] # None
  PROVE  newest'[s] <= newest[s] \/ Tick
  <1>1. newest \in [SLAs -> Nat \cup {None}] /\ newest[s] \in Nat
    BY DEF ServiceInv, TypeOK
  <1>2. ASSUME NEW j \in Jobs, Add(j) PROVE newest'[s] <= newest[s]
    <2>1. job[j].sla \in SLAs /\ job[j].stamp \in Nat
      BY JobFacts, ServiceAssumption DEF JobStates
    <2>2. CASE job[j].sla = s
      <3>1. newest'[s] = Latest(newest[s], job[j].stamp)
        BY <1>1, <1>2, <2>2 DEF Add
      <3> QED
        BY <1>1, <2>1, <3>1 DEF Latest
    <2>3. CASE job[j].sla # s
      BY <1>1, <1>2, <2>3 DEF Add
    <2> QED
      BY <2>2, <2>3
  <1>3. ASSUME NEW t \in SLAs, Delete(t) PROVE newest'[s] <= newest[s]
    BY <1>1, <1>3 DEF Delete
  <1>4. CASE newest' = newest
    BY <1>1, <1>4
  <1> QED
    BY <1>2, <1>3, <1>4
    DEF Next, vars, Run, Demand, Seed, JobStep, SeedCreate, Look, CheckReturns, CheckRaises, AddRaises,
        JobReturns, JobStops, Create, PutLoad, PutFetch, PutCommit, PutFails

(***************************************************************************)
(* Whatever the order in which overlapping handlers commit their checks,   *)
(* the newest check of an SLA only grows old by time (repository.py:165).  *)
(***************************************************************************)
THEOREM ServiceNewestNeverOlder == Spec => NewestNeverOlder
  <1>1. ServiceInv /\ [Next]_vars =>
          [\A s \in SLAs : newest[s] # None /\ newest'[s] # None
                             => newest'[s] <= newest[s] \/ Tick]_vars
    BY NewestReplaced
  <1> QED
    BY InitInv, NextInv, <1>1, PTL DEF Spec, NewestNeverOlder
============================================================================
