------------------------ MODULE WaitingClientsProofs ------------------------
(***************************************************************************)
(* WaitingClients implements Deferral, for all numbers of jobs, deadlines, *)
(* poll intervals, numbers of restarts and forecasts; and what a clean     *)
(* start rests on is recent.                                               *)
(*                                                                         *)
(* A poll is only slept over before the deadline, so a round of polls      *)
(* takes no more than Round.  A restart begins another round, and adds it  *)
(* to what the client may spend: Timely relates what a job has waited, and *)
(* what is left of its sleep, to the rounds it had.                        *)
(***************************************************************************)
EXTENDS WaitingClients, TLAPS, WellFoundedInduction

Phases == {"asked", "waiting", "ran", "failed"}
Reasons == {"none", "clean", "planned", "deadline"}
JobRecords ==
    [phase : Phases, waited : Nat, elapsed : Nat, left : Nat, restarts : Nat, why : Reasons]

ClientTypes == kind \in [Jobs -> Kinds] /\ job \in [Jobs -> JobRecords]

PollingKinds == {"sdk", "sdk_cdn", "airflow"}
Round == MaxWait + Poll
Budget(restarts) == (restarts + 1) * Round
RestartsOf(k) == IF k = "airflow" THEN MaxRestarts ELSE 0

\* A poller before its deadline has a whole round of its budget before it.
InBudget(k, r) ==
    /\ r.elapsed <= r.waited
    /\ r.restarts <= RestartsOf(k)
    /\ r.waited + r.left <= Budget(r.restarts)
    /\ r.elapsed < MaxWait => r.waited + Round <= Budget(r.restarts) + r.elapsed

Timely(k, r) ==
    /\ r.phase = "asked" => r.waited = 0 /\ r.elapsed = 0 /\ r.left = 0 /\ r.restarts = 0
    /\ r.phase = "waiting" /\ k \in PollingKinds => InBudget(k, r)
    /\ r.phase = "waiting" /\ k \notin PollingKinds => r.waited + r.left <= MaxWait

JobsTimely == \A j \in Jobs : Timely(kind[j], job[j])

ClientInv == ClientTypes /\ JobsTimely

----------------------------------------------------------------------------
(* Arithmetic and choices.                                                 *)

\* Least takes the smaller of two numbers.
LEMMA LeastOfTwo ==
  ASSUME NEW a \in Int, NEW b \in Int
  PROVE  /\ Least({a, b}) = IF a <= b THEN a ELSE b
  <1> DEFINE m == IF a <= b THEN a ELSE b
  <1>1. m \in {a, b} /\ \A y \in {a, b} : m <= y
    OBVIOUS
  <1>2. \A x \in {a, b} : (\A y \in {a, b} : x <= y) => x = m
    OBVIOUS
  <1> QED
    BY <1>1, <1>2 DEF Least

\* Greatest is no less than either of two numbers.
LEMMA GreatestOfTwo ==
  ASSUME NEW a \in Int, NEW b \in Int
  PROVE  Greatest({a, b}) \in {a, b} /\ a <= Greatest({a, b}) /\ b <= Greatest({a, b})
  <1> DEFINE m == IF a >= b THEN a ELSE b
  <1>1. m \in {a, b} /\ \A y \in {a, b} : m >= y
    OBVIOUS
  <1>2. PICK x \in {a, b} : x = Greatest({a, b}) /\ \A y \in {a, b} : x >= y
    BY <1>1 DEF Greatest
  <1> QED
    BY <1>2

\* The first round is the budget without restarts; a restart adds a round.
LEMMA BudgetGrows ==
  /\ Round \in Nat
  /\ Budget(0) = Round
  /\ \A r \in Nat : Budget(r) \in Nat /\ Budget(r + 1) = Budget(r) + Round
  <1>1. Round \in Nat
    BY WaitingAssumption DEF Round
  <1>2. \A r \in Nat, d \in Nat : (r + 1) * d \in Nat /\ (r + 1 + 1) * d = (r + 1) * d + d
    OBVIOUS
  <1>3. \A d \in Nat : (0 + 1) * d = d
    OBVIOUS
  <1> HIDE DEF Round
  <1> QED
    BY <1>1, <1>2, <1>3 DEF Budget

\* More restarts are a larger budget.
LEMMA BudgetMonotone ==
  ASSUME NEW r \in Nat, NEW m \in Nat, r <= m
  PROVE  Budget(r) <= Budget(m)
  <1>1. Round \in Nat
    BY BudgetGrows
  <1> HIDE DEF Round
  <1>2. PICK e \in Nat : m = r + e
    <2>1. m - r \in Nat /\ m = r + (m - r)
      OBVIOUS
    <2> QED
      BY <2>1
  <1>3. \A d \in Nat : (r + e + 1) * d = (r + 1) * d + e * d /\ e * d \in Nat /\ (r + 1) * d \in Nat
    BY <1>2
  <1>4. Budget(m) = Budget(r) + e * Round /\ e * Round \in Nat /\ Budget(r) \in Nat
    BY <1>1, <1>2, <1>3 DEF Budget
  <1> QED
    BY <1>4

\* A poller within its budget is within the patience of its kind.
LEMMA PatienceBounds ==
  ASSUME NEW k \in Kinds, NEW r \in JobRecords, Timely(k, r), r.phase = "waiting"
  PROVE  PatienceOf(k) \in Nat /\ r.waited + r.left <= PatienceOf(k)
  <1>1. CASE k \in PollingKinds
    <2>1. InBudget(k, r)
      BY <1>1 DEF Timely
    <2>2. RestartsOf(k) \in Nat /\ r.restarts \in Nat
      BY WaitingAssumption DEF RestartsOf, JobRecords
    <2>3. Budget(r.restarts) <= Budget(RestartsOf(k)) /\ Budget(r.restarts) \in Nat
          /\ Budget(RestartsOf(k)) \in Nat
      BY <2>1, <2>2, BudgetMonotone, BudgetGrows DEF InBudget
    <2>4. PatienceOf(k) = Budget(RestartsOf(k))
      <3>1. CASE k = "airflow"
        BY <3>1 DEF PatienceOf, Budget, RestartsOf, Round
      <3>2. CASE k \in {"sdk", "sdk_cdn"}
        <4>1. PatienceOf(k) = Round /\ RestartsOf(k) = 0
          BY <3>2 DEF PatienceOf, Round, RestartsOf
        <4> QED
          BY <4>1, BudgetGrows
      <3> QED
        BY <1>1, <3>1, <3>2 DEF PollingKinds
    <2> QED
      BY <2>1, <2>3, <2>4 DEF InBudget, JobRecords
  <1>2. CASE k \notin PollingKinds
    <2>1. PatienceOf(k) = MaxWait
      BY <1>2 DEF PatienceOf, PollingKinds, Kinds
    <2> QED
      BY <1>2, <2>1, WaitingAssumption DEF Timely
  <1> QED
    BY <1>1, <1>2

\* The patience of a kind of client is a number.
LEMMA PatienceType ==
  ASSUME NEW k \in Kinds
  PROVE  PatienceOf(k) \in Nat
  <1>1. CASE k = "airflow"
    <2>1. PatienceOf(k) = Budget(MaxRestarts)
      BY <1>1 DEF PatienceOf, Budget, Round
    <2> QED
      BY <2>1, BudgetGrows, WaitingAssumption
  <1>2. CASE k # "airflow"
    BY <1>2, WaitingAssumption DEF PatienceOf, Kinds
  <1> QED
    BY <1>1, <1>2

----------------------------------------------------------------------------
(* What Celery and the command line plan.                                  *)

\* A countdown is never longer than the caller agreed to.
LEMMA CountdownBounded ==
  ASSUME NEW s \in DirtySignals \cup {CleanSignal}
  PROVE  DeferHours(s, None, MaxWait) \in Nat /\ DeferHours(s, None, MaxWait) <= MaxWait
  <1>1. CASE IsGoodTime(s, None)
    BY <1>1, WaitingAssumption DEF DeferHours
  <1>2. CASE ~IsGoodTime(s, None)
    <2> DEFINE h == SoonestCleanWindowHours(s, MaxWait)
    <2>1. s.surplusWindow = -1 /\ s.windowHours \in Nat \cup {-1}
      BY WaitingAssumption DEF DirtySignals, CleanSignal, None
    <2>2. h \in Nat
      BY <2>1, WaitingAssumption DEF SoonestCleanWindowHours
    <2>3. DeferHours(s, None, MaxWait) = Least({h, MaxWait})
      BY <1>2 DEF DeferHours
    <2> HIDE DEF h
    <2> QED
      BY <2>2, <2>3, LeastOfTwo, WaitingAssumption
  <1> QED
    BY <1>1, <1>2

\* A clean signal is not waited for.
LEMMA CleanNotDeferred == DeferHours(CleanSignal, None, MaxWait) = 0
  BY DEF DeferHours, IsGoodTime, UnderCap, CleanSignal

\* Of finitely or infinitely many numbers one is the least.
LEMMA LeastExists ==
  ASSUME NEW S \in SUBSET Nat, S # {}
  PROVE  Least(S) \in S /\ \A y \in S : Least(S) <= y
  <1>1. PICK x \in S : \A y \in S : <<y, x>> \notin OpToRel(<, Nat)
    BY WFMin, NatLessThanWellFounded
  <1>2. \A y \in S : ~(y < x)
    BY <1>1 DEF OpToRel
  <1>3. \A y \in S : x <= y
    BY <1>2
  <1> QED
    BY <1>3 DEF Least

\* The cleanest hour of a window is one of its hours.
LEMMA CleanestInWindow ==
  ASSUME NEW w \in Seq(Nat), w # <<>>
  PROVE  CleanestHour(w) \in 0 .. Len(w) - 1
  <1> DEFINE Values == {w[i] : i \in 1 .. Len(w)}
             Hours == {h \in 0 .. Len(w) - 1 : \A k \in 1 .. Len(w) : w[h + 1] <= w[k]}
  <1>1. Values \in SUBSET Nat /\ Values # {}
    OBVIOUS
  <1>2. PICK i \in 1 .. Len(w) : \A k \in 1 .. Len(w) : w[i] <= w[k]
    <2>1. PICK m \in Values : \A y \in Values : m <= y
      <3> HIDE DEF Values
      <3> QED
        BY <1>1, LeastExists
    <2> QED
      BY <2>1
  <1>3. i - 1 \in Hours
    BY <1>2
  <1>4. Hours \in SUBSET Nat
    OBVIOUS
  <1>5. Least(Hours) \in Hours
    BY <1>3, <1>4, LeastExists
  <1> QED
    BY <1>5 DEF CleanestHour

\* The hour that `carbonlens run` plans is one the caller agreed to wait for.
LEMMA PlanBounded ==
  ASSUME NEW f \in Forecasts
  PROVE  LET plan == ChooseRunIndex(f, None, MaxWait, {}, MinSavings)
         IN  plan.hour \in Nat /\ plan.hour <= MaxWait
  <1> DEFINE w == Window(f, MaxWait)
  <1>1. f \in Seq(Nat) /\ MaxWait \in Nat
    BY WaitingAssumption
  <1>2. w \in Seq(Nat) /\ Len(w) <= MaxWait + 1
    <2>1. Least({Len(f), MaxWait + 1}) \in Nat /\ Least({Len(f), MaxWait + 1}) <= MaxWait + 1
          /\ Least({Len(f), MaxWait + 1}) <= Len(f)
      BY <1>1, LeastOfTwo
    <2> DEFINE n == Least({Len(f), MaxWait + 1})
    <2> HIDE DEF n
    <2>2. SubSeq(f, 1, n) \in Seq(Nat) /\ Len(SubSeq(f, 1, n)) = n
      <3>1. n \in Nat /\ n <= Len(f)
        BY <2>1 DEF n
      <3>2. SubSeq(f, 1, n) = [i \in 1 .. n |-> f[i]]
        BY <1>1, <3>1, SMT
      <3> QED
        BY <1>1, <3>1, <3>2
    <2> QED
      BY <2>1, <2>2 DEF Window, n
  <1>3. CASE w = <<>>
    BY <1>1, <1>3 DEF ChooseRunIndex
  <1>4. CASE w # <<>>
    <2>1. CleanestHour(w) \in 0 .. Len(w) - 1
      BY <1>2, <1>4, CleanestInWindow
    <2>2. ChooseRunIndex(f, None, MaxWait, {}, MinSavings).hour \in {0, CleanestHour(w)}
      BY <1>4 DEF ChooseRunIndex
    <2> QED
      BY <1>1, <1>2, <2>1, <2>2
  <1> QED
    BY <1>3, <1>4

----------------------------------------------------------------------------
(* Each step, with what Deferral makes of it.  A client's step replaces    *)
(* one record: Timely is kept if the new record is timely.                 *)

\* A step that replaces the record of one job by a timely one.
LEMMA OneJob ==
  ASSUME ClientInv, NEW j \in Jobs, NEW new \in JobRecords, Timely(kind[j], new),
         job' = [job EXCEPT ![j] = new], UNCHANGED kind
  PROVE  ClientInv'
  <1>1. ClientTypes'
    BY DEF ClientInv, ClientTypes
  <1>2. ASSUME NEW i \in Jobs PROVE Timely(kind[i], job[i])'
    <2>1. kind' = kind /\ (job[i])' = IF i = j THEN new ELSE job[i]
      BY DEF ClientInv, ClientTypes
    <2>2. Timely(kind[i], job[i])
      BY DEF ClientInv, JobsTimely
    <2>3. Timely(kind[i], (job[i])')
      BY <2>1, <2>2
    <2>4. Timely(kind[i], (job[i])') = Timely(kind'[i], (job[i])')
      BY <2>1
    <2> QED
      BY <2>3, <2>4 DEF Timely, InBudget
  <1> QED
    BY <1>1, <1>2 DEF ClientInv, JobsTimely

\* A record that was started or given up is timely whatever its numbers.
LEMMA EndedTimely ==
  ASSUME NEW k, NEW r, r.phase \in {"ran", "failed"}
  PROVE  Timely(k, r)
  BY DEF Timely

\* What the invariant says of one job.
LEMMA JobFacts ==
  ASSUME ClientInv, NEW j \in Jobs
  PROVE  job[j] \in JobRecords /\ kind[j] \in Kinds /\ Timely(kind[j], job[j])
  BY DEF ClientInv, ClientTypes, JobsTimely

\* Where no job's phase, wait or reason changes, Deferral stutters.
LEMMA Stutters ==
  ASSUME UNCHANGED kind,
         \A j \in Jobs : /\ job'[j].phase = job[j].phase
                         /\ job'[j].waited = job[j].waited
                         /\ job'[j].why = job[j].why
  PROVE  UNCHANGED Promised!deferralVars
  <1>1. [j \in Jobs |-> job'[j].phase] = [j \in Jobs |-> job[j].phase]
    OBVIOUS
  <1>2. [j \in Jobs |-> job'[j].waited] = [j \in Jobs |-> job[j].waited]
    OBVIOUS
  <1>3. [j \in Jobs |-> job'[j].why] = [j \in Jobs |-> job[j].why]
    OBVIOUS
  <1>4. [j \in Jobs |-> PatienceOf(kind'[j])] = [j \in Jobs |-> PatienceOf(kind[j])]
    OBVIOUS
  <1> QED
    BY <1>1, <1>2, <1>3, <1>4 DEF Promised!deferralVars

\* A job that starts to wait is deferred.
LEMMA Defers ==
  ASSUME ClientInv, NEW j \in Jobs, job[j].phase = "asked", NEW n \in Nat,
         kind[j] \in PollingKinds => n = 0,
         kind[j] \notin PollingKinds => n <= MaxWait,
         job' = [job EXCEPT ![j].phase = "waiting", ![j].left = n], UNCHANGED kind
  PROVE  ClientInv' /\ Promised!Next
  <1> DEFINE new == [job[j] EXCEPT !.phase = "waiting", !.left = n]
  <1>1. job[j] \in JobRecords /\ Timely(kind[j], job[j])
    BY JobFacts
  <1>2. new \in JobRecords
    BY <1>1 DEF JobRecords, Phases
  <1>3. /\ new.phase = "waiting" /\ new.waited = 0 /\ new.elapsed = 0 /\ new.left = n
        /\ new.restarts = 0 /\ new.why = job[j].why
    BY <1>1 DEF Timely, JobRecords
  <1>4. Timely(kind[j], new)
    <2> HIDE DEF new
    <2>1. kind[j] \in PollingKinds => InBudget(kind[j], new)
      <3>1. RestartsOf(kind[j]) \in Nat
        BY WaitingAssumption DEF RestartsOf
      <3> QED
        BY <1>3, <3>1, BudgetGrows, WaitingAssumption DEF InBudget
    <2> QED
      BY <1>3, <2>1 DEF Timely
  <1>5. job' = [job EXCEPT ![j] = new]
    OBVIOUS
  <1>6. ClientInv'
    <2> HIDE DEF new
    <2> QED
      BY <1>2, <1>4, <1>5, OneJob
  <1>7. Promised!Defer(j)
    <2>1. [i \in Jobs |-> job'[i].phase] = [[i \in Jobs |-> job[i].phase] EXCEPT ![j] = "waiting"]
      <3> HIDE DEF new
      <3> QED
        BY <1>3, <1>5 DEF ClientInv, ClientTypes
    <2>2. /\ [i \in Jobs |-> job'[i].waited] = [i \in Jobs |-> job[i].waited]
          /\ [i \in Jobs |-> job'[i].why] = [i \in Jobs |-> job[i].why]
      <3>1. job[j].waited = 0
        BY <1>1 DEF Timely
      <3> HIDE DEF new
      <3> QED
        BY <1>3, <1>5, <3>1 DEF ClientInv, ClientTypes
    <2> QED
      BY <2>1, <2>2 DEF Promised!Defer
  <1> QED
    BY <1>6, <1>7 DEF Promised!Next

\* A job may be started for a reason that Deferral allows.
LEMMA Starts ==
  ASSUME ClientInv, NEW j \in Jobs, job[j].phase \in {"asked", "waiting"},
         NEW reason \in {"clean", "planned", "deadline"},
         Promised!MayStart(j, reason),
         job' = Started(j, reason), UNCHANGED kind
  PROVE  ClientInv' /\ Promised!Next
  <1> DEFINE new == [job[j] EXCEPT !.phase = "ran", !.why = reason]
  <1>1. job[j] \in JobRecords
    BY JobFacts
  <1>2. new \in JobRecords /\ new.phase = "ran" /\ new.why = reason /\ new.waited = job[j].waited
    BY <1>1 DEF JobRecords, Phases, Reasons
  <1>3. job' = [job EXCEPT ![j] = new]
    BY DEF Started
  <1> HIDE DEF new
  <1>4. ClientInv'
    <2>1. Timely(kind[j], new)
      BY <1>2, EndedTimely
    <2> QED
      BY <1>2, <1>3, <2>1, OneJob
  <1>5. Promised!Start(j, reason)
    <2>1. [i \in Jobs |-> job'[i].phase] = [[i \in Jobs |-> job[i].phase] EXCEPT ![j] = "ran"]
      BY <1>2, <1>3 DEF ClientInv, ClientTypes
    <2>2. [i \in Jobs |-> job'[i].why] = [[i \in Jobs |-> job[i].why] EXCEPT ![j] = reason]
      BY <1>2, <1>3 DEF ClientInv, ClientTypes
    <2>3. [i \in Jobs |-> job'[i].waited] = [i \in Jobs |-> job[i].waited]
      BY <1>2, <1>3 DEF ClientInv, ClientTypes
    <2> QED
      BY <2>1, <2>2, <2>3 DEF Promised!Start
  <1> QED
    BY <1>4, <1>5 DEF Promised!Next

\* A job that is not over may be given up.
LEMMA GivesUp ==
  ASSUME ClientInv, NEW j \in Jobs, job[j].phase \in {"asked", "waiting"},
         job' = Aborted(j), UNCHANGED kind
  PROVE  ClientInv' /\ Promised!Next
  <1> DEFINE new == [job[j] EXCEPT !.phase = "failed"]
  <1>1. job[j] \in JobRecords
    BY JobFacts
  <1>2. new \in JobRecords /\ new.phase = "failed" /\ new.waited = job[j].waited
        /\ new.why = job[j].why
    BY <1>1 DEF JobRecords, Phases
  <1>3. job' = [job EXCEPT ![j] = new]
    BY DEF Aborted
  <1> HIDE DEF new
  <1>4. ClientInv'
    <2>1. Timely(kind[j], new)
      BY <1>2, EndedTimely
    <2> QED
      BY <1>2, <1>3, <2>1, OneJob
  <1>5. Promised!Fail(j)
    <2>1. [i \in Jobs |-> job'[i].phase] = [[i \in Jobs |-> job[i].phase] EXCEPT ![j] = "failed"]
      BY <1>2, <1>3 DEF ClientInv, ClientTypes
    <2>2. /\ [i \in Jobs |-> job'[i].waited] = [i \in Jobs |-> job[i].waited]
          /\ [i \in Jobs |-> job'[i].why] = [i \in Jobs |-> job[i].why]
      BY <1>2, <1>3 DEF ClientInv, ClientTypes
    <2> QED
      BY <2>1, <2>2 DEF Promised!Fail
  <1> QED
    BY <1>4, <1>5 DEF Promised!Next

\* A step of Deferral or none, and the invariant after it.
Refines == ClientInv' /\ [Promised!Next]_Promised!deferralVars

LEMMA BeginRefines ==
  ASSUME ClientInv, NEW j \in Jobs, Begin(j)
  PROVE  Refines
  <1>1. job[j] \in JobRecords /\ Timely(kind[j], job[j])
    BY JobFacts
  <1>2. job[j].phase = "asked" /\ kind[j] \in PollingKinds /\ UNCHANGED kind
    BY DEF Begin, Polling, PollingKinds
  <1>3. job[j].left = 0
    BY <1>1, <1>2 DEF Timely
  <1>4. job' = [job EXCEPT ![j] = [job[j] EXCEPT !.phase = "waiting", !.left = 0]]
    BY <1>1, <1>3 DEF Begin, JobRecords
  <1> QED
    BY <1>2, <1>4, Defers DEF Refines

LEMMA PollSignalRefines ==
  ASSUME ClientInv, NEW j \in Jobs, PollSignal(j)
  PROVE  Refines
  <1>1. job[j] \in JobRecords /\ kind[j] \in Kinds /\ Timely(kind[j], job[j])
    BY JobFacts
  <1>2. /\ job[j].phase = "waiting" /\ job[j].left = 0 /\ kind[j] \in PollingKinds
        /\ UNCHANGED kind
    BY DEF PollSignal, Due, Waiting, Polling, PollingKinds
  <1>3. InBudget(kind[j], job[j])
    BY <1>1, <1>2 DEF Timely
  <1>4. \/ job' = Started(j, "clean")
        \/ job' = Aborted(j)
        \/ DeadlineReached(j) /\ job' = Started(j, "deadline")
        \/ ~DeadlineReached(j) /\ job' = [job EXCEPT ![j].left = Poll]
    BY DEF PollSignal
  <1>5. CASE job' = Started(j, "clean")
    <2>1. Promised!MayStart(j, "clean")
      BY DEF Promised!MayStart
    <2> QED
      BY <1>2, <1>5, <2>1, Starts DEF Refines
  <1>6. CASE job' = Aborted(j)
    BY <1>2, <1>6, GivesUp DEF Refines
  <1>7. CASE DeadlineReached(j) /\ job' = Started(j, "deadline")
    <2>1. job[j].waited >= MaxWait
      BY <1>1, <1>3, <1>7, WaitingAssumption DEF DeadlineReached, InBudget, JobRecords
    <2>2. Promised!MayStart(j, "deadline")
      BY <2>1 DEF Promised!MayStart
    <2> QED
      BY <1>2, <1>7, <2>2, Starts DEF Refines
  <1>8. CASE ~DeadlineReached(j) /\ job' = [job EXCEPT ![j].left = Poll]
    <2> DEFINE new == [job[j] EXCEPT !.left = Poll]
    <2>1. new \in JobRecords
      BY <1>1, WaitingAssumption DEF JobRecords
    <2>2. /\ new.phase = "waiting" /\ new.waited = job[j].waited /\ new.elapsed = job[j].elapsed
          /\ new.restarts = job[j].restarts /\ new.left = Poll /\ new.why = job[j].why
      BY <1>1, <1>2 DEF JobRecords
    <2>3. job' = [job EXCEPT ![j] = new]
      BY <1>8
    <2> HIDE DEF new
    <2>4. InBudget(kind[j], new)
      <3>1. job[j].elapsed < MaxWait
        BY <1>1, <1>8, WaitingAssumption DEF DeadlineReached, JobRecords
      <3>2. job[j].waited + Round <= Budget(job[j].restarts) + job[j].elapsed
        BY <1>3, <3>1 DEF InBudget
      <3>3. job[j].waited + Poll <= Budget(job[j].restarts)
        <4>1. Budget(job[j].restarts) \in Nat /\ job[j].waited \in Nat /\ job[j].elapsed \in Nat
          BY <1>1, BudgetGrows DEF JobRecords
        <4> DEFINE b == Budget(job[j].restarts)
        <4>2. job[j].waited + (MaxWait + Poll) <= b + job[j].elapsed
          BY <3>2 DEF Round
        <4> HIDE DEF b
        <4> QED
          BY <3>1, <4>1, <4>2, WaitingAssumption DEF b
      <3> QED
        BY <1>3, <2>2, <3>3 DEF InBudget
    <2>5. Timely(kind[j], new)
      BY <1>2, <2>2, <2>4 DEF Timely
    <2>6. ClientInv'
      BY <1>2, <2>1, <2>3, <2>5, OneJob
    <2>7. UNCHANGED Promised!deferralVars
      <3>1. \A i \in Jobs : /\ job'[i].phase = job[i].phase
                            /\ job'[i].waited = job[i].waited
                            /\ job'[i].why = job[i].why
        BY <1>2, <2>2, <2>3 DEF ClientInv, ClientTypes
      <3> QED
        BY <1>2, <3>1, Stutters
    <2> QED
      BY <2>6, <2>7 DEF Refines
  <1> QED
    BY <1>4, <1>5, <1>6, <1>7, <1>8

LEMMA RestartRefines ==
  ASSUME ClientInv, NEW j \in Jobs, RestartTrigger(j)
  PROVE  Refines
  <1> DEFINE new == [job[j] EXCEPT !.restarts = @ + 1, !.elapsed = 0, !.left = 0]
  <1>1. job[j] \in JobRecords /\ Timely(kind[j], job[j])
    BY JobFacts
  <1>2. /\ job[j].phase = "waiting" /\ kind[j] = "airflow" /\ job[j].restarts < MaxRestarts
        /\ UNCHANGED kind
    BY DEF RestartTrigger, Waiting
  <1>3. InBudget(kind[j], job[j])
    BY <1>1, <1>2 DEF Timely, PollingKinds
  <1>4. new \in JobRecords
    <2> DEFINE n == job[j].restarts + 1
    <2>1. n \in Nat
      BY <1>1 DEF JobRecords
    <2>2. new = [job[j] EXCEPT !.restarts = n, !.elapsed = 0, !.left = 0]
      OBVIOUS
    <2> HIDE DEF n, new
    <2> QED
      BY <1>1, <2>1, <2>2 DEF JobRecords
  <1>5. /\ new.phase = "waiting" /\ new.waited = job[j].waited /\ new.elapsed = 0
        /\ new.restarts = job[j].restarts + 1 /\ new.left = 0 /\ new.why = job[j].why
    BY <1>1, <1>2 DEF JobRecords
  <1>6. job' = [job EXCEPT ![j] = new]
    BY DEF RestartTrigger
  <1> HIDE DEF new
  <1>7. InBudget(kind[j], new)
    <2>1. Budget(new.restarts) = Budget(job[j].restarts) + Round /\ Budget(job[j].restarts) \in Nat
      BY <1>1, <1>5, BudgetGrows DEF JobRecords
    <2>2. job[j].waited + job[j].left <= Budget(job[j].restarts)
      BY <1>3 DEF InBudget
    <2>3. new.waited <= Budget(job[j].restarts)
      BY <1>1, <1>5, <2>1, <2>2 DEF JobRecords
    <2>4. new.waited \in Nat /\ Round \in Nat
      BY <1>4, BudgetGrows DEF JobRecords
    <2>5. new.restarts <= RestartsOf(kind[j])
      BY <1>1, <1>2, <1>5, WaitingAssumption DEF RestartsOf, JobRecords
    <2> HIDE DEF Round
    <2> QED
      BY <1>5, <2>1, <2>3, <2>4, <2>5 DEF InBudget
  <1>8. Timely(kind[j], new)
    BY <1>2, <1>5, <1>7 DEF Timely, PollingKinds
  <1>9. ClientInv'
    BY <1>2, <1>4, <1>6, <1>8, OneJob
  <1>10. UNCHANGED Promised!deferralVars
    <2>1. \A i \in Jobs : /\ job'[i].phase = job[i].phase
                          /\ job'[i].waited = job[i].waited
                          /\ job'[i].why = job[i].why
      BY <1>2, <1>5, <1>6 DEF ClientInv, ClientTypes
    <2> QED
      BY <1>2, <2>1, Stutters
  <1> QED
    BY <1>9, <1>10 DEF Refines

LEMMA ApplyWhenCleanRefines ==
  ASSUME ClientInv, NEW j \in Jobs, ApplyWhenClean(j)
  PROVE  Refines
  <1>1. job[j] \in JobRecords /\ Timely(kind[j], job[j])
    BY JobFacts
  <1>2. job[j].phase = "asked" /\ kind[j] \notin PollingKinds /\ UNCHANGED kind
    BY DEF ApplyWhenClean, PollingKinds
  <1>3. PICK r \in ApiReads(NoSignal), s \in DirtySignals \cup {CleanSignal} :
           LET countdown == DeferHours(s, None, MaxWait)
           IN  \/ job' = Aborted(j)
               \/ job' = Started(j, IF r.signal = "clean" THEN "clean" ELSE "planned")
               \/ countdown > 0 /\ job' = [job EXCEPT ![j].phase = "waiting", ![j].left = countdown]
    BY DEF ApplyWhenClean
  <1>4. CASE job' = Aborted(j)
    BY <1>2, <1>4, GivesUp DEF Refines
  <1>5. CASE job' = Started(j, IF r.signal = "clean" THEN "clean" ELSE "planned")
    <2>1. job[j].waited = 0
      BY <1>1, <1>2 DEF Timely
    <2>2. Promised!MayStart(j, "clean") /\ Promised!MayStart(j, "planned")
      BY <2>1, WaitingAssumption DEF Promised!MayStart
    <2>3. job' = Started(j, "clean") \/ job' = Started(j, "planned")
      BY <1>5
    <2> QED
      BY <1>2, <2>2, <2>3, Starts DEF Refines
  <1>6. CASE job' = [job EXCEPT ![j].phase = "waiting", ![j].left = DeferHours(s, None, MaxWait)]
    <2>1. DeferHours(s, None, MaxWait) \in Nat /\ DeferHours(s, None, MaxWait) <= MaxWait
      BY CountdownBounded
    <2> QED
      BY <1>2, <1>6, <2>1, Defers DEF Refines
  <1> QED
    BY <1>3, <1>4, <1>5, <1>6

LEMMA RunPlannedRefines ==
  ASSUME ClientInv, NEW j \in Jobs, RunPlanned(j)
  PROVE  Refines
  <1>1. job[j] \in JobRecords /\ Timely(kind[j], job[j])
    BY JobFacts
  <1>2. job[j].phase = "asked" /\ kind[j] \notin PollingKinds /\ UNCHANGED kind
    BY DEF RunPlanned, PollingKinds
  <1>3. CASE job' = Aborted(j)
    BY <1>2, <1>3, GivesUp DEF Refines
  <1>4. ASSUME NEW f \in Forecasts,
               LET plan == ChooseRunIndex(f, None, MaxWait, {}, MinSavings)
               IN  job' = IF plan.hour = 0 THEN Started(j, "planned")
                          ELSE [job EXCEPT ![j].phase = "waiting", ![j].left = plan.hour]
        PROVE  Refines
    <2> DEFINE hour == ChooseRunIndex(f, None, MaxWait, {}, MinSavings).hour
    <2>1. hour \in Nat /\ hour <= MaxWait
      BY PlanBounded
    <2>2. \/ job' = Started(j, "planned")
          \/ job' = [job EXCEPT ![j].phase = "waiting", ![j].left = hour]
      BY <1>4
    <2> HIDE DEF hour
    <2>3. CASE job' = Started(j, "planned")
      <3>1. Promised!MayStart(j, "planned")
        BY <1>1, <1>2, WaitingAssumption DEF Promised!MayStart, Timely
      <3> QED
        BY <1>2, <2>3, <3>1, Starts DEF Refines
    <2>4. CASE job' = [job EXCEPT ![j].phase = "waiting", ![j].left = hour]
      BY <1>2, <2>1, <2>4, Defers DEF Refines
    <2> QED
      BY <2>2, <2>3, <2>4
  <1> QED
    BY <1>3, <1>4 DEF RunPlanned

LEMMA WakePlannedRefines ==
  ASSUME ClientInv, NEW j \in Jobs, WakePlanned(j)
  PROVE  Refines
  <1>1. job[j] \in JobRecords /\ Timely(kind[j], job[j])
    BY JobFacts
  <1>2. /\ job[j].phase = "waiting" /\ job[j].left = 0 /\ kind[j] \notin PollingKinds
        /\ UNCHANGED kind /\ job' = Started(j, "planned")
    BY DEF WakePlanned, Due, Waiting, Polling, PollingKinds
  <1>3. job[j].waited <= MaxWait
    BY <1>1, <1>2 DEF Timely, JobRecords
  <1>4. Promised!MayStart(j, "planned")
    BY <1>3 DEF Promised!MayStart
  <1> QED
    BY <1>2, <1>4, Starts DEF Refines

\* While one unit passes, no job that waits gets beyond its patience.
LEMMA TickRefines ==
  ASSUME ClientInv, Tick
  PROVE  Refines
  <1>1. UNCHANGED kind /\ job' = [j \in Jobs |-> IF Waiting(j) THEN Pass(j) ELSE job[j]]
    BY DEF Tick
  <1>2. ASSUME NEW j \in Jobs, job[j].phase = "waiting"
        PROVE  /\ PatienceOf(kind[j]) \in Nat
               /\ job[j].waited < PatienceOf(kind[j])
               /\ Pass(j) \in JobRecords
               /\ Pass(j).phase = "waiting" /\ Pass(j).why = job[j].why
               /\ Pass(j).waited = job[j].waited + 1
               /\ Timely(kind[j], Pass(j))
    <2>1. job[j] \in JobRecords /\ kind[j] \in Kinds /\ Timely(kind[j], job[j])
      BY JobFacts
    <2> DEFINE p == PatienceOf(kind[j])
               w == job[j].waited
               l == job[j].left
               e == job[j].elapsed
               new == Pass(j)
    <2>2. w \in Nat /\ l \in Nat /\ e \in Nat /\ job[j].restarts \in Nat
      BY <2>1 DEF JobRecords
    <2>3. l # 0
      BY <1>2 DEF Tick, Due, Waiting
    <2>4. p \in Nat /\ w + l <= p
      BY <1>2, <2>1, PatienceBounds
    <2> HIDE DEF p
    <2>5. w < p /\ l - 1 \in Nat
      BY <2>2, <2>3, <2>4
    <2>6. Kept(j) = w + 1
      <3>1. Kept(j) = Least({w + 1, p + 1})
        BY DEF Kept, p
      <3> HIDE DEF w
      <3> QED
        BY <2>2, <2>4, <2>5, <3>1, LeastOfTwo
    <2>7. Least({e + 1, MaxWait}) = IF e + 1 <= MaxWait THEN e + 1 ELSE MaxWait
      <3> HIDE DEF e
      <3> QED
        BY <2>2, WaitingAssumption, LeastOfTwo
    <2> DEFINE ne == Least({e + 1, MaxWait})
               nl == l - 1
               nw == w + 1
    <2>8. ne \in Nat /\ nw \in Nat /\ nl \in Nat
      BY <2>2, <2>5, <2>7, WaitingAssumption
    <2>9. new = [job[j] EXCEPT !.left = nl, !.waited = nw, !.elapsed = ne]
      BY <2>6 DEF Pass
    <2> HIDE DEF ne, nw, nl, new
    <2>10. /\ new \in JobRecords
           /\ new.phase = "waiting" /\ new.why = job[j].why /\ new.restarts = job[j].restarts
           /\ new.waited = nw /\ new.left = nl /\ new.elapsed = ne
      BY <1>2, <2>1, <2>8, <2>9 DEF JobRecords
    <2>11. nw + nl = w + l /\ nw = w + 1
      BY <2>2 DEF nw, nl
    <2>12. Timely(kind[j], new)
      <3>1. CASE kind[j] \in PollingKinds
        <4>1. InBudget(kind[j], job[j])
          BY <1>2, <2>1, <3>1 DEF Timely
        <4> DEFINE b == Budget(job[j].restarts)
        <4>2. /\ e <= w /\ job[j].restarts <= RestartsOf(kind[j])
              /\ w + l <= b
              /\ e < MaxWait => w + Round <= b + e
          BY <4>1 DEF InBudget
        <4>3. b \in Nat /\ Round \in Nat
          BY <2>2, BudgetGrows
        <4> HIDE DEF b, Round, e, w, l
        <4>4. ne <= nw
          BY <2>2, <2>7, <2>8, <2>11, <4>2, WaitingAssumption DEF ne
        <4>5. ne < MaxWait => nw + Round <= b + ne
          <5>1. ne < MaxWait => ne = e + 1 /\ e < MaxWait
            BY <2>2, <2>7, WaitingAssumption DEF ne
          <5> QED
            BY <2>2, <2>11, <4>2, <4>3, <5>1
        <4>6. InBudget(kind[j], new)
          BY <2>10, <2>11, <4>2, <4>4, <4>5 DEF InBudget, b
        <4> QED
          BY <2>10, <3>1, <4>6 DEF Timely
      <3>2. CASE kind[j] \notin PollingKinds
        <4>1. w + l <= MaxWait
          BY <1>2, <2>1, <3>2 DEF Timely
        <4> QED
          BY <2>10, <2>11, <3>2, <4>1 DEF Timely
      <3> QED
        BY <3>1, <3>2
    <2> QED
      BY <2>4, <2>5, <2>10, <2>11, <2>12 DEF p, new
  <1>3. ClientTypes'
    <2>1. \A j \in Jobs : (IF Waiting(j) THEN Pass(j) ELSE job[j]) \in JobRecords
      BY <1>2, JobFacts DEF Waiting
    <2> QED
      BY <1>1, <2>1 DEF ClientInv, ClientTypes
  <1>4. ASSUME NEW j \in Jobs PROVE Timely(kind[j], job[j])'
    <2>1. Timely(kind[j], IF Waiting(j) THEN Pass(j) ELSE job[j])
      BY <1>2, JobFacts DEF Waiting
    <2>2. job'[j] = (IF Waiting(j) THEN Pass(j) ELSE job[j]) /\ kind' = kind
      BY <1>1
    <2> QED
      BY <2>1, <2>2 DEF Timely, InBudget
  <1>5. Promised!Wait
    <2>1. [j \in Jobs |-> job'[j].phase] = [j \in Jobs |-> job[j].phase]
      BY <1>1, <1>2 DEF Waiting
    <2>2. [j \in Jobs |-> job'[j].why] = [j \in Jobs |-> job[j].why]
      BY <1>1, <1>2 DEF Waiting
    <2>3. \A j \in Jobs : job'[j].waited =
             IF job[j].phase = "waiting" THEN job[j].waited + 1 ELSE job[j].waited
      BY <1>1, <1>2 DEF Waiting
    <2>4. \A j \in Jobs : job[j].phase = "waiting" => job[j].waited < PatienceOf(kind[j])
      BY <1>2
    <2>5. [j \in Jobs |-> PatienceOf(kind'[j])] = [j \in Jobs |-> PatienceOf(kind[j])]
      BY <1>1
    <2> QED
      BY <2>1, <2>2, <2>3, <2>4, <2>5 DEF Promised!Wait
  <1> QED
    BY <1>3, <1>4, <1>5 DEF Refines, ClientInv, JobsTimely, Promised!Next

\* A step that leaves the jobs and their clients alone.
LEMMA IdleRefines ==
  ASSUME ClientInv, UNCHANGED <<kind, job>>
  PROVE  Refines
  <1>1. ClientInv'
    BY DEF ClientInv, ClientTypes, JobsTimely, Timely, InBudget
  <1>2. UNCHANGED Promised!deferralVars
    BY Stutters
  <1> QED
    BY <1>1, <1>2 DEF Refines

LEMMA InitClients == ClientsInit => ClientInv /\ Promised!Init
  <1> SUFFICES ASSUME ClientsInit PROVE ClientInv /\ Promised!Init
    OBVIOUS
  <1> DEFINE new == [phase |-> "asked", waited |-> 0, elapsed |-> 0, left |-> 0,
                     restarts |-> 0, why |-> "none"]
  <1>1. kind \in [Jobs -> Kinds] /\ job = [j \in Jobs |-> new]
    BY ClientsAssumption DEF ClientsInit
  <1>2. new \in JobRecords
    BY DEF JobRecords, Phases, Reasons
  <1>3. \A k \in Kinds : Timely(k, new)
    BY DEF Timely
  <1>4. ClientInv
    <2> HIDE DEF new
    <2>1. \A j \in Jobs : job[j] = new /\ kind[j] \in Kinds
      BY <1>1
    <2> QED
      BY <1>1, <1>2, <1>3, <2>1 DEF ClientInv, ClientTypes, JobsTimely
  <1>5. [j \in Jobs |-> PatienceOf(kind[j])] \in [Jobs -> Nat]
    BY <1>1, PatienceType
  <1>6. /\ [j \in Jobs |-> job[j].phase] = [j \in Jobs |-> "asked"]
        /\ [j \in Jobs |-> job[j].waited] = [j \in Jobs |-> 0]
        /\ [j \in Jobs |-> job[j].why] = [j \in Jobs |-> "none"]
    BY <1>1
  <1> QED
    BY <1>4, <1>5, <1>6 DEF Promised!Init

LEMMA NextRefines == ClientInv /\ [ClientsNext]_clientVars => Refines
  <1> SUFFICES ASSUME ClientInv, [ClientsNext]_clientVars PROVE Refines
    OBVIOUS
  <1>1. ASSUME NEW j \in Jobs, Begin(j) PROVE Refines
    BY <1>1, BeginRefines
  <1>2. ASSUME NEW j \in Jobs, PollSignal(j) PROVE Refines
    BY <1>2, PollSignalRefines
  <1>3. ASSUME NEW j \in Jobs, RestartTrigger(j) PROVE Refines
    BY <1>3, RestartRefines
  <1>4. ASSUME NEW j \in Jobs, ApplyWhenClean(j) PROVE Refines
    BY <1>4, ApplyWhenCleanRefines
  <1>5. ASSUME NEW j \in Jobs, RunPlanned(j) PROVE Refines
    BY <1>5, RunPlannedRefines
  <1>6. ASSUME NEW j \in Jobs, WakePlanned(j) PROVE Refines
    BY <1>6, WakePlannedRefines
  <1>7. ASSUME NEW c \in Sources, Fetch(c) \/ Store(c) \/ Lose(c) PROVE Refines
    BY <1>7, IdleRefines DEF Fetch, Store, Lose
  <1>8. CASE Tick
    BY <1>8, TickRefines
  <1>9. CASE UNCHANGED clientVars
    BY <1>9, IdleRefines DEF clientVars
  <1> QED
    BY <1>1, <1>2, <1>3, <1>4, <1>5, <1>6, <1>7, <1>8, <1>9 DEF ClientsNext

(***************************************************************************)
(* Every client defers its job as Deferral promises: it starts it once, on *)
(* a clean signal, at an hour planned within the time agreed to, or when   *)
(* that time is over, and waits no longer than the patience of its kind    *)
(* (sdk.py, integrations/, cli/green_run.py).                              *)
(***************************************************************************)
THEOREM ClientsKeepPromise == ClientsSpec => Promise
  <1>1. ClientInv /\ [ClientsNext]_clientVars => ClientInv' /\ [Promised!Next]_Promised!deferralVars
    BY NextRefines DEF Refines
  <1>2. ClientsInit => ClientInv /\ Promised!Init
    BY InitClients
  <1> QED
    BY <1>1, <1>2, PTL DEF ClientsSpec, Promise, Promised!Spec

----------------------------------------------------------------------------
(* The copies a signal passes through.  A copy in the API, of the snapshot *)
(* or of the live reading, is older than its stay there by no more than a  *)
(* fetch takes; the SDK stores what just left the CDN.                     *)

Copies == [taken : Nat, age : Nat] \cup {NoCopy}
SignalCopies == [clean : BOOLEAN, taken : Nat, age : Nat] \cup {NoSignal}
Aged(copy, extra) ==
    Held(copy) => copy.taken \in Nat /\ copy.age \in Nat /\ copy.taken <= copy.age + extra
InFlight(copy) ==
    Held(copy) => copy.taken \in Nat /\ copy.age = copy.taken /\ copy.age <= RequestTime

ServerInv ==
    /\ server \in [Sources -> Copies]
    /\ \A c \in Sources : Aged(server[c], RequestTime)
FlightInv ==
    /\ flight \in [Sources -> Copies]
    /\ \A c \in Sources : InFlight(flight[c])

CopiesInv ==
    /\ kind \in [Jobs -> Kinds]
    /\ job \in [Jobs -> JobRecords]
    /\ acted \in [Jobs -> [taken : Int, failed : BOOLEAN]]
    /\ ServerInv /\ FlightInv
    /\ sdk \in [Jobs -> SignalCopies]
    /\ \A j \in Jobs : Aged(sdk[j], 0)

RecentInv == CopiesInv /\ ActedOnRecent

\* None is held before the first fetch; a new copy has no age.
LEMMA FreshCopy ==
  /\ NoCopy \in Copies /\ ~Held(NoCopy)
  /\ NoSignal \in SignalCopies /\ ~Held(NoSignal)
  /\ NewCopy \in Copies /\ Held(NewCopy) /\ NewCopy.taken = 0 /\ NewCopy.age = 0
  /\ Published \subseteq SignalCopies
  /\ \A p \in Published : Held(p) /\ p.taken = 0 /\ p.age = 0
  BY DEF NoCopy, NoSignal, NewCopy, Published, Copies, SignalCopies, Held, None

\* What is held has its ages.
LEMMA HeldCopy ==
  ASSUME NEW c \in Copies \cup SignalCopies, Held(c)
  PROVE  c \in [taken : Nat, age : Nat] \cup [clean : BOOLEAN, taken : Nat, age : Nat]
  BY DEF Copies, SignalCopies, NoCopy, NoSignal, Held

\* Time passes for a copy: both of its ages grow, up to the same bound.
LEMMA OlderCopy ==
  ASSUME NEW c \in Copies \cup SignalCopies
  PROVE  /\ c \in Copies => Older(c) \in Copies
         /\ c \in SignalCopies => Older(c) \in SignalCopies
         /\ ~Held(c) => Older(c) = c
         /\ Held(c) => /\ Older(c).taken = IF c.taken + 1 <= OldAge THEN c.taken + 1 ELSE OldAge
                       /\ Older(c).age = IF c.age + 1 <= OldAge THEN c.age + 1 ELSE OldAge
  <1>1. OldAge \in Nat
    BY WaitingAssumption DEF OldAge
  <1>2. CASE ~Held(c)
    BY <1>2 DEF Older
  <1>3. CASE Held(c)
    <2> DEFINE t == IF c.taken + 1 <= OldAge THEN c.taken + 1 ELSE OldAge
               a == IF c.age + 1 <= OldAge THEN c.age + 1 ELSE OldAge
    <2>1. c \in [taken : Nat, age : Nat] \cup [clean : BOOLEAN, taken : Nat, age : Nat]
      BY <1>3, HeldCopy
    <2>2. c.taken \in Nat /\ c.age \in Nat
      BY <2>1
    <2>3. t \in Nat /\ a \in Nat /\ Least({c.taken + 1, OldAge}) = t /\ Least({c.age + 1, OldAge}) = a
      <3>1. \A x \in Nat : LET n == IF x + 1 <= OldAge THEN x + 1 ELSE OldAge
                           IN  n \in Nat /\ Least({x + 1, OldAge}) = n
        BY <1>1, LeastOfTwo
      <3> QED
        BY <2>2, <3>1
    <2>4. Older(c) = [c EXCEPT !.taken = t, !.age = a]
      BY <1>3, <2>3 DEF Older
    <2> HIDE DEF t, a
    <2>5. Older(c).taken = t /\ Older(c).age = a
      BY <2>1, <2>4
    <2>6. c \in Copies => Older(c) \in Copies
      BY <1>3, <2>3, <2>4 DEF Copies, NoCopy, Held
    <2>7. c \in SignalCopies => Older(c) \in SignalCopies
      <3>1. SUFFICES ASSUME c \in SignalCopies  PROVE Older(c) \in SignalCopies
        OBVIOUS
      <3>2. c \in [clean : BOOLEAN, taken : Nat, age : Nat]
        BY <1>3, <3>1 DEF SignalCopies, NoSignal, Held
      <3>3. [c EXCEPT !.taken = t, !.age = a] \in [clean : BOOLEAN, taken : Nat, age : Nat]
        BY <2>3, <3>2
      <3> QED
        BY <2>4, <3>3 DEF SignalCopies
    <2> QED
      BY <1>3, <2>5, <2>6, <2>7 DEF t, a
  <1> QED
    BY <1>2, <1>3

\* The API's copies, and a fetch, reach no further back than ApiKept; what a
\* kind of client may act on is no less than each way a copy comes to it.
LEMMA LongestKeptBounds ==
  /\ \A c \in Sources : ServedFor(c) \in Nat \ {0} /\ ServedFor(c) + RequestTime <= ApiKept
  /\ ApiKept \in Nat \ {0}
  /\ \A k \in Kinds : /\ LongestKept(k) \in Nat \ {0}
                      /\ ApiKept <= LongestKept(k)
                      /\ k = "sdk_cdn" => SdkTTL <= LongestKept(k)
  <1> DEFINE twice == 2 * CacheTTL
             g == Greatest({ServerTTL, twice})
  <1>1. ServerTTL \in Nat \ {0} /\ twice \in Nat \ {0} /\ SdkTTL \in Nat \ {0} /\ RequestTime \in Nat
    BY WaitingAssumption
  <1>2. \A c \in Sources : ServedFor(c) \in {ServerTTL, twice}
    BY DEF ServedFor
  <1>3. ApiKept = g + RequestTime
    BY DEF ApiKept
  <1> HIDE DEF twice
  <1>4. g \in {ServerTTL, twice} /\ ServerTTL <= g /\ twice <= g
    BY <1>1, GreatestOfTwo
  <1> HIDE DEF g
  <1>5. ApiKept \in Nat \ {0}
    BY <1>1, <1>3, <1>4
  <1>6. \A c \in Sources : ServedFor(c) \in Nat \ {0} /\ ServedFor(c) + RequestTime <= ApiKept
    BY <1>1, <1>2, <1>3, <1>4
  <1> DEFINE most == Greatest({SdkTTL, ApiKept})
  <1>7. most \in {SdkTTL, ApiKept} /\ SdkTTL <= most /\ ApiKept <= most
    BY <1>1, <1>5, GreatestOfTwo
  <1>8. \A k \in Kinds : LongestKept(k) = IF k = "sdk_cdn" THEN most ELSE ApiKept
    BY DEF LongestKept
  <1> HIDE DEF most
  <1>9. \A k \in Kinds : /\ LongestKept(k) \in Nat \ {0}
                         /\ ApiKept <= LongestKept(k)
                         /\ k = "sdk_cdn" => SdkTTL <= LongestKept(k)
    BY <1>1, <1>5, <1>7, <1>8
  <1> QED
    BY <1>5, <1>6, <1>9

\* A copy that the API serves, or a new one, is younger than ApiKept.
LEMMA ServedIsRecent ==
  ASSUME NEW c \in Sources, NEW copy, Aged(copy, RequestTime), Usable(copy, ServedFor(c))
  PROVE  copy.taken \in Nat /\ copy.taken < ApiKept
  <1>1. copy.taken \in Nat /\ copy.age \in Nat /\ copy.taken <= copy.age + RequestTime
        /\ copy.age < ServedFor(c)
    BY DEF Aged, Usable
  <1>2. ServedFor(c) \in Nat /\ ServedFor(c) + RequestTime <= ApiKept /\ ApiKept \in Nat
    BY LongestKeptBounds
  <1> QED
    BY <1>1, <1>2, WaitingAssumption

\* The live entry that answers, and the refresh that it leaves behind.
LEMMA LiveReadSound ==
  ASSUME ServerInv, FlightInv
  PROVE  /\ LiveRead.entry \in Copies /\ Aged(LiveRead.entry, RequestTime)
         /\ LiveRead.entry.taken \in Nat /\ LiveRead.entry.taken < ApiKept
         /\ LiveRead.flight \in Copies /\ InFlight(LiveRead.flight)
  <1> DEFINE entry == server["live"]
  <1>1. /\ entry \in Copies /\ Aged(entry, RequestTime)
        /\ flight["live"] \in Copies /\ InFlight(flight["live"])
    BY DEF ServerInv, FlightInv, Sources
  <1>2. /\ NewCopy \in Copies /\ Aged(NewCopy, RequestTime) /\ InFlight(NewCopy)
        /\ NewCopy.taken \in Nat /\ NewCopy.taken < ApiKept
    BY FreshCopy, LongestKeptBounds, WaitingAssumption DEF Aged, InFlight
  <1>3. /\ LiveRead.entry = (IF Usable(entry, ServedFor("live")) THEN entry ELSE NewCopy)
        /\ LiveRead.flight \in {NewCopy, flight["live"]}
    BY DEF LiveRead
  <1>4. Usable(entry, ServedFor("live")) => entry.taken \in Nat /\ entry.taken < ApiKept
    BY <1>1, ServedIsRecent DEF Sources
  <1> HIDE DEF entry
  <1> QED
    BY <1>1, <1>2, <1>3, <1>4

\* A copy of the snapshot after a look at it.
LEMMA SnapshotReadSound ==
  ASSUME ServerInv, NEW s \in SnapshotReads
  PROVE  /\ s \in Copies /\ Aged(s, RequestTime)
         /\ Usable(s, ServedFor("snapshot")) => s.taken \in Nat /\ s.taken < ApiKept
  <1>1. server["snapshot"] \in Copies /\ Aged(server["snapshot"], RequestTime)
    BY DEF ServerInv, Sources
  <1>2. NewCopy \in Copies /\ Aged(NewCopy, RequestTime)
    BY FreshCopy, WaitingAssumption DEF Aged
  <1>3. s \in Copies /\ Aged(s, RequestTime)
    BY <1>1, <1>2 DEF SnapshotReads
  <1> QED
    BY <1>3, ServedIsRecent DEF Sources

\* What the API answers is as recent as its copies, and what it leaves in
\* them as old as a fetch.
ApiSound(r) ==
    /\ r.taken \in Int /\ r.failed \in BOOLEAN
    /\ r.failed = FALSE => r.taken < ApiKept
    /\ r.server \in [Sources -> Copies] /\ \A c \in Sources : Aged(r.server[c], RequestTime)
    /\ r.flight \in [Sources -> Copies] /\ \A c \in Sources : InFlight(r.flight[c])

LEMMA ApiReadsSound ==
  ASSUME ServerInv, FlightInv, NEW r \in ApiReads(NoSignal)
  PROVE  ApiSound(r) /\ r.sdk = NoSignal
  <1>1. CASE r = [signal |-> "error", taken |-> None, failed |-> TRUE, sdk |-> NoSignal,
                  server |-> server, flight |-> flight]
    BY <1>1 DEF ApiSound, ServerInv, FlightInv, None
  <1>2. ASSUME NEW says \in {"clean", "dirty"}, NEW s \in SnapshotReads, NEW from \in Sources,
               r = Signal(NoSignal, says, s, from)
        PROVE  ApiSound(r) /\ r.sdk = NoSignal
    <2> DEFINE first == IF from = "snapshot" /\ Usable(s, ServedFor("snapshot")) THEN s
                        ELSE LiveRead.entry
               most == Greatest({first.taken, LiveRead.entry.taken})
               copies == [c \in Sources |-> IF c = "snapshot" THEN s ELSE LiveRead.entry]
               fetches == [flight EXCEPT !["live"] = LiveRead.flight]
    <2>1. /\ LiveRead.entry \in Copies /\ Aged(LiveRead.entry, RequestTime)
          /\ LiveRead.entry.taken \in Nat /\ LiveRead.entry.taken < ApiKept
          /\ LiveRead.flight \in Copies /\ InFlight(LiveRead.flight)
      BY LiveReadSound
    <2>2. /\ s \in Copies /\ Aged(s, RequestTime)
          /\ Usable(s, ServedFor("snapshot")) => s.taken \in Nat /\ s.taken < ApiKept
      BY SnapshotReadSound
    <2>3. first.taken \in Nat /\ first.taken < ApiKept
      BY <2>1, <2>2
    <2>4. r = [signal |-> says, taken |-> most, failed |-> FALSE, sdk |-> NoSignal,
               server |-> copies, flight |-> fetches]
      BY <1>2 DEF Signal
    <2>5. copies \in [Sources -> Copies] /\ \A c \in Sources : Aged(copies[c], RequestTime)
      BY <2>1, <2>2
    <2>6. fetches \in [Sources -> Copies] /\ \A c \in Sources : InFlight(fetches[c])
      BY <2>1 DEF FlightInv, Sources
    <2> HIDE DEF first, copies, fetches
    <2>7. most \in Int /\ most < ApiKept
      <3> DEFINE a == first.taken
                 b == LiveRead.entry.taken
      <3>1. a \in Nat /\ a < ApiKept /\ b \in Nat /\ b < ApiKept
        BY <2>1, <2>3
      <3>2. most = Greatest({a, b})
        OBVIOUS
      <3> HIDE DEF a, b, most
      <3>3. Greatest({a, b}) \in {a, b}
        BY <3>1, GreatestOfTwo
      <3> QED
        BY <3>1, <3>2, <3>3
    <2> HIDE DEF most
    <2> QED
      BY <2>4, <2>5, <2>6, <2>7 DEF ApiSound
  <1> QED
    BY <1>1, <1>2 DEF ApiReads

\* What the SDK reads is its copy while it is usable, a fresh one, or the API's answer.
ReadSound(k, r) ==
    /\ r.taken \in Int /\ r.failed \in BOOLEAN
    /\ r.failed = FALSE => r.taken < LongestKept(k)
    /\ r.server \in [Sources -> Copies] /\ \A c \in Sources : Aged(r.server[c], RequestTime)
    /\ r.flight \in [Sources -> Copies] /\ \A c \in Sources : InFlight(r.flight[c])

\* A client may rely on the API for as long as it may rely on anything.
LEMMA ApiReadSound ==
  ASSUME NEW k \in Kinds, NEW r, ApiSound(r)
  PROVE  ReadSound(k, r)
  <1>1. ApiKept \in Nat /\ LongestKept(k) \in Nat /\ ApiKept <= LongestKept(k)
    BY LongestKeptBounds
  <1>2. r.failed = FALSE => r.taken < LongestKept(k)
    BY <1>1 DEF ApiSound
  <1> QED
    BY <1>2 DEF ApiSound, ReadSound

\* A read of the SDK's copy, or of the CDN, which leaves the API's alone.
LEMMA OwnCopySound ==
  ASSUME CopiesInv, NEW k, NEW c, NEW failed \in BOOLEAN, c.taken \in Int,
         failed = FALSE => c.taken < LongestKept(k)
  PROVE  ReadSound(k, CopyRead(c, failed)) /\ CopyRead(c, failed).sdk = c
  <1> DEFINE r == CopyRead(c, failed)
  <1>1. r.taken = c.taken /\ r.failed = failed /\ r.sdk = c /\ r.server = server /\ r.flight = flight
    BY DEF CopyRead
  <1> HIDE DEF r
  <1>2. ReadSound(k, r)
    BY <1>1 DEF ReadSound, CopiesInv, ServerInv, FlightInv
  <1> QED
    BY <1>1, <1>2 DEF r

LEMMA SdkReadsSound ==
  ASSUME CopiesInv, NEW j \in Jobs, NEW r \in SdkReads(j)
  PROVE  ReadSound(kind[j], r) /\ r.sdk \in SignalCopies /\ Aged(r.sdk, 0)
  <1>1. kind[j] \in Kinds /\ sdk[j] \in SignalCopies /\ Aged(sdk[j], 0)
    BY DEF CopiesInv
  <1>2. LongestKept(kind[j]) \in Nat \ {0}
        /\ (kind[j] = "sdk_cdn" => SdkTTL <= LongestKept(kind[j]))
    BY <1>1, LongestKeptBounds
  <1>3. CASE r \in ApiReads(NoSignal)
    <2>1. ApiSound(r) /\ r.sdk = NoSignal
      BY <1>3, ApiReadsSound DEF CopiesInv
    <2>2. ReadSound(kind[j], r)
      BY <1>1, <2>1, ApiReadSound
    <2> QED
      BY <2>1, <2>2, FreshCopy DEF Aged
  <1>4. ASSUME kind[j] = "sdk_cdn", Usable(sdk[j], SdkTTL), r = CopyRead(sdk[j], FALSE)
        PROVE  ReadSound(kind[j], r) /\ r.sdk \in SignalCopies /\ Aged(r.sdk, 0)
    <2>1. /\ sdk[j].taken \in Nat /\ sdk[j].age \in Nat
          /\ sdk[j].taken <= sdk[j].age + 0 /\ sdk[j].age < SdkTTL
      BY <1>1, <1>4 DEF Usable, Aged
    <2>2. sdk[j].taken < LongestKept(kind[j])
      BY <1>2, <1>4, <2>1, WaitingAssumption
    <2>3. sdk[j].taken \in Int /\ FALSE \in BOOLEAN
      BY <2>1
    <2> DEFINE k == kind[j]
               c == sdk[j]
    <2>4. c.taken \in Int /\ FALSE \in BOOLEAN /\ (FALSE = FALSE => c.taken < LongestKept(k))
      BY <2>2, <2>3
    <2> HIDE DEF k, c
    <2>5. ReadSound(k, CopyRead(c, FALSE)) /\ CopyRead(c, FALSE).sdk = c
      BY <2>4, OwnCopySound
    <2>6. ReadSound(kind[j], r) /\ r.sdk = sdk[j]
      BY <1>4, <2>5 DEF k, c
    <2> QED
      BY <1>1, <2>6
  <1>5. ASSUME NEW p \in Published, r = CopyRead(p, FALSE)
        PROVE  ReadSound(kind[j], r) /\ r.sdk \in SignalCopies /\ Aged(r.sdk, 0)
    <2>1. p \in SignalCopies /\ p.taken = 0 /\ p.age = 0
      BY FreshCopy
    <2>2. p.taken \in Int /\ p.taken < LongestKept(kind[j])
      BY <1>2, <2>1
    <2>3. ReadSound(kind[j], r) /\ r.sdk = p
      BY <1>5, <2>2, OwnCopySound
    <2> QED
      BY <2>1, <2>3 DEF Aged
  <1>6. ASSUME Held(sdk[j]), r = CopyRead(sdk[j], TRUE)
        PROVE  ReadSound(kind[j], r) /\ r.sdk \in SignalCopies /\ Aged(r.sdk, 0)
    <2>1. sdk[j].taken \in Int
      BY <1>1, <1>6 DEF Aged
    <2>2. ReadSound(kind[j], r) /\ r.sdk = sdk[j]
      BY <1>6, <2>1, OwnCopySound
    <2> QED
      BY <1>1, <2>2
  <1> QED
    BY <1>3, <1>4, <1>5, <1>6 DEF SdkReads

\* A job may be started on a clean signal by what it has just read.
LEMMA ActsOnRead ==
  ASSUME RecentInv, NEW j \in Jobs, UNCHANGED kind,
         NEW a \in [taken : Int, failed : BOOLEAN],
         job'[j].why = "clean" /\ a.failed = FALSE => a.taken < LongestKept(kind[j]),
         acted' = [acted EXCEPT ![j] = a],
         \A i \in Jobs : i # j => job'[i].why = job[i].why
  PROVE  ActedOnRecent' /\ acted' \in [Jobs -> [taken : Int, failed : BOOLEAN]]
  <1>1. \A i \in Jobs : acted'[i] = IF i = j THEN a ELSE acted[i]
    BY DEF RecentInv, CopiesInv
  <1>2. ASSUME NEW i \in Jobs, job'[i].why = "clean", ~acted'[i].failed
        PROVE  acted'[i].taken < LongestKept(kind[i])
    <2>1. CASE i = j
      <3>1. a.failed = FALSE
        BY <1>1, <1>2, <2>1
      <3> QED
        BY <1>1, <1>2, <2>1, <3>1
    <2>2. CASE i # j
      BY <1>1, <1>2, <2>2 DEF RecentInv, ActedOnRecent
    <2> QED
      BY <2>1, <2>2
  <1>3. acted' \in [Jobs -> [taken : Int, failed : BOOLEAN]]
    BY DEF RecentInv, CopiesInv
  <1> QED
    BY <1>2, <1>3 DEF ActedOnRecent, LongestKept

\* A step after which no other job has been started on a clean signal.
LEMMA NoneActs ==
  ASSUME RecentInv, UNCHANGED <<kind, acted>>,
         \A i \in Jobs : job'[i].why = "clean" => job[i].why = "clean"
  PROVE  ActedOnRecent' /\ acted' \in [Jobs -> [taken : Int, failed : BOOLEAN]]
  <1>1. \A i \in Jobs : job'[i].why = "clean" /\ ~acted[i].failed => acted[i].taken < LongestKept(kind[i])
    BY DEF RecentInv, ActedOnRecent
  <1> QED
    BY <1>1 DEF RecentInv, CopiesInv, ActedOnRecent, LongestKept

\* A step that leaves the copies alone.
LEMMA CopiesKept ==
  ASSUME RecentInv, ClientInv', ActedOnRecent',
         acted' \in [Jobs -> [taken : Int, failed : BOOLEAN]],
         UNCHANGED <<server, flight, sdk>>
  PROVE  RecentInv'
  BY DEF RecentInv, CopiesInv, ServerInv, FlightInv, ClientInv, ClientTypes, Aged, InFlight

\* A step of one job that starts none on a clean signal.
LEMMA OtherReason ==
  ASSUME CopiesInv, NEW j \in Jobs,
         \/ job' = Aborted(j)
         \/ job' = Started(j, "planned")
         \/ job' = Started(j, "deadline")
         \/ job' = [job EXCEPT ![j].left = Poll]
         \/ \E n \in Nat : job' = [job EXCEPT ![j].phase = "waiting", ![j].left = n]
         \/ job' = [job EXCEPT ![j].phase = "waiting"]
         \/ job' = [job EXCEPT ![j].restarts = @ + 1, ![j].elapsed = 0, ![j].left = 0]
  PROVE  \A i \in Jobs : job'[i].why = "clean" => job[i].why = "clean"
  <1>1. job \in [Jobs -> JobRecords] /\ job[j] \in JobRecords
    BY DEF CopiesInv
  <1>2. CASE \/ job' = Aborted(j)
             \/ job' = Started(j, "planned")
             \/ job' = Started(j, "deadline")
    BY <1>1, <1>2 DEF JobRecords, Aborted, Started
  <1>3. CASE job' = [job EXCEPT ![j].left = Poll]
    BY <1>1, <1>3 DEF JobRecords
  <1>4. ASSUME NEW n \in Nat, job' = [job EXCEPT ![j].phase = "waiting", ![j].left = n]
        PROVE  \A i \in Jobs : job'[i].why = "clean" => job[i].why = "clean"
    BY <1>1, <1>4 DEF JobRecords
  <1>5. CASE job' = [job EXCEPT ![j].phase = "waiting"]
    BY <1>1, <1>5 DEF JobRecords
  <1>6. CASE job' = [job EXCEPT ![j].restarts = @ + 1, ![j].elapsed = 0, ![j].left = 0]
    BY <1>1, <1>6 DEF JobRecords
  <1> QED
    BY <1>2, <1>3, <1>4, <1>5, <1>6

\* A job that is started is the only one whose record changes.
LEMMA OnlyStarted ==
  ASSUME CopiesInv, NEW j \in Jobs, NEW reason, job' = Started(j, reason)
  PROVE  \A i \in Jobs : i # j => job'[i].why = job[i].why
  BY DEF CopiesInv, Started

LEMMA PollSignalRecent ==
  ASSUME RecentInv, ClientInv', NEW j \in Jobs, PollSignal(j)
  PROVE  RecentInv'
  <1>1. CopiesInv /\ UNCHANGED kind
    BY DEF RecentInv, PollSignal
  <1>2. PICK r \in SdkReads(j) :
           /\ sdk' = [sdk EXCEPT ![j] = r.sdk]
           /\ server' = r.server /\ flight' = r.flight
           /\ \/ /\ r.signal = "clean"
                 /\ job' = Started(j, "clean")
                 /\ acted' = [acted EXCEPT ![j] = [taken |-> r.taken, failed |-> r.failed]]
              \/ /\ \/ job' = Aborted(j)
                    \/ job' = Started(j, "deadline")
                    \/ job' = [job EXCEPT ![j].left = Poll]
                 /\ UNCHANGED acted
    BY DEF PollSignal
  <1>3. ReadSound(kind[j], r) /\ r.sdk \in SignalCopies /\ Aged(r.sdk, 0)
    BY <1>1, SdkReadsSound
  <1>4. ActedOnRecent' /\ acted' \in [Jobs -> [taken : Int, failed : BOOLEAN]]
    <2>1. CASE /\ r.signal = "clean"
               /\ job' = Started(j, "clean")
               /\ acted' = [acted EXCEPT ![j] = [taken |-> r.taken, failed |-> r.failed]]
      <3> DEFINE a == [taken |-> r.taken, failed |-> r.failed]
      <3>1. a \in [taken : Int, failed : BOOLEAN]
        BY <1>3 DEF ReadSound
      <3>2. a.failed = FALSE => a.taken < LongestKept(kind[j])
        BY <1>3, <2>1 DEF ReadSound
      <3>3. acted' = [acted EXCEPT ![j] = a]
        BY <2>1
      <3> HIDE DEF a
      <3>4. \A i \in Jobs : i # j => job'[i].why = job[i].why
        BY <1>1, <2>1, OnlyStarted
      <3> QED
        BY <1>1, <3>1, <3>2, <3>3, <3>4, ActsOnRead
    <2>2. CASE /\ \/ job' = Aborted(j)
                  \/ job' = Started(j, "deadline")
                  \/ job' = [job EXCEPT ![j].left = Poll]
               /\ UNCHANGED acted
      BY <1>1, <2>2, OtherReason, NoneActs
    <2> QED
      BY <1>2, <2>1, <2>2
  <1>5. ServerInv' /\ FlightInv'
    BY <1>2, <1>3 DEF ReadSound, ServerInv, FlightInv, Aged, InFlight
  <1>6. sdk' \in [Jobs -> SignalCopies] /\ \A i \in Jobs : Aged(sdk'[i], 0)
    <2>1. \A i \in Jobs : sdk'[i] = IF i = j THEN r.sdk ELSE sdk[i]
      BY <1>1, <1>2 DEF CopiesInv
    <2> QED
      BY <1>1, <1>2, <1>3, <2>1 DEF CopiesInv
  <1> QED
    BY <1>1, <1>4, <1>5, <1>6 DEF RecentInv, CopiesInv, ClientInv, ClientTypes, Aged

LEMMA ApplyWhenCleanRecent ==
  ASSUME RecentInv, ClientInv', NEW j \in Jobs, ApplyWhenClean(j)
  PROVE  RecentInv'
  <1>1. CopiesInv /\ UNCHANGED <<kind, sdk>> /\ kind[j] \in Kinds
    BY DEF RecentInv, CopiesInv, ApplyWhenClean
  <1>2. PICK r \in ApiReads(NoSignal) : \E s \in (IF r.signal = "clean" THEN {CleanSignal} ELSE DirtySignals) :
           LET countdown == DeferHours(s, None, MaxWait)
           IN  /\ server' = r.server /\ flight' = r.flight
               /\ \/ job' = Aborted(j) /\ UNCHANGED acted
                  \/ /\ job' = Started(j, IF r.signal = "clean" THEN "clean" ELSE "planned")
                     /\ acted' = [acted EXCEPT ![j] = [taken |-> r.taken, failed |-> r.failed]]
                  \/ /\ job' = [job EXCEPT ![j].phase = "waiting", ![j].left = countdown]
                     /\ UNCHANGED acted
    BY DEF ApplyWhenClean
  <1>3. PICK s \in DirtySignals \cup {CleanSignal} :
           /\ server' = r.server /\ flight' = r.flight
           /\ \/ job' = Aborted(j) /\ UNCHANGED acted
              \/ /\ job' = Started(j, IF r.signal = "clean" THEN "clean" ELSE "planned")
                 /\ acted' = [acted EXCEPT ![j] = [taken |-> r.taken, failed |-> r.failed]]
              \/ /\ job' = [job EXCEPT ![j].phase = "waiting", ![j].left = DeferHours(s, None, MaxWait)]
                 /\ UNCHANGED acted
    BY <1>2
  <1>4. ReadSound(kind[j], r)
    BY <1>1, ApiReadsSound, ApiReadSound DEF CopiesInv
  <1>5. ActedOnRecent' /\ acted' \in [Jobs -> [taken : Int, failed : BOOLEAN]]
    <2>1. CASE job' = Aborted(j) /\ UNCHANGED acted
      BY <1>1, <2>1, OtherReason, NoneActs
    <2>2. CASE /\ job' = Started(j, IF r.signal = "clean" THEN "clean" ELSE "planned")
               /\ acted' = [acted EXCEPT ![j] = [taken |-> r.taken, failed |-> r.failed]]
      <3>1. CASE r.signal = "clean"
        <4> DEFINE a == [taken |-> r.taken, failed |-> r.failed]
        <4>1. a \in [taken : Int, failed : BOOLEAN]
          BY <1>4 DEF ReadSound
        <4>2. a.failed = FALSE => a.taken < LongestKept(kind[j])
          BY <1>4, <3>1 DEF ReadSound
        <4>3. acted' = [acted EXCEPT ![j] = a]
          BY <2>2
        <4> HIDE DEF a
        <4>4. \A i \in Jobs : i # j => job'[i].why = job[i].why
          BY <1>1, <2>2, OnlyStarted
        <4> QED
          BY <1>1, <4>1, <4>2, <4>3, <4>4, ActsOnRead
      <3>2. CASE r.signal # "clean"
        <4> DEFINE a == [taken |-> r.taken, failed |-> r.failed]
        <4>1. a \in [taken : Int, failed : BOOLEAN]
          BY <1>4 DEF ReadSound
        <4>2. job' = Started(j, "planned") /\ acted' = [acted EXCEPT ![j] = a]
          BY <2>2, <3>2
        <4> HIDE DEF a
        <4>3. job'[j].why = "planned" /\ \A i \in Jobs : i # j => job'[i].why = job[i].why
          BY <1>1, <4>2 DEF CopiesInv, JobRecords, Started
        <4> QED
          BY <1>1, <4>1, <4>2, <4>3, ActsOnRead
      <3> QED
        BY <3>1, <3>2
    <2>3. CASE /\ job' = [job EXCEPT ![j].phase = "waiting", ![j].left = DeferHours(s, None, MaxWait)]
               /\ UNCHANGED acted
      BY <1>1, <2>3, CountdownBounded, OtherReason, NoneActs
    <2> QED
      BY <1>3, <2>1, <2>2, <2>3
  <1>6. ServerInv' /\ FlightInv'
    BY <1>3, <1>4 DEF ReadSound, ServerInv, FlightInv, Aged, InFlight
  <1> QED
    BY <1>1, <1>5, <1>6 DEF RecentInv, CopiesInv, ClientInv, ClientTypes, Aged

\* The other steps of a job read no signal.
LEMMA OtherJobStepsRecent ==
  ASSUME RecentInv, ClientInv', NEW j \in Jobs,
         Begin(j) \/ RestartTrigger(j) \/ RunPlanned(j) \/ WakePlanned(j)
  PROVE  RecentInv'
  <1>1. CopiesInv /\ UNCHANGED <<kind, acted, server, flight, sdk>>
    BY DEF RecentInv, Begin, RestartTrigger, RunPlanned, WakePlanned
  <1>2. \A i \in Jobs : job'[i].why = "clean" => job[i].why = "clean"
    <2>1. CASE Begin(j) \/ RestartTrigger(j) \/ WakePlanned(j)
      BY <1>1, <2>1, OtherReason DEF Begin, RestartTrigger, WakePlanned
    <2>2. CASE RunPlanned(j)
      <3>1. ASSUME NEW f \in Forecasts,
                   LET plan == ChooseRunIndex(f, None, MaxWait, {}, MinSavings)
                   IN  job' = IF plan.hour = 0 THEN Started(j, "planned")
                              ELSE [job EXCEPT ![j].phase = "waiting", ![j].left = plan.hour]
            PROVE  \A i \in Jobs : job'[i].why = "clean" => job[i].why = "clean"
        BY <1>1, <3>1, PlanBounded, OtherReason
      <3> QED
        BY <1>1, <2>2, <3>1, OtherReason DEF RunPlanned
    <2> QED
      BY <2>1, <2>2
  <1> QED
    BY <1>1, <1>2, NoneActs, CopiesKept

\* A step that leaves the jobs and their clients alone acts on nothing.
LEMMA NoneActsAlone ==
  ASSUME RecentInv, UNCHANGED <<kind, job, acted>>
  PROVE  ActedOnRecent' /\ acted' \in [Jobs -> [taken : Int, failed : BOOLEAN]]
  BY NoneActs

\* A step that replaces copies and fetches of the API by sound ones.
LEMMA ApiStepRecent ==
  ASSUME RecentInv, ClientInv', UNCHANGED <<kind, job, acted, sdk>>, ServerInv', FlightInv'
  PROVE  RecentInv'
  BY NoneActsAlone DEF RecentInv, CopiesInv, ClientInv, ClientTypes, Aged

LEMMA FetchRecent ==
  ASSUME RecentInv, ClientInv', NEW c \in Sources, Fetch(c)
  PROVE  RecentInv'
  <1>1. ServerInv /\ FlightInv
    BY DEF RecentInv, CopiesInv
  <1>2. NewCopy \in Copies /\ InFlight(NewCopy)
    BY FreshCopy, WaitingAssumption DEF InFlight
  <1>3. flight' = [flight EXCEPT ![c] = NewCopy] /\ UNCHANGED server
    BY DEF Fetch
  <1>4. FlightInv'
    BY <1>1, <1>2, <1>3 DEF FlightInv, InFlight
  <1>5. ServerInv'
    BY <1>1, <1>3 DEF ServerInv, Aged
  <1> QED
    BY <1>4, <1>5, ApiStepRecent DEF Fetch

\* What is stored is as old as its fetch took.
LEMMA StoreRecent ==
  ASSUME RecentInv, ClientInv', NEW c \in Sources, Store(c)
  PROVE  RecentInv'
  <1> DEFINE new == [flight[c] EXCEPT !.age = 0]
  <1>1. ServerInv /\ FlightInv
    BY DEF RecentInv, CopiesInv
  <1>2. flight[c] \in [taken : Nat, age : Nat] /\ flight[c].taken <= RequestTime
    BY <1>1 DEF Store, FlightInv, InFlight, Copies, NoCopy, Held
  <1>3. new \in Copies /\ Aged(new, RequestTime)
    <2>1. new \in [taken : Nat, age : Nat] /\ new.taken = flight[c].taken /\ new.age = 0
      BY <1>2
    <2> HIDE DEF new
    <2> QED
      BY <1>2, <2>1, WaitingAssumption DEF Copies, Aged
  <1>4. server' = [server EXCEPT ![c] = new] /\ flight' = [flight EXCEPT ![c] = NoCopy]
    BY DEF Store
  <1> HIDE DEF new
  <1>5. ServerInv'
    BY <1>1, <1>3, <1>4 DEF ServerInv, Aged
  <1>6. FlightInv'
    BY <1>1, <1>4, FreshCopy DEF FlightInv, InFlight
  <1> QED
    BY <1>5, <1>6, ApiStepRecent DEF Store

LEMMA LoseRecent ==
  ASSUME RecentInv, ClientInv', NEW c \in Sources, Lose(c)
  PROVE  RecentInv'
  <1>1. ServerInv /\ FlightInv
    BY DEF RecentInv, CopiesInv
  <1>2. flight' = [flight EXCEPT ![c] = NoCopy] /\ UNCHANGED server
    BY DEF Lose
  <1>3. FlightInv'
    BY <1>1, <1>2, FreshCopy DEF FlightInv, InFlight
  <1>4. ServerInv'
    BY <1>1, <1>2 DEF ServerInv, Aged
  <1> QED
    BY <1>3, <1>4, ApiStepRecent DEF Lose

\* Ages grow together.
LEMMA OlderAged ==
  ASSUME NEW c \in Copies \cup SignalCopies, NEW extra \in Nat, Aged(c, extra)
  PROVE  Aged(Older(c), extra)
  <1>1. OldAge \in Nat
    BY WaitingAssumption DEF OldAge
  <1>2. CASE ~Held(c)
    BY <1>2, OlderCopy DEF Aged
  <1>3. CASE Held(c)
    <2>1. c.taken <= c.age + extra /\ c.taken \in Nat /\ c.age \in Nat
      BY <1>3 DEF Aged
    <2>2. /\ Older(c).taken = IF c.taken + 1 <= OldAge THEN c.taken + 1 ELSE OldAge
          /\ Older(c).age = IF c.age + 1 <= OldAge THEN c.age + 1 ELSE OldAge
      BY <1>3, OlderCopy
    <2>3. Older(c).taken <= Older(c).age + extra /\ Older(c).taken \in Nat /\ Older(c).age \in Nat
      BY <1>1, <2>1, <2>2
    <2> QED
      BY <2>3 DEF Aged
  <1> QED
    BY <1>2, <1>3

LEMMA TickRecent ==
  ASSUME RecentInv, ClientInv, ClientInv', Tick
  PROVE  RecentInv'
  <1>1. /\ CopiesInv /\ UNCHANGED <<kind, acted>>
        /\ job' = [j \in Jobs |-> IF Waiting(j) THEN Pass(j) ELSE job[j]]
        /\ server' = [c \in Sources |-> Served(c, Older(server[c]))]
        /\ flight' = [c \in Sources |-> Older(flight[c])]
        /\ sdk' = [j \in Jobs |-> Older(sdk[j])]
    BY DEF RecentInv, Tick
  <1>2. \A j \in Jobs : job'[j].why = job[j].why
    <2>1. ASSUME NEW j \in Jobs PROVE Pass(j).why = job[j].why
      BY <1>1 DEF Pass, CopiesInv, JobRecords
    <2> QED
      BY <1>1, <2>1
  <1>3. ActedOnRecent' /\ acted' \in [Jobs -> [taken : Int, failed : BOOLEAN]]
    BY <1>1, <1>2, NoneActs
  <1>4. ServerInv'
    <2>1. ASSUME NEW c \in Sources
          PROVE  Served(c, Older(server[c])) \in Copies /\ Aged(Served(c, Older(server[c])), RequestTime)
      <3>1. server[c] \in Copies /\ Aged(server[c], RequestTime)
        BY <1>1 DEF CopiesInv, ServerInv
      <3>2. Older(server[c]) \in Copies /\ Aged(Older(server[c]), RequestTime)
        BY <3>1, OlderAged, OlderCopy, WaitingAssumption
      <3>3. NoCopy \in Copies /\ Aged(NoCopy, RequestTime)
        BY FreshCopy DEF Aged
      <3> QED
        BY <3>2, <3>3 DEF Served
    <2>2. ASSUME NEW c \in Sources PROVE server'[c] \in Copies /\ Aged(server'[c], RequestTime)
      BY <1>1, <2>1
    <2> QED
      BY <1>1, <2>2 DEF ServerInv, Aged
  <1>5. FlightInv'
    <2>1. OldAge \in Nat /\ RequestTime < OldAge /\ RequestTime \in Nat
      BY WaitingAssumption DEF OldAge
    <2>2. ASSUME NEW c \in Sources
          PROVE  Older(flight[c]) \in Copies /\ InFlight(Older(flight[c]))
      <3>1. flight[c] \in Copies /\ InFlight(flight[c])
        BY <1>1 DEF CopiesInv, FlightInv
      <3>2. Older(flight[c]) \in Copies
        BY <3>1, OlderCopy
      <3>3. CASE ~Held(flight[c])
        BY <3>1, <3>2, <3>3, OlderCopy
      <3>4. CASE Held(flight[c])
        <4>1. flight[c].taken \in Nat /\ flight[c].age = flight[c].taken /\ flight[c].age < RequestTime
          BY <3>1, <3>4 DEF Tick, InFlight
        <4>2. /\ Older(flight[c]).taken = IF flight[c].taken + 1 <= OldAge THEN flight[c].taken + 1 ELSE OldAge
              /\ Older(flight[c]).age = IF flight[c].age + 1 <= OldAge THEN flight[c].age + 1 ELSE OldAge
          BY <3>1, <3>4, OlderCopy
        <4>3. /\ Older(flight[c]).taken \in Nat /\ Older(flight[c]).age = Older(flight[c]).taken
              /\ Older(flight[c]).age <= RequestTime
          BY <2>1, <4>1, <4>2
        <4> QED
          BY <3>2, <4>3 DEF InFlight
      <3> QED
        BY <3>3, <3>4
    <2>3. ASSUME NEW c \in Sources PROVE flight'[c] \in Copies /\ InFlight(flight'[c])
      BY <1>1, <2>2
    <2> QED
      BY <1>1, <2>3 DEF FlightInv, InFlight
  <1>6. sdk' \in [Jobs -> SignalCopies] /\ \A j \in Jobs : Aged(sdk'[j], 0)
    <2>1. ASSUME NEW j \in Jobs
          PROVE  Older(sdk[j]) \in SignalCopies /\ Aged(Older(sdk[j]), 0)
      <3>1. sdk[j] \in SignalCopies /\ Aged(sdk[j], 0)
        BY <1>1 DEF CopiesInv
      <3> QED
        BY <3>1, OlderAged, OlderCopy
    <2> QED
      BY <1>1, <2>1
  <1> QED
    BY <1>1, <1>3, <1>4, <1>5, <1>6 DEF RecentInv, CopiesInv, ClientInv, ClientTypes, Aged

LEMMA InitRecent == ClientsInit => RecentInv
  <1> SUFFICES ASSUME ClientsInit PROVE RecentInv
    OBVIOUS
  <1>1. kind \in [Jobs -> Kinds] /\ job \in [Jobs -> JobRecords]
    BY InitClients DEF ClientInv, ClientTypes
  <1>2. acted \in [Jobs -> [taken : Int, failed : BOOLEAN]] /\ \A j \in Jobs : job[j].why = "none"
    BY DEF ClientsInit, None
  <1>3. ServerInv /\ FlightInv
    BY FreshCopy DEF ClientsInit, ServerInv, FlightInv, Aged, InFlight
  <1>4. sdk \in [Jobs -> SignalCopies] /\ \A j \in Jobs : Aged(sdk[j], 0)
    BY FreshCopy DEF ClientsInit, Aged
  <1> QED
    BY <1>1, <1>2, <1>3, <1>4 DEF RecentInv, CopiesInv, ActedOnRecent

LEMMA NextRecent == RecentInv /\ ClientInv /\ ClientInv' /\ [ClientsNext]_clientVars => RecentInv'
  <1> SUFFICES ASSUME RecentInv, ClientInv, ClientInv', [ClientsNext]_clientVars PROVE RecentInv'
    OBVIOUS
  <1>1. ASSUME NEW j \in Jobs, Begin(j) \/ RestartTrigger(j) \/ RunPlanned(j) \/ WakePlanned(j)
        PROVE  RecentInv'
    BY <1>1, OtherJobStepsRecent
  <1>2. ASSUME NEW j \in Jobs, PollSignal(j) PROVE RecentInv'
    BY <1>2, PollSignalRecent
  <1>3. ASSUME NEW j \in Jobs, ApplyWhenClean(j) PROVE RecentInv'
    BY <1>3, ApplyWhenCleanRecent
  <1>4. ASSUME NEW c \in Sources, Fetch(c) \/ Store(c) \/ Lose(c) PROVE RecentInv'
    BY <1>4, FetchRecent, StoreRecent, LoseRecent
  <1>5. CASE Tick
    BY <1>5, TickRecent
  <1>6. CASE UNCHANGED clientVars
    BY <1>6, NoneActsAlone, CopiesKept DEF clientVars
  <1> QED
    BY <1>1, <1>2, <1>3, <1>4, <1>5, <1>6 DEF ClientsNext

(***************************************************************************)
(* The readings that a clean start rests on left the CDN or the operator   *)
(* less long ago than a copy is served and one fetch may take, through the *)
(* SDK's copy, the API's of the snapshot and its IntensityCache, unless    *)
(* the client's own fetch had failed (sdk.py _load_snapshot,               *)
(* snapshot_source.py, cache.py).                                          *)
(***************************************************************************)
THEOREM ClientsActOnRecent == ClientsSpec => []ActedOnRecent
  <1>1. ClientsInit => ClientInv /\ RecentInv
    BY InitClients, InitRecent
  <1>2. ClientInv /\ RecentInv /\ [ClientsNext]_clientVars => ClientInv' /\ RecentInv'
    BY NextRefines, NextRecent DEF Refines
  <1>3. RecentInv => ActedOnRecent
    BY DEF RecentInv
  <1> QED
    BY <1>1, <1>2, <1>3, PTL DEF ClientsSpec
=============================================================================
