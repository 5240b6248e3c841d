--------------------------- MODULE QuestionsProofs --------------------------
(***************************************************************************)
(* Theorems about the stateless requests, for every set of questions that  *)
(* satisfies QuestionsAssumption, and about the compliance records, whose  *)
(* sums are added up by the same lemmas as the ledger's.                   *)
(*                                                                         *)
(* A behaviour of Questions is a question and its answer, so the invariant *)
(* says no more than that the answer is what the engine makes of the       *)
(* question (Replies).  The work is in the lemmas about the engines.       *)
(***************************************************************************)
EXTENDS Questions, Compliance, FiniteSetTheorems, SequenceTheorems, WellFoundedInduction, TLAPS

----------------------------------------------------------------------------
(* The answers are the engines'.                                           *)

PlanAnswer ==
    [index |-> ChooseRunIndex(question.regions[1].intensities, question.cap, question.maxWait,
                              question.regions[1].surplus, question.minSavings),
     plan |-> ChooseRunPlan(question.regions, question.cap, question.maxWait, question.minSavings)]
BatchAnswer ==
    SnapshotBatch(ZoneMapFromIntensities(question.snapshot), Chain, question.mock, question.zones)
SingleAnswers ==
    [z \in question.zones |->
        SnapshotSingle(ZoneMapFromIntensities(question.snapshot), Chain, question.mock, z)]

RouteAnswer ==
    LET routed == Route(question.map, question.req, question.readings)
    IN  [routed |-> routed,
         savings |-> TrackerReport(IF routed = NoRoute THEN <<>>
                                   ELSE <<TrackerRecord(TrackedRoute(routed))>>)]

LedgerAnswer ==
    LET e == question.entries
        statement == OrgStatement(e, question.now, question.days)
    IN  [host |-> Summarize(e, question.now, question.days),
         fleet |-> FleetSummary(e, question.now, question.days, question.top),
         statement |-> statement, disclosure |-> DisclosureMarkdown(statement),
         byRegion |-> CalibrationByRegion(e, question.now, question.days)]

ScheduleAnswer ==
    [window |-> FindOptimalWindow(question.env, question.req),
     now |-> BestRegionNow(question.env, question.req.minutes, question.req.providers)]

(* What is asked is one of the questions, and what is answered is what the *)
(* engine of its kind makes of it.                                         *)
Replies ==
    /\ question.kind \in DOMAIN Asked
    /\ question \in Asked[question.kind]
    /\ Replied("signal") =>
          answer = BuildSignal(question.points, question.current, question.measured)
    /\ Replied("plan") => answer = PlanAnswer
    /\ Replied("readings") => answer.batch = BatchAnswer /\ answer.single = SingleAnswers
    /\ Replied("route") => answer = RouteAnswer
    /\ Replied("ledger") => answer = LedgerAnswer
    /\ Replied("schedule") => answer = ScheduleAnswer
    /\ Replied("sla") =>
          answer = [checks |-> ChecksOf(question.sla), report |-> AttestationReport(ChecksOf(question.sla))]

\* The question asked is one of those of its kind.
LEMMA QuestionAsked ==
  ASSUME QuestionsInit
  PROVE  question.kind \in DOMAIN Asked /\ question \in Asked[question.kind]
  BY QuestionsAssumption DEF QuestionsInit

\* A request is answered once, by the engine of its kind.
LEMMA RepliesInvariant == QuestionsSpec => []Replies
  <1>1. QuestionsInit => Replies
    <2> SUFFICES ASSUME QuestionsInit PROVE Replies
      OBVIOUS
    <2> QED
      BY QuestionAsked DEF QuestionsInit, Replies, Replied
  <1>2. Replies /\ [QuestionsNext]_questionVars => Replies'
    <2> SUFFICES ASSUME Replies, [QuestionsNext]_questionVars PROVE Replies'
      OBVIOUS
    <2>1. CASE UNCHANGED questionVars
      BY <2>1 DEF Replies, Replied, questionVars, PlanAnswer, BatchAnswer, SingleAnswers, Chain,
           RouteAnswer, LedgerAnswer, ScheduleAnswer, ChecksOf
    <2>2. ASSUME NEW kind, NEW result, Answer(kind, result),
                 kind \notin {"signal", "plan", "readings", "route", "ledger", "schedule", "sla"}
          PROVE  Replies'
      BY <2>2 DEF Replies, Replied, Answer
    <2>3. CASE AnswerSignal
      BY <2>3 DEF AnswerSignal, Answer, Replies, Replied
    <2>4. CASE AnswerPlan
      BY <2>4 DEF AnswerPlan, Answer, Replies, Replied, PlanAnswer
    <2>5. CASE AnswerReadings
      BY <2>5 DEF AnswerReadings, Answer, Replies, Replied, BatchAnswer, SingleAnswers, Chain
    <2>6. CASE AnswerSLA
      BY <2>6 DEF AnswerSLA, Answer, Replies, Replied, ChecksOf
    <2>7. CASE AnswerRoute
      BY <2>7 DEF AnswerRoute, Answer, Replies, Replied, RouteAnswer
    <2>8. CASE AnswerLedger
      BY <2>8 DEF AnswerLedger, Answer, Replies, Replied, LedgerAnswer
    <2>9. CASE AnswerSchedule
      BY <2>9 DEF AnswerSchedule, Answer, Replies, Replied, ScheduleAnswer
    <2> QED
      BY <2>1, <2>2, <2>3, <2>4, <2>5, <2>6, <2>7, <2>8, <2>9 DEF QuestionsNext, AnswerPatterns,
           AnswerFeeds, AnswerEstimates, AnswerMarginal, AnswerFlows
  <1> QED
    BY <1>1, <1>2, PTL DEF QuestionsSpec

----------------------------------------------------------------------------
(* Least elements.                                                         *)

\* Of a non-empty set of naturals one is the least.
LEMMA LeastExists ==
  ASSUME NEW S \in SUBSET Nat, S # {}
  PROVE  /\ Least(S) \in S
         /\ \A y \in S : Least(S) <= y
  <1>1. PICK x \in S : \A y \in S : <<y, x>> \notin OpToRel(<, Nat)
    BY WFMin, NatLessThanWellFounded
  <1>2. \A y \in S : ~(y < x)
    BY <1>1 DEF OpToRel
  <1>3. \A y \in S : x <= y
    BY <1>2
  <1> QED
    BY <1>3 DEF Least

\* The least of two integers is the smaller.
LEMMA LeastOfTwo ==
  ASSUME NEW a \in Int, NEW b \in Int
  PROVE  Least({a, b}) = IF a <= b THEN a ELSE b
  <1> DEFINE m == IF a <= b THEN a ELSE b
  <1>1. m \in {a, b} /\ \A y \in {a, b} : m <= y
    OBVIOUS
  <1>2. \A x \in {a, b} : (\A y \in {a, b} : x <= y) => x = m
    OBVIOUS
  <1> QED
    BY <1>1, <1>2 DEF Least

\* The indices and the elements of a sequence with any.
LEMMA SequenceFacts ==
  ASSUME NEW S, NEW s \in Seq(S), s # <<>>
  PROVE  /\ Len(s) \in Nat \ {0}
         /\ DOMAIN s = 1 .. Len(s)
         /\ 1 \in 1 .. Len(s)
         /\ \A i \in 1 .. Len(s) : s[i] \in S
         /\ Range(s) = {s[i] : i \in 1 .. Len(s)}
  <1>1. Len(s) \in Nat \ {0} /\ DOMAIN s = 1 .. Len(s) /\ \A i \in 1 .. Len(s) : s[i] \in S
    BY EmptySeq
  <1> QED
    BY <1>1 DEF Range

----------------------------------------------------------------------------
(* The signal and its readers.                                             *)

\* A sequence of naturals has a least element, and a first such.
LEMMA CleanestAheadIsAnHour ==
  ASSUME NEW points \in Seq(ReadingRecords), points # <<>>
  PROVE  CleanestAhead(points) \in 0 .. Len(points) - 1
  <1> DEFINE carbons == {p.carbon : p \in Range(points)}
             hours == {h \in 0 .. Len(points) - 1 : points[h + 1].carbon = Least(carbons)}
  <1>1. DOMAIN points = 1 .. Len(points) /\ Len(points) \in Nat \ {0}
    BY SequenceFacts
  <1>2. carbons \in SUBSET Nat /\ carbons # {}
    <2>1. \A i \in 1 .. Len(points) : points[i].carbon \in Nat
      <3>1. \A i \in 1 .. Len(points) : points[i] \in ReadingRecords
        BY SequenceFacts
      <3> QED
        BY <3>1 DEF ReadingRecords
    <2>2. Range(points) = {points[i] : i \in 1 .. Len(points)} /\ 1 \in 1 .. Len(points)
      BY SequenceFacts
    <2>3. \A p \in Range(points) : p.carbon \in Nat
      BY <2>1, <2>2
    <2>4. points[1] \in Range(points)
      BY <2>2
    <2> QED
      BY <2>3, <2>4
  <1>3. PICK i \in 1 .. Len(points) : points[i].carbon = Least(carbons)
    <2>1. Least(carbons) \in carbons
      <3> HIDE DEF carbons
      <3> QED
        BY <1>2, LeastExists
    <2>2. PICK p \in Range(points) : p.carbon = Least(carbons)
      BY <2>1
    <2>3. PICK i \in DOMAIN points : points[i] = p
      BY DEF Range
    <2> QED
      BY <1>1, <2>2, <2>3
  <1> HIDE DEF carbons
  <1>4. hours \in SUBSET Nat
    OBVIOUS
  <1>5. i - 1 \in hours
    <2>1. i - 1 \in 0 .. Len(points) - 1 /\ (i - 1) + 1 = i
      BY <1>1, <1>3
    <2> QED
      BY <1>3, <2>1
  <1>6. Least(hours) \in hours
    <2> HIDE DEF hours
    <2> QED
      BY <1>4, <1>5, LeastExists
  <1>7. Least(hours) = CleanestAhead(points)
    BY DEF CleanestAhead, carbons
  <1> QED
    BY <1>6, <1>7

\* The surplus hours ahead of now, and their first.
LEMMA SoonestSurplus ==
  ASSUME NEW points \in Seq(ReadingRecords), points # <<>>
  PROVE  LET ahead == {h \in SurplusOffsets(points) : h >= 1}
         IN  ahead # {} => Least(ahead) \in Nat \ {0}
  <1> DEFINE ahead == {h \in SurplusOffsets(points) : h >= 1}
  <1>1. ahead \in SUBSET (Nat \ {0})
    BY DEF SurplusOffsets
  <1> HIDE DEF ahead
  <1>2. ahead # {} => Least(ahead) \in ahead
    BY <1>1, LeastExists
  <1> QED
    BY <1>1, <1>2 DEF ahead

(* What the readers rely on: a window is named only with the advice to     *)
(* wait, lies ahead, and there is one whenever waiting is advised.         *)
SignalShape(s) ==
    /\ s.intensity \in Int
    /\ s.surplus \in BOOLEAN
    /\ s.advice \in {"run_now", "wait_for_cleaner"}
    /\ s.surplus => s.advice = "run_now"
    /\ s.advice = "run_now" => s.windowCarbon = None
    /\ s.advice = "wait_for_cleaner" => s.windowHours \in Nat \ {0}
    /\ s.windowHours \in Nat \cup {None}
    /\ s.surplusWindow \in Nat \cup {None}

\* build_signal answers a signal of that shape.
LEMMA SignalHasShape ==
  ASSUME NEW q, IsSignalQuestion(q)
  PROVE  SignalShape(BuildSignal(q.points, q.current, q.measured))
  <1>1. /\ q.points \in Seq(ReadingRecords) /\ q.points # <<>>
        /\ q.points[1].carbon \in Nat
    <2>1. q.points \in Seq(ReadingRecords) /\ q.points # <<>>
      BY DEF IsSignalQuestion
    <2>2. q.points[1] \in ReadingRecords
      BY <2>1, SequenceFacts
    <2> QED
      BY <2>1, <2>2 DEF ReadingRecords
  <1> DEFINE now == q.points[1].carbon
             marginal == Marginal(q.current, q.measured)
             surplus == IsCleanSurplus(Reading(now, q.current.renewable, marginal))
             ahead == {h \in SurplusOffsets(q.points) : h >= 1}
             soonest == IF ahead = {} THEN None ELSE Least(ahead)
             cleanest == CleanestAhead(q.points)
             s == BuildSignal(q.points, q.current, q.measured)
  <1>2. soonest \in (Nat \ {0}) \cup {None}
    BY <1>1, SoonestSurplus
  <1>3. cleanest \in Nat
    BY <1>1, CleanestAheadIsAnHour
  <1>4. surplus \in BOOLEAN
    BY DEF IsCleanSurplus
  <1>5. RoundDiv(now, 100) \in Int
    BY <1>1 DEF RoundDiv
  <1>6. NotablyCleaner(q.points) => cleanest \in Nat \ {0}
    BY <1>3 DEF NotablyCleaner
  <1> DEFINE signal(window, note) ==
            [state |-> SignalState(now), intensity |-> RoundDiv(now, 100),
             advice |-> IF window = None THEN "run_now" ELSE "wait_for_cleaner",
             windowHours |-> window,
             windowCarbon |-> IF window = None THEN None ELSE q.points[window + 1].carbon,
             surplus |-> surplus, surplusWindow |-> soonest, note |-> note,
             basis |-> IF q.measured = None THEN "heuristic" ELSE "measured"]
  <1>7. s = IF surplus THEN signal(None, "surplus_now")
            ELSE IF soonest # None THEN signal(soonest, "surplus_ahead")
            ELSE IF SignalState(now) = "green" \/ ~NotablyCleaner(q.points)
                 THEN signal(None, MarginalNote(now, marginal))
            ELSE signal(cleanest, MarginalNote(now, marginal))
    BY DEF BuildSignal
  <1>8. ASSUME NEW note PROVE SignalShape(signal(None, note))
    <2> HIDE DEF surplus, soonest, now
    <2> QED
      BY <1>2, <1>4, <1>5 DEF SignalShape
  <1>9. ASSUME NEW note, NEW window \in Nat \ {0}, ~surplus
        PROVE  SignalShape(signal(window, note))
    <2> HIDE DEF surplus, soonest, now
    <2> QED
      BY <1>2, <1>4, <1>5, <1>9 DEF SignalShape, None
  <1> HIDE DEF surplus, soonest, now, cleanest, signal, s
  <1> QED
    <2>1. CASE surplus
      BY <2>1, <1>7, <1>8 DEF s
    <2>2. CASE ~surplus /\ soonest # None
      BY <2>2, <1>2, <1>7, <1>9 DEF s
    <2>3. CASE /\ ~surplus /\ soonest = None
               /\ SignalState(now) = "green" \/ ~NotablyCleaner(q.points)
      BY <2>3, <1>7, <1>8 DEF s
    <2>4. CASE /\ ~surplus /\ soonest = None
               /\ ~(SignalState(now) = "green" \/ ~NotablyCleaner(q.points))
      BY <2>4, <1>6, <1>7, <1>9 DEF s
    <2> QED
      BY <2>1, <2>2, <2>3, <2>4

\* Whatever reads a signal of that shape decides alike.
LEMMA ReadersAgree ==
  ASSUME NEW s, SignalShape(s), NEW cap \in Nat \cup {None}, NEW wait \in Nat
  PROVE  LET good == IsGoodTime(s, cap)
             hours == DeferHours(s, cap, wait)
         IN  /\ good <=> ~ShouldSuspend(s, cap)
             /\ good \/ wait = 0 <=> hours = 0
             /\ hours <= wait
             /\ ChooseByCarbon(s, "clean", "dirty", cap) = "clean" <=> good
             /\ s.advice = "run_now" => ImpactFromSignal("r", s, hours).reduction = 0
  <1> DEFINE good == IsGoodTime(s, cap)
             hours == DeferHours(s, cap, wait)
  <1>1. good <=> ~ShouldSuspend(s, cap)
    BY DEF SignalShape, IsGoodTime, ShouldSuspend, UnderCap, None
  <1>2. CASE good
    <2>1. hours = 0
      BY <1>2 DEF DeferHours
    <2> QED
      BY <1>1, <1>2, <2>1 DEF ChooseByCarbon, ImpactFromSignal, SignalShape
  <1>3. CASE ~good
    <2> DEFINE soonest == SoonestCleanWindowHours(s, wait)
    <2>1. soonest \in Nat \ {0} \/ soonest = wait
      BY DEF SoonestCleanWindowHours, SignalShape, None
    <2>2. hours = Least({soonest, wait})
      BY <1>3 DEF DeferHours
    <2>3. hours = IF soonest <= wait THEN soonest ELSE wait
      <3> HIDE DEF soonest, hours
      <3> QED
        BY <2>1, <2>2, LeastOfTwo
    <2>4. hours <= wait /\ (hours = 0 <=> wait = 0)
      <3> HIDE DEF soonest, hours
      <3> QED
        BY <2>1, <2>3
    <2>5. ChooseByCarbon(s, "clean", "dirty", cap) = "dirty"
      BY <1>3 DEF ChooseByCarbon
    <2>6. s.advice = "run_now" => ImpactFromSignal("r", s, hours).reduction = 0
      BY DEF ImpactFromSignal, SignalShape
    <2> QED
      BY <1>1, <1>3, <2>4, <2>5, <2>6
  <1> QED
    BY <1>2, <1>3

(***************************************************************************)
(* SDK, Celery and the Kubernetes controller agree on every signal that    *)
(* GET /signal answers (build_signal, is_good_time, defer_seconds,         *)
(* should_suspend), whatever the forecast, the cap and the time agreed to. *)
(***************************************************************************)
THEOREM SignalClientsAgree == QuestionsSpec => []ClientsAgree
  <1>1. Replies => ClientsAgree
    <2> SUFFICES ASSUME Replies, Replied("signal") PROVE ClientsAgree
      BY DEF ClientsAgree
    <2>1. IsSignalQuestion(question)
      BY QuestionsAssumption DEF Replies, Replied
    <2>2. SignalShape(answer)
      BY <2>1, SignalHasShape DEF Replies
    <2>3. question.cap \in Nat \cup {None} /\ question.maxWait \in Nat
      BY <2>1 DEF IsSignalQuestion
    <2> QED
      BY <2>2, <2>3, ReadersAgree DEF ClientsAgree
  <1> QED
    BY <1>1, RepliesInvariant, PTL

----------------------------------------------------------------------------
(* Choosing an hour, and a region with it.                                 *)

CandidateRecords == [region : Nat, hour : Nat, carbon : Nat, surplus : BOOLEAN]

\* The window is the beginning of the forecast, up to the time agreed to.
LEMMA WindowIsPrefix ==
  ASSUME NEW f \in Seq(Nat), NEW wait \in Nat
  PROVE  /\ Window(f, wait) \in Seq(Nat)
         /\ Len(Window(f, wait)) <= wait + 1
         /\ Len(Window(f, wait)) <= Len(f)
         /\ \A i \in 1 .. Len(Window(f, wait)) : Window(f, wait)[i] = f[i]
  <1> DEFINE n == Least({Len(f), wait + 1})
  <1>1. n \in Nat /\ n <= Len(f) /\ n <= wait + 1
    BY LeastOfTwo
  <1>2. Window(f, wait) = SubSeq(f, 1, n)
    BY DEF Window
  <1> HIDE DEF n
  <1>3. \A i \in 1 .. n : f[i] \in Nat
    BY <1>1
  <1>4. /\ SubSeq(f, 1, n) \in Seq(Nat)
        /\ Len(SubSeq(f, 1, n)) = IF 1 <= n THEN n - 1 + 1 ELSE 0
        /\ \A i \in 1 .. n - 1 + 1 : SubSeq(f, 1, n)[i] = f[1 + i - 1]
    BY <1>1, <1>3, SubSeqProperties
  <1>5. Len(SubSeq(f, 1, n)) = n
    BY <1>1, <1>4
  <1> QED
    BY <1>1, <1>2, <1>4, <1>5

\* Of any candidates, the cleanest is one, and the first of those as clean.
LEMMA CleanestIsOne ==
  ASSUME NEW C \in SUBSET CandidateRecords, C # {}
  PROVE  /\ Cleanest(C) \in C
         /\ \A d \in C : \/ Cleanest(C).carbon < d.carbon
                         \/ Cleanest(C).carbon = d.carbon /\ Earlier(Cleanest(C), d)
  <1>0. \A c \in C : c.region \in Nat /\ c.hour \in Nat /\ c.carbon \in Nat
    BY DEF CandidateRecords
  <1>1. PICK a \in C : \A d \in C : a.carbon <= d.carbon
    <2> DEFINE S == {c.carbon : c \in C}
    <2>1. S \in SUBSET Nat /\ S # {}
      BY <1>0
    <2>2. Least(S) \in S /\ \A y \in S : Least(S) <= y
      <3> HIDE DEF S
      <3> QED
        BY <2>1, LeastExists
    <2> QED
      BY <2>2
  <1>2. PICK b \in C : b.carbon = a.carbon /\ \A d \in C : d.carbon = a.carbon => b.region <= d.region
    <2> DEFINE S == {c.region : c \in {d \in C : d.carbon = a.carbon}}
    <2>1. S \in SUBSET Nat /\ S # {}
      BY <1>0
    <2>2. Least(S) \in S /\ \A y \in S : Least(S) <= y
      <3> HIDE DEF S
      <3> QED
        BY <2>1, LeastExists
    <2> QED
      BY <2>2
  <1>3. PICK c \in C : /\ c.carbon = a.carbon /\ c.region = b.region
                       /\ \A d \in C : d.carbon = a.carbon /\ d.region = b.region => c.hour <= d.hour
    <2> DEFINE S == {e.hour : e \in {d \in C : d.carbon = a.carbon /\ d.region = b.region}}
    <2>1. S \in SUBSET Nat /\ S # {}
      BY <1>0, <1>2
    <2>2. Least(S) \in S /\ \A y \in S : Least(S) <= y
      <3> HIDE DEF S
      <3> QED
        BY <2>1, LeastExists
    <2> QED
      BY <2>2
  <1>4. \A d \in C : c.carbon < d.carbon \/ (c.carbon = d.carbon /\ Earlier(c, d))
    <2> TAKE d \in C
    <2>1. c.carbon <= d.carbon /\ c.carbon \in Nat /\ d.carbon \in Nat
      BY <1>0, <1>1, <1>3
    <2>2. CASE c.carbon = d.carbon
      BY <1>0, <1>2, <1>3, <2>2 DEF Earlier
    <2> QED
      BY <2>1, <2>2
  <1> QED
    BY <1>4 DEF Cleanest

\* The soonest candidate is the cleanest of those of the least hour.
LEMMA SoonestIsOne ==
  ASSUME NEW C \in SUBSET CandidateRecords, C # {}
  PROVE  Soonest(C) \in C /\ \A d \in C : Soonest(C).hour <= d.hour
  <1> DEFINE hours == {c.hour : c \in C}
             first == {c \in C : \A d \in C : c.hour <= d.hour}
  <1>1. hours \in SUBSET Nat /\ hours # {}
    <2>1. \A c \in C : c.hour \in Nat
      BY DEF CandidateRecords
    <2> QED
      BY <2>1
  <1>2. Least(hours) \in hours /\ \A y \in hours : Least(hours) <= y
    <2> HIDE DEF hours
    <2> QED
      BY <1>1, LeastExists
  <1>3. first \in SUBSET CandidateRecords /\ first # {}
    <2>1. PICK c \in C : c.hour = Least(hours)
      BY <1>2
    <2>2. \A d \in C : c.hour <= d.hour
      BY <1>2, <2>1
    <2> QED
      BY <2>2
  <1>4. Cleanest(first) \in first
    <2> HIDE DEF first
    <2> QED
      BY <1>3, CleanestIsOne
  <1> QED
    BY <1>4 DEF Soonest

\* What a question of choose_run_plan is made of.
LEMMA PlanQuestionTypes ==
  ASSUME NEW q, IsPlanQuestion(q)
  PROVE  /\ Len(q.regions) \in Nat /\ DOMAIN q.regions = 1 .. Len(q.regions)
         /\ \A r \in DOMAIN q.regions : q.regions[r].intensities \in Seq(Nat)
         /\ q.maxWait \in Nat /\ q.cap \in Nat \cup {None} /\ q.minSavings \in Int
  <1> DEFINE Region == [label : STRING, intensities : Seq(Nat), surplus : SUBSET Nat]
  <1>1. q.regions \in Seq(Region)
    BY DEF IsPlanQuestion
  <1>2. Len(q.regions) \in Nat /\ DOMAIN q.regions = 1 .. Len(q.regions)
        /\ \A r \in DOMAIN q.regions : q.regions[r] \in Region
    <2> HIDE DEF Region
    <2> QED
      BY <1>1
  <1> QED
    BY <1>2 DEF IsPlanQuestion

(* One region's hour as choose_run_plan lists it. *)
CandidateOf(regions, wait, r, h) ==
    [region |-> r, hour |-> h, carbon |-> Window(regions[r].intensities, wait)[h + 1],
     surplus |-> h \in regions[r].surplus]
HoursOf(regions, wait, r) == 0 .. Len(Window(regions[r].intensities, wait)) - 1

\* The candidates are the hours of the regions' windows.
LEMMA CandidatesAre ==
  ASSUME NEW q, IsPlanQuestion(q)
  PROVE  /\ Candidates(q.regions, q.maxWait) =
              UNION {{CandidateOf(q.regions, q.maxWait, r, h) : h \in HoursOf(q.regions, q.maxWait, r)}
                        : r \in DOMAIN q.regions}
         /\ Candidates(q.regions, q.maxWait) \in SUBSET CandidateRecords
  <1> DEFINE regions == q.regions
             wait == q.maxWait
  <1>1. wait \in Nat /\ DOMAIN regions \in SUBSET Nat
        /\ \A r \in DOMAIN regions : regions[r].intensities \in Seq(Nat)
    BY PlanQuestionTypes
  <1>2. Candidates(regions, wait) =
          UNION {{CandidateOf(regions, wait, r, h) : h \in HoursOf(regions, wait, r)} : r \in DOMAIN regions}
    BY DEF Candidates, CandidateOf, HoursOf
  <1>3. ASSUME NEW r \in DOMAIN regions, NEW h \in HoursOf(regions, wait, r)
        PROVE  CandidateOf(regions, wait, r, h) \in CandidateRecords
    <2> DEFINE w == Window(regions[r].intensities, wait)
    <2>1. w \in Seq(Nat)
      BY <1>1, WindowIsPrefix
    <2> HIDE DEF w, regions, wait
    <2>2. h \in 0 .. Len(w) - 1
      BY DEF HoursOf, w
    <2>3. w[h + 1] \in Nat
      BY <2>1, <2>2
    <2>4. (h \in regions[r].surplus) \in BOOLEAN
      OBVIOUS
    <2> QED
      BY <1>1, <2>1, <2>2, <2>3, <2>4 DEF CandidateOf, CandidateRecords, w
  <1> QED
    BY <1>2, <1>3

\* Where there are candidates, some are of the hour that runs now.
LEMMA SomeRunNow ==
  ASSUME NEW q, IsPlanQuestion(q), Candidates(q.regions, q.maxWait) # {}
  PROVE  {c \in Candidates(q.regions, q.maxWait) : c.hour = 0} # {}
  <1>1. PICK r \in DOMAIN q.regions : \E h \in HoursOf(q.regions, q.maxWait, r) : TRUE
    BY CandidatesAre
  <1>2. q.regions[r].intensities \in Seq(Nat) /\ q.maxWait \in Nat
    BY PlanQuestionTypes
  <1>3. 0 \in HoursOf(q.regions, q.maxWait, r)
    BY <1>1, <1>2, WindowIsPrefix DEF HoursOf
  <1>4. CandidateOf(q.regions, q.maxWait, r, 0) \in Candidates(q.regions, q.maxWait)
    BY <1>3, CandidatesAre
  <1>5. CandidateOf(q.regions, q.maxWait, r, 0).hour = 0
    BY DEF CandidateOf
  <1> QED
    BY <1>4, <1>5

(* The candidate a plan rests on, and what its reason says of it. *)
Chosen(q, c) ==
    LET cands == Candidates(q.regions, q.maxWait)
        plan == ChooseRunPlan(q.regions, q.cap, q.maxWait, q.minSavings)
    IN  /\ c \in cands
        /\ plan.label = q.regions[c.region].label
        /\ plan.hour = c.hour
        /\ plan.reason \in {"now", "cleanest", "cleanest_fallback"} => c = Cleanest(cands)
        /\ plan.reason = "now_no_benefit" =>
              /\ c.carbon # 0
              /\ ~WorthWaiting(c.carbon, Cleanest(cands).carbon, q.minSavings)

\* A plan made of any candidates rests on one of them.
LEMMA PlanRestsOnCandidate ==
  ASSUME NEW q, IsPlanQuestion(q), Candidates(q.regions, q.maxWait) # {}
  PROVE  \E c \in Candidates(q.regions, q.maxWait) : Chosen(q, c)
  <1> DEFINE regions == q.regions
             cap == q.cap
             cands == Candidates(regions, q.maxWait)
             surplus == {c \in cands : c.surplus}
             under == {c \in cands : cap # None /\ c.carbon <= cap}
             now == {c \in cands : c.hour = 0}
             best == Cleanest(cands)
             bestNow == Cleanest(now)
             plan == ChooseRunPlan(regions, cap, q.maxWait, q.minSavings)
             pick(c, reason) == [label |-> regions[c.region].label, hour |-> c.hour, reason |-> reason]
  <1>1. cands \in SUBSET CandidateRecords /\ cands # {} /\ now # {}
    BY CandidatesAre, SomeRunNow
  <1>2. best \in cands /\ bestNow \in now
    <2> HIDE DEF cands
    <2> QED
      BY <1>1, CleanestIsOne
  <1>3. surplus \cap now # {} => Cleanest(surplus \cap now) \in cands
    <2> HIDE DEF cands
    <2> QED
      BY <1>1, CleanestIsOne
  <1>4. surplus # {} => Soonest(surplus) \in cands
    <2> HIDE DEF cands
    <2> QED
      BY <1>1, SoonestIsOne
  <1>5. under # {} => Soonest(under) \in cands
    <2> HIDE DEF cands
    <2> QED
      BY <1>1, SoonestIsOne
  <1>6. plan = IF surplus \cap now # {} THEN pick(Cleanest(surplus \cap now), "surplus_now")
               ELSE IF surplus # {} THEN pick(Soonest(surplus), "surplus")
               ELSE IF under # {} THEN pick(Soonest(under), "threshold")
               ELSE IF cap # None THEN pick(best, "cleanest_fallback")
               ELSE IF best.hour = 0 THEN pick(best, "now")
               ELSE IF bestNow.carbon # 0 /\ ~WorthWaiting(bestNow.carbon, best.carbon, q.minSavings)
                    THEN pick(bestNow, "now_no_benefit")
               ELSE pick(best, "cleanest")
    BY DEF ChooseRunPlan
  <1>7. ASSUME NEW c \in cands, NEW reason \in {"surplus_now", "surplus", "threshold"},
               plan = pick(c, reason)
        PROVE  Chosen(q, c)
    BY <1>7 DEF Chosen
  <1>8. ASSUME NEW reason \in {"now", "cleanest", "cleanest_fallback"}, plan = pick(best, reason)
        PROVE  Chosen(q, best)
    BY <1>2, <1>8 DEF Chosen
  <1>9. ASSUME plan = pick(bestNow, "now_no_benefit"), bestNow.carbon # 0,
               ~WorthWaiting(bestNow.carbon, best.carbon, q.minSavings)
        PROVE  Chosen(q, bestNow)
    BY <1>2, <1>9 DEF Chosen
  <1> HIDE DEF cands, surplus, under, now, best, bestNow, plan, pick, regions, cap
  <1>10. \E c \in cands : Chosen(q, c)
    <2>1. CASE surplus \cap now # {}
      BY <2>1, <1>3, <1>6, <1>7
    <2>2. CASE surplus \cap now = {} /\ surplus # {}
      BY <2>2, <1>4, <1>6, <1>7
    <2>3. CASE surplus \cap now = {} /\ surplus = {} /\ under # {}
      BY <2>3, <1>5, <1>6, <1>7
    <2>4. CASE surplus \cap now = {} /\ surplus = {} /\ under = {}
      BY <2>4, <1>2, <1>6, <1>8, <1>9 DEF now
    <2> QED
      BY <2>1, <2>2, <2>3, <2>4
  <1> QED
    BY <1>10 DEF cands, regions

\* A candidate's figure is the forecast's, at an hour within the time agreed to.
LEMMA CandidateFacts ==
  ASSUME NEW q, IsPlanQuestion(q), NEW c \in Candidates(q.regions, q.maxWait)
  PROVE  /\ c.region \in DOMAIN q.regions
         /\ c.hour \in HoursOf(q.regions, q.maxWait, c.region)
         /\ c = CandidateOf(q.regions, q.maxWait, c.region, c.hour)
         /\ c.hour \in Nat /\ c.hour <= q.maxWait
         /\ c.carbon \in Nat
         /\ c.carbon = q.regions[c.region].intensities[c.hour + 1]
  <1>1. PICK r \in DOMAIN q.regions :
          \E h \in HoursOf(q.regions, q.maxWait, r) : c = CandidateOf(q.regions, q.maxWait, r, h)
    BY CandidatesAre
  <1>2. PICK h \in HoursOf(q.regions, q.maxWait, r) : c = CandidateOf(q.regions, q.maxWait, r, h)
    BY <1>1
  <1>3. c.region = r /\ c.hour = h /\ c.carbon = Window(q.regions[r].intensities, q.maxWait)[h + 1]
    BY <1>2 DEF CandidateOf
  <1> DEFINE f == q.regions[r].intensities
             w == Window(f, q.maxWait)
  <1>4. f \in Seq(Nat) /\ q.maxWait \in Nat
    BY PlanQuestionTypes
  <1>5. /\ w \in Seq(Nat) /\ Len(w) <= q.maxWait + 1
        /\ \A i \in 1 .. Len(w) : w[i] = f[i]
    <2> HIDE DEF f
    <2> QED
      BY <1>4, WindowIsPrefix
  <1>6. h \in 0 .. Len(w) - 1
    BY DEF HoursOf
  <1>7. h + 1 \in 1 .. Len(w) /\ h \in Nat /\ h <= q.maxWait
    <2> HIDE DEF w
    <2> QED
      BY <1>4, <1>5, <1>6
  <1>8. w[h + 1] \in Nat /\ w[h + 1] = f[h + 1]
    <2> HIDE DEF w
    <2> QED
      BY <1>5, <1>7
  <1> QED
    BY <1>2, <1>3, <1>7, <1>8

(* The figures of the hours a plan can choose from. *)
Offered(q) == UNION {Range(Window(q.regions[r].intensities, q.maxWait)) : r \in DOMAIN q.regions}

\* They are the candidates' figures.
LEMMA OfferedByCandidates ==
  ASSUME NEW q, IsPlanQuestion(q)
  PROVE  Offered(q) = {c.carbon : c \in Candidates(q.regions, q.maxWait)}
  <1> DEFINE w(r) == Window(q.regions[r].intensities, q.maxWait)
             at(r, h) == CandidateOf(q.regions, q.maxWait, r, h)
  <1>1. \A r \in DOMAIN q.regions : w(r) \in Seq(Nat)
    BY PlanQuestionTypes, WindowIsPrefix
  <1>2. ASSUME NEW r \in DOMAIN q.regions
        PROVE  Range(w(r)) = {at(r, h).carbon : h \in HoursOf(q.regions, q.maxWait, r)}
    <2>1. Range(w(r)) = {w(r)[i] : i \in 1 .. Len(w(r))}
      BY <1>1 DEF Range
    <2>2. \A h : at(r, h).carbon = w(r)[h + 1]
      BY DEF CandidateOf
    <2>3. HoursOf(q.regions, q.maxWait, r) = 0 .. Len(w(r)) - 1
      BY DEF HoursOf
    <2>4. Len(w(r)) \in Nat
      BY <1>1
    <2> HIDE DEF w, at
    <2>5. \A h \in 0 .. Len(w(r)) - 1 : h + 1 \in 1 .. Len(w(r))
      BY <2>4
    <2>6. \A i \in 1 .. Len(w(r)) : i - 1 \in 0 .. Len(w(r)) - 1 /\ at(r, i - 1).carbon = w(r)[i]
      BY <2>2, <2>4
    <2> QED
      BY <2>1, <2>2, <2>3, <2>5, <2>6
  <1>3. Candidates(q.regions, q.maxWait) =
          UNION {{at(r, h) : h \in HoursOf(q.regions, q.maxWait, r)} : r \in DOMAIN q.regions}
    BY CandidatesAre
  <1>4. Offered(q) = UNION {Range(w(r)) : r \in DOMAIN q.regions}
    BY DEF Offered
  <1> HIDE DEF w, at
  <1> QED
    BY <1>2, <1>3, <1>4

\* So the cleanest candidate has the least of them.
LEMMA CleanestIsLeast ==
  ASSUME NEW q, IsPlanQuestion(q), Candidates(q.regions, q.maxWait) # {}
  PROVE  Cleanest(Candidates(q.regions, q.maxWait)).carbon = Least(Offered(q))
  <1> DEFINE cands == Candidates(q.regions, q.maxWait)
             best == Cleanest(cands)
  <1>1. cands \in SUBSET CandidateRecords /\ \A c \in cands : c.carbon \in Nat
    BY CandidatesAre, CandidateFacts
  <1>2. Offered(q) = {c.carbon : c \in cands}
    BY OfferedByCandidates
  <1>3. best \in cands /\ \A d \in cands : best.carbon < d.carbon \/ best.carbon = d.carbon
    <2> HIDE DEF cands
    <2> QED
      BY <1>1, CleanestIsOne DEF cands
  <1> HIDE DEF cands, best
  <1>4. best.carbon \in Offered(q) /\ \A x \in Offered(q) : best.carbon <= x /\ x \in Nat
    BY <1>1, <1>2, <1>3
  <1>5. \A x \in Offered(q) : (\A y \in Offered(q) : x <= y) => x = best.carbon
    BY <1>4
  <1>6. Least(Offered(q)) = best.carbon
    BY <1>4, <1>5 DEF Least
  <1> QED
    BY <1>6 DEF best, cands

\* A plan keeps the time agreed to, and gives up cleaner hours only as it says.
LEMMA PlanKeepsPromise ==
  ASSUME NEW q, IsPlanQuestion(q)
  PROVE  LET plan == ChooseRunPlan(q.regions, q.cap, q.maxWait, q.minSavings)
             chosen == CHOOSE r \in DOMAIN q.regions : q.regions[r].label = plan.label
             carbon == q.regions[chosen].intensities[plan.hour + 1]
         IN  /\ plan.hour <= q.maxWait
             /\ Offered(q) # {} /\ plan.reason \in {"now", "cleanest", "cleanest_fallback"}
                   => carbon = Least(Offered(q))
             /\ plan.reason = "now_no_benefit"
                   => (carbon - Least(Offered(q))) * 100 < q.minSavings * carbon
  <1> DEFINE cands == Candidates(q.regions, q.maxWait)
             plan == ChooseRunPlan(q.regions, q.cap, q.maxWait, q.minSavings)
             chosen == CHOOSE r \in DOMAIN q.regions : q.regions[r].label = plan.label
             carbon == q.regions[chosen].intensities[plan.hour + 1]
  <1>1. CASE cands = {}
    <2>1. plan.hour = 0 /\ plan.reason = "now"
      BY <1>1 DEF ChooseRunPlan
    <2>2. Offered(q) = {}
      BY <1>1, OfferedByCandidates
    <2>3. q.maxWait \in Nat
      BY PlanQuestionTypes
    <2> QED
      BY <2>1, <2>2, <2>3
  <1>2. CASE cands # {}
    <2>1. PICK c \in cands : Chosen(q, c)
      BY <1>2, PlanRestsOnCandidate
    <2>2. /\ c.region \in DOMAIN q.regions /\ c.hour \in Nat /\ c.hour <= q.maxWait
          /\ c.carbon \in Nat /\ c.carbon = q.regions[c.region].intensities[c.hour + 1]
      BY CandidateFacts
    <2>3. plan.label = q.regions[c.region].label /\ plan.hour = c.hour
      BY <2>1 DEF Chosen
    <2>4. q.regions[chosen] = q.regions[c.region]
      <3>1. chosen \in DOMAIN q.regions /\ q.regions[chosen].label = q.regions[c.region].label
        BY <2>2, <2>3
      <3> QED
        BY <2>2, <3>1 DEF IsPlanQuestion
    <2>5. carbon = c.carbon
      BY <2>2, <2>3, <2>4
    <2>6. Cleanest(cands).carbon = Least(Offered(q))
      BY <1>2, CleanestIsLeast
    <2>7. plan.reason \in {"now", "cleanest", "cleanest_fallback"} => carbon = Least(Offered(q))
      BY <2>1, <2>5, <2>6 DEF Chosen
    <2>8. ASSUME plan.reason = "now_no_benefit"
          PROVE  (carbon - Least(Offered(q))) * 100 < q.minSavings * carbon
      <3>1. c.carbon # 0 /\ ~WorthWaiting(c.carbon, Least(Offered(q)), q.minSavings)
        BY <2>1, <2>6, <2>8 DEF Chosen
      <3>2. ~((c.carbon - Least(Offered(q))) * 100 >= q.minSavings * c.carbon)
        BY <3>1 DEF WorthWaiting
      <3>3. Least(Offered(q)) \in Nat
        <4>1. Cleanest(cands) \in cands
          BY <1>2, CandidatesAre, CleanestIsOne
        <4> QED
          BY <2>6, <4>1, CandidateFacts
      <3>4. q.minSavings \in Int
        BY PlanQuestionTypes
      <3> HIDE DEF carbon
      <3> QED
        BY <2>2, <2>5, <3>2, <3>3, <3>4
    <2>9. plan.hour <= q.maxWait
      BY <2>2, <2>3
    <2> QED
      BY <2>7, <2>8, <2>9
  <1> QED
    BY <1>1, <1>2

----------------------------------------------------------------------------
(* Over one region, running in it and planning over it agree.              *)

\* The first of the least hours of a window.
LEMMA CleanestHourIs ==
  ASSUME NEW w \in Seq(Nat), NEW h \in 0 .. Len(w) - 1,
         \A k \in 0 .. Len(w) - 1 : w[h + 1] < w[k + 1] \/ (w[h + 1] = w[k + 1] /\ h <= k)
  PROVE  CleanestHour(w) = h
  <1> DEFINE hours == {g \in 0 .. Len(w) - 1 : \A k \in 1 .. Len(w) : w[g + 1] <= w[k]}
  <1>0. \A i \in 1 .. Len(w) : w[i] \in Nat /\ i - 1 \in 0 .. Len(w) - 1 /\ (i - 1) + 1 = i
    OBVIOUS
  <1>1. h \in hours
    <2>1. ASSUME NEW k \in 1 .. Len(w) PROVE w[h + 1] <= w[k]
      <3>1. w[h + 1] < w[(k - 1) + 1] \/ w[h + 1] = w[(k - 1) + 1]
        BY <1>0
      <3>2. w[h + 1] \in Nat
        OBVIOUS
      <3> QED
        BY <1>0, <3>1, <3>2
    <2> QED
      BY <2>1
  <1>2. ASSUME NEW g \in hours PROVE h <= g
    <2>1. g \in 0 .. Len(w) - 1 /\ g + 1 \in 1 .. Len(w) /\ h + 1 \in 1 .. Len(w)
      OBVIOUS
    <2>2. w[g + 1] <= w[h + 1] /\ w[g + 1] \in Nat /\ w[h + 1] \in Nat
      BY <2>1
    <2>3. w[h + 1] < w[g + 1] \/ (w[h + 1] = w[g + 1] /\ h <= g)
      BY <2>1
    <2> QED
      BY <2>1, <2>2, <2>3
  <1>3. hours \in SUBSET Nat
    OBVIOUS
  <1>4. Least(hours) \in hours /\ Least(hours) <= h
    <2> HIDE DEF hours
    <2> QED
      BY <1>1, <1>3, LeastExists
  <1>5. Least(hours) = h
    <2>1. h <= Least(hours) /\ Least(hours) \in Nat
      BY <1>2, <1>3, <1>4
    <2> QED
      BY <1>4, <2>1
  <1> QED
    BY <1>5 DEF CleanestHour

\* The soonest candidate is of the least hour.
LEMMA SoonestHour ==
  ASSUME NEW C \in SUBSET CandidateRecords, C # {}
  PROVE  Soonest(C).hour = Least({c.hour : c \in C})
  <1> DEFINE hours == {c.hour : c \in C}
             s == Soonest(C)
  <1>1. s \in C /\ \A d \in C : s.hour <= d.hour
    BY SoonestIsOne
  <1>2. hours \in SUBSET Nat
    <2>1. \A c \in C : c.hour \in Nat
      BY DEF CandidateRecords
    <2> QED
      BY <2>1
  <1>3. s.hour \in hours /\ \A x \in hours : s.hour <= x
    BY <1>1
  <1> HIDE DEF hours, s
  <1>4. ASSUME NEW x \in hours, \A y \in hours : x <= y PROVE x = s.hour
    <2>1. x <= s.hour /\ s.hour <= x /\ x \in Nat /\ s.hour \in Nat
      BY <1>2, <1>3, <1>4
    <2> DEFINE t == s.hour
    <2> HIDE DEF t
    <2>2. x <= t /\ t <= x /\ x \in Nat /\ t \in Nat
      BY <2>1 DEF t
    <2>3. x = t
      BY <2>2
    <2> QED
      BY <2>3 DEF t
  <1>5. Least(hours) = s.hour
    BY <1>3, <1>4 DEF Least
  <1> QED
    BY <1>5 DEF hours, s

(* The hour and the reason of a plan over one region, in the terms of      *)
(* choose_run_index.                                                       *)
PlanOfOne(q) ==
    LET w == Window(q.regions[1].intensities, q.maxWait)
        hours == 0 .. Len(w) - 1
        surplus == q.regions[1].surplus \cap hours
        under == {h \in hours : w[h + 1] <= q.cap}
        cleanest == CleanestHour(w)
        pick(h, reason) == [hour |-> h, reason |-> reason]
    IN  IF w = <<>> THEN pick(0, "now")
        ELSE IF 0 \in surplus THEN pick(0, "surplus_now")
        ELSE IF surplus # {} THEN pick(Least(surplus), "surplus")
        ELSE IF q.cap # None /\ under # {} THEN pick(Least(under), "threshold")
        ELSE IF q.cap # None THEN pick(cleanest, "cleanest_fallback")
        ELSE IF cleanest = 0 THEN pick(0, "now")
        ELSE IF w[1] # 0 /\ ~WorthWaiting(w[1], w[cleanest + 1], q.minSavings)
             THEN pick(0, "now_no_benefit")
        ELSE pick(cleanest, "cleanest")

\* choose_run_index takes that hour, unless a cap and a surplus compete.
LEMMA IndexIsPlanOfOne ==
  ASSUME NEW q, IsPlanQuestion(q), Len(q.regions) = 1,
         q.cap = None \/ q.regions[1].surplus = {}
  PROVE  ChooseRunIndex(q.regions[1].intensities, q.cap, q.maxWait, q.regions[1].surplus, q.minSavings)
           = PlanOfOne(q)
  <1> DEFINE w == Window(q.regions[1].intensities, q.maxWait)
             hours == 0 .. Len(w) - 1
             surplus == q.regions[1].surplus \cap hours
             under == {h \in hours : w[h + 1] <= q.cap}
             cleanest == CleanestHour(w)
             index == ChooseRunIndex(q.regions[1].intensities, q.cap, q.maxWait, q.regions[1].surplus,
                                     q.minSavings)
  <1>1. CASE w = <<>>
    BY <1>1 DEF ChooseRunIndex, PlanOfOne
  <1>2. CASE w # <<>> /\ 0 \in surplus
    BY <1>2 DEF ChooseRunIndex, PlanOfOne
  <1>3. CASE w # <<>> /\ 0 \notin surplus /\ surplus # {}
    <2>1. q.cap = None
      BY <1>3
    <2> QED
      BY <1>3, <2>1 DEF ChooseRunIndex, PlanOfOne
  <1>4. CASE w # <<>> /\ surplus = {} /\ q.cap # None /\ under # {}
    BY <1>4 DEF ChooseRunIndex, PlanOfOne
  <1>5. CASE w # <<>> /\ surplus = {} /\ q.cap # None /\ under = {}
    BY <1>5 DEF ChooseRunIndex, PlanOfOne
  <1>6. CASE w # <<>> /\ surplus = {} /\ q.cap = None
    <2>1. w[1] = 0 => cleanest = 0
      <3>1. 1 \in DOMAIN q.regions
        BY PlanQuestionTypes
      <3>2. w \in Seq(Nat)
        BY <3>1, PlanQuestionTypes, WindowIsPrefix
      <3> HIDE DEF w
      <3>3. Len(w) \in Nat \ {0}
        BY <1>6, <3>2, SequenceFacts
      <3>4. \A k \in 0 .. Len(w) - 1 : w[k + 1] \in Nat
        BY <3>2
      <3>5. ASSUME w[1] = 0 PROVE CleanestHour(w) = 0
        <4>1. ASSUME NEW k \in 0 .. Len(w) - 1
              PROVE  w[0 + 1] < w[k + 1] \/ (w[0 + 1] = w[k + 1] /\ 0 <= k)
          <5>1. w[0 + 1] = 0 /\ w[k + 1] \in Nat
            BY <3>4, <3>5
          <5> QED
            BY <3>3, <5>1
        <4>2. 0 \in 0 .. Len(w) - 1
          BY <3>3
        <4>3. \A k \in 0 .. Len(w) - 1 : w[0 + 1] < w[k + 1] \/ (w[0 + 1] = w[k + 1] /\ 0 <= k)
          BY <4>1
        <4> QED
          BY <3>2, <4>2, <4>3, CleanestHourIs
      <3> QED
        BY <3>5
    <2> DEFINE plan == IF cleanest = 0 THEN [hour |-> 0, reason |-> "now"]
                       ELSE IF WorthWaiting(w[1], w[cleanest + 1], q.minSavings)
                       THEN [hour |-> cleanest, reason |-> "cleanest"]
                       ELSE [hour |-> 0, reason |-> "now_no_benefit"]
    <2>2. index = plan
      BY <1>6 DEF ChooseRunIndex
    <2>3. PlanOfOne(q) = plan
      BY <1>6, <2>1 DEF PlanOfOne
    <2> QED
      BY <2>2, <2>3
  <1> QED
    BY <1>1, <1>2, <1>3, <1>4, <1>5, <1>6

(* A candidate of the window w of the only region. *)
IsHourOf(c, w, surplus) ==
    /\ c.hour \in 0 .. Len(w) - 1
    /\ c.region = 1
    /\ c.carbon = w[c.hour + 1]
    /\ c.surplus <=> c.hour \in surplus

\* Over one region the candidates are the hours of its window.
LEMMA CandidatesOfOne ==
  ASSUME NEW q, IsPlanQuestion(q), Len(q.regions) = 1
  PROVE  LET w == Window(q.regions[1].intensities, q.maxWait)
             cands == Candidates(q.regions, q.maxWait)
         IN  /\ w \in Seq(Nat)
             /\ \A c \in cands : IsHourOf(c, w, q.regions[1].surplus)
             /\ \A h \in 0 .. Len(w) - 1 : \E c \in cands : c.hour = h
  <1> DEFINE w == Window(q.regions[1].intensities, q.maxWait)
             cands == Candidates(q.regions, q.maxWait)
             at(h) == CandidateOf(q.regions, q.maxWait, 1, h)
  <1>1. DOMAIN q.regions = {1}
    <2>1. DOMAIN q.regions = 1 .. 1
      BY PlanQuestionTypes
    <2>2. 1 .. 1 = {1}
      OBVIOUS
    <2> QED
      BY <2>1, <2>2
  <1>2. w \in Seq(Nat)
    BY <1>1, PlanQuestionTypes, WindowIsPrefix
  <1>3. HoursOf(q.regions, q.maxWait, 1) = 0 .. Len(w) - 1
    BY DEF HoursOf
  <1>4. cands = {at(h) : h \in 0 .. Len(w) - 1}
    <2>1. cands = UNION {{CandidateOf(q.regions, q.maxWait, r, h) : h \in HoursOf(q.regions, q.maxWait, r)}
                            : r \in {1}}
      BY <1>1, CandidatesAre
    <2>2. cands = {at(h) : h \in HoursOf(q.regions, q.maxWait, 1)}
      BY <2>1
    <2> QED
      BY <1>3, <2>2
  <1>5. ASSUME NEW h
        PROVE  /\ at(h).hour = h /\ at(h).region = 1 /\ at(h).carbon = w[h + 1]
               /\ at(h).surplus <=> h \in q.regions[1].surplus
    <2>1. at(h).surplus = (h \in q.regions[1].surplus)
      BY DEF CandidateOf
    <2> QED
      BY <2>1 DEF CandidateOf
  <1> HIDE DEF w, cands, at
  <1>6. \A c \in cands : /\ c.hour \in 0 .. Len(w) - 1 /\ c.region = 1 /\ c.carbon = w[c.hour + 1]
                         /\ c.surplus <=> c.hour \in q.regions[1].surplus
    BY <1>4, <1>5
  <1>7. \A h \in 0 .. Len(w) - 1 : \E c \in cands : c.hour = h
    BY <1>4, <1>5
  <1>8. \A c \in cands : IsHourOf(c, w, q.regions[1].surplus)
    BY <1>6 DEF IsHourOf
  <1> USE DEF w, cands
  <1> QED
    BY <1>2, <1>7, <1>8, Zenon

\* The plan over one region is the one choose_run_index would make.
LEMMA PlanIsPlanOfOne ==
  ASSUME NEW q, IsPlanQuestion(q), Len(q.regions) = 1
  PROVE  LET plan == ChooseRunPlan(q.regions, q.cap, q.maxWait, q.minSavings)
         IN  [hour |-> plan.hour, reason |-> plan.reason] = PlanOfOne(q)
  <1> DEFINE w == Window(q.regions[1].intensities, q.maxWait)
             hours == 0 .. Len(w) - 1
             surplusHours == q.regions[1].surplus \cap hours
             underHours == {h \in hours : w[h + 1] <= q.cap}
             cleanest == CleanestHour(w)
             cands == Candidates(q.regions, q.maxWait)
             surplus == {c \in cands : c.surplus}
             under == {c \in cands : q.cap # None /\ c.carbon <= q.cap}
             now == {c \in cands : c.hour = 0}
             best == Cleanest(cands)
             bestNow == Cleanest(now)
             plan == ChooseRunPlan(q.regions, q.cap, q.maxWait, q.minSavings)
             made == [hour |-> plan.hour, reason |-> plan.reason]
             pick(h, reason) == [hour |-> h, reason |-> reason]
  <1>1. /\ w \in Seq(Nat)
        /\ \A c \in cands : /\ c.hour \in hours /\ c.region = 1 /\ c.carbon = w[c.hour + 1]
                            /\ c.surplus <=> c.hour \in q.regions[1].surplus
        /\ \A h \in hours : \E c \in cands : c.hour = h
    <2>1. /\ w \in Seq(Nat)
          /\ \A c \in cands : IsHourOf(c, w, q.regions[1].surplus)
          /\ \A h \in hours : \E c \in cands : c.hour = h
      BY CandidatesOfOne, Zenon
    <2> HIDE DEF w, cands
    <2>2. \A c \in cands : /\ c.hour \in hours /\ c.region = 1 /\ c.carbon = w[c.hour + 1]
                           /\ c.surplus <=> c.hour \in q.regions[1].surplus
      BY <2>1 DEF IsHourOf
    <2> QED
      BY <2>1, <2>2
  <1>2. cands \in SUBSET CandidateRecords
    BY CandidatesAre
  <1>3. made = IF cands = {} THEN pick(0, "now")
               ELSE IF surplus \cap now # {} THEN pick(Cleanest(surplus \cap now).hour, "surplus_now")
               ELSE IF surplus # {} THEN pick(Soonest(surplus).hour, "surplus")
               ELSE IF under # {} THEN pick(Soonest(under).hour, "threshold")
               ELSE IF q.cap # None THEN pick(best.hour, "cleanest_fallback")
               ELSE IF best.hour = 0 THEN pick(best.hour, "now")
               ELSE IF bestNow.carbon # 0 /\ ~WorthWaiting(bestNow.carbon, best.carbon, q.minSavings)
                    THEN pick(bestNow.hour, "now_no_benefit")
               ELSE pick(best.hour, "cleanest")
    BY DEF ChooseRunPlan
  <1>4. PlanOfOne(q) =
               IF w = <<>> THEN pick(0, "now")
               ELSE IF 0 \in surplusHours THEN pick(0, "surplus_now")
               ELSE IF surplusHours # {} THEN pick(Least(surplusHours), "surplus")
               ELSE IF q.cap # None /\ underHours # {} THEN pick(Least(underHours), "threshold")
               ELSE IF q.cap # None THEN pick(cleanest, "cleanest_fallback")
               ELSE IF cleanest = 0 THEN pick(0, "now")
               ELSE IF w[1] # 0 /\ ~WorthWaiting(w[1], w[cleanest + 1], q.minSavings)
                    THEN pick(0, "now_no_benefit")
               ELSE pick(cleanest, "cleanest")
    BY DEF PlanOfOne
  <1> HIDE DEF w, cands, plan, made, cleanest, best, bestNow
  <1>5. w = <<>> <=> cands = {}
    <2>1. w = <<>> => cands = {}
      BY <1>1
    <2>2. w # <<>> => 0 \in hours
      BY <1>1, SequenceFacts
    <2> QED
      BY <1>1, <2>1, <2>2
  <1>6. {c.hour : c \in surplus} = surplusHours
    <2>1. \A c \in surplus : c.hour \in surplusHours
      BY <1>1
    <2>2. \A h \in surplusHours : \E c \in surplus : c.hour = h
      BY <1>1
    <2> QED
      BY <2>1, <2>2
  <1>7. q.cap # None => {c.hour : c \in under} = underHours
    <2>1. \A c \in under : c.hour \in underHours
      BY <1>1
    <2>2. q.cap # None => \A h \in underHours : \E c \in under : c.hour = h
      BY <1>1
    <2> QED
      BY <2>1, <2>2
  <1>8. surplus # {} => Soonest(surplus).hour = Least(surplusHours)
    <2> HIDE DEF surplusHours
    <2>1. surplus # {} => Soonest(surplus).hour = Least({c.hour : c \in surplus})
      <3>1. surplus \in SUBSET CandidateRecords
        BY <1>2
      <3> HIDE DEF surplus
      <3> QED
        BY <3>1, SoonestHour
    <2> QED
      BY <1>6, <2>1
  <1>9. under # {} => q.cap # None /\ Soonest(under).hour = Least(underHours)
    <2>1. under # {} => Soonest(under).hour = Least({c.hour : c \in under})
      <3>1. under \in SUBSET CandidateRecords
        BY <1>2
      <3> HIDE DEF under
      <3> QED
        BY <3>1, SoonestHour
    <2>2. under # {} => q.cap # None
      OBVIOUS
    <2> HIDE DEF underHours, under
    <2> QED
      BY <1>7, <2>1, <2>2
  <1>10. surplus \cap now # {} => 0 \in surplusHours /\ Cleanest(surplus \cap now).hour = 0
    <2>1. surplus \cap now # {} => 0 \in surplusHours
      BY <1>1
    <2>2. surplus \cap now # {} => Cleanest(surplus \cap now) \in surplus \cap now
      <3>1. surplus \cap now \in SUBSET CandidateRecords
        BY <1>2
      <3> HIDE DEF surplus, now
      <3> QED
        BY <3>1, CleanestIsOne
    <2> QED
      BY <2>1, <2>2
  <1>11. 0 \in surplusHours => surplus \cap now # {}
    BY <1>1
  <1>12. cands # {} => best \in cands /\ best.hour = cleanest /\ best.carbon = w[cleanest + 1]
    <2> SUFFICES ASSUME cands # {} PROVE best \in cands /\ best.hour = cleanest
      BY <1>1
    <2>1. /\ best \in cands
          /\ \A d \in cands : best.carbon < d.carbon \/ (best.carbon = d.carbon /\ Earlier(best, d))
      BY <1>2, CleanestIsOne DEF best
    <2>2. ASSUME NEW k \in hours
          PROVE  w[best.hour + 1] < w[k + 1] \/ (w[best.hour + 1] = w[k + 1] /\ best.hour <= k)
      <3>1. PICK d \in cands : d.hour = k
        BY <1>1
      <3>2. /\ best.region = 1 /\ best.carbon = w[best.hour + 1]
            /\ d.region = 1 /\ d.carbon = w[k + 1]
        BY <1>1, <2>1, <3>1
      <3>3. best.carbon < d.carbon \/ (best.carbon = d.carbon /\ Earlier(best, d))
        BY <2>1
      <3>4. Earlier(best, d) => best.hour <= k
        BY <3>1, <3>2 DEF Earlier
      <3> QED
        BY <3>2, <3>3, <3>4
    <2>3. best.hour \in hours
      BY <1>1, <2>1
    <2>4. CleanestHour(w) = best.hour
      BY <1>1, <2>2, <2>3, CleanestHourIs
    <2> QED
      BY <2>1, <2>4 DEF cleanest
  <1>13. cands # {} => bestNow.hour = 0 /\ bestNow.carbon = w[1]
    <2>1. cands # {} => now # {}
      BY SomeRunNow DEF cands
    <2>2. now \in SUBSET CandidateRecords
      BY <1>2
    <2>3. now # {} => bestNow \in now
      <3> HIDE DEF now
      <3> QED
        BY <2>2, CleanestIsOne DEF bestNow
    <2> QED
      BY <1>1, <2>1, <2>3
  <1>14. surplus = {} <=> surplusHours = {}
    BY <1>6
  <1>15. q.cap # None => (under = {} <=> underHours = {})
    BY <1>7
  <1> HIDE DEF hours, surplusHours, underHours, surplus, under, now, pick
  <1>16. made = PlanOfOne(q)
    BY <1>3, <1>4, <1>5, <1>8, <1>9, <1>10, <1>11, <1>12, <1>13, <1>14, <1>15
  <1> QED
    BY <1>16 DEF made, plan

(***************************************************************************)
(* What carbonlens run and plan (green_run.py) answer, for every forecast  *)
(* of every set of regions: a plan defers no further than agreed, is the   *)
(* cleanest hour offered unless a surplus, a cap or the least saving says  *)
(* otherwise, and over one region is the hour the command without regions  *)
(* would have waited for.                                                  *)
(***************************************************************************)
THEOREM PlansKeepPromise == QuestionsSpec => []PlanSound
  <1>1. Replies => PlanSound
    <2> SUFFICES ASSUME Replies, Replied("plan") PROVE PlanSound
      BY DEF PlanSound
    <2> DEFINE plan == ChooseRunPlan(question.regions, question.cap, question.maxWait,
                                     question.minSavings)
               chosen == CHOOSE r \in DOMAIN question.regions : question.regions[r].label = plan.label
               carbon == question.regions[chosen].intensities[plan.hour + 1]
    <2>1. IsPlanQuestion(question)
      BY QuestionsAssumption DEF Replies, Replied
    <2>2. answer = PlanAnswer
      BY DEF Replies
    <2>3. answer.plan = plan
      BY <2>2 DEF PlanAnswer
    <2>4. Len(question.regions) = 1 /\ (question.cap = None \/ question.regions[1].surplus = {})
            => [hour |-> plan.hour, reason |-> plan.reason] = answer.index
      BY <2>1, <2>2, IndexIsPlanOfOne, PlanIsPlanOfOne DEF PlanAnswer
    <2>5. /\ plan.hour <= question.maxWait
          /\ Offered(question) # {} /\ plan.reason \in {"now", "cleanest", "cleanest_fallback"}
                => carbon = Least(Offered(question))
          /\ plan.reason = "now_no_benefit"
                => (carbon - Least(Offered(question))) * 100 < question.minSavings * carbon
      BY <2>1, PlanKeepsPromise
    <2> QED
      BY <2>3, <2>4, <2>5, Zenon DEF PlanSound, Offered
  <1> QED
    BY <1>1, RepliesInvariant, PTL

----------------------------------------------------------------------------
(* Picking from a sequence.                                                *)

(* How many of I come no later than i, and the k-th of I. *)
RankIn(I, i) == Cardinality({j \in I : j <= i})
NthOf(I, k) == CHOOSE i \in I : RankIn(I, i) = k

\* The indices picked are counted off in their order, without a gap.
LEMMA CountedOff ==
  ASSUME NEW n \in Nat, NEW I \in SUBSET (1 .. n)
  PROVE  /\ Cardinality(I) \in Nat
         /\ \A k \in 1 .. Cardinality(I) : NthOf(I, k) \in I /\ RankIn(I, NthOf(I, k)) = k
         /\ \A i \in I : RankIn(I, i) \in 1 .. Cardinality(I) /\ NthOf(I, RankIn(I, i)) = i
         /\ \A i, j \in I : i < j => RankIn(I, i) < RankIn(I, j)
  <1> DEFINE before(i) == {j \in I : j <= i}
  <1>0. \A i \in I : i \in Nat
    OBVIOUS
  <1>1. IsFiniteSet(I) /\ Cardinality(I) \in Nat
    <2>1. IsFiniteSet(1 .. n)
      BY FS_Interval
    <2> QED
      BY <2>1, FS_Subset, FS_CardinalityType
  <1>2. ASSUME NEW i \in I
        PROVE  IsFiniteSet(before(i)) /\ RankIn(I, i) \in Nat /\ RankIn(I, i) \in 1 .. Cardinality(I)
    <2>1. IsFiniteSet(before(i)) /\ Cardinality(before(i)) <= Cardinality(I)
      <3>1. before(i) \in SUBSET I
        OBVIOUS
      <3> HIDE DEF before
      <3> QED
        BY <1>1, <3>1, FS_Subset
    <2>2. Cardinality(before(i)) \in Nat /\ Cardinality(before(i)) # 0
      <3>1. i \in before(i)
        OBVIOUS
      <3> HIDE DEF before
      <3> QED
        BY <2>1, <3>1, FS_CardinalityType, FS_EmptySet
    <2> QED
      BY <1>1, <2>1, <2>2 DEF RankIn
  <1>3. ASSUME NEW i \in I, NEW j \in I, i < j
        PROVE  RankIn(I, i) < RankIn(I, j)
    <2>1. before(i) \in SUBSET before(j) /\ j \in before(j) /\ j \notin before(i)
      <3>1. i \in Nat /\ j \in Nat /\ i < j
        BY <1>0, <1>3
      <3>2. (\A x \in I : x <= i => x <= j) /\ j <= j /\ ~(j <= i)
        BY <1>0, <3>1
      <3> QED
        BY <3>2, Zenon
    <2> HIDE DEF before
    <2>2. /\ Cardinality(before(i)) <= Cardinality(before(j))
          /\ Cardinality(before(i)) # Cardinality(before(j))
      BY <1>2, <2>1, FS_Subset
    <2>3. Cardinality(before(i)) = RankIn(I, i) /\ Cardinality(before(j)) = RankIn(I, j)
      BY DEF before, RankIn
    <2>4. RankIn(I, i) \in Nat /\ RankIn(I, j) \in Nat
      BY <1>2
    <2> QED
      BY <2>2, <2>3, <2>4
  <1>4. \A k \in 1 .. Cardinality(I) : \E i \in I : RankIn(I, i) = k
    <2> DEFINE rank == [i \in I |-> RankIn(I, i)]
    <2>1. rank \in [I -> 1 .. Cardinality(I)]
      BY <1>2
    <2>2. \A i, j \in I : rank[i] = rank[j] => i = j
      <3> SUFFICES ASSUME NEW i \in I, NEW j \in I, i # j PROVE RankIn(I, i) # RankIn(I, j)
        OBVIOUS
      <3>1. i < j \/ j < i
        BY <1>0
      <3>2. RankIn(I, i) \in Nat /\ RankIn(I, j) \in Nat
        BY <1>2
      <3> QED
        BY <1>3, <3>1, <3>2
    <2>3. rank \in Injection(I, 1 .. Cardinality(I))
      <3> HIDE DEF rank
      <3> QED
        BY <2>1, <2>2 DEF Injection, IsInjective
    <2>4. IsFiniteSet(1 .. Cardinality(I)) /\ Cardinality(1 .. Cardinality(I)) = Cardinality(I)
      BY <1>1, FS_Interval
    <2>5. rank \in Surjection(I, 1 .. Cardinality(I))
      <3> HIDE DEF rank
      <3> QED
        BY <2>3, <2>4, FS_Injection
    <2> QED
      BY <2>5 DEF Surjection
  <1>5. \A k \in 1 .. Cardinality(I) : NthOf(I, k) \in I /\ RankIn(I, NthOf(I, k)) = k
    BY <1>4 DEF NthOf
  <1>6. ASSUME NEW i \in I PROVE NthOf(I, RankIn(I, i)) = i
    <2> DEFINE k == RankIn(I, i)
               j == NthOf(I, k)
    <2>1. j \in I /\ RankIn(I, j) = k
      BY <1>2, <1>5
    <2> HIDE DEF j, k
    <2>2. k \in Nat
      BY <1>2 DEF k
    <2>3. i < j => k < RankIn(I, j)
      BY <1>3, <2>1 DEF k
    <2>4. j < i => RankIn(I, j) < k
      BY <1>3, <2>1 DEF k
    <2>5. i = j
      BY <1>0, <2>1, <2>2, <2>3, <2>4
    <2> QED
      BY <2>5 DEF j, k
  <1> QED
    BY <1>1, <1>2, <1>3, <1>5, <1>6

\* What is picked is of the sequence, and all of it that is asked for.
LEMMA PickedAre ==
  ASSUME NEW n \in Nat, NEW s, DOMAIN s = 1 .. n, NEW I \in SUBSET (1 .. n)
  PROVE  /\ DOMAIN Picked(s, I) = 1 .. Cardinality(I)
         /\ \A k \in DOMAIN Picked(s, I) : Picked(s, I)[k] = s[NthOf(I, k)]
  BY DEF Picked, NthOf, RankIn

----------------------------------------------------------------------------
(* Readings from a chain of sources.                                       *)

(* Zone by zone the answer of the first of the providers s that answered. *)
FirstAnswers(chain, zones, s) ==
    [z \in UNION {DOMAIN Answered(chain[i], zones) : i \in s} |->
        Answered(chain[Least({i \in s : z \in DOMAIN Answered(chain[i], zones)})], zones)[z]]

\* One more provider in front is laid over what the others answered.
LEMMA FirstAnswersStep ==
  ASSUME NEW chain, NEW zones, NEW s \in SUBSET Nat, s # {}
  PROVE  FirstAnswers(chain, zones, s)
           = LaidOver(Answered(chain[Least(s)], zones), FirstAnswers(chain, zones, s \ {Least(s)}))
  <1> DEFINE a(i) == Answered(chain[i], zones)
             x == Least(s)
             by(t, z) == {i \in t : z \in DOMAIN a(i)}
             rest == s \ {x}
             left == FirstAnswers(chain, zones, s)
             right == LaidOver(a(x), FirstAnswers(chain, zones, rest))
  <1>1. x \in s /\ \A y \in s : x <= y
    BY LeastExists
  <1> HIDE DEF x
  <1>2. /\ left = [z \in UNION {DOMAIN a(i) : i \in s} |-> a(Least(by(s, z)))[z]]
        /\ FirstAnswers(chain, zones, rest)
             = [z \in UNION {DOMAIN a(i) : i \in rest} |-> a(Least(by(rest, z)))[z]]
    BY DEF FirstAnswers
  <1> DEFINE others == FirstAnswers(chain, zones, rest)
  <1> HIDE DEF a, left, others
  <1>3. right = [z \in DOMAIN a(x) \cup DOMAIN others |-> IF z \in DOMAIN a(x) THEN a(x)[z] ELSE others[z]]
    BY DEF LaidOver, others
  <1>4. UNION {DOMAIN a(i) : i \in s} = DOMAIN a(x) \cup DOMAIN others
    <2>1. s = {x} \cup rest
      BY <1>1
    <2> HIDE DEF rest
    <2> QED
      BY <1>2, <2>1 DEF others
  <1>5. ASSUME NEW z \in DOMAIN a(x)
        PROVE  Least(by(s, z)) = x
    <2>1. by(s, z) \in SUBSET Nat /\ x \in by(s, z)
      BY <1>1
    <2>2. by(s, z) \in SUBSET s
      OBVIOUS
    <2> HIDE DEF by
    <2>3. Least(by(s, z)) \in by(s, z) /\ Least(by(s, z)) <= x
      BY <2>1, LeastExists
    <2>4. x <= Least(by(s, z))
      BY <1>1, <2>2, <2>3
    <2>5. x \in Nat /\ Least(by(s, z)) \in Nat
      BY <2>1, <2>3
    <2> QED
      BY <2>3, <2>4, <2>5
  <1>6. ASSUME NEW z, z \notin DOMAIN a(x)
        PROVE  by(s, z) = by(rest, z)
    BY <1>6
  <1>7. ASSUME NEW z \in DOMAIN others
        PROVE  others[z] = a(Least(by(rest, z)))[z]
    BY <1>2 DEF others
  <1> HIDE DEF by, rest
  <1>8. left = [z \in DOMAIN a(x) \cup DOMAIN others |-> a(Least(by(s, z)))[z]]
    BY <1>2, <1>4
  <1>9. \A z \in DOMAIN a(x) \cup DOMAIN others :
           a(Least(by(s, z)))[z] = IF z \in DOMAIN a(x) THEN a(x)[z] ELSE others[z]
    BY <1>5, <1>6, <1>7
  <1>10. left = right
    BY <1>3, <1>8, <1>9
  <1> QED
    BY <1>10 DEF left, x, a, rest

\* The merge lets the first provider that answered a zone win.
LEMMA MergeIsFirst ==
  ASSUME NEW chain, NEW n \in Nat, DOMAIN chain = 1 .. n, NEW zones
  PROVE  MergeAnswers(chain, zones) = FirstAnswers(chain, zones, 1 .. n)
  <1> DEFINE D == 1 .. n
             empty == [z \in {} |-> NoReading]
             first(s) == FirstAnswers(chain, zones, s)
             step(f, s) == IF s = {} THEN empty
                           ELSE LaidOver(Answered(chain[Min(s)], zones), f[s \ {Min(s)}])
             Folds(f) == f = [s \in SUBSET D |-> step(f, s)]
             iter == CHOOSE f : Folds(f)
  <1>1. \A s \in SUBSET D : s # {} => first(s) = LaidOver(Answered(chain[Min(s)], zones), first(s \ {Min(s)}))
    <2>1. \A s \in SUBSET D : Min(s) = Least(s)
      BY DEF Min, Least
    <2>2. \A s \in SUBSET D : s \in SUBSET Nat
      OBVIOUS
    <2> QED
      BY <2>1, <2>2, FirstAnswersStep
  <1>2. first({}) = empty
    BY DEF FirstAnswers
  <1>3. Folds([s \in SUBSET D |-> first(s)])
    <2> DEFINE f == [s \in SUBSET D |-> first(s)]
    <2>1. \A s \in SUBSET D : first(s) = step(f, s)
      <3> HIDE DEF first
      <3> QED
        BY <1>1, <1>2
    <2> QED
      BY <2>1
  <1>4. Folds(iter)
    <2> HIDE DEF Folds
    <2> QED
      BY <1>3
  <1>5. MergeAnswers(chain, zones) = iter[D]
    BY DEF MergeAnswers, FoldRight, MapThenFoldSet
  <1> HIDE DEF iter, first
  <1>6. \A m \in 0 .. n : iter[(n - m + 1) .. n] = first((n - m + 1) .. n)
    <2> DEFINE Bad == {m \in 0 .. n : iter[(n - m + 1) .. n] # first((n - m + 1) .. n)}
    <2> SUFFICES ASSUME Bad # {} PROVE FALSE
      OBVIOUS
    <2>1. PICK m \in Bad : \A l \in Bad : ~(l < m)
      <3>1. Bad \in SUBSET Nat
        OBVIOUS
      <3>2. PICK m \in Bad : \A l \in Bad : <<l, m>> \notin OpToRel(<, Nat)
        BY <3>1, WFMin, NatLessThanWellFounded
      <3> QED
        BY <3>1, <3>2 DEF OpToRel
    <2>2. m # 0
      <3>1. (n - 0 + 1) .. n = {}
        OBVIOUS
      <3>2. iter[{}] = empty
        BY <1>4
      <3> QED
        BY <1>2, <3>1, <3>2
    <2> DEFINE s == (n - m + 1) .. n
               t == (n - (m - 1) + 1) .. n
    <2>3. iter[t] = first(t)
      BY <2>1, <2>2
    <2>4. s \in SUBSET D /\ s # {} /\ Min(s) = n - m + 1
      <3>1. s \in SUBSET D /\ n - m + 1 \in s /\ \A y \in s : n - m + 1 <= y
        BY <2>2
      <3>2. \A x \in s : (\A y \in s : x <= y) => x = n - m + 1
        BY <3>1
      <3> QED
        BY <3>1, <3>2 DEF Min
    <2>5. s \ {Min(s)} = t
      BY <2>2, <2>4
    <2>6. iter[s] = LaidOver(Answered(chain[Min(s)], zones), iter[s \ {Min(s)}])
      BY <1>4, <2>4
    <2>7. iter[s] = first(s)
      BY <1>1, <2>3, <2>4, <2>5, <2>6
    <2> QED
      BY <2>7
  <1>7. (n - n + 1) .. n = D
    OBVIOUS
  <1>8. iter[D] = first(D)
    BY <1>6, <1>7
  <1> QED
    BY <1>5, <1>8 DEF first

\* The chain is a sequence of configured providers, each with batches that
\* hold no other figures than it gives zone by zone.
LEMMA ChainOfSingles ==
  ASSUME IsReadingsQuestion(question)
  PROVE  /\ \E n \in Nat : DOMAIN Chain = 1 .. n
         /\ \A i \in DOMAIN Chain : BatchOfSingles(Chain[i])
  <1> DEFINE providers == question.providers
             n == Len(providers)
             I == {i \in DOMAIN providers : providers[i].name \in question.configured}
  <1>1. n \in Nat /\ DOMAIN providers = 1 .. n /\ \A i \in 1 .. n : providers[i] \in Range(providers)
    BY DEF IsReadingsQuestion, Range
  <1>2. \A i \in 1 .. n : BatchOfSingles(providers[i])
    BY <1>1 DEF IsReadingsQuestion
  <1>3. I \in SUBSET (1 .. n)
    BY <1>1
  <1>4. Chain = Picked(providers, I)
    BY DEF Chain, BuildProviderChain
  <1> HIDE DEF providers, n, I
  <1>5. /\ Cardinality(I) \in Nat
        /\ \A k \in 1 .. Cardinality(I) : NthOf(I, k) \in I
    BY <1>1, <1>3, CountedOff
  <1>6. /\ DOMAIN Chain = 1 .. Cardinality(I)
        /\ \A k \in DOMAIN Chain : Chain[k] = providers[NthOf(I, k)]
    BY <1>1, <1>3, <1>4, PickedAre
  <1> QED
    BY <1>2, <1>3, <1>5, <1>6

(* The providers among I that answer zone z alone, and the first's answer. *)
Answering(chain, I, z) == {i \in I : z \in chain[i].handles /\ chain[i].single[z] # NoReading}
FirstOf(chain, hits, mock, z) ==
    IF hits = {} THEN MockReading(mock, z) ELSE chain[Least(hits)].single[z]

\* A chain with some of its providers left out answers as the first of the
\* others that has the zone.
LEMMA PickedAnswer ==
  ASSUME NEW chain, NEW n \in Nat, DOMAIN chain = 1 .. n, NEW I \in SUBSET (1 .. n), NEW mock, NEW z
  PROVE  HybridSingle(Picked(chain, I), mock, z) = FirstOf(chain, Answering(chain, I, z), mock, z)
  <1> DEFINE sound == Picked(chain, I)
             hits == {k \in DOMAIN sound : z \in sound[k].handles /\ sound[k].single[z] # NoReading}
             by == Answering(chain, I, z)
  <1>1. HybridSingle(sound, mock, z) = IF hits = {} THEN MockReading(mock, z) ELSE sound[Least(hits)].single[z]
    BY DEF HybridSingle
  <1>2. /\ \A k \in DOMAIN sound : k \in hits <=> z \in sound[k].handles /\ sound[k].single[z] # NoReading
        /\ hits \subseteq DOMAIN sound
    OBVIOUS
  <1>3. /\ \A i \in I : i \in by <=> z \in chain[i].handles /\ chain[i].single[z] # NoReading
        /\ by \subseteq I
    BY DEF Answering
  <1> HIDE DEF hits, by, sound
  <1>4. /\ Cardinality(I) \in Nat
        /\ \A k \in 1 .. Cardinality(I) : NthOf(I, k) \in I /\ RankIn(I, NthOf(I, k)) = k
        /\ \A i \in I : RankIn(I, i) \in 1 .. Cardinality(I) /\ NthOf(I, RankIn(I, i)) = i
        /\ \A i, j \in I : i < j => RankIn(I, i) < RankIn(I, j)
    BY CountedOff
  <1>5. /\ DOMAIN sound = 1 .. Cardinality(I)
        /\ \A k \in DOMAIN sound : sound[k] = chain[NthOf(I, k)]
    BY PickedAre DEF sound
  <1>6. \A k \in hits : NthOf(I, k) \in by /\ RankIn(I, NthOf(I, k)) = k
    BY <1>2, <1>3, <1>4, <1>5
  <1>7. \A i \in by : RankIn(I, i) \in hits /\ i \in I
    <2> SUFFICES ASSUME NEW i \in by PROVE RankIn(I, i) \in hits /\ i \in I
      OBVIOUS
    <2>1. i \in I /\ RankIn(I, i) \in DOMAIN sound /\ NthOf(I, RankIn(I, i)) = i
      BY <1>3, <1>4, <1>5
    <2>2. sound[RankIn(I, i)] = chain[i]
      BY <1>5, <2>1
    <2> QED
      BY <1>2, <1>3, <2>1, <2>2
  <1>8. CASE by = {}
    BY <1>1, <1>6, <1>8 DEF FirstOf, sound, by
  <1>9. CASE by # {}
    <2> DEFINE i == Least(by)
               k == Least(hits)
    <2>1. i \in by /\ \A j \in by : i <= j
      BY <1>3, <1>9, LeastExists
    <2>2. hits # {} /\ hits \in SUBSET Nat
      BY <1>2, <1>4, <1>5, <1>7, <2>1
    <2>3. k \in hits /\ \A l \in hits : k <= l
      BY <2>2, LeastExists
    <2> HIDE DEF i, k
    <2> DEFINE j == NthOf(I, k)
    <2>4. j \in by /\ RankIn(I, j) = k /\ j \in I /\ i \in I
      BY <1>3, <1>6, <2>1, <2>3
    <2>5. i <= j /\ k <= RankIn(I, i)
      BY <1>7, <2>1, <2>3, <2>4
    <2>6. i < j => RankIn(I, i) < RankIn(I, j)
      <3> HIDE DEF j
      <3> QED
        BY <1>4, <2>4
    <2>7. i \in Nat /\ j \in Nat /\ k \in Nat /\ RankIn(I, i) \in Nat
      <3>1. k \in Nat
        BY <2>2, <2>3
      <3>2. i \in 1 .. n /\ j \in 1 .. n
        BY <2>4
      <3>3. RankIn(I, i) \in 1 .. Cardinality(I)
        BY <1>4, <2>4
      <3> HIDE DEF j
      <3> QED
        BY <1>4, <3>1, <3>2, <3>3
    <2>8. i = j
      <3> HIDE DEF j
      <3> QED
        BY <2>4, <2>5, <2>6, <2>7
    <2>9. sound[k] = chain[i]
      BY <1>2, <1>5, <2>3, <2>8
    <2>10. HybridSingle(sound, mock, z) = sound[k].single[z]
      BY <1>1, <2>2 DEF k
    <2> QED
      BY <1>9, <2>9, <2>10 DEF FirstOf, sound, by, i
  <1> QED
    BY <1>8, <1>9

\* A provider's part of the merge has a zone exactly where its batch does
\* not lose it and it would answer the zone alone, and then with that answer.
LEMMA AnsweredAre ==
  ASSUME NEW p, BatchOfSingles(p), NEW zones, NEW z \in zones
  PROVE  /\ z \in DOMAIN Answered(p, zones)
              <=> ~Loses(p, zones, z) /\ z \in p.handles /\ p.single[z] # NoReading
         /\ z \in DOMAIN Answered(p, zones) => Answered(p, zones)[z] = p.single[z]
  <1> DEFINE asked == zones \cap p.handles
             batch == p.batch[asked]
  <1>1. /\ DOMAIN batch \subseteq asked
        /\ \A y \in DOMAIN batch : batch[y] = p.single[y] /\ p.single[y] # NoReading
    BY DEF BatchOfSingles
  <1>2. Loses(p, zones, z) <=> z \in asked /\ (asked \cap p.raises # {} \/ z \notin DOMAIN batch)
    BY DEF Loses
  <1>3. Answered(p, zones) = IF asked \cap p.raises # {} THEN [y \in {} |-> NoReading] ELSE batch
    BY DEF Answered
  <1>4. z \in asked <=> z \in p.handles
    OBVIOUS
  <1> HIDE DEF asked, batch
  <1>5. CASE asked \cap p.raises # {}
    <2>1. z \notin DOMAIN Answered(p, zones)
      BY <1>3, <1>5
    <2> QED
      BY <1>2, <1>4, <1>5, <2>1
  <1>6. CASE asked \cap p.raises = {}
    BY <1>1, <1>2, <1>3, <1>4, <1>6
  <1> QED
    BY <1>5, <1>6

(* The providers of the chain whose batch does not lose the zone. *)
Keeping(chain, zones, z) == {i \in DOMAIN chain : ~Loses(chain[i], zones, z)}

\* Asked for a batch, the chain answers each zone as the first provider that
\* would answer it alone and whose batch does not lose it.
LEMMA BatchFollowsSingles ==
  ASSUME NEW chain, NEW n \in Nat, DOMAIN chain = 1 .. n,
         \A i \in DOMAIN chain : BatchOfSingles(chain[i]),
         NEW mock, NEW zones, NEW z \in zones
  PROVE  HybridBatch(chain, mock, zones)[z]
           = FirstOf(chain, Answering(chain, Keeping(chain, zones, z), z), mock, z)
  <1> DEFINE a(i) == Answered(chain[i], zones)
             by == {i \in 1 .. n : z \in DOMAIN a(i)}
             kept == Answering(chain, Keeping(chain, zones, z), z)
             live == MergeAnswers(chain, zones)
  <1>1. \A i \in 1 .. n : /\ z \in DOMAIN a(i) <=> /\ ~Loses(chain[i], zones, z)
                                                   /\ z \in chain[i].handles
                                                   /\ chain[i].single[z] # NoReading
                          /\ z \in DOMAIN a(i) => a(i)[z] = chain[i].single[z]
    BY AnsweredAre
  <1>2. live = FirstAnswers(chain, zones, 1 .. n)
    BY MergeIsFirst
  <1>3. /\ z \in DOMAIN live <=> by # {}
        /\ z \in DOMAIN live => live[z] = a(Least(by))[z]
    BY <1>2 DEF FirstAnswers
  <1>4. HybridBatch(chain, mock, zones)[z] = IF z \in DOMAIN live THEN live[z] ELSE MockReading(mock, z)
    BY DEF HybridBatch
  <1>5. by = kept
    <2> HIDE DEF a
    <2>1. \A i : i \in kept <=> /\ i \in 1 .. n /\ ~Loses(chain[i], zones, z)
                                /\ z \in chain[i].handles /\ chain[i].single[z] # NoReading
      BY DEF Answering, Keeping
    <2> QED
      BY <1>1, <2>1
  <1>6. by # {} => Least(by) \in by
    <2>1. by \in SUBSET Nat
      OBVIOUS
    <2> HIDE DEF by
    <2> QED
      BY <2>1, LeastExists
  <1>7. by # {} => a(Least(by))[z] = chain[Least(by)].single[z]
    BY <1>1, <1>6
  <1> HIDE DEF a, by, kept, live
  <1>8. HybridBatch(chain, mock, zones)[z] = FirstOf(chain, by, mock, z)
    BY <1>3, <1>4, <1>7 DEF FirstOf
  <1> QED
    BY <1>5, <1>8 DEF kept

\* The same with the snapshot in front of the chain.
LEMMA SnapshotFollowsSingles ==
  ASSUME NEW map, NEW chain, NEW n \in Nat, DOMAIN chain = 1 .. n,
         \A i \in DOMAIN chain : BatchOfSingles(chain[i]),
         NEW mock, NEW zones
  PROVE  LET missing == zones \ DOMAIN map
         IN  SnapshotBatch(map, chain, mock, zones)
               = [z \in zones |-> SnapshotSingle(map, Picked(chain, Keeping(chain, missing, z)), mock, z)]
  <1> DEFINE missing == zones \ DOMAIN map
             keeping(z) == Picked(chain, Keeping(chain, missing, z))
             known == [z \in zones \ missing |-> map[z]]
             fetched == HybridBatch(chain, mock, missing)
  <1>1. SnapshotBatch(map, chain, mock, zones) = LaidOver(known, fetched)
    BY DEF SnapshotBatch
  <1>2. DOMAIN fetched = missing
    BY DEF HybridBatch
  <1>3. \A z \in missing : fetched[z] = HybridSingle(keeping(z), mock, z)
    <2> SUFFICES ASSUME NEW z \in missing PROVE fetched[z] = HybridSingle(keeping(z), mock, z)
      OBVIOUS
    <2>1. Keeping(chain, missing, z) \in SUBSET (1 .. n)
      BY DEF Keeping
    <2>2. HybridSingle(keeping(z), mock, z)
            = FirstOf(chain, Answering(chain, Keeping(chain, missing, z), z), mock, z)
      BY <2>1, PickedAnswer
    <2>3. fetched[z] = FirstOf(chain, Answering(chain, Keeping(chain, missing, z), z), mock, z)
      BY BatchFollowsSingles
    <2> QED
      BY <2>2, <2>3
  <1>4. DOMAIN known \cup DOMAIN fetched = zones
    BY <1>2
  <1> HIDE DEF keeping, fetched
  <1>5. \A z \in zones : (IF z \in DOMAIN known THEN known[z] ELSE fetched[z])
                            = SnapshotSingle(map, keeping(z), mock, z)
    BY <1>3 DEF SnapshotSingle
  <1>6. LaidOver(known, fetched) = [z \in zones |-> SnapshotSingle(map, keeping(z), mock, z)]
    BY <1>4, <1>5 DEF LaidOver
  <1> QED
    BY <1>1, <1>6 DEF keeping, fetched

\* Where no provider loses an answer, leaving out those whose batch has none
\* changes nothing.
LEMMA KeepingAnswersAlike ==
  ASSUME NEW map, NEW chain, NEW n \in Nat, DOMAIN chain = 1 .. n, NEW mock, NEW zones, NEW z,
         \A i \in DOMAIN chain : Loses(chain[i], zones, z) => chain[i].single[z] = NoReading
  PROVE  SnapshotSingle(map, Picked(chain, Keeping(chain, zones, z)), mock, z)
           = SnapshotSingle(map, chain, mock, z)
  <1> DEFINE kept == Answering(chain, Keeping(chain, zones, z), z)
             all == {i \in DOMAIN chain : z \in chain[i].handles /\ chain[i].single[z] # NoReading}
  <1>1. Keeping(chain, zones, z) \in SUBSET (1 .. n)
    BY DEF Keeping
  <1>2. HybridSingle(Picked(chain, Keeping(chain, zones, z)), mock, z) = FirstOf(chain, kept, mock, z)
    BY <1>1, PickedAnswer
  <1>3. HybridSingle(chain, mock, z) = FirstOf(chain, all, mock, z)
    BY DEF HybridSingle, FirstOf
  <1>4. kept = all
    BY DEF Answering, Keeping
  <1> QED
    BY <1>2, <1>3, <1>4 DEF SnapshotSingle

(***************************************************************************)
(* What the batch endpoint answers of a zone (hybrid.py behind             *)
(* snapshot_source.py) is what the request for that zone alone gets from   *)
(* the sources whose batch does not lose it, in their order of trust, and  *)
(* the very answer of that request where none loses a figure it would have *)
(* given alone: for every chain, every set of zones and every snapshot.    *)
(***************************************************************************)
THEOREM BatchIsOfSingles == QuestionsSpec => []ReadingsSound
  <1>1. Replies => ReadingsSound
    <2> SUFFICES ASSUME Replies, Replied("readings") PROVE ReadingsSound
      BY DEF ReadingsSound
    <2> DEFINE map == ZoneMapFromIntensities(question.snapshot)
               missing == question.zones \ DOMAIN map
               chain == Chain
               keeping(z) == Picked(chain, {i \in DOMAIN chain : ~Loses(chain[i], missing, z)})
    <2>1. IsReadingsQuestion(question)
      BY QuestionsAssumption DEF Replies, Replied
    <2>2. answer.batch = BatchAnswer /\ answer.single = SingleAnswers
      BY DEF Replies
    <2>3. PICK n \in Nat : DOMAIN chain = 1 .. n
      BY <2>1, ChainOfSingles
    <2>4. \A i \in DOMAIN chain : BatchOfSingles(chain[i])
      BY <2>1, ChainOfSingles
    <2> HIDE DEF chain, map
    <2>5. \A z : keeping(z) = Picked(chain, Keeping(chain, missing, z))
      <3> HIDE DEF missing
      <3> QED
        BY DEF Keeping
    <2> HIDE DEF keeping
    <2>6. SnapshotBatch(map, chain, question.mock, question.zones)
            = [z \in question.zones |->
                 SnapshotSingle(map, Picked(chain, Keeping(chain, missing, z)), question.mock, z)]
      <3> DEFINE zones == question.zones
                 mock == question.mock
      <3> HIDE DEF zones, mock
      <3>1. SnapshotBatch(map, chain, mock, zones)
              = [z \in zones |->
                   SnapshotSingle(map, Picked(chain, Keeping(chain, zones \ DOMAIN map, z)), mock, z)]
        BY <2>3, <2>4, SnapshotFollowsSingles
      <3> QED
        BY <3>1 DEF zones, mock
    <2>7. answer.batch = [z \in question.zones |-> SnapshotSingle(map, keeping(z), question.mock, z)]
      BY <2>2, <2>5, <2>6 DEF BatchAnswer, map, chain
    <2>8. ASSUME NEW z \in question.zones, NoAnswerLost(missing, z)
          PROVE  answer.batch[z] = answer.single[z]
      <3>1. \A i \in DOMAIN chain : Loses(chain[i], missing, z) => chain[i].single[z] = NoReading
        BY <2>8 DEF NoAnswerLost, chain
      <3> HIDE DEF missing
      <3>2. SnapshotSingle(map, keeping(z), question.mock, z) = SnapshotSingle(map, chain, question.mock, z)
        BY <2>3, <2>5, <3>1, KeepingAnswersAlike
      <3>3. answer.single[z] = SnapshotSingle(map, chain, question.mock, z)
        BY <2>2 DEF SingleAnswers, map, chain
      <3> QED
        BY <2>7, <3>2, <3>3
    <2> QED
      BY <2>7, <2>8, Zenon DEF ReadingsSound, map, missing, keeping, chain
  <1> QED
    BY <1>1, RepliesInvariant, PTL

----------------------------------------------------------------------------
(* Folds over finite sets.                                                 *)

\* What passes from every set without one of its elements to the set holds
\* of every subset of a finite set.
LEMMA SubsetInduction ==
  ASSUME NEW S, IsFiniteSet(S), NEW P,
         \A s \in SUBSET S : (\A x \in s : s \ {x} \in P) => s \in P
  PROVE  \A s \in SUBSET S : s \in P
  <1> DEFINE Bad == {s \in SUBSET S : s \notin P}
             sizes == {Cardinality(s) : s \in Bad}
  <1> SUFFICES ASSUME Bad # {} PROVE FALSE
    OBVIOUS
  <1>1. \A s \in SUBSET S : IsFiniteSet(s) /\ Cardinality(s) \in Nat
    BY FS_Subset, FS_CardinalityType
  <1>2. sizes \in SUBSET Nat /\ sizes # {}
    BY <1>1
  <1>3. PICK k \in sizes : \A l \in sizes : k <= l
    <2> HIDE DEF sizes
    <2> QED
      BY <1>2, LeastExists
  <1>4. PICK s \in Bad : \A t \in Bad : Cardinality(s) <= Cardinality(t)
    BY <1>3
  <1>5. ASSUME NEW x \in s PROVE s \ {x} \notin Bad
    <2>1. Cardinality(s \ {x}) = Cardinality(s) - 1
      BY <1>1, FS_RemoveElement
    <2> QED
      BY <1>1, <1>4, <2>1
  <1> QED
    BY <1>5

(* h puts an element of S in front of a value; c picks one of a set. *)
Operates(h, S, V) == h \in [S \X V -> V]
Picks(c, S) == c \in [(SUBSET S) \ {{}} -> S] /\ \A s \in (SUBSET S) \ {{}} : c[s] \in s

(* f folds h over the subsets of S, the element c picks being the last. *)
FoldsBy(f, S, base, h, c) ==
    /\ f[{}] = base
    /\ \A s \in (SUBSET S) \ {{}} : f[s] = h[<<c[s], f[s \ {c[s]}]>>]

\* A fold over a finite set, by whichever element is chosen next, has values.
LEMMA FoldExists ==
  ASSUME NEW S, IsFiniteSet(S), NEW V, NEW base \in V, NEW h, Operates(h, S, V),
         NEW c, Picks(c, S)
  PROVE  \E f \in [SUBSET S -> V] : FoldsBy(f, S, base, h, c)
  <1> USE DEF Operates, Picks
  <1> DEFINE Upto(k) == {s \in SUBSET S : Cardinality(s) <= k}
             IsFold(f, k) == /\ f[{}] = base
                             /\ \A s \in Upto(k) \ {{}} : f[s] = h[<<c[s], f[s \ {c[s]}]>>]
             Good(k) == \E f \in [Upto(k) -> V] : IsFold(f, k)
             N == Cardinality(S)
  <1>1. N \in Nat /\ \A s \in SUBSET S : IsFiniteSet(s) /\ Cardinality(s) \in Nat /\ Cardinality(s) <= N
    BY FS_Subset, FS_CardinalityType
  <1>2. \A s \in (SUBSET S) \ {{}} : /\ s \ {c[s]} \in SUBSET S
                                    /\ Cardinality(s \ {c[s]}) = Cardinality(s) - 1
    BY <1>1, FS_RemoveElement
  <1>3. \A s \in SUBSET S : Cardinality(s) = 0 <=> s = {}
    BY <1>1, FS_EmptySet
  <1>4. Good(0)
    <2> DEFINE f == [s \in Upto(0) |-> base]
    <2>1. \A s \in Upto(0) : s = {}
      BY <1>1, <1>3
    <2>2. {} \in Upto(0)
      BY <1>3
    <2>3. f \in [Upto(0) -> V]
      OBVIOUS
    <2>4. IsFold(f, 0)
      BY <2>1, <2>2
    <2> QED
      BY <2>3, <2>4
  <1>5. ASSUME NEW k \in Nat, Good(k)
        PROVE  Good(k + 1)
    <2>1. PICK f \in [Upto(k) -> V] : IsFold(f, k)
      BY <1>5
    <2> DEFINE next(s) == h[<<c[s], f[s \ {c[s]}]>>]
               g == [s \in Upto(k + 1) |-> IF s \in Upto(k) THEN f[s] ELSE next(s)]
    <2>2. \A s \in Upto(k + 1) \ {{}} : s \ {c[s]} \in Upto(k)
      BY <1>1, <1>2
    <2>3. {} \in Upto(k) /\ Upto(k) \subseteq Upto(k + 1)
      BY <1>1, <1>3
    <2>4. \A s \in Upto(k + 1) : s \in SUBSET S
      OBVIOUS
    <2> HIDE DEF Upto
    <2>5. \A s \in Upto(k + 1) \ {{}} : next(s) \in V
      <3> SUFFICES ASSUME NEW s \in Upto(k + 1), s # {} PROVE next(s) \in V
        OBVIOUS
      <3>1. c[s] \in S /\ f[s \ {c[s]}] \in V
        BY <2>2, <2>4
      <3> QED
        BY <3>1
    <2>6. g \in [Upto(k + 1) -> V]
      <3> HIDE DEF next
      <3> QED
        BY <2>3, <2>5
    <2>7. g[{}] = base
      BY <2>1, <2>3
    <2>8. \A s \in Upto(k + 1) \ {{}} : g[s] = next(s) /\ g[s \ {c[s]}] = f[s \ {c[s]}]
      BY <2>1, <2>2, <2>3
    <2>9. IsFold(g, k + 1)
      <3> HIDE DEF g
      <3> QED
        BY <2>7, <2>8
    <2> QED
      BY <2>6, <2>9
  <1> HIDE DEF Good
  <1>6. Good(N)
    <2> DEFINE Bad == {k \in 0 .. N : ~Good(k)}
    <2> SUFFICES ASSUME Bad # {} PROVE FALSE
      BY <1>1
    <2>1. Bad \in SUBSET Nat
      OBVIOUS
    <2>2. Least(Bad) \in Bad /\ \A k \in Bad : Least(Bad) <= k
      <3> HIDE DEF Bad
      <3> QED
        BY <2>1, LeastExists
    <2> DEFINE m == Least(Bad)
    <2> HIDE DEF m
    <2>3. m \in 0 .. N /\ ~Good(m) /\ \A k \in 0 .. N : ~Good(k) => m <= k
      BY <2>2 DEF m
    <2>4. m # 0
      BY <1>4, <2>3
    <2>5. m - 1 \in 0 .. N /\ m - 1 \in Nat /\ ~(m <= m - 1) /\ (m - 1) + 1 = m
      BY <1>1, <2>3, <2>4
    <2> QED
      BY <1>5, <2>3, <2>5
  <1>7. Upto(N) = SUBSET S
    BY <1>1
  <1> HIDE DEF Upto
  <1> QED
    BY <1>6, <1>7 DEF Good, FoldsBy

(* A sum over Z of w, taken by whichever element is chosen next. *)
PickOne(s) == CHOOSE x \in s : TRUE
Sums(f, Z, w) ==
    f = [s \in SUBSET Z |-> IF s = {} THEN 0 ELSE f[s \ {PickOne(s)}] + w[PickOne(s)]]

\* There is one, and it is an integer.
LEMMA SumIsInt ==
  ASSUME NEW Z, IsFiniteSet(Z), NEW w \in [Z -> Int]
  PROVE  /\ \E f \in [SUBSET Z -> Int] : Sums(f, Z, w)
         /\ \A f : Sums(f, Z, w) => f[Z] \in Int
  <1> DEFINE h == [p \in Z \X Int |-> p[2] + w[p[1]]]
             c == [s \in (SUBSET Z) \ {{}} |-> PickOne(s)]
  <1>1. \A s \in (SUBSET Z) \ {{}} : PickOne(s) \in s
    BY DEF PickOne
  <1>2. c \in [(SUBSET Z) \ {{}} -> Z] /\ \A s \in (SUBSET Z) \ {{}} : c[s] = PickOne(s) /\ c[s] \in s
    BY <1>1
  <1>3. h \in [Z \X Int -> Int] /\ \A x \in Z, v \in Int : h[<<x, v>>] = v + w[x]
    <2>1. \A p \in Z \X Int : p[2] + w[p[1]] \in Int
      OBVIOUS
    <2>2. \A x \in Z, v \in Int : <<x, v>> \in Z \X Int
      OBVIOUS
    <2> QED
      BY <2>1, <2>2
  <1> DEFINE V == Int
             zero == 0
  <1> HIDE DEF h, c
  <1>4. PICK f \in [SUBSET Z -> Int] :
           /\ f[{}] = 0
           /\ \A s \in (SUBSET Z) \ {{}} : f[s] = h[<<c[s], f[s \ {c[s]}]>>]
    <2>1. zero \in V /\ Operates(h, Z, V)
      BY <1>3 DEF Operates
    <2>2. Picks(c, Z)
      BY <1>2 DEF Picks
    <2> HIDE DEF V, zero
    <2>3. \E f \in [SUBSET Z -> V] : FoldsBy(f, Z, zero, h, c)
      BY <2>1, <2>2, FoldExists
    <2> USE DEF V, zero
    <2> QED
      BY <2>3, Zenon DEF FoldsBy
  <1>5. Sums(f, Z, w)
    <2>1. ASSUME NEW s \in SUBSET Z, s # {}
          PROVE  f[s] = f[s \ {PickOne(s)}] + w[PickOne(s)]
      <3>1. c[s] \in Z /\ c[s] = PickOne(s) /\ f[s \ {c[s]}] \in Int
        BY <1>2, <2>1
      <3> QED
        BY <1>3, <1>4, <2>1, <3>1
    <2> QED
      BY <1>4, <2>1 DEF Sums
  <1>6. ASSUME NEW g, Sums(g, Z, w)
        PROVE  g[Z] \in Int
    <2> DEFINE P == {s \in SUBSET Z : g[s] \in Int}
    <2>1. ASSUME NEW s \in SUBSET Z, \A x \in s : s \ {x} \in P
          PROVE  g[s] \in Int
      <3>1. CASE s = {}
        BY <1>6, <3>1 DEF Sums
      <3>2. CASE s # {}
        <4>1. PickOne(s) \in s /\ PickOne(s) \in Z
          BY <1>1, <3>2
        <4>2. g[s \ {PickOne(s)}] \in Int
          BY <2>1, <3>2, <4>1
        <4>3. g[s] = g[s \ {PickOne(s)}] + w[PickOne(s)]
          BY <1>6, <3>2 DEF Sums
        <4> QED
          BY <4>1, <4>2, <4>3
      <3> QED
        BY <3>1, <3>2
    <2>2. \A s \in SUBSET Z : (\A x \in s : s \ {x} \in P) => s \in P
      BY <2>1
    <2>3. \A s \in SUBSET Z : s \in P
      <3> HIDE DEF P
      <3> QED
        BY <2>2, SubsetInduction
    <2> QED
      BY <2>3
  <1> QED
    BY <1>5, <1>6

(* The totals of a check. *)
CarbonTotal(readings, Z) == FoldSet(LAMBDA z, sum : sum + readings[z].carbon, 0, Z)
RenewableTotal(readings, Z) == FoldSet(LAMBDA z, sum : sum + readings[z].renewable, 0, Z)

\* So the totals of a check are integers.
LEMMA TotalsAreInt ==
  ASSUME NEW Z, IsFiniteSet(Z), NEW readings, \A z \in Z : readings[z] \in ReadingRecords
  PROVE  CarbonTotal(readings, Z) \in Int /\ RenewableTotal(readings, Z) \in Int
  <1> DEFINE carbon == [z \in Z |-> readings[z].carbon]
             renewable == [z \in Z |-> readings[z].renewable]
             SumsCarbon(f) ==
                f = [s \in SUBSET Z |-> IF s = {} THEN 0
                        ELSE LET x == CHOOSE y \in s : TRUE IN f[s \ {x}] + readings[x].carbon]
             SumsRenewable(f) ==
                f = [s \in SUBSET Z |-> IF s = {} THEN 0
                        ELSE LET x == CHOOSE y \in s : TRUE IN f[s \ {x}] + readings[x].renewable]
  <1>1. \A z \in Z : readings[z].carbon \in Int /\ readings[z].renewable \in Int
    <2>1. ASSUME NEW z \in Z
          PROVE  readings[z].carbon \in Int /\ readings[z].renewable \in Int
      <3> DEFINE r == readings[z]
      <3>1. r \in ReadingRecords
        OBVIOUS
      <3> HIDE DEF r
      <3>2. r.carbon \in Nat /\ r.renewable \in 0 .. 1000
        BY <3>1 DEF ReadingRecords
      <3>3. \A n : n \in Nat \/ n \in 0 .. 1000 => n \in Int
        OBVIOUS
      <3> QED
        BY <3>2, <3>3, Zenon DEF r
    <2> QED
      BY <2>1
  <1>2. carbon \in [Z -> Int] /\ renewable \in [Z -> Int]
    BY <1>1
  <1>3. \A s \in (SUBSET Z) \ {{}} : PickOne(s) \in Z
    BY DEF PickOne
  <1>4. ASSUME NEW f PROVE SumsCarbon(f) <=> Sums(f, Z, carbon)
    BY <1>3 DEF Sums, PickOne
  <1>5. ASSUME NEW f PROVE SumsRenewable(f) <=> Sums(f, Z, renewable)
    BY <1>3 DEF Sums, PickOne
  <1>6. CarbonTotal(readings, Z) = (CHOOSE f : SumsCarbon(f))[Z]
    BY DEF CarbonTotal, FoldSet, MapThenFoldSet
  <1>7. RenewableTotal(readings, Z) = (CHOOSE f : SumsRenewable(f))[Z]
    BY DEF RenewableTotal, FoldSet, MapThenFoldSet
  <1> HIDE DEF carbon, renewable, SumsCarbon, SumsRenewable
  <1>8. (CHOOSE f : SumsCarbon(f))[Z] \in Int
    BY <1>2, <1>4, SumIsInt
  <1>9. (CHOOSE f : SumsRenewable(f))[Z] \in Int
    BY <1>2, <1>5, SumIsInt
  <1> QED
    BY <1>6, <1>7, <1>8, <1>9

----------------------------------------------------------------------------
(* SLA checks and their reports.                                           *)

(* What the status and the means of a check are. *)
Statuses == {"compliant", "warning", "breached", "unknown"}
IsCheck(c) == c.status \in Statuses /\ c.carbon \in Int /\ c.renewable \in Int

\* A rounded quotient is an integer.
LEMMA RoundDivIsInt ==
  ASSUME NEW a \in Int, NEW d \in Nat \ {0}
  PROVE  RoundDiv(a, d) \in Int
  BY DEF RoundDiv

\* Every check has them.
LEMMA ChecksAreChecks ==
  ASSUME NEW map, NEW sla, NEW readings, IsFiniteSet(DOMAIN readings),
         \A z \in DOMAIN readings : readings[z] \in ReadingRecords, NEW day
  PROVE  IsCheck(CheckSLA(map, sla, readings, day)) /\ CheckSLA(map, sla, readings, day).day = day
  <1> DEFINE zones == {r.zone : r \in Range(SLARegions(map, sla.providers, sla.regions))} \cap DOMAIN readings
             n == Greatest({1, Cardinality(zones)})
             check == CheckSLA(map, sla, readings, day)
             carbon == CarbonTotal(readings, zones)
             renewable == RenewableTotal(readings, zones)
  <1>1. IsFiniteSet(zones) /\ \A z \in zones : readings[z] \in ReadingRecords
    BY FS_Subset
  <1>2. Cardinality(zones) \in Nat
    BY <1>1, FS_CardinalityType
  <1> HIDE DEF zones
  <1>3. carbon \in Int /\ renewable \in Int
    BY <1>1, TotalsAreInt
  <1>4. n \in Nat \ {0}
    <2> DEFINE k == Cardinality(zones)
               m == IF k >= 1 THEN k ELSE 1
    <2>1. k \in Nat
      BY <1>2
    <2> HIDE DEF k
    <2>2. m \in {1, k} /\ \A y \in {1, k} : m >= y
      BY <2>1
    <2>3. Greatest({1, k}) \in {1, k} /\ Greatest({1, k}) >= 1
      BY <2>2 DEF Greatest
    <2> QED
      BY <2>1, <2>3 DEF k
  <1>5. /\ check.carbon = RoundDiv(carbon, n)
        /\ check.renewable = RoundDiv(renewable, n)
        /\ check.day = day
        /\ \E a, b : check.status = StatusOf(a, b)
    BY DEF CheckSLA, zones, CarbonTotal, RenewableTotal
  <1>6. \A a, b : StatusOf(a, b) \in Statuses
    BY DEF StatusOf, Statuses
  <1> HIDE DEF check, carbon, renewable, n
  <1> QED
    BY <1>3, <1>4, <1>5, <1>6, RoundDivIsInt DEF IsCheck, check

\* More breaches among as many zones never look better.
LEMMA StatusMonotone ==
  ASSUME NEW a \in Nat, NEW b \in Nat, NEW n \in Nat, a <= b
  PROVE  Rank(StatusOf(a, n)) <= Rank(StatusOf(b, n))
  BY DEF Rank, StatusOf

\* A check against a stricter limit finds no fewer breaches.
LEMMA StricterIsNoBetter ==
  ASSUME NEW map, NEW sla \in [providers : Seq(STRING), regions : Seq(STRING), maxCarbon : Int, minRenewable : Int],
         NEW readings, IsFiniteSet(DOMAIN readings),
         \A z \in DOMAIN readings : readings[z] \in ReadingRecords, NEW day
  PROVE  Rank(CheckSLA(map, [sla EXCEPT !.maxCarbon = @ - 5000], readings, day).status)
           >= Rank(CheckSLA(map, sla, readings, day).status)
  <1> DEFINE strict == [sla EXCEPT !.maxCarbon = @ - 5000]
             zonesOf(s) == {r.zone : r \in Range(SLARegions(map, s.providers, s.regions))} \cap DOMAIN readings
             ok(s) == {z \in zonesOf(s) : CarbonOk(s, readings[z]) /\ RenewableOk(s, readings[z])}
             status(s) == CheckSLA(map, s, readings, day).status
  <1>1. ASSUME NEW s
        PROVE  status(s) = StatusOf(Cardinality(zonesOf(s) \ ok(s)), Cardinality(zonesOf(s)))
    BY DEF CheckSLA
  <1>2. /\ strict.providers = sla.providers /\ strict.regions = sla.regions
        /\ strict.minRenewable = sla.minRenewable /\ strict.maxCarbon = sla.maxCarbon - 5000
    OBVIOUS
  <1> DEFINE zones == zonesOf(sla)
  <1>3. zonesOf(strict) = zones
    <2> HIDE DEF strict
    <2>1. SLARegions(map, strict.providers, strict.regions) = SLARegions(map, sla.providers, sla.regions)
      BY <1>2
    <2> QED
      BY <2>1
  <1>4. zones \in SUBSET DOMAIN readings
    OBVIOUS
  <1>5. \A z \in zones : CarbonOk(strict, readings[z]) => CarbonOk(sla, readings[z])
    <2> SUFFICES ASSUME NEW z \in zones PROVE CarbonOk(strict, readings[z]) => CarbonOk(sla, readings[z])
      OBVIOUS
    <2> DEFINE c == readings[z].carbon
               limit == sla.maxCarbon
    <2>1. c \in Nat /\ limit \in Int
      <3>1. readings[z] \in ReadingRecords
        OBVIOUS
      <3> QED
        BY <3>1 DEF ReadingRecords
    <2>2. strict.maxCarbon = limit - 5000
      BY <1>2
    <2> HIDE DEF c, limit, strict
    <2>3. c <= limit - 5000 => c <= limit
      BY <2>1
    <2> QED
      BY <2>2, <2>3 DEF CarbonOk, c, limit
  <1>6. \A z \in zones : RenewableOk(strict, readings[z]) = RenewableOk(sla, readings[z])
    BY <1>2 DEF RenewableOk
  <1>7. ok(strict) \subseteq ok(sla)
    BY <1>3, <1>5, <1>6
  <1> HIDE DEF zonesOf, ok, status, strict
  <1>8. IsFiniteSet(zones) /\ Cardinality(zones) \in Nat
    BY <1>4, FS_Subset, FS_CardinalityType
  <1> DEFINE few == zones \ ok(sla)
             many == zones \ ok(strict)
  <1>9. IsFiniteSet(many) /\ few \in SUBSET many
    <2>1. many \in SUBSET zones
      OBVIOUS
    <2> QED
      BY <1>7, <1>8, <2>1, FS_Subset
  <1>10. Cardinality(few) \in Nat /\ Cardinality(many) \in Nat /\ Cardinality(few) <= Cardinality(many)
    BY <1>9, FS_Subset, FS_CardinalityType
  <1> HIDE DEF few, many
  <1>11. Rank(StatusOf(Cardinality(few), Cardinality(zones))) <= Rank(StatusOf(Cardinality(many), Cardinality(zones)))
    BY <1>8, <1>10, StatusMonotone
  <1>12. Rank(status(sla)) \in Int /\ Rank(status(strict)) \in Int
    <2>1. \A k, m : Rank(StatusOf(k, m)) \in Int
      BY DEF StatusOf, Rank
    <2> QED
      BY <1>1, <2>1
  <1>13. /\ status(sla) = StatusOf(Cardinality(few), Cardinality(zones))
         /\ status(strict) = StatusOf(Cardinality(many), Cardinality(zones))
    BY <1>1, <1>3 DEF few, many
  <1> QED
    BY <1>11, <1>12, <1>13 DEF status, strict

\* Every check is counted under one status.
LEMMA CountsAddUp ==
  ASSUME NEW checks, NEW n \in Nat, DOMAIN checks = 1 .. n, \A i \in 1 .. n : IsCheck(checks[i])
  PROVE  With(checks, "compliant") + With(checks, "warning") + With(checks, "breached")
           = Cardinality({i \in DOMAIN checks : checks[i].status # "unknown"})
  <1> DEFINE of(status) == {i \in DOMAIN checks : checks[i].status = status}
             known == {i \in DOMAIN checks : checks[i].status # "unknown"}
             a == of("compliant")
             b == of("warning")
             c == of("breached")
  <1>1. \A i \in 1 .. n : checks[i].status \in Statuses
    BY DEF IsCheck
  <1>2. known = (a \cup b) \cup c
    BY <1>1 DEF Statuses
  <1>3. a \cap b = {} /\ (a \cup b) \cap c = {}
    OBVIOUS
  <1>4. a \in SUBSET (1 .. n) /\ b \in SUBSET (1 .. n) /\ c \in SUBSET (1 .. n)
    OBVIOUS
  <1>5. /\ With(checks, "compliant") = Cardinality(a)
        /\ With(checks, "warning") = Cardinality(b)
        /\ With(checks, "breached") = Cardinality(c)
    BY DEF With
  <1> HIDE DEF a, b, c, known
  <1>6. IsFiniteSet(a) /\ IsFiniteSet(b) /\ IsFiniteSet(c)
    <2>1. IsFiniteSet(1 .. n)
      BY FS_Interval
    <2> QED
      BY <1>4, <2>1, FS_Subset
  <1>7. /\ Cardinality(a) \in Nat /\ Cardinality(b) \in Nat /\ Cardinality(c) \in Nat
        /\ Cardinality({}) = 0
    BY <1>6, FS_CardinalityType, FS_EmptySet
  <1>8. IsFiniteSet(a \cup b) /\ Cardinality(a \cup b) = Cardinality(a) + Cardinality(b) - Cardinality(a \cap b)
    BY <1>6, FS_Union
  <1>9. Cardinality((a \cup b) \cup c) = Cardinality(a \cup b) + Cardinality(c) - Cardinality((a \cup b) \cap c)
    BY <1>6, <1>8, FS_Union
  <1>10. Cardinality(known) = Cardinality(a) + Cardinality(b) + Cardinality(c)
    <2>1. Cardinality(a \cap b) = 0 /\ Cardinality((a \cup b) \cap c) = 0
      BY <1>3, <1>7
    <2>2. Cardinality(known) = Cardinality((a \cup b) \cup c)
      BY <1>2
    <2> QED
      BY <1>7, <1>8, <1>9, <2>1, <2>2
  <1> QED
    BY <1>5, <1>10 DEF known

\* The greatest of a non-empty set of numbers up to n is one of them.
LEMMA MaxExists ==
  ASSUME NEW n \in Nat, NEW S \in SUBSET (1 .. n), S # {}
  PROVE  Max(S) \in S /\ \A y \in S : y <= Max(S)
  <1> DEFINE below == {n - y : y \in S}
  <1>0. \A y \in S : y \in Int /\ n - y \in Nat
    OBVIOUS
  <1>1. below \in SUBSET Nat /\ below # {}
    BY <1>0
  <1>2. PICK k \in below : \A l \in below : k <= l
    <2> HIDE DEF below
    <2> QED
      BY <1>1, LeastExists
  <1>3. PICK x \in S : k = n - x
    BY <1>2
  <1>4. \A y \in S : y <= x
    <2> SUFFICES ASSUME NEW y \in S PROVE y <= x
      OBVIOUS
    <2>1. n - x <= n - y
      BY <1>2, <1>3
    <2>2. x \in Int /\ y \in Int
      OBVIOUS
    <2> QED
      BY <2>1, <2>2
  <1>5. \A y \in S : x >= y
    <2> SUFFICES ASSUME NEW y \in S PROVE x >= y
      OBVIOUS
    <2>1. x \in Int /\ y \in Int /\ y <= x
      BY <1>0, <1>4
    <2> QED
      BY <2>1
  <1>6. Max(S) \in S /\ \A y \in S : Max(S) >= y
    BY <1>5 DEF Max
  <1>7. \A a, b \in Int : a >= b => b <= a
    OBVIOUS
  <1> QED
    BY <1>6, <1>7

(* A day's entry. *)
IsEntry(e) == e \in [status : Statuses, checks : Nat, carbon : Int, renewable : Int]

\* A check folded in leaves an entry, as bad as the worse of the two.
LEMMA FoldCheckIsWorse ==
  ASSUME NEW e, IsEntry(e), NEW c, IsCheck(c)
  PROVE  LET f == FoldCheck(e, c)
         IN  /\ IsEntry(f)
             /\ e.status # "unknown" /\ c.status # "unknown" =>
                   /\ f.status \in {e.status, c.status}
                   /\ Rank(e.status) <= Rank(f.status)
                   /\ Rank(c.status) <= Rank(f.status)
  <1> DEFINE f == FoldCheck(e, c)
             n == e.checks + 1
             carbon == e.carbon * (n - 1) + c.carbon
             renewable == e.renewable * (n - 1) + c.renewable
  <1>1. f = [status |-> Worse(e.status, c.status), checks |-> n,
             carbon |-> RoundDiv(carbon, n), renewable |-> RoundDiv(renewable, n)]
    BY DEF FoldCheck
  <1>2. e.status \in Statuses /\ e.checks \in Nat /\ e.carbon \in Int /\ e.renewable \in Int
    BY DEF IsEntry
  <1>3. c.status \in Statuses /\ c.carbon \in Int /\ c.renewable \in Int
    BY DEF IsCheck
  <1>4. n \in Nat \ {0} /\ carbon \in Int /\ renewable \in Int
    <2>1. \A k \in Nat, x, u \in Int : k + 1 \in Nat \ {0} /\ x * ((k + 1) - 1) + u \in Int
      OBVIOUS
    <2> QED
      BY <1>2, <1>3, <2>1, Zenon
  <1> HIDE DEF n, carbon, renewable
  <1>5. RoundDiv(carbon, n) \in Int /\ RoundDiv(renewable, n) \in Int
    BY <1>4, RoundDivIsInt
  <1>6. /\ Worse(e.status, c.status) \in Statuses
        /\ e.status # "unknown" /\ c.status # "unknown" =>
              /\ Worse(e.status, c.status) \in {e.status, c.status}
              /\ Rank(e.status) <= Rank(Worse(e.status, c.status))
              /\ Rank(c.status) <= Rank(Worse(e.status, c.status))
    BY <1>2, <1>3 DEF Worse, Rank, Statuses
  <1>7. IsEntry(f)
    BY <1>1, <1>4, <1>5, <1>6 DEF IsEntry
  <1>8. f.status = Worse(e.status, c.status)
    BY <1>1
  <1> HIDE DEF f
  <1>9. e.status # "unknown" /\ c.status # "unknown" =>
           /\ f.status \in {e.status, c.status}
           /\ Rank(e.status) <= Rank(f.status)
           /\ Rank(c.status) <= Rank(f.status)
    BY <1>6, <1>8
  <1> USE DEF f
  <1> QED
    BY <1>7, <1>9

(* The fold of checks, the last of each set of them last. *)
DayFold(f, n, base, rest) ==
    f = [s \in SUBSET (1 .. n) |-> IF s = {} THEN base ELSE FoldCheck(f[s \ {Max(s)}], rest[Max(s)])]

\* There is one, and it is as bad as the worst check in it.
LEMMA DayFoldIsWorst ==
  ASSUME NEW n \in Nat, NEW rest, \A i \in 1 .. n : IsCheck(rest[i]), NEW base, IsEntry(base)
  PROVE  /\ \E f : DayFold(f, n, base, rest)
         /\ \A f : DayFold(f, n, base, rest)
                   /\ base.status # "unknown" /\ (\A i \in 1 .. n : rest[i].status # "unknown") =>
                /\ f[1 .. n].status \in {base.status} \cup {rest[i].status : i \in 1 .. n}
                /\ Rank(base.status) <= Rank(f[1 .. n].status)
                /\ \A i \in 1 .. n : Rank(rest[i].status) <= Rank(f[1 .. n].status)
  <1> DEFINE S == 1 .. n
             V == [status : Statuses, checks : Nat, carbon : Int, renewable : Int]
             h == [p \in S \X V |-> FoldCheck(p[2], rest[p[1]])]
             c == [s \in (SUBSET S) \ {{}} |-> Max(s)]
  <1>1. \A s \in (SUBSET S) \ {{}} : Max(s) \in s
    BY MaxExists
  <1>2. Picks(c, S) /\ \A s \in (SUBSET S) \ {{}} : c[s] = Max(s) /\ c[s] \in S
    BY <1>1 DEF Picks
  <1>3. \A e : IsEntry(e) <=> e \in V
    BY DEF IsEntry
  <1> HIDE DEF V
  <1>4. Operates(h, S, V) /\ \A i \in S, e \in V : h[<<i, e>>] = FoldCheck(e, rest[i])
    <2>1. \A i \in S, e \in V : FoldCheck(e, rest[i]) \in V
      BY <1>3, FoldCheckIsWorse
    <2>2. \A p \in S \X V : FoldCheck(p[2], rest[p[1]]) \in V
      BY <2>1
    <2> QED
      BY <2>2 DEF Operates
  <1>5. IsFiniteSet(S)
    BY FS_Interval
  <1> HIDE DEF h, c, S
  <1>6. PICK f \in [SUBSET S -> V] : FoldsBy(f, S, base, h, c)
    BY <1>2, <1>3, <1>4, <1>5, FoldExists
  <1>7. DayFold(f, n, base, rest)
    <2>1. ASSUME NEW s \in SUBSET S, s # {}
          PROVE  f[s] = FoldCheck(f[s \ {Max(s)}], rest[Max(s)])
      <3>1. c[s] \in S /\ c[s] = Max(s) /\ f[s \ {c[s]}] \in V
        BY <1>2, <2>1
      <3>2. f[s] = h[<<c[s], f[s \ {c[s]}]>>]
        BY <1>6, <2>1 DEF FoldsBy
      <3> QED
        BY <1>4, <3>1, <3>2
    <2>2. f[{}] = base
      BY <1>6 DEF FoldsBy
    <2> QED
      BY <2>1, <2>2 DEF DayFold, S
  <1>8. ASSUME NEW g, DayFold(g, n, base, rest), base.status # "unknown",
               \A i \in 1 .. n : rest[i].status # "unknown"
        PROVE  /\ g[1 .. n].status \in {base.status} \cup {rest[i].status : i \in 1 .. n}
               /\ Rank(base.status) <= Rank(g[1 .. n].status)
               /\ \A i \in 1 .. n : Rank(rest[i].status) <= Rank(g[1 .. n].status)
    <2> DEFINE Worst(s) == /\ IsEntry(g[s])
                           /\ g[s].status \in {base.status} \cup {rest[i].status : i \in s}
                           /\ Rank(base.status) <= Rank(g[s].status)
                           /\ \A i \in s : Rank(rest[i].status) <= Rank(g[s].status)
               P == {s \in SUBSET S : Worst(s)}
    <2>0. \A a, b, d \in Int : a <= b /\ b <= d => a <= d
      OBVIOUS
    <2>1. \A t \in Statuses : Rank(t) \in Int
      BY DEF Statuses, Rank
    <2>2. Worst({})
      <3>1. g[{}] = base
        BY <1>8 DEF DayFold
      <3>2. base.status \in Statuses
        BY DEF IsEntry
      <3> QED
        BY <2>1, <3>1, <3>2
    <2>3. ASSUME NEW s \in SUBSET S, s # {}, \A x \in s : s \ {x} \in P
          PROVE  Worst(s)
      <3> DEFINE x == Max(s)
                 t == s \ {x}
      <3>1. x \in s /\ x \in S
        BY <1>1, <2>3
      <3>2. Worst(t)
        BY <2>3, <3>1
      <3>3. g[s] = FoldCheck(g[t], rest[x])
        BY <1>8, <2>3 DEF DayFold, S
      <3>4. IsCheck(rest[x]) /\ rest[x].status # "unknown"
        BY <1>8, <3>1 DEF S
      <3> HIDE DEF x
      <3>5. g[t].status # "unknown"
        BY <1>8, <3>2 DEF S
      <3>6. /\ IsEntry(g[s])
            /\ g[s].status \in {g[t].status, rest[x].status}
            /\ Rank(g[t].status) <= Rank(g[s].status)
            /\ Rank(rest[x].status) <= Rank(g[s].status)
        <4> DEFINE e == g[t]
                   k == rest[x]
                   f1 == FoldCheck(e, k)
        <4>1. IsEntry(e) /\ IsCheck(k) /\ e.status # "unknown" /\ k.status # "unknown"
          BY <3>2, <3>4, <3>5
        <4> HIDE DEF e, k
        <4>2. /\ IsEntry(f1)
              /\ f1.status \in {e.status, k.status}
              /\ Rank(e.status) <= Rank(f1.status)
              /\ Rank(k.status) <= Rank(f1.status)
          BY <4>1, FoldCheckIsWorse
        <4> QED
          BY <3>3, <4>2, Zenon DEF e, k
      <3>7. s = t \cup {x}
        BY <3>1
      <3>8. /\ Rank(base.status) \in Int /\ Rank(g[t].status) \in Int /\ Rank(g[s].status) \in Int
            /\ \A i \in s : Rank(rest[i].status) \in Int
        <4>1. \A i \in s : rest[i].status \in Statuses
          BY DEF IsCheck, S
        <4>2. base.status \in Statuses /\ g[t].status \in Statuses /\ g[s].status \in Statuses
          BY <3>2, <3>6 DEF IsEntry
        <4> QED
          BY <2>1, <4>1, <4>2
      <3>9. g[s].status \in {base.status} \cup {rest[i].status : i \in s}
        BY <3>2, <3>6, <3>7
      <3>10. Rank(base.status) <= Rank(g[s].status)
        BY <2>0, <3>2, <3>6, <3>8, Zenon
      <3>11. \A i \in t : Rank(rest[i].status) <= Rank(g[s].status)
        <4> SUFFICES ASSUME NEW i \in t PROVE Rank(rest[i].status) <= Rank(g[s].status)
          OBVIOUS
        <4>1. i \in s
          OBVIOUS
        <4>2. Rank(rest[i].status) <= Rank(g[t].status) /\ Rank(g[t].status) <= Rank(g[s].status)
          BY <3>2, <3>6
        <4> QED
          BY <2>0, <3>8, <4>1, <4>2, Zenon
      <3> QED
        BY <3>6, <3>7, <3>9, <3>10, <3>11
    <2> HIDE DEF Worst
    <2>4. \A s \in SUBSET S : (\A x \in s : s \ {x} \in P) => s \in P
      BY <2>2, <2>3
    <2>5. \A s \in SUBSET S : s \in P
      <3> HIDE DEF P
      <3> QED
        BY <1>5, <2>4, SubsetInduction
    <2>6. Worst(S)
      BY <2>5
    <2> QED
      BY <2>6 DEF Worst, S
  <1> QED
    BY <1>7, <1>8

\* A sequence of checks folded into the entry of its first.
LEMMA FoldedDay ==
  ASSUME NEW X, \A x \in X : IsCheck(x) /\ x.status # "unknown", NEW own \in Seq(X), own # <<>>
  PROVE  LET e == FoldLeft(FoldCheck, DayEntry(own[1]), Tail(own))
         IN  /\ \E i \in 1 .. Len(own) : e.status = own[i].status
             /\ \A i \in 1 .. Len(own) : Rank(own[i].status) <= Rank(e.status)
  <1> DEFINE rest == Tail(own)
             n == Len(own) - 1
             base == DayEntry(own[1])
             e == FoldLeft(FoldCheck, base, rest)
             fold == CHOOSE f : DayFold(f, n, base, rest)
  <1>1. Len(own) \in Nat \ {0} /\ DOMAIN own = 1 .. Len(own) /\ 1 \in 1 .. Len(own)
        /\ \A i \in 1 .. Len(own) : own[i] \in X
    BY SequenceFacts
  <1>2. n \in Nat
    BY <1>1
  <1>3. DOMAIN rest = 1 .. n /\ \A i \in 1 .. n : rest[i] = own[i + 1]
    <2>1. rest \in Seq(X) /\ Len(rest) = n /\ \A i \in 1 .. Len(rest) : rest[i] = own[i + 1]
      BY HeadTailProperties
    <2>2. DOMAIN rest = 1 .. Len(rest)
      BY <2>1
    <2> QED
      BY <2>1, <2>2
  <1>4. \A i \in 1 .. n : IsCheck(rest[i]) /\ rest[i].status # "unknown"
    <2>1. \A i \in 1 .. n : i + 1 \in 1 .. Len(own)
      BY <1>1
    <2> QED
      BY <1>1, <1>3, <2>1
  <1>5. IsEntry(base) /\ base.status = own[1].status /\ base.status # "unknown"
    <2>1. IsCheck(own[1]) /\ own[1].status # "unknown"
      BY <1>1
    <2> QED
      BY <2>1 DEF DayEntry, IsEntry, IsCheck
  <1>6. e = fold[1 .. n]
    <2>1. e = (CHOOSE f : f = [s \in SUBSET DOMAIN rest |->
                                  IF s = {} THEN base ELSE FoldCheck(f[s \ {Max(s)}], rest[Max(s)])])[DOMAIN rest]
      BY DEF FoldLeft, MapThenFoldSet
    <2> QED
      BY <1>3, <2>1 DEF DayFold
  <1> HIDE DEF rest, n, base
  <1>7. DayFold(fold, n, base, rest)
    BY <1>2, <1>4, <1>5, DayFoldIsWorst
  <1>8. /\ fold[1 .. n].status \in {base.status} \cup {rest[i].status : i \in 1 .. n}
        /\ Rank(base.status) <= Rank(fold[1 .. n].status)
        /\ \A i \in 1 .. n : Rank(rest[i].status) <= Rank(fold[1 .. n].status)
    BY <1>2, <1>4, <1>5, <1>7, DayFoldIsWorst
  <1> HIDE DEF e, fold
  <1>9. \E i \in 1 .. Len(own) : e.status = own[i].status
    <2>1. e.status = base.status \/ \E i \in 1 .. n : e.status = rest[i].status
      BY <1>6, <1>8
    <2>2. \A i \in 1 .. n : i + 1 \in 1 .. Len(own)
      BY <1>1 DEF n
    <2> QED
      BY <1>1, <1>3, <1>5, <2>1, <2>2
  <1>10. ASSUME NEW i \in 1 .. Len(own)
         PROVE  Rank(own[i].status) <= Rank(e.status)
    <2>1. CASE i = 1
      BY <1>5, <1>6, <1>8, <2>1
    <2>2. CASE i # 1
      <3>1. i - 1 \in 1 .. n /\ (i - 1) + 1 = i
        BY <1>1, <2>2 DEF n
      <3>2. own[i] = rest[i - 1]
        BY <1>3, <3>1
      <3> QED
        BY <1>6, <1>8, <3>1, <3>2
    <2> QED
      BY <2>1, <2>2
  <1> USE DEF e, base, rest
  <1> QED
    BY <1>9, <1>10, Zenon

\* A day of the report is as bad as its worst check.
LEMMA DayIsWorst ==
  ASSUME NEW checks, NEW n \in Nat, DOMAIN checks = 1 .. n, \A i \in 1 .. n : IsCheck(checks[i]),
         NEW day, \A i \in 1 .. n : checks[i].day = day => checks[i].status # "unknown",
         NEW j \in 1 .. n, checks[j].day = day
  PROVE  /\ \E i \in 1 .. n : checks[i].day = day /\ ChecksByDay(checks)[day].status = checks[i].status
         /\ \A i \in 1 .. n : checks[i].day = day =>
               Rank(checks[i].status) <= Rank(ChecksByDay(checks)[day].status)
  <1> DEFINE I == {i \in DOMAIN checks : checks[i].day = day}
             own == Picked(checks, I)
             X == {checks[i] : i \in I}
             e == FoldLeft(FoldCheck, DayEntry(own[1]), Tail(own))
             m == Cardinality(I)
  <1>1. ChecksByDay(checks)[day] = e
    <2>1. day \in {c.day : c \in Range(checks)}
      BY DEF Range
    <2> QED
      BY <2>1 DEF ChecksByDay
  <1>2. I \in SUBSET (1 .. n) /\ j \in I
    OBVIOUS
  <1>3. \A x \in X : IsCheck(x) /\ x.status # "unknown"
    OBVIOUS
  <1>4. \A i \in I : checks[i] \in X
    OBVIOUS
  <1>5. \A i \in 1 .. n : i \in I <=> checks[i].day = day
    OBVIOUS
  <1> HIDE DEF I, X
  <1>6. /\ m \in Nat
        /\ \A k \in 1 .. m : NthOf(I, k) \in I
        /\ \A i \in I : RankIn(I, i) \in 1 .. m /\ NthOf(I, RankIn(I, i)) = i
    BY <1>2, CountedOff
  <1>7. own = [k \in 1 .. m |-> checks[NthOf(I, k)]]
    BY DEF Picked, NthOf, RankIn
  <1>8. DOMAIN own = 1 .. m /\ \A k \in 1 .. m : own[k] = checks[NthOf(I, k)]
    BY <1>7
  <1> HIDE DEF own, m
  <1>9. own \in Seq(X) /\ Len(own) = m /\ own # <<>>
    <2>1. own \in [1 .. m -> X]
      BY <1>4, <1>6, <1>7
    <2>2. own \in Seq(X)
      BY <1>6, <2>1, SeqDef
    <2>3. Len(own) = m
      BY <1>6, <1>8, <2>2
    <2>4. 1 .. m # {}
      BY <1>2, <1>6
    <2> QED
      BY <1>6, <2>2, <2>3, <2>4
  <1>10. /\ \E k \in 1 .. Len(own) : e.status = own[k].status
         /\ \A k \in 1 .. Len(own) : Rank(own[k].status) <= Rank(e.status)
    BY <1>3, <1>9, FoldedDay
  <1> HIDE DEF e
  <1>11. \E i \in 1 .. n : checks[i].day = day /\ e.status = checks[i].status
    BY <1>2, <1>5, <1>6, <1>8, <1>9, <1>10
  <1>12. \A i \in 1 .. n : checks[i].day = day => Rank(checks[i].status) <= Rank(e.status)
    BY <1>5, <1>6, <1>8, <1>9, <1>10
  <1> QED
    BY <1>1, <1>11, <1>12

\* The checks an SLA question is answered with.
LEMMA ChecksOfQuestion ==
  ASSUME IsSLAQuestion(question), NEW sla
  PROVE  /\ Len(question.batches) \in Nat
         /\ DOMAIN ChecksOf(sla) = 1 .. Len(question.batches)
         /\ \A i \in 1 .. Len(question.batches) :
               /\ ChecksOf(sla)[i] = CheckSLA(question.map, sla, question.batches[i].readings,
                                              question.batches[i].day)
               /\ IsFiniteSet(DOMAIN question.batches[i].readings)
               /\ \A z \in DOMAIN question.batches[i].readings :
                     question.batches[i].readings[z] \in ReadingRecords
               /\ IsCheck(ChecksOf(sla)[i])
  <1> DEFINE batches == question.batches
             n == Len(batches)
  <1>1. n \in Nat /\ DOMAIN batches = 1 .. n /\ \A i \in 1 .. n : batches[i] \in Range(batches)
    BY DEF IsSLAQuestion, Range
  <1>2. ASSUME NEW i \in 1 .. n
        PROVE  /\ IsFiniteSet(DOMAIN batches[i].readings)
               /\ \A z \in DOMAIN batches[i].readings : batches[i].readings[z] \in ReadingRecords
    BY <1>1, Zenon DEF IsSLAQuestion
  <1>3. /\ DOMAIN ChecksOf(sla) = 1 .. n
        /\ \A i \in 1 .. n : ChecksOf(sla)[i] = CheckSLA(question.map, sla, batches[i].readings, batches[i].day)
    BY <1>1 DEF ChecksOf
  <1> HIDE DEF batches, n
  <1>4. \A i \in 1 .. n : IsCheck(ChecksOf(sla)[i])
    BY <1>2, <1>3, ChecksAreChecks
  <1> USE DEF batches, n
  <1> QED
    BY <1>1, <1>2, <1>3, <1>4, Zenon

(***************************************************************************)
(* What sla/engine.py makes of any batches of readings, for every SLA and  *)
(* every map: tightening the limit never turns a check for the better, the *)
(* report counts every check that found data once, and a day is shown as   *)
(* bad as its worst check, in whatever order the checks came.              *)
(***************************************************************************)
THEOREM ReportsTellTheWorst == QuestionsSpec => []SLASound
  <1>1. Replies => SLASound
    <2> SUFFICES ASSUME Replies, Replied("sla") PROVE SLASound
      BY DEF SLASound
    <2> DEFINE n == Len(question.batches)
               checks == ChecksOf(question.sla)
               stricter == ChecksOf([question.sla EXCEPT !.maxCarbon = @ - 5000])
               report == AttestationReport(checks)
               of(day) == {Rank(c.status) : c \in {d \in Range(checks) : d.day = day}}
    <2>1. IsSLAQuestion(question)
      BY QuestionsAssumption DEF Replies, Replied
    <2>2. answer.checks = checks /\ answer.report = report
      BY DEF Replies
    <2>3. /\ n \in Nat /\ DOMAIN checks = 1 .. n /\ \A i \in 1 .. n : IsCheck(checks[i])
      BY <2>1, ChecksOfQuestion
    <2>4. ASSUME NEW i \in 1 .. n
          PROVE  Rank(stricter[i].status) >= Rank(checks[i].status)
      <3> DEFINE readings == question.batches[i].readings
                 day == question.batches[i].day
                 sla == question.sla
                 strict == [sla EXCEPT !.maxCarbon = @ - 5000]
      <3>1. /\ checks[i] = CheckSLA(question.map, sla, readings, day)
            /\ IsFiniteSet(DOMAIN readings)
            /\ \A z \in DOMAIN readings : readings[z] \in ReadingRecords
        BY <2>1, ChecksOfQuestion
      <3>2. stricter[i] = CheckSLA(question.map, strict, readings, day)
        BY <2>1, ChecksOfQuestion
      <3>3. sla \in [providers : Seq(STRING), regions : Seq(STRING), maxCarbon : Int, minRenewable : Int]
        BY <2>1 DEF IsSLAQuestion
      <3> HIDE DEF readings, day, sla
      <3>4. Rank(CheckSLA(question.map, strict, readings, day).status)
              >= Rank(CheckSLA(question.map, sla, readings, day).status)
        BY <3>1, <3>3, StricterIsNoBetter
      <3> QED
        BY <3>1, <3>2, <3>4
    <2> HIDE DEF n, checks, stricter
    <2>5. report.compliant + report.warning + report.breached
            = Cardinality({i \in DOMAIN checks : checks[i].status # "unknown"})
      <3>1. /\ report.compliant = With(checks, "compliant")
            /\ report.warning = With(checks, "warning")
            /\ report.breached = With(checks, "breached")
        BY DEF AttestationReport
      <3> QED
        BY <2>3, <3>1, CountsAddUp
    <2>6. report.byDay = ChecksByDay(checks)
      BY DEF AttestationReport
    <2> HIDE DEF report
    <2>7. ASSUME NEW day \in DOMAIN report.byDay, 3 \notin of(day)
          PROVE  Rank(report.byDay[day].status) = Greatest(of(day))
      <3> DEFINE worst == Rank(ChecksByDay(checks)[day].status)
      <3>1. PICK j \in 1 .. n : checks[j].day = day
        BY <2>3, <2>6 DEF ChecksByDay, Range
      <3>2. of(day) = {Rank(checks[i].status) : i \in {k \in 1 .. n : checks[k].day = day}}
        BY <2>3 DEF Range
      <3>3. \A i \in 1 .. n : checks[i].day = day => checks[i].status # "unknown"
        BY <2>7, <3>2 DEF Rank
      <3>4. \A i \in 1 .. n : Rank(checks[i].status) \in Int
        BY <2>3 DEF IsCheck, Statuses, Rank
      <3> HIDE DEF of
      <3>5. /\ \E i \in 1 .. n : checks[i].day = day /\ ChecksByDay(checks)[day].status = checks[i].status
            /\ \A i \in 1 .. n : checks[i].day = day => Rank(checks[i].status) <= worst
        BY <2>3, <3>1, <3>3, DayIsWorst
      <3>6. worst \in of(day) /\ of(day) \subseteq Int
        BY <3>2, <3>4, <3>5
      <3> HIDE DEF worst
      <3>7. \A y \in of(day) : y <= worst
        BY <3>2, <3>5
      <3>8. \A y \in of(day) : worst >= y
        BY <3>6, <3>7
      <3>9. \A x \in of(day) : (\A y \in of(day) : x >= y) => x = worst
        BY <3>6, <3>8
      <3>10. Greatest(of(day)) = worst
        BY <3>6, <3>8, <3>9 DEF Greatest
      <3> QED
        BY <2>6, <3>10 DEF worst
    <2>8. DOMAIN checks = 1 .. n
      BY <2>3
    <2> DEFINE seen(day) == {Rank(c.status) : c \in {d \in Range(answer.checks) : d.day = day}}
    <2>9. \A i \in DOMAIN answer.checks : Rank(stricter[i].status) >= Rank(answer.checks[i].status)
      BY <2>2, <2>4, <2>8
    <2>10. answer.report.compliant + answer.report.warning + answer.report.breached
             = Cardinality({i \in DOMAIN answer.checks : answer.checks[i].status # "unknown"})
      BY <2>2, <2>5
    <2>11. \A day : seen(day) = of(day)
      BY <2>2
    <2> HIDE DEF seen, of
    <2>12. \A day \in DOMAIN answer.report.byDay :
              3 \notin seen(day) => Rank(answer.report.byDay[day].status) = Greatest(seen(day))
      BY <2>2, <2>7, <2>11
    <2> QED
      BY <2>9, <2>10, <2>12, Zenon DEF SLASound, stricter, seen
  <1> QED
    BY <1>1, RepliesInvariant, PTL

----------------------------------------------------------------------------
(* Routes.                                                                 *)

\* What is picked is a sequence of the elements at the indices.
LEMMA PickedRange ==
  ASSUME NEW R, NEW s \in Seq(R), NEW I \in SUBSET DOMAIN s
  PROVE  /\ Picked(s, I) \in Seq(R)
         /\ Range(Picked(s, I)) = {s[i] : i \in I}
  <1> DEFINE n == Len(s)
             picked == Picked(s, I)
  <1>1. n \in Nat /\ DOMAIN s = 1 .. n /\ I \in SUBSET (1 .. n)
    OBVIOUS
  <1>2. /\ Cardinality(I) \in Nat
        /\ \A k \in 1 .. Cardinality(I) : NthOf(I, k) \in I
        /\ \A i \in I : RankIn(I, i) \in 1 .. Cardinality(I) /\ NthOf(I, RankIn(I, i)) = i
    BY <1>1, CountedOff
  <1>3. /\ DOMAIN picked = 1 .. Cardinality(I)
        /\ \A k \in 1 .. Cardinality(I) : picked[k] = s[NthOf(I, k)]
    <2> HIDE DEF n
    <2>1. /\ DOMAIN Picked(s, I) = 1 .. Cardinality(I)
          /\ \A k \in DOMAIN Picked(s, I) : Picked(s, I)[k] = s[NthOf(I, k)]
      BY <1>1, PickedAre
    <2> QED
      BY <2>1
  <1>4. \E h : picked = [k \in 1 .. Cardinality(I) |-> h[k]]
    <2> DEFINE h == [k \in 1 .. Cardinality(I) |-> s[CHOOSE i \in I : Cardinality({j \in I : j <= i}) = k]]
    <2>1. picked = h
      BY DEF Picked
    <2>2. h = [k \in 1 .. Cardinality(I) |-> h[k]]
      OBVIOUS
    <2> QED
      BY <2>1, <2>2
  <1>5. \A i \in I : s[i] \in R
    OBVIOUS
  <1> HIDE DEF picked, n
  <1>6. picked \in Seq(R)
    <2>1. \A k \in 1 .. Cardinality(I) : picked[k] \in R
      BY <1>2, <1>3, <1>5
    <2>2. picked \in [1 .. Cardinality(I) -> R]
      BY <1>4, <2>1
    <2> QED
      BY <1>2, <2>2, SeqDef
  <1>7. Range(picked) = {s[i] : i \in I}
    <2>1. Range(picked) = {picked[k] : k \in 1 .. Cardinality(I)}
      BY <1>3 DEF Range
    <2>2. \A k \in 1 .. Cardinality(I) : picked[k] \in {s[i] : i \in I}
      BY <1>2, <1>3
    <2>3. \A i \in I : \E k \in 1 .. Cardinality(I) : picked[k] = s[i]
      BY <1>2, <1>3
    <2> QED
      BY <2>1, <2>2, <2>3
  <1> QED
    BY <1>6, <1>7 DEF picked

\* The elements of a finite set that are scored apart are sorted: each of them
\* has its place, and the first ranks before all.
LEMMA SortedAre ==
  ASSUME NEW S, IsFiniteSet(S), \A c \in S : c.score \in Int /\ c.at \in Int,
         \A c, d \in S : c.at = d.at => c = d
  PROVE  /\ Cardinality(S) \in Nat
         /\ DOMAIN SortedByScore(S) = 1 .. Cardinality(S)
         /\ SortedByScore(S) \in Seq(S)
         /\ \A c \in S : \E k \in 1 .. Cardinality(S) : SortedByScore(S)[k] = c
         /\ S # {} => \A c \in S : RanksBefore(SortedByScore(S)[1], c)
  <1> DEFINE n == Cardinality(S)
             upto(c) == {d \in S : RanksBefore(d, c)}
             rank(c) == Cardinality(upto(c))
             sorted == SortedByScore(S)
  <1>1. n \in Nat
    BY FS_CardinalityType
  <1>2. /\ \A c \in S : RanksBefore(c, c)
        /\ \A c, d \in S : RanksBefore(c, d) \/ RanksBefore(d, c)
        /\ \A c, d \in S : RanksBefore(c, d) /\ RanksBefore(d, c) => c = d
    <2>1. \A c, d \in S : /\ c.score \in Int /\ c.at \in Int /\ d.score \in Int /\ d.at \in Int
                          /\ c.at = d.at => c = d
      OBVIOUS
    <2> QED
      BY <2>1 DEF RanksBefore
  <1>3. \A b, c, d \in S : RanksBefore(b, c) /\ RanksBefore(c, d) => RanksBefore(b, d)
    <2>1. \A b, c, d \in S : /\ b.score \in Int /\ b.at \in Int
                             /\ c.score \in Int /\ c.at \in Int /\ d.score \in Int /\ d.at \in Int
      OBVIOUS
    <2> QED
      BY <2>1 DEF RanksBefore
  <1>4. ASSUME NEW c \in S
        PROVE  IsFiniteSet(upto(c)) /\ rank(c) \in 1 .. n
    <2>1. upto(c) \in SUBSET S /\ c \in upto(c)
      BY <1>2
    <2> HIDE DEF upto
    <2>2. IsFiniteSet(upto(c)) /\ Cardinality(upto(c)) <= n
      BY <2>1, FS_Subset
    <2>3. Cardinality(upto(c)) \in Nat /\ Cardinality(upto(c)) # 0
      BY <2>1, <2>2, FS_CardinalityType, FS_EmptySet
    <2> QED
      BY <1>1, <2>2, <2>3
  <1>5. ASSUME NEW c \in S, NEW d \in S, RanksBefore(c, d), c # d
        PROVE  rank(c) < rank(d)
    <2>1. upto(c) \in SUBSET upto(d) /\ d \in upto(d) /\ d \notin upto(c)
      BY <1>2, <1>3, <1>5
    <2> HIDE DEF upto
    <2>2. rank(c) <= rank(d) /\ rank(c) # rank(d)
      BY <1>4, <2>1, FS_Subset
    <2>3. rank(c) \in Int /\ rank(d) \in Int
      BY <1>4
    <2> QED
      BY <2>2, <2>3
  <1> HIDE DEF rank
  <1>6. \A k \in 1 .. n : \E c \in S : rank(c) = k
    <2> DEFINE ranks == [c \in S |-> rank(c)]
    <2>1. ranks \in [S -> 1 .. n]
      BY <1>4
    <2>2. \A c, d \in S : ranks[c] = ranks[d] => c = d
      <3> SUFFICES ASSUME NEW c \in S, NEW d \in S, c # d PROVE rank(c) # rank(d)
        OBVIOUS
      <3>1. rank(c) \in 1 .. n /\ rank(d) \in 1 .. n
        BY <1>4
      <3>2. rank(c) < rank(d) \/ rank(d) < rank(c)
        BY <1>2, <1>5
      <3> QED
        BY <3>1, <3>2
    <2>3. ranks \in Injection(S, 1 .. n)
      <3> HIDE DEF ranks
      <3> QED
        BY <2>1, <2>2 DEF Injection, IsInjective
    <2>4. IsFiniteSet(1 .. n) /\ Cardinality(1 .. n) = n
      BY <1>1, FS_Interval
    <2>5. ranks \in Surjection(S, 1 .. n)
      <3> HIDE DEF ranks
      <3> QED
        BY <2>3, <2>4, FS_Injection
    <2> QED
      BY <2>5 DEF Surjection
  <1>7. sorted = [k \in 1 .. n |-> CHOOSE c \in S : rank(c) = k]
    BY DEF SortedByScore, rank
  <1> HIDE DEF sorted, n
  <1>8. DOMAIN sorted = 1 .. n /\ \A k \in 1 .. n : sorted[k] \in S /\ rank(sorted[k]) = k
    BY <1>6, <1>7
  <1>9. sorted \in Seq(S)
    <2>1. sorted \in [1 .. n -> S]
      BY <1>7, <1>8
    <2> QED
      BY <1>1, <2>1, SeqDef
  <1>10. ASSUME NEW c \in S PROVE \E k \in 1 .. n : sorted[k] = c
    <2>1. rank(c) \in 1 .. n
      BY <1>4
    <2>2. sorted[rank(c)] \in S /\ rank(sorted[rank(c)]) = rank(c)
      BY <1>8, <2>1
    <2>3. sorted[rank(c)] = c
      <3> DEFINE e == sorted[rank(c)]
      <3>1. e # c => rank(e) < rank(c) \/ rank(c) < rank(e)
        BY <1>2, <1>5, <2>2
      <3>2. rank(c) \in Int /\ rank(e) = rank(c)
        BY <2>1, <2>2
      <3> HIDE DEF e
      <3>3. e = c
        BY <3>1, <3>2
      <3> QED
        BY <3>3 DEF e
    <2> QED
      BY <2>1, <2>3
  <1>11. ASSUME S # {}, NEW c \in S PROVE RanksBefore(sorted[1], c)
    <2>1. rank(c) \in 1 .. n
      BY <1>4
    <2>2. 1 \in 1 .. n
      BY <1>1, <2>1
    <2>3. sorted[1] \in S /\ rank(sorted[1]) = 1
      BY <1>8, <2>2
    <2>4. ~RanksBefore(sorted[1], c) => rank(c) < 1
      BY <1>2, <1>5, <2>3
    <2> QED
      BY <2>1, <2>4
  <1> QED
    BY <1>1, <1>8, <1>9, <1>10, <1>11 DEF n, sorted

\* A rounded quotient of naturals is one; it is 0 for at most half a divisor
\* only, positive for more than half, and rounds to no more than what it does
\* not exceed.
LEMMA RoundDivFacts ==
  ASSUME NEW a \in Nat, NEW d \in Nat \ {0}
  PROVE  /\ RoundDiv(a, d) \in Nat
         /\ RoundDiv(a, d) = 0 => 2 * a <= d
         /\ 2 * a > d => RoundDiv(a, d) > 0
         /\ a <= 1000 * d => RoundDiv(a, d) <= 1000
         /\ RoundDiv(0, d) = 0
  <1> DEFINE q == a \div d
             r == a % d
  <1>1. q \in Int /\ r \in 0 .. d - 1 /\ a = d * q + r
    OBVIOUS
  <1>2. RoundDiv(a, d) = IF 2 * r > d \/ (2 * r = d /\ q % 2 = 1) THEN q + 1 ELSE q
    BY DEF RoundDiv
  <1>3. RoundDiv(0, d) = 0
    <2>1. 0 \div d = 0 /\ 0 % d = 0
      OBVIOUS
    <2> QED
      BY <2>1 DEF RoundDiv
  <1> HIDE DEF q, r
  <1>4. q >= 0
    <2> SUFFICES ASSUME q <= -1 PROVE FALSE
      BY <1>1
    <2>1. d * q <= d * (-1)
      BY <1>1
    <2> QED
      BY <1>1, <2>1
  <1>5. a <= 1000 * d => q < 1000 \/ (q = 1000 /\ r = 0)
    <2>1. ASSUME q >= 1001, a <= 1000 * d PROVE FALSE
      <3>1. d * q >= d * 1001
        BY <1>1, <2>1
      <3> QED
        BY <1>1, <2>1, <3>1
    <2>2. q = 1000 /\ a <= 1000 * d => r = 0
      BY <1>1
    <2> QED
      BY <1>1, <2>1, <2>2
  <1>6. q = 0 => a = r
    BY <1>1
  <1> QED
    BY <1>1, <1>2, <1>3, <1>4, <1>5, <1>6

\* A sequence and another after it have the elements of both.
LEMMA RangeOfJoined ==
  ASSUME NEW R, NEW a \in Seq(R), NEW b \in Seq(R)
  PROVE  a \o b \in Seq(R) /\ Range(a \o b) = Range(a) \cup Range(b)
  <1>1. /\ a \o b \in Seq(R) /\ Len(a \o b) = Len(a) + Len(b)
        /\ \A i \in 1 .. Len(a) + Len(b) : (a \o b)[i] = IF i <= Len(a) THEN a[i] ELSE b[i - Len(a)]
    BY ConcatProperties
  <1>2. Len(a) \in Nat /\ Len(b) \in Nat
    OBVIOUS
  <1> DEFINE ab == a \o b
  <1> HIDE DEF ab
  <1>3. /\ Range(ab) = {ab[i] : i \in 1 .. Len(a) + Len(b)}
        /\ Range(a) = {a[i] : i \in 1 .. Len(a)}
        /\ Range(b) = {b[i] : i \in 1 .. Len(b)}
    BY <1>1 DEF Range, ab
  <1>4. \A i \in 1 .. Len(a) + Len(b) : ab[i] \in Range(a) \cup Range(b)
    <2> TAKE i \in 1 .. Len(a) + Len(b)
    <2>1. CASE i <= Len(a)
      BY <1>1, <1>2, <1>3, <2>1 DEF ab
    <2>2. CASE ~(i <= Len(a))
      <3>1. i - Len(a) \in 1 .. Len(b) /\ ab[i] = b[i - Len(a)]
        BY <1>1, <1>2, <2>2 DEF ab
      <3> QED
        BY <1>3, <3>1
    <2> QED
      BY <2>1, <2>2
  <1>5. \A i \in 1 .. Len(a) : a[i] \in Range(ab)
    <2> TAKE i \in 1 .. Len(a)
    <2>1. i \in 1 .. Len(a) + Len(b) /\ i <= Len(a)
      BY <1>2
    <2> QED
      BY <1>1, <1>3, <2>1 DEF ab
  <1>6. \A i \in 1 .. Len(b) : b[i] \in Range(ab)
    <2> TAKE i \in 1 .. Len(b)
    <2>1. i + Len(a) \in 1 .. Len(a) + Len(b) /\ ~(i + Len(a) <= Len(a)) /\ (i + Len(a)) - Len(a) = i
      BY <1>2
    <2>2. ab[i + Len(a)] = b[(i + Len(a)) - Len(a)]
      BY <1>1, <2>1 DEF ab
    <2> QED
      BY <1>3, <2>1, <2>2
  <1>7. Range(ab) = Range(a) \cup Range(b)
    BY <1>3, <1>4, <1>5, <1>6
  <1> QED
    BY <1>1, <1>7 DEF ab

(* What a provider's regions add to the candidates. *)
Offers(map, req, i) == Permitted(ListRegions(map, req.providers[i]), req)

\* The candidates are what the providers asked for add to them.
LEMMA CandidatesAreOffered ==
  ASSUME NEW R, NEW map \in Seq(R), NEW P, NEW req, req.providers \in Seq(P)
  PROVE  /\ RouteCandidates(map, req) \in Seq(R)
         /\ Range(RouteCandidates(map, req))
               = UNION {Range(Offers(map, req, i)) : i \in DOMAIN req.providers}
  <1> DEFINE D == DOMAIN req.providers
             V == Seq(R)
             empty == <<>>
             own(i) == Offers(map, req, i)
             h == [p \in D \X V |-> p[2] \o own(p[1])]
             c == [s \in (SUBSET D) \ {{}} |-> Max(s)]
             Joined(f) == f = [s \in SUBSET D |-> IF s = {} THEN empty
                                ELSE LET x == Max(s) IN f[s \ {x}] \o own(x)]
             joined == CHOOSE f : Joined(f)
             of(s) == UNION {Range(own(i)) : i \in s}
  <1>1. D = 1 .. Len(req.providers) /\ Len(req.providers) \in Nat /\ IsFiniteSet(D)
    BY FS_Interval
  <1>2. ASSUME NEW i PROVE own(i) \in V
    <2> DEFINE listed == ListRegions(map, req.providers[i])
    <2>1. listed \in Seq(R)
      BY PickedRange DEF ListRegions
    <2> HIDE DEF listed
    <2>2. Permitted(listed, req) \in Seq(R)
      BY <2>1, PickedRange DEF Permitted
    <2> QED
      BY <2>2 DEF Offers, listed
  <1>3. ASSUME NEW s \in (SUBSET D) \ {{}} PROVE Max(s) \in s
    BY <1>1, MaxExists
  <1>4. RouteCandidates(map, req) = joined[D]
    BY DEF RouteCandidates, FoldLeft, MapThenFoldSet, Offers
  <1>5. Operates(h, D, V)
    <2>1. \A i : \A v \in V : v \o own(i) \in V
      BY <1>2
    <2> HIDE DEF V, own
    <2> QED
      BY <2>1 DEF Operates
  <1>6. Picks(c, D)
    <2>1. \A s \in (SUBSET D) \ {{}} : Max(s) \in s /\ Max(s) \in D
      BY <1>3
    <2> QED
      BY <2>1 DEF Picks
  <1>7. empty \in V
    OBVIOUS
  <1> HIDE DEF D, own, V, empty
  <1>8. \A s \in (SUBSET D) \ {{}} : c[s] = Max(s)
    OBVIOUS
  <1>9. \A i \in D, v \in V : h[<<i, v>>] = v \o own(i)
    OBVIOUS
  <1> HIDE DEF h, c
  <1>10. PICK f \in [SUBSET D -> V] : FoldsBy(f, D, empty, h, c)
    BY <1>1, <1>5, <1>6, <1>7, FoldExists
  <1>11. Joined(f)
    <2>1. ASSUME NEW s \in SUBSET D, s # {}
          PROVE  f[s] = f[s \ {Max(s)}] \o own(Max(s))
      <3>1. f[s] = h[<<c[s], f[s \ {c[s]}]>>] /\ c[s] = Max(s)
        BY <1>8, <1>10, <2>1 DEF FoldsBy
      <3>2. Max(s) \in D /\ f[s \ {Max(s)}] \in V
        BY <1>3, <2>1
      <3> QED
        BY <1>9, <3>1, <3>2
    <2> QED
      BY <1>10, <2>1 DEF FoldsBy
  <1>12. Joined(joined)
    <2> HIDE DEF Joined
    <2> QED
      BY <1>11
  <1> HIDE DEF joined
  <1>13. joined[{}] = empty /\ \A s \in SUBSET D : s # {} => joined[s] = joined[s \ {Max(s)}] \o own(Max(s))
    BY <1>12
  <1> DEFINE Good == {s \in SUBSET D : joined[s] \in V /\ Range(joined[s]) = of(s)}
  <1>14. ASSUME NEW s \in SUBSET D, \A x \in s : s \ {x} \in Good
         PROVE  joined[s] \in V /\ Range(joined[s]) = of(s)
    <2>1. CASE s = {}
      <3>1. Range(empty) = {}
        BY DEF Range, empty
      <3> QED
        BY <1>7, <1>13, <2>1, <3>1
    <2>2. CASE s # {}
      <3>1. Max(s) \in s /\ s \ {Max(s)} \in Good
        BY <1>3, <1>14, <2>2
      <3>2. joined[s] = joined[s \ {Max(s)}] \o own(Max(s))
        BY <1>13, <2>2
      <3>3. joined[s \ {Max(s)}] \in V /\ own(Max(s)) \in V /\ Range(joined[s \ {Max(s)}]) = of(s \ {Max(s)})
        BY <1>2, <3>1
      <3>4. joined[s] \in V /\ Range(joined[s]) = of(s \ {Max(s)}) \cup Range(own(Max(s)))
        <4> DEFINE a == joined[s \ {Max(s)}]
                   b == own(Max(s))
        <4>1. a \in Seq(R) /\ b \in Seq(R) /\ Range(a) = of(s \ {Max(s)})
          BY <3>3 DEF V
        <4> HIDE DEF a, b, of
        <4>2. a \o b \in Seq(R) /\ Range(a \o b) = of(s \ {Max(s)}) \cup Range(b)
          BY <4>1, RangeOfJoined
        <4> QED
          BY <3>2, <4>2 DEF V, a, b
      <3>5. of(s) = of(s \ {Max(s)}) \cup Range(own(Max(s)))
        BY <3>1
      <3> QED
        BY <3>4, <3>5
    <2> QED
      BY <2>1, <2>2
  <1>15. \A s \in SUBSET D : (\A x \in s : s \ {x} \in Good) => s \in Good
    BY <1>14
  <1>16. \A s \in SUBSET D : s \in Good
    <2> HIDE DEF Good
    <2> QED
      BY <1>1, <1>15, SubsetInduction
  <1>17. D \in SUBSET D
    OBVIOUS
  <1>18. joined[D] \in V /\ Range(joined[D]) = of(D)
    BY <1>16, <1>17
  <1> QED
    BY <1>4, <1>18 DEF V, D, own

\* A sum is no less than its least term as often as there are terms, and as
\* much more as any of them is above that.
LEMMA SumAtLeast ==
  ASSUME NEW n \in Nat, NEW w \in [1 .. n -> Int], NEW l \in Int,
         \A i \in 1 .. n : l <= w[i], NEW k \in 1 .. n
  PROVE  SumOf(w) \in Int /\ SumOf(w) - n * l >= w[k] - l
  <1> DEFINE Z == 1 .. n
             Sum(f) == f = [s \in SUBSET Z |-> IF s = {} THEN 0
                               ELSE LET x == CHOOSE y \in s : TRUE IN w[x] + f[s \ {x}]]
             sum == CHOOSE f : Sum(f)
             least(s) == Cardinality(s) * l + (IF k \in s THEN w[k] - l ELSE 0)
  <1>1. IsFiniteSet(Z) /\ Cardinality(Z) = n
    BY FS_Interval
  <1>2. SumOf(w) = sum[Z]
    <2>1. DOMAIN w = Z
      OBVIOUS
    <2> QED
      BY <2>1 DEF SumOf, FoldSeq, FoldFunction, FoldFunctionOnSet, MapThenFoldSet
  <1>3. \A s \in SUBSET Z : s # {} => PickOne(s) \in s /\ PickOne(s) \in Z
    BY DEF PickOne
  <1>4. \E f \in [SUBSET Z -> Int] : Sums(f, Z, w)
    BY <1>1, SumIsInt
  <1>5. PICK f \in [SUBSET Z -> Int] : Sums(f, Z, w)
    BY <1>4
  <1> HIDE DEF Z
  <1>6. Sum(f)
    <2>1. \A s \in SUBSET Z : s # {} => f[s \ {PickOne(s)}] + w[PickOne(s)] = w[PickOne(s)] + f[s \ {PickOne(s)}]
      <3> TAKE s \in SUBSET Z
      <3> HAVE s # {}
      <3>1. f[s \ {PickOne(s)}] \in Int /\ w[PickOne(s)] \in Int
        BY <1>3 DEF Z
      <3> QED
        BY <3>1
    <2>2. f = [s \in SUBSET Z |-> IF s = {} THEN 0 ELSE w[PickOne(s)] + f[s \ {PickOne(s)}]]
      <3>1. f = [s \in SUBSET Z |-> IF s = {} THEN 0 ELSE f[s \ {PickOne(s)}] + w[PickOne(s)]]
        BY <1>5 DEF Sums
      <3>2. [s \in SUBSET Z |-> IF s = {} THEN 0 ELSE f[s \ {PickOne(s)}] + w[PickOne(s)]]
              = [s \in SUBSET Z |-> IF s = {} THEN 0 ELSE w[PickOne(s)] + f[s \ {PickOne(s)}]]
        BY <2>1
      <3> QED
        BY <3>1, <3>2
    <2> QED
      BY <2>2 DEF PickOne
  <1>7. Sum(sum)
    <2> HIDE DEF Sum
    <2> QED
      BY <1>6
  <1> HIDE DEF sum
  <1>8. sum[{}] = 0 /\ \A s \in SUBSET Z : s # {} => sum[s] = w[PickOne(s)] + sum[s \ {PickOne(s)}]
    BY <1>7 DEF PickOne
  <1> DEFINE Good == {s \in SUBSET Z : sum[s] \in Int /\ least(s) <= sum[s]}
  <1>9. ASSUME NEW s \in SUBSET Z, \A x \in s : s \ {x} \in Good
        PROVE  sum[s] \in Int /\ least(s) <= sum[s]
    <2>1. CASE s = {}
      <3>1. Cardinality(s) = 0
        BY <2>1, FS_EmptySet
      <3> QED
        BY <1>8, <2>1, <3>1
    <2>2. CASE s # {}
      <3> DEFINE x == PickOne(s)
                 t == s \ {x}
                 m == Cardinality(s)
      <3>1. x \in s /\ w[x] \in Int /\ l <= w[x] /\ w[k] \in Int
        BY <1>3, <2>2 DEF Z
      <3>2. sum[t] \in Int /\ least(t) <= sum[t]
        BY <1>9, <3>1
      <3>3. m \in Nat /\ Cardinality(t) = m - 1
        <4>1. IsFiniteSet(s)
          BY <1>1, FS_Subset
        <4> QED
          BY <3>1, <4>1, FS_CardinalityType, FS_RemoveElement
      <3>4. sum[s] = w[x] + sum[t]
        BY <1>8, <2>2
      <3>5. x # k => (k \in t <=> k \in s)
        OBVIOUS
      <3>6. x = k => k \in s /\ k \notin t
        BY <3>1
      <3> HIDE DEF x, t, m
      <3>7. Cardinality(t) * l = m * l - l /\ m * l \in Int
        BY <3>3
      <3>8. least(s) = m * l + (IF k \in s THEN w[k] - l ELSE 0)
        BY DEF m
      <3> DEFINE ml == m * l
      <3>9. least(s) <= sum[s]
        <4>1. ml \in Int /\ least(s) = ml + (IF k \in s THEN w[k] - l ELSE 0)
              /\ ml - l + (IF k \in t THEN w[k] - l ELSE 0) <= sum[t]
          BY <3>2, <3>7, <3>8
        <4> HIDE DEF ml, least
        <4>2. CASE x = k
          BY <4>1, <4>2, <3>1, <3>2, <3>4, <3>6
        <4>3. CASE x # k
          BY <4>1, <4>3, <3>1, <3>2, <3>4, <3>5
        <4> QED
          BY <4>2, <4>3
      <3> QED
        BY <3>1, <3>2, <3>4, <3>9
    <2> QED
      BY <2>1, <2>2
  <1>10. \A s \in SUBSET Z : (\A x \in s : s \ {x} \in Good) => s \in Good
    BY <1>9
  <1>11. \A s \in SUBSET Z : s \in Good
    <2> HIDE DEF Good
    <2> QED
      BY <1>1, <1>10, SubsetInduction
  <1>12. Z \in SUBSET Z /\ k \in Z
    BY DEF Z
  <1>13. sum[Z] \in Int /\ least(Z) <= sum[Z]
    BY <1>11, <1>12
  <1>14. least(Z) = n * l + (w[k] - l) /\ n * l \in Int /\ w[k] \in Int
    BY <1>1, <1>12
  <1> HIDE DEF least
  <1> QED
    BY <1>2, <1>13, <1>14

\* Of a finite non-empty set of naturals one is the greatest.
LEMMA GreatestExists ==
  ASSUME NEW S \in SUBSET Nat, IsFiniteSet(S), S # {}
  PROVE  Greatest(S) \in S /\ \A y \in S : y <= Greatest(S)
  <1> DEFINE Good == {s \in SUBSET S : s = {} \/ \E x \in s : \A y \in s : y <= x}
  <1>1. ASSUME NEW s \in SUBSET S, \A x \in s : s \ {x} \in Good, s # {}
        PROVE  \E x \in s : \A y \in s : y <= x
    <2>1. PICK a \in s : TRUE
      BY <1>1
    <2>2. s \ {a} = {} \/ \E x \in s \ {a} : \A y \in s \ {a} : y <= x
      BY <1>1, <2>1
    <2>3. CASE s \ {a} = {}
      <3>1. \A y \in s : y = a /\ a \in Nat
        BY <2>1, <2>3
      <3>2. \A y \in s : y <= a
        BY <3>1
      <3> QED
        BY <2>1, <3>2
    <2>4. CASE \E x \in s \ {a} : \A y \in s \ {a} : y <= x
      <3>1. PICK x \in s \ {a} : \A y \in s \ {a} : y <= x
        BY <2>4
      <3>2. a \in Nat /\ x \in Nat /\ \A y \in s : y \in Nat
        BY <2>1, <3>1
      <3>3. CASE a <= x
        <4>1. \A y \in s : y <= x
          BY <3>1, <3>3
        <4> QED
          BY <4>1
      <3>4. CASE ~(a <= x)
        <4>1. \A y \in s : y <= a
          BY <3>1, <3>2, <3>4
        <4> QED
          BY <2>1, <4>1
      <3> QED
        BY <3>3, <3>4
    <2> QED
      BY <2>2, <2>3, <2>4
  <1>2. \A s \in SUBSET S : (\A x \in s : s \ {x} \in Good) => s \in Good
    BY <1>1
  <1>3. \A s \in SUBSET S : s \in Good
    <2> HIDE DEF Good
    <2> QED
      BY <1>2, SubsetInduction
  <1>4. PICK x \in S : \A y \in S : y <= x
    BY <1>3
  <1>5. \A y \in S : x >= y
    <2> TAKE y \in S
    <2>1. x \in Nat /\ y \in Nat /\ y <= x
      BY <1>4
    <2> QED
      BY <2>1
  <1>6. Greatest(S) \in S /\ \A y \in S : Greatest(S) >= y
    BY <1>5 DEF Greatest
  <1>7. \A a, b \in Nat : a >= b => b <= a
    OBVIOUS
  <1> QED
    BY <1>6, <1>7

(* What is scored of n candidates with carbon carbon(i). *)
RouteInputs(n, R) == [1 .. n -> [region : R, carbon : Nat, renewable : 0 .. 1000]]
CarbonsOf(cands) == {cands[i].carbon : i \in DOMAIN cands}

\* Their intensities have a least and a greatest.
LEMMA CarbonsHaveEnds ==
  ASSUME NEW n \in Nat \ {0}, NEW R, NEW cands \in RouteInputs(n, R)
  PROVE  LET L == Least(CarbonsOf(cands))
             G == Greatest(CarbonsOf(cands))
         IN  /\ L \in Nat /\ G \in Nat /\ L <= G
             /\ \A i \in 1 .. n : cands[i].carbon \in Nat /\ L <= cands[i].carbon /\ cands[i].carbon <= G
             /\ \E i \in 1 .. n : cands[i].carbon = L
             /\ \E i \in 1 .. n : cands[i].carbon = G
  <1> DEFINE C == CarbonsOf(cands)
             carbon(i) == cands[i].carbon
  <1>1. DOMAIN cands = 1 .. n /\ \A i \in 1 .. n : carbon(i) \in Nat
    BY DEF RouteInputs
  <1>2. C = {carbon(i) : i \in 1 .. n}
    BY <1>1 DEF CarbonsOf
  <1>3. IsFiniteSet(C)
    <2> DEFINE onto == [i \in 1 .. n |-> carbon(i)]
    <2>1. IsFiniteSet(1 .. n)
      BY FS_Interval
    <2>2. onto \in Surjection(1 .. n, C)
      <3>1. onto \in [1 .. n -> C] /\ \A x \in C : \E i \in 1 .. n : onto[i] = x
        BY <1>2
      <3> HIDE DEF onto
      <3> QED
        BY <3>1 DEF Surjection
    <2> QED
      BY <2>1, <2>2, FS_Surjection
  <1>4. C \in SUBSET Nat /\ carbon(1) \in C
    BY <1>1, <1>2
  <1> DEFINE L == Least(C)
             G == Greatest(C)
  <1> HIDE DEF C
  <1>5. L \in C /\ \A y \in C : L <= y
    BY <1>4, LeastExists
  <1>6. G \in C /\ \A y \in C : y <= G
    BY <1>3, <1>4, GreatestExists
  <1> HIDE DEF L, G, carbon
  <1>7. \A i \in 1 .. n : L <= carbon(i) /\ carbon(i) <= G
    BY <1>2, <1>5, <1>6
  <1>8. L \in Nat /\ G \in Nat /\ L <= G
    BY <1>4, <1>5, <1>6
  <1>9. (\E i \in 1 .. n : carbon(i) = L) /\ (\E i \in 1 .. n : carbon(i) = G)
    BY <1>2, <1>5, <1>6
  <1> QED
    BY <1>1, <1>7, <1>8, <1>9 DEF C, L, G, carbon

(* c is as clean as l, but for what rounding the scores hides. *)
NearLeast(c, l, g, weight) == 2000 * weight * (c - l) <= g - l

(* What a route relies on of the n that are scored. *)
ScoredWell(scored, n, cands, weight) ==
    /\ DOMAIN scored = 1 .. n
    /\ \E X : scored \in Seq(X)
    /\ \A k \in 1 .. n : scored[k].saves \in 0 .. 1000
    /\ \A k \in 1 .. n : \E i \in 1 .. n : /\ scored[k].region = cands[i].region
                                          /\ scored[k].carbon = cands[i].carbon
    /\ \A i \in 1 .. n : \E k \in 1 .. n : scored[k].carbon = cands[i].carbon
    /\ NearLeast(scored[1].carbon, Least(CarbonsOf(cands)), Greatest(CarbonsOf(cands)), weight)

\* The first scored is as clean as any, but for what rounding hides; every
\* candidate is scored, with a saving that is a share.
LEMMA ScoredAre ==
  ASSUME NEW n \in Nat \ {0}, NEW R, NEW cands \in RouteInputs(n, R), NEW weight \in Nat
  PROVE  ScoredWell(ScoreCandidates(cands, weight), n, cands, weight)
  <1> DEFINE L == Least(CarbonsOf(cands))
             G == Greatest(CarbonsOf(cands))
             score(i) == Score(cands[i].carbon, L, G, weight)
             entry(i) == [region |-> cands[i].region, carbon |-> cands[i].carbon,
                          renewable |-> cands[i].renewable, at |-> i,
                          score |-> score(i), saves |-> SavingsVsWorst(cands[i].carbon, G)]
             S == {entry(i) : i \in 1 .. n}
             scored == ScoreCandidates(cands, weight)
  <1>1. DOMAIN cands = 1 .. n
    BY DEF RouteInputs
  <1>2. scored = SortedByScore(S)
    BY <1>1 DEF ScoreCandidates, CarbonsOf
  <1>3. /\ L \in Nat /\ G \in Nat /\ L <= G
        /\ \A i \in 1 .. n : cands[i].carbon \in Nat /\ L <= cands[i].carbon /\ cands[i].carbon <= G
        /\ \E i \in 1 .. n : cands[i].carbon = L
    <2>1. /\ Least(CarbonsOf(cands)) \in Nat /\ Greatest(CarbonsOf(cands)) \in Nat
          /\ Least(CarbonsOf(cands)) <= Greatest(CarbonsOf(cands))
          /\ \A i \in 1 .. n : /\ cands[i].carbon \in Nat
                               /\ Least(CarbonsOf(cands)) <= cands[i].carbon
                               /\ cands[i].carbon <= Greatest(CarbonsOf(cands))
          /\ \E i \in 1 .. n : cands[i].carbon = Least(CarbonsOf(cands))
      BY CarbonsHaveEnds, Zenon
    <2> QED
      BY <2>1, Zenon DEF L, G
  <1> HIDE DEF L, G, scored
  <1> DEFINE over(c) == 1000 * weight * (c - L)
  <1>4. ASSUME NEW c \in Nat, L <= c, c <= G
        PROVE  /\ Score(c, L, G, weight) \in Nat
               /\ Score(c, L, G, weight) = 0 => 2 * over(c) <= G - L
               /\ SavingsVsWorst(c, G) \in 0 .. 1000
    <2> DEFINE a == over(c)
               d == G - L
               b == (G - c) * 1000
    <2>1. a \in Nat
      <3>1. c - L \in Nat
        BY <1>3, <1>4
      <3> DEFINE e == c - L
      <3> HIDE DEF e
      <3>2. 1000 * weight * e \in Nat
        BY <3>1 DEF e
      <3> QED
        BY <3>2 DEF e
    <2>2. d # 0 => d \in Nat \ {0}
      BY <1>3
    <2>2a. SavingsVsWorst(c, G) \in 0 .. 1000
      <3>1. CASE G > 0
        <4>1. b \in Nat /\ b <= 1000 * G /\ G \in Nat \ {0}
          BY <1>3, <1>4, <3>1
        <4>2. SavingsVsWorst(c, G) = RoundDiv(b, G)
          BY <3>1 DEF SavingsVsWorst
        <4> HIDE DEF b
        <4>3. RoundDiv(b, G) \in Nat /\ RoundDiv(b, G) <= 1000
          BY <4>1, RoundDivFacts
        <4> QED
          BY <4>2, <4>3
      <3>2. CASE ~(G > 0)
        BY <3>2 DEF SavingsVsWorst
      <3> QED
        BY <3>1, <3>2
    <2>3. CASE G = L
      <3>1. Score(c, L, G, weight) = 0
        BY <2>3 DEF Score
      <3>2. c = L
        BY <1>3, <1>4, <2>3
      <3>3. c - L = 0 /\ over(c) = 0
        BY <1>3, <3>2
      <3> HIDE DEF over
      <3>4. 2 * over(c) <= G - L
        BY <1>3, <2>3, <3>3
      <3> QED
        BY <3>1, <3>4, <2>2a
    <2>4. CASE G # L
      <3>1. d \in Nat \ {0}
        BY <1>3, <2>2, <2>4
      <3>2. Score(c, L, G, weight) = RoundDiv(a, d)
        BY <2>4 DEF Score
      <3> HIDE DEF a, d
      <3>3. RoundDiv(a, d) \in Nat /\ (RoundDiv(a, d) = 0 => 2 * a <= d)
        BY <2>1, <3>1, RoundDivFacts
      <3> QED
        BY <3>2, <3>3, <2>2a DEF a, d
    <2> QED
      BY <2>3, <2>4
  <1>5. \A c : c \in Nat /\ L <= c /\ c <= G =>
               /\ Score(c, L, G, weight) \in Nat
               /\ Score(c, L, G, weight) = 0 => 2 * over(c) <= G - L
               /\ SavingsVsWorst(c, G) \in 0 .. 1000
    BY <1>4
  <1> HIDE DEF over
  <1>6. \A i \in 1 .. n : /\ entry(i).at = i /\ entry(i).score = score(i)
                         /\ entry(i).region = cands[i].region /\ entry(i).carbon = cands[i].carbon
                         /\ entry(i).saves = SavingsVsWorst(cands[i].carbon, G)
    OBVIOUS
  <1>7. /\ \A i \in 1 .. n : score(i) \in Nat
        /\ \A i \in 1 .. n : score(i) = 0 => 2 * over(cands[i].carbon) <= G - L
        /\ \A i \in 1 .. n : SavingsVsWorst(cands[i].carbon, G) \in 0 .. 1000
    BY <1>3, <1>5
  <1>8. \E i \in 1 .. n : score(i) = 0
    <2>1. PICK i \in 1 .. n : cands[i].carbon = L
      BY <1>3
    <2>2. Score(L, L, G, weight) = 0
      <3>1. CASE G = L
        BY <3>1 DEF Score
      <3>2. CASE G # L
        <4>1. L - L = 0 /\ 1000 * weight * 0 = 0 /\ G - L \in Nat \ {0}
          BY <1>3, <3>2
        <4>2. Score(L, L, G, weight) = RoundDiv(0, G - L)
          BY <3>2, <4>1 DEF Score
        <4> DEFINE d == G - L
        <4> HIDE DEF d
        <4>3. d \in Nat \ {0}
          BY <4>1 DEF d
        <4>4. RoundDiv(0, d) = 0
          BY <4>3, RoundDivFacts
        <4> QED
          BY <4>2, <4>4 DEF d
      <3> QED
        BY <3>1, <3>2
    <2> QED
      BY <2>1, <2>2
  <1> HIDE DEF entry, score
  <1>9. /\ IsFiniteSet(S) /\ Cardinality(S) = n
        /\ \A c, d \in S : c.at = d.at => c = d
    <2> DEFINE onto == [i \in 1 .. n |-> entry(i)]
    <2>1. IsFiniteSet(1 .. n) /\ Cardinality(1 .. n) = n
      BY FS_Interval
    <2>2. /\ onto \in [1 .. n -> S]
          /\ \A x \in S : \E i \in 1 .. n : onto[i] = x
          /\ \A i, j \in 1 .. n : onto[i] = onto[j] => i = j
      BY <1>6
    <2> HIDE DEF onto, S
    <2>3. onto \in Bijection(1 .. n, S)
      BY <2>2 DEF Bijection, Injection, Surjection, IsInjective
    <2>4. IsFiniteSet(S) /\ Cardinality(S) = n
      BY <2>1, <2>3, FS_Bijection DEF ExistsBijection
    <2>5. \A c, d \in S : c.at = d.at => c = d
      BY <1>6 DEF S
    <2> QED
      BY <2>4, <2>5
  <1>10. \A c \in S : c.score \in Int /\ c.at \in Int
    <2> TAKE c \in S
    <2>1. PICK i \in 1 .. n : c = entry(i)
      OBVIOUS
    <2>2. c.score = score(i) /\ c.at = i /\ score(i) \in Nat
      BY <1>6, <1>7, <2>1
    <2> QED
      BY <2>2
  <1>11. S # {}
    BY <1>8
  <1> HIDE DEF S
  <1>12. /\ DOMAIN scored = 1 .. n
         /\ scored \in Seq(S)
         /\ \A c \in S : \E k \in 1 .. n : scored[k] = c
         /\ \A c \in S : RanksBefore(scored[1], c)
    BY <1>2, <1>9, <1>10, <1>11, SortedAre
  <1>13. \A k \in 1 .. n : scored[k] \in S
    BY <1>12
  <1>14. \A k \in 1 .. n : \E i \in 1 .. n : scored[k] = entry(i)
    BY <1>13 DEF S
  <1>15. \A k \in 1 .. n : /\ scored[k].saves \in 0 .. 1000
                          /\ \E i \in 1 .. n : /\ scored[k].region = cands[i].region
                                               /\ scored[k].carbon = cands[i].carbon
    <2> TAKE k \in 1 .. n
    <2>1. PICK i \in 1 .. n : scored[k] = entry(i)
      BY <1>14
    <2>2. /\ scored[k].saves = SavingsVsWorst(cands[i].carbon, G)
          /\ scored[k].region = cands[i].region /\ scored[k].carbon = cands[i].carbon
      BY <1>6, <2>1
    <2>3. SavingsVsWorst(cands[i].carbon, G) \in 0 .. 1000
      BY <1>7
    <2> QED
      BY <2>2, <2>3
  <1>16. \A i \in 1 .. n : \E k \in 1 .. n : scored[k].carbon = cands[i].carbon
    <2> TAKE i \in 1 .. n
    <2>1. entry(i) \in S
      BY DEF S
    <2> QED
      BY <1>6, <1>12, <2>1
  <1>17. 2 * over(scored[1].carbon) <= G - L
    <2>1. PICK i \in 1 .. n : scored[1] = entry(i)
      BY <1>14
    <2>2. PICK j \in 1 .. n : score(j) = 0
      BY <1>8
    <2>3. entry(j) \in S
      BY DEF S
    <2>4. RanksBefore(entry(i), entry(j))
      BY <1>12, <2>1, <2>3
    <2>41. entry(i).score = score(i) /\ entry(j).score = score(j)
      BY <1>6
    <2>42. score(i) \in Nat /\ score(j) \in Nat
      BY <1>7
    <2>5. score(i) <= score(j)
      <3>1. score(i) < score(j) \/ score(i) = score(j)
        BY <2>4, <2>41 DEF RanksBefore
      <3> QED
        BY <2>42, <3>1
    <2>6. score(i) = 0
      BY <2>42, <2>2, <2>5
    <2> QED
      BY <1>6, <1>7, <2>1, <2>6
  <1>18. 2000 * weight * (scored[1].carbon - L) = 2 * over(scored[1].carbon)
    <2>1. scored[1].carbon \in Nat
      BY <1>3, <1>15
    <2> DEFINE e == scored[1].carbon - L
    <2>2. e \in Int
      BY <1>3, <2>1
    <2> HIDE DEF e
    <2>3. 2000 * weight * e = 2 * (1000 * weight * e)
      BY <2>2
    <2> QED
      BY <2>3 DEF e, over
  <1> QED
    <2>1. NearLeast(scored[1].carbon, L, G, weight)
      BY <1>17, <1>18 DEF NearLeast
    <2>2. \E X : scored \in Seq(X)
      BY <1>12
    <2>3. DOMAIN scored = 1 .. n
      BY <1>12
    <2>4. \A k \in 1 .. n : scored[k].saves \in 0 .. 1000
      BY <1>15
    <2>5. \A k \in 1 .. n : \E i \in 1 .. n : scored[k].region = cands[i].region /\ scored[k].carbon = cands[i].carbon
      BY <1>15
    <2> QED
      BY <1>16, <2>1, <2>2, <2>3, <2>4, <2>5, Zenon DEF ScoredWell, scored, L, G

(* The candidates with a reading, and what is scored of them. *)
Reached(q) ==
    LET found == RouteCandidates(q.map, q.req)
    IN  Picked(found, {i \in DOMAIN found : found[i].zone \in DOMAIN q.readings})
Inputs(q) ==
    [i \in DOMAIN Reached(q) |->
        LET p == q.readings[Reached(q)[i].zone]
        IN  [region |-> Reached(q)[i], carbon |-> p.carbon, renewable |-> p.renewable]]

\* They are the regions that are allowed and answered.
LEMMA ReachedAreAllowed ==
  ASSUME NEW q, IsRouteQuestion(q)
  PROVE  Reached(q) \in Seq(Range(q.map)) /\ Range(Reached(q)) = Allowed(q)
  <1> DEFINE R == Range(q.map)
             found == RouteCandidates(q.map, q.req)
             Fits(r) == /\ q.req.candidates # {} => r.region \in q.req.candidates
                        /\ q.req.residency # {} => MatchesResidency(r, q.req.residency)
             of(i) == Offers(q.map, q.req, i)
             P == q.req.providers
  <1>1. q.map \in Seq(R) /\ P \in Seq(Range(P))
    BY DEF IsRouteQuestion
  <1>2. ASSUME NEW i PROVE Range(of(i)) = {r \in R : r.provider = P[i] /\ Fits(r)}
    <2> DEFINE at == {j \in DOMAIN q.map : q.map[j].provider = P[i]}
               listed == Picked(q.map, at)
               fit == {j \in DOMAIN listed : Fits(listed[j])}
    <2>1. listed \in Seq(R) /\ Range(listed) = {q.map[j] : j \in at}
      <3>1. at \in SUBSET DOMAIN q.map
        OBVIOUS
      <3> HIDE DEF at
      <3> QED
        BY <1>1, <3>1, PickedRange
    <2>2. of(i) = Picked(listed, fit)
      BY DEF Offers, Permitted, ListRegions
    <2>3. Range(listed) = {r \in R : r.provider = P[i]}
      BY <2>1 DEF Range
    <2> HIDE DEF listed, Fits
    <2>4. Range(Picked(listed, fit)) = {listed[j] : j \in fit}
      <3>1. fit \in SUBSET DOMAIN listed
        OBVIOUS
      <3> HIDE DEF fit
      <3> QED
        BY <2>1, <3>1, PickedRange
    <2>5. {listed[j] : j \in fit} = {r \in Range(listed) : Fits(r)}
      BY DEF Range
    <2> QED
      BY <2>2, <2>3, <2>4, <2>5
  <1>3. /\ found \in Seq(R)
        /\ Range(found) = UNION {Range(of(i)) : i \in DOMAIN P}
    BY <1>1, CandidatesAreOffered
  <1> HIDE DEF of, Fits, R
  <1>4. Range(found) = {r \in R : r.provider \in Range(P) /\ Fits(r)}
    <2>1. \A x : x \in Range(P) <=> \E i \in DOMAIN P : x = P[i]
      BY DEF Range
    <2>2. \A r : r \in Range(found) <=> \E i \in DOMAIN P : r \in Range(of(i))
      BY <1>3
    <2>3. \A r : r \in Range(found) <=> \E i \in DOMAIN P : r \in R /\ r.provider = P[i] /\ Fits(r)
      BY <1>2, <2>2
    <2> QED
      BY <2>1, <2>3
  <1> DEFINE at == {i \in DOMAIN found : found[i].zone \in DOMAIN q.readings}
  <1>5. Reached(q) = Picked(found, at)
    BY DEF Reached
  <1>6. {found[i] : i \in at} = {r \in Range(found) : r.zone \in DOMAIN q.readings}
    BY DEF Range
  <1>7. Picked(found, at) \in Seq(R) /\ Range(Picked(found, at)) = {found[i] : i \in at}
    <2>1. at \in SUBSET DOMAIN found
      OBVIOUS
    <2> HIDE DEF at, found
    <2> QED
      BY <1>3, <2>1, PickedRange
  <1> HIDE DEF at, found
  <1>8. Range(Reached(q)) = {r \in R : r.provider \in Range(P) /\ Fits(r) /\ r.zone \in DOMAIN q.readings}
    BY <1>4, <1>5, <1>6, <1>7
  <1>9. Allowed(q) = {r \in R : r.provider \in Range(P) /\ Fits(r) /\ r.zone \in DOMAIN q.readings}
    <2>1. ASSUME NEW r
          PROVE  Fits(r) <=> /\ q.req.candidates = {} \/ r.region \in q.req.candidates
                             /\ q.req.residency = {} \/ r.areas \cap q.req.residency # {}
      BY DEF Fits, MatchesResidency
    <2> QED
      BY <2>1 DEF Allowed, R
  <1> QED
    BY <1>5, <1>7, <1>8, <1>9 DEF R

\* A number of one record is the mean of it.
LEMMA MeanOfOne ==
  ASSUME NEW x \in Nat
  PROVE  MeanOrZero([i \in 1 .. 1 |-> x]) \in Nat /\ MeanOrZero([i \in 1 .. 1 |-> x]) >= x
  <1> DEFINE w == [i \in 1 .. 1 |-> x]
             one == 1
  <1>1. w \in [1 .. 1 -> Int] /\ w[1] = x /\ Len(w) = 1 /\ w # <<>>
    <2>1. w \in Seq(Nat) /\ Len(w) = 1
      OBVIOUS
    <2> QED
      BY <2>1
  <1> HIDE DEF w
  <1>2. SumOf(w) \in Int /\ SumOf(w) - 1 * x >= w[1] - x
    <2>1. 1 \in Nat /\ 1 \in 1 .. 1 /\ x \in Int /\ \A i \in 1 .. 1 : x <= w[i]
      BY <1>1
    <2> QED
      BY <1>1, <2>1, SumAtLeast
  <1>3. SumOf(w) \in Nat /\ SumOf(w) >= x
    BY <1>1, <1>2
  <1>4. MeanOrZero(w) = RoundDiv(SumOf(w), 1)
    BY <1>1 DEF MeanOrZero, Mean
  <1>5. \A m \in Nat : RoundDiv(m, 1) = m
    BY DEF RoundDiv
  <1>6. MeanOrZero(w) = SumOf(w)
    BY <1>3, <1>4, <1>5
  <1> QED
    BY <1>3, <1>6 DEF w

(* What the tracker makes of a sorted route: no increase, and a reduction  *)
(* when the g-th candidate is dirty enough to show in the mean.            *)
RecordedWell(mean, scored, n, g, l) ==
    mean >= 0 /\ (scored[g].carbon - l >= n => mean > 0)

\* So it is when the cleanest was chosen.
LEMMA CleanestIsRecorded ==
  ASSUME NEW n \in Nat \ {0}, NEW X, NEW scored \in Seq(X), DOMAIN scored = 1 .. n,
         NEW l \in Nat, \A k \in 1 .. n : scored[k].carbon \in Nat /\ l <= scored[k].carbon,
         scored[1].carbon = l, NEW g \in 1 .. n
  PROVE  RecordedWell(TrackerReport(<<TrackerRecord(scored)>>).meanReduction, scored, n, g, l)
  <1> DEFINE w == [k \in DOMAIN scored |-> scored[k].carbon]
             over == SumOf(w) - n * l
             record == TrackerRecord(scored)
             more == scored[g].carbon - l
  <1>1. w \in [1 .. n -> Int] /\ (\A k \in 1 .. n : l <= w[k]) /\ w[1] = l /\ w[g] = scored[g].carbon /\ Len(w) = n
    <2>1. w \in Seq(Nat) /\ Len(w) = n
      <3>1. w \in [1 .. n -> Nat]
        OBVIOUS
      <3> HIDE DEF w
      <3> QED
        BY <3>1, SeqDef
    <2> QED
      BY <2>1
  <1>2. more \in Nat
    OBVIOUS
  <1>3. over \in Int /\ over >= more
    <2> HIDE DEF w
    <2>1. SumOf(w) \in Int /\ SumOf(w) - n * l >= w[g] - l
      <3>1. n \in Nat /\ l \in Int
        OBVIOUS
      <3> QED
        BY <1>1, <3>1, SumAtLeast, Zenon
    <2> QED
      BY <1>1, <2>1
  <1>4. record.reduction = RoundDiv(over, n)
    <2>1. record.reduction = RoundDiv(SumOf(w) - Len(w) * w[1], Len(w))
      BY DEF TrackerRecord
    <2> QED
      BY <1>1, <2>1
  <1> HIDE DEF over, more
  <1>5. RoundDiv(over, n) \in Nat /\ (2 * over > n => RoundDiv(over, n) > 0)
    <2>1. over \in Nat
      BY <1>2, <1>3
    <2>2. ASSUME NEW a \in Nat
          PROVE  RoundDiv(a, n) \in Nat /\ (2 * a > n => RoundDiv(a, n) > 0)
      <3>1. RoundDiv(a, n) \in Nat
        BY RoundDivFacts
      <3>2. 2 * a > n => RoundDiv(a, n) > 0
        BY RoundDivFacts
      <3> QED
        BY <3>1, <3>2
    <2> QED
      BY <2>1, <2>2
  <1>6. more >= n => 2 * over > n
    BY <1>2, <1>3
  <1> HIDE DEF record
  <1> DEFINE x == record.reduction
             records == <<record>>
             mean == TrackerReport(records).meanReduction
  <1>7. x \in Nat /\ (more >= n => x > 0)
    BY <1>4, <1>5, <1>6
  <1>8. mean = MeanOrZero([i \in 1 .. 1 |-> x])
    <2>1. DOMAIN records = 1 .. 1 /\ \A i \in 1 .. 1 : records[i].reduction = x
      OBVIOUS
    <2>2. mean = MeanOrZero([i \in DOMAIN records |-> records[i].reduction])
      BY DEF TrackerReport
    <2>3. [i \in DOMAIN records |-> records[i].reduction] = [i \in 1 .. 1 |-> x]
      BY <2>1
    <2> QED
      BY <2>2, <2>3
  <1> HIDE DEF x, mean
  <1>9. mean \in Nat /\ mean >= x
    BY <1>7, <1>8, MeanOfOne
  <1>10. mean >= 0 /\ (more >= n => mean > 0)
    BY <1>7, <1>9, <1>2
  <1> QED
    BY <1>10 DEF RecordedWell, more, mean, record

(* What is recorded of a route. *)
SavingsOf(routed) ==
    TrackerReport(IF routed = NoRoute THEN <<>> ELSE <<TrackerRecord(TrackedRoute(routed))>>)

(* What is promised of it. *)
RouteKept(q, routed, savings) ==
    LET carbons == {q.readings[r.zone].carbon : r \in Allowed(q)}
        chosen == routed.recommended
    IN  /\ (routed = NoRoute) <=> (Allowed(q) = {})
        /\ Allowed(q) # {} =>
              /\ chosen.region \in Allowed(q)
              /\ NearLeast(chosen.carbon, Least(carbons), Greatest(carbons), q.req.weight)
              /\ chosen.saves \in 0 .. 1000
              /\ savings.requests = 1
              /\ chosen.carbon = Least(carbons) =>
                    /\ savings.meanReduction >= 0
                    /\ Greatest(carbons) - Least(carbons) > Len(routed.alternatives)
                          => savings.meanReduction > 0

\* A route names an allowed region, near the cleanest, and is recorded for it.
LEMMA RouteKeepsPromise ==
  ASSUME NEW q, IsRouteQuestion(q)
  PROVE  RouteKept(q, Route(q.map, q.req, q.readings), SavingsOf(Route(q.map, q.req, q.readings)))
  <1> DEFINE R == Range(q.map)
             reached == Reached(q)
             cands == Inputs(q)
             weight == q.req.weight
             scored == ScoreCandidates(cands, weight)
             routed == Route(q.map, q.req, q.readings)
             carbons == {q.readings[r.zone].carbon : r \in Allowed(q)}
             savings == SavingsOf(routed)
             n == Len(reached)
  <1>1. reached \in Seq(R) /\ Range(reached) = Allowed(q)
    BY ReachedAreAllowed
  <1>2. routed = IF reached = <<>> THEN NoRoute
                 ELSE [recommended |-> scored[1], alternatives |-> Tail(scored)]
    BY DEF Route, Reached, Inputs
  <1> HIDE DEF reached, scored, routed, R
  <1>3. reached = <<>> <=> Allowed(q) = {}
    <2>1. reached = <<>> => Range(reached) = {}
      BY DEF Range
    <2>2. reached # <<>> => reached[1] \in Range(reached)
      BY <1>1, SequenceFacts DEF Range
    <2> QED
      BY <1>1, <2>1, <2>2
  <1>4. \A x, y : [recommended |-> x, alternatives |-> y] # NoRoute
    <2> SUFFICES ASSUME NEW x, NEW y PROVE [recommended |-> x, alternatives |-> y] # NoRoute
      OBVIOUS
    <2>1. "refused" \in DOMAIN NoRoute
      BY DEF NoRoute
    <2>2. "refused" \notin DOMAIN [recommended |-> x, alternatives |-> y]
      OBVIOUS
    <2> QED
      BY <2>1, <2>2
  <1>5. (routed = NoRoute) <=> (Allowed(q) = {})
    BY <1>2, <1>3, <1>4
  <1> SUFFICES ASSUME Allowed(q) # {}
               PROVE  /\ routed.recommended.region \in Allowed(q)
                      /\ NearLeast(routed.recommended.carbon, Least(carbons), Greatest(carbons), weight)
                      /\ routed.recommended.saves \in 0 .. 1000
                      /\ savings.requests = 1
                      /\ routed.recommended.carbon = Least(carbons) =>
                            /\ savings.meanReduction >= 0
                            /\ Greatest(carbons) - Least(carbons) > Len(routed.alternatives)
                                  => savings.meanReduction > 0
    BY <1>5 DEF RouteKept, routed, weight
  <1>6. /\ reached # <<>> /\ routed # NoRoute
        /\ routed.recommended = scored[1] /\ routed.alternatives = Tail(scored)
    BY <1>2, <1>3, <1>5
  <1>7. n \in Nat \ {0} /\ DOMAIN reached = 1 .. n /\ 1 \in 1 .. n
        /\ \A i \in 1 .. n : reached[i] \in Allowed(q)
    BY <1>1, <1>6, SequenceFacts
  <1>8. \A r \in Allowed(q) : \E i \in 1 .. n : r = reached[i]
    BY <1>1, <1>7 DEF Range
  <1>9. \A r \in Allowed(q) : q.readings[r.zone] \in ReadingRecords
    BY DEF Allowed, IsRouteQuestion
  <1>10. weight \in Nat
    BY DEF IsRouteQuestion
  <1> HIDE DEF weight, n
  <1> DEFINE A == Allowed(q)
  <1>11. cands = [i \in 1 .. n |-> [region |-> reached[i], carbon |-> q.readings[reached[i].zone].carbon,
                                    renewable |-> q.readings[reached[i].zone].renewable]]
    BY <1>7 DEF Inputs, reached
  <1> HIDE DEF cands, A
  <1>12. cands \in RouteInputs(n, A) /\ DOMAIN cands = 1 .. n
         /\ \A i \in 1 .. n : cands[i].region = reached[i] /\ cands[i].carbon = q.readings[reached[i].zone].carbon
    <2>1. \A i \in 1 .. n : /\ reached[i] \in A
                           /\ q.readings[reached[i].zone].carbon \in Nat
                           /\ q.readings[reached[i].zone].renewable \in 0 .. 1000
      <3> TAKE i \in 1 .. n
      <3> DEFINE p == q.readings[reached[i].zone]
      <3>1. reached[i] \in A /\ p \in ReadingRecords
        BY <1>7, <1>9 DEF A
      <3> HIDE DEF p
      <3>2. p.carbon \in Nat /\ p.renewable \in 0 .. 1000
        BY <3>1 DEF ReadingRecords
      <3> QED
        BY <3>1, <3>2 DEF p
    <2> DEFINE T == [region : A, carbon : Nat, renewable : 0 .. 1000]
               in(i) == [region |-> reached[i], carbon |-> q.readings[reached[i].zone].carbon,
                         renewable |-> q.readings[reached[i].zone].renewable]
    <2>2. \A i \in 1 .. n : in(i) \in T
      <3> TAKE i \in 1 .. n
      <3> DEFINE c == q.readings[reached[i].zone].carbon
                 r == q.readings[reached[i].zone].renewable
                 a == reached[i]
      <3>1. a \in A /\ c \in Nat /\ r \in 0 .. 1000
        BY <2>1
      <3>2. in(i) = [region |-> a, carbon |-> c, renewable |-> r]
        OBVIOUS
      <3> HIDE DEF a, c, r, in
      <3>3. [region |-> a, carbon |-> c, renewable |-> r] \in T
        BY <3>1
      <3> QED
        BY <3>2, <3>3
    <2>3. \A i \in 1 .. n : in(i).region = reached[i] /\ in(i).carbon = q.readings[reached[i].zone].carbon
      OBVIOUS
    <2>4. cands = [i \in 1 .. n |-> in(i)]
      BY <1>11
    <2> HIDE DEF T, in
    <2>5. cands \in [1 .. n -> T] /\ DOMAIN cands = 1 .. n /\ \A i \in 1 .. n : cands[i] = in(i)
      BY <2>2, <2>4
    <2> QED
      BY <2>3, <2>5 DEF RouteInputs, T
  <1>13. CarbonsOf(cands) = carbons
    <2>1. \A i \in 1 .. n : cands[i].carbon \in carbons
      BY <1>7, <1>12
    <2>2. \A r \in Allowed(q) : \E i \in 1 .. n : cands[i].carbon = q.readings[r.zone].carbon
      BY <1>8, <1>12
    <2>3. carbons \subseteq {cands[i].carbon : i \in 1 .. n}
      BY <2>2
    <2>4. CarbonsOf(cands) = {cands[i].carbon : i \in 1 .. n}
      BY <1>12 DEF CarbonsOf
    <2> HIDE DEF carbons
    <2> QED
      BY <2>1, <2>3, <2>4
  <1> HIDE DEF carbons
  <1> DEFINE L == Least(carbons)
             G == Greatest(carbons)
  <1>14. /\ L \in Nat /\ G \in Nat
         /\ \A i \in 1 .. n : cands[i].carbon \in Nat /\ L <= cands[i].carbon
         /\ \E i \in 1 .. n : cands[i].carbon = G
    <2>1. /\ Least(CarbonsOf(cands)) \in Nat /\ Greatest(CarbonsOf(cands)) \in Nat
          /\ \A i \in 1 .. n : cands[i].carbon \in Nat /\ Least(CarbonsOf(cands)) <= cands[i].carbon
          /\ \E i \in 1 .. n : cands[i].carbon = Greatest(CarbonsOf(cands))
      BY <1>7, <1>12, CarbonsHaveEnds, Zenon
    <2> QED
      BY <1>13, <2>1, Zenon
  <1>15. /\ DOMAIN scored = 1 .. n
         /\ \E X : scored \in Seq(X)
         /\ \A k \in 1 .. n : scored[k].saves \in 0 .. 1000
         /\ \A k \in 1 .. n : \E i \in 1 .. n : scored[k].region = cands[i].region /\ scored[k].carbon = cands[i].carbon
         /\ \A i \in 1 .. n : \E k \in 1 .. n : scored[k].carbon = cands[i].carbon
         /\ NearLeast(scored[1].carbon, L, G, weight)
    <2>1. ScoredWell(scored, n, cands, weight)
      BY <1>7, <1>10, <1>12, ScoredAre DEF scored
    <2> QED
      BY <1>13, <2>1 DEF ScoredWell
  <1>16. PICK X : scored \in Seq(X)
    BY <1>15
  <1> HIDE DEF L, G
  <1>17. /\ \A k \in 1 .. n : scored[k].carbon \in Nat /\ L <= scored[k].carbon
         /\ \E k \in 1 .. n : scored[k].carbon = G
         /\ \A k \in 1 .. n : \E i \in 1 .. n : scored[k].region = cands[i].region
    <2>1. /\ \A k \in 1 .. n : \E i \in 1 .. n : scored[k].region = cands[i].region /\ scored[k].carbon = cands[i].carbon
          /\ \A i \in 1 .. n : \E k \in 1 .. n : scored[k].carbon = cands[i].carbon
      BY <1>15
    <2> QED
      BY <1>14, <2>1
  <1>18. routed.recommended.region \in Allowed(q)
    <2>1. PICK i \in 1 .. n : scored[1].region = cands[i].region
      BY <1>7, <1>17
    <2>2. cands[i].region = reached[i] /\ reached[i] \in Allowed(q)
      BY <1>7, <1>12
    <2> QED
      BY <1>6, <2>1, <2>2
  <1>19. Len(scored) = n /\ scored # <<>>
    <2>1. DOMAIN scored = 1 .. n
      BY <1>15
    <2> QED
      BY <1>7, <1>16, <2>1
  <1>20. TrackedRoute(routed) = scored
    <2>1. TrackedRoute(routed) = <<scored[1]>> \o Tail(scored)
      BY <1>6 DEF TrackedRoute
    <2>2. scored = <<Head(scored)>> \o Tail(scored)
      BY <1>16, <1>19, HeadTailProperties
    <2> QED
      BY <2>1, <2>2
  <1>21. savings = TrackerReport(<<TrackerRecord(scored)>>)
    BY <1>6, <1>20 DEF SavingsOf
  <1>22. savings.requests = 1
    BY <1>21 DEF TrackerReport
  <1>23. Len(routed.alternatives) = n - 1
    BY <1>6, <1>16, <1>19, HeadTailProperties
  <1> HIDE DEF savings
  <1>24. ASSUME scored[1].carbon = L
         PROVE  savings.meanReduction >= 0 /\ (G - L > n - 1 => savings.meanReduction > 0)
    <2>1. PICK g \in 1 .. n : scored[g].carbon = G
      BY <1>17
    <2>2. /\ savings.meanReduction >= 0
          /\ scored[g].carbon - L >= n => savings.meanReduction > 0
      <3>1. DOMAIN scored = 1 .. n /\ L \in Nat
        BY <1>14, <1>15
      <3>2. RecordedWell(TrackerReport(<<TrackerRecord(scored)>>).meanReduction, scored, n, g, L)
        BY <1>7, <1>16, <1>17, <1>24, <3>1, CleanestIsRecorded
      <3> QED
        BY <1>21, <3>2 DEF RecordedWell
    <2>3. G - L > n - 1 => scored[g].carbon - L >= n
      BY <1>7, <1>14, <2>1
    <2> QED
      BY <2>2, <2>3
  <1>25. routed.recommended.saves \in 0 .. 1000
    <2>1. \A k \in 1 .. n : scored[k].saves \in 0 .. 1000
      BY <1>15
    <2>2. routed.recommended = scored[1] /\ 1 \in 1 .. n
      BY <1>6, <1>7
    <2>3. scored[1].saves \in 0 .. 1000
      BY <2>1, <2>2
    <2> QED
      BY <2>2, <2>3
  <1>26. NearLeast(routed.recommended.carbon, L, G, weight)
    BY <1>6, <1>15
  <1>27. routed.recommended.carbon = L =>
            savings.meanReduction >= 0 /\ (G - L > Len(routed.alternatives) => savings.meanReduction > 0)
    BY <1>6, <1>23, <1>24
  <1> QED
    BY <1>18, <1>22, <1>25, <1>26, <1>27 DEF L, G

(***************************************************************************)
(* What POST /route (router.py, scorer.py) answers, for every region map,  *)
(* every request and all readings: it recommends a region exactly when one *)
(* that is allowed has a reading, an allowed one, passes over a cleaner    *)
(* one for no more than rounding hides, and the tracker (tracker.py) never *)
(* records the cleanest as an increase.                                    *)
(***************************************************************************)
THEOREM RoutesAreAllowedAndClean == QuestionsSpec => []RouteSound
  <1>1. Replies => RouteSound
    <2> SUFFICES ASSUME Replies, Replied("route") PROVE RouteSound
      BY DEF RouteSound
    <2>1. IsRouteQuestion(question)
      BY QuestionsAssumption DEF Replies, Replied
    <2>2. answer = RouteAnswer
      BY DEF Replies
    <2> DEFINE routed == Route(question.map, question.req, question.readings)
    <2>3. answer.routed = routed /\ answer.savings = SavingsOf(routed)
      BY <2>2 DEF RouteAnswer, SavingsOf
    <2> HIDE DEF routed
    <2>4. RouteKept(question, routed, SavingsOf(routed))
      BY <2>1, RouteKeepsPromise DEF routed
    <2>5. RouteKept(question, answer.routed, answer.savings)
      BY <2>3, <2>4
    <2> HIDE DEF routed
    <2> QED
      BY <2>5, Zenon DEF RouteSound, RouteKept, NearLeast
  <1> QED
    BY <1>1, RepliesInvariant, PTL

----------------------------------------------------------------------------
(* Sums over finite sets.                                                  *)

(* The sum of w over Z. *)
SumOn(Z, w) == (CHOOSE f : Sums(f, Z, w))[Z]

(* w has integers on Z. *)
IntsOn(Z, w) == \A z \in Z : w[z] \in Int

\* A sum over a set is what is summed over its subsets.
LEMMA SumsOnSubsets ==
  ASSUME NEW Z, IsFiniteSet(Z), NEW w, IntsOn(Z, w), NEW f, Sums(f, Z, w)
  PROVE  \A s \in SUBSET Z : f[s] = SumOn(s, w) /\ f[s] \in Int
  <1>0. \A s \in (SUBSET Z) \ {{}} : PickOne(s) \in s /\ PickOne(s) \in Z
    BY DEF PickOne
  <1> DEFINE P == {s \in SUBSET Z : f[s] \in Int}
  <1>1. \A s \in SUBSET Z : s \in P
    <2>1. ASSUME NEW s \in SUBSET Z, \A x \in s : s \ {x} \in P PROVE f[s] \in Int
      <3>1. CASE s = {}
        BY <3>1 DEF Sums
      <3>2. CASE s # {}
        <4>1. f[s \ {PickOne(s)}] \in Int /\ w[PickOne(s)] \in Int
          BY <1>0, <2>1, <3>2 DEF IntsOn
        <4>2. f[s] = f[s \ {PickOne(s)}] + w[PickOne(s)]
          BY <3>2 DEF Sums
        <4> QED
          BY <4>1, <4>2
      <3> QED
        BY <3>1, <3>2
    <2>2. \A s \in SUBSET Z : (\A x \in s : s \ {x} \in P) => s \in P
      BY <2>1
    <2> HIDE DEF P
    <2> QED
      BY <2>2, SubsetInduction
  <1>2. ASSUME NEW Y \in SUBSET Z PROVE f[Y] = SumOn(Y, w)
    <2> DEFINE g == CHOOSE h : Sums(h, Y, w)
               v == [y \in Y |-> w[y]]
    <2>1. IsFiniteSet(Y)
      BY FS_Subset
    <2>2. v \in [Y -> Int]
      BY DEF IntsOn
    <2>3. \A h : Sums(h, Y, v) => Sums(h, Y, w)
      <3> SUFFICES ASSUME NEW h, Sums(h, Y, v) PROVE Sums(h, Y, w)
        OBVIOUS
      <3>1. \A s \in (SUBSET Y) \ {{}} : v[PickOne(s)] = w[PickOne(s)]
        BY DEF PickOne
      <3> HIDE DEF v
      <3> QED
        BY <3>1 DEF Sums
    <2>4. Sums(g, Y, w)
      <3> HIDE DEF v
      <3>1. \E h : Sums(h, Y, v)
        BY <2>1, <2>2, SumIsInt
      <3> QED
        BY <2>3, <3>1
    <2> HIDE DEF g
    <2> DEFINE Q == {s \in SUBSET Y : f[s] = g[s]}
    <2>5. \A s \in SUBSET Y : s \in Q
      <3>1. ASSUME NEW s \in SUBSET Y, \A x \in s : s \ {x} \in Q PROVE f[s] = g[s]
        <4>1. CASE s = {}
          BY <2>4, <4>1 DEF Sums
        <4>2. CASE s # {}
          <5>1. f[s \ {PickOne(s)}] = g[s \ {PickOne(s)}]
            BY <1>0, <3>1, <4>2
          <5>2. f[s] = f[s \ {PickOne(s)}] + w[PickOne(s)]
            BY <4>2 DEF Sums
          <5>3. g[s] = g[s \ {PickOne(s)}] + w[PickOne(s)]
            BY <2>4, <4>2 DEF Sums
          <5> QED
            BY <5>1, <5>2, <5>3
        <4> QED
          BY <4>1, <4>2
      <3>2. \A s \in SUBSET Y : (\A x \in s : s \ {x} \in Q) => s \in Q
        BY <3>1
      <3> HIDE DEF Q
      <3> QED
        BY <2>1, <3>2, SubsetInduction
    <2> QED
      BY <2>5 DEF SumOn, g
  <1> QED
    BY <1>1, <1>2

\* A sum loses with any element what it weighs.
LEMMA SumSteps ==
  ASSUME NEW Z, IsFiniteSet(Z), NEW w, IntsOn(Z, w)
  PROVE  /\ SumOn(Z, w) \in Int
         /\ SumOn({}, w) = 0
         /\ \A x \in Z : SumOn(Z, w) = SumOn(Z \ {x}, w) + w[x]
  <1> DEFINE v == [z \in Z |-> w[z]]
  <1>1. v \in [Z -> Int]
    BY DEF IntsOn
  <1>2. \A h : Sums(h, Z, v) => Sums(h, Z, w)
    <2> SUFFICES ASSUME NEW h, Sums(h, Z, v) PROVE Sums(h, Z, w)
      OBVIOUS
    <2>1. \A s \in (SUBSET Z) \ {{}} : v[PickOne(s)] = w[PickOne(s)]
      BY DEF PickOne
    <2> HIDE DEF v
    <2> QED
      BY <2>1 DEF Sums
  <1>3. PICK f : Sums(f, Z, w)
    <2> HIDE DEF v
    <2>1. \E h : Sums(h, Z, v)
      BY <1>1, SumIsInt
    <2> QED
      BY <1>2, <2>1
  <1>4. \A s \in SUBSET Z : f[s] = SumOn(s, w) /\ f[s] \in Int
    BY <1>3, SumsOnSubsets
  <1>5. \A s \in (SUBSET Z) \ {{}} :
           PickOne(s) \in s /\ SumOn(s, w) = SumOn(s \ {PickOne(s)}, w) + w[PickOne(s)]
    <2> SUFFICES ASSUME NEW s \in SUBSET Z, s # {}
                 PROVE  PickOne(s) \in s /\ SumOn(s, w) = SumOn(s \ {PickOne(s)}, w) + w[PickOne(s)]
      OBVIOUS
    <2>1. PickOne(s) \in s
      BY DEF PickOne
    <2>2. f[s] = f[s \ {PickOne(s)}] + w[PickOne(s)]
      BY <1>3 DEF Sums
    <2> QED
      BY <1>4, <2>1, <2>2
  <1>6. SumOn({}, w) = 0
    BY <1>3, <1>4 DEF Sums
  <1> DEFINE P == {s \in SUBSET Z : \A x \in s : SumOn(s, w) = SumOn(s \ {x}, w) + w[x]}
  <1>7. \A s \in SUBSET Z : s \in P
    <2>1. ASSUME NEW s \in SUBSET Z, \A x \in s : s \ {x} \in P, NEW x \in s
          PROVE  SumOn(s, w) = SumOn(s \ {x}, w) + w[x]
      <3> DEFINE y == PickOne(s)
      <3>1. y \in s /\ SumOn(s, w) = SumOn(s \ {y}, w) + w[y]
        BY <1>5
      <3> HIDE DEF y
      <3>2. CASE x = y
        BY <3>1, <3>2
      <3>3. CASE x # y
        <4>1. SumOn(s \ {y}, w) = SumOn((s \ {y}) \ {x}, w) + w[x]
          BY <2>1, <3>1, <3>3
        <4>2. SumOn(s \ {x}, w) = SumOn((s \ {x}) \ {y}, w) + w[y]
          BY <2>1, <3>1, <3>3
        <4>3. (s \ {y}) \ {x} = (s \ {x}) \ {y}
          OBVIOUS
        <4> DEFINE r == (s \ {x}) \ {y}
        <4>4. SumOn(r, w) \in Int /\ w[x] \in Int /\ w[y] \in Int
          BY <1>4, <3>1 DEF IntsOn
        <4>5. SumOn(s \ {y}, w) = SumOn(r, w) + w[x] /\ SumOn(s \ {x}, w) = SumOn(r, w) + w[y]
          BY <4>1, <4>2, <4>3
        <4> HIDE DEF r
        <4> QED
          BY <3>1, <4>4, <4>5
      <3> QED
        BY <3>2, <3>3
    <2>2. \A s \in SUBSET Z : (\A x \in s : s \ {x} \in P) => s \in P
      BY <2>1
    <2> HIDE DEF P
    <2> QED
      BY <2>2, SubsetInduction
  <1>8. SumOn(Z, w) \in Int
    BY <1>4
  <1> QED
    BY <1>6, <1>7, <1>8

\* Nothing adds up to nothing.
LEMMA SumOfNone ==
  ASSUME NEW w
  PROVE  SumOn({}, w) = 0
  <1>1. IsFiniteSet({}) /\ IntsOn({}, w)
    BY FS_EmptySet DEF IntsOn
  <1> QED
    BY <1>1, SumSteps

\* Equal weights have equal sums.
LEMMA SumSame ==
  ASSUME NEW Z, IsFiniteSet(Z), NEW w, IntsOn(Z, w), NEW v, \A z \in Z : v[z] = w[z]
  PROVE  SumOn(Z, v) = SumOn(Z, w)
  <1>1. \A s \in SUBSET Z : IsFiniteSet(s) /\ IntsOn(s, w) /\ IntsOn(s, v)
    BY FS_Subset DEF IntsOn
  <1> DEFINE P == {s \in SUBSET Z : SumOn(s, v) = SumOn(s, w)}
  <1>2. ASSUME NEW s \in SUBSET Z, \A x \in s : s \ {x} \in P PROVE SumOn(s, v) = SumOn(s, w)
    <2>1. CASE s = {}
      BY <1>1, <2>1, SumSteps
    <2>2. CASE s # {}
      <3>1. PICK x \in s : TRUE
        BY <2>2
      <3>2. SumOn(s, v) = SumOn(s \ {x}, v) + v[x] /\ SumOn(s, w) = SumOn(s \ {x}, w) + w[x]
        BY <1>1, SumSteps
      <3> QED
        BY <1>2, <3>2
    <2> QED
      BY <2>1, <2>2
  <1>3. \A s \in SUBSET Z : (\A x \in s : s \ {x} \in P) => s \in P
    BY <1>2
  <1>4. \A s \in SUBSET Z : s \in P
    <2> HIDE DEF P
    <2> QED
      BY <1>3, SubsetInduction
  <1> QED
    BY <1>4

\* The sum over two sets apart is that over each.
LEMMA SumOfUnion ==
  ASSUME NEW Z, IsFiniteSet(Z), NEW w, IntsOn(Z, w), NEW A \in SUBSET Z
  PROVE  SumOn(Z, w) = SumOn(A, w) + SumOn(Z \ A, w)
  <1>1. \A s \in SUBSET Z : IsFiniteSet(s) /\ IntsOn(s, w)
    BY FS_Subset DEF IntsOn
  <1>2. \A s \in SUBSET Z : SumOn(s, w) \in Int /\ \A x \in s : SumOn(s, w) = SumOn(s \ {x}, w) + w[x]
    BY <1>1, SumSteps
  <1> DEFINE rest == Z \ A
             P == {s \in SUBSET A : SumOn(s \cup rest, w) = SumOn(s, w) + SumOn(rest, w)}
  <1>3. ASSUME NEW s \in SUBSET A, \A x \in s : s \ {x} \in P
        PROVE  SumOn(s \cup rest, w) = SumOn(s, w) + SumOn(rest, w)
    <2>1. CASE s = {}
      <3>1. SumOn(s, w) = 0 /\ s \cup rest = rest
        BY <2>1, SumOfNone
      <3>2. SumOn(rest, w) \in Int
        BY <1>2
      <3>3. SumOn(s \cup rest, w) = SumOn(rest, w)
        BY <3>1, Zenon
      <3> HIDE DEF rest
      <3> QED
        BY <3>1, <3>2, <3>3
    <2>2. CASE s # {}
      <3>1. PICK x \in s : TRUE
        BY <2>2
      <3>2. SumOn(s, w) = SumOn(s \ {x}, w) + w[x]
        BY <1>2
      <3>3. (s \cup rest) \ {x} = (s \ {x}) \cup rest /\ s \cup rest \in SUBSET Z /\ x \in s \cup rest
        OBVIOUS
      <3>4. SumOn(s \cup rest, w) = SumOn((s \ {x}) \cup rest, w) + w[x]
        BY <1>2, <3>3
      <3>5. SumOn((s \ {x}) \cup rest, w) = SumOn(s \ {x}, w) + SumOn(rest, w)
        BY <1>3
      <3>6. SumOn(s \ {x}, w) \in Int /\ SumOn(rest, w) \in Int /\ w[x] \in Int
        BY <1>2 DEF IntsOn
      <3> HIDE DEF rest
      <3> QED
        BY <3>2, <3>4, <3>5, <3>6
    <2> QED
      BY <2>1, <2>2
  <1>4. \A s \in SUBSET A : (\A x \in s : s \ {x} \in P) => s \in P
    BY <1>3
  <1>5. A \in P
    <2> HIDE DEF P
    <2>1. IsFiniteSet(A)
      BY <1>1
    <2> QED
      BY <1>4, <2>1, SubsetInduction
  <1>6. A \cup rest = Z
    OBVIOUS
  <1> QED
    BY <1>5, <1>6

\* A sum of weights between two times others lies between two times their sum.
LEMMA SumWithin ==
  ASSUME NEW Z, IsFiniteSet(Z), NEW w, IntsOn(Z, w), NEW v, IntsOn(Z, v)
  PROVE  (\A z \in Z : w[z] <= v[z]) => SumOn(Z, w) <= SumOn(Z, v)
  <1> SUFFICES ASSUME \A z \in Z : w[z] <= v[z] PROVE SumOn(Z, w) <= SumOn(Z, v)
    OBVIOUS
  <1>1. \A s \in SUBSET Z : IsFiniteSet(s) /\ IntsOn(s, w) /\ IntsOn(s, v)
    BY FS_Subset DEF IntsOn
  <1> DEFINE P == {s \in SUBSET Z : SumOn(s, w) <= SumOn(s, v)}
  <1>2. ASSUME NEW s \in SUBSET Z, \A x \in s : s \ {x} \in P PROVE SumOn(s, w) <= SumOn(s, v)
    <2>1. CASE s = {}
      BY <1>1, <2>1, SumSteps
    <2>2. CASE s # {}
      <3>1. PICK x \in s : TRUE
        BY <2>2
      <3>2. SumOn(s, v) = SumOn(s \ {x}, v) + v[x] /\ SumOn(s, w) = SumOn(s \ {x}, w) + w[x]
        BY <1>1, SumSteps
      <3>3. /\ SumOn(s \ {x}, v) \in Int /\ SumOn(s \ {x}, w) \in Int /\ v[x] \in Int /\ w[x] \in Int
            /\ SumOn(s \ {x}, w) <= SumOn(s \ {x}, v) /\ w[x] <= v[x]
        BY <1>1, <1>2, SumSteps DEF IntsOn
      <3> QED
        BY <3>2, <3>3
    <2> QED
      BY <2>1, <2>2
  <1>3. \A s \in SUBSET Z : (\A x \in s : s \ {x} \in P) => s \in P
    BY <1>2
  <1>4. \A s \in SUBSET Z : s \in P
    <2> HIDE DEF P
    <2> QED
      BY <1>3, SubsetInduction
  <1> QED
    BY <1>4

\* Weights that are multiples have a sum that is the same multiple.
LEMMA SumScaled ==
  ASSUME NEW Z, IsFiniteSet(Z), NEW w, IntsOn(Z, w), NEW v, NEW c \in Int, \A z \in Z : v[z] = c * w[z]
  PROVE  SumOn(Z, v) = c * SumOn(Z, w)
  <1>1. \A s \in SUBSET Z : IsFiniteSet(s) /\ IntsOn(s, w) /\ IntsOn(s, v)
    BY FS_Subset DEF IntsOn
  <1> DEFINE P == {s \in SUBSET Z : SumOn(s, v) = c * SumOn(s, w)}
  <1>2. ASSUME NEW s \in SUBSET Z, \A x \in s : s \ {x} \in P PROVE SumOn(s, v) = c * SumOn(s, w)
    <2>1. CASE s = {}
      <3>1. SumOn(s, v) = 0 /\ SumOn(s, w) = 0
        BY <1>1, <2>1, SumSteps
      <3> QED
        BY <3>1
    <2>2. CASE s # {}
      <3>1. PICK x \in s : TRUE
        BY <2>2
      <3>2. SumOn(s, v) = SumOn(s \ {x}, v) + v[x] /\ SumOn(s, w) = SumOn(s \ {x}, w) + w[x]
        BY <1>1, SumSteps
      <3>3. /\ SumOn(s \ {x}, w) \in Int /\ w[x] \in Int
            /\ SumOn(s \ {x}, v) = c * SumOn(s \ {x}, w) /\ v[x] = c * w[x]
        BY <1>1, <1>2, SumSteps DEF IntsOn
      <3>4. \A a, b \in Int : c * a + c * b = c * (a + b)
        OBVIOUS
      <3> QED
        BY <3>2, <3>3, <3>4
    <2> QED
      BY <2>1, <2>2
  <1>3. \A s \in SUBSET Z : (\A x \in s : s \ {x} \in P) => s \in P
    BY <1>2
  <1>4. \A s \in SUBSET Z : s \in P
    <2> HIDE DEF P
    <2> QED
      BY <1>3, SubsetInduction
  <1> QED
    BY <1>4

\* The sum of weights of 1 counts.
LEMMA SumCounts ==
  ASSUME NEW Z, IsFiniteSet(Z), NEW w, \A z \in Z : w[z] = 1
  PROVE  SumOn(Z, w) = Cardinality(Z)
  <1>1. \A s \in SUBSET Z : IsFiniteSet(s) /\ IntsOn(s, w)
    BY FS_Subset DEF IntsOn
  <1> DEFINE P == {s \in SUBSET Z : SumOn(s, w) = Cardinality(s)}
  <1>2. ASSUME NEW s \in SUBSET Z, \A x \in s : s \ {x} \in P PROVE SumOn(s, w) = Cardinality(s)
    <2>1. CASE s = {}
      BY <1>1, <2>1, SumSteps, FS_EmptySet
    <2>2. CASE s # {}
      <3>1. PICK x \in s : TRUE
        BY <2>2
      <3>2. SumOn(s, w) = SumOn(s \ {x}, w) + w[x]
        BY <1>1, SumSteps
      <3>3. Cardinality(s \ {x}) = Cardinality(s) - 1 /\ Cardinality(s) \in Nat
        BY <1>1, FS_RemoveElement, FS_CardinalityType
      <3> QED
        BY <1>2, <3>2, <3>3
    <2> QED
      BY <2>1, <2>2
  <1>3. \A s \in SUBSET Z : (\A x \in s : s \ {x} \in P) => s \in P
    BY <1>2
  <1>4. \A s \in SUBSET Z : s \in P
    <2> HIDE DEF P
    <2> QED
      BY <1>3, SubsetInduction
  <1> QED
    BY <1>4

\* The sum of any subset unfolds.
LEMMA SumUnfolds ==
  ASSUME NEW Z, IsFiniteSet(Z), NEW w, IntsOn(Z, w)
  PROVE  \A s \in SUBSET Z : \A x \in s : SumOn(s, w) = SumOn(s \ {x}, w) + w[x]
  <1>1. \A s \in SUBSET Z : IsFiniteSet(s) /\ IntsOn(s, w)
    BY FS_Subset DEF IntsOn
  <1> QED
    BY <1>1, SumSteps

\* b takes Z one to one onto Y, and every weight to itself.
Carries(b, Z, w, Y, v) ==
  /\ b \in [Z -> Y]
  /\ \A x, y \in Z : b[x] = b[y] => x = y
  /\ \A y \in Y : \E z \in Z : b[z] = y
  /\ \A z \in Z : w[z] = v[b[z]] /\ w[z] \in Int

\* A sum is the same over what stands one to one for the set.
LEMMA SumMapped ==
  ASSUME NEW Z, IsFiniteSet(Z), NEW Y, NEW w, NEW v, NEW b, Carries(b, Z, w, Y, v)
  PROVE  SumOn(Z, w) = SumOn(Y, v)
  <1>0. \A s \in SUBSET Z : \A x \in s : SumOn(s, w) = SumOn(s \ {x}, w) + w[x]
    <2>1. IntsOn(Z, w)
      BY DEF IntsOn, Carries
    <2> QED
      BY <2>1, SumUnfolds
  <1> USE DEF Carries
  <1> DEFINE image(s) == {b[z] : z \in s}
             P == {s \in SUBSET Z : SumOn(s, w) = SumOn(image(s), v)}
  <1>1. \A s \in SUBSET Z : IsFiniteSet(s) /\ IntsOn(s, w)
    BY FS_Subset DEF IntsOn
  <1>2. \A s \in SUBSET Z : IsFiniteSet(image(s)) /\ IntsOn(image(s), v)
    <2> TAKE s \in SUBSET Z
    <2>1. IsFiniteSet(image(s))
      <3> DEFINE f == [x \in s |-> b[x]]
      <3>1. f \in Surjection(s, image(s))
        BY DEF Surjection
      <3> HIDE DEF f, image
      <3> QED
        BY <1>1, <3>1, FS_Surjection
    <2>2. IntsOn(image(s), v)
      BY DEF IntsOn
    <2> QED
      BY <2>1, <2>2
  <1>3. ASSUME NEW s \in SUBSET Z, \A x \in s : s \ {x} \in P PROVE SumOn(s, w) = SumOn(image(s), v)
    <2>1. CASE s = {}
      <3>1. image(s) = {}
        BY <2>1
      <3> HIDE DEF image
      <3> QED
        BY <2>1, <3>1, SumOfNone
    <2>2. CASE s # {}
      <3>1. PICK x \in s : TRUE
        BY <2>2
      <3>2. SumOn(s, w) = SumOn(s \ {x}, w) + w[x]
        BY <1>0
      <3>3. image(s) \ {b[x]} = image(s \ {x}) /\ b[x] \in image(s)
        OBVIOUS
      <3>4. SumOn(s \ {x}, w) = SumOn(image(s \ {x}), v)
        BY <1>3
      <3>5. w[x] = v[b[x]]
        OBVIOUS
      <3> HIDE DEF image, Carries
      <3>6. SumOn(image(s), v) = SumOn(image(s) \ {b[x]}, v) + v[b[x]]
        BY <1>2, <3>3, SumSteps
      <3> QED
        BY <3>2, <3>3, <3>4, <3>5, <3>6
    <2> QED
      BY <2>1, <2>2
  <1>4. \A s \in SUBSET Z : (\A x \in s : s \ {x} \in P) => s \in P
    BY <1>3
  <1>5. \A s \in SUBSET Z : s \in P
    <2> HIDE DEF P
    <2> QED
      BY <1>4, SubsetInduction
  <1>6. image(Z) = Y
    OBVIOUS
  <1> QED
    BY <1>5, <1>6

\* A sum is that of the sums over its groups.
LEMMA SumByGroup ==
  ASSUME NEW Z, IsFiniteSet(Z), NEW w, IntsOn(Z, w), NEW K, IsFiniteSet(K), NEW g \in [Z -> K],
         NEW v, \A k \in K : v[k] = SumOn({z \in Z : g[z] = k}, w)
  PROVE  SumOn(Z, w) = SumOn(K, v)
  <1> DEFINE of(s) == {z \in Z : g[z] \in s}
             P == {s \in SUBSET K : SumOn(of(s), w) = SumOn(s, v)}
  <1>1. \A s \in SUBSET Z : IsFiniteSet(s) /\ IntsOn(s, w) /\ SumOn(s, w) \in Int
    <2>1. \A s \in SUBSET Z : IsFiniteSet(s) /\ IntsOn(s, w)
      BY FS_Subset DEF IntsOn
    <2> QED
      BY <2>1, SumSteps
  <1>2. \A s \in SUBSET K : IsFiniteSet(s) /\ IntsOn(s, v)
    <2>1. \A k \in K : {z \in Z : g[z] = k} \in SUBSET Z
      OBVIOUS
    <2>2. \A k \in K : v[k] \in Int
      BY <1>1, <2>1
    <2> QED
      BY <2>2, FS_Subset DEF IntsOn
  <1>3. ASSUME NEW s \in SUBSET K, \A x \in s : s \ {x} \in P PROVE SumOn(of(s), w) = SumOn(s, v)
    <2>1. CASE s = {}
      <3>1. of(s) = {}
        BY <2>1
      <3> HIDE DEF of
      <3> QED
        BY <2>1, <3>1, SumOfNone
    <2>2. CASE s # {}
      <3>1. PICK x \in s : TRUE
        BY <2>2
      <3>2. SumOn(s, v) = SumOn(s \ {x}, v) + v[x]
        BY <1>2, SumSteps
      <3>3. of(s) \ of(s \ {x}) = {z \in Z : g[z] = x} /\ of(s \ {x}) \in SUBSET of(s) /\ of(s) \in SUBSET Z
        OBVIOUS
      <3>4. SumOn(of(s \ {x}), w) = SumOn(s \ {x}, v)
        BY <1>3
      <3>5. v[x] = SumOn({z \in Z : g[z] = x}, w)
        OBVIOUS
      <3> HIDE DEF of
      <3>6. SumOn(of(s), w) = SumOn(of(s \ {x}), w) + SumOn(of(s) \ of(s \ {x}), w)
        BY <1>1, <3>3, SumOfUnion
      <3> QED
        BY <3>2, <3>3, <3>4, <3>5, <3>6
    <2> QED
      BY <2>1, <2>2
  <1>4. \A s \in SUBSET K : (\A x \in s : s \ {x} \in P) => s \in P
    BY <1>3
  <1>5. K \in P
    <2> HIDE DEF P
    <2>1. \A s \in SUBSET K : s \in P
      BY <1>4, SubsetInduction
    <2> QED
      BY <2>1
  <1>6. of(K) = Z
    OBVIOUS
  <1> QED
    BY <1>5, <1>6

\* The sum of a sequence is that over its indices.
LEMMA SumOfIsSumOn ==
  ASSUME NEW s, IsFiniteSet(DOMAIN s), IntsOn(DOMAIN s, s)
  PROVE  SumOf(s) = SumOn(DOMAIN s, s) /\ SumOf(s) \in Int
  <1> DEFINE Z == DOMAIN s
             w == [i \in Z |-> s[i]]
             Adds(f) == f = [t \in SUBSET Z |-> IF t = {} THEN 0
                                ELSE LET x == CHOOSE y \in t : TRUE IN s[x] + f[t \ {x}]]
  <1>1. SumOf(s) = (CHOOSE f : Adds(f))[Z]
    BY DEF SumOf, FoldSeq, FoldFunction, FoldFunctionOnSet, MapThenFoldSet
  <1>2. w \in [Z -> Int] /\ \A x \in Z : w[x] = s[x]
    BY DEF IntsOn
  <1>3. \A t \in (SUBSET Z) \ {{}} : PickOne(t) \in Z /\ PickOne(t) \in t
    BY DEF PickOne
  <1>4. PICK f \in [SUBSET Z -> Int] : Sums(f, Z, w)
    <2> HIDE DEF w, Z
    <2> QED
      BY <1>2, SumIsInt DEF Z
  <1>5. Adds(f)
    <2>1. \A t \in (SUBSET Z) \ {{}} : f[t] = s[PickOne(t)] + f[t \ {PickOne(t)}]
      <3> SUFFICES ASSUME NEW t \in SUBSET Z, t # {} PROVE f[t] = s[PickOne(t)] + f[t \ {PickOne(t)}]
        OBVIOUS
      <3>1. f[t] = f[t \ {PickOne(t)}] + w[PickOne(t)]
        BY <1>4 DEF Sums
      <3>2. f[t \ {PickOne(t)}] \in Int /\ w[PickOne(t)] \in Int /\ w[PickOne(t)] = s[PickOne(t)]
        BY <1>2, <1>3
      <3> QED
        BY <3>1, <3>2
    <2>2. f[{}] = 0
      BY <1>4 DEF Sums
    <2> HIDE DEF Z, w
    <2> QED
      BY <2>1, <2>2 DEF PickOne
  <1>6. ASSUME NEW h, Adds(h) PROVE \A t \in SUBSET Z : h[t] = f[t]
    <2> DEFINE P == {t \in SUBSET Z : h[t] = f[t]}
    <2>1. ASSUME NEW t \in SUBSET Z, \A x \in t : t \ {x} \in P PROVE h[t] = f[t]
      <3>1. CASE t = {}
        BY <1>5, <1>6, <3>1
      <3>2. CASE t # {}
        <4>1. h[t] = s[PickOne(t)] + h[t \ {PickOne(t)}]
          BY <1>6, <3>2 DEF PickOne
        <4>2. f[t] = s[PickOne(t)] + f[t \ {PickOne(t)}]
          BY <1>5, <3>2 DEF PickOne
        <4>3. h[t \ {PickOne(t)}] = f[t \ {PickOne(t)}]
          BY <1>3, <2>1, <3>2
        <4> QED
          BY <4>1, <4>2, <4>3
      <3> QED
        BY <3>1, <3>2
    <2>2. \A t \in SUBSET Z : (\A x \in t : t \ {x} \in P) => t \in P
      BY <2>1
    <2> HIDE DEF P, Z
    <2>3. IsFiniteSet(Z)
      BY DEF Z
    <2>4. \A t \in SUBSET Z : t \in P
      BY <2>2, <2>3, SubsetInduction
    <2> QED
      BY <2>4 DEF P
  <1>7. SumOf(s) = f[Z]
    <2> HIDE DEF Adds, Z
    <2>1. Adds(CHOOSE h : Adds(h))
      BY <1>5
    <2> QED
      BY <1>1, <1>6, <2>1
  <1>8. f[Z] = SumOn(Z, w)
    <2> HIDE DEF w
    <2>1. IntsOn(Z, w)
      BY <1>2 DEF IntsOn
    <2> HIDE DEF Z
    <2> QED
      BY <1>4, <2>1, SumsOnSubsets DEF Z
  <1>9. SumOn(Z, w) = SumOn(Z, s)
    <2> HIDE DEF w
    <2> QED
      BY <1>2, SumSame DEF IntsOn
  <1> QED
    BY <1>4, <1>7, <1>8, <1>9

\* The sum over what is picked is that over the indices picked.
LEMMA SumOfPicked ==
  ASSUME NEW n \in Nat, NEW I \in SUBSET (1 .. n), NEW e, IntsOn(I, e),
         NEW p, DOMAIN p = 1 .. Cardinality(I), \A k \in DOMAIN p : p[k] = e[NthOf(I, k)]
  PROVE  SumOf(p) = SumOn(I, e) /\ SumOf(p) \in Int
  <1> DEFINE Z == 1 .. Cardinality(I)
             b == [k \in Z |-> NthOf(I, k)]
  <1>1. /\ Cardinality(I) \in Nat
        /\ \A k \in Z : NthOf(I, k) \in I /\ RankIn(I, NthOf(I, k)) = k
        /\ \A i \in I : RankIn(I, i) \in Z /\ NthOf(I, RankIn(I, i)) = i
    BY CountedOff
  <1>2. IsFiniteSet(Z) /\ DOMAIN p = Z
    BY <1>1, FS_Interval
  <1>3. b \in [Z -> I]
    BY <1>1
  <1>3a. \A x, y \in Z : b[x] = b[y] => x = y
    BY <1>1
  <1>4. \A k \in Z : p[k] = e[b[k]] /\ p[k] \in Int
    BY <1>1 DEF IntsOn
  <1>5. \A i \in I : \E k \in Z : b[k] = i
    BY <1>1
  <1> HIDE DEF Z, b
  <1>6. SumOn(Z, p) = SumOn(I, e)
    <2>1. Carries(b, Z, p, I, e)
      BY <1>3, <1>3a, <1>4, <1>5 DEF Carries
    <2> QED
      BY <1>2, <2>1, SumMapped
  <1>7. SumOf(p) = SumOn(Z, p) /\ SumOf(p) \in Int
    BY <1>2, <1>4, SumOfIsSumOn DEF IntsOn
  <1> QED
    BY <1>6, <1>7

----------------------------------------------------------------------------
(* Compliance.                                                             *)

(* The indices of a region's records, and what their records weigh. *)
OfKey(records, k) == {i \in DOMAIN records : Key(records[i]) = k}
EnergyAt(records) == [i \in DOMAIN records |-> records[i].energy]

(* A sequence of records with an energy. *)
IsMetered(records) == /\ records \in Seq(Range(records))
                      /\ \A i \in DOMAIN records : records[i].energy \in Int

\* The energy of a region is the sum over its records.
LEMMA EnergyOfUsage ==
  ASSUME NEW n \in Nat, NEW records, DOMAIN records = 1 .. n,
         \A i \in 1 .. n : records[i].energy \in Int, NEW k
  PROVE  EnergyOf(UsageOf(records, k)) = SumOn(OfKey(records, k), EnergyAt(records))
  <1> DEFINE I == OfKey(records, k)
             e == EnergyAt(records)
             picked == Picked(records, I)
             p == [j \in DOMAIN picked |-> picked[j].energy]
  <1>1. I \in SUBSET (1 .. n) /\ I \in SUBSET DOMAIN records
    BY DEF OfKey
  <1>2. UsageOf(records, k) = picked
    BY DEF UsageOf, OfKey
  <1> HIDE DEF I
  <1>3. DOMAIN picked = 1 .. Cardinality(I) /\ \A j \in DOMAIN picked : picked[j] = records[NthOf(I, j)]
    BY <1>1, PickedAre
  <1>4. \A j \in 1 .. Cardinality(I) : NthOf(I, j) \in I
    BY <1>1, CountedOff
  <1>5. IntsOn(I, e)
    BY <1>1 DEF IntsOn, EnergyAt
  <1>6. EnergyOf(picked) = SumOf(p)
    BY DEF EnergyOf
  <1>7. \A j \in DOMAIN p : p[j] = e[NthOf(I, j)]
    BY <1>1, <1>3, <1>4 DEF EnergyAt
  <1>8. DOMAIN p = 1 .. Cardinality(I)
    BY <1>3
  <1> HIDE DEF p, e, picked
  <1>9. SumOf(p) = SumOn(I, e)
    BY <1>1, <1>5, <1>7, <1>8, SumOfPicked
  <1> QED
    BY <1>2, <1>6, <1>9 DEF I, e

\* What a calculation makes of the records has, of every region, the energy of
\* all of its records or of none.
LEMMA EmissionsOfWholeRegions ==
  ASSUME NEW n \in Nat, NEW records, DOMAIN records = 1 .. n,
         \A i \in 1 .. n : records[i].energy \in Int,
         NEW zones, NEW answered, NEW method, NEW k
  PROVE  LET new == Emissions(records, zones, answered, method)
         IN  /\ \E m \in Nat : DOMAIN new = 1 .. m /\ new = [j \in 1 .. m |-> new[j]]
             /\ \A j \in DOMAIN new : new[j].energy \in Int
             /\ EnergyOf(UsageOf(new, k)) \in {0, EnergyOf(UsageOf(records, k))}
  <1> DEFINE new == Emissions(records, zones, answered, method)
             B == {i \in DOMAIN records : /\ Key(records[i]) \in DOMAIN zones
                                          /\ zones[Key(records[i])] \in DOMAIN answered}
             m == Cardinality(B)
             billable == Picked(records, B)
             I == OfKey(records, k)
             J == OfKey(new, k)
             e == EnergyAt(records)
             f == EnergyAt(new)
  <1>1. B \in SUBSET (1 .. n)
    OBVIOUS
  <1>2. /\ DOMAIN new = DOMAIN billable
        /\ new = [j \in DOMAIN billable |-> new[j]]
        /\ \A j \in DOMAIN billable : /\ new[j].energy = billable[j].energy
                                      /\ Key(new[j]) = Key(billable[j])
    BY DEF Emissions, Key
  <1>3. k \in DOMAIN zones /\ zones[k] \in DOMAIN answered => I \in SUBSET B
    BY DEF OfKey
  <1>4. ~(k \in DOMAIN zones /\ zones[k] \in DOMAIN answered) => I \cap B = {}
    BY DEF OfKey
  <1>5. I \in SUBSET (1 .. n) /\ \A i \in 1 .. n : i \in I <=> Key(records[i]) = k
    BY DEF OfKey
  <1>6. \A i \in 1 .. n : e[i] = records[i].energy /\ e[i] \in Int
    BY DEF EnergyAt
  <1> HIDE DEF B, new, I, e
  <1>7. /\ m \in Nat
        /\ \A j \in 1 .. m : NthOf(B, j) \in B /\ RankIn(B, NthOf(B, j)) = j
        /\ \A i \in B : RankIn(B, i) \in 1 .. m /\ NthOf(B, RankIn(B, i)) = i
    BY <1>1, CountedOff
  <1>8. DOMAIN billable = 1 .. m /\ \A j \in 1 .. m : billable[j] = records[NthOf(B, j)]
    <2>1. B \in SUBSET DOMAIN records
      BY <1>1
    <2>2. /\ DOMAIN Picked(records, B) = 1 .. Cardinality(B)
          /\ \A j \in DOMAIN Picked(records, B) : Picked(records, B)[j] = records[NthOf(B, j)]
      BY <1>1, <2>1, PickedAre
    <2> QED
      BY <2>2
  <1> HIDE DEF m, billable
  <1>9. \A j \in 1 .. m : /\ NthOf(B, j) \in B /\ NthOf(B, j) \in 1 .. n
                          /\ new[j].energy = records[NthOf(B, j)].energy
                          /\ new[j].energy \in Int
                          /\ Key(new[j]) = Key(records[NthOf(B, j)])
    <2> TAKE j \in 1 .. m
    <2>1. NthOf(B, j) \in B /\ NthOf(B, j) \in 1 .. n
      BY <1>1, <1>7
    <2>2. new[j].energy = records[NthOf(B, j)].energy /\ Key(new[j]) = Key(records[NthOf(B, j)])
      BY <1>2, <1>8
    <2> QED
      BY <2>1, <2>2
  <1>10. J \in SUBSET (1 .. m) /\ \A j \in 1 .. m : j \in J <=> Key(new[j]) = k
    BY <1>2, <1>8 DEF OfKey
  <1>11. \A j \in 1 .. m : f[j] = new[j].energy
    BY <1>2, <1>8 DEF EnergyAt
  <1> HIDE DEF J, f
  <1>12. SumOn(J, f) = SumOn(I \cap B, e)
    <2> DEFINE b == [j \in J |-> NthOf(B, j)]
    <2>1. IsFiniteSet(J)
      <3>1. IsFiniteSet(1 .. m)
        BY <1>7, FS_Interval
      <3> QED
        BY <1>10, <3>1, FS_Subset
    <2>2. \A j \in J : NthOf(B, j) \in I \cap B /\ RankIn(B, NthOf(B, j)) = j
      BY <1>5, <1>7, <1>9, <1>10
    <2>3. b \in [J -> I \cap B] /\ \A x, y \in J : b[x] = b[y] => x = y
      BY <2>2
    <2>4. \A j \in J : f[j] = e[b[j]] /\ f[j] \in Int
      BY <1>6, <1>9, <1>10, <1>11
    <2>5. \A i \in I \cap B : \E j \in J : b[j] = i
      <3> TAKE i \in I \cap B
      <3> DEFINE j == RankIn(B, i)
      <3>1. j \in 1 .. m /\ NthOf(B, j) = i
        BY <1>7
      <3>2. j \in J
        BY <1>5, <1>9, <1>10, <3>1
      <3> QED
        BY <3>1, <3>2
    <2> HIDE DEF b
    <2>6. Carries(b, J, f, I \cap B, e)
      BY <2>3, <2>4, <2>5 DEF Carries
    <2> QED
      BY <2>1, <2>6, SumMapped
  <1>13. SumOn(I \cap B, e) \in {0, SumOn(I, e)}
    <2>1. I \in SUBSET B => I \cap B = I
      OBVIOUS
    <2>2. SumOn({}, e) = 0
      BY SumOfNone
    <2> QED
      BY <1>3, <1>4, <2>1, <2>2
  <1>14. EnergyOf(UsageOf(records, k)) = SumOn(I, e)
    BY EnergyOfUsage DEF I, e
  <1>15. EnergyOf(UsageOf(new, k)) = SumOn(J, f)
    <2>1. DOMAIN new = 1 .. m
      BY <1>2, <1>8
    <2> QED
      BY <1>7, <1>9, <2>1, EnergyOfUsage DEF J, f
  <1>16. \E l \in Nat : DOMAIN new = 1 .. l /\ new = [j \in 1 .. l |-> new[j]]
    BY <1>2, <1>7, <1>8
  <1>17. \A j \in DOMAIN new : new[j].energy \in Int
    BY <1>2, <1>8, <1>9
  <1> QED
    BY <1>12, <1>13, <1>14, <1>15, <1>16, <1>17 DEF new

\* Two metered sequences make one.
LEMMA MeteredJoined ==
  ASSUME NEW s, NEW t, IsMetered(s), IsMetered(t)
  PROVE  IsMetered(s \o t)
  <1> DEFINE R == Range(s) \cup Range(t)
  <1>1. s \in Seq(R) /\ t \in Seq(R)
    BY DEF IsMetered
  <1>2. \A x \in R : x.energy \in Int
    BY DEF IsMetered, Range
  <1> HIDE DEF R
  <1>3. s \o t \in Seq(R) /\ DOMAIN (s \o t) = 1 .. Len(s \o t) /\ Len(s \o t) \in Nat
    BY <1>1
  <1> DEFINE u == s \o t
  <1>4. \A i \in DOMAIN u : u[i] \in R /\ u[i] \in Range(u)
    BY <1>3 DEF Range
  <1>5. u \in Seq(Range(u))
    <2>1. u \in Seq(R) /\ Len(u) \in Nat /\ DOMAIN u = 1 .. Len(u)
      BY <1>3
    <2> HIDE DEF u
    <2>2. u \in [1 .. Len(u) -> Range(u)]
      BY <1>4, <2>1
    <2> QED
      BY <2>1, <2>2
  <1> HIDE DEF u
  <1> QED
    BY <1>2, <1>4, <1>5 DEF IsMetered, u

\* A list made index by index of records with an energy is metered.
LEMMA MeteredMade ==
  ASSUME NEW n \in Nat, NEW s, s = [i \in 1 .. n |-> s[i]], \A i \in 1 .. n : s[i].energy \in Int
  PROVE  IsMetered(s)
  <1>1. DOMAIN s = 1 .. n
    OBVIOUS
  <1>2. \A i \in 1 .. n : s[i] \in Range(s)
    BY <1>1 DEF Range
  <1>3. s \in [1 .. n -> Range(s)]
    BY <1>2
  <1>4. s \in Seq(Range(s))
    BY <1>3
  <1> QED
    BY <1>1, <1>4 DEF IsMetered

\* The energy of a quantity.
LEMMA EnergyIsInt ==
  ASSUME ComplianceAssumption, NEW quantity \in Int, NEW unit, NEW family, NEW provider
  PROVE  EstimateEnergy(quantity, unit, family, provider) \in Int
  <1> DEFINE pue == PUE[IF provider \in DOMAIN PUE THEN provider ELSE "default"]
             by == Coefficient[unit]
             coefficient == by[IF family \in DOMAIN by THEN family ELSE "default"]
  <1>1. pue \in Nat
    BY DEF ComplianceAssumption
  <1>2. unit \in DOMAIN Coefficient => coefficient \in Nat
    BY DEF ComplianceAssumption
  <1>3. EstimateEnergy(quantity, unit, family, provider)
          = IF unit \notin DOMAIN Coefficient THEN 0 ELSE quantity * coefficient * pue
    BY DEF EstimateEnergy
  <1> HIDE DEF pue, coefficient
  <1>4. unit \in DOMAIN Coefficient => quantity * coefficient \in Int
    BY <1>2
  <1>5. unit \in DOMAIN Coefficient => quantity * coefficient * pue \in Int
    BY <1>1, <1>4
  <1> QED
    BY <1>3, <1>5

\* A record of usage has an energy.
LEMMA RecordIsMetered ==
  ASSUME ComplianceAssumption, NEW provider, NEW region, NEW service, NEW quantity \in Int,
         NEW unit, NEW family, NEW from, NEW to
  PROVE  UsageRecord(provider, region, service, quantity, unit, family, from, to).energy \in Int
  BY EnergyIsInt DEF UsageRecord

\* What has a quantity is some of the rows.
LEMMA UsedAreRows ==
  ASSUME NEW R, NEW rows \in Seq(R)
  PROVE  Used(rows) \in Seq(R)
  BY PickedRange DEF Used

\* The pages read are rows of the pages.
LEMMA PagesJoined ==
  ASSUME NEW R, NEW P, NEW pages \in Seq(P), \A i \in DOMAIN pages : pages[i] \in Seq(R)
  PROVE  FoldLeft(LAMBDA read, page: read \o Used(page), <<>>, pages) \in Seq(R)
  <1> DEFINE D == DOMAIN pages
             V == Seq(R)
             empty == <<>>
             own(i) == Used(pages[i])
             h == [p \in D \X V |-> p[2] \o own(p[1])]
             c == [s \in (SUBSET D) \ {{}} |-> Max(s)]
             Joined(f) == f = [s \in SUBSET D |-> IF s = {} THEN empty
                                ELSE LET x == Max(s) IN f[s \ {x}] \o own(x)]
             joined == CHOOSE f : Joined(f)
  <1>1. D = 1 .. Len(pages) /\ Len(pages) \in Nat /\ IsFiniteSet(D)
    BY FS_Interval
  <1>2. \A i \in D : own(i) \in V
    BY UsedAreRows
  <1>3. ASSUME NEW s \in (SUBSET D) \ {{}} PROVE Max(s) \in s
    BY <1>1, MaxExists
  <1>4. FoldLeft(LAMBDA read, page: read \o Used(page), <<>>, pages) = joined[D]
    BY DEF FoldLeft, MapThenFoldSet
  <1>5. Operates(h, D, V)
    <2>1. \A i \in D : \A v \in V : v \o own(i) \in V
      BY <1>2
    <2> HIDE DEF V, own
    <2> QED
      BY <2>1 DEF Operates
  <1>6. Picks(c, D)
    <2>1. \A s \in (SUBSET D) \ {{}} : Max(s) \in s /\ Max(s) \in D
      BY <1>3
    <2> QED
      BY <2>1 DEF Picks
  <1>7. empty \in V
    OBVIOUS
  <1> HIDE DEF D, own, V, empty
  <1>8. \A s \in (SUBSET D) \ {{}} : c[s] = Max(s)
    OBVIOUS
  <1>9. \A i \in D, v \in V : h[<<i, v>>] = v \o own(i)
    OBVIOUS
  <1> HIDE DEF h, c
  <1>10. PICK f \in [SUBSET D -> V] : FoldsBy(f, D, empty, h, c)
    BY <1>1, <1>5, <1>6, <1>7, FoldExists
  <1>11. Joined(f)
    <2>1. ASSUME NEW s \in SUBSET D, s # {}
          PROVE  f[s] = f[s \ {Max(s)}] \o own(Max(s))
      <3>1. f[s] = h[<<c[s], f[s \ {c[s]}]>>] /\ c[s] = Max(s)
        BY <1>8, <1>10, <2>1 DEF FoldsBy
      <3>2. Max(s) \in D /\ f[s \ {Max(s)}] \in V
        BY <1>3, <2>1
      <3> QED
        BY <1>9, <3>1, <3>2
    <2> QED
      BY <1>10, <2>1 DEF FoldsBy
  <1>12. Joined(joined)
    <2> HIDE DEF Joined
    <2> QED
      BY <1>11
  <1> HIDE DEF joined
  <1>13. joined[{}] = empty /\ \A s \in SUBSET D : s # {} => joined[s] = joined[s \ {Max(s)}] \o own(Max(s))
    BY <1>12
  <1> DEFINE Good == {s \in SUBSET D : joined[s] \in V}
  <1>14. ASSUME NEW s \in SUBSET D, \A x \in s : s \ {x} \in Good
         PROVE  joined[s] \in V
    <2>1. CASE s = {}
      BY <1>7, <1>13, <2>1
    <2>2. CASE s # {}
      <3>1. Max(s) \in s /\ s \ {Max(s)} \in Good
        BY <1>3, <1>14, <2>2
      <3>2. joined[s] = joined[s \ {Max(s)}] \o own(Max(s))
        BY <1>13, <2>2
      <3>3. joined[s \ {Max(s)}] \in Seq(R) /\ own(Max(s)) \in Seq(R)
        BY <1>2, <3>1 DEF V
      <3> DEFINE a == joined[s \ {Max(s)}]
                 b == own(Max(s))
      <3> HIDE DEF a, b
      <3>4. a \o b \in Seq(R)
        BY <3>3 DEF a, b
      <3> QED
        BY <3>2, <3>4 DEF V, a, b
    <2> QED
      BY <2>1, <2>2
  <1>15. \A s \in SUBSET D : (\A x \in s : s \ {x} \in Good) => s \in Good
    BY <1>14
  <1>16. \A s \in SUBSET D : s \in Good
    <2> HIDE DEF Good
    <2> QED
      BY <1>1, <1>15, SubsetInduction
  <1> QED
    BY <1>4, <1>16 DEF V

\* The usage read from any feed that did not fail has energies.
LEMMA FetchedIsMetered ==
  ASSUME ComplianceAssumption, NEW feed \in Feeds, FetchUsage(feed) # Failed
  PROVE  IsMetered(FetchUsage(feed))
  <1>1. feed.adapter \in {"csv", "mock", "aws", "gcp", "azure"} /\ IsFeed(feed)
    BY DEF ComplianceAssumption
  <1>2. ASSUME NEW rows, IsRows(rows)
        PROVE  /\ rows \in Seq({r \in Range(rows) : r.quantity \in Int})
               /\ Len(rows) \in Nat /\ DOMAIN rows = 1 .. Len(rows)
               /\ \A i \in DOMAIN rows : rows[i].quantity \in Int
    BY <1>2 DEF IsRows, Range
  <1>3. CASE feed.adapter \in {"csv", "mock"}
    <2> DEFINE rows == feed.data
               fetched == ManualCSV(rows)
    <2>1. IsRows(rows) /\ FetchUsage(feed) = fetched /\ fetched # Failed
      BY <1>1, <1>3 DEF IsFeed, FetchUsage, MockUsage
    <2> HIDE DEF rows
    <2>2. fetched = [i \in DOMAIN rows |-> LET r == rows[i] IN
             UsageRecord(r.provider, r.region, r.service, r.quantity, r.unit, r.family, r.from, r.to)]
      BY <2>1 DEF ManualCSV
    <2> HIDE DEF fetched
    <2>3. \A i \in 1 .. Len(rows) : fetched[i].energy \in Int
      <3> TAKE i \in 1 .. Len(rows)
      <3>1. rows[i].quantity \in Int /\ i \in DOMAIN rows
        BY <1>2, <2>1
      <3>2. fetched[i] = UsageRecord(rows[i].provider, rows[i].region, rows[i].service, rows[i].quantity,
                                     rows[i].unit, rows[i].family, rows[i].from, rows[i].to)
        BY <2>2, <3>1
      <3> QED
        BY <3>1, <3>2, RecordIsMetered
    <2>4. fetched = [i \in 1 .. Len(rows) |-> fetched[i]] /\ Len(rows) \in Nat
      BY <1>2, <2>1, <2>2
    <2> QED
      BY <2>1, <2>3, <2>4, MeteredMade
  <1>4. CASE feed.adapter = "gcp"
    <2> DEFINE R == {r \in Range(feed.data) : r.quantity \in Int}
               rows == Used(feed.data)
               fetched == GCPBilling(feed.data)
    <2>1. FetchUsage(feed) = fetched /\ fetched # Failed
      BY <1>4 DEF FetchUsage
    <2>2. feed.data # Failed /\ IsRows(feed.data)
      BY <1>1, <1>4, <2>1 DEF IsFeed, GCPBilling
    <2>3. rows \in Seq(R)
      BY <1>2, <2>2, UsedAreRows
    <2>4. fetched = [i \in DOMAIN rows |-> LET r == rows[i] IN
             UsageRecord("gcp", r.region, r.service, r.quantity, GCPUnit(r.unit), "default", r.from, r.to)]
      BY <2>2 DEF GCPBilling
    <2> HIDE DEF fetched, rows
    <2>5. /\ Len(rows) \in Nat /\ DOMAIN rows = 1 .. Len(rows)
          /\ \A i \in 1 .. Len(rows) : rows[i].quantity \in Int
      BY <2>3
    <2>6. \A i \in 1 .. Len(rows) : fetched[i].energy \in Int
      BY <2>4, <2>5, RecordIsMetered
    <2>7. fetched = [i \in 1 .. Len(rows) |-> fetched[i]]
      BY <2>4, <2>5
    <2> QED
      BY <2>1, <2>5, <2>6, <2>7, MeteredMade
  <1>5. CASE feed.adapter = "azure"
    <2> DEFINE R == {r \in Range(feed.data) : r.quantity \in Int}
               rows == Used(feed.data)
               fetched == AzureCostManagement(feed.data)
    <2>1. FetchUsage(feed) = fetched /\ fetched # Failed
      BY <1>5 DEF FetchUsage
    <2>2. feed.data # Failed /\ IsRows(feed.data)
      BY <1>1, <1>5, <2>1 DEF IsFeed, AzureCostManagement
    <2>3. rows \in Seq(R)
      BY <1>2, <2>2, UsedAreRows
    <2>4. fetched = [i \in DOMAIN rows |-> LET r == rows[i] IN
             UsageRecord("azure", r.region, r.service, r.quantity, "vcpu_hours", "default", r.from, r.to)]
      BY <2>2 DEF AzureCostManagement
    <2> HIDE DEF fetched, rows
    <2>5. /\ Len(rows) \in Nat /\ DOMAIN rows = 1 .. Len(rows)
          /\ \A i \in 1 .. Len(rows) : rows[i].quantity \in Int
      BY <2>3
    <2>6. \A i \in 1 .. Len(rows) : fetched[i].energy \in Int
      BY <2>4, <2>5, RecordIsMetered
    <2>7. fetched = [i \in 1 .. Len(rows) |-> fetched[i]]
      BY <2>4, <2>5
    <2> QED
      BY <2>1, <2>5, <2>6, <2>7, MeteredMade
  <1>6. CASE feed.adapter = "aws"
    <2> DEFINE pages == feed.data
               R == {r \in UNION {Range(pages[i]) : i \in DOMAIN pages} : r.quantity \in Int}
               rows == FoldLeft(LAMBDA read, page: read \o Used(page), <<>>, pages)
               fetched == AWSCostExplorer(pages)
    <2>1. FetchUsage(feed) = fetched /\ fetched # Failed
      BY <1>6 DEF FetchUsage
    <2>2. /\ pages \in Seq(Range(pages))
          /\ \A page \in Range(pages) : page = Failed \/ IsRows(page)
      BY <1>1, <1>6 DEF IsFeed
    <2> HIDE DEF pages
    <2>3. ~(\E i \in DOMAIN pages : pages[i] = Failed)
      BY <2>1 DEF AWSCostExplorer
    <2>4. \A i \in DOMAIN pages : IsRows(pages[i])
      BY <2>2, <2>3 DEF Range
    <2>5. \A i \in DOMAIN pages : pages[i] \in Seq(R)
      <3> TAKE i \in DOMAIN pages
      <3>1. pages[i] \in Seq({r \in Range(pages[i]) : r.quantity \in Int})
        BY <1>2, <2>4
      <3>2. {r \in Range(pages[i]) : r.quantity \in Int} \subseteq R
        OBVIOUS
      <3> HIDE DEF R
      <3> QED
        BY <3>1, <3>2
    <2>6. rows \in Seq(R)
      <3> HIDE DEF R
      <3> QED
        BY <2>2, <2>5, PagesJoined
    <2>7. fetched = [i \in DOMAIN rows |-> AWSRecord(rows[i])]
      BY <2>3 DEF AWSCostExplorer
    <2> HIDE DEF fetched, rows
    <2>8. /\ Len(rows) \in Nat /\ DOMAIN rows = 1 .. Len(rows)
          /\ \A i \in 1 .. Len(rows) : rows[i].quantity \in Int
      BY <2>6
    <2>9. \A i \in 1 .. Len(rows) : fetched[i].energy \in Int
      BY <2>7, <2>8, RecordIsMetered DEF AWSRecord
    <2>10. fetched = [i \in 1 .. Len(rows) |-> fetched[i]]
      BY <2>7, <2>8
    <2> QED
      BY <2>1, <2>8, <2>9, <2>10, MeteredMade
  <1> QED
    BY <1>1, <1>3, <1>4, <1>5, <1>6

\* The stores hold, for every organisation, lists whose entries have energies,
\* and a request under way is one of an organisation.
Metered ==
  /\ usage = [o \in Orgs |-> usage[o]]
  /\ calculations = [o \in Orgs |-> calculations[o]]
  /\ call = [c \in Callers |-> call[c]]
  /\ \A o \in Orgs : IsMetered(usage[o]) /\ IsMetered(calculations[o])
  /\ \A c \in Callers : call[c] = Idle \/ call[c].org \in Orgs

\* What a calculation makes of metered usage is metered, and has of every
\* region all of the energy or none.
LEMMA CalculatedAreMetered ==
  ASSUME NEW records, IsMetered(records), NEW zones, NEW answered, NEW method
  PROVE  /\ IsMetered(Emissions(records, zones, answered, method))
         /\ \A k : EnergyOf(UsageOf(Emissions(records, zones, answered, method), k))
                     \in {0, EnergyOf(UsageOf(records, k))}
  <1> DEFINE new == Emissions(records, zones, answered, method)
  <1>1. Len(records) \in Nat /\ DOMAIN records = 1 .. Len(records)
    BY DEF IsMetered
  <1>2. \A i \in 1 .. Len(records) : records[i].energy \in Int
    BY <1>1 DEF IsMetered
  <1>3. \A k : /\ \E m \in Nat : DOMAIN new = 1 .. m /\ new = [j \in 1 .. m |-> new[j]]
               /\ \A j \in DOMAIN new : new[j].energy \in Int
               /\ EnergyOf(UsageOf(new, k)) \in {0, EnergyOf(UsageOf(records, k))}
    BY <1>1, <1>2, EmissionsOfWholeRegions
  <1> HIDE DEF new
  <1>4. IsMetered(new)
    BY <1>3, MeteredMade
  <1> QED
    BY <1>3, <1>4 DEF new

\* Nothing is stored at first.
LEMMA MeteredInit == ASSUME ComplianceInit PROVE Metered
  <1>1. IsMetered(<<>>)
    BY DEF IsMetered, Range
  <1> QED
    BY <1>1 DEF ComplianceInit, Metered

\* Each step keeps the records metered.
LEMMA MeteredNext ==
  ASSUME ComplianceAssumption, Metered, [ComplianceNext]_complianceVars
  PROVE  Metered'
  <1>1. CASE UNCHANGED complianceVars
    BY <1>1 DEF Metered, complianceVars
  <1>2. ASSUME NEW o \in Orgs, NEW feed \in Feeds, Ingest(o, feed) PROVE Metered'
    <2> DEFINE records == FetchUsage(feed)
    <2>1. IsMetered(records)
      BY <1>2, FetchedIsMetered DEF Ingest
    <2> HIDE DEF records
    <2>2. usage' = [usage EXCEPT ![o] = usage[o] \o records] /\ UNCHANGED <<calculations, reports, call>>
      BY <1>2 DEF Ingest, records
    <2>3. IsMetered(usage[o] \o records)
      BY <2>1, MeteredJoined DEF Metered
    <2>4. \A p \in Orgs : usage'[p] = IF p = o THEN usage[o] \o records ELSE usage[p]
      BY <2>2 DEF Metered
    <2>5. \A p \in Orgs : IsMetered(usage'[p])
      BY <2>3, <2>4 DEF Metered
    <2>6. usage' = [p \in Orgs |-> usage'[p]]
      BY <2>2 DEF Metered
    <2> QED
      BY <2>2, <2>5, <2>6 DEF Metered
  <1>3. ASSUME NEW c \in Callers, NEW o \in Orgs, NEW m \in Methods, CalculateBegins(c, o, m) PROVE Metered'
    <2>1. call' = [call EXCEPT ![c] = [org |-> o, method |-> m, zones |-> RegionToZone(usage[o])]]
          /\ UNCHANGED <<usage, calculations, reports>>
      BY <1>3 DEF CalculateBegins
    <2>2. call' = [d \in Callers |-> call'[d]]
      BY <2>1 DEF Metered
    <2>3. \A d \in Callers : call'[d] = Idle \/ call'[d].org \in Orgs
      BY <2>1 DEF Metered
    <2> QED
      BY <2>1, <2>2, <2>3 DEF Metered
  <1>4. ASSUME NEW c \in Callers, NEW answered \in Answers(c), CalculateReturns(c, answered) PROVE Metered'
    <2> DEFINE o == call[c].org
               new == Emissions(usage[o], call[c].zones, answered, call[c].method)
    <2>1. o \in Orgs /\ call[c] # Idle
      BY <1>4 DEF CalculateReturns, Metered
    <2>2. IsMetered(new)
      BY <2>1, CalculatedAreMetered DEF Metered
    <2>3. /\ calculations' = [calculations EXCEPT ![o] = calculations[o] \o new]
          /\ call' = [call EXCEPT ![c] = Idle]
          /\ UNCHANGED <<usage, reports>>
      BY <1>4 DEF CalculateReturns
    <2> HIDE DEF new, o
    <2>4. IsMetered(calculations[o] \o new)
      BY <2>1, <2>2, MeteredJoined DEF Metered
    <2>5. calculations' = [p \in Orgs |-> calculations'[p]]
      BY <2>3 DEF Metered
    <2>6. \A p \in Orgs : IsMetered(calculations'[p])
      BY <2>3, <2>4 DEF Metered
    <2>7. call' = [d \in Callers |-> call'[d]] /\ \A d \in Callers : call'[d] = Idle \/ call'[d].org \in Orgs
      BY <2>3 DEF Metered
    <2> QED
      BY <2>3, <2>5, <2>6, <2>7 DEF Metered
  <1>5. ASSUME NEW c \in Callers, CalculateRaises(c) PROVE Metered'
    BY <1>5 DEF CalculateRaises, Metered
  <1>6. ASSUME NEW o \in Orgs, NEW p \in Periods, GenerateReport(o, p) PROVE Metered'
    BY <1>6 DEF GenerateReport, Metered
  <1> QED
    BY <1>1, <1>2, <1>3, <1>4, <1>5, <1>6 DEF ComplianceNext

\* Only /calculate appends, and what it appends has regions that are whole.
LEMMA RegionsStayWhole ==
  ASSUME Metered, [ComplianceNext]_complianceVars, NEW o \in Orgs, calculations'[o] # calculations[o]
  PROVE  RegionsWhole(o)
  <1>1. PICK c \in Callers : \E answered \in Answers(c) : CalculateReturns(c, answered)
    BY DEF ComplianceNext, complianceVars, Ingest, CalculateBegins, CalculateRaises, GenerateReport
  <1>2. PICK answered \in Answers(c) : CalculateReturns(c, answered)
    BY <1>1
  <1> DEFINE new == Emissions(usage[call[c].org], call[c].zones, answered, call[c].method)
  <1>3. /\ calculations' = [calculations EXCEPT ![call[c].org] = calculations[call[c].org] \o new]
        /\ call[c].org \in Orgs
    BY <1>2 DEF CalculateReturns, Metered
  <1>4. o = call[c].org
    BY <1>3 DEF Metered
  <1>5. /\ IsMetered(new)
        /\ \A k : EnergyOf(UsageOf(new, k)) \in {0, EnergyOf(UsageOf(usage[o], k))}
    BY <1>4, CalculatedAreMetered DEF Metered
  <1> HIDE DEF new
  <1>6. calculations'[o] = calculations[o] \o new
    BY <1>3, <1>4 DEF Metered
  <1>7. Appended(o) = new
    <2> DEFINE s == calculations[o]
               R == Range(s) \cup Range(new)
    <2>1. s \in Seq(R) /\ new \in Seq(R)
      BY <1>5 DEF Metered, IsMetered
    <2> HIDE DEF s, R
    <2>2. SubSeq(s \o new, Len(s) + 1, Len(s \o new)) = new
      BY <2>1
    <2> QED
      BY <1>6, <2>2 DEF Appended, s
  <1> QED
    BY <1>5, <1>7 DEF RegionsWhole

(***************************************************************************)
(* /calculate goes on, after its await, with the list of usage it was      *)
(* given, which other requests may have grown meanwhile: what it appends   *)
(* has, of every region, all of the energy that is stored by then or none. *)
(***************************************************************************)
THEOREM RegionsAreWhole == ComplianceSpec => RegionWholeOrAbsent
  <1>1. ComplianceInit => Metered
    BY MeteredInit
  <1>2. Metered /\ [ComplianceNext]_complianceVars => Metered'
    BY ComplianceAssumption, MeteredNext
  <1>3. Metered /\ [ComplianceNext]_complianceVars
          => [\A o \in Orgs : calculations'[o] # calculations[o] => RegionsWhole(o)]_complianceVars
    BY RegionsStayWhole
  <1> QED
    BY <1>1, <1>2, <1>3, PTL DEF ComplianceSpec, RegionWholeOrAbsent

\* A set that b takes one to one onto another is as large.
LEMMA AsLarge ==
  ASSUME NEW X, IsFiniteSet(X), NEW Y, NEW b \in [X -> Y],
         \A x, y \in X : b[x] = b[y] => x = y, \A y \in Y : \E x \in X : b[x] = y
  PROVE  IsFiniteSet(Y) /\ Cardinality(Y) = Cardinality(X)
  <1>1. b \in Surjection(X, Y) /\ b \in Injection(X, Y)
    BY DEF Surjection, Injection, IsInjective
  <1> QED
    BY <1>1, FS_Surjection

(* K has the elements of I whose ranks are in J. *)
HasRanksIn(K, I, J) == K \in SUBSET I /\ \A i \in I : i \in K <=> RankIn(I, i) \in J

\* Of K, which has the elements of I whose ranks are in J, an element has the
\* rank its rank has in J.
LEMMA RankOfRank ==
  ASSUME NEW n \in Nat, NEW I \in SUBSET (1 .. n), NEW J \in SUBSET (1 .. Cardinality(I)),
         NEW K, HasRanksIn(K, I, J)
  PROVE  /\ Cardinality(K) = Cardinality(J)
         /\ \A k \in 1 .. Cardinality(J) : NthOf(K, k) = NthOf(I, NthOf(J, k))
  <1> DEFINE rank(i) == RankIn(I, i)
  <1>1. /\ Cardinality(I) \in Nat
        /\ \A k \in 1 .. Cardinality(I) : NthOf(I, k) \in I /\ rank(NthOf(I, k)) = k
        /\ \A i \in I : rank(i) \in 1 .. Cardinality(I) /\ NthOf(I, rank(i)) = i
        /\ \A i, j \in I : i < j => rank(i) < rank(j)
    BY CountedOff
  <1>2. K \in SUBSET I /\ K \in SUBSET (1 .. n)
    BY DEF HasRanksIn
  <1>2a. \A i \in I : i \in Int
    OBVIOUS
  <1>3. IsFiniteSet(K)
    <2>1. IsFiniteSet(1 .. n)
      BY FS_Interval
    <2> QED
      BY <1>2, <2>1, FS_Subset
  <1>4. \A i, j \in I : rank(i) = rank(j) => i = j
    BY <1>1
  <1>5. \A i, j \in I : rank(i) <= rank(j) <=> i <= j
    <2> TAKE i, j \in I
    <2>1. rank(i) \in Int /\ rank(j) \in Int /\ i \in Int /\ j \in Int
      BY <1>1, <1>2a
    <2>2. (i < j => rank(i) < rank(j)) /\ (j < i => rank(j) < rank(i)) /\ (i = j => rank(i) = rank(j))
      BY <1>1
    <2> HIDE DEF rank
    <2> QED
      BY <2>1, <2>2
  <1>6. \A j \in J : j \in 1 .. Cardinality(I) /\ NthOf(I, j) \in K /\ rank(NthOf(I, j)) = j
    BY <1>1 DEF HasRanksIn
  <1>7. \A i \in K : rank(i) \in J
    BY DEF HasRanksIn
  <1> HIDE DEF rank
  <1>8. ASSUME NEW X \in SUBSET K, NEW Y \in SUBSET J, \A i \in K : i \in X <=> rank(i) \in Y
        PROVE  Cardinality(Y) = Cardinality(X)
    <2> DEFINE b == [x \in X |-> rank(x)]
    <2>1. b \in [X -> Y]
      BY <1>8
    <2>2. \A x, y \in X : b[x] = b[y] => x = y
      BY <1>2, <1>4
    <2>3. \A y \in Y : \E x \in X : b[x] = y
      BY <1>6, <1>8
    <2>4. IsFiniteSet(X)
      BY <1>3, FS_Subset
    <2> HIDE DEF b
    <2> QED
      BY <2>1, <2>2, <2>3, <2>4, AsLarge
  <1>9. Cardinality(K) = Cardinality(J)
    BY <1>7, <1>8
  <1>10. ASSUME NEW k \in 1 .. Cardinality(J) PROVE NthOf(K, k) = NthOf(I, NthOf(J, k))
    <2> DEFINE j == NthOf(J, k)
               i == NthOf(I, j)
               X == {x \in K : x <= i}
               Y == {y \in J : y <= j}
    <2>1. j \in J /\ RankIn(J, j) = k
      <3>1. J \in SUBSET (1 .. Cardinality(I))
        OBVIOUS
      <3> QED
        BY <1>1, <3>1, CountedOff
    <2>2. i \in K /\ rank(i) = j
      BY <1>6, <2>1
    <2> HIDE DEF j, i
    <2>3. \A x \in K : x \in X <=> rank(x) \in Y
      BY <1>2, <1>5, <1>7, <2>2
    <2>4. Cardinality(Y) = Cardinality(X)
      <3>1. X \in SUBSET K /\ Y \in SUBSET J
        OBVIOUS
      <3> HIDE DEF X, Y
      <3> QED
        BY <1>8, <2>3, <3>1
    <2>5. RankIn(K, i) = k
      BY <2>1, <2>4 DEF RankIn
    <2>6. NthOf(K, RankIn(K, i)) = i
      BY <1>2, <2>2, CountedOff
    <2> QED
      BY <2>5, <2>6 DEF i, j
  <1> QED
    BY <1>9, <1>10

\* What is picked of what is picked is picked at once.
LEMMA PickedTwice ==
  ASSUME NEW n \in Nat, NEW s, DOMAIN s = 1 .. n, NEW I \in SUBSET (1 .. n),
         NEW J \in SUBSET DOMAIN Picked(s, I), NEW K, HasRanksIn(K, I, J)
  PROVE  Picked(Picked(s, I), J) = Picked(s, K)
  <1> DEFINE p == Picked(s, I)
             m == Cardinality(I)
  <1>1. DOMAIN p = 1 .. m /\ \A k \in 1 .. m : p[k] = s[NthOf(I, k)]
    <2>1. DOMAIN p = 1 .. m /\ \A k \in DOMAIN p : p[k] = s[NthOf(I, k)]
      BY PickedAre
    <2> QED
      BY <2>1
  <1>2. J \in SUBSET (1 .. m)
    BY <1>1
  <1>3. /\ Cardinality(K) = Cardinality(J)
        /\ \A k \in 1 .. Cardinality(J) : NthOf(K, k) = NthOf(I, NthOf(J, k))
    BY <1>2, RankOfRank
  <1>4. m \in Nat
    BY CountedOff
  <1> HIDE DEF m, p
  <1>5. \A k \in 1 .. Cardinality(J) : NthOf(J, k) \in 1 .. m
    BY <1>2, <1>4, CountedOff
  <1>6. Picked(p, J) = [k \in 1 .. Cardinality(J) |-> p[NthOf(J, k)]]
    BY DEF Picked, NthOf, RankIn
  <1>7. Picked(s, K) = [k \in 1 .. Cardinality(K) |-> s[NthOf(K, k)]]
    BY DEF Picked, NthOf, RankIn
  <1>8. \A k \in 1 .. Cardinality(J) : p[NthOf(J, k)] = s[NthOf(K, k)]
    BY <1>1, <1>3, <1>5
  <1> QED
    BY <1>3, <1>6, <1>7, <1>8 DEF p

\* What is picked is found at its rank.
LEMMA PickedAt ==
  ASSUME NEW n \in Nat, NEW s, DOMAIN s = 1 .. n, NEW I \in SUBSET (1 .. n)
  PROVE  /\ DOMAIN Picked(s, I) = 1 .. Cardinality(I) /\ Len(Picked(s, I)) = Cardinality(I)
         /\ Cardinality(I) \in Nat
         /\ \A i \in I : RankIn(I, i) \in DOMAIN Picked(s, I) /\ Picked(s, I)[RankIn(I, i)] = s[i]
         /\ \A k \in DOMAIN Picked(s, I) : NthOf(I, k) \in I /\ Picked(s, I)[k] = s[NthOf(I, k)]
  <1> DEFINE p == Picked(s, I)
  <1>1. DOMAIN p = 1 .. Cardinality(I) /\ \A k \in DOMAIN p : p[k] = s[NthOf(I, k)]
    BY PickedAre
  <1>2. p = [k \in 1 .. Cardinality(I) |-> p[k]]
    BY DEF Picked
  <1>3. /\ Cardinality(I) \in Nat
        /\ \A k \in 1 .. Cardinality(I) : NthOf(I, k) \in I
        /\ \A i \in I : RankIn(I, i) \in 1 .. Cardinality(I) /\ NthOf(I, RankIn(I, i)) = i
    BY CountedOff
  <1> HIDE DEF p
  <1>4. Len(p) = Cardinality(I)
    BY <1>2, <1>3
  <1> QED
    BY <1>1, <1>3, <1>4 DEF p

----------------------------------------------------------------------------
(* The impact ledger, by the indices of its entries.                       *)

(* A ledger of n entries. *)
IsEntries(e, n) ==
  /\ n \in Nat /\ DOMAIN e = 1 .. n
  /\ \A i \in 1 .. n : /\ e[i].reduction \in Int
                       /\ e[i].energy \in Int
                       /\ e[i].predicted \in Int

RecentIn(e, I, now, days) == {i \in I : Within(e[i], now, days)}
ShiftedIn(e, I) == {i \in I : e[i].deferred > 0}
VerifiedIn(e, I) == {i \in I : e[i].basis = "measured"}
WithEnergyIn(e, I) == {i \in I : e[i].energy > 0}
OfRegionIn(e, I, r) == {i \in I : e[i].region = r}
PredictedIn(e, I) == {i \in I : e[i].predicted # Absent}

\* Filters of what is picked pick.
LEMMA FiltersPick ==
  ASSUME NEW n, NEW e, IsEntries(e, n), NEW I \in SUBSET (1 .. n), NEW now, NEW days, NEW r
  PROVE  /\ Recent(Picked(e, I), now, days) = Picked(e, RecentIn(e, I, now, days))
         /\ Shifted(Picked(e, I)) = Picked(e, ShiftedIn(e, I))
         /\ Verified(Picked(e, I)) = Picked(e, VerifiedIn(e, I))
         /\ WithEnergy(Picked(e, I)) = Picked(e, WithEnergyIn(e, I))
         /\ OfRegion(Picked(e, I), r) = Picked(e, OfRegionIn(e, I, r))
         /\ Predicted(Picked(e, I)) = Picked(e, PredictedIn(e, I))
  <1> DEFINE p == Picked(e, I)
  <1>1. n \in Nat /\ DOMAIN e = 1 .. n
    BY DEF IsEntries
  <1>2. \A i \in I : RankIn(I, i) \in DOMAIN p /\ p[RankIn(I, i)] = e[i]
    BY <1>1, PickedAt
  <1>3. ASSUME NEW J \in SUBSET DOMAIN p, NEW K, HasRanksIn(K, I, J)
        PROVE  Picked(p, J) = Picked(e, K)
    BY <1>1, <1>3, PickedTwice
  <1> HIDE DEF p
  <1>4. Recent(p, now, days) = Picked(e, RecentIn(e, I, now, days))
    <2> DEFINE J == {j \in DOMAIN p : Within(p[j], now, days)}
               K == RecentIn(e, I, now, days)
    <2>1. J \in SUBSET DOMAIN p /\ HasRanksIn(K, I, J)
      BY <1>2 DEF RecentIn, HasRanksIn
    <2> HIDE DEF J, K
    <2>2. Picked(p, J) = Picked(e, K)
      BY <1>3, <2>1
    <2> QED
      BY <2>2 DEF Recent, J, K
  <1>5. Shifted(p) = Picked(e, ShiftedIn(e, I))
    <2> DEFINE J == {j \in DOMAIN p : p[j].deferred > 0}
               K == ShiftedIn(e, I)
    <2>1. J \in SUBSET DOMAIN p /\ HasRanksIn(K, I, J)
      BY <1>2 DEF ShiftedIn, HasRanksIn
    <2> HIDE DEF J, K
    <2>2. Picked(p, J) = Picked(e, K)
      BY <1>3, <2>1
    <2> QED
      BY <2>2 DEF Shifted, J, K
  <1>6. Verified(p) = Picked(e, VerifiedIn(e, I))
    <2> DEFINE J == {j \in DOMAIN p : p[j].basis = "measured"}
               K == VerifiedIn(e, I)
    <2>1. J \in SUBSET DOMAIN p /\ HasRanksIn(K, I, J)
      BY <1>2 DEF VerifiedIn, HasRanksIn
    <2> HIDE DEF J, K
    <2>2. Picked(p, J) = Picked(e, K)
      BY <1>3, <2>1
    <2> QED
      BY <2>2 DEF Verified, J, K
  <1>7. WithEnergy(p) = Picked(e, WithEnergyIn(e, I))
    <2> DEFINE J == {j \in DOMAIN p : p[j].energy > 0}
               K == WithEnergyIn(e, I)
    <2>1. J \in SUBSET DOMAIN p /\ HasRanksIn(K, I, J)
      BY <1>2 DEF WithEnergyIn, HasRanksIn
    <2> HIDE DEF J, K
    <2>2. Picked(p, J) = Picked(e, K)
      BY <1>3, <2>1
    <2> QED
      BY <2>2 DEF WithEnergy, J, K
  <1>8. OfRegion(p, r) = Picked(e, OfRegionIn(e, I, r))
    <2> DEFINE J == {j \in DOMAIN p : p[j].region = r}
               K == OfRegionIn(e, I, r)
    <2>1. J \in SUBSET DOMAIN p /\ HasRanksIn(K, I, J)
      BY <1>2 DEF OfRegionIn, HasRanksIn
    <2> HIDE DEF J, K
    <2>2. Picked(p, J) = Picked(e, K)
      BY <1>3, <2>1
    <2> QED
      BY <2>2 DEF OfRegion, J, K
  <1>9. Predicted(p) = Picked(e, PredictedIn(e, I))
    <2> DEFINE J == {j \in DOMAIN p : p[j].predicted # Absent}
               K == PredictedIn(e, I)
    <2>1. J \in SUBSET DOMAIN p /\ HasRanksIn(K, I, J)
      BY <1>2 DEF PredictedIn, HasRanksIn
    <2> HIDE DEF J, K
    <2>2. Picked(p, J) = Picked(e, K)
      BY <1>3, <2>1
    <2> QED
      BY <2>2 DEF Predicted, J, K
  <1> QED
    BY <1>4, <1>5, <1>6, <1>7, <1>8, <1>9 DEF p

(* What the entries weigh, and the rounded mean of a weight. *)
ReductionBy(e) == [i \in DOMAIN e |-> e[i].reduction]
PredictedBy(e) == [i \in DOMAIN e |-> e[i].predicted]
AvoidedBy(e) == [i \in DOMAIN e |-> e[i].reduction * e[i].energy]
MeanOn(I, w) == IF Cardinality(I) = 0 THEN 0 ELSE RoundDiv(SumOn(I, w), Cardinality(I))

\* A figure of what is picked, index by index, adds up to the sum over the
\* indices, and has their mean.
LEMMA FigureOfPicked ==
  ASSUME NEW n \in Nat, NEW I \in SUBSET (1 .. n), NEW w, IntsOn(1 .. n, w),
         NEW p, p = [k \in 1 .. Cardinality(I) |-> w[NthOf(I, k)]]
  PROVE  /\ SumOf(p) = SumOn(I, w) /\ SumOf(p) \in Int
         /\ Len(p) = Cardinality(I) /\ Cardinality(I) \in Nat
         /\ MeanOrZero(p) = MeanOn(I, w)
  <1>1. Cardinality(I) \in Nat
    BY CountedOff
  <1>2. Len(p) = Cardinality(I) /\ DOMAIN p = 1 .. Cardinality(I) /\ \A k \in DOMAIN p : p[k] = w[NthOf(I, k)]
    BY <1>1
  <1>3. p = <<>> <=> Cardinality(I) = 0
    BY <1>1, <1>2
  <1>4. IntsOn(I, w)
    BY DEF IntsOn
  <1>5. SumOf(p) = SumOn(I, w) /\ SumOf(p) \in Int
    BY <1>2, <1>4, SumOfPicked
  <1> QED
    BY <1>1, <1>2, <1>3, <1>5 DEF MeanOrZero, Mean, MeanOn

\* The figures of the entries picked.
LEMMA FiguresOfPicked ==
  ASSUME NEW n, NEW e, IsEntries(e, n), NEW I \in SUBSET (1 .. n)
  PROVE  /\ Len(Picked(e, I)) = Cardinality(I) /\ Cardinality(I) \in Nat
         /\ Avoided(Picked(e, I)) = SumOn(I, AvoidedBy(e))
         /\ SumOf(Reductions(Picked(e, I))) = SumOn(I, ReductionBy(e))
         /\ SumOf(Predictions(Picked(e, I))) = SumOn(I, PredictedBy(e))
         /\ MeanOrZero(Reductions(Picked(e, I))) = MeanOn(I, ReductionBy(e))
         /\ MeanOrZero(Predictions(Picked(e, I))) = MeanOn(I, PredictedBy(e))
  <1> DEFINE p == Picked(e, I)
  <1>1. n \in Nat /\ DOMAIN e = 1 .. n
    BY DEF IsEntries
  <1>2. /\ DOMAIN p = 1 .. Cardinality(I) /\ Len(p) = Cardinality(I) /\ Cardinality(I) \in Nat
        /\ \A k \in DOMAIN p : NthOf(I, k) \in I /\ p[k] = e[NthOf(I, k)]
    <2>1. DOMAIN p = 1 .. Cardinality(I) /\ Len(p) = Cardinality(I) /\ Cardinality(I) \in Nat
      BY <1>1, PickedAt
    <2>2. \A k \in DOMAIN p : NthOf(I, k) \in I /\ p[k] = e[NthOf(I, k)]
      BY <1>1, PickedAt
    <2> QED
      BY <2>1, <2>2
  <1>3. IntsOn(1 .. n, ReductionBy(e)) /\ IntsOn(1 .. n, PredictedBy(e))
    BY <1>1 DEF IsEntries, IntsOn, ReductionBy, PredictedBy
  <1>4. IntsOn(1 .. n, AvoidedBy(e))
    <2>1. \A i \in 1 .. n : e[i].reduction \in Int /\ e[i].energy \in Int
      BY <1>1 DEF IsEntries
    <2>2. \A x, y \in Int : x * y \in Int
      OBVIOUS
    <2> QED
      BY <1>1, <2>1, <2>2 DEF IntsOn, AvoidedBy
  <1> HIDE DEF p
  <1>5. Reductions(p) = [k \in 1 .. Cardinality(I) |-> ReductionBy(e)[NthOf(I, k)]]
    BY <1>1, <1>2 DEF Reductions, ReductionBy
  <1>6. Predictions(p) = [k \in 1 .. Cardinality(I) |-> PredictedBy(e)[NthOf(I, k)]]
    BY <1>1, <1>2 DEF Predictions, PredictedBy
  <1> DEFINE a == [i \in DOMAIN p |-> p[i].reduction * p[i].energy]
  <1>7. a = [k \in 1 .. Cardinality(I) |-> AvoidedBy(e)[NthOf(I, k)]]
    BY <1>1, <1>2 DEF AvoidedBy
  <1>8. Avoided(p) = SumOf(a)
    BY DEF Avoided
  <1> HIDE DEF a
  <1>9. SumOf(a) = SumOn(I, AvoidedBy(e))
    BY <1>1, <1>4, <1>7, FigureOfPicked
  <1>10. /\ SumOf(Reductions(p)) = SumOn(I, ReductionBy(e))
         /\ MeanOrZero(Reductions(p)) = MeanOn(I, ReductionBy(e))
    BY <1>1, <1>3, <1>5, FigureOfPicked
  <1>11. /\ SumOf(Predictions(p)) = SumOn(I, PredictedBy(e))
         /\ MeanOrZero(Predictions(p)) = MeanOn(I, PredictedBy(e))
    BY <1>1, <1>3, <1>6, FigureOfPicked
  <1> QED
    BY <1>2, <1>8, <1>9, <1>10, <1>11 DEF p

\* The summary, by the indices.
SummaryOn(e, R) ==
  LET S == ShiftedIn(e, R)
      E == WithEnergyIn(e, S)
  IN  [jobs |-> Cardinality(R), shifted |-> Cardinality(S),
       measured |-> Cardinality(VerifiedIn(e, S)), withEnergy |-> Cardinality(E),
       meanReduction |-> MeanOn(S, ReductionBy(e)),
       grams |-> SumOn(E, AvoidedBy(e)), kg |-> RoundDiv(SumOn(E, AvoidedBy(e)), 100)]

\* A filter leaves some of the indices.
LEMMA FilteredAreWithin ==
  ASSUME NEW e, NEW I, NEW now, NEW days, NEW r
  PROVE  /\ RecentIn(e, I, now, days) \in SUBSET I
         /\ ShiftedIn(e, I) \in SUBSET I
         /\ VerifiedIn(e, I) \in SUBSET I
         /\ WithEnergyIn(e, I) \in SUBSET I
         /\ OfRegionIn(e, I, r) \in SUBSET I
         /\ PredictedIn(e, I) \in SUBSET I
  BY DEF RecentIn, ShiftedIn, VerifiedIn, WithEnergyIn, OfRegionIn, PredictedIn

\* A summary is that of the recent indices.
LEMMA SummaryByIndices ==
  ASSUME NEW n, NEW e, IsEntries(e, n), NEW now, NEW days
  PROVE  Summarize(e, now, days) = SummaryOn(e, RecentIn(e, 1 .. n, now, days))
  <1> DEFINE R == RecentIn(e, 1 .. n, now, days)
             S == ShiftedIn(e, R)
             V == VerifiedIn(e, S)
             E == WithEnergyIn(e, S)
  <1>1. Recent(e, now, days) = Picked(e, R)
    BY DEF Recent, RecentIn, IsEntries
  <1>2. /\ R \in SUBSET (1 .. n) /\ S \in SUBSET (1 .. n)
        /\ V \in SUBSET (1 .. n) /\ E \in SUBSET (1 .. n)
    BY FilteredAreWithin
  <1> HIDE DEF R
  <1>3. Shifted(Picked(e, R)) = Picked(e, S)
    BY <1>2, FiltersPick
  <1> HIDE DEF S
  <1>4. Verified(Picked(e, S)) = Picked(e, V) /\ WithEnergy(Picked(e, S)) = Picked(e, E)
    BY <1>2, FiltersPick
  <1> HIDE DEF V, E
  <1>5. /\ Len(Picked(e, R)) = Cardinality(R) /\ Len(Picked(e, S)) = Cardinality(S)
        /\ Len(Picked(e, V)) = Cardinality(V) /\ Len(Picked(e, E)) = Cardinality(E)
    BY <1>2, FiguresOfPicked
  <1>6. /\ MeanOrZero(Reductions(Picked(e, S))) = MeanOn(S, ReductionBy(e))
        /\ Avoided(Picked(e, E)) = SumOn(E, AvoidedBy(e))
    BY <1>2, FiguresOfPicked
  <1>7. Summarize(e, now, days) =
          [jobs |-> Cardinality(R), shifted |-> Cardinality(S), measured |-> Cardinality(V),
           withEnergy |-> Cardinality(E), meanReduction |-> MeanOn(S, ReductionBy(e)),
           grams |-> SumOn(E, AvoidedBy(e)), kg |-> RoundDiv(SumOn(E, AvoidedBy(e)), 100)]
    BY <1>1, <1>3, <1>4, <1>5, <1>6 DEF Summarize
  <1> QED
    BY <1>7 DEF SummaryOn, R, S, V, E

\* A bijection of the indices, and what it makes of sets of them.
OneToOne(b, n) ==
  /\ b \in [1 .. n -> 1 .. n]
  /\ \A x, y \in 1 .. n : b[x] = b[y] => x = y
  /\ \A y \in 1 .. n : \E x \in 1 .. n : b[x] = y
TakesTo(b, n, X, Y) ==
  /\ X \in SUBSET (1 .. n) /\ Y \in SUBSET (1 .. n)
  /\ \A k \in 1 .. n : k \in X <=> b[k] \in Y
TakesWeights(b, n, w, v) == \A k \in 1 .. n : w[k] = v[b[k]] /\ w[k] \in Int

\* Sets and weights that b takes to one another are as large and weigh as much.
LEMMA SetsTaken ==
  ASSUME NEW n \in Nat, NEW b, OneToOne(b, n), NEW X, NEW Y, TakesTo(b, n, X, Y),
         NEW w, NEW v, TakesWeights(b, n, w, v)
  PROVE  Cardinality(X) = Cardinality(Y) /\ SumOn(X, w) = SumOn(Y, v) /\ MeanOn(X, w) = MeanOn(Y, v)
  <1> DEFINE c == [k \in X |-> b[k]]
  <1>1. IsFiniteSet(X)
    <2>1. IsFiniteSet(1 .. n) /\ X \in SUBSET (1 .. n)
      BY FS_Interval DEF TakesTo
    <2> QED
      BY <2>1, FS_Subset
  <1>2. c \in [X -> Y]
    BY DEF TakesTo
  <1>3. \A x, y \in X : c[x] = c[y] => x = y
    BY DEF TakesTo, OneToOne
  <1>4. \A y \in Y : \E x \in X : c[x] = y
    <2> TAKE y \in Y
    <2>1. PICK x \in 1 .. n : b[x] = y
      BY DEF TakesTo, OneToOne
    <2> QED
      BY <2>1 DEF TakesTo
  <1>5. \A z \in X : w[z] = v[c[z]] /\ w[z] \in Int
    BY DEF TakesTo, TakesWeights
  <1> HIDE DEF c
  <1>6. Cardinality(Y) = Cardinality(X)
    BY <1>1, <1>2, <1>3, <1>4, AsLarge
  <1>7. Carries(c, X, w, Y, v)
    BY <1>2, <1>3, <1>4, <1>5 DEF Carries
  <1>8. SumOn(X, w) = SumOn(Y, v)
    BY <1>1, <1>7, SumMapped
  <1> QED
    BY <1>6, <1>8 DEF MeanOn

\* The same entries in another order have the same summary.
LEMMA SummaryOfReordered ==
  ASSUME NEW n, NEW e, IsEntries(e, n), NEW q, IsEntries(q, n), NEW b, OneToOne(b, n),
         \A k \in 1 .. n : q[k].ts = e[b[k]].ts,
         \A k \in 1 .. n : q[k].deferred = e[b[k]].deferred,
         \A k \in 1 .. n : q[k].reduction = e[b[k]].reduction,
         \A k \in 1 .. n : q[k].energy = e[b[k]].energy,
         \A k \in 1 .. n : q[k].basis = e[b[k]].basis,
         NEW now, NEW days
  PROVE  Summarize(q, now, days) = Summarize(e, now, days)
  <1> DEFINE R(s) == RecentIn(s, 1 .. n, now, days)
             S(s) == ShiftedIn(s, R(s))
             V(s) == VerifiedIn(s, S(s))
             E(s) == WithEnergyIn(s, S(s))
  <1>0. n \in Nat /\ DOMAIN e = 1 .. n /\ DOMAIN q = 1 .. n
    BY DEF IsEntries
  <1>1. \A k \in 1 .. n : b[k] \in 1 .. n
    BY DEF OneToOne
  <1>2. TakesTo(b, n, R(q), R(e))
    BY <1>1 DEF TakesTo, RecentIn, Within
  <1> HIDE DEF R
  <1>3. TakesTo(b, n, S(q), S(e))
    BY <1>1, <1>2 DEF TakesTo, ShiftedIn
  <1> HIDE DEF S
  <1>4. TakesTo(b, n, V(q), V(e))
    BY <1>1, <1>3 DEF TakesTo, VerifiedIn
  <1>5. TakesTo(b, n, E(q), E(e))
    BY <1>1, <1>3 DEF TakesTo, WithEnergyIn
  <1> HIDE DEF V, E
  <1>6. TakesWeights(b, n, ReductionBy(q), ReductionBy(e))
    BY <1>0, <1>1 DEF ReductionBy, IsEntries, TakesWeights
  <1>7. TakesWeights(b, n, AvoidedBy(q), AvoidedBy(e))
    <2>1. \A x, y \in Int : x * y \in Int
      OBVIOUS
    <2> QED
      BY <1>0, <1>1, <2>1 DEF AvoidedBy, IsEntries, TakesWeights
  <1>8. Cardinality(R(q)) = Cardinality(R(e))
    BY <1>0, <1>2, <1>6, SetsTaken
  <1>9. Cardinality(S(q)) = Cardinality(S(e)) /\ MeanOn(S(q), ReductionBy(q)) = MeanOn(S(e), ReductionBy(e))
    BY <1>0, <1>3, <1>6, SetsTaken
  <1>10. Cardinality(V(q)) = Cardinality(V(e))
    BY <1>0, <1>4, <1>6, SetsTaken
  <1>11. Cardinality(E(q)) = Cardinality(E(e)) /\ SumOn(E(q), AvoidedBy(q)) = SumOn(E(e), AvoidedBy(e))
    BY <1>0, <1>5, <1>7, SetsTaken
  <1>12. SummaryOn(q, R(q)) = SummaryOn(e, R(e))
    BY <1>8, <1>9, <1>10, <1>11 DEF SummaryOn, S, V, E
  <1> QED
    BY <1>12, SummaryByIndices DEF R

\* The sum of two weights' sum.
LEMMA SumPlus ==
  ASSUME NEW Z, IsFiniteSet(Z), NEW w, IntsOn(Z, w), NEW u, IntsOn(Z, u), NEW v, \A z \in Z : v[z] = w[z] + u[z]
  PROVE  SumOn(Z, v) = SumOn(Z, w) + SumOn(Z, u)
  <1>1. IntsOn(Z, v)
    BY DEF IntsOn
  <1>2. /\ \A s \in SUBSET Z : \A x \in s : SumOn(s, v) = SumOn(s \ {x}, v) + v[x]
        /\ \A s \in SUBSET Z : \A x \in s : SumOn(s, w) = SumOn(s \ {x}, w) + w[x]
        /\ \A s \in SUBSET Z : \A x \in s : SumOn(s, u) = SumOn(s \ {x}, u) + u[x]
    BY <1>1, SumUnfolds
  <1>3. \A s \in SUBSET Z : SumOn(s, w) \in Int /\ SumOn(s, u) \in Int
    <2>1. \A s \in SUBSET Z : IsFiniteSet(s) /\ IntsOn(s, w) /\ IntsOn(s, u)
      BY FS_Subset DEF IntsOn
    <2> QED
      BY <2>1, SumSteps
  <1> DEFINE P == {s \in SUBSET Z : SumOn(s, v) = SumOn(s, w) + SumOn(s, u)}
  <1>4. ASSUME NEW s \in SUBSET Z, \A x \in s : s \ {x} \in P PROVE SumOn(s, v) = SumOn(s, w) + SumOn(s, u)
    <2>1. CASE s = {}
      <3>1. SumOn({}, v) = 0 /\ SumOn({}, w) = 0 /\ SumOn({}, u) = 0
        BY SumOfNone
      <3> QED
        BY <2>1, <3>1
    <2>2. CASE s # {}
      <3>1. PICK x \in s : TRUE
        BY <2>2
      <3>2. /\ SumOn(s, v) = SumOn(s \ {x}, v) + v[x]
            /\ SumOn(s, w) = SumOn(s \ {x}, w) + w[x]
            /\ SumOn(s, u) = SumOn(s \ {x}, u) + u[x]
        BY <1>2
      <3>3. /\ SumOn(s \ {x}, v) = SumOn(s \ {x}, w) + SumOn(s \ {x}, u)
            /\ SumOn(s \ {x}, w) \in Int /\ SumOn(s \ {x}, u) \in Int
        BY <1>3, <1>4
      <3>4. v[x] = w[x] + u[x] /\ w[x] \in Int /\ u[x] \in Int
        BY DEF IntsOn
      <3> QED
        BY <3>2, <3>3, <3>4
    <2> QED
      BY <2>1, <2>2
  <1>5. \A s \in SUBSET Z : (\A x \in s : s \ {x} \in P) => s \in P
    BY <1>4
  <1>6. \A s \in SUBSET Z : s \in P
    <2> HIDE DEF P
    <2> QED
      BY <1>5, SubsetInduction
  <1> QED
    BY <1>6

\* A constant weight.
LEMMA SumOfConstant ==
  ASSUME NEW Z, IsFiniteSet(Z), NEW c \in Int, NEW w, \A z \in Z : w[z] = c
  PROVE  SumOn(Z, w) = c * Cardinality(Z)
  <1> DEFINE ones == [z \in Z |-> 1]
  <1>1. IntsOn(Z, ones) /\ \A z \in Z : ones[z] = 1
    BY DEF IntsOn
  <1>2. \A z \in Z : w[z] = c * ones[z]
    OBVIOUS
  <1> HIDE DEF ones
  <1>3. SumOn(Z, ones) = Cardinality(Z)
    BY <1>1, SumCounts
  <1>4. SumOn(Z, w) = c * SumOn(Z, ones)
    BY <1>1, <1>2, SumScaled
  <1> QED
    BY <1>3, <1>4

\* A sum of naturals is one.
LEMMA SumOfNats ==
  ASSUME NEW Z, IsFiniteSet(Z), NEW w, \A z \in Z : w[z] \in Nat
  PROVE  SumOn(Z, w) \in Nat
  <1> DEFINE zeros == [z \in Z |-> 0]
  <1>1. IntsOn(Z, w) /\ IntsOn(Z, zeros) /\ \A z \in Z : zeros[z] <= w[z]
    BY DEF IntsOn
  <1>2. SumOn(Z, zeros) = 0
    <2>0. \A z \in Z : zeros[z] = 0
      OBVIOUS
    <2> HIDE DEF zeros
    <2>1. SumOn(Z, zeros) = 0 * Cardinality(Z)
      BY <2>0, SumOfConstant
    <2>2. Cardinality(Z) \in Nat
      BY FS_CardinalityType
    <2> QED
      BY <2>1, <2>2
  <1> HIDE DEF zeros
  <1>3. SumOn(Z, zeros) <= SumOn(Z, w) /\ SumOn(Z, w) \in Int
    BY <1>1, SumWithin, SumSteps
  <1> QED
    BY <1>2, <1>3

(* The elements of Z that g puts in a group. *)
Group(Z, g, k) == {z \in Z : g[z] = k}

\* The groups' sizes add up.
LEMMA GroupsAddUp ==
  ASSUME NEW Z, IsFiniteSet(Z), NEW K, IsFiniteSet(K), NEW g \in [Z -> K],
         NEW v, \A k \in K : v[k] = Cardinality(Group(Z, g, k))
  PROVE  SumOn(K, v) = Cardinality(Z)
  <1> DEFINE ones == [z \in Z |-> 1]
  <1>1. IntsOn(Z, ones) /\ \A z \in Z : ones[z] = 1
    BY DEF IntsOn
  <1> HIDE DEF ones
  <1>2. SumOn(Z, ones) = Cardinality(Z)
    BY <1>1, SumCounts
  <1>3. \A k \in K : v[k] = SumOn({z \in Z : g[z] = k}, ones)
    <2> TAKE k \in K
    <2> DEFINE G == Group(Z, g, k)
    <2>1. IsFiniteSet(G) /\ \A z \in G : ones[z] = 1
      <3>1. G \in SUBSET Z
        BY DEF Group
      <3> HIDE DEF G
      <3> QED
        BY <1>1, <3>1, FS_Subset
    <2> HIDE DEF G
    <2>2. SumOn(G, ones) = Cardinality(G)
      BY <2>1, SumCounts
    <2> QED
      BY <2>2 DEF G, Group
  <1> QED
    BY <1>1, <1>2, <1>3, SumByGroup

\* So do sums over them.
LEMMA GroupSumsAddUp ==
  ASSUME NEW Z, IsFiniteSet(Z), NEW w, IntsOn(Z, w), NEW K, IsFiniteSet(K), NEW g \in [Z -> K],
         NEW v, \A k \in K : v[k] = SumOn(Group(Z, g, k), w)
  PROVE  SumOn(K, v) = SumOn(Z, w)
  <1>1. \A k \in K : v[k] = SumOn({z \in Z : g[z] = k}, w)
    BY DEF Group
  <1> QED
    BY <1>1, SumByGroup

\* A rounded quotient is within a half of the quotient.
LEMMA RoundDivIsNear ==
  ASSUME NEW a \in Int, NEW d \in Nat \ {0}
  PROVE  /\ RoundDiv(a, d) \in Int
         /\ 2 * (d * RoundDiv(a, d)) <= 2 * a + d
         /\ 2 * (d * RoundDiv(a, d)) >= 2 * a - d
  <1> DEFINE q == a \div d
             r == a % d
  <1>1. q \in Int /\ r \in 0 .. d - 1 /\ a = d * q + r
    OBVIOUS
  <1>2. RoundDiv(a, d) = IF 2 * r > d \/ (2 * r = d /\ q % 2 = 1) THEN q + 1 ELSE q
    BY DEF RoundDiv
  <1> HIDE DEF q, r
  <1>3. d * (q + 1) = d * q + d /\ d * q \in Int
    BY <1>1
  <1>4. CASE RoundDiv(a, d) = q /\ 2 * r <= d
    BY <1>1, <1>3, <1>4
  <1>5. CASE RoundDiv(a, d) = q + 1 /\ 2 * r >= d
    BY <1>1, <1>3, <1>5
  <1> QED
    BY <1>1, <1>2, <1>4, <1>5

\* The sum of rounded figures is near the rounded sum.
LEMMA RoundedSums ==
  ASSUME NEW K, IsFiniteSet(K), NEW x, IntsOn(K, x), NEW y, \A k \in K : y[k] = RoundDiv(x[k], 100)
  PROVE  SumOn(K, y) - RoundDiv(SumOn(K, x), 100) \in -Cardinality(K) .. Cardinality(K)
  <1> DEFINE c == Cardinality(K)
             half == [k \in K |-> 50]
             less == [k \in K |-> -50]
             scaled == [k \in K |-> 100 * y[k]]
             above == [k \in K |-> x[k] + half[k]]
             below == [k \in K |-> x[k] + less[k]]
  <1>1. c \in Nat
    BY FS_CardinalityType
  <1>2. \A k \in K : y[k] \in Int /\ 100 * y[k] <= x[k] + 50 /\ 100 * y[k] >= x[k] - 50 /\ x[k] \in Int
    <2> TAKE k \in K
    <2>1. x[k] \in Int /\ y[k] = RoundDiv(x[k], 100) /\ 100 \in Nat \ {0}
      BY DEF IntsOn
    <2>2. y[k] \in Int /\ 2 * (100 * y[k]) <= 2 * x[k] + 100 /\ 2 * (100 * y[k]) >= 2 * x[k] - 100
      BY <2>1, RoundDivIsNear
    <2> QED
      BY <2>1, <2>2
  <1>3. /\ IntsOn(K, y) /\ IntsOn(K, half) /\ IntsOn(K, less) /\ IntsOn(K, scaled)
        /\ IntsOn(K, above) /\ IntsOn(K, below)
    BY <1>2 DEF IntsOn
  <1>4. \A k \in K : scaled[k] <= above[k] /\ below[k] <= scaled[k]
    BY <1>2
  <1>5. SumOn(K, half) = 50 * c /\ SumOn(K, less) = (-50) * c
    <2>1. (\A k \in K : half[k] = 50) /\ (\A k \in K : less[k] = -50)
      OBVIOUS
    <2> HIDE DEF half, less
    <2> QED
      BY <2>1, SumOfConstant
  <1>6. \A k \in K : scaled[k] = 100 * y[k]
    OBVIOUS
  <1>7. (\A k \in K : above[k] = x[k] + half[k]) /\ (\A k \in K : below[k] = x[k] + less[k])
    OBVIOUS
  <1> HIDE DEF c, half, less, scaled, above, below
  <1>8. SumOn(K, scaled) = 100 * SumOn(K, y)
    BY <1>3, <1>6, SumScaled
  <1>9. SumOn(K, above) = SumOn(K, x) + 50 * c
    BY <1>3, <1>5, <1>7, SumPlus
  <1>10. SumOn(K, below) = SumOn(K, x) + (-50) * c
    BY <1>3, <1>5, <1>7, SumPlus
  <1>11. SumOn(K, scaled) <= SumOn(K, above) /\ SumOn(K, below) <= SumOn(K, scaled)
    BY <1>3, <1>4, SumWithin
  <1>12. SumOn(K, x) \in Int /\ SumOn(K, y) \in Int
    BY <1>3, SumSteps
  <1> DEFINE X == SumOn(K, x)
             Y == SumOn(K, y)
             R == RoundDiv(X, 100)
  <1>13. R \in Int /\ 2 * (100 * R) <= 2 * X + 100 /\ 2 * (100 * R) >= 2 * X - 100
    BY <1>12, RoundDivIsNear
  <1>14. c = 0 => X = 0 /\ Y = 0
    <2>1. c = 0 => K = {}
      BY FS_EmptySet DEF c
    <2>2. SumOn({}, x) = 0 /\ SumOn({}, y) = 0
      BY SumOfNone
    <2> QED
      BY <2>1, <2>2
  <1>15. 100 * Y <= X + 50 * c /\ 100 * Y >= X - 50 * c
    BY <1>1, <1>8, <1>9, <1>10, <1>11, <1>12
  <1> HIDE DEF X, Y, R
  <1>16. X \in Int /\ Y \in Int
    BY <1>12 DEF X, Y
  <1>17. Y - R <= c /\ Y - R >= -c
    BY <1>1, <1>13, <1>14, <1>15, <1>16
  <1>18. Y - R \in Int
    BY <1>13, <1>16
  <1> QED
    BY <1>1, <1>17, <1>18 DEF X, Y, R, c

\* There is a sum to unfold.
LEMMA FoldHasSums ==
  ASSUME NEW Z, IsFiniteSet(Z), NEW w, IntsOn(Z, w)
  PROVE  \E f : Sums(f, Z, w)
  <1> DEFINE v == [z \in Z |-> w[z]]
  <1>1. v \in [Z -> Int]
    BY DEF IntsOn
  <1>2. \A s \in (SUBSET Z) \ {{}} : v[PickOne(s)] = w[PickOne(s)]
    BY DEF PickOne
  <1> HIDE DEF v
  <1>3. PICK f : Sums(f, Z, v)
    BY <1>1, SumIsInt
  <1> QED
    BY <1>2, <1>3 DEF Sums

\* A fold that adds a figure of the elements of a finite set is their sum.
LEMMA RegionsFold ==
  ASSUME NEW rows, IsFiniteSet(rows), NEW figure, NEW w, \A x \in rows : w[x] = x[figure] /\ w[x] \in Int
  PROVE  OverRegions(rows, figure) = SumOn(rows, w)
  <1> DEFINE Adds(f) == f = [s \in SUBSET rows |-> IF s = {} THEN 0
                                ELSE LET x == CHOOSE y \in s : TRUE IN f[s \ {x}] + x[figure]]
  <1>1. OverRegions(rows, figure) = (CHOOSE f : Adds(f))[rows]
    BY DEF OverRegions, FoldSet, MapThenFoldSet
  <1>2. \A s \in (SUBSET rows) \ {{}} : w[PickOne(s)] = PickOne(s)[figure]
    BY DEF PickOne
  <1>3. \A f : Adds(f) <=> Sums(f, rows, w)
    BY <1>2 DEF Sums, PickOne
  <1>4. IntsOn(rows, w)
    BY DEF IntsOn
  <1> HIDE DEF Adds
  <1>5. Adds(CHOOSE f : Adds(f))
    BY <1>3, <1>4, FoldHasSums
  <1>6. Sums(CHOOSE f : Adds(f), rows, w)
    BY <1>3, <1>5
  <1>7. rows \in SUBSET rows
    OBVIOUS
  <1> QED
    BY <1>1, <1>4, <1>6, <1>7, SumsOnSubsets

\* So is one that adds the samples.
LEMMA SamplesFold ==
  ASSUME NEW of, IsFiniteSet(DOMAIN of), NEW w, \A r \in DOMAIN of : w[r] = of[r].samples /\ w[r] \in Int
  PROVE  OverSamples(of) = SumOn(DOMAIN of, w)
  <1> DEFINE Z == DOMAIN of
             Adds(f) == f = [s \in SUBSET Z |-> IF s = {} THEN 0
                                ELSE LET x == CHOOSE y \in s : TRUE IN f[s \ {x}] + of[x].samples]
  <1>1. OverSamples(of) = (CHOOSE f : Adds(f))[Z]
    BY DEF OverSamples, FoldSet, MapThenFoldSet
  <1>2. \A s \in (SUBSET Z) \ {{}} : w[PickOne(s)] = of[PickOne(s)].samples
    BY DEF PickOne
  <1>3. \A f : Adds(f) <=> Sums(f, Z, w)
    BY <1>2 DEF Sums, PickOne
  <1>4. IntsOn(Z, w)
    BY DEF IntsOn
  <1> HIDE DEF Adds
  <1>5. Adds(CHOOSE f : Adds(f))
    BY <1>3, <1>4, FoldHasSums
  <1>6. Sums(CHOOSE f : Adds(f), Z, w)
    BY <1>3, <1>5
  <1>7. Z \in SUBSET Z
    OBVIOUS
  <1> QED
    BY <1>1, <1>4, <1>6, <1>7, SumsOnSubsets

\* The server's copy of entries with a day is those entries in another order.
LEMMA CopySummarizesAlike ==
  ASSUME NEW n, NEW e, IsEntries(e, n), \A i \in 1 .. n : e[i].ts \in Nat, NEW now, NEW days
  PROVE  Summarize(ServerCopy(e), now, days) = Summarize(e, now, days)
  <1> DEFINE rows == [i \in DOMAIN e |-> RecordImpact(e[i], e[i].ts)]
             ranked == [i \in 1 .. n |-> [score |-> -rows[i].ts, at |-> i]]
             S == {[score |-> -rows[i].ts, at |-> i] : i \in {j \in DOMAIN rows : rows[j].ts >= 0}}
             newest == SortedByScore(S)
             copy == ServerCopy(e)
             b == [k \in 1 .. n |-> newest[k].at]
  <1>0. n \in Nat /\ DOMAIN e = 1 .. n /\ DOMAIN rows = 1 .. n
    BY DEF IsEntries
  <1>1. \A i \in 1 .. n : rows[i] = RecordImpact(e[i], e[i].ts)
    BY <1>0
  <1>3. copy = [k \in DOMAIN newest |-> AsEntry(rows[newest[k].at])]
    BY DEF ServerCopy, RecentImpacts
  <1> HIDE DEF rows, copy, newest, b, ranked
  <1>2. \A i \in 1 .. n : rows[i].ts = e[i].ts /\ rows[i].ts \in Nat
    <2> TAKE i \in 1 .. n
    <2>1. rows[i] = RecordImpact(e[i], e[i].ts)
      BY <1>1
    <2>2. RecordImpact(e[i], e[i].ts).ts = e[i].ts
      BY DEF RecordImpact
    <2> QED
      BY <2>1, <2>2
  <1>4. {j \in DOMAIN rows : rows[j].ts >= 0} = 1 .. n
    BY <1>0, <1>2
  <1>5. S = {[score |-> -rows[i].ts, at |-> i] : i \in 1 .. n}
    BY <1>4
  <1> HIDE DEF S
  <1>6. ranked \in [1 .. n -> S] /\ \A i \in 1 .. n : ranked[i].at = i /\ ranked[i].score = -rows[i].ts
    BY <1>5 DEF ranked
  <1>7. \A c \in S : \E i \in 1 .. n : ranked[i] = c
    BY <1>5 DEF ranked
  <1>8. \A x, y \in 1 .. n : ranked[x] = ranked[y] => x = y
    BY <1>6
  <1>9. IsFiniteSet(1 .. n) /\ Cardinality(1 .. n) = n
    BY <1>0, FS_Interval
  <1>10. IsFiniteSet(S) /\ Cardinality(S) = n
    <2>1. ranked \in [1 .. n -> S]
      BY <1>6
    <2>2. IsFiniteSet(S) /\ Cardinality(S) = Cardinality(1 .. n)
      BY <1>7, <1>8, <1>9, <2>1, AsLarge
    <2> QED
      BY <1>9, <2>2
  <1>11. \A c \in S : c.score \in Int /\ c.at \in Int /\ c.at \in 1 .. n
    <2> TAKE c \in S
    <2>1. PICK i \in 1 .. n : ranked[i] = c
      BY <1>7
    <2> QED
      BY <1>0, <1>2, <1>6, <2>1
  <1>12. \A c, d \in S : c.at = d.at => c = d
    BY <1>6, <1>7
  <1>13. /\ DOMAIN newest = 1 .. n /\ newest \in Seq(S)
         /\ \A c \in S : \E k \in 1 .. n : newest[k] = c
    <2>1. /\ DOMAIN SortedByScore(S) = 1 .. Cardinality(S) /\ SortedByScore(S) \in Seq(S)
          /\ \A c \in S : \E k \in 1 .. Cardinality(S) : SortedByScore(S)[k] = c
      BY <1>10, <1>11, <1>12, SortedAre
    <2> QED
      BY <1>10, <2>1 DEF newest
  <1>14. \A k \in 1 .. n : newest[k] \in S
    <2>1. newest \in Seq(S)
      BY <1>13
    <2>2. DOMAIN newest = 1 .. n
      BY <1>13
    <2>3. newest \in [1 .. Len(newest) -> S]
      BY <2>1, LenProperties
    <2> QED
      BY <2>2, <2>3
  <1>15. b \in [1 .. n -> 1 .. n]
    BY <1>11, <1>14 DEF b
  <1>16. \A y \in 1 .. n : \E x \in 1 .. n : b[x] = y
    <2> TAKE y \in 1 .. n
    <2>1. ranked[y] \in S /\ ranked[y].at = y
      BY <1>6
    <2>2. PICK k \in 1 .. n : newest[k] = ranked[y]
      BY <1>13, <2>1
    <2> QED
      BY <2>1, <2>2 DEF b
  <1>17. \A k \in 1 .. n : newest[k].at = b[k]
    BY DEF b
  <1>18. OneToOne(b, n)
    <2>1. b \in Surjection(1 .. n, 1 .. n)
      BY <1>15, <1>16 DEF Surjection
    <2>2. b \in Injection(1 .. n, 1 .. n)
      BY <1>9, <2>1, FS_Surjection
    <2> QED
      BY <1>15, <1>16, <2>2 DEF OneToOne, Injection, IsInjective
  <1>19. DOMAIN copy = 1 .. n
    BY <1>3, <1>13
  <1>20. \A k \in 1 .. n : copy[k] = AsEntry(RecordImpact(e[b[k]], e[b[k]].ts)) /\ b[k] \in 1 .. n
    BY <1>1, <1>3, <1>13, <1>15, <1>17
  <1>21. /\ \A k \in 1 .. n : copy[k].ts = e[b[k]].ts
         /\ \A k \in 1 .. n : copy[k].deferred = e[b[k]].deferred
         /\ \A k \in 1 .. n : copy[k].reduction = e[b[k]].reduction
         /\ \A k \in 1 .. n : copy[k].energy = e[b[k]].energy
         /\ \A k \in 1 .. n : copy[k].basis = e[b[k]].basis
         /\ \A k \in 1 .. n : copy[k].predicted = Absent
    <2>1. \A x, t : LET row == RecordImpact(x, t)
                   IN  /\ AsEntry(row).ts = t /\ AsEntry(row).deferred = x.deferred
                       /\ AsEntry(row).reduction = x.reduction /\ AsEntry(row).energy = x.energy
                       /\ AsEntry(row).basis = x.basis /\ AsEntry(row).predicted = Absent
      BY DEF AsEntry, RecordImpact
    <2> QED
      BY <1>20, <2>1
  <1>22. IsEntries(copy, n)
    <2>1. \A k \in 1 .. n : b[k] \in 1 .. n
      BY <1>20
    <2>2. \A k \in 1 .. n : copy[k].reduction \in Int /\ copy[k].energy \in Int
      BY <1>21, <2>1 DEF IsEntries
    <2>3. \A k \in 1 .. n : copy[k].predicted \in Int
      BY <1>21 DEF Absent
    <2> QED
      BY <1>0, <1>19, <2>2, <2>3 DEF IsEntries
  <1>23. Summarize(copy, now, days) = Summarize(e, now, days)
    <2>1. /\ \A k \in 1 .. n : copy[k].ts = e[b[k]].ts
          /\ \A k \in 1 .. n : copy[k].deferred = e[b[k]].deferred
      BY <1>21
    <2>2. /\ \A k \in 1 .. n : copy[k].reduction = e[b[k]].reduction
          /\ \A k \in 1 .. n : copy[k].energy = e[b[k]].energy
          /\ \A k \in 1 .. n : copy[k].basis = e[b[k]].basis
      BY <1>21
    <2> QED
      BY <1>18, <1>22, <2>1, <2>2, SummaryOfReordered
  <1> QED
    BY <1>23 DEF copy

\* All rows are shown when they are no more than asked for.
LEMMA AllRowsAreTop ==
  ASSUME NEW rows, IsFiniteSet(rows), \A r \in rows : r.kg \in Int, NEW top \in Nat, Cardinality(rows) <= top
  PROVE  TopRows(rows, top) = rows
  <1>1. ASSUME NEW r \in rows PROVE Cardinality({s \in rows : s.kg > r.kg}) < top
    <2> DEFINE better == {s \in rows : s.kg > r.kg}
    <2>1. better \in SUBSET rows /\ r \notin better
      OBVIOUS
    <2> HIDE DEF better
    <2>2. /\ IsFiniteSet(better) /\ Cardinality(better) <= Cardinality(rows)
          /\ Cardinality(better) # Cardinality(rows)
      BY <2>1, FS_Subset
    <2>3. Cardinality(better) \in Nat /\ Cardinality(rows) \in Nat
      BY <2>2, FS_CardinalityType
    <2>4. Cardinality(better) < top
      BY <2>2, <2>3
    <2> QED
      BY <2>4 DEF better
  <1> QED
    BY <1>1 DEF TopRows

\* The row of a region, by the indices.
LEMMA RegionFigures ==
  ASSUME NEW n, NEW e, IsEntries(e, n), NEW R \in SUBSET (1 .. n), NEW r
  PROVE  LET S == ShiftedIn(e, R)
             E == WithEnergyIn(e, S)
             row == RegionRow(Picked(e, R), r)
         IN  /\ row.region = r
             /\ row.jobs = Cardinality(OfRegionIn(e, R, r))
             /\ row.shifted = Cardinality(OfRegionIn(e, S, r))
             /\ row.kg = RoundDiv(SumOn(OfRegionIn(e, E, r), AvoidedBy(e)), 100)
  <1> DEFINE O == OfRegionIn(e, R, r)
             OS == ShiftedIn(e, O)
             OE == WithEnergyIn(e, OS)
             row == RegionRow(Picked(e, R), r)
  <1>1. O \in SUBSET (1 .. n) /\ OS \in SUBSET (1 .. n) /\ OE \in SUBSET (1 .. n)
    BY FilteredAreWithin
  <1>2. /\ OS = OfRegionIn(e, ShiftedIn(e, R), r)
        /\ OE = OfRegionIn(e, WithEnergyIn(e, ShiftedIn(e, R)), r)
    BY DEF OfRegionIn, ShiftedIn, WithEnergyIn
  <1>3. OfRegion(Picked(e, R), r) = Picked(e, O)
    BY FiltersPick
  <1> HIDE DEF O
  <1>4. Shifted(Picked(e, O)) = Picked(e, OS)
    BY <1>1, FiltersPick
  <1> HIDE DEF OS
  <1>5. WithEnergy(Picked(e, OS)) = Picked(e, OE)
    BY <1>1, FiltersPick
  <1> HIDE DEF OE
  <1>6. /\ Len(Picked(e, O)) = Cardinality(O) /\ Len(Picked(e, OS)) = Cardinality(OS)
        /\ Avoided(Picked(e, OE)) = SumOn(OE, AvoidedBy(e))
    BY <1>1, FiguresOfPicked
  <1>7. row = [region |-> r, jobs |-> Cardinality(O), shifted |-> Cardinality(OS),
               kg |-> RoundDiv(SumOn(OE, AvoidedBy(e)), 100),
               meanReduction |-> MeanOrZero(Reductions(Picked(e, OS)))]
    BY <1>3, <1>4, <1>5, <1>6 DEF RegionRow
  <1>8. /\ row.region = r /\ row.jobs = Cardinality(O) /\ row.shifted = Cardinality(OS)
        /\ row.kg = RoundDiv(SumOn(OE, AvoidedBy(e)), 100)
    BY <1>7
  <1> QED
    BY <1>2, <1>8 DEF O

\* The regions of what is picked: finitely many, each that of an entry.
LEMMA RegionsArePicked ==
  ASSUME NEW n, NEW e, IsEntries(e, n), NEW R \in SUBSET (1 .. n)
  PROVE  /\ IsFiniteSet(RegionsOf(Picked(e, R)))
         /\ Cardinality(RegionsOf(Picked(e, R))) \in Nat
         /\ Cardinality(RegionsOf(Picked(e, R))) <= Cardinality(RegionsOf(e))
         /\ Cardinality(RegionsOf(e)) \in Nat /\ IsFiniteSet(RegionsOf(e))
         /\ RegionsOf(Picked(e, R)) \in SUBSET RegionsOf(e)
         /\ \A r : r \in RegionsOf(Picked(e, R)) <=> \E i \in R : e[i].region = r
  <1> DEFINE p == Picked(e, R)
             K == RegionsOf(e)
             L == RegionsOf(p)
  <1>1. n \in Nat /\ DOMAIN e = 1 .. n
    BY DEF IsEntries
  <1>2. /\ \A i \in R : RankIn(R, i) \in DOMAIN p /\ p[RankIn(R, i)] = e[i]
        /\ \A k \in DOMAIN p : NthOf(R, k) \in R /\ p[k] = e[NthOf(R, k)]
    BY <1>1, PickedAt
  <1>3. \A r : r \in L <=> \E i \in R : e[i].region = r
    BY <1>2 DEF RegionsOf
  <1> HIDE DEF p
  <1>4. L \in SUBSET K
    BY <1>1, <1>3 DEF RegionsOf
  <1>5. IsFiniteSet(K)
    <2> DEFINE f == [i \in 1 .. n |-> e[i].region]
    <2>1. f \in Surjection(1 .. n, K)
      BY <1>1 DEF Surjection, RegionsOf
    <2>2. IsFiniteSet(1 .. n)
      BY <1>1, FS_Interval
    <2> HIDE DEF f, K
    <2> QED
      BY <2>1, <2>2, FS_Surjection
  <1>6. /\ IsFiniteSet(L) /\ Cardinality(L) <= Cardinality(K)
    <2> HIDE DEF K, L
    <2> QED
      BY <1>4, <1>5, FS_Subset
  <1>7. Cardinality(K) \in Nat /\ Cardinality(L) \in Nat
    BY <1>5, <1>6, FS_CardinalityType
  <1> QED
    BY <1>3, <1>4, <1>5, <1>6, <1>7 DEF p

\* Rows that add up: what the rows say of a region, summed over the regions.
LEMMA RowsAddUp ==
  ASSUME NEW K, IsFiniteSet(K), NEW rows, NEW rowOf \in [K -> rows], \A r \in K : rowOf[r].region = r,
         \A x \in rows : \E r \in K : rowOf[r] = x, NEW figure,
         NEW v, \A r \in K : v[r] = rowOf[r][figure] /\ v[r] \in Int
  PROVE  /\ IsFiniteSet(rows) /\ Cardinality(rows) = Cardinality(K)
         /\ OverRegions(rows, figure) = SumOn(K, v)
  <1> DEFINE w == [row \in rows |-> row[figure]]
  <1>1. \A x, y \in K : rowOf[x] = rowOf[y] => x = y
    OBVIOUS
  <1>2. IsFiniteSet(rows) /\ Cardinality(rows) = Cardinality(K)
    BY <1>1, AsLarge
  <1>3. \A r \in K : v[r] = w[rowOf[r]] /\ v[r] \in Int
    OBVIOUS
  <1>4. \A x \in rows : w[x] = x[figure] /\ w[x] \in Int
    <2> TAKE x \in rows
    <2>1. PICK r \in K : rowOf[r] = x
      OBVIOUS
    <2> QED
      BY <2>1
  <1> HIDE DEF w
  <1>5. OverRegions(rows, figure) = SumOn(rows, w)
    BY <1>2, <1>4, RegionsFold
  <1>6. Carries(rowOf, K, v, rows, w)
    BY <1>1, <1>3 DEF Carries
  <1>7. SumOn(K, v) = SumOn(rows, w)
    BY <1>6, SumMapped
  <1> QED
    BY <1>2, <1>5, <1>7

\* The fleet's rows: all of them, and they add up.
LEMMA FleetAddsUp ==
  ASSUME NEW n, NEW e, IsEntries(e, n), NEW R \in SUBSET (1 .. n),
         NEW top \in Nat, Cardinality(RegionsOf(e)) <= top
  PROVE  LET recent == Picked(e, R)
             rows == TopRows({RegionRow(recent, r) : r \in RegionsOf(recent)}, top)
             S == ShiftedIn(e, R)
             kg == RoundDiv(SumOn(WithEnergyIn(e, S), AvoidedBy(e)), 100)
         IN  /\ OverRegions(rows, "jobs") = Cardinality(R)
             /\ OverRegions(rows, "shifted") = Cardinality(S)
             /\ OverRegions(rows, "kg") - kg \in -Cardinality(rows) .. Cardinality(rows)
  <1> DEFINE recent == Picked(e, R)
             K == RegionsOf(recent)
             rows == {RegionRow(recent, r) : r \in K}
             S == ShiftedIn(e, R)
             E == WithEnergyIn(e, S)
             rowOf == [r \in K |-> RegionRow(recent, r)]
             g(I) == [i \in I |-> e[i].region]
             weight == AvoidedBy(e)
             jobs == [r \in K |-> Cardinality(OfRegionIn(e, R, r))]
             shifted == [r \in K |-> Cardinality(OfRegionIn(e, S, r))]
             avoided == [r \in K |-> SumOn(OfRegionIn(e, E, r), weight)]
             kg == [r \in K |-> RoundDiv(avoided[r], 100)]
  <1>1. n \in Nat /\ DOMAIN e = 1 .. n /\ \A i \in 1 .. n : e[i].reduction \in Int /\ e[i].energy \in Int
    BY DEF IsEntries
  <1>2. S \in SUBSET R /\ E \in SUBSET S /\ \A r : OfRegionIn(e, R, r) \in SUBSET R /\ OfRegionIn(e, S, r) \in SUBSET S
                                               /\ OfRegionIn(e, E, r) \in SUBSET E
    BY DEF ShiftedIn, WithEnergyIn, OfRegionIn
  <1>3. IsFiniteSet(R) /\ IsFiniteSet(S) /\ IsFiniteSet(E)
    <2> HIDE DEF S, E
    <2>1. IsFiniteSet(1 .. n)
      BY <1>1, FS_Interval
    <2>2. IsFiniteSet(R)
      BY <2>1, FS_Subset
    <2>3. IsFiniteSet(S)
      BY <1>2, <2>2, FS_Subset
    <2> QED
      BY <1>2, <2>2, <2>3, FS_Subset
  <1>4. /\ IsFiniteSet(K) /\ Cardinality(K) \in Nat /\ Cardinality(K) <= Cardinality(RegionsOf(e))
        /\ Cardinality(RegionsOf(e)) \in Nat
        /\ \A i \in R : e[i].region \in K
    BY RegionsArePicked
  <1>5. \A r \in K : /\ RegionRow(recent, r).region = r
                     /\ RegionRow(recent, r).jobs = Cardinality(OfRegionIn(e, R, r))
                     /\ RegionRow(recent, r).shifted = Cardinality(OfRegionIn(e, S, r))
                     /\ RegionRow(recent, r).kg = RoundDiv(SumOn(OfRegionIn(e, E, r), weight), 100)
    BY RegionFigures
  <1> HIDE DEF recent, K, S, E, weight
  <1>6. /\ rowOf \in [K -> rows] /\ \A r \in K : rowOf[r] = RegionRow(recent, r)
        /\ \A x \in rows : \E r \in K : rowOf[r] = x
    OBVIOUS
  <1>7. IntsOn(E, weight)
    <2>1. \A x, y \in Int : x * y \in Int
      OBVIOUS
    <2>2. \A i \in E : i \in 1 .. n
      BY <1>2
    <2> QED
      BY <1>1, <2>1, <2>2 DEF IntsOn, AvoidedBy, weight
  <1>8. \A r \in K : SumOn(OfRegionIn(e, E, r), weight) \in Int
    <2> TAKE r \in K
    <2>1. IsFiniteSet(OfRegionIn(e, E, r)) /\ IntsOn(OfRegionIn(e, E, r), weight)
      BY <1>2, <1>3, <1>7, FS_Subset DEF IntsOn
    <2> QED
      BY <2>1, SumSteps
  <1>9. \A r \in K : Cardinality(OfRegionIn(e, R, r)) \in Nat /\ Cardinality(OfRegionIn(e, S, r)) \in Nat
    BY <1>2, <1>3, FS_Subset, FS_CardinalityType
  <1>10. \A r \in K : jobs[r] = rowOf[r]["jobs"] /\ jobs[r] \in Int
    BY <1>5, <1>6, <1>9
  <1>11. \A r \in K : shifted[r] = rowOf[r]["shifted"] /\ shifted[r] \in Int
    BY <1>5, <1>6, <1>9
  <1>12. \A r \in K : kg[r] = rowOf[r]["kg"] /\ kg[r] \in Int
    <2> TAKE r \in K
    <2>1. kg[r] = RoundDiv(SumOn(OfRegionIn(e, E, r), weight), 100)
      OBVIOUS
    <2>2. kg[r] \in Int
      BY <1>8, <2>1, RoundDivIsNear
    <2> QED
      BY <1>5, <1>6, <2>1, <2>2
  <1>13. \A r \in K : rowOf[r].region = r
    BY <1>5, <1>6
  <1>14. IntsOn(K, avoided) /\ \A r \in K : kg[r] = RoundDiv(avoided[r], 100)
    BY <1>8 DEF IntsOn
  <1>15. /\ g(R) \in [R -> K] /\ g(S) \in [S -> K] /\ g(E) \in [E -> K]
    BY <1>2, <1>4
  <1>16. /\ \A r : OfRegionIn(e, R, r) = Group(R, g(R), r)
         /\ \A r : OfRegionIn(e, S, r) = Group(S, g(S), r)
         /\ \A r : OfRegionIn(e, E, r) = Group(E, g(E), r)
    BY DEF OfRegionIn, Group
  <1>17. /\ \A r \in K : jobs[r] = Cardinality(Group(R, g(R), r))
         /\ \A r \in K : shifted[r] = Cardinality(Group(S, g(S), r))
         /\ \A r \in K : avoided[r] = SumOn(Group(E, g(E), r), weight)
    BY <1>16
  <1> HIDE DEF rowOf, jobs, shifted, avoided, kg, rows, g
  <1>18. SumOn(K, jobs) = Cardinality(R)
    BY <1>3, <1>4, <1>15, <1>17, GroupsAddUp
  <1>19. SumOn(K, shifted) = Cardinality(S)
    BY <1>3, <1>4, <1>15, <1>17, GroupsAddUp
  <1>20. SumOn(K, avoided) = SumOn(E, weight)
    BY <1>3, <1>4, <1>7, <1>15, <1>17, GroupSumsAddUp
  <1>21. SumOn(K, kg) - RoundDiv(SumOn(K, avoided), 100) \in -Cardinality(K) .. Cardinality(K)
    BY <1>4, <1>14, RoundedSums
  <1>22. /\ IsFiniteSet(rows) /\ Cardinality(rows) = Cardinality(K)
         /\ OverRegions(rows, "kg") = SumOn(K, kg)
    <2>1. IsFiniteSet(K) /\ rowOf \in [K -> rows]
      BY <1>4, <1>6
    <2>2. \A x \in rows : \E r \in K : rowOf[r] = x
      BY <1>6
    <2>3. \A r \in K : kg[r] = rowOf[r]["kg"] /\ kg[r] \in Int
      BY <1>12
    <2> QED
      BY <1>13, <2>1, <2>2, <2>3, RowsAddUp
  <1>23. OverRegions(rows, "jobs") = SumOn(K, jobs)
    BY <1>4, <1>6, <1>10, <1>13, RowsAddUp
  <1>24. OverRegions(rows, "shifted") = SumOn(K, shifted)
    BY <1>4, <1>6, <1>11, <1>13, RowsAddUp
  <1>25. TopRows(rows, top) = rows
    <2>1. \A x \in rows : x.kg \in Int
      BY <1>6, <1>12
    <2>2. Cardinality(rows) <= top
      BY <1>4, <1>22
    <2> QED
      BY <1>22, <2>1, <2>2, AllRowsAreTop
  <1>26. /\ OverRegions(rows, "jobs") = Cardinality(R)
         /\ OverRegions(rows, "shifted") = Cardinality(S)
         /\ OverRegions(rows, "kg") - RoundDiv(SumOn(E, weight), 100) \in -Cardinality(rows) .. Cardinality(rows)
    BY <1>18, <1>19, <1>20, <1>21, <1>22, <1>23, <1>24
  <1> QED
    BY <1>25, <1>26 DEF rows, recent, K, S, E, weight

\* Order, under products.
LEMMA ProductsInOrder ==
  ASSUME NEW z \in Nat
  PROVE  /\ \A x, y \in Int : x <= y => z * x <= z * y
         /\ z # 0 => \A x, y \in Int : z * x <= z * y => x <= y
  <1>1. \A x, y \in Int : x <= y => z * x <= z * y
    <2> TAKE x, y \in Int
    <2>1. ASSUME x <= y PROVE z * x <= z * y
      <3> DEFINE d == y - x
      <3>1. d \in Nat /\ y = x + d
        BY <2>1
      <3>2. z * d \in Nat
        <4>1. \A a, b \in Nat : a * b \in Nat
          OBVIOUS
        <4> HIDE DEF d
        <4> QED
          BY <3>1, <4>1
      <3> HIDE DEF d
      <3>3. z * (x + d) = z * x + z * d /\ z * x \in Int
        BY <3>1
      <3> QED
        BY <3>1, <3>2, <3>3
    <2> QED
      BY <2>1
  <1>2. ASSUME z # 0, NEW x \in Int, NEW y \in Int, z * x <= z * y, x > y PROVE FALSE
    <2>1. z * (y + 1) <= z * x
      BY <1>1, <1>2
    <2>2. z * (y + 1) = z * y + z /\ z * y \in Int /\ z * x \in Int
      OBVIOUS
    <2> QED
      BY <1>2, <2>1, <2>2
  <1>3. ASSUME z # 0, NEW x \in Int, NEW y \in Int, z * x <= z * y PROVE x <= y
    BY <1>2, <1>3
  <1> QED
    BY <1>1, <1>3

\* What rounding leaves of a ratio of sums, and of the means of the sums.
LEMMA RatioOfMeans ==
  ASSUME NEW P \in Nat \ {0}, NEW A \in Nat, NEW n \in Nat \ {0},
         NEW m, m = RoundDiv(P, n), NEW a, a = RoundDiv(A, n),
         NEW q, q = RoundDiv(100 * A, P), NEW r, r = RoundDiv(m * q, 100)
  PROVE  r - a \in -(m \div 200 + q \div 200 + 2) .. m \div 200 + q \div 200 + 2
  <1>1. /\ m \in Int /\ 2 * (n * m) <= 2 * P + n /\ 2 * (n * m) >= 2 * P - n
    BY RoundDivIsNear
  <1>2. /\ a \in Int /\ 2 * (n * a) <= 2 * A + n /\ 2 * (n * a) >= 2 * A - n
    BY RoundDivIsNear
  <1>3. /\ q \in Int /\ 2 * (P * q) <= 2 * (100 * A) + P /\ 2 * (P * q) >= 2 * (100 * A) - P
    BY RoundDivIsNear
  <1>4. /\ r \in Int /\ 2 * (100 * r) <= 2 * (m * q) + 100 /\ 2 * (100 * r) >= 2 * (m * q) - 100
    <2> DEFINE k == m * q
    <2>1. k \in Int /\ r = RoundDiv(k, 100)
      BY <1>1, <1>3
    <2> HIDE DEF k
    <2>2. r \in Int /\ 2 * (100 * r) <= 2 * k + 100 /\ 2 * (100 * r) >= 2 * k - 100
      BY <2>1, RoundDivIsNear
    <2> QED
      BY <2>2 DEF k
  <1>5. m >= 0
    <2>1. CASE m <= -1
      <3>1. n * m <= n * (-1)
        BY <1>1, <2>1, ProductsInOrder
      <3>2. n * (-1) = -n /\ n * m \in Int
        BY <1>1
      <3> QED
        BY <1>1, <3>1, <3>2
    <2> QED
      BY <1>1, <2>1
  <1>6. q >= 0
    <2>1. CASE q <= -1
      <3>1. P * q <= P * (-1)
        BY <1>3, <2>1, ProductsInOrder
      <3>2. P * (-1) = -P /\ P * q \in Int
        BY <1>3
      <3> QED
        BY <1>3, <3>1, <3>2
    <2> QED
      BY <1>3, <2>1
  <1> DEFINE nm == n * m
             na == n * a
             nq == n * q
             nr == n * r
             Pq == P * q
             mq == m * q
             nmq == n * mq
  <1>7. nm \in Int /\ na \in Int /\ nq \in Int /\ nr \in Int /\ Pq \in Int /\ mq \in Int
    BY <1>1, <1>2, <1>3, <1>4
  <1>8. nmq \in Int
    <2> HIDE DEF mq
    <2> QED
      BY <1>7
  <1>9. /\ n * (200 * r) = 200 * nr
        /\ n * (2 * mq + 100) = 2 * nmq + 100 * n
        /\ n * (2 * mq - 100) = 2 * nmq - 100 * n
    <2> HIDE DEF mq
    <2> QED
      BY <1>4, <1>7
  <1>10. q * (2 * nm) = 2 * nmq
    <2>1. \A x, y, z \in Int : x * (2 * (y * z)) = 2 * (y * (z * x))
      OBVIOUS
    <2> QED
      BY <1>1, <1>3, <2>1
  <1>11. q * (2 * P + n) = 2 * Pq + nq /\ q * (2 * P - n) = 2 * Pq - nq
    <2>1. \A x, y, z \in Int : x * (2 * y + z) = 2 * (y * x) + z * x /\ x * (2 * y - z) = 2 * (y * x) - z * x
      OBVIOUS
    <2> QED
      BY <1>3, <2>1
  <1>12. /\ n * (400 * r) = 400 * nr
         /\ n * (400 * a + 401 + 2 * m + 2 * q) = 400 * na + 401 * n + 2 * nm + 2 * nq
         /\ n * (400 * a - 401 - 2 * m - 2 * q) = 400 * na - 401 * n - 2 * nm - 2 * nq
    BY <1>1, <1>2, <1>3, <1>4
  <1>13. 2 * nm <= 2 * P + n /\ 2 * nm >= 2 * P - n
    BY <1>1
  <1>14. 2 * na <= 2 * A + n /\ 2 * na >= 2 * A - n
    BY <1>2
  <1>15. 2 * Pq <= 200 * A + P /\ 2 * Pq >= 200 * A - P
    BY <1>3
  <1>16. 200 * r <= 2 * mq + 100 /\ 200 * r >= 2 * mq - 100
    BY <1>4
  <1> HIDE DEF nm, na, nq, nr, Pq, mq, nmq
  <1>17. 200 * nr <= 2 * nmq + 100 * n /\ 200 * nr >= 2 * nmq - 100 * n
    <2>1. n * (200 * r) <= n * (2 * mq + 100) /\ n * (2 * mq - 100) <= n * (200 * r)
      BY <1>4, <1>7, <1>16, ProductsInOrder
    <2> QED
      BY <1>9, <2>1
  <1>18. 2 * nmq <= 2 * Pq + nq /\ 2 * nmq >= 2 * Pq - nq
    <2>1. q * (2 * nm) <= q * (2 * P + n) /\ q * (2 * P - n) <= q * (2 * nm)
      <3>1. q \in Nat /\ 2 * nm \in Int /\ 2 * P + n \in Int /\ 2 * P - n \in Int
        BY <1>3, <1>6, <1>7
      <3> QED
        BY <1>13, <3>1, ProductsInOrder
    <2> QED
      BY <1>10, <1>11, <2>1
  <1>19. 400 * nr <= 400 * na + 401 * n + 2 * nm + 2 * nq
    BY <1>7, <1>8, <1>13, <1>14, <1>15, <1>17, <1>18
  <1>20. 400 * nr >= 400 * na - 401 * n - 2 * nm - 2 * nq
    BY <1>7, <1>8, <1>13, <1>14, <1>15, <1>17, <1>18
  <1>21. 400 * r <= 400 * a + 401 + 2 * m + 2 * q
    BY <1>1, <1>2, <1>3, <1>4, <1>12, <1>19, ProductsInOrder
  <1>22. 400 * r >= 400 * a - 401 - 2 * m - 2 * q
    BY <1>1, <1>2, <1>3, <1>4, <1>12, <1>20, ProductsInOrder
  <1> DEFINE u == m \div 200
             v == q \div 200
  <1>23. /\ u \in Int /\ m <= 200 * u + 199
         /\ v \in Int /\ q <= 200 * v + 199
    BY <1>1, <1>3, <1>5, <1>6
  <1> HIDE DEF u, v
  <1>24. r - a <= u + v + 2 /\ r - a >= -(u + v + 2)
    BY <1>1, <1>2, <1>3, <1>4, <1>21, <1>22, <1>23
  <1>25. r - a \in -(u + v + 2) .. u + v + 2
    BY <1>2, <1>4, <1>23, <1>24
  <1> QED
    BY <1>25 DEF u, v

\* The pairs of a prediction and what was measured, by the indices.
PairsIn(e, I, now, days) ==
  PredictedIn(e, VerifiedIn(e, ShiftedIn(e, RecentIn(e, I, now, days))))

\* The pairs are picked, of all entries as of some.
LEMMA PairsByIndices ==
  ASSUME NEW n, NEW e, IsEntries(e, n), NEW I \in SUBSET (1 .. n), NEW now, NEW days
  PROVE  /\ PairsIn(e, I, now, days) \in SUBSET I
         /\ PairsIn(e, 1 .. n, now, days) \in SUBSET (1 .. n)
         /\ Pairs(Picked(e, I), now, days) = Picked(e, PairsIn(e, I, now, days))
         /\ Pairs(e, now, days) = Picked(e, PairsIn(e, 1 .. n, now, days))
  <1>1. ASSUME NEW J \in SUBSET (1 .. n), NEW p, Recent(p, now, days) = Picked(e, RecentIn(e, J, now, days))
        PROVE  /\ Pairs(p, now, days) = Picked(e, PairsIn(e, J, now, days))
               /\ PairsIn(e, J, now, days) \in SUBSET J
    <2> DEFINE R == RecentIn(e, J, now, days)
               S == ShiftedIn(e, R)
               V == VerifiedIn(e, S)
    <2>1. /\ R \in SUBSET J /\ S \in SUBSET R /\ V \in SUBSET S /\ PredictedIn(e, V) \in SUBSET V
      BY FilteredAreWithin
    <2>2. R \in SUBSET (1 .. n) /\ S \in SUBSET (1 .. n) /\ V \in SUBSET (1 .. n)
      BY <2>1
    <2> HIDE DEF R
    <2>3. Shifted(Picked(e, R)) = Picked(e, S)
      BY <2>2, FiltersPick
    <2> HIDE DEF S
    <2>4. Verified(Picked(e, S)) = Picked(e, V)
      BY <2>2, FiltersPick
    <2> HIDE DEF V
    <2>5. Predicted(Picked(e, V)) = Picked(e, PredictedIn(e, V))
      BY <2>2, FiltersPick
    <2>6. Pairs(p, now, days) = Picked(e, PredictedIn(e, V))
      BY <1>1, <2>3, <2>4, <2>5 DEF Pairs, R
    <2>7. PredictedIn(e, V) \in SUBSET J
      BY <2>1
    <2> QED
      BY <2>6, <2>7 DEF PairsIn, R, S, V
  <1>2. Recent(Picked(e, I), now, days) = Picked(e, RecentIn(e, I, now, days))
    BY FiltersPick
  <1>3. Recent(e, now, days) = Picked(e, RecentIn(e, 1 .. n, now, days))
    BY DEF Recent, RecentIn, IsEntries
  <1> QED
    BY <1>1, <1>2, <1>3

\* The pairs of all entries.
LEMMA PairsOfAll ==
  ASSUME NEW n, NEW e, IsEntries(e, n), NEW now, NEW days, NEW P, P = PairsIn(e, 1 .. n, now, days)
  PROVE  P \in SUBSET (1 .. n) /\ Pairs(e, now, days) = Picked(e, P)
  <1> DEFINE I == 1 .. n
  <1>1. I \in SUBSET (1 .. n) /\ P = PairsIn(e, I, now, days)
    OBVIOUS
  <1>2. PairsIn(e, 1 .. n, now, days) \in SUBSET (1 .. n)
    <2> HIDE DEF I
    <2> QED
      BY <1>1, PairsByIndices
  <1>3. Pairs(e, now, days) = Picked(e, PairsIn(e, 1 .. n, now, days))
    <2> HIDE DEF I
    <2> QED
      BY <1>1, PairsByIndices
  <1> QED
    BY <1>2, <1>3

\* A calibration, by the indices of its pairs.
LEMMA CalibrationByIndices ==
  ASSUME NEW n, NEW e, IsEntries(e, n), NEW P \in SUBSET (1 .. n),
         NEW p, NEW now, NEW days, Pairs(p, now, days) = Picked(e, P)
  PROVE  LET c == Calibration(p, now, days)
             predicted == SumOn(P, PredictedBy(e))
             actual == SumOn(P, ReductionBy(e))
         IN  /\ c.samples = Cardinality(P) /\ Cardinality(P) \in Nat
             /\ c.meanPredicted = MeanOn(P, PredictedBy(e))
             /\ c.meanActual = MeanOn(P, ReductionBy(e))
             /\ c.ratio = IF predicted = 0 THEN 0 ELSE RoundDiv(100 * actual, predicted)
  <1> DEFINE pairs == Pairs(p, now, days)
             predicted == SumOn(P, PredictedBy(e))
             actual == SumOn(P, ReductionBy(e))
             c == Calibration(p, now, days)
  <1>1. /\ Len(pairs) = Cardinality(P) /\ Cardinality(P) \in Nat
        /\ SumOf(Reductions(pairs)) = actual /\ SumOf(Predictions(pairs)) = predicted
        /\ MeanOrZero(Reductions(pairs)) = MeanOn(P, ReductionBy(e))
        /\ MeanOrZero(Predictions(pairs)) = MeanOn(P, PredictedBy(e))
    BY FiguresOfPicked
  <1>2. c = [samples |-> Len(pairs), meanPredicted |-> MeanOrZero(Predictions(pairs)),
             meanActual |-> MeanOrZero(Reductions(pairs)), meanError |-> MeanOrZero(Errors(pairs)),
             ratio |-> IF SumOf(Predictions(pairs)) = 0 THEN 0
                       ELSE RoundDiv(100 * SumOf(Reductions(pairs)), SumOf(Predictions(pairs)))]
    BY DEF Calibration
  <1> HIDE DEF pairs, predicted, actual, c
  <1>3. /\ c.samples = Cardinality(P) /\ c.meanPredicted = MeanOn(P, PredictedBy(e))
        /\ c.meanActual = MeanOn(P, ReductionBy(e))
        /\ c.ratio = IF predicted = 0 THEN 0 ELSE RoundDiv(100 * actual, predicted)
    BY <1>1, <1>2
  <1> QED
    BY <1>1, <1>3 DEF predicted, actual, c

\* What a calibration makes of the mean prediction is the mean reduction, but
\* for what rounding leaves open, when no reduction is negative.
LEMMA CalibrationIsNear ==
  ASSUME NEW n, NEW e, IsEntries(e, n), NEW now, NEW days,
         \A i \in 1 .. n : e[i].reduction \in Nat,
         \A i \in 1 .. n : e[i].predicted \in Nat \cup {Absent},
         Calibration(e, now, days).ratio > 0
  PROVE  LET c == Calibration(e, now, days)
         IN  AdjustedPrediction(c.meanPredicted, c.ratio) - c.meanActual
               \in -RatioRounding(c) .. RatioRounding(c)
  <1> DEFINE P == PairsIn(e, 1 .. n, now, days)
             c == Calibration(e, now, days)
             predicted == SumOn(P, PredictedBy(e))
             actual == SumOn(P, ReductionBy(e))
             k == Cardinality(P)
  <1>1. n \in Nat /\ DOMAIN e = 1 .. n
    BY DEF IsEntries
  <1>2. P \in SUBSET (1 .. n) /\ Pairs(e, now, days) = Picked(e, P)
    <2>1. P = PairsIn(e, 1 .. n, now, days)
      OBVIOUS
    <2> HIDE DEF P
    <2> QED
      BY <2>1, PairsOfAll
  <1>3. \A i \in P : e[i].predicted \in Nat /\ e[i].reduction \in Nat /\ i \in 1 .. n
    BY <1>2 DEF PairsIn, PredictedIn
  <1>4. IsFiniteSet(P)
    <2> HIDE DEF P
    <2>1. IsFiniteSet(1 .. n)
      BY <1>1, FS_Interval
    <2> QED
      BY <1>2, <2>1, FS_Subset
  <1>5. c.ratio > 0
    OBVIOUS
  <1> HIDE DEF P
  <1>6. /\ k \in Nat
        /\ c.meanPredicted = MeanOn(P, PredictedBy(e)) /\ c.meanActual = MeanOn(P, ReductionBy(e))
        /\ c.ratio = IF predicted = 0 THEN 0 ELSE RoundDiv(100 * actual, predicted)
    BY <1>2, CalibrationByIndices
  <1>7. (\A i \in P : PredictedBy(e)[i] \in Nat) /\ (\A i \in P : ReductionBy(e)[i] \in Nat)
    BY <1>1, <1>3 DEF PredictedBy, ReductionBy
  <1>8. predicted \in Nat /\ actual \in Nat
    BY <1>4, <1>7, SumOfNats
  <1> HIDE DEF c
  <1>9. predicted # 0 /\ c.ratio = RoundDiv(100 * actual, predicted)
    BY <1>5, <1>6
  <1>10. k # 0
    <2>1. ASSUME k = 0 PROVE FALSE
      <3>1. P = {}
        BY <1>4, <2>1, FS_EmptySet
      <3>2. SumOn({}, PredictedBy(e)) = 0
        BY SumOfNone
      <3> QED
        BY <1>9, <3>1, <3>2
    <2> QED
      BY <2>1
  <1>11. c.meanPredicted = RoundDiv(predicted, k) /\ c.meanActual = RoundDiv(actual, k)
    BY <1>6, <1>10 DEF MeanOn
  <1> DEFINE m == c.meanPredicted
             q == c.ratio
             a == c.meanActual
             r == RoundDiv(m * q, 100)
  <1> HIDE DEF predicted, actual, k
  <1>12. r - a \in -(m \div 200 + q \div 200 + 2) .. m \div 200 + q \div 200 + 2
    <2>1. predicted \in Nat \ {0} /\ k \in Nat \ {0} /\ actual \in Nat
      BY <1>6, <1>8, <1>9, <1>10
    <2>2. m = RoundDiv(predicted, k) /\ a = RoundDiv(actual, k) /\ q = RoundDiv(100 * actual, predicted)
      BY <1>9, <1>11
    <2>3. r = RoundDiv(m * q, 100)
      OBVIOUS
    <2> HIDE DEF m, q, a, r
    <2> QED
      BY <2>1, <2>2, <2>3, RatioOfMeans
  <1>13. AdjustedPrediction(c.meanPredicted, c.ratio) - c.meanActual \in -RatioRounding(c) .. RatioRounding(c)
    BY <1>12 DEF AdjustedPrediction, RatioRounding
  <1> QED
    BY <1>13 DEF c

\* The samples of the regions' calibrations add up to those of the whole.
LEMMA SamplesAddUp ==
  ASSUME NEW n, NEW e, IsEntries(e, n), NEW now, NEW days
  PROVE  OverSamples(CalibrationByRegion(e, now, days)) = Calibration(e, now, days).samples
  <1> DEFINE of == CalibrationByRegion(e, now, days)
             K == DOMAIN of
             P == PairsIn(e, 1 .. n, now, days)
             own(r) == OfRegionIn(e, 1 .. n, r)
             g == [i \in P |-> e[i].region]
             v == [r \in K |-> of[r].samples]
  <1>1. n \in Nat /\ DOMAIN e = 1 .. n
    BY DEF IsEntries
  <1>2. P \in SUBSET (1 .. n) /\ Pairs(e, now, days) = Picked(e, P)
    <2>1. P = PairsIn(e, 1 .. n, now, days)
      OBVIOUS
    <2> HIDE DEF P
    <2> QED
      BY <2>1, PairsOfAll
  <1>3. Calibration(e, now, days).samples = Cardinality(P)
    BY <1>2, CalibrationByIndices
  <1>4. ASSUME NEW r
        PROVE  /\ Calibration(OfRegion(e, r), now, days).samples = Cardinality(Group(P, g, r))
               /\ Cardinality(Group(P, g, r)) \in Nat
    <2> DEFINE O == own(r)
               Q == PairsIn(e, O, now, days)
    <2>1. OfRegion(e, r) = Picked(e, O)
      BY <1>1 DEF OfRegion, OfRegionIn
    <2>2. O \in SUBSET (1 .. n)
      BY FilteredAreWithin
    <2>3. Q = Group(P, g, r)
      BY DEF PairsIn, PredictedIn, VerifiedIn, ShiftedIn, RecentIn, OfRegionIn, Group
    <2> HIDE DEF O
    <2>41. Q \in SUBSET O
      BY <2>2, PairsByIndices
    <2>42. Pairs(Picked(e, O), now, days) = Picked(e, Q)
      BY <2>2, PairsByIndices
    <2>4. Q \in SUBSET O /\ Pairs(Picked(e, O), now, days) = Picked(e, Q)
      BY <2>41, <2>42
    <2> HIDE DEF Q
    <2>5. Q \in SUBSET (1 .. n)
      BY <2>2, <2>4
    <2>6. /\ Calibration(Picked(e, O), now, days).samples = Cardinality(Q)
          /\ Cardinality(Q) \in Nat
      BY <2>4, <2>5, CalibrationByIndices
    <2> QED
      BY <2>1, <2>3, <2>6
  <1>5. /\ K = {r \in RegionsOf(e) : Calibration(OfRegion(e, r), now, days).samples > 0}
        /\ \A r \in K : of[r] = Calibration(OfRegion(e, r), now, days)
    BY DEF CalibrationByRegion
  <1>6. IsFiniteSet(K)
    <2>1. IsFiniteSet(RegionsOf(e))
      <3>1. 1 .. n \in SUBSET (1 .. n)
        OBVIOUS
      <3> QED
        BY <3>1, RegionsArePicked
    <2>2. K \in SUBSET RegionsOf(e)
      BY <1>5
    <2> HIDE DEF K
    <2> QED
      BY <2>1, <2>2, FS_Subset
  <1>7. IsFiniteSet(P)
    <2> HIDE DEF P
    <2>1. IsFiniteSet(1 .. n)
      BY <1>1, FS_Interval
    <2> QED
      BY <1>2, <2>1, FS_Subset
  <1> HIDE DEF P, of
  <1>8. \A i \in P : e[i].region \in K
    <2> TAKE i \in P
    <2> DEFINE r == e[i].region
               G == Group(P, g, r)
    <2>1. r \in RegionsOf(e)
      BY <1>1, <1>2 DEF RegionsOf
    <2>2. i \in G /\ G \in SUBSET P
      BY DEF Group
    <2>3. Calibration(OfRegion(e, r), now, days).samples = Cardinality(G) /\ Cardinality(G) \in Nat
      BY <1>4
    <2> HIDE DEF G, r, K
    <2>4. Cardinality(G) # 0
      BY <1>7, <2>2, FS_Subset, FS_EmptySet
    <2> QED
      BY <1>5, <2>1, <2>3, <2>4 DEF r
  <1>9. \A r \in K : v[r] = Cardinality(Group(P, g, r)) /\ v[r] = of[r].samples /\ v[r] \in Int
    <2> TAKE r \in K
    <2>1. v[r] = of[r].samples
      OBVIOUS
    <2>2. of[r] = Calibration(OfRegion(e, r), now, days)
      BY <1>5
    <2>3. /\ Calibration(OfRegion(e, r), now, days).samples = Cardinality(Group(P, g, r))
          /\ Cardinality(Group(P, g, r)) \in Nat
      BY <1>4
    <2> HIDE DEF v, g, K
    <2> QED
      BY <2>1, <2>2, <2>3
  <1>10. g \in [P -> K]
    BY <1>8
  <1> HIDE DEF g, v
  <1>11. SumOn(K, v) = Cardinality(P)
    BY <1>6, <1>7, <1>9, <1>10, GroupsAddUp
  <1>12. OverSamples(of) = SumOn(K, v)
    BY <1>6, <1>9, SamplesFold
  <1> QED
    BY <1>3, <1>11, <1>12 DEF of

(* The figures of a host and of the fleet, of the recent entries R. *)
FiguresBy(host, fleet, e, R, top) ==
  LET S == ShiftedIn(e, R)
      recent == Picked(e, R)
  IN  /\ \A f \in {"jobs", "shifted", "measured", "withEnergy", "kg"} : host[f] = fleet[f]
      /\ fleet.jobs = Cardinality(R) /\ fleet.shifted = Cardinality(S)
      /\ fleet.kg = RoundDiv(SumOn(WithEnergyIn(e, S), AvoidedBy(e)), 100)
      /\ fleet.regions = TopRows({RegionRow(recent, r) : r \in RegionsOf(recent)}, top)

\* The fleet has the figures of the recent indices, and the host the same.
LEMMA FleetByIndices ==
  ASSUME NEW n, NEW e, IsEntries(e, n), NEW now, NEW days, NEW top
  PROVE  /\ RecentIn(e, 1 .. n, now, days) \in SUBSET (1 .. n)
         /\ FiguresBy(Summarize(e, now, days), FleetSummary(e, now, days, top), e,
                      RecentIn(e, 1 .. n, now, days), top)
  <1> DEFINE fleet == FleetSummary(e, now, days, top)
             host == Summarize(e, now, days)
             R == RecentIn(e, 1 .. n, now, days)
             S == ShiftedIn(e, R)
             recent == Picked(e, R)
             rows == TopRows({RegionRow(recent, r) : r \in RegionsOf(recent)}, top)
             kg == RoundDiv(SumOn(WithEnergyIn(e, S), AvoidedBy(e)), 100)
  <1>1. R \in SUBSET (1 .. n)
    BY DEF RecentIn
  <1>2. Recent(e, now, days) = recent
    BY DEF Recent, RecentIn, IsEntries
  <1>3. host = SummaryOn(e, R)
    BY SummaryByIndices
  <1>4. host.jobs = Cardinality(R) /\ host.shifted = Cardinality(S) /\ host.kg = kg
    BY <1>3 DEF SummaryOn
  <1> HIDE DEF R, S, kg, rows
  <1>5. LET shifted == Shifted(recent)
        IN  /\ host.jobs = Len(recent) /\ host.shifted = Len(shifted)
            /\ host.measured = Len(Verified(shifted)) /\ host.withEnergy = Len(WithEnergy(shifted))
            /\ host.kg = RoundDiv(Avoided(WithEnergy(shifted)), 100)
    BY <1>2 DEF Summarize
  <1>6. LET shifted == Shifted(recent)
        IN  /\ fleet.jobs = Len(recent) /\ fleet.shifted = Len(shifted)
            /\ fleet.measured = Len(Verified(shifted)) /\ fleet.withEnergy = Len(WithEnergy(shifted))
            /\ fleet.kg = RoundDiv(Avoided(WithEnergy(shifted)), 100)
            /\ fleet.regions = rows
    BY <1>2 DEF FleetSummary, rows
  <1> HIDE DEF recent, fleet, host
  <1>7. \A f \in {"jobs", "shifted", "measured", "withEnergy", "kg"} : host[f] = fleet[f]
    BY <1>5, <1>6
  <1>8. fleet.jobs = Cardinality(R) /\ fleet.shifted = Cardinality(S) /\ fleet.kg = kg
    BY <1>4, <1>7
  <1> QED
    BY <1>1, <1>6, <1>7, <1>8 DEF FiguresBy, fleet, host, R, S, recent, rows, kg

(* What LedgerAgrees says of a question's entries and its answer. *)
LedgerKept(q, a) ==
  LET calibration == a.statement.calibration
      dated == Picked(q.entries, {i \in DOMAIN q.entries : q.entries[i].ts # None})
  IN  /\ \A f \in {"jobs", "shifted", "measured", "withEnergy", "kg"} : a.host[f] = a.fleet[f]
      /\ Cardinality(RegionsOf(q.entries)) <= q.top =>
            /\ OverRegions(a.fleet.regions, "jobs") = a.fleet.jobs
            /\ OverRegions(a.fleet.regions, "shifted") = a.fleet.shifted
            /\ OverRegions(a.fleet.regions, "kg") - a.fleet.kg
                  \in -Cardinality(a.fleet.regions) .. Cardinality(a.fleet.regions)
      /\ calibration.ratio > 0 =>
            AdjustedPrediction(calibration.meanPredicted, calibration.ratio) - calibration.meanActual
               \in -RatioRounding(calibration) .. RatioRounding(calibration)
      /\ OverSamples(a.byRegion) = calibration.samples
      /\ Summarize(ServerCopy(dated), q.now, q.days) = Summarize(dated, q.now, q.days)

\* An asked ledger's entries, and those of them that have a day.
LEMMA AskedEntries ==
  ASSUME NEW q, IsLedgerQuestion(q)
  PROVE  \E n : LET e == q.entries
                    D == {i \in DOMAIN e : e[i].ts # None}
                    dated == Picked(e, D)
                IN  /\ IsEntries(e, n)
                    /\ \A i \in 1 .. n : e[i].reduction \in Nat
                    /\ \A i \in 1 .. n : e[i].predicted \in Nat \cup {Absent}
                    /\ IsEntries(dated, Cardinality(D))
                    /\ \A k \in 1 .. Cardinality(D) : dated[k].ts \in Nat
  <1> DEFINE e == q.entries
             n == Len(e)
             D == {i \in DOMAIN e : e[i].ts # None}
             dated == Picked(e, D)
  <1>1. e \in Seq(Range(e))
    BY DEF IsLedgerQuestion
  <1>2. n \in Nat /\ DOMAIN e = 1 .. n
    <2> HIDE DEF e
    <2> QED
      BY <1>1, LenProperties
  <1>3. \A i \in 1 .. n : /\ e[i].ts \in Nat \cup {None} /\ e[i].reduction \in Nat
                          /\ e[i].predicted \in Nat \cup {Absent} /\ e[i].energy \in Nat \cup {None}
    <2> TAKE i \in 1 .. n
    <2>1. e[i] \in Range(e)
      BY <1>2 DEF Range
    <2> HIDE DEF e, n
    <2> QED
      BY <2>1 DEF IsLedgerQuestion, e
  <1> HIDE DEF e, n
  <1>4. IsEntries(e, n)
    BY <1>2, <1>3 DEF IsEntries, None, Absent
  <1>5. D \in SUBSET (1 .. n) /\ \A i \in D : e[i].ts \in Nat
    BY <1>2, <1>3
  <1> HIDE DEF D
  <1>6. /\ DOMAIN dated = 1 .. Cardinality(D) /\ Cardinality(D) \in Nat
        /\ \A k \in DOMAIN dated : NthOf(D, k) \in D /\ dated[k] = e[NthOf(D, k)]
    BY <1>2, <1>5, PickedAt
  <1> HIDE DEF dated
  <1>7. IsEntries(dated, Cardinality(D))
    BY <1>4, <1>5, <1>6 DEF IsEntries
  <1>8. \A k \in 1 .. Cardinality(D) : dated[k].ts \in Nat
    BY <1>5, <1>6
  <1>9. /\ \A i \in 1 .. n : e[i].reduction \in Nat
        /\ \A i \in 1 .. n : e[i].predicted \in Nat \cup {Absent}
    BY <1>3
  <1> QED
    BY <1>4, <1>7, <1>8, <1>9 DEF dated, D, e

\* A ledger's answer keeps the promise.
LEMMA LedgerKeepsPromise ==
  ASSUME NEW q, IsLedgerQuestion(q), NEW a, NEW e, e = q.entries,
         a.host = Summarize(e, q.now, q.days),
         a.fleet = FleetSummary(e, q.now, q.days, q.top),
         a.statement.calibration = Calibration(e, q.now, q.days),
         a.byRegion = CalibrationByRegion(e, q.now, q.days)
  PROVE  LedgerKept(q, a)
  <1> DEFINE D == {i \in DOMAIN e : e[i].ts # None}
             dated == Picked(e, D)
             d == Cardinality(D)
             R(m) == RecentIn(e, 1 .. m, q.now, q.days)
             c == Calibration(e, q.now, q.days)
             now == q.now
             days == q.days
             top == q.top
  <1>1. PICK n : /\ IsEntries(e, n)
                 /\ \A i \in 1 .. n : e[i].reduction \in Nat
                 /\ \A i \in 1 .. n : e[i].predicted \in Nat \cup {Absent}
                 /\ IsEntries(dated, d)
                 /\ \A k \in 1 .. d : dated[k].ts \in Nat
    BY AskedEntries
  <1>2. dated = Picked(q.entries, {i \in DOMAIN q.entries : q.entries[i].ts # None})
    OBVIOUS
  <1> HIDE DEF D, dated, d
  <1>3. Summarize(ServerCopy(dated), now, days) = Summarize(dated, now, days)
    BY <1>1, CopySummarizesAlike
  <1>4. OverSamples(a.byRegion) = c.samples
    BY <1>1, SamplesAddUp
  <1>5. c.ratio > 0 => AdjustedPrediction(c.meanPredicted, c.ratio) - c.meanActual
                         \in -RatioRounding(c) .. RatioRounding(c)
    BY <1>1, CalibrationIsNear
  <1> DEFINE recent == Picked(e, R(n))
             rows == TopRows({RegionRow(recent, r) : r \in RegionsOf(recent)}, top)
             S == ShiftedIn(e, R(n))
             kg == RoundDiv(SumOn(WithEnergyIn(e, S), AvoidedBy(e)), 100)
  <1>6. /\ \A f \in {"jobs", "shifted", "measured", "withEnergy", "kg"} : a.host[f] = a.fleet[f]
        /\ R(n) \in SUBSET (1 .. n)
        /\ a.fleet.jobs = Cardinality(R(n)) /\ a.fleet.shifted = Cardinality(S)
        /\ a.fleet.kg = kg /\ a.fleet.regions = rows
    <2>1. IsEntries(e, n)
      BY <1>1
    <2>2. R(n) \in SUBSET (1 .. n) /\ FiguresBy(a.host, a.fleet, e, R(n), top)
      <3>1. /\ R(n) \in SUBSET (1 .. n)
            /\ FiguresBy(Summarize(e, now, days), FleetSummary(e, now, days, top), e, R(n), top)
        BY <2>1, FleetByIndices
      <3> HIDE DEF R
      <3> QED
        BY <3>1
    <2> HIDE DEF R
    <2> QED
      BY <2>2 DEF FiguresBy
  <1>7. top \in Nat
    BY DEF IsLedgerQuestion
  <1> HIDE DEF R, c
  <1>8. ASSUME Cardinality(RegionsOf(e)) <= top
        PROVE  /\ OverRegions(rows, "jobs") = Cardinality(R(n))
               /\ OverRegions(rows, "shifted") = Cardinality(S)
               /\ OverRegions(rows, "kg") - kg \in -Cardinality(rows) .. Cardinality(rows)
    BY <1>1, <1>6, <1>7, <1>8, FleetAddsUp
  <1> HIDE DEF rows, S, kg
  <1>9. Cardinality(RegionsOf(q.entries)) <= q.top =>
            /\ OverRegions(a.fleet.regions, "jobs") = a.fleet.jobs
            /\ OverRegions(a.fleet.regions, "shifted") = a.fleet.shifted
            /\ OverRegions(a.fleet.regions, "kg") - a.fleet.kg
                  \in -Cardinality(a.fleet.regions) .. Cardinality(a.fleet.regions)
    BY <1>6, <1>8
  <1>10. a.statement.calibration = c
    BY DEF c
  <1> QED
    BY <1>2, <1>3, <1>4, <1>5, <1>6, <1>9, <1>10 DEF LedgerKept

(***************************************************************************)
(* The ledger's aggregations (cli/ledger.py) agree, whatever the entries:  *)
(* the host's summary with the fleet's, the regions' rows with their sum   *)
(* but for a rounding each, a calibration in use with what was measured    *)
(* but for what rounding leaves open, the regions' samples with all of     *)
(* them, and the summary of the server's copy of dated entries             *)
(* (accounting/impact_repo.py) with that of the entries.                   *)
(***************************************************************************)
THEOREM LedgersAgree == QuestionsSpec => []LedgerAgrees
  <1>1. Replies => LedgerAgrees
    <2> SUFFICES ASSUME Replies, Replied("ledger") PROVE LedgerAgrees
      BY DEF LedgerAgrees
    <2>1. IsLedgerQuestion(question)
      BY QuestionsAssumption DEF Replies, Replied
    <2>2. answer = LedgerAnswer
      BY DEF Replies
    <2> DEFINE e == question.entries
    <2>3. /\ answer.host = Summarize(e, question.now, question.days)
          /\ answer.fleet = FleetSummary(e, question.now, question.days, question.top)
          /\ answer.byRegion = CalibrationByRegion(e, question.now, question.days)
      BY <2>2 DEF LedgerAnswer
    <2>4. answer.statement = OrgStatement(e, question.now, question.days)
      BY <2>2 DEF LedgerAnswer
    <2>5. OrgStatement(e, question.now, question.days).calibration = Calibration(e, question.now, question.days)
      BY DEF OrgStatement
    <2>6. LedgerKept(question, answer)
      BY <2>1, <2>3, <2>4, <2>5, LedgerKeepsPromise
    <2> QED
      BY <2>6, Zenon DEF LedgerAgrees, LedgerKept
  <1> QED
    BY <1>1, RepliesInvariant, PTL

----------------------------------------------------------------------------
(* The search for a slot to run in.                                        *)

RegionRecords == [provider : STRING, region : STRING, zone : STRING, offset : -12 .. 14,
                  areas : SUBSET STRING]
Strategies == {"lowest_carbon", "highest_renewable", "balanced"}

IsEnvironment(env) ==
    /\ env.hour \in Int
    /\ env.regions \in Seq(RegionRecords)
    /\ \A z \in DOMAIN env.readings : env.readings[z] \in ReadingRecords
    /\ \A z \in DOMAIN env.curves : \A h \in DOMAIN env.curves[z] : env.curves[z][h] \in 0 .. 100

IsRequest(req) ==
    /\ req.minutes \in Nat \ {0}
    /\ req.providers \in Seq(STRING)
    /\ req.preferred \in Seq(STRING)
    /\ req.strategy \in Strategies
    /\ req.maxDelay \in Nat \ {0}

\* The greatest of two integers is the larger.
LEMMA GreatestOfTwo ==
  ASSUME NEW a \in Int, NEW b \in Int
  PROVE  Greatest({a, b}) = IF a >= b THEN a ELSE b
  <1> DEFINE m == IF a >= b THEN a ELSE b
  <1>1. m \in {a, b} /\ \A y \in {a, b} : m >= y
    OBVIOUS
  <1>2. \A x \in {a, b} : (\A y \in {a, b} : x >= y) => x = m
    OBVIOUS
  <1> QED
    BY <1>1, <1>2 DEF Greatest

\* The regions searched are regions of the map.
LEMMA RegionsResolved ==
  ASSUME NEW env, IsEnvironment(env), NEW req, IsRequest(req)
  PROVE  ResolveRegions(env, req) \in Seq(RegionRecords)
  <1> DEFINE asked == Len(req.preferred)
             named(n) == {r \in Range(env.regions) : Named(r, req.providers[((n - 1) \div asked) + 1],
                                                            req.preferred[((n - 1) % asked) + 1])}
             m == Len(req.providers) * asked
             pairs == [n \in 1 .. m |-> CHOOSE r \in named(n) : TRUE]
             I == {n \in 1 .. m : named(n) # {}}
  <1>1. env.regions \in Seq(RegionRecords) /\ asked \in Nat /\ Len(req.providers) \in Nat
    BY DEF IsEnvironment, IsRequest
  <1>2. \A x, y \in Nat : x * y \in Nat
    OBVIOUS
  <1>3. m \in Nat
    BY <1>1, <1>2
  <1>4. \A r \in Range(env.regions) : r \in RegionRecords
    BY <1>1 DEF Range
  <1>5. \A n \in I : pairs[n] \in RegionRecords
    <2> TAKE n \in I
    <2>1. named(n) # {} /\ pairs[n] = CHOOSE r \in named(n) : TRUE
      OBVIOUS
    <2>2. pairs[n] \in named(n)
      BY <2>1
    <2> QED
      BY <2>2, <1>4
  <1>6. ResolveRegions(env, req) =
          IF req.preferred = <<>>
          THEN Picked(env.regions, {i \in DOMAIN env.regions : env.regions[i].provider \in Range(req.providers)})
          ELSE Picked(pairs, I)
    BY DEF ResolveRegions
  <1>7. DOMAIN pairs = 1 .. m /\ I \in SUBSET (1 .. m)
    OBVIOUS
  <1>8. Picked(pairs, I) \in Seq(RegionRecords)
    <2> HIDE DEF m, pairs, I
    <2> DEFINE p == Picked(pairs, I)
    <2>1. DOMAIN p = 1 .. Cardinality(I) /\ Cardinality(I) \in Nat
      BY PickedAt, <1>3, <1>7
    <2>2. \A k \in DOMAIN p : NthOf(I, k) \in I /\ p[k] = pairs[NthOf(I, k)]
      BY PickedAt, <1>3, <1>7
    <2>3. p = [k \in 1 .. Cardinality(I) |-> p[k]]
      BY DEF Picked
    <2> HIDE DEF p
    <2>4. \A k \in 1 .. Cardinality(I) : p[k] \in RegionRecords
      BY <2>1, <2>2, <1>5
    <2>5. p \in Seq(RegionRecords)
      BY <2>1, <2>3, <2>4
    <2> QED
      BY <2>5 DEF p
  <1>9. Picked(env.regions, {i \in DOMAIN env.regions : env.regions[i].provider \in Range(req.providers)})
          \in Seq(RegionRecords)
    BY <1>1, PickedRange
  <1> QED
    BY <1>6, <1>8, <1>9

\* So are those of them whose zone has a reading.
LEMMA RegionsAnswered ==
  ASSUME NEW env, IsEnvironment(env), NEW req, IsRequest(req)
  PROVE  /\ AnsweredRegions(env, req) \in Seq(RegionRecords)
         /\ \A i \in DOMAIN AnsweredRegions(env, req) :
                AnsweredRegions(env, req)[i].zone \in DOMAIN env.readings
  <1> DEFINE regions == ResolveRegions(env, req)
             I == {i \in DOMAIN regions : \A j \in DOMAIN regions : j < i => regions[j].zone # regions[i].zone}
             zones == ZoneMap(env, req)
             J == {i \in DOMAIN zones : zones[i].zone \in DOMAIN env.readings}
             answered == AnsweredRegions(env, req)
  <1>1. zones = Picked(regions, I) /\ answered = Picked(zones, J)
    BY DEF ZoneMap, AnsweredRegions
  <1>2. I \in SUBSET DOMAIN regions /\ J \in SUBSET DOMAIN zones
    OBVIOUS
  <1>3. \A i \in J : zones[i].zone \in DOMAIN env.readings
    OBVIOUS
  <1>4. regions \in Seq(RegionRecords)
    BY RegionsResolved
  <1> HIDE DEF regions, I, zones, J, answered
  <1>5. zones \in Seq(RegionRecords)
    BY <1>1, <1>2, <1>4, PickedRange
  <1>6. answered \in Seq(RegionRecords) /\ Range(answered) = {zones[i] : i \in J}
    BY <1>1, <1>2, <1>5, PickedRange
  <1>7. \A i \in DOMAIN answered : answered[i] \in Range(answered)
    BY DEF Range
  <1>8. \A i \in DOMAIN answered : answered[i].zone \in DOMAIN env.readings
    BY <1>3, <1>6, <1>7
  <1> QED
    BY <1>6, <1>8 DEF answered

(* A slot as the sort compares it, and the slot that comes first. *)
SlotKey(slots, strategy, i) ==
    [score |-> IF strategy = "highest_renewable" THEN -slots[i].score ELSE slots[i].score, at |-> i]
Leads(slots, strategy, i) ==
    /\ i \in DOMAIN slots
    /\ \A j \in DOMAIN slots : RanksBefore(SlotKey(slots, strategy, i), SlotKey(slots, strategy, j))

ScoredSlots(slots, n) ==
    /\ n \in Nat \ {0}
    /\ DOMAIN slots = 1 .. n
    /\ \A i \in 1 .. n : slots[i].score \in Int

\* One slot leads the others, and one alone.
LEMMA OneLeads ==
  ASSUME NEW slots, NEW n, ScoredSlots(slots, n), NEW strategy,
         NEW i, Leads(slots, strategy, i), NEW j, Leads(slots, strategy, j)
  PROVE  i = j
  <1> DEFINE key(k) == SlotKey(slots, strategy, k)
  <1>1. \A k \in 1 .. n : key(k).score \in Int /\ key(k).at = k
    BY DEF SlotKey, ScoredSlots
  <1>2. i \in 1 .. n /\ j \in 1 .. n /\ RanksBefore(key(i), key(j)) /\ RanksBefore(key(j), key(i))
    BY DEF Leads, ScoredSlots
  <1> HIDE DEF key
  <1>3. key(i).score \in Int /\ key(j).score \in Int /\ key(i).at = i /\ key(j).at = j
    BY <1>1, <1>2
  <1>4. i \in Int /\ j \in Int
    BY <1>2 DEF ScoredSlots
  <1> QED
    BY <1>2, <1>3, <1>4 DEF RanksBefore

\* The slots are ranked with that one first.
LEMMA LeaderIsRankedFirst ==
  ASSUME NEW slots, NEW n, ScoredSlots(slots, n), NEW strategy
  PROVE  /\ \E i : Leads(slots, strategy, i) /\ RankSlots(slots, strategy)[1] = slots[i]
         /\ DOMAIN RankSlots(slots, strategy) = 1 .. n
  <1> DEFINE key(k) == SlotKey(slots, strategy, k)
             S == {key(k) : k \in DOMAIN slots}
             ranked == SortedByScore(S)
  <1>1. RankSlots(slots, strategy) = [k \in DOMAIN ranked |-> slots[ranked[k].at]]
    BY DEF RankSlots, SlotKey
  <1>2. \A k \in 1 .. n : key(k).score \in Int /\ key(k).at = k
    BY DEF SlotKey, ScoredSlots
  <1>3. DOMAIN slots = 1 .. n /\ n \in Nat \ {0}
    BY DEF ScoredSlots
  <1> HIDE DEF key
  <1>4. IsFiniteSet(1 .. n) /\ Cardinality(1 .. n) = n
    BY <1>3, FS_Interval
  <1>6. \A c \in S : \E k \in 1 .. n : c = key(k)
    BY <1>3
  <1>7. \A c \in S : c.score \in Int /\ c.at \in Int
    BY <1>2, <1>3, <1>6
  <1>8. \A c, d \in S : c.at = d.at => c = d
    BY <1>2, <1>6
  <1>9. S # {} /\ \A k \in 1 .. n : key(k) \in S
    BY <1>3
  <1>10. IsFiniteSet(S) /\ Cardinality(S) = n
    <2> DEFINE f == [k \in 1 .. n |-> key(k)]
    <2>1. \A k, l \in 1 .. n : f[k] = f[l] => k = l
      BY <1>2
    <2>2. \A c \in S : \E k \in 1 .. n : f[k] = c
      BY <1>6
    <2>3. f \in [1 .. n -> S]
      BY <1>9
    <2> HIDE DEF f, S
    <2>4. f \in Bijection(1 .. n, S)
      BY <2>1, <2>2, <2>3 DEF Bijection, Injection, Surjection, IsInjective
    <2> QED
      BY <2>4, <1>4, FS_Bijection DEF ExistsBijection
  <1> HIDE DEF S, ranked
  <1>11. DOMAIN ranked = 1 .. Cardinality(S) /\ ranked \in Seq(S)
    BY <1>10, <1>7, <1>8, SortedAre DEF ranked
  <1>12. \A c \in S : RanksBefore(ranked[1], c)
    BY <1>10, <1>7, <1>8, <1>9, SortedAre DEF ranked
  <1>13. ranked[1] \in S
    BY <1>11, <1>10, <1>3
  <1>14. PICK i \in 1 .. n : ranked[1] = key(i)
    BY <1>13, <1>6
  <1>15. Leads(slots, strategy, i)
    BY <1>3, <1>9, <1>12, <1>14 DEF Leads, key
  <1>16. RankSlots(slots, strategy)[1] = slots[i]
    BY <1>1, <1>2, <1>3, <1>10, <1>11, <1>14
  <1> QED
    BY <1>1, <1>10, <1>11, <1>15, <1>16

\* A job takes an hour at least, slots are an hour apart at least, and a
\* search of one hour looks at the current one alone.
LEMMA SlotSpacing ==
  ASSUME NEW m \in Nat \ {0}
  PROVE  /\ SlotInterval(m) \in Nat \ {0}
         /\ SlotInterval(1) = 1
         /\ (m + SlotInterval(m) - 1) \div SlotInterval(m) \in Nat \ {0}
         /\ DurationHours(m) \in Nat \ {0}
  <1>1. HoursPerDay \in Nat \ {0}
    BY SchedulerAssumption
  <1>2. \A a \in Nat, d \in Nat \ {0} : a \div d \in Nat /\ (a >= d => a \div d >= 1)
    <2> TAKE a \in Nat, d \in Nat \ {0}
    <2> DEFINE k == a \div d
    <2>1. k \in Int /\ d * k <= a /\ a < d * k + d
      OBVIOUS
    <2> HIDE DEF k
    <2>2. k >= 0
      <3> SUFFICES ASSUME k < 0 PROVE FALSE
        BY <2>1
      <3>1. d * (k + 1) <= 0 /\ d * (k + 1) = d * k + d
        BY <2>1
      <3> QED
        BY <2>1, <3>1
    <2>3. k = 0 => a < d
      BY <2>1
    <2> QED
      BY <2>1, <2>2, <2>3 DEF k
  <1>3. m \div HoursPerDay \in Nat /\ 1 \div HoursPerDay \in Nat
    BY <1>1, <1>2
  <1>4. 1 \div HoursPerDay <= 1
    <2> DEFINE k == 1 \div HoursPerDay
    <2>1. k \in Nat /\ HoursPerDay * k <= 1
      BY <1>1, <1>3
    <2> HIDE DEF k
    <2>2. k >= 2 => HoursPerDay * k >= k
      BY <1>1, <2>1
    <2>3. k <= 1
      BY <2>1, <2>2, <1>1
    <2> QED
      BY <2>3 DEF k
  <1>5. SlotInterval(m) = IF 1 >= m \div HoursPerDay THEN 1 ELSE m \div HoursPerDay
    BY <1>3, GreatestOfTwo DEF SlotInterval
  <1>6. SlotInterval(m) \in Nat \ {0}
    BY <1>3, <1>5
  <1>7. SlotInterval(1) = 1
    BY <1>3, <1>4, GreatestOfTwo DEF SlotInterval
  <1>8. m + SlotInterval(m) - 1 \in Nat /\ m + SlotInterval(m) - 1 >= SlotInterval(m)
    BY <1>6
  <1>9. (m + SlotInterval(m) - 1) \div SlotInterval(m) \in Nat \ {0}
    BY <1>2, <1>6, <1>8
  <1>10. DurationHours(m) \in Nat \ {0}
    <2>1. (m + 59) \div 60 \in Nat
      OBVIOUS
    <2> QED
      BY <2>1, GreatestOfTwo DEF DurationHours
  <1> QED
    BY <1>6, <1>7, <1>9, <1>10

\* The mean of whole figures is whole, and of none below zero is not below zero.
LEMMA MeanIsWhole ==
  ASSUME NEW n \in Nat \ {0}, NEW w, w = [i \in 1 .. n |-> w[i]], \A i \in 1 .. n : w[i] \in Int
  PROVE  Mean(w) \in Int /\ ((\A i \in 1 .. n : w[i] \in Nat) => Mean(w) \in Nat)
  <1>1. w \in Seq(Int) /\ DOMAIN w = 1 .. n
    OBVIOUS
  <1>2. Len(w) = n
    BY <1>1, LenProperties
  <1>3. IsFiniteSet(DOMAIN w) /\ IntsOn(DOMAIN w, w)
    BY <1>1, FS_Interval DEF IntsOn
  <1>4. SumOf(w) = SumOn(DOMAIN w, w) /\ SumOf(w) \in Int
    BY <1>3, SumOfIsSumOn
  <1>5. Mean(w) \in Int
    BY <1>2, <1>4, RoundDivIsInt DEF Mean
  <1>6. ASSUME \A i \in 1 .. n : w[i] \in Nat PROVE Mean(w) \in Nat
    <2>1. SumOf(w) \in Nat
      BY <1>1, <1>3, <1>4, <1>6, SumOfNats
    <2> QED
      BY <1>2, <2>1, RoundDivFacts DEF Mean
  <1> QED
    BY <1>5, <1>6

IsCurve(curve) == \A h \in DOMAIN curve : curve[h] \in 0 .. 100

\* A product of integers is one.
LEMMA IntProduct ==
  ASSUME NEW x \in Int, NEW y \in Int
  PROVE  x * y \in Int
  OBVIOUS

\* A projection is a figure of its kind.
LEMMA ProjectionIsWhole ==
  ASSUME NEW utc \in Int, NEW current \in ReadingRecords, NEW curve, IsCurve(curve),
         NEW h \in Nat, NEW offset \in Int
  PROVE  /\ ProjectAt(utc, current, curve, h, offset).carbon \in Nat
         /\ ProjectAt(utc, current, curve, h, offset).renewable \in 0 .. 1000
  <1>1. \A x, y \in Int : x * y \in Int
    OBVIOUS
  <1>2. current.carbon \in Nat /\ current.renewable \in 0 .. 1000
    BY DEF ReadingRecords
  <1>3. \A x \in Int : Clamp(x, 0, 1000000) \in Nat
    BY SMT DEF Clamp
  <1>6. \A x \in Int : Clamp(x, 0, 1000) \in 0 .. 1000
    BY SMT DEF Clamp
  <1>4. /\ ProjectIntensity(utc, current, h, offset).carbon \in Nat
        /\ ProjectIntensity(utc, current, h, offset).renewable \in 0 .. 1000
    <2> DEFINE local == (utc + h + offset) % 24
               factor == 2400 + 36 * DemandFactor(local) - 10 * SolarFactor(local)
               c == current.carbon * factor
               s == current.renewable * (360 + SolarFactor(local))
    <2>1. local \in Int
      OBVIOUS
    <2> HIDE DEF local
    <2>2. DemandFactor(local) \in Int
      BY DEF DemandFactor
    <2>3. SolarFactor(local) \in Int
      BY <2>1, <1>1 DEF SolarFactor
    <2>4. factor \in Int
      BY <2>2, <2>3
    <2> HIDE DEF factor, c, s
    <2>5. c \in Int /\ s \in Int
      <3>1. current.carbon \in Int /\ current.renewable \in Int /\ 360 + SolarFactor(local) \in Int
        BY <2>3, <1>2
      <3>2. c \in Int
        BY <2>4, <3>1, IntProduct DEF c
      <3>3. s \in Int
        BY <3>1, IntProduct DEF s
      <3> QED
        BY <3>2, <3>3
    <2>6. RoundDiv(c, 2400) \in Int /\ RoundDiv(s, 360) \in Int
      BY <2>5, RoundDivIsInt
    <2>7. h # 0 => /\ ProjectIntensity(utc, current, h, offset).carbon = Clamp(RoundDiv(c, 2400), 0, 1000000)
                   /\ ProjectIntensity(utc, current, h, offset).renewable = Clamp(RoundDiv(s, 360), 0, 1000)
      BY SMT DEF ProjectIntensity, Reading, local, factor, c, s
    <2>8. h = 0 => ProjectIntensity(utc, current, h, offset) = current
      BY SMT DEF ProjectIntensity
    <2> DEFINE p == ProjectIntensity(utc, current, h, offset)
    <2>9. h # 0 => p.carbon \in Nat /\ p.renewable \in 0 .. 1000
      <3>1. Clamp(RoundDiv(c, 2400), 0, 1000000) \in Nat
        BY SMT, <1>3, <2>6
      <3>2. Clamp(RoundDiv(s, 360), 0, 1000) \in 0 .. 1000
        BY SMT, <1>6, <2>6
      <3> QED
        BY SMT, <2>7, <3>1, <3>2
    <2>10. h = 0 => p.carbon \in Nat /\ p.renewable \in 0 .. 1000
      BY <1>2, <2>8
    <2> QED
      BY <2>9, <2>10
  <1>5. ASSUME {0, h} \subseteq DOMAIN curve, h = 0 \/ curve[0] < 99
        PROVE  /\ ProjectWithForecast(current, curve[0], curve[h], h).carbon \in Nat
               /\ ProjectWithForecast(current, curve[0], curve[h], h).renewable \in 0 .. 1000
    <2> DEFINE c == current.carbon * (100 - curve[h])
               d == 100 - curve[0]
               s == current.renewable + 10 * (curve[h] - curve[0])
    <2>1. curve[0] \in 0 .. 100 /\ curve[h] \in 0 .. 100
      BY <1>5 DEF IsCurve
    <2>2. c \in Int
      BY <2>1, <1>1, <1>2
    <2>3. s \in Int
      <3> DEFINE x == current.renewable
                 y == curve[h]
                 z == curve[0]
      <3>1. x \in Int /\ y \in Int /\ z \in Int
        BY <2>1, <1>2
      <3> HIDE DEF x, y, z
      <3>2. x + 10 * (y - z) \in Int
        BY <3>1
      <3> QED
        BY <3>2 DEF x, y, z
    <2>4. h # 0 => d \in Nat \ {0}
      BY <2>1, <1>5
    <2>5. h # 0 => /\ ProjectWithForecast(current, curve[0], curve[h], h).carbon = Clamp(RoundDiv(c, d), 0, 1000000)
                   /\ ProjectWithForecast(current, curve[0], curve[h], h).renewable = Clamp(s, 0, 1000)
      BY SMT DEF ProjectWithForecast, Reading
    <2>6. h = 0 => ProjectWithForecast(current, curve[0], curve[h], h) = current
      BY SMT DEF ProjectWithForecast
    <2> HIDE DEF c, d, s
    <2>7. h # 0 => RoundDiv(c, d) \in Int
      BY <2>2, <2>4, RoundDivIsInt
    <2> DEFINE p == ProjectWithForecast(current, curve[0], curve[h], h)
    <2>8. h # 0 => p.carbon \in Nat /\ p.renewable \in 0 .. 1000
      <3>1. h # 0 => Clamp(RoundDiv(c, d), 0, 1000000) \in Nat
        BY SMT, <1>3, <2>7
      <3>2. Clamp(s, 0, 1000) \in 0 .. 1000
        BY SMT, <1>6, <2>3
      <3> QED
        BY SMT, <2>5, <3>1, <3>2
    <2>9. h = 0 => p.carbon \in Nat /\ p.renewable \in 0 .. 1000
      BY <1>2, <2>6
    <2> QED
      BY <2>8, <2>9
  <1> QED
    BY SMT, <1>4, <1>5 DEF ProjectAt

\* The zones forecast are zones with a curve and a reading.
LEMMA ForecastsHaveCurves ==
  ASSUME NEW env, NEW regions
  PROVE  ForecastZones(env, regions) \subseteq DOMAIN env.curves \cap DOMAIN env.readings
  BY DEF ForecastZones

\* What is fetched of a curve is a curve.
LEMMA CurvesFetched ==
  ASSUME NEW env, IsEnvironment(env), NEW req, NEW zone
  PROVE  IsCurve(CurveOf(env, req, zone))
  <1>1. CASE zone \in ForecastZones(env, ZoneMap(env, req))
    <2>1. zone \in DOMAIN env.curves
      BY <1>1, ForecastsHaveCurves
    <2>2. CurveOf(env, req, zone) = FirstHours(env.curves[zone], req.maxDelay)
      BY <1>1 DEF CurveOf
    <2>3. \A h \in DOMAIN env.curves[zone] : env.curves[zone][h] \in 0 .. 100
      BY <2>1 DEF IsEnvironment
    <2> QED
      BY <2>2, <2>3 DEF IsCurve, FirstHours
  <1>2. CASE zone \notin ForecastZones(env, ZoneMap(env, req))
    BY <1>2 DEF CurveOf, NoCurve, IsCurve
  <1> QED
    BY <1>1, <1>2

Hourly(env, minutes, region, curve, hour) ==
    [d \in 1 .. DurationHours(minutes) |->
        ProjectAt(env.hour, env.readings[region.zone], curve, hour + d - 1, region.offset)]
CarbonsIn(env, minutes, region, curve, hour) ==
    [d \in 1 .. DurationHours(minutes) |-> Hourly(env, minutes, region, curve, hour)[d].carbon]
RenewablesIn(env, minutes, region, curve, hour) ==
    [d \in 1 .. DurationHours(minutes) |-> Hourly(env, minutes, region, curve, hour)[d].renewable]

\* A slot's figures are means over the hours of the job.
LEMMA SlotFigures ==
  ASSUME NEW env, NEW req, NEW region, NEW curve, NEW hour
  PROVE  LET mean == Reading(Mean(CarbonsIn(env, req.minutes, region, curve, hour)),
                             Mean(RenewablesIn(env, req.minutes, region, curve, hour)), None)
         IN  SlotAt(env, req, region, curve, hour) =
               [start |-> hour, region |-> region, carbon |-> mean.carbon, renewable |-> mean.renewable,
                surplus |-> IsCleanSurplus(mean), score |-> ScoreSlot(mean, req.strategy, IsCleanSurplus(mean))]
  BY DEF SlotAt, CarbonsIn, RenewablesIn, Hourly

Searched(env, region) == region \in RegionRecords /\ region.zone \in DOMAIN env.readings

\* They are whole, none of them below zero but a score.
LEMMA SlotIsWhole ==
  ASSUME NEW env, IsEnvironment(env), NEW req, IsRequest(req), NEW region, Searched(env, region),
         NEW curve, IsCurve(curve), NEW hour \in Nat
  PROVE  /\ SlotAt(env, req, region, curve, hour).carbon \in Nat
         /\ SlotAt(env, req, region, curve, hour).score \in Int
  <1> DEFINE D == DurationHours(req.minutes)
             c == CarbonsIn(env, req.minutes, region, curve, hour)
             r == RenewablesIn(env, req.minutes, region, curve, hour)
             at(d) == ProjectAt(env.hour, env.readings[region.zone], curve, hour + d - 1, region.offset)
             mean == Reading(Mean(c), Mean(r), None)
             slot == SlotAt(env, req, region, curve, hour)
  <1>1. D \in Nat \ {0}
    BY SlotSpacing DEF IsRequest
  <1>2. env.hour \in Int /\ env.readings[region.zone] \in ReadingRecords /\ region.offset \in Int
    <2>1. env.hour \in Int /\ env.readings[region.zone] \in ReadingRecords
      BY DEF IsEnvironment, Searched
    <2>2. region.offset \in -12 .. 14
      BY DEF Searched, RegionRecords
    <2> QED
      BY <2>1, <2>2
  <1>3. c = [d \in 1 .. D |-> at(d).carbon] /\ r = [d \in 1 .. D |-> at(d).renewable]
    BY DEF CarbonsIn, RenewablesIn, Hourly
  <1>4. slot.carbon = mean.carbon /\ slot.score = ScoreSlot(mean, req.strategy, slot.surplus)
        /\ slot.surplus = IsCleanSurplus(mean)
    BY SlotFigures
  <1>5. mean.carbon = Mean(c) /\ mean.renewable = Mean(r)
    BY DEF Reading
  <1> HIDE DEF D, mean, slot
  <1>6. \A d \in 1 .. D : at(d).carbon \in Nat /\ at(d).renewable \in 0 .. 1000
    <2> TAKE d \in 1 .. D
    <2> DEFINE utc == env.hour
               current == env.readings[region.zone]
               offset == region.offset
               h == hour + d - 1
    <2>1. h \in Nat
      BY <1>1
    <2>2. utc \in Int /\ current \in ReadingRecords /\ offset \in Int
      BY <1>2
    <2>3. at(d) = ProjectAt(utc, current, curve, h, offset)
      OBVIOUS
    <2> HIDE DEF at, utc, current, offset, h
    <2>4. ProjectAt(utc, current, curve, h, offset).carbon \in Nat
      BY <2>1, <2>2, ProjectionIsWhole
    <2>5. ProjectAt(utc, current, curve, h, offset).renewable \in 0 .. 1000
      BY <2>1, <2>2, ProjectionIsWhole
    <2> QED
      BY <2>3, <2>4, <2>5
  <1> HIDE DEF at, c, r
  <1>7. Mean(c) \in Nat
    <2>1. c = [i \in 1 .. D |-> c[i]] /\ \A i \in 1 .. D : c[i] \in Nat
      BY <1>3, <1>6
    <2>2. \A i \in 1 .. D : c[i] \in Int
      BY <2>1
    <2> QED
      BY <1>1, <2>1, <2>2, MeanIsWhole
  <1>8. Mean(r) \in Int
    <2>1. \A i \in 1 .. D : r[i] = at(i).renewable
      BY <1>3
    <2>2. \A i \in 1 .. D : r[i] \in Int
      <3> TAKE i \in 1 .. D
      <3>1. at(i).renewable \in 0 .. 1000
        BY <1>6
      <3> QED
        BY <2>1, <3>1
    <2>3. r = [i \in 1 .. D |-> r[i]]
      BY <1>3
    <2> QED
      BY <1>1, <2>2, <2>3, MeanIsWhole
  <1>9. slot.score \in Int
    <2>1. req.strategy \in Strategies
      BY DEF IsRequest
    <2>2. mean.carbon \in Int /\ mean.renewable \in Int
      BY <1>5, <1>7, <1>8
    <2> QED
      BY <1>4, <2>1, <2>2 DEF ScoreSlot, Strategies
  <1>10. slot.carbon \in Nat
    BY <1>4, <1>5, <1>7
  <1> QED
    BY <1>9, <1>10 DEF slot

ProjectAlike(env, minutes, region, hour, c, k) ==
    \A d \in 1 .. DurationHours(minutes) :
        ProjectAt(env.hour, env.readings[region.zone], c, hour + d - 1, region.offset)
          = ProjectAt(env.hour, env.readings[region.zone], k, hour + d - 1, region.offset)

\* Two curves that project each of the job's hours alike give the same slot.
LEMMA SlotsAgree ==
  ASSUME NEW env, NEW region, NEW hour \in Nat, NEW c, NEW k,
         NEW r, NEW s, r.minutes = s.minutes, r.strategy = s.strategy,
         ProjectAlike(env, r.minutes, region, hour, c, k)
  PROVE  SlotAt(env, r, region, c, hour) = SlotAt(env, s, region, k, hour)
  <1>1. Hourly(env, r.minutes, region, c, hour) = Hourly(env, s.minutes, region, k, hour)
    BY DEF Hourly, ProjectAlike
  <1>2. CarbonsIn(env, r.minutes, region, c, hour) = CarbonsIn(env, s.minutes, region, k, hour)
    BY <1>1 DEF CarbonsIn
  <1>3. RenewablesIn(env, r.minutes, region, c, hour) = RenewablesIn(env, s.minutes, region, k, hour)
    BY <1>1 DEF RenewablesIn
  <1> QED
    BY <1>2, <1>3, SlotFigures

\* What is fetched of a curve up to two hours projects alike the hours of both.
LEMMA FetchesAgree ==
  ASSUME NEW utc, NEW current, NEW curve, NEW m \in Nat, NEW n \in Nat, NEW h \in Nat, h <= m, h <= n,
         NEW offset
  PROVE  ProjectAt(utc, current, FirstHours(curve, m), h, offset)
           = ProjectAt(utc, current, FirstHours(curve, n), h, offset)
  <1> DEFINE c == FirstHours(curve, m)
             k == FirstHours(curve, n)
  <1>1. {0, h} \subseteq DOMAIN c <=> {0, h} \subseteq DOMAIN k
    BY DEF FirstHours
  <1>2. {0, h} \subseteq DOMAIN c => c[0] = k[0] /\ c[h] = k[h]
    BY DEF FirstHours
  <1> HIDE DEF c, k
  <1>3. ProjectAt(utc, current, c, h, offset) = ProjectAt(utc, current, k, h, offset)
    BY <1>1, <1>2 DEF ProjectAt
  <1> QED
    BY <1>3 DEF c, k

\* So do two searches, of the hours up to the sooner end.
LEMMA SearchesAgree ==
  ASSUME NEW env, NEW r, NEW s, r.maxDelay \in Nat, s.maxDelay \in Nat, ZoneMap(env, r) = ZoneMap(env, s),
         NEW zone, NEW utc, NEW current, NEW h \in Nat, h <= r.maxDelay, h <= s.maxDelay, NEW offset
  PROVE  ProjectAt(utc, current, CurveOf(env, r, zone), h, offset)
           = ProjectAt(utc, current, CurveOf(env, s, zone), h, offset)
  BY FetchesAgree DEF CurveOf

(* How many slots a search has, and where and when the n-th of them is. *)
ZonesOf(env, req) == Len(AnsweredRegions(env, req))
StartsIn(req) == (req.maxDelay + SlotInterval(req.maxDelay) - 1) \div SlotInterval(req.maxDelay)
SlotCount(env, req) == ZonesOf(env, req) * StartsIn(req)
PlaceOf(env, req, n) == AnsweredRegions(env, req)[((n - 1) % ZonesOf(env, req)) + 1]
StartOf(env, req, n) == SlotInterval(req.maxDelay) * ((n - 1) \div ZonesOf(env, req))
SlotOf(env, req, n) ==
    SlotAt(env, req, PlaceOf(env, req, n), CurveOf(env, req, PlaceOf(env, req, n).zone), StartOf(env, req, n))

\* Slots are counted zone by zone within a start.
LEMMA SlotsAreCounted ==
  ASSUME NEW env, IsEnvironment(env), NEW req, IsRequest(req)
  PROVE  /\ Slots(env, req) = [n \in 1 .. SlotCount(env, req) |-> SlotOf(env, req, n)]
         /\ ZonesOf(env, req) \in Nat /\ StartsIn(req) \in Nat \ {0} /\ SlotCount(env, req) \in Nat
         /\ SlotCount(env, req) = 0 <=> ZonesOf(env, req) = 0
         /\ ZonesOf(env, req) <= SlotCount(env, req)
  <1>1. Slots(env, req) = [n \in 1 .. SlotCount(env, req) |-> SlotOf(env, req, n)]
    BY DEF Slots, SlotsOver, SlotCount, SlotOf, PlaceOf, StartOf, ZonesOf, StartsIn
  <1>2. ZonesOf(env, req) \in Nat
    BY RegionsAnswered DEF ZonesOf
  <1>3. StartsIn(req) \in Nat \ {0}
    BY SlotSpacing DEF IsRequest, StartsIn
  <1>4. \A x \in Nat, y \in Nat \ {0} : x * y \in Nat /\ x <= x * y /\ (x * y = 0 <=> x = 0)
    OBVIOUS
  <1> QED
    BY <1>1, <1>2, <1>3, <1>4 DEF SlotCount

\* Each is of a region searched, at a start not before now, in whole figures.
LEMMA SlotsAreWhole ==
  ASSUME NEW env, IsEnvironment(env), NEW req, IsRequest(req), NEW n \in 1 .. SlotCount(env, req)
  PROVE  /\ Searched(env, PlaceOf(env, req, n))
         /\ StartOf(env, req, n) \in Nat
         /\ StartOf(env, req, n) = 0 <=> n <= ZonesOf(env, req)
         /\ SlotOf(env, req, n).carbon \in Nat
         /\ SlotOf(env, req, n).score \in Int
         /\ SlotOf(env, req, n).start = StartOf(env, req, n)
         /\ SlotOf(env, req, n).region = PlaceOf(env, req, n)
  <1> DEFINE z == ZonesOf(env, req)
             a == AnsweredRegions(env, req)
             k == (n - 1) \div z
             m == (n - 1) % z
             step == SlotInterval(req.maxDelay)
             place == PlaceOf(env, req, n)
             start == StartOf(env, req, n)
             curve == CurveOf(env, req, place.zone)
             slot == SlotAt(env, req, place, curve, start)
  <1>1. z \in Nat \ {0} /\ n \in Nat \ {0}
    BY SlotsAreCounted
  <1>2. step \in Nat \ {0}
    BY SlotSpacing DEF IsRequest
  <1>3. place = a[m + 1] /\ start = step * k /\ SlotOf(env, req, n) = slot
    BY DEF PlaceOf, StartOf, SlotOf
  <1>4. a \in Seq(RegionRecords) /\ \A i \in DOMAIN a : a[i].zone \in DOMAIN env.readings
    BY RegionsAnswered
  <1>5. DOMAIN a = 1 .. z
    BY <1>4 DEF ZonesOf
  <1>6. m \in 0 .. z - 1 /\ k \in Int /\ z * k <= n - 1 /\ n - 1 < z * k + z
    <2> HIDE DEF z
    <2> QED
      BY <1>1
  <1>7. slot.start = start /\ slot.region = place
    BY SlotFigures
  <1> HIDE DEF z, a, k, m, step, place, start, slot
  <1>8. Searched(env, place)
    <2>1. m + 1 \in 1 .. z
      BY <1>1, <1>6
    <2>2. a[m + 1] \in RegionRecords /\ a[m + 1].zone \in DOMAIN env.readings
      <3>1. \A i \in DOMAIN a : a[i] \in RegionRecords
        BY <1>4
      <3> QED
        BY <2>1, <3>1, <1>4, <1>5
    <2> QED
      BY <2>2, <1>3 DEF Searched
  <1>9. k \in Nat /\ (k = 0 <=> n <= z)
    <2>1. k >= 0
      <3> SUFFICES ASSUME k < 0 PROVE FALSE
        BY <1>6
      <3>1. z * (k + 1) <= 0 /\ z * (k + 1) = z * k + z
        BY <1>1, <1>6
      <3> QED
        BY <1>1, <1>6, <3>1
    <2>2. k = 0 => n <= z
      BY <1>1, <1>6
    <2>3. k >= 1 => n > z
      <3>1. k >= 1 => z * k >= z
        BY <1>1, <1>6
      <3> QED
        BY <1>1, <1>6, <3>1
    <2>4. k \in Nat
      BY <1>6, <2>1
    <2> QED
      BY <1>1, <2>2, <2>3, <2>4
  <1>10. start \in Nat /\ (start = 0 <=> k = 0)
    BY <1>2, <1>3, <1>9
  <1>11. IsCurve(curve)
    BY CurvesFetched
  <1> HIDE DEF curve
  <1>12. slot.carbon \in Nat
    BY <1>8, <1>10, <1>11, SlotIsWhole DEF slot
  <1>13. slot.score \in Int
    BY <1>8, <1>10, <1>11, SlotIsWhole DEF slot
  <1> QED
    BY <1>3, <1>7, <1>8, <1>9, <1>10, <1>12, <1>13 DEF place, start, z

\* What a search answers: the slot that leads, or that there is none.
LEMMA WindowIsLeader ==
  ASSUME NEW env, IsEnvironment(env), NEW req, IsRequest(req)
  PROVE  LET slots == Slots(env, req)
             window == FindOptimalWindow(env, req)
         IN  /\ SlotCount(env, req) = 0 => window = Fallback(env, req)
             /\ SlotCount(env, req) # 0 =>
                   /\ ScoredSlots(slots, SlotCount(env, req))
                   /\ \E i : Leads(slots, req.strategy, i) /\ window.recommended = SlotOf(env, req, i)
                   /\ window.saved = SavedVsNow(slots, window.recommended)
                   /\ window.evaluated = SlotCount(env, req)
  <1> DEFINE slots == Slots(env, req)
             n == SlotCount(env, req)
             ranked == RankSlots(slots, req.strategy)
             window == FindOptimalWindow(env, req)
  <1>1. slots = [i \in 1 .. n |-> SlotOf(env, req, i)] /\ n \in Nat
    BY SlotsAreCounted
  <1>2. \A i \in 1 .. n : SlotOf(env, req, i).score \in Int
    BY SlotsAreWhole
  <1>3. window = IF slots = <<>> THEN Fallback(env, req) ELSE FindOptimalWindow(env, req)
    BY DEF FindOptimalWindow, Recommend
  <1>4. slots # <<>> => /\ window.recommended = ranked[1]
                        /\ window.saved = SavedVsNow(slots, window.recommended)
                        /\ window.evaluated = Len(slots)
    BY DEF FindOptimalWindow, Recommend
  <1> HIDE DEF slots, n, ranked, window
  <1>5. slots \in Seq(Range(slots)) /\ DOMAIN slots = 1 .. n
    BY <1>1 DEF Range
  <1>6. Len(slots) = n
    BY <1>1, <1>5, LenProperties
  <1>7. slots = <<>> <=> n = 0
    BY <1>1, <1>5, <1>6, EmptySeq
  <1>8. n # 0 => ScoredSlots(slots, n)
    BY <1>1, <1>2, <1>5 DEF ScoredSlots
  <1>9. n # 0 => \E i : Leads(slots, req.strategy, i) /\ ranked[1] = slots[i]
    BY <1>8, LeaderIsRankedFirst DEF ranked
  <1>10. n # 0 => \E i : Leads(slots, req.strategy, i) /\ window.recommended = SlotOf(env, req, i)
    <2> SUFFICES ASSUME n # 0 PROVE \E i : Leads(slots, req.strategy, i) /\ window.recommended = SlotOf(env, req, i)
      OBVIOUS
    <2>1. PICK i : Leads(slots, req.strategy, i) /\ ranked[1] = slots[i]
      BY <1>9
    <2>2. i \in 1 .. n
      BY <1>5, <2>1 DEF Leads
    <2>3. slots[i] = SlotOf(env, req, i)
      BY <1>1, <2>2
    <2> QED
      BY <1>4, <1>7, <2>1, <2>3
  <1> QED
    BY <1>3, <1>4, <1>6, <1>7, <1>8, <1>10 DEF slots, n, window

\* What is said to be saved is a share: none, or up to all of it.
LEMMA SavedIsShare ==
  ASSUME NEW env, IsEnvironment(env), NEW req, IsRequest(req), NEW i \in 1 .. SlotCount(env, req)
  PROVE  SavedVsNow(Slots(env, req), SlotOf(env, req, i)) \in 0 .. 1000
  <1> DEFINE slots == Slots(env, req)
             n == SlotCount(env, req)
             carbon(k) == SlotOf(env, req, k).carbon
             all == {carbon(k) : k \in 1 .. n}
             now == {s.carbon : s \in {t \in Range(slots) : t.start = 0}}
             G == Greatest(now)
             b == carbon(i)
             saved == SavedVsNow(slots, SlotOf(env, req, i))
  <1>1. slots = [k \in 1 .. n |-> SlotOf(env, req, k)] /\ n \in Nat
    BY SlotsAreCounted
  <1>2. \A k \in 1 .. n : carbon(k) \in Nat
    BY SlotsAreWhole
  <1>3. saved = IF now = {} \/ G <= 0 THEN 0 ELSE Greatest({0, RoundDiv((G - b) * 1000, G)})
    BY DEF SavedVsNow
  <1>4. now \subseteq all
    BY <1>1 DEF Range
  <1>5. all \in SUBSET Nat /\ IsFiniteSet(all)
    <2> DEFINE f == [k \in 1 .. n |-> carbon(k)]
    <2>1. IsFiniteSet(1 .. n)
      BY <1>1, FS_Interval
    <2>2. f \in Surjection(1 .. n, all)
      BY DEF Surjection
    <2>3. IsFiniteSet(all)
      <3> HIDE DEF f, carbon, all
      <3> QED
        BY <2>1, <2>2, FS_Surjection
    <2>4. all \in SUBSET Nat
      BY <1>2
    <2> QED
      BY <2>3, <2>4
  <1> HIDE DEF slots, n, all, now, G, saved, carbon
  <1>6. b \in Nat
    BY <1>2 DEF n
  <1>7. now # {} => G \in Nat
    <2>1. now \in SUBSET Nat /\ IsFiniteSet(now)
      BY <1>4, <1>5, FS_Subset
    <2> QED
      BY <2>1, GreatestExists DEF G
  <1>8. ASSUME now # {}, ~(G <= 0) PROVE saved \in 0 .. 1000
    <2> DEFINE a == (G - b) * 1000
               r == RoundDiv(a, G)
    <2> HIDE DEF b
    <2>1. G \in Nat \ {0}
      BY <1>7, <1>8
    <2>2. a \in Int /\ (b <= G => a \in Nat /\ a <= 1000 * G) /\ (b > G => a <= -1000)
      BY <1>6, <2>1
    <2> HIDE DEF a, r
    <2>3. r \in Int
      BY <2>1, <2>2, RoundDivIsInt DEF r
    <2>4. b <= G => r <= 1000
      BY <2>1, <2>2, RoundDivFacts DEF r
    <2>5. b > G => r <= 0
      <3> SUFFICES ASSUME b > G, r >= 1 PROVE FALSE
        BY <2>3
      <3> DEFINE p == G * r
      <3>1. p >= G /\ p \in Int
        BY <2>1, <2>3
      <3>2. 2 * (G * r) <= 2 * a + G
        BY <2>1, <2>2, RoundDivIsNear DEF r
      <3> HIDE DEF p
      <3>3. 2 * p <= 2 * a + G
        BY <3>2 DEF p
      <3> QED
        BY <2>1, <2>2, <3>1, <3>3
    <2>6. r <= 1000
      BY <1>6, <2>1, <2>3, <2>4, <2>5
    <2>7. saved = IF 0 >= r THEN 0 ELSE r
      BY <1>3, <1>8, <2>3, GreatestOfTwo DEF a, r
    <2> QED
      BY <2>3, <2>6, <2>7
  <1>9. saved \in 0 .. 1000
    BY <1>3, <1>8
  <1> QED
    BY <1>9 DEF saved, slots

\* What the forecast endpoint shows of an hour.
LEMMA ShownProjects ==
  ASSUME NEW env, NEW zone, NEW offset, NEW hour \in Nat, env.marginals = NoCurve
  PROVE  /\ DOMAIN FetchedCurve(env.curves, zone, hour) # {} =>
               ForecastZone(env, zone, offset, hour)[hour + 1]
                 = ProjectAt(env.hour, env.readings[zone], FetchedCurve(env.curves, zone, hour), hour, offset)
         /\ DOMAIN FetchedCurve(env.curves, zone, hour) = {} =>
               ForecastZone(env, zone, offset, hour)[hour + 1]
                 = ProjectAt(env.hour, env.readings[zone], FetchedCurve(env.weather, zone, hour), hour, offset)
  <1> DEFINE dayAhead == FetchedCurve(env.curves, zone, hour)
             curve == IF DOMAIN dayAhead # {} THEN dayAhead ELSE FetchedCurve(env.weather, zone, hour)
             current == env.readings[zone]
             point(h) == IF h = 0 THEN current ELSE ProjectAt(env.hour, current, curve, h, offset)
  <1>1. \A i : i \notin DOMAIN env.marginals
    BY DEF NoCurve
  <1> HIDE DEF dayAhead
  <1>2. ForecastZone(env, zone, offset, hour) = [i \in 1 .. hour + 1 |-> point(i - 1)]
    BY <1>1 DEF ForecastZone, dayAhead, NoCurve
  <1>3. hour + 1 \in 1 .. hour + 1 /\ (hour + 1) - 1 = hour
    OBVIOUS
  <1>4. ForecastZone(env, zone, offset, hour)[hour + 1] = point(hour)
    BY <1>2, <1>3
  <1>5. hour = 0 => ProjectAt(env.hour, current, curve, hour, offset) = current
    BY DEF ProjectAt, ProjectWithForecast, ProjectIntensity
  <1> QED
    BY <1>4, <1>5 DEF dayAhead

\* The day-ahead curve decides an hour wherever it has any.
LEMMA ShownByDayAhead ==
  ASSUME NEW env, NEW zone, NEW offset, NEW hour \in Nat, env.marginals = NoCurve,
         NEW seen, FetchedCurve(env.curves, zone, hour) = seen, hour \in DOMAIN seen
  PROVE  ForecastZone(env, zone, offset, hour)[hour + 1]
           = ProjectAt(env.hour, env.readings[zone], seen, hour, offset)
  <1>1. DOMAIN FetchedCurve(env.curves, zone, hour) # {}
    OBVIOUS
  <1>2. ForecastZone(env, zone, offset, hour)[hour + 1]
          = ProjectAt(env.hour, env.readings[zone], FetchedCurve(env.curves, zone, hour), hour, offset)
    BY <1>1, ShownProjects
  <1> QED
    BY <1>2

\* An hour is projected as it is shown: by ENTSO-E's curve where the search has
\* it, and by the time of day where the search has none.
LEMMA HourIsShown ==
  ASSUME NEW q, IsScheduleQuestion(q), IsEnvironment(q.env), IsRequest(q.req), NEW region, NEW hour \in Nat
  PROVE  HourShown(q, region, hour)
           = ProjectAt(q.env.hour, q.env.readings[region.zone], CurveOf(q.env, q.req, region.zone), hour,
                       region.offset)
  <1> DEFINE zone == region.zone
             bare == [q.env EXCEPT !.marginals = NoCurve]
             blind == [bare EXCEPT !.curves = NoCurve, !.weather = NoCurve]
             current == q.env.readings[zone]
             curve == CurveOf(q.env, q.req, zone)
             forecast == ForecastZones(q.env, ZoneMap(q.env, q.req))
             projected(k) == ProjectAt(q.env.hour, current, k, hour, region.offset)
  <1>1. /\ bare.hour = q.env.hour /\ bare.readings = q.env.readings /\ bare.curves = q.env.curves
        /\ bare.marginals = NoCurve
        /\ blind.hour = q.env.hour /\ blind.readings = q.env.readings /\ blind.marginals = NoCurve
        /\ blind.curves = NoCurve /\ blind.weather = NoCurve
    BY DEF IsScheduleQuestion
  <1>2. q.req.maxDelay \in Nat
    BY DEF IsRequest
  <1>3. zone \in forecast => /\ zone \in DOMAIN q.env.curves
                             /\ curve = FirstHours(q.env.curves[zone], q.req.maxDelay)
    BY ForecastsHaveCurves DEF CurveOf
  <1>4. zone \notin forecast => curve = NoCurve
    BY DEF CurveOf
  <1> HIDE DEF bare, blind, curve, forecast
  <1>5. CASE HasForecast(q, zone, hour)
    <2>1. zone \in forecast /\ hour \in DOMAIN q.env.curves[zone] /\ hour <= q.req.maxDelay
      BY <1>5 DEF HasForecast, forecast
    <2> DEFINE seen == FirstHours(q.env.curves[zone], hour)
    <2>2. FetchedCurve(bare.curves, zone, hour) = seen
      BY <1>1, <1>3, <2>1 DEF FetchedCurve
    <2>3. hour \in DOMAIN seen
      BY <2>1 DEF FirstHours
    <2> HIDE DEF seen
    <2>4. ForecastZone(bare, zone, region.offset, hour)[hour + 1] = projected(seen)
      <3> HIDE DEF zone
      <3>1. ForecastZone(bare, zone, region.offset, hour)[hour + 1]
              = ProjectAt(bare.hour, bare.readings[zone], seen, hour, region.offset)
        BY <1>1, <2>2, <2>3, ShownByDayAhead
      <3> QED
        BY <1>1, <3>1
    <2>5. projected(seen) = projected(curve)
      BY <1>2, <1>3, <2>1, FetchesAgree DEF seen
    <2>6. HourShown(q, region, hour) = ForecastZone(bare, zone, region.offset, hour)[hour + 1]
      BY <1>5 DEF HourShown, bare
    <2> QED
      BY <2>4, <2>5, <2>6 DEF curve
  <1>6. CASE ~HasForecast(q, zone, hour)
    <2>1. FetchedCurve(blind.curves, zone, hour) = NoCurve /\ FetchedCurve(blind.weather, zone, hour) = NoCurve
      BY <1>1 DEF FetchedCurve, NoCurve
    <2>2. ForecastZone(blind, zone, region.offset, hour)[hour + 1] = projected(NoCurve)
      <3>1. DOMAIN FetchedCurve(blind.curves, zone, hour) = {}
        BY <2>1 DEF NoCurve
      <3>2. ForecastZone(blind, zone, region.offset, hour)[hour + 1]
              = ProjectAt(blind.hour, blind.readings[zone], FetchedCurve(blind.weather, zone, hour), hour,
                          region.offset)
        BY <1>1, <3>1, ShownProjects
      <3> QED
        BY <1>1, <2>1, <3>2
    <2>3. hour \notin DOMAIN curve
      <3>1. CASE zone \in forecast
        <4>1. hour \notin DOMAIN q.env.curves[zone] \/ ~(hour <= q.req.maxDelay)
          BY <1>6, <3>1 DEF HasForecast, forecast
        <4> QED
          BY <1>3, <3>1, <4>1 DEF FirstHours
      <3> QED
        BY <1>4, <3>1 DEF NoCurve
    <2>4. projected(curve) = projected(NoCurve)
      <3>1. ~({0, hour} \subseteq DOMAIN curve) /\ ~({0, hour} \subseteq DOMAIN NoCurve)
        BY <2>3 DEF NoCurve
      <3> QED
        BY <3>1 DEF ProjectAt
    <2>5. HourShown(q, region, hour) = ForecastZone(blind, zone, region.offset, hour)[hour + 1]
      BY <1>6 DEF HourShown, bare, blind
    <2> QED
      BY <2>2, <2>4, <2>5 DEF curve
  <1> QED
    BY <1>5, <1>6

\* The slot's figure is the mean of what is shown for the job's hours.
LEMMA ForecastIsFollowed ==
  ASSUME NEW q, IsScheduleQuestion(q), IsEnvironment(q.env), IsRequest(q.req),
         NEW n \in 1 .. SlotCount(q.env, q.req)
  PROVE  FollowsForecast(q, SlotOf(q.env, q.req, n))
  <1> DEFINE env == q.env
             best == SlotOf(env, q.req, n)
             start == StartOf(env, q.req, n)
             region == PlaceOf(env, q.req, n)
             D == DurationHours(q.req.minutes)
             curve == CurveOf(env, q.req, region.zone)
             shown == [d \in 1 .. D |-> HourShown(q, region, start + d - 1).carbon]
  <1>1. start \in Nat /\ best.start = start /\ best.region = region
    BY SlotsAreWhole
  <1>2. D \in Nat \ {0}
    BY SlotSpacing DEF IsRequest
  <1>3. best = SlotAt(env, q.req, region, curve, start)
    BY DEF SlotOf
  <1> HIDE DEF best, start, region, D, curve
  <1>4. \A d \in 1 .. D : HourShown(q, region, start + d - 1)
                            = ProjectAt(env.hour, env.readings[region.zone], curve, start + d - 1, region.offset)
    <2> TAKE d \in 1 .. D
    <2> DEFINE h == start + d - 1
    <2>1. h \in Nat
      BY <1>1, <1>2
    <2> HIDE DEF h
    <2>2. HourShown(q, region, h)
            = ProjectAt(q.env.hour, q.env.readings[region.zone], CurveOf(q.env, q.req, region.zone), h, region.offset)
      BY <2>1, HourIsShown
    <2> QED
      BY <2>2 DEF h, curve
  <1>5. CarbonsIn(env, q.req.minutes, region, curve, start) = shown
    BY <1>4 DEF CarbonsIn, Hourly, D
  <1>6. best.carbon = Mean(CarbonsIn(env, q.req.minutes, region, curve, start))
    BY <1>3, SlotFigures DEF Reading
  <1>7. best.carbon = Mean([d \in 1 .. DurationHours(q.req.minutes)
                              |-> HourShown(q, best.region, best.start + d - 1).carbon])
    BY <1>1, <1>5, <1>6 DEF D
  <1> QED
    BY <1>7 DEF FollowsForecast, best

\* The zones searched are those of the providers and the regions asked for.
LEMMA ZonesAsked ==
  ASSUME NEW env, NEW r, NEW s, r.providers = s.providers, r.preferred = s.preferred
  PROVE  ZoneMap(env, r) = ZoneMap(env, s)
  <1>1. ResolveRegions(env, r) = ResolveRegions(env, s)
    BY DEF ResolveRegions
  <1> QED
    BY <1>1 DEF ZoneMap

(* Two searches of the same regions for the same job. *)
Alike(env, r, s) ==
    /\ r.minutes = s.minutes
    /\ r.strategy = s.strategy
    /\ ZoneMap(env, r) = ZoneMap(env, s)

\* They see the same slot where the curves of both reach the job's last hour.
LEMMA SlotOfBoth ==
  ASSUME NEW env, IsEnvironment(env), NEW r, IsRequest(r), NEW s, IsRequest(s), Alike(env, r, s),
         NEW n \in 1 .. SlotCount(env, r), StartOf(env, r, n) = StartOf(env, s, n),
         LastHour(r, StartOf(env, r, n)) <= r.maxDelay, LastHour(r, StartOf(env, r, n)) <= s.maxDelay
  PROVE  SlotOf(env, r, n) = SlotOf(env, s, n)
  <1> DEFINE D == DurationHours(r.minutes)
             start == StartOf(env, r, n)
             place == PlaceOf(env, r, n)
             c == CurveOf(env, r, place.zone)
             k == CurveOf(env, s, place.zone)
  <1>1. D \in Nat \ {0}
    BY SlotSpacing DEF IsRequest
  <1>2. start \in Nat
    BY SlotsAreWhole
  <1>3. AnsweredRegions(env, r) = AnsweredRegions(env, s)
    BY DEF AnsweredRegions, Alike
  <1>4. place = PlaceOf(env, s, n)
    BY <1>3 DEF PlaceOf, ZonesOf
  <1>5. SlotOf(env, r, n) = SlotAt(env, r, place, c, start) /\ SlotOf(env, s, n) = SlotAt(env, s, place, k, start)
    BY <1>4 DEF SlotOf
  <1>6. r.maxDelay \in Nat /\ s.maxDelay \in Nat /\ ZoneMap(env, r) = ZoneMap(env, s)
        /\ r.minutes = s.minutes /\ r.strategy = s.strategy
    BY DEF IsRequest, Alike
  <1>7. start + D - 1 <= r.maxDelay /\ start + D - 1 <= s.maxDelay
    BY DEF LastHour
  <1> HIDE DEF D, start, place
  <1>8. \A d \in 1 .. D : ProjectAt(env.hour, env.readings[place.zone], c, start + d - 1, place.offset)
                            = ProjectAt(env.hour, env.readings[place.zone], k, start + d - 1, place.offset)
    <2> TAKE d \in 1 .. D
    <2> DEFINE h == start + d - 1
    <2>1. h \in Nat /\ h <= r.maxDelay /\ h <= s.maxDelay
      BY <1>1, <1>2, <1>6, <1>7
    <2> HIDE DEF h
    <2>2. ProjectAt(env.hour, env.readings[place.zone], c, h, place.offset)
            = ProjectAt(env.hour, env.readings[place.zone], k, h, place.offset)
      BY <1>6, <2>1, SearchesAgree
    <2> QED
      BY <2>2 DEF h
  <1> HIDE DEF c, k
  <1>9. SlotAt(env, r, place, c, start) = SlotAt(env, s, place, k, start)
    <2>1. r.minutes = s.minutes /\ r.strategy = s.strategy
      BY <1>6
    <2>2. ProjectAlike(env, r.minutes, place, start, c, k)
      BY <1>8 DEF D, ProjectAlike
    <2> HIDE DEF D
    <2> QED
      BY <1>2, <2>1, <2>2, SlotsAgree
  <1> QED
    BY <1>5, <1>9

\* A division of more is not less.
LEMMA DivisionGrows ==
  ASSUME NEW a \in Nat, NEW b \in Nat, a <= b, NEW d \in Nat \ {0}
  PROVE  a \div d <= b \div d
  <1> DEFINE x == a \div d
             y == b \div d
  <1>1. x \in Int /\ y \in Int /\ d * x <= a /\ b < d * y + d
    OBVIOUS
  <1> HIDE DEF x, y
  <1>2. x > y => d * x >= d * y + d
    <2> SUFFICES ASSUME x >= y + 1 PROVE d * x >= d * y + d
      BY <1>1
    <2>1. d * x = d * y + d * (x - y)
      BY <1>1
    <2>2. d * (x - y) >= d
      BY <1>1
    <2>3. d * x \in Int /\ d * y \in Int /\ d * (x - y) \in Int
      BY <1>1
    <2> QED
      BY <2>1, <2>2, <2>3
  <1>3. d * x \in Int /\ d * y \in Int
    BY <1>1
  <1>4. x <= y
    BY <1>1, <1>2, <1>3
  <1> QED
    BY <1>4 DEF x, y

\* Waiting an hour longer leaves the slot found among those to choose from.
LEMMA LongerIsNeverWorse ==
  ASSUME NEW q, IsScheduleQuestion(q), IsEnvironment(q.env), IsRequest(q.req), SlotCount(q.env, q.req) # 0
  PROVE  LongerNeverWorse(q, FindOptimalWindow(q.env, q.req))
  <1> DEFINE env == q.env
             req == q.req
             long == [q.req EXCEPT !.maxDelay = @ + 1]
             m == req.maxDelay
             step == SlotInterval(m)
             window == FindOptimalWindow(env, req)
             longer == FindOptimalWindow(env, long)
  <1>1. /\ long.minutes = req.minutes /\ long.providers = req.providers /\ long.preferred = req.preferred
        /\ long.strategy = req.strategy /\ long.maxDelay = m + 1
    BY DEF IsScheduleQuestion
  <1>2. m \in Nat \ {0} /\ step \in Nat \ {0}
    BY SlotSpacing DEF IsRequest
  <1>3. IsRequest(long)
    BY <1>1, <1>2 DEF IsRequest
  <1>4. ZoneMap(env, req) = ZoneMap(env, long)
    <2> HIDE DEF long
    <2> QED
      BY <1>1, ZonesAsked
  <1>5. Alike(env, req, long)
    BY <1>1, <1>4 DEF Alike
  <1>6. ZonesOf(env, req) = ZonesOf(env, long) /\ ZonesOf(env, req) \in Nat
    BY <1>4, SlotsAreCounted DEF ZonesOf, AnsweredRegions
  <1> HIDE DEF env, req, long, m, step, window, longer
  <1> SUFFICES ASSUME step = SlotInterval(m + 1), LastHour(req, window.recommended.start) <= m
               PROVE  IF req.strategy = "highest_renewable"
                      THEN longer.recommended.score >= window.recommended.score
                      ELSE longer.recommended.score <= window.recommended.score
    BY DEF LongerNeverWorse, env, req, long, m, step, window, longer
  <1>7. SlotCount(env, req) <= SlotCount(env, long)
    <2> DEFINE x == (m + step - 1) \div step
               y == (m + 1 + step - 1) \div step
    <2>1. m + step - 1 \in Nat /\ m + 1 + step - 1 \in Nat /\ m + step - 1 <= m + 1 + step - 1
      BY <1>2
    <2>2. x <= y
      BY <1>2, <2>1, DivisionGrows
    <2>3. StartsIn(req) = x /\ StartsIn(long) = y
      BY <1>1 DEF StartsIn, m, step
    <2>4. x \in Nat /\ y \in Nat
      BY <1>3, <2>3, SlotsAreCounted DEF env, req
    <2> HIDE DEF x, y
    <2>5. \A z \in Nat : z * x <= z * y
      BY <2>2, <2>4
    <2> QED
      BY <1>6, <2>3, <2>5 DEF SlotCount
  <1>8. SlotCount(env, req) \in Nat \ {0} /\ SlotCount(env, long) \in Nat
    BY <1>3, SlotsAreCounted DEF env, req
  <1>9. SlotCount(env, long) # 0
    BY <1>7, <1>8
  <1>10. PICK i : Leads(Slots(env, req), req.strategy, i) /\ window.recommended = SlotOf(env, req, i)
    BY WindowIsLeader DEF window, env, req
  <1>11. PICK j : Leads(Slots(env, long), req.strategy, j) /\ longer.recommended = SlotOf(env, long, j)
    BY <1>1, <1>3, <1>9, WindowIsLeader DEF longer, env
  <1>12. /\ Slots(env, req) = [n \in 1 .. SlotCount(env, req) |-> SlotOf(env, req, n)]
         /\ Slots(env, long) = [n \in 1 .. SlotCount(env, long) |-> SlotOf(env, long, n)]
    BY <1>3, SlotsAreCounted DEF env, req
  <1>13. i \in 1 .. SlotCount(env, req) /\ j \in 1 .. SlotCount(env, long)
    BY <1>10, <1>11, <1>12 DEF Leads
  <1>14. i \in 1 .. SlotCount(env, long)
    BY <1>7, <1>8, <1>13
  <1>15. SlotOf(env, req, i).start = StartOf(env, req, i) /\ StartOf(env, req, i) \in Nat
    BY <1>13, SlotsAreWhole DEF env, req
  <1>16. StartOf(env, req, i) = StartOf(env, long, i)
    BY <1>1, <1>6 DEF StartOf, step, m
  <1>17. SlotOf(env, req, i) = SlotOf(env, long, i)
    <2>1. LastHour(req, StartOf(env, req, i)) <= req.maxDelay
      BY <1>10, <1>15 DEF m
    <2>2. LastHour(req, StartOf(env, req, i)) \in Int
      <3>1. DurationHours(req.minutes) \in Nat \ {0}
        BY SlotSpacing DEF IsRequest, req
      <3> QED
        BY <1>15, <3>1 DEF LastHour
    <2>3. LastHour(req, StartOf(env, req, i)) <= long.maxDelay
      BY <1>1, <1>2, <2>1, <2>2 DEF m
    <2> QED
      BY <1>3, <1>5, <1>13, <1>16, <2>1, <2>3, SlotOfBoth DEF env, req
  <1>18. SlotOf(env, long, i).score \in Int /\ SlotOf(env, long, j).score \in Int
    BY <1>3, <1>13, <1>14, SlotsAreWhole DEF env
  <1>19. RanksBefore(SlotKey(Slots(env, long), req.strategy, j), SlotKey(Slots(env, long), req.strategy, i))
    BY <1>11, <1>12, <1>14 DEF Leads
  <1>20. Slots(env, long)[i] = SlotOf(env, long, i) /\ Slots(env, long)[j] = SlotOf(env, long, j)
    BY <1>12, <1>13, <1>14
  <1> QED
    BY <1>10, <1>11, <1>17, <1>18, <1>19, <1>20 DEF RanksBefore, SlotKey

\* A search for now finds the slot of the search that finds none better later.
LEMMA NowIsFirst ==
  ASSUME NEW q, IsScheduleQuestion(q), IsEnvironment(q.env), IsRequest(q.req)
  PROVE  NowIsTheFirstSlot(q, FindOptimalWindow(q.env, q.req),
                           BestRegionNow(q.env, q.req.minutes, q.req.providers))
  <1> DEFINE env == q.env
             req == q.req
             none == [minutes |-> q.req.minutes, providers |-> q.req.providers, preferred |-> <<>>,
                      strategy |-> "lowest_carbon", maxDelay |-> 1]
             window == FindOptimalWindow(env, req)
             now == FindOptimalWindow(env, none)
  <1> SUFFICES ASSUME req.strategy = "lowest_carbon", req.preferred = <<>>, window.recommended.start = 0,
                      LastHour(req, 0) <= 1
               PROVE  now.recommended = window.recommended
    BY DEF NowIsTheFirstSlot, BestRegionNow
  <1>1. /\ none.minutes = req.minutes /\ none.providers = req.providers /\ none.preferred = req.preferred
        /\ none.strategy = "lowest_carbon" /\ none.maxDelay = 1
    OBVIOUS
  <1>2. req.maxDelay \in Nat \ {0}
    BY DEF IsRequest
  <1>3. IsRequest(none)
    BY <1>1 DEF IsRequest
  <1>4. ZoneMap(env, req) = ZoneMap(env, none)
    <2> HIDE DEF none
    <2> QED
      BY <1>1, ZonesAsked
  <1>5. Alike(env, req, none)
    BY <1>1, <1>4 DEF Alike
  <1> HIDE DEF none, window, now
  <1>6. ZonesOf(env, req) = ZonesOf(env, none) /\ ZonesOf(env, req) \in Nat
    BY <1>4, SlotsAreCounted DEF ZonesOf, AnsweredRegions
  <1>7. SlotInterval(1) = 1
    BY <1>2, SlotSpacing
  <1>8. StartsIn(none) = 1
    BY <1>1, <1>7 DEF StartsIn
  <1>9. SlotCount(env, none) = ZonesOf(env, req)
    BY <1>6, <1>8 DEF SlotCount
  <1>10. /\ SlotCount(env, req) \in Nat /\ ZonesOf(env, req) <= SlotCount(env, req)
         /\ SlotCount(env, req) = 0 <=> ZonesOf(env, req) = 0
    BY SlotsAreCounted
  <1>11. CASE ZonesOf(env, req) = 0
    <2>1. window = Fallback(env, req)
      BY <1>10, <1>11, WindowIsLeader DEF window
    <2>2. now = Fallback(env, none)
      BY <1>3, <1>9, <1>11, WindowIsLeader DEF now
    <2>3. Fallback(env, req) = Fallback(env, none)
      BY <1>4 DEF Fallback
    <2> QED
      BY <2>1, <2>2, <2>3
  <1>12. CASE ZonesOf(env, req) # 0
    <2>1. PICK i : Leads(Slots(env, req), "lowest_carbon", i) /\ window.recommended = SlotOf(env, req, i)
      BY <1>10, <1>12, WindowIsLeader DEF window
    <2>2. ScoredSlots(Slots(env, none), SlotCount(env, none))
          /\ \E j : Leads(Slots(env, none), "lowest_carbon", j) /\ now.recommended = SlotOf(env, none, j)
      BY <1>1, <1>3, <1>9, <1>12, WindowIsLeader DEF now
    <2>3. PICK j : Leads(Slots(env, none), "lowest_carbon", j) /\ now.recommended = SlotOf(env, none, j)
      BY <2>2
    <2>4. /\ Slots(env, req) = [n \in 1 .. SlotCount(env, req) |-> SlotOf(env, req, n)]
          /\ Slots(env, none) = [n \in 1 .. ZonesOf(env, req) |-> SlotOf(env, none, n)]
      BY <1>3, <1>9, SlotsAreCounted
    <2>5. i \in 1 .. SlotCount(env, req)
      BY <2>1, <2>4 DEF Leads
    <2>6. i \in 1 .. ZonesOf(env, req)
      <3>1. SlotOf(env, req, i).start = StartOf(env, req, i)
        BY <2>5, SlotsAreWhole
      <3>2. StartOf(env, req, i) = 0 <=> i <= ZonesOf(env, req)
        BY <2>5, SlotsAreWhole
      <3> QED
        BY <1>6, <1>10, <2>1, <2>5, <3>1, <3>2
    <2>7. \A n \in 1 .. ZonesOf(env, req) : n \in 1 .. SlotCount(env, req) /\ SlotOf(env, req, n) = SlotOf(env, none, n)
      <3> TAKE n \in 1 .. ZonesOf(env, req)
      <3>1. n \in 1 .. SlotCount(env, req) /\ n \in 1 .. SlotCount(env, none)
        BY <1>6, <1>9, <1>10
      <3>2. StartOf(env, req, n) = 0 <=> n <= ZonesOf(env, req)
        BY <3>1, SlotsAreWhole
      <3>3. StartOf(env, none, n) = 0 <=> n <= ZonesOf(env, none)
        BY <1>3, <3>1, SlotsAreWhole
      <3>4. StartOf(env, req, n) = 0 /\ StartOf(env, none, n) = 0
        BY <1>6, <3>2, <3>3
      <3>5. LastHour(req, 0) \in Int
        <4>1. DurationHours(req.minutes) \in Nat \ {0}
          BY SlotSpacing DEF IsRequest
        <4> QED
          BY <4>1 DEF LastHour
      <3>6. LastHour(req, 0) <= req.maxDelay /\ LastHour(req, 0) <= none.maxDelay
        BY <1>1, <1>2, <3>5
      <3>7. SlotOf(env, req, n) = SlotOf(env, none, n)
        BY <1>3, <1>5, <3>1, <3>4, <3>6, SlotOfBoth
      <3> QED
        BY <3>1, <3>7
    <2>8. Leads(Slots(env, none), "lowest_carbon", i)
      <3>1. \A n \in 1 .. ZonesOf(env, req) :
               SlotKey(Slots(env, none), "lowest_carbon", n) = SlotKey(Slots(env, req), "lowest_carbon", n)
        BY <2>4, <2>7 DEF SlotKey
      <3>2. \A n \in 1 .. ZonesOf(env, req) :
               RanksBefore(SlotKey(Slots(env, req), "lowest_carbon", i), SlotKey(Slots(env, req), "lowest_carbon", n))
        BY <2>1, <2>4, <2>7 DEF Leads
      <3> QED
        BY <2>4, <2>6, <3>1, <3>2 DEF Leads
    <2>9. i = j
      BY <2>2, <2>3, <2>8, OneLeads
    <2> QED
      BY <2>1, <2>3, <2>6, <2>7, <2>9
  <1> QED
    BY <1>11, <1>12

\* A question asked of the scheduler is of an environment and a request.
LEMMA AskedSchedule ==
  ASSUME NEW q, IsScheduleQuestion(q)
  PROVE  IsEnvironment(q.env) /\ IsRequest(q.req)
  <1>1. IsEnvironment(q.env)
    <2>1. q.env.regions \in Seq(RegionRecords)
      BY DEF IsScheduleQuestion, RegionRecords
    <2>2. q.env.hour \in Int
      <3>1. q.env.hour \in 0 .. 23
        BY DEF IsScheduleQuestion
      <3> QED
        BY <3>1
    <2>3. \A z \in DOMAIN q.env.readings : q.env.readings[z] \in ReadingRecords
      BY DEF IsScheduleQuestion
    <2>4. \A z \in DOMAIN q.env.curves : \A h \in DOMAIN q.env.curves[z] : q.env.curves[z][h] \in 0 .. 100
      BY DEF IsScheduleQuestion
    <2> QED
      BY <2>1, <2>2, <2>3, <2>4 DEF IsEnvironment
  <1>2. IsRequest(q.req)
    BY DEF IsScheduleQuestion, IsRequest, Strategies
  <1> QED
    BY <1>1, <1>2

(***************************************************************************)
(* What a search for a slot recommends follows the forecast of the zone    *)
(* over the hours of the job, is not worsened by more patience, and is     *)
(* what a search for now finds when none is better; a saving is a share    *)
(* (scheduler/engine.py, find_optimal_window and forecast_zone).           *)
(***************************************************************************)
THEOREM SchedulesAreSound == QuestionsSpec => []ScheduleSound
  <1>1. Replies => ScheduleSound
    <2> SUFFICES ASSUME Replies, Replied("schedule") PROVE ScheduleSound
      BY DEF ScheduleSound
    <2> DEFINE q == question
               window == FindOptimalWindow(q.env, q.req)
               now == BestRegionNow(q.env, q.req.minutes, q.req.providers)
    <2>1. answer.window = window /\ answer.now = now
      BY DEF Replies, ScheduleAnswer
    <2>2. IsScheduleQuestion(q)
      BY QuestionsAssumption DEF Replies, Replied
    <2>3. IsEnvironment(q.env) /\ IsRequest(q.req)
      BY <2>2, AskedSchedule
    <2> HIDE DEF q, window, now
    <2>4. NowIsTheFirstSlot(q, window, now)
      BY <2>2, <2>3, NowIsFirst DEF window, now
    <2>5. SlotCount(q.env, q.req) \in Nat
      BY <2>3, SlotsAreCounted
    <2>6. CASE SlotCount(q.env, q.req) = 0
      <3>1. window.saved = 0 /\ window.evaluated = 0
        BY <2>3, <2>6, WindowIsLeader DEF window, Fallback
      <3> QED
        BY <2>1, <2>4, <3>1 DEF ScheduleSound, q
    <2>7. CASE SlotCount(q.env, q.req) # 0
      <3>1. PICK i : Leads(Slots(q.env, q.req), q.req.strategy, i) /\ window.recommended = SlotOf(q.env, q.req, i)
        BY <2>3, <2>7, WindowIsLeader DEF window
      <3>2. window.saved = SavedVsNow(Slots(q.env, q.req), window.recommended)
        BY <2>3, <2>7, WindowIsLeader DEF window
      <3>3. Slots(q.env, q.req) = [n \in 1 .. SlotCount(q.env, q.req) |-> SlotOf(q.env, q.req, n)]
        BY <2>3, SlotsAreCounted
      <3>4. i \in 1 .. SlotCount(q.env, q.req)
        BY <3>1, <3>3 DEF Leads
      <3>5. window.saved \in 0 .. 1000
        BY <2>3, <3>1, <3>2, <3>4, SavedIsShare
      <3>6. FollowsForecast(q, window.recommended)
        BY <2>2, <2>3, <3>1, <3>4, ForecastIsFollowed
      <3>7. LongerNeverWorse(q, window)
        BY <2>2, <2>3, <2>7, LongerIsNeverWorse DEF window
      <3> QED
        BY <2>1, <2>4, <3>5, <3>6, <3>7 DEF ScheduleSound, q
    <2> QED
      BY <2>6, <2>7
  <1> QED
    BY <1>1, RepliesInvariant, PTL
=============================================================================
