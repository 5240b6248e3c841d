----------------------------- MODULE SLAMonitor -----------------------------
(***************************************************************************)
(* The in-process SLA monitor of src/carbonlens/sla/monitor.py: one object *)
(* per process, driven by POST /monitor/start and /monitor/stop, whose     *)
(* loop task wakes every 60 s, checks the SLAs that are due and alerts on  *)
(* a breach.                                                               *)
(*                                                                         *)
(* An action is the code between two awaits of one coroutine.  start()     *)
(* never suspends; stop() suspends once, on the task it cancelled; the     *)
(* loop suspends in a check, in an alert and in its sleep.  cancel() only  *)
(* marks a task: CancelledError is raised when the task is next resumed.   *)
(*                                                                         *)
(* Time is counted in polls and kept as ages: is_due subtracts the stored  *)
(* time of the last check from the `now` its pass read first.              *)
(***************************************************************************)
EXTENDS Integers, FiniteSets

CONSTANTS
  SLAs,        \* the SLAs of the organisation
  Loops,       \* identities of loop tasks
  Stoppers,    \* concurrent stop() calls
  Frequency,   \* Frequency[s]: FREQUENCY_SECONDS of the SLA, in polls
  PassMax,     \* longest pass over the SLAs, in polls
  Channels,    \* number of alert channels of an SLA
  AlertsMax, AlertsKeep,  \* _alerts_sent is cut to AlertsKeep beyond AlertsMax
  Sequential,  \* TRUE: no start() is called while a stop() is under way
  Never, None

ASSUME MonitorAssumption ==
  /\ Frequency \in [SLAs -> Nat \ {0}]
  /\ \E s \in SLAs : \A t \in SLAs : Frequency[t] <= Frequency[s]
  /\ PassMax \in Nat
  /\ Channels \in Nat
  /\ AlertsMax \in Nat /\ AlertsKeep \in 0..AlertsMax
  /\ Sequential \in BOOLEAN
  /\ Never \notin Int
  /\ None \notin Loops \cup SLAs

VARIABLES
  running,    \* _running
  current,    \* _task: the loop task start() made last, or None
  stopping,   \* stopping[k]: the task stop() call k awaits, or None
  pc,         \* pc[l]: where loop task l stands
  cancelled,  \* the loop tasks whose cancel() was called
  slas,       \* slas[l]: the list loop l was started with
  todo,       \* todo[l]: the SLAs its pass has not come to yet
  sla,        \* sla[l]: the SLA it checks or alerts about, or None
  age,        \* age[l]: the time since its pass read `now`
  left,       \* left[l]: the alert channels still to go
  lastCheck,  \* lastCheck[s]: the time since the pass that last checked s, or Never
  alerts      \* the length of _alerts_sent

control == <<running, current, stopping>>
data == <<lastCheck, alerts>>
vars == <<running, current, stopping, pc, cancelled, slas, todo, sla, age, left,
          lastCheck, alerts>>

\* "wake" before `while self._running`, "pass" in the for loop, "check" and
\* "alert" at its awaits, "sleep" in asyncio.sleep; "none": no such task.
Places == {"none", "wake", "pass", "check", "alert", "sleep"}

Init ==
  /\ running = FALSE
  /\ current = None
  /\ stopping = [k \in Stoppers |-> None]
  /\ pc = [l \in Loops |-> "none"]
  /\ cancelled = {}
  /\ slas = [l \in Loops |-> {}]
  /\ todo = [l \in Loops |-> {}]
  /\ sla = [l \in Loops |-> None]
  /\ age = [l \in Loops |-> 0]
  /\ left = [l \in Loops |-> 0]
  /\ lastCheck = [s \in SLAs |-> Never]
  /\ alerts = 0

Live == {l \in Loops : pc[l] # "none"}

\* Only differences up to the longest frequency matter.
AgeMax == PassMax + (CHOOSE m \in {Frequency[s] : s \in SLAs} :
                       \A s \in SLAs : Frequency[s] <= m)

----------------------------------------------------------------------------
(* start() and stop() *)

Unused == {l \in Loops : pc[l] = "none" /\ \A k \in Stoppers : stopping[k] # l}

\* asyncio.create_task(self._run_loop(list)).
CreateLoop(list) ==
  LET l == CHOOSE x \in Unused : TRUE IN
  /\ Unused # {}
  /\ current' = l
  /\ pc' = [pc EXCEPT ![l] = "wake"]
  /\ slas' = [slas EXCEPT ![l] = list]

\* Fault: start() does not look at _running.
StartAgain(list) ==
  /\ Sequential => \A k \in Stoppers : stopping[k] = None
  /\ running' = TRUE
  /\ CreateLoop(list)
  /\ UNCHANGED <<stopping, cancelled, todo, sla, age, left, data>>

\* Fault: start() begins with an empty _last_check.
StartForgets(list) ==
  /\ Sequential => \A k \in Stoppers : stopping[k] = None
  /\ ~running
  /\ running' = TRUE
  /\ CreateLoop(list)
  /\ lastCheck' = [s \in SLAs |-> Never]
  /\ UNCHANGED <<stopping, cancelled, todo, sla, age, left, alerts>>

\* POST /monitor/start with the active SLAs the repository lists now.  While
\* _running is set it returns without doing anything.
Start(list) ==
  /\ Sequential => \A k \in Stoppers : stopping[k] = None
  /\ ~running
  /\ running' = TRUE
  /\ CreateLoop(list)
  /\ UNCHANGED <<stopping, cancelled, todo, sla, age, left, data>>

\* Fault: stop() relies on the flag and forgets the task without cancelling it.
StopFlagOnly(k) ==
  /\ stopping[k] = None
  /\ running' = FALSE
  /\ current' = None
  /\ UNCHANGED <<stopping, pc, cancelled, slas, todo, sla, age, left, data>>

\* stop() up to its await: the flag is cleared and the tracked task cancelled.
\* With no tracked task stop() returns here.
Stop(k) ==
  /\ stopping[k] = None
  /\ running' = FALSE
  /\ stopping' = [stopping EXCEPT ![k] = current]
  /\ cancelled' = cancelled \cup ({current} \cap Live)
  /\ UNCHANGED <<current, pc, slas, todo, sla, age, left, data>>

\* stop() after its await: the awaited task has ended; _task is cleared,
\* whatever task it names by now.
StopReturns(k) ==
  /\ stopping[k] # None
  /\ stopping[k] \notin Live
  /\ current' = None
  /\ stopping' = [stopping EXCEPT ![k] = None]
  /\ UNCHANGED <<running, pc, cancelled, slas, todo, sla, age, left, data>>

----------------------------------------------------------------------------
(* _run_loop *)

\* Task l ends; what it knew is gone.
End(l) ==
  /\ pc' = [pc EXCEPT ![l] = "none"]
  /\ cancelled' = cancelled \ {l}
  /\ slas' = [slas EXCEPT ![l] = {}]
  /\ todo' = [todo EXCEPT ![l] = {}]
  /\ sla' = [sla EXCEPT ![l] = None]
  /\ age' = [age EXCEPT ![l] = 0]
  /\ left' = [left EXCEPT ![l] = 0]
  /\ UNCHANGED <<control, data>>

\* CancelledError at the await the task stands at ends _run_loop.
Cancelled(l) == l \in cancelled /\ End(l)

At(l, place) == pc[l] = place /\ l \notin cancelled

Goto(l, place) == pc' = [pc EXCEPT ![l] = place]

\* `while self._running`: end, or read `now` and begin a pass.
Wake(l) ==
  /\ At(l, "wake")
  /\ IF ~running THEN End(l)
     ELSE /\ Goto(l, "pass")
          /\ todo' = [todo EXCEPT ![l] = slas[l]]
          /\ UNCHANGED <<control, cancelled, slas, sla, age, left, data>>

\* is_due against the `now` of pass l.
Due(l, s) == lastCheck[s] = Never \/ lastCheck[s] - age[l] >= Frequency[s]

\* The next SLA of the pass: skipped when it is not due, else its check begins.
Visit(l, s) ==
  /\ At(l, "pass")
  /\ s \in todo[l]
  /\ todo' = [todo EXCEPT ![l] = @ \ {s}]
  /\ Goto(l, IF Due(l, s) THEN "check" ELSE "pass")
  /\ sla' = [sla EXCEPT ![l] = IF Due(l, s) THEN s ELSE None]
  /\ UNCHANGED <<control, cancelled, slas, age, left, data>>

\* check_sla returns: the check counts from the start of the pass, and a
\* breach or a warning is announced on the SLA's channels.
CheckReturns(l) ==
  /\ At(l, "check")
  /\ lastCheck' = [lastCheck EXCEPT ![sla[l]] = age[l]]
  /\ \E announced \in {0, Channels} :
       /\ Goto(l, IF announced > 0 THEN "alert" ELSE "pass")
       /\ left' = [left EXCEPT ![l] = announced]
  /\ UNCHANGED <<control, cancelled, slas, todo, sla, age, alerts>>

\* Fault: an exception of one check ends the pass.
CheckRaisesAborts(l) ==
  /\ At(l, "check")
  /\ Goto(l, "sleep")
  /\ todo' = [todo EXCEPT ![l] = {}]
  /\ sla' = [sla EXCEPT ![l] = None]
  /\ age' = [age EXCEPT ![l] = 0]
  /\ UNCHANGED <<control, cancelled, slas, left, data>>

\* check_sla raises: logged, not recorded, and the pass goes on.
CheckRaises(l) ==
  /\ At(l, "check")
  /\ Goto(l, "pass")
  /\ UNCHANGED <<control, cancelled, slas, todo, sla, age, left, data>>

\* Fault: the alert list is not cut.
UntrimmedAlerts == alerts + 1

\* The length of _alerts_sent with one more alert.
RecordedAlerts == IF alerts + 1 > AlertsMax THEN AlertsKeep ELSE alerts + 1

\* One channel of _send_alerts: an alert is recorded unless sending it raised.
Alert(l) ==
  /\ At(l, "alert")
  /\ \E recorded \in BOOLEAN : alerts' = IF recorded THEN RecordedAlerts ELSE alerts
  /\ left' = [left EXCEPT ![l] = @ - 1]
  /\ Goto(l, IF left[l] = 1 THEN "pass" ELSE "alert")
  /\ UNCHANGED <<control, cancelled, slas, todo, sla, age, lastCheck>>

\* The pass is over: asyncio.sleep(60).
PassOver(l) ==
  /\ At(l, "pass")
  /\ todo[l] = {}
  /\ Goto(l, "sleep")
  /\ sla' = [sla EXCEPT ![l] = None]
  /\ age' = [age EXCEPT ![l] = 0]
  /\ UNCHANGED <<control, cancelled, slas, todo, left, data>>

----------------------------------------------------------------------------
(* One poll interval passes: sleeping loops wake up.  A task that is ready *)
(* runs long before that, and a pass is bounded by the timeouts of its     *)
(* requests.                                                               *)

InPass(l) == pc[l] \in {"pass", "check", "alert"}

Later(a) == IF a = Never \/ a = AgeMax THEN a ELSE a + 1

Tick ==
  /\ \A l \in Loops : InPass(l) => age[l] < PassMax
  /\ \A l \in Loops : pc[l] # "wake"
  /\ cancelled = {}
  /\ lastCheck' = [s \in SLAs |-> Later(lastCheck[s])]
  /\ pc' = [l \in Loops |-> IF pc[l] = "sleep" THEN "wake" ELSE pc[l]]
  /\ age' = [l \in Loops |-> IF InPass(l) THEN age[l] + 1 ELSE age[l]]
  /\ UNCHANGED <<control, cancelled, slas, todo, sla, left, alerts>>

----------------------------------------------------------------------------

Step(l) ==
  \/ Cancelled(l)
  \/ Wake(l)
  \/ \E s \in SLAs : Visit(l, s)
  \/ CheckReturns(l)
  \/ CheckRaises(l)
  \/ Alert(l)
  \/ PassOver(l)

Next ==
  \/ \E list \in SUBSET SLAs \ {{}} : Start(list)
  \/ \E k \in Stoppers : Stop(k)
  \/ \E k \in Stoppers : StopReturns(k)
  \/ \E l \in Loops : Step(l)
  \/ Tick

\* The event loop runs what is ready and every await of the loop is bounded
\* by a timeout; nobody is obliged to call start() or stop().
Fairness ==
  /\ \A l \in Loops : WF_vars(Step(l))
  /\ \A k \in Stoppers : WF_vars(StopReturns(k))
  /\ WF_vars(Tick)

Spec == Init /\ [][Next]_vars /\ Fairness

----------------------------------------------------------------------------

\* Every variable has its type; the alert list stays within its bound
\* (monitor.py:151-152).
TypeOK ==
  /\ running \in BOOLEAN
  /\ current \in Loops \cup {None}
  /\ pc \in [Loops -> Places]
  /\ cancelled \subseteq Loops
  /\ slas \in [Loops -> SUBSET SLAs]
  /\ todo \in [Loops -> SUBSET SLAs]
  /\ sla \in [Loops -> SLAs \cup {None}]
  /\ age \in [Loops -> 0..PassMax]
  /\ left \in [Loops -> 0..Channels]
  /\ stopping \in [Stoppers -> Loops \cup {None}]
  /\ lastCheck \in [SLAs -> 0..AgeMax \cup {Never}]
  /\ alerts \in 0..AlertsMax

\* However start() and stop() follow each other, there is never a second loop
\* task: two would share _last_check and check and alert twice.
OneLoop == \A l, m \in Live : l = m

\* "Stop the background monitor." (monitor.py:54): with every stop() returned
\* and none followed by a start(), no loop task is left that could check or
\* alert.
StopStops == ~running /\ (\A k \in Stoppers : stopping[k] = None) => Live = {}

\* The start of the pass that checks an SLA is at least its frequency after
\* the start of the pass that checked it before, through any restart of the
\* monitor in between.
CheckSpacing ==
  [][\A s \in SLAs :
       lastCheck[s] # Never
         => /\ lastCheck'[s] # Never
            /\ \A l \in Loops :
                 CheckReturns(l) /\ sla[l] = s => lastCheck[s] - lastCheck'[s] >= Frequency[s]]_vars

\* A monitored SLA that is due is checked, or the monitor is stopped: failures
\* of checks and alerts of other SLAs do not starve it.
DueIsChecked ==
  \A s \in SLAs :
    (\E l \in Live : s \in slas[l] /\ Due(l, s))
      ~> (~running \/ \E l \in Live : pc[l] = "check" /\ sla[l] = s)
============================================================================
