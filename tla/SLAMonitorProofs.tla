-------------------------- MODULE SLAMonitorProofs --------------------------
(***************************************************************************)
(* Theorems about SLAMonitor when start() is not called while a stop() is  *)
(* under way: there is at most one loop and stop() leaves none, for any    *)
(* number of SLAs, loop tasks and concurrent stop() calls.                 *)
(***************************************************************************)
EXTENDS SLAMonitor, TLAPS

\* The types that control depends on.
ControlType ==
  /\ running \in BOOLEAN
  /\ current \in Loops \cup {None}
  /\ stopping \in [Stoppers -> Loops \cup {None}]
  /\ pc \in [Loops -> Places]

\* Why the invariants hold: the only task that can be alive is the one _task
\* names, and every stop() under way awaits it; while _running is set no stop()
\* is under way; and while it is not, some stop() awaits whatever task is alive.
Tracked ==
  /\ Live \subseteq {current}
  /\ Live # {} => \A k \in Stoppers : stopping[k] \in {None, current}
  /\ running => \A k \in Stoppers : stopping[k] = None
  /\ ~running => \A l \in Live : \E k \in Stoppers : stopping[k] = l

MonitorInv == ControlType /\ Tracked

----------------------------------------------------------------------------

\* A step of a loop task touches neither the flag nor the calls, and cannot
\* bring a task to life.
LEMMA StepControl ==
  ASSUME ControlType, NEW l \in Loops, Step(l)
  PROVE  UNCHANGED control /\ pc' \in [Loops -> Places] /\ Live' \subseteq Live
<1> USE DEF ControlType, Places, Live, At, Goto
<1>1. CASE Cancelled(l)
  BY <1>1 DEF Cancelled, End
<1>2. CASE Wake(l)
  BY <1>2 DEF Wake, End
<1>3. ASSUME NEW s \in SLAs, Visit(l, s)
      PROVE  UNCHANGED control /\ pc' \in [Loops -> Places] /\ Live' \subseteq Live
  BY <1>3 DEF Visit
<1>4. CASE CheckReturns(l)
  BY <1>4 DEF CheckReturns
<1>5. CASE CheckRaises(l)
  BY <1>5 DEF CheckRaises
<1>6. CASE Alert(l)
  BY <1>6 DEF Alert
<1>7. CASE PassOver(l)
  BY <1>7 DEF PassOver
<1>8. QED
  BY <1>1, <1>2, <1>3, <1>4, <1>5, <1>6, <1>7 DEF Step

LEMMA StepInv ==
  ASSUME MonitorInv, NEW l \in Loops, Step(l)
  PROVE  MonitorInv'
<1>1. UNCHANGED control /\ pc' \in [Loops -> Places] /\ Live' \subseteq Live
  BY StepControl DEF MonitorInv
<1>2. ControlType'
  BY <1>1 DEF MonitorInv, ControlType, control
<1>3. Tracked'
  BY <1>1 DEF MonitorInv, Tracked, control
<1>4. QED
  BY <1>2, <1>3 DEF MonitorInv

\* No stop() is under way and none is running: no task is alive when start()
\* makes one.
LEMMA StartInv ==
  ASSUME MonitorInv, Sequential, NEW list \in SUBSET SLAs, Start(list)
  PROVE  MonitorInv'
<1>1. /\ ~running /\ running'
      /\ \A k \in Stoppers : stopping[k] = None
      /\ UNCHANGED stopping
  BY DEF Start
<1>2. Live = {}
  BY <1>1, MonitorAssumption DEF MonitorInv, Tracked, Live
<1>3. PICK l \in Loops : current' = l /\ pc' = [pc EXCEPT ![l] = "wake"]
  <2>1. (CHOOSE x \in Unused : TRUE) \in Loops
    BY DEF Start, CreateLoop, Unused
  <2>2. QED
    BY <2>1 DEF Start, CreateLoop
<1>4. ControlType'
  BY <1>1, <1>3 DEF MonitorInv, ControlType, Places
<1>5. Live' \subseteq {current'}
  BY <1>2, <1>3 DEF Live, MonitorInv, ControlType
<1>6. QED
  BY <1>1, <1>4, <1>5 DEF MonitorInv, Tracked

\* stop() clears the flag and awaits the only task that can be alive.
LEMMA StopInv ==
  ASSUME MonitorInv, NEW k \in Stoppers, Stop(k)
  PROVE  MonitorInv'
<1>1. /\ running' = FALSE
      /\ stopping' = [stopping EXCEPT ![k] = current]
      /\ stopping[k] = None
      /\ UNCHANGED <<current, pc>>
  BY DEF Stop
<1>2. ControlType'
  BY <1>1 DEF MonitorInv, ControlType
<1>3. Live' = Live
  BY <1>1 DEF Live
<1>4. \A l \in Live : \E j \in Stoppers : stopping'[j] = l
  <2> SUFFICES ASSUME NEW l \in Live PROVE stopping'[k] = l
    OBVIOUS
  <2>1. l = current
    BY DEF MonitorInv, Tracked
  <2>2. QED
    BY <1>1, <2>1 DEF MonitorInv, ControlType
<1>5. QED
  BY <1>1, <1>2, <1>3, <1>4 DEF MonitorInv, Tracked

\* The awaited task has ended, so no task is alive when _task is cleared.
LEMMA StopReturnsInv ==
  ASSUME MonitorInv, NEW k \in Stoppers, StopReturns(k)
  PROVE  MonitorInv'
<1>1. /\ stopping[k] # None /\ stopping[k] \notin Live
      /\ current' = None
      /\ stopping' = [stopping EXCEPT ![k] = None]
      /\ UNCHANGED <<running, pc>>
  BY DEF StopReturns
<1>2. ControlType'
  BY <1>1 DEF MonitorInv, ControlType
<1>3. ~running
  BY <1>1 DEF MonitorInv, Tracked
<1>4. Live' = Live
  BY <1>1 DEF Live
<1>5. Live = {}
  BY <1>1 DEF MonitorInv, Tracked
<1>6. QED
  BY <1>1, <1>2, <1>3, <1>4, <1>5 DEF MonitorInv, Tracked

\* Time only wakes sleeping tasks up.
LEMMA TickInv ==
  ASSUME MonitorInv, Tick
  PROVE  MonitorInv'
<1>1. /\ UNCHANGED <<running, current, stopping>>
      /\ pc' = [l \in Loops |-> IF pc[l] = "sleep" THEN "wake" ELSE pc[l]]
  BY DEF Tick, control
<1>2. ControlType'
  BY <1>1 DEF MonitorInv, ControlType, Places
<1>3. Live' = Live
  BY <1>1 DEF Live
<1>4. QED
  BY <1>1, <1>2, <1>3 DEF MonitorInv, Tracked

LEMMA InitInv == Init => MonitorInv
BY DEF Init, MonitorInv, ControlType, Tracked, Live, Places

LEMMA NextInv ==
  ASSUME Sequential, MonitorInv, [Next]_vars
  PROVE  MonitorInv'
<1>1. ASSUME NEW list \in SUBSET SLAs \ {{}}, Start(list)
      PROVE  MonitorInv'
  BY <1>1, StartInv
<1>2. ASSUME NEW k \in Stoppers, Stop(k)
      PROVE  MonitorInv'
  BY <1>2, StopInv
<1>3. ASSUME NEW k \in Stoppers, StopReturns(k)
      PROVE  MonitorInv'
  BY <1>3, StopReturnsInv
<1>4. ASSUME NEW l \in Loops, Step(l)
      PROVE  MonitorInv'
  BY <1>4, StepInv
<1>5. CASE Tick
  BY <1>5, TickInv
<1>6. CASE UNCHANGED vars
  BY <1>6 DEF vars, MonitorInv, ControlType, Tracked, Live
<1>7. QED
  BY <1>1, <1>2, <1>3, <1>4, <1>5, <1>6 DEF Next

LEMMA MonitorInvariant ==
  ASSUME Sequential
  PROVE  Spec => []MonitorInv
<1>1. MonitorInv /\ [Next]_vars => MonitorInv'
  BY NextInv
<1>2. QED
  BY InitInv, <1>1, PTL DEF Spec

----------------------------------------------------------------------------

\* With start() and stop() one after the other there is never a second loop
\* task, however many calls are made (monitor.py:45-63).
THEOREM MonitorOneLoop ==
  ASSUME Sequential
  PROVE  Spec => []OneLoop
<1>1. MonitorInv => OneLoop
  BY DEF MonitorInv, Tracked, OneLoop
<1>2. QED
  BY <1>1, MonitorInvariant, PTL

\* With start() and stop() one after the other, once every stop() has returned
\* no loop task is left (monitor.py:53-63).
THEOREM MonitorStopStops ==
  ASSUME Sequential
  PROVE  Spec => []StopStops
<1>1. MonitorInv => StopStops
  BY MonitorAssumption DEF MonitorInv, Tracked, StopStops, Live
<1>2. QED
  BY <1>1, MonitorInvariant, PTL

----------------------------------------------------------------------------
(* What the loops and the monitor record.                                  *)

\* TypeOK is inductive once it is known what a loop holds at its awaits.
LoopInv ==
  /\ TypeOK
  /\ \A l \in Loops : pc[l] = "check" => sla[l] \in SLAs
  /\ \A l \in Loops : pc[l] = "alert" => left[l] > 0

\* Ages are told apart up to the longest frequency after the longest pass.
LEMMA AgeMaxBound ==
  AgeMax \in Nat /\ \A s \in SLAs : Frequency[s] \in Nat \ {0} /\ PassMax + Frequency[s] <= AgeMax
<1> DEFINE F == {Frequency[s] : s \in SLAs}
           m == CHOOSE x \in F : \A s \in SLAs : Frequency[s] <= x
<1>1. \E x \in F : \A s \in SLAs : Frequency[s] <= x
  BY MonitorAssumption
<1>2. m \in F /\ \A s \in SLAs : Frequency[s] <= m
  BY <1>1
<1>3. m \in Nat /\ \A s \in SLAs : Frequency[s] \in Nat \ {0}
  BY <1>2, MonitorAssumption
<1>4. AgeMax = PassMax + m
  BY DEF AgeMax
<1> HIDE DEF m
<1>5. QED
  BY <1>2, <1>3, <1>4, MonitorAssumption

\* The end of a task leaves its variables as they began.
LEMMA EndLoop ==
  ASSUME LoopInv, NEW l \in Loops, End(l)
  PROVE  LoopInv'
<1> USE DEF LoopInv, TypeOK
<1>1. pc' \in [Loops -> Places] /\ pc'[l] = "none" /\ \A m \in Loops : m # l => pc'[m] = pc[m]
  BY DEF End, Places
<1>2. sla' \in [Loops -> SLAs \cup {None}] /\ \A m \in Loops : m # l => sla'[m] = sla[m]
  BY DEF End
<1>3. left' \in [Loops -> 0..Channels] /\ \A m \in Loops : m # l => left'[m] = left[m]
  BY MonitorAssumption DEF End
<1>4. slas' \in [Loops -> SUBSET SLAs] /\ todo' \in [Loops -> SUBSET SLAs] /\ cancelled' \subseteq Loops
  BY DEF End
<1>5. age' \in [Loops -> 0..PassMax]
  BY MonitorAssumption DEF End
<1>6. QED
  BY <1>1, <1>2, <1>3, <1>4, <1>5 DEF End, control, data

\* The next step of a loop that is not cancelled.
LEMMA StepLoop ==
  ASSUME LoopInv, NEW l \in Loops, Step(l)
  PROVE  LoopInv'
<1> USE DEF LoopInv, TypeOK, At, Goto, Places
<1>1. CASE Cancelled(l)
  BY <1>1, EndLoop DEF Cancelled
<1>2. CASE Wake(l)
  <2>1. CASE ~running
    BY <1>2, <2>1, EndLoop DEF Wake
  <2>2. CASE running
    BY <1>2, <2>2 DEF Wake, control, data
  <2>3. QED
    BY <2>1, <2>2
<1>3. ASSUME NEW s \in SLAs, Visit(l, s)
      PROVE  LoopInv'
  <2>1. todo' \in [Loops -> SUBSET SLAs]
    BY <1>3 DEF Visit
  <2>2. pc' \in [Loops -> Places] /\ sla' \in [Loops -> SLAs \cup {None}]
    BY <1>3 DEF Visit
  <2>3. \A m \in Loops : pc'[m] = "check" => sla'[m] \in SLAs
    BY <1>3 DEF Visit
  <2>4. \A m \in Loops : pc'[m] = "alert" => left'[m] > 0
    BY <1>3 DEF Visit
  <2>5. QED
    BY <1>3, <2>1, <2>2, <2>3, <2>4 DEF Visit, control, data
<1>4. CASE CheckReturns(l)
  <2>1. PICK announced \in {0, Channels} :
          /\ pc' = [pc EXCEPT ![l] = IF announced > 0 THEN "alert" ELSE "pass"]
          /\ left' = [left EXCEPT ![l] = announced]
    BY <1>4 DEF CheckReturns
  <2>2. pc' \in [Loops -> Places] /\ left' \in [Loops -> 0..Channels]
    BY <2>1, MonitorAssumption
  <2>3. \A m \in Loops : pc'[m] = "alert" => left'[m] > 0
    BY <2>1
  <2>4. \A m \in Loops : pc'[m] = "check" => sla'[m] \in SLAs
    BY <1>4, <2>1 DEF CheckReturns
  <2>5. age[l] \in 0..AgeMax
    BY AgeMaxBound, MonitorAssumption
  <2>6. lastCheck' \in [SLAs -> 0..AgeMax \cup {Never}]
    BY <1>4, <2>5 DEF CheckReturns
  <2>7. QED
    BY <1>4, <2>2, <2>3, <2>4, <2>6 DEF CheckReturns, control
<1>5. CASE CheckRaises(l)
  BY <1>5 DEF CheckRaises, control, data
<1>6. CASE Alert(l)
  <2>1. alerts' \in 0..AlertsMax
    BY <1>6, MonitorAssumption DEF Alert, RecordedAlerts
  <2>2. left[l] \in 1..Channels
    BY <1>6, MonitorAssumption DEF Alert
  <2>3. left' \in [Loops -> 0..Channels]
    BY <1>6, <2>2, MonitorAssumption DEF Alert
  <2>4. \A m \in Loops : pc'[m] = "alert" => left'[m] > 0
    BY <1>6, <2>2, MonitorAssumption DEF Alert
  <2>5. QED
    BY <1>6, <2>1, <2>3, <2>4 DEF Alert, control
<1>7. CASE PassOver(l)
  <2>1. age' \in [Loops -> 0..PassMax]
    BY <1>7, MonitorAssumption DEF PassOver
  <2>2. QED
    BY <1>7, <2>1 DEF PassOver, control, data
<1>8. QED
  BY <1>1, <1>2, <1>3, <1>4, <1>5, <1>6, <1>7 DEF Step

\* A new task begins with the list it was given; the calls that stop it touch
\* only its cancellation.
LEMMA CallLoop ==
  ASSUME LoopInv,
         \/ \E list \in SUBSET SLAs \ {{}} : Start(list)
         \/ \E k \in Stoppers : Stop(k) \/ StopReturns(k)
  PROVE  LoopInv'
<1> USE DEF LoopInv, TypeOK, Places
<1>1. ASSUME NEW list \in SUBSET SLAs, Start(list)
      PROVE  LoopInv'
  <2>1. PICK l \in Loops : /\ current' = l
                           /\ pc' = [pc EXCEPT ![l] = "wake"]
                           /\ slas' = [slas EXCEPT ![l] = list]
    <3>1. (CHOOSE x \in Unused : TRUE) \in Loops
      BY <1>1 DEF Start, CreateLoop, Unused
    <3>2. QED
      BY <1>1, <3>1 DEF Start, CreateLoop
  <2>2. QED
    BY <1>1, <2>1 DEF Start, data
<1>2. ASSUME NEW k \in Stoppers, Stop(k)
      PROVE  LoopInv'
  BY <1>2 DEF Stop, Live, data
<1>3. ASSUME NEW k \in Stoppers, StopReturns(k)
      PROVE  LoopInv'
  BY <1>3 DEF StopReturns, data
<1>4. QED
  BY <1>1, <1>2, <1>3

\* Time passes for what was checked and for the passes under way.
LEMMA TickLoop ==
  ASSUME LoopInv, Tick
  PROVE  LoopInv'
<1> USE DEF LoopInv, TypeOK
<1>1. lastCheck' \in [SLAs -> 0..AgeMax \cup {Never}]
  BY AgeMaxBound, MonitorAssumption DEF Tick, Later
<1>2. age' \in [Loops -> 0..PassMax]
  BY MonitorAssumption DEF Tick
<1>3. pc' \in [Loops -> Places] /\ \A l \in Loops : pc'[l] \in {"check", "alert"} => pc'[l] = pc[l]
  BY DEF Tick, Places
<1>4. QED
  BY <1>1, <1>2, <1>3 DEF Tick, control

LEMMA NextLoop == LoopInv /\ [Next]_vars => LoopInv'
<1> SUFFICES ASSUME LoopInv, [Next]_vars PROVE LoopInv'
  OBVIOUS
<1>1. CASE UNCHANGED vars
  BY <1>1 DEF vars, LoopInv, TypeOK
<1>2. QED
  BY <1>1, StepLoop, CallLoop, TickLoop DEF Next

LEMMA InitLoop == Init => LoopInv
<1> SUFFICES ASSUME Init PROVE LoopInv
  OBVIOUS
<1>1. age \in [Loops -> 0..PassMax] /\ left \in [Loops -> 0..Channels] /\ alerts \in 0..AlertsMax
  BY MonitorAssumption DEF Init
<1>2. pc \in [Loops -> Places] /\ \A l \in Loops : pc[l] = "none"
  BY DEF Init, Places
<1>3. /\ running \in BOOLEAN /\ current \in Loops \cup {None} /\ cancelled \subseteq Loops
      /\ stopping \in [Stoppers -> Loops \cup {None}]
  BY DEF Init
<1>4. /\ slas \in [Loops -> SUBSET SLAs] /\ todo \in [Loops -> SUBSET SLAs]
      /\ sla \in [Loops -> SLAs \cup {None}] /\ lastCheck \in [SLAs -> 0..AgeMax \cup {Never}]
  BY DEF Init
<1>5. QED
  BY <1>1, <1>2, <1>3, <1>4 DEF LoopInv, TypeOK

\* The monitor's variables keep their types however start(), stop() and the
\* loops interleave; the alert list stays cut (monitor.py:151-152).
THEOREM MonitorTypeCorrect == Spec => []TypeOK
<1>1. LoopInv => TypeOK
  BY DEF LoopInv
<1>2. QED
  BY InitLoop, NextLoop, <1>1, PTL DEF Spec

----------------------------------------------------------------------------
(* The spacing of checks.  A loop decides that an SLA is due before it     *)
(* awaits the check and records it after; that the SLA is still due then   *)
(* needs that no other loop has recorded a check of it in between.         *)

\* What a loop checks is due, against the `now` of its pass.
DueInv == \A l \in Loops : pc[l] = "check" => Due(l, sla[l])

\* A step of the only loop that is alive.
LEMMA StepDue ==
  ASSUME LoopInv, MonitorInv, DueInv, NEW l \in Loops, Step(l)
  PROVE  DueInv'
<1> USE DEF DueInv, At, Goto
<1>1. pc \in [Loops -> Places]
  BY DEF LoopInv, TypeOK
<1>2. ASSUME pc'[l] # "check", \A m \in Loops : m # l => pc'[m] = pc[m], l \in Live
      PROVE  DueInv'
  BY <1>1, <1>2 DEF MonitorInv, Tracked, Live
<1>3. ASSUME UNCHANGED <<age, lastCheck>>,
             \A m \in Loops : pc'[m] = "check" => pc[m] = "check" /\ sla'[m] = sla[m]
      PROVE  DueInv'
  BY <1>3 DEF Due
<1>4. CASE Cancelled(l)
  <2>1. age' = [age EXCEPT ![l] = 0] /\ sla' = [sla EXCEPT ![l] = None] /\ lastCheck' = lastCheck
    BY <1>4 DEF Cancelled, End, data
  <2>2. pc' = [pc EXCEPT ![l] = "none"]
    BY <1>4 DEF Cancelled, End
  <2>3. QED
    BY <1>1, <2>1, <2>2 DEF Due, LoopInv, TypeOK
<1>5. CASE Wake(l)
  <2>1. pc'[l] # "check" /\ (\A m \in Loops : m # l => pc'[m] = pc[m]) /\ l \in Live
    BY <1>1, <1>5 DEF Wake, End, Live
  <2>2. QED
    BY <1>2, <2>1
<1>6. ASSUME NEW s \in SLAs, Visit(l, s)
      PROVE  DueInv'
  <2>1. UNCHANGED <<age, lastCheck>>
    BY <1>6 DEF Visit, data
  <2>2. pc'[l] = "check" => sla'[l] = s /\ Due(l, s)
    BY <1>1, <1>6 DEF Visit, LoopInv, TypeOK
  <2>3. \A m \in Loops : m # l => pc'[m] = pc[m] /\ sla'[m] = sla[m]
    BY <1>1, <1>6 DEF Visit, LoopInv, TypeOK
  <2>4. QED
    BY <2>1, <2>2, <2>3 DEF Due
<1>7. CASE CheckReturns(l)
  <2>1. pc'[l] # "check" /\ (\A m \in Loops : m # l => pc'[m] = pc[m]) /\ l \in Live
    BY <1>1, <1>7 DEF CheckReturns, Live
  <2>2. QED
    BY <1>2, <2>1
<1>8. CASE CheckRaises(l)
  BY <1>1, <1>3, <1>8 DEF CheckRaises, data
<1>9. CASE Alert(l)
  BY <1>1, <1>3, <1>9 DEF Alert
<1>10. CASE PassOver(l)
  <2>1. pc'[l] # "check" /\ (\A m \in Loops : m # l => pc'[m] = pc[m]) /\ l \in Live
    BY <1>1, <1>10 DEF PassOver, Live
  <2>2. QED
    BY <1>2, <2>1
<1>11. QED
  BY <1>4, <1>5, <1>6, <1>7, <1>8, <1>9, <1>10 DEF Step

\* The ages of checks and of the pass grow together, and what grows no more is
\* due for every frequency.
LEMMA TickDue ==
  ASSUME LoopInv, DueInv, Tick
  PROVE  DueInv'
<1> SUFFICES ASSUME NEW l \in Loops, pc'[l] = "check"
             PROVE  Due(l, sla[l])'
  BY DEF DueInv
<1> USE DEF LoopInv, TypeOK
<1>1. pc[l] = "check" /\ age[l] < PassMax /\ age'[l] = age[l] + 1 /\ sla'[l] = sla[l]
  BY DEF Tick, InPass
<1>2. PICK s \in SLAs : s = sla[l]
  BY <1>1
<1>3. lastCheck[s] = Never \/ lastCheck[s] - age[l] >= Frequency[s]
  BY <1>1, <1>2 DEF DueInv, Due
<1>4. lastCheck'[s] = Later(lastCheck[s])
  BY DEF Tick
<1>5. lastCheck[s] \in 0..AgeMax \cup {Never} /\ age[l] \in 0..PassMax
  OBVIOUS
<1>6. lastCheck'[s] = Never \/ lastCheck'[s] - age'[l] >= Frequency[s]
  <2>1. CASE lastCheck[s] = Never
    BY <1>4, <2>1 DEF Later
  <2>2. CASE lastCheck[s] = AgeMax /\ lastCheck[s] # Never
    BY <1>1, <1>4, <1>5, <2>2, AgeMaxBound, MonitorAssumption DEF Later
  <2>3. CASE lastCheck[s] # AgeMax /\ lastCheck[s] # Never
    BY <1>1, <1>3, <1>4, <1>5, <2>3, AgeMaxBound, MonitorAssumption DEF Later
  <2>4. QED
    BY <2>1, <2>2, <2>3
<1>7. QED
  BY <1>1, <1>2, <1>6 DEF Due

LEMMA NextDue ==
  ASSUME LoopInv, MonitorInv, DueInv, [Next]_vars
  PROVE  DueInv'
<1>1. ASSUME UNCHANGED <<pc, sla, age, lastCheck>>
      PROVE  DueInv'
  BY <1>1 DEF DueInv, Due
<1>2. ASSUME NEW list \in SUBSET SLAs \ {{}}, Start(list)
      PROVE  DueInv'
  <2>1. UNCHANGED <<sla, age, lastCheck>>
    BY <1>2 DEF Start, data
  <2>2. \A m \in Loops : pc'[m] = "check" => pc[m] = "check"
    BY <1>2 DEF Start, CreateLoop, LoopInv, TypeOK
  <2>3. QED
    BY <2>1, <2>2 DEF DueInv, Due
<1>3. ASSUME NEW k \in Stoppers, Stop(k) \/ StopReturns(k)
      PROVE  DueInv'
  BY <1>1, <1>3 DEF Stop, StopReturns, data
<1>4. CASE UNCHANGED vars
  BY <1>1, <1>4 DEF vars
<1>5. QED
  BY <1>2, <1>3, <1>4, StepDue, TickDue DEF Next

\* A step that records a check finds it due; no other step but the passing of
\* time touches the ages of checks.
LEMMA SpacedStep ==
  ASSUME LoopInv, DueInv, [Next]_vars, NEW s \in SLAs, lastCheck[s] # Never
  PROVE  /\ lastCheck'[s] # Never
         /\ \A l \in Loops :
              CheckReturns(l) /\ sla[l] = s => lastCheck[s] - lastCheck'[s] >= Frequency[s]
<1> USE DEF LoopInv, TypeOK
<1>1. ASSUME NEW l \in Loops, CheckReturns(l)
      PROVE  /\ lastCheck'[s] # Never
             /\ sla[l] = s => lastCheck[s] - lastCheck'[s] >= Frequency[s]
  <2>1. pc[l] = "check" /\ sla[l] \in SLAs /\ lastCheck' = [lastCheck EXCEPT ![sla[l]] = age[l]]
    BY <1>1 DEF CheckReturns, At
  <2>2. age[l] \in Int /\ age[l] # Never
    BY MonitorAssumption
  <2>3. lastCheck'[s] = IF s = sla[l] THEN age[l] ELSE lastCheck[s]
    BY <2>1
  <2>4. Due(l, sla[l])
    BY <2>1 DEF DueInv
  <2>5. QED
    BY <2>2, <2>3, <2>4 DEF Due
<1>2. lastCheck'[s] # Never
  <2>1. CASE \E l \in Loops : CheckReturns(l)
    BY <1>1, <2>1
  <2>2. CASE Tick
    BY <2>2, AgeMaxBound, MonitorAssumption DEF Tick, Later
  <2>3. lastCheck' = lastCheck \/ Tick \/ \E l \in Loops : CheckReturns(l)
    <3>1. ASSUME NEW l \in Loops, Step(l), ~CheckReturns(l)
          PROVE  lastCheck' = lastCheck
      BY <3>1 DEF Step, Cancelled, End, Wake, Visit, CheckRaises, Alert, PassOver, data
    <3>2. ASSUME \/ \E list \in SUBSET SLAs : Start(list)
                 \/ \E k \in Stoppers : Stop(k) \/ StopReturns(k)
          PROVE  lastCheck' = lastCheck
      BY <3>2 DEF Start, Stop, StopReturns, data
    <3>3. vars' = vars => lastCheck' = lastCheck
      BY DEF vars
    <3>4. QED
      BY <3>1, <3>2, <3>3 DEF Next
  <2>4. QED
    BY <2>1, <2>2, <2>3
<1>3. QED
  BY <1>1, <1>2

\* With start() and stop() one after the other, an SLA is checked no earlier
\* than its frequency after its last check, through restarts of the monitor
\* (monitor.py:82-100).
THEOREM MonitorCheckSpacing ==
  ASSUME Sequential
  PROVE  Spec => CheckSpacing
<1>1. Init => DueInv
  BY DEF Init, DueInv
<1>2. LoopInv /\ MonitorInv /\ DueInv /\ [Next]_vars => DueInv'
  BY NextDue
<1>3. LoopInv /\ DueInv /\ [Next]_vars
        => [\A s \in SLAs :
              lastCheck[s] # Never
                => /\ lastCheck'[s] # Never
                   /\ \A l \in Loops :
                        CheckReturns(l) /\ sla[l] = s
                          => lastCheck[s] - lastCheck'[s] >= Frequency[s]]_vars
  BY SpacedStep
<1>4. QED
  BY InitLoop, NextLoop, MonitorInvariant, <1>1, <1>2, <1>3, PTL DEF Spec, CheckSpacing
============================================================================
