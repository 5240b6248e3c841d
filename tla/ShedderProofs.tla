---------------------------- MODULE ShedderProofs ----------------------------
(***************************************************************************)
(* What the shedder promises of its fetches, for any number of requests    *)
(* and any times: one SDK call at a time, and only the first is awaited.   *)
(***************************************************************************)
EXTENDS Shedder, TLAPS

\* A request awaits exactly while its own fetch is under way, which is so only
\* before any fetch has ended.
Awaits ==
  /\ \A q \in Requests : Awaiting(q) <=> fetch[q] # None
  /\ \A q \in Requests : fetch[q] # None => fetchedAge = None

\* _fetched_at counts from the end of the last fetch, failed or not.
Counted == endedAge = fetchedAge

ShedderInv == TypeOK /\ OneFetch /\ Awaits /\ Counted

\* The shedder starts with no fetch under way.
LEMMA InitInv == Init => ShedderInv
  <1> SUFFICES ASSUME Init PROVE ShedderInv
    OBVIOUS
  <1>1. TypeOK
    <2>1. signalAge \in 0..(FetchMax + 1)
      BY ShedderAssumption DEF Init
    <2>2. refreshing \in BOOLEAN /\ fetchedAge \in 0..Refresh \cup {None}
      BY DEF Init
    <2>3. fetch \in [Fetchers -> 0..FetchMax \cup {None}]
      BY DEF Init
    <2>4. answer \in [Requests -> Answers]
      BY DEF Init, Answers
    <2> QED
      BY <2>1, <2>2, <2>3, <2>4 DEF Init, TypeOK
  <1>2. OneFetch
    BY DEF Init, OneFetch, InFlight
  <1>3. Awaits
    BY ShedderAssumption DEF Init, Awaits, Awaiting, Fetchers
  <1> QED
    BY <1>1, <1>2, <1>3 DEF ShedderInv, Init, Counted

\* Every way to answer a request is one of the answers, none of them a wait.
LEMMA AnswerType ==
  \A s, optional : Answer(s, optional) \in {"full", "reduced", "shed"}
  BY DEF Answer

\* The first fetch begins with no other under way: _refreshing says so.
LEMMA FirstFetchInv ==
  ASSUME ShedderInv, NEW q \in Requests, NEW optional \in BOOLEAN, FirstFetch(q, optional)
  PROVE  ShedderInv'
  <1> USE DEF ShedderInv
  <1>1. TypeOK'
    BY ShedderAssumption DEF FirstFetch, TypeOK, Answers, Fetchers
  <1>2. OneFetch'
    BY ShedderAssumption DEF FirstFetch, TypeOK, OneFetch, InFlight, NeedsFetch, Fetchers
  <1>3. Awaits'
    BY ShedderAssumption DEF FirstFetch, TypeOK, Awaits, Awaiting, Fetchers, Answers
  <1> QED
    BY <1>1, <1>2, <1>3 DEF FirstFetch, Counted

\* A background fetch begins with no other under way.
LEMMA RevalidateInv ==
  ASSUME ShedderInv, NEW q \in Requests, NEW optional \in BOOLEAN, Revalidate(q, optional)
  PROVE  ShedderInv'
  <1> USE DEF ShedderInv
  <1>0. FreeTask \in Tasks /\ FreeTask \notin Requests
    BY ShedderAssumption DEF Revalidate, FreeTask
  <1> DEFINE t == FreeTask
  <1>1. fetch' = [fetch EXCEPT ![t] = 0] /\ answer' = [answer EXCEPT ![q] = Answer(signal, optional)]
    BY DEF Revalidate
  <1> HIDE DEF t
  <1>2. TypeOK'
    BY <1>0, <1>1, AnswerType, ShedderAssumption DEF Revalidate, TypeOK, Answers, Fetchers, t
  <1>3. OneFetch'
    BY <1>0, <1>1, ShedderAssumption
       DEF Revalidate, TypeOK, OneFetch, InFlight, NeedsFetch, Fetchers, t
  <1>4. Awaits'
    BY <1>0, <1>1, AnswerType, ShedderAssumption
       DEF Revalidate, TypeOK, Awaits, Awaiting, Fetchers, Answers, t
  <1> QED
    BY <1>2, <1>3, <1>4 DEF Revalidate, Counted

\* Serving the cached signal touches no fetch.
LEMMA ServeInv ==
  ASSUME ShedderInv, NEW q \in Requests, NEW optional \in BOOLEAN, Serve(q, optional)
  PROVE  ShedderInv'
  <1> USE DEF ShedderInv
  <1>1. TypeOK'
    BY AnswerType DEF Serve, TypeOK, Answers
  <1>2. OneFetch'
    BY DEF Serve, OneFetch, InFlight
  <1>3. Awaits'
    BY AnswerType DEF Serve, TypeOK, Awaits, Awaiting, Answers
  <1> QED
    BY <1>1, <1>2, <1>3 DEF Serve, Counted

\* The end of a fetch, answered or not, leaves none under way.
LEMMA FetchEndsInv ==
  ASSUME ShedderInv, NEW f \in Fetchers, NEW s \in Signals \cup {None}, fetch[f] # None,
         Fetched(f, s), Resume(f, s), signal' = s, signalAge' \in {signalAge, fetch[f]},
         endedAge' = 0
  PROVE  ShedderInv'
  <1> USE DEF ShedderInv
  <1>1. \A g \in Fetchers : fetch'[g] = None
    BY DEF Fetched, TypeOK, OneFetch, InFlight
  <1>2. TypeOK'
    <2>1. signalAge' \in 0..(FetchMax + 1)
      BY ShedderAssumption DEF TypeOK
    <2>2. fetch' \in [Fetchers -> 0..FetchMax \cup {None}]
      BY DEF Fetched, TypeOK
    <2>3. answer' \in [Requests -> Answers]
      BY AnswerType DEF Resume, TypeOK, Answers
    <2>4. fetchedAge' = 0 /\ endedAge' = 0 /\ 0 \in 0..Refresh \cup {None}
      BY ShedderAssumption DEF Fetched
    <2>5. refreshing' \in BOOLEAN
      BY DEF Fetched
    <2> QED
      BY <2>1, <2>2, <2>3, <2>4, <2>5 DEF TypeOK
  <1>3. OneFetch'
    BY <1>1 DEF Fetched, OneFetch, InFlight
  <1>4. \A q \in Requests : ~Awaiting(q)'
    BY AnswerType DEF Resume, TypeOK, Awaits, Awaiting, OneFetch, InFlight, Fetchers
  <1>5. Awaits'
    BY <1>1, <1>4 DEF Awaits, Awaiting, Fetchers
  <1> QED
    BY <1>2, <1>3, <1>5 DEF Fetched, Counted

\* Time changes no more than the ages.
LEMMA TickInv ==
  ASSUME ShedderInv, Tick
  PROVE  ShedderInv'
  <1> USE DEF ShedderInv
  <1>1. \A f \in Fetchers : (fetch'[f] = None) = (fetch[f] = None)
    BY ShedderAssumption DEF Tick, Ages, Older, TypeOK
  <1>2. TypeOK'
    <2>1. signalAge' \in 0..(FetchMax + 1)
      BY ShedderAssumption DEF Tick, Ages, Older, TypeOK
    <2>2. fetchedAge' \in 0..Refresh \cup {None} /\ endedAge' = fetchedAge'
      BY ShedderAssumption DEF Tick, Ages, Older, TypeOK, Counted
    <2>3. fetch' \in [Fetchers -> 0..FetchMax \cup {None}]
      BY ShedderAssumption DEF Tick, Ages, Older, TypeOK, InFlight
    <2> QED
      BY <2>1, <2>2, <2>3 DEF Tick, Ages, TypeOK
  <1>3. OneFetch'
    BY <1>1 DEF Tick, Ages, OneFetch, InFlight
  <1>4. (fetchedAge' = None) = (fetchedAge = None)
    BY ShedderAssumption DEF Tick, Ages, Older, TypeOK
  <1>5. Awaits'
    BY <1>1, <1>4 DEF Tick, Ages, Awaits, Awaiting, Fetchers
  <1> QED
    BY <1>2, <1>3, <1>5 DEF Tick, Ages, Counted

\* Every step keeps the invariant.
LEMMA NextInv == ShedderInv /\ [Next]_vars => ShedderInv'
  <1> SUFFICES ASSUME ShedderInv, [Next]_vars PROVE ShedderInv'
    OBVIOUS
  <1>1. CASE \E q \in Requests, optional \in BOOLEAN : FirstFetch(q, optional)
    BY <1>1, FirstFetchInv
  <1>2. CASE \E q \in Requests, optional \in BOOLEAN : Revalidate(q, optional)
    BY <1>2, RevalidateInv
  <1>3. CASE \E q \in Requests, optional \in BOOLEAN : Serve(q, optional)
    BY <1>3, ServeInv
  <1>4. CASE \E f \in Fetchers, s \in Signals : FetchReturns(f, s)
    BY <1>4, FetchEndsInv DEF FetchReturns
  <1>5. CASE \E f \in Fetchers : FetchRaises(f)
    <2> PICK f \in Fetchers : FetchRaises(f)
      BY <1>5
    <2>1. Fetched(f, signal)
      BY DEF FetchRaises, Fetched
    <2>2. signal \in Signals \cup {None}
      BY DEF ShedderInv, TypeOK
    <2> QED
      BY <2>1, <2>2, FetchEndsInv DEF FetchRaises
  <1>6. CASE Tick
    BY <1>6, TickInv
  <1>7. CASE UNCHANGED vars
    BY <1>7 DEF vars, ShedderInv, TypeOK, OneFetch, InFlight, Awaits, Awaiting, Counted
  <1> QED
    BY <1>1, <1>2, <1>3, <1>4, <1>5, <1>6, <1>7 DEF Next

\* The invariant always holds.
LEMMA AlwaysInv == Spec => []ShedderInv
  BY InitInv, NextInv, PTL DEF Spec

\* The shedder's variables keep their types; the age of the stored stamp stays
\* within what NeedsFetch can tell apart (middleware.py:83-86).
THEOREM ShedderTypeCorrect == Spec => []TypeOK
  <1>1. ShedderInv => TypeOK
    BY DEF ShedderInv
  <1> QED
    BY <1>1, AlwaysInv, PTL

\* However many requests meet a stale signal, one SDK call is under way, and
\* _refreshing says whether it is (middleware.py:90-91).
THEOREM ShedderOneFetch == Spec => []OneFetch
  <1>1. ShedderInv => OneFetch
    BY DEF ShedderInv
  <1> QED
    BY <1>1, AlwaysInv, PTL

\* Once a fetch has ended no request waits on the network (middleware.py:98).
THEOREM ShedderOnlyFirstAwaits == Spec => []OnlyFirstAwaits
  <1>1. ShedderInv => OnlyFirstAwaits
    BY DEF ShedderInv, Awaits, OnlyFirstAwaits
  <1> QED
    BY <1>1, AlwaysInv, PTL

\* A fetch, of the first signal or a later one, begins refresh_seconds after the
\* last one ended, failed or not (middleware.py:12).
THEOREM ShedderFetchSpacing == Spec => FetchSpacing
  <1>1. ShedderInv /\ [Next]_vars
          => [\A f \in Fetchers :
                fetch'[f] # None /\ fetch[f] = None
                  => InFlight = {} /\ endedAge \in {None, Refresh}]_vars
    <2> SUFFICES ASSUME ShedderInv, [Next]_vars,
                        NEW f \in Fetchers, fetch'[f] # None, fetch[f] = None
                 PROVE  InFlight = {} /\ endedAge \in {None, Refresh}
      OBVIOUS
    <2>1. \A g \in Fetchers : Tick => (fetch'[g] = None) = (fetch[g] = None)
      BY ShedderAssumption DEF Tick, Ages, Older, ShedderInv, TypeOK
    <2>2. ASSUME NEW g \in Fetchers, fetch[g] # None, fetch' = [fetch EXCEPT ![g] = None]
          PROVE  FALSE
      <3>1. g # f
        BY <2>2
      <3>2. fetch'[f] = fetch[f]
        BY <2>2, <3>1 DEF ShedderInv, TypeOK
      <3> QED
        BY <3>2
    <2>3. \E q \in Requests, optional \in BOOLEAN :
            FirstFetch(q, optional) \/ Revalidate(q, optional)
      BY <2>1, <2>2 DEF Next, Serve, vars, FetchReturns, FetchRaises, Fetched
    <2>4. NeedsFetch
      BY <2>3 DEF FirstFetch, Revalidate
    <2> QED
      BY <2>4 DEF NeedsFetch, IsStale, ShedderInv, OneFetch, Counted
  <1> QED
    BY <1>1, AlwaysInv, PTL DEF Spec, FetchSpacing

\* A fetch under way began no earlier than the fetch of the signal that is held.
Newer == signal # None => \A f \in InFlight : fetch[f] <= signalAge

\* Fetches begin one at a time, each after the last has ended, so none that is
\* under way can be overtaken.
LEMMA NewerNext == ShedderInv /\ Newer /\ [Next]_vars => Newer'
  <1> SUFFICES ASSUME ShedderInv, Newer, [Next]_vars PROVE Newer'
    OBVIOUS
  <1> USE DEF ShedderInv
  <1>0. signalAge \in Nat /\ \A f \in InFlight : fetch[f] \in 0..FetchMax
    BY ShedderAssumption DEF TypeOK, InFlight
  <1>1. ASSUME NEW q \in Requests, NEW optional \in BOOLEAN, FirstFetch(q, optional)
        PROVE  Newer'
    BY <1>0, <1>1, ShedderAssumption DEF FirstFetch, TypeOK, Newer, InFlight, Fetchers
  <1>2. ASSUME NEW q \in Requests, NEW optional \in BOOLEAN, Revalidate(q, optional)
        PROVE  Newer'
    <2>1. FreeTask \in Fetchers /\ fetch' = [fetch EXCEPT ![FreeTask] = 0]
      BY <1>2 DEF Revalidate, FreeTask, Fetchers
    <2>2. UNCHANGED <<signal, signalAge>>
      BY <1>2 DEF Revalidate
    <2> QED
      BY <1>0, <2>1, <2>2 DEF TypeOK, Newer, InFlight
  <1>3. ASSUME NEW q \in Requests, NEW optional \in BOOLEAN, Serve(q, optional)
        PROVE  Newer'
    BY <1>3 DEF Serve, Newer, InFlight
  <1>4. ASSUME NEW f \in Fetchers, NEW s, fetch[f] # None, Fetched(f, s)
        PROVE  Newer'
    <2>1. InFlight' = {}
      BY <1>4 DEF Fetched, TypeOK, OneFetch, InFlight
    <2> QED
      BY <2>1 DEF Newer
  <1>5. CASE Tick
    <2>1. \A f \in Fetchers : fetch'[f] # None
            => fetch[f] \in 0..FetchMax /\ fetch[f] < FetchMax /\ fetch'[f] = fetch[f] + 1
      BY <1>5, ShedderAssumption DEF Tick, Ages, Older, TypeOK, InFlight
    <2>2. signalAge' = IF signalAge = FetchMax + 1 THEN signalAge ELSE signalAge + 1
      BY <1>0, <1>5, ShedderAssumption DEF Tick, Ages, Older
    <2>3. signal' = signal
      BY <1>5 DEF Tick, Ages
    <2>4. ASSUME signal # None, NEW f \in Fetchers, fetch'[f] # None
          PROVE  fetch'[f] <= signalAge'
      <3>1. fetch[f] <= signalAge
        BY <2>1, <2>4, ShedderAssumption DEF Newer, InFlight
      <3> QED
        BY <1>0, <2>1, <2>2, <2>4, <3>1, ShedderAssumption
    <2> QED
      BY <2>3, <2>4 DEF Newer, InFlight
  <1>6. CASE UNCHANGED vars
    BY <1>6 DEF vars, Newer, InFlight
  <1> QED
    BY <1>1, <1>2, <1>3, <1>4, <1>5, <1>6 DEF Next, FetchReturns, FetchRaises

\* A fetch never puts an older signal in place of a newer one, also one that
\* began in a request that awaited it (middleware.py:71-81).
THEOREM ShedderNeverOlder == Spec => SignalNeverOlder
  <1>1. Init => Newer
    BY DEF Init, Newer
  <1>2. Newer /\ [Next]_vars
          => [\A f \in Fetchers, s \in Signals :
                FetchReturns(f, s) => signal = None \/ fetch[f] <= signalAge]_vars
    BY DEF Newer, InFlight, FetchReturns
  <1> QED
    BY <1>1, <1>2, NewerNext, AlwaysInv, PTL DEF Spec, SignalNeverOlder
============================================================================
