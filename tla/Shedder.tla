------------------------------- MODULE Shedder -------------------------------
(***************************************************************************)
(* The request shedder of src/carbonlens/middleware.py: a middleware that  *)
(* tags every response with the mode of the grid and turns requests marked *)
(* optional away while the grid is dirty.  Its signal is cached: the first *)
(* request awaits the fetch, later ones serve the last good signal while a *)
(* background task fetches the next.                                       *)
(*                                                                         *)
(* An action is the code between two awaits.  The fetch is the blocking    *)
(* SDK call in a worker thread, bounded by the client's timeout.  The      *)
(* clock is only read to subtract _fetched_at from it, so ages are kept.   *)
(***************************************************************************)
EXTENDS Integers

CONSTANTS
  Requests,  \* concurrent requests
  Tasks,     \* identities of background fetches
  Signals,   \* the signals of the region
  Good,      \* Good \subseteq Signals: is_good_time, the cap included
  Refresh,   \* refresh_seconds
  FetchMax,  \* longest SDK call
  None       \* _signal = {}: no signal was ever fetched

ASSUME ShedderAssumption ==
  /\ Good \subseteq Signals
  /\ None \notin Signals \cup Int
  /\ Requests \cap Tasks = {}
  /\ Refresh \in Nat \ {0}
  /\ FetchMax \in Nat

Fetchers == Requests \cup Tasks

VARIABLES
  signal,      \* _signal
  signalAge,   \* the time since the fetch of _signal began
  fetchedAge,  \* the time since _fetched_at, or None
  refreshing,  \* _refreshing
  fetch,       \* fetch[f]: the time since the SDK call of f began, or None
  answer,      \* answer[q]: how request q stands
  endedAge     \* history: the time since a fetch last ended, or None

vars == <<signal, signalAge, fetchedAge, refreshing, fetch, answer, endedAge>>

\* "awaiting" and "awaitingOptional": the request awaits the first fetch.
Answers == {"none", "awaiting", "awaitingOptional", "full", "reduced", "shed"}

Init ==
  /\ signal = None
  /\ signalAge = 0
  /\ fetchedAge = None
  /\ refreshing = FALSE
  /\ fetch = [f \in Fetchers |-> None]
  /\ answer = [q \in Requests |-> "none"]
  /\ endedAge = None

InFlight == {f \in Fetchers : fetch[f] # None}

Awaiting(q) == answer[q] \in {"awaiting", "awaitingOptional"}

----------------------------------------------------------------------------

\* refresh_seconds have passed, or nothing was fetched yet (the age stops there).
IsStale == fetchedAge \in {None, Refresh}

\* dispatch() with the signal s: carbon_mode, and 503 for an optional request
\* in reduced mode.  The empty signal is not a good time.
Answer(s, optional) ==
  IF s \in Good THEN "full" ELSE IF optional THEN "shed" ELSE "reduced"

FreeTask == CHOOSE t \in Tasks : fetch[t] = None

\* Fault: _refreshing is not looked at.
NeedsFetchAgain == IsStale

\* The request that finds the signal stale fetches it, unless one does already.
NeedsFetch == IsStale /\ ~refreshing

\* _current_signal() with nothing fetched yet: the request awaits the fetch.
FirstFetch(q, optional) ==
  /\ ~Awaiting(q)
  /\ NeedsFetch
  /\ fetchedAge = None
  /\ refreshing' = TRUE
  /\ fetch' = [fetch EXCEPT ![q] = 0]
  /\ answer' = [answer EXCEPT ![q] = IF optional THEN "awaitingOptional" ELSE "awaiting"]
  /\ UNCHANGED <<signal, signalAge, fetchedAge, endedAge>>

\* _current_signal() with a signal fetched before: a background task fetches
\* the next one, the request is answered with the last.
Revalidate(q, optional) ==
  /\ ~Awaiting(q)
  /\ NeedsFetch
  /\ fetchedAge # None
  /\ \E t \in Tasks : fetch[t] = None
  /\ refreshing' = TRUE
  /\ fetch' = [fetch EXCEPT ![FreeTask] = 0]
  /\ answer' = [answer EXCEPT ![q] = Answer(signal, optional)]
  /\ UNCHANGED <<signal, signalAge, fetchedAge, endedAge>>

\* _current_signal() with a fresh signal, or while someone else fetches it.
Serve(q, optional) ==
  /\ ~Awaiting(q)
  /\ ~NeedsFetch
  /\ answer' = [answer EXCEPT ![q] = Answer(signal, optional)]
  /\ UNCHANGED <<signal, signalAge, fetchedAge, refreshing, fetch, endedAge>>

\* Fault: _fetched_at is set by a successful fetch only.
FetchedOnSuccess(f, s) ==
  /\ fetchedAge' = IF s = None THEN fetchedAge ELSE 0
  /\ refreshing' = FALSE
  /\ fetch' = [fetch EXCEPT ![f] = None]

\* Fault: `finally` forgets _refreshing.
FetchedNotReleased(f, s) ==
  /\ fetchedAge' = 0
  /\ refreshing' = refreshing
  /\ fetch' = [fetch EXCEPT ![f] = None]

\* `finally`: the fetch counts from now, whether it succeeded (s) or not.
Fetched(f, s) ==
  /\ fetchedAge' = 0
  /\ refreshing' = FALSE
  /\ fetch' = [fetch EXCEPT ![f] = None]

\* The request that awaited the fetch goes on; a background task just ends.
Resume(f, s) ==
  answer' = IF f \in Requests
            THEN [answer EXCEPT ![f] = Answer(s, answer[f] = "awaitingOptional")]
            ELSE answer

FetchReturns(f, s) ==
  /\ fetch[f] # None
  /\ signal' = s
  /\ signalAge' = fetch[f]
  /\ Fetched(f, s)
  /\ Resume(f, s)
  /\ endedAge' = 0

\* The SDK call raises: the last good signal is kept.
FetchRaises(f) ==
  /\ fetch[f] # None
  /\ Fetched(f, None)
  /\ Resume(f, signal)
  /\ endedAge' = 0
  /\ UNCHANGED <<signal, signalAge>>

\* Ages beyond FetchMax + 1 and Refresh are alike.
Older(age, cap) == IF age \in {None, cap} THEN age ELSE age + 1

Ages ==
  /\ signalAge' = Older(signalAge, FetchMax + 1)
  /\ fetchedAge' = Older(fetchedAge, Refresh)
  /\ fetch' = [f \in Fetchers |-> Older(fetch[f], FetchMax + 1)]
  /\ endedAge' = Older(endedAge, Refresh)
  /\ UNCHANGED <<signal, refreshing, answer>>

\* Fault: the SDK call has no timeout.
TickNoTimeout == Ages

Tick ==
  /\ \A f \in InFlight : fetch[f] < FetchMax
  /\ Ages

----------------------------------------------------------------------------

Next ==
  \/ \E q \in Requests, optional \in BOOLEAN : FirstFetch(q, optional)
  \/ \E q \in Requests, optional \in BOOLEAN : Revalidate(q, optional)
  \/ \E q \in Requests, optional \in BOOLEAN : Serve(q, optional)
  \/ \E f \in Fetchers, s \in Signals : FetchReturns(f, s)
  \/ \E f \in Fetchers : FetchRaises(f)
  \/ Tick

\* The SDK call ends, at its timeout at the latest.
Fairness ==
  \A f \in Fetchers : WF_vars(FetchRaises(f) \/ \E s \in Signals : FetchReturns(f, s))

Spec == Init /\ [][Next]_vars /\ Fairness

----------------------------------------------------------------------------

\* Every variable has its type.
TypeOK ==
  /\ signal \in Signals \cup {None}
  /\ signalAge \in 0..(FetchMax + 1)
  /\ fetchedAge \in 0..Refresh \cup {None}
  /\ refreshing \in BOOLEAN
  /\ fetch \in [Fetchers -> 0..FetchMax \cup {None}]
  /\ answer \in [Requests -> Answers]
  /\ endedAge \in 0..Refresh \cup {None}

\* One SDK call is under way exactly while _refreshing is set: a stale signal
\* met by many requests at once is fetched once.
OneFetch ==
  /\ \A f, g \in InFlight : f = g
  /\ refreshing <=> InFlight # {}

\* "no request ever waits on the network" (middleware.py:98) once the first
\* fetch has ended, answered or not: the await belongs to the first one only.
OnlyFirstAwaits == fetchedAge # None => \A q \in Requests : fetch[q] = None /\ ~Awaiting(q)

\* A fetch never puts an older signal in place of a newer one.
SignalNeverOlder ==
  [][\A f \in Fetchers, s \in Signals :
       FetchReturns(f, s) => signal = None \/ fetch[f] <= signalAge]_vars

\* "fetched once per refresh_seconds" (middleware.py:12): from the end of one
\* fetch, a failed one too, to the beginning of the next.
FetchSpacing ==
  [][\A f \in Fetchers :
       fetch'[f] # None /\ fetch[f] = None
         => InFlight = {} /\ endedAge \in {None, Refresh}]_vars

\* A fetch under way ends and leaves the shedder able to fetch again.
RefreshEnds == refreshing ~> ~refreshing
============================================================================
