--------------------------- MODULE CollateralCache ---------------------------
(***************************************************************************)
(* internal/attestationmaterial/cache.go: collateral for attestation       *)
(* responses, served until it expires and refreshed ahead of that by one   *)
(* background fetch at a time.  Callers of Current that find nothing to    *)
(* serve wait for the fetch in progress.  Time is a counter that may move  *)
(* on between any two steps.                                               *)
(***************************************************************************)
EXTENDS Integers, FiniteSets

CONSTANTS
  Callers,
  RefreshAfter,  \* Cache.refreshAfter
  RetryAfter,    \* Cache.retryAfter
  Lifetimes,     \* how long a fetched response is valid from its arrival
  MaxTime,       \* bound: the last instant of a behaviour
  MaxFetches     \* bound: fetches in one behaviour

ASSUME CacheAssumption ==
  /\ RefreshAfter \in Nat /\ RetryAfter \in Nat \ {0}
  /\ Lifetimes \subseteq Nat
  /\ MaxTime \in Nat /\ MaxFetches \in Nat

Fetches == 1..MaxFetches
None == 0       \* no fetch, and the expiry of no response

VARIABLES
  clock,
  expires,      \* response.ExpiresAt, None while response is nil
  nextAttempt,
  refreshing,   \* the fetch whose done channel Cache.refreshing is
  flight,       \* fetch -> the step of its goroutine
  fetched,      \* fetch -> expiry of what it got, None for an error
  at,           \* fetch -> the time it read when its answer came
  pc,           \* caller -> its place in Current
  on,           \* caller -> the fetch whose done channel it waits for
  result,       \* caller -> what its last call returned
  last          \* history: the fetch whose outcome was stored last

cacheVars  == <<expires, nextAttempt, refreshing>>
flightVars == <<flight, fetched, at>>
callVars   == <<pc, on, result>>
vars == <<clock, cacheVars, flightVars, callVars, last>>

Init ==
  /\ clock = 1 /\ expires = None /\ nextAttempt = 0 /\ refreshing = None
  /\ flight = [f \in Fetches |-> "unborn"]
  /\ fetched = [f \in Fetches |-> None] /\ at = [f \in Fetches |-> 0]
  /\ pc = [c \in Callers |-> "idle"] /\ on = [c \in Callers |-> None]
  /\ result = [c \in Callers |-> "none"] /\ last = None

Tick ==
  /\ clock < MaxTime /\ clock' = clock + 1
  /\ UNCHANGED <<cacheVars, flightVars, callVars, last>>

-------------------------------------------------------------------------------
(* Current: each turn of its loop runs under the mutex *)

Valid == expires # None /\ clock < expires

\* startRefresh: a new done channel, and a goroutine that fetches.
startRefresh(f) ==
  /\ flight[f] = "unborn" /\ \A g \in Fetches : g < f => flight[g] # "unborn"
  /\ flight' = [flight EXCEPT ![f] = "fetch"] /\ refreshing' = f
  /\ UNCHANGED <<expires, nextAttempt, fetched, at>>

Return(c, r) ==
  /\ pc' = [pc EXCEPT ![c] = "idle"] /\ on' = [on EXCEPT ![c] = None]
  /\ result' = [result EXCEPT ![c] = r]

WaitFor(c, f) ==
  /\ pc' = [pc EXCEPT ![c] = "wait"] /\ on' = [on EXCEPT ![c] = f]
  /\ UNCHANGED result

Call(c) ==
  /\ pc[c] = "idle" /\ pc' = [pc EXCEPT ![c] = "loop"]
  /\ result' = [result EXCEPT ![c] = "none"]
  /\ UNCHANGED <<clock, cacheVars, flightVars, on, last>>

\* Valid collateral is returned at once, and refreshed behind the caller's back
\* when its time has come.
Serve(c) ==
  /\ pc[c] = "loop" /\ Valid
  /\ ~(refreshing = None /\ clock >= nextAttempt)
  /\ Return(c, "ok")
  /\ UNCHANGED <<clock, cacheVars, flightVars, last>>

\* Mutant of ServeAndRefresh: a fetch in progress is not looked for.
ServeAndRefreshAgain(c) ==
  /\ pc[c] = "loop" /\ Valid
  /\ clock >= nextAttempt
  /\ \E f \in Fetches : startRefresh(f)
  /\ Return(c, "ok")
  /\ UNCHANGED <<clock, last>>

ServeAndRefresh(c) ==
  /\ pc[c] = "loop" /\ Valid
  /\ refreshing = None /\ clock >= nextAttempt
  /\ \E f \in Fetches : startRefresh(f)
  /\ Return(c, "ok")
  /\ UNCHANGED <<clock, last>>

\* Nothing valid and a fetch in progress: its channel is taken along.
Join(c) ==
  /\ pc[c] = "loop" /\ ~Valid /\ refreshing # None
  /\ WaitFor(c, refreshing)
  /\ UNCHANGED <<clock, cacheVars, flightVars, last>>

Unavailable(c) ==
  /\ pc[c] = "loop" /\ ~Valid /\ refreshing = None /\ clock < nextAttempt
  /\ Return(c, "unavailable")
  /\ UNCHANGED <<clock, cacheVars, flightVars, last>>

\* Mutant of Refresh: the retry time is not looked at.
RefreshAtOnce(c) ==
  /\ pc[c] = "loop" /\ ~Valid /\ refreshing = None
  /\ \E f \in Fetches : startRefresh(f) /\ WaitFor(c, f)
  /\ UNCHANGED <<clock, last>>

Refresh(c) ==
  /\ pc[c] = "loop" /\ ~Valid /\ refreshing = None /\ clock >= nextAttempt
  /\ \E f \in Fetches : startRefresh(f) /\ WaitFor(c, f)
  /\ UNCHANGED <<clock, last>>

\* Mutant of Woken: a failed fetch wakes nobody.
WokenBySuccess(c) ==
  /\ pc[c] = "wait" /\ flight[on[c]] = "done" /\ Valid
  /\ pc' = [pc EXCEPT ![c] = "loop"] /\ on' = [on EXCEPT ![c] = None]
  /\ UNCHANGED <<clock, cacheVars, flightVars, result, last>>

\* The channel a caller waits for is closed, or its own context is done.
Woken(c) ==
  /\ pc[c] = "wait" /\ flight[on[c]] = "done"
  /\ pc' = [pc EXCEPT ![c] = "loop"] /\ on' = [on EXCEPT ![c] = None]
  /\ UNCHANGED <<clock, cacheVars, flightVars, result, last>>

GiveUp(c) ==
  /\ pc[c] = "wait" /\ Return(c, "cancelled")
  /\ UNCHANGED <<clock, cacheVars, flightVars, last>>

-------------------------------------------------------------------------------
(* refresh, on its own goroutine *)

\* Fetch returns within refreshTimeout; the time is read before the mutex is
\* taken.  A response that has already expired is an error.
Answer(f) ==
  /\ flight[f] = "fetch"
  /\ \E e \in {None} \cup {clock + l : l \in Lifetimes} :
       fetched' = [fetched EXCEPT ![f] = IF clock < e THEN e ELSE None]
  /\ at' = [at EXCEPT ![f] = clock]
  /\ flight' = [flight EXCEPT ![f] = "store"]
  /\ UNCHANGED <<clock, cacheVars, callVars, last>>

\* Mutant of Lead: the lead is not cut to the lifetime.
LeadUncut(e, t) == RefreshAfter

\* How long before its expiry e a response that was read at time t is refreshed.
Lead(e, t) ==
  LET half == (e - t) \div 2 IN IF RefreshAfter < half THEN RefreshAfter ELSE half

\* Under the mutex the outcome is stored and the channel closed.
Store(f) ==
  /\ flight[f] = "store"
  /\ IF fetched[f] = None
     THEN nextAttempt' = at[f] + RetryAfter /\ UNCHANGED expires
     ELSE /\ expires' = fetched[f]
          /\ nextAttempt' = fetched[f] - Lead(fetched[f], at[f])
  /\ refreshing' = None /\ last' = f
  /\ flight' = [flight EXCEPT ![f] = "done"]
  /\ UNCHANGED <<clock, fetched, at, callVars>>

-------------------------------------------------------------------------------
CallerStep(c) ==
  \/ Serve(c) \/ ServeAndRefresh(c) \/ Join(c) \/ Unavailable(c) \/ Refresh(c)
  \/ Woken(c)

FetchStep(f) == Answer(f) \/ Store(f)

Next ==
  \/ Tick
  \/ \E c \in Callers : Call(c) \/ CallerStep(c) \/ GiveUp(c)
  \/ \E f \in Fetches : FetchStep(f)

Spec == Init /\ [][Next]_vars

\* Goroutines run, and a fetch ends: its context has a deadline.
Fairness ==
  /\ \A c \in Callers : WF_vars(CallerStep(c))
  /\ \A f \in Fetches : WF_vars(FetchStep(f))

FairSpec == Spec /\ Fairness

-------------------------------------------------------------------------------
(* Properties *)

\* Every variable has its shape.
TypeOK ==
  /\ clock \in Nat /\ expires \in Nat /\ nextAttempt \in Nat
  /\ refreshing \in Fetches \cup {None}
  /\ flight \in [Fetches -> {"unborn", "fetch", "store", "done"}]
  /\ fetched \in [Fetches -> Nat] /\ at \in [Fetches -> Nat]
  /\ pc \in [Callers -> {"idle", "loop", "wait"}]
  /\ on \in [Callers -> Fetches \cup {None}]
  /\ result \in [Callers -> {"none", "ok", "unavailable", "cancelled"}]
  /\ last \in Fetches \cup {None}

Active(f) == flight[f] \in {"fetch", "store"}

\* At most one fetch is under way, it is the one refreshing names, and a caller
\* waits only for that one or for one that is over: no caller waits for a channel
\* nobody will close.
SingleFlight ==
  /\ \A f \in Fetches : Active(f) <=> refreshing = f
  /\ \A c \in Callers : pc[c] = "wait" => on[c] # None /\ flight[on[c]] # "unborn"

Failed == last # None /\ fetched[last] = None

\* After a failed fetch none starts before RetryAfter is over, whoever calls and
\* however late the failure was stored.
RetryHonoured ==
  [][(\E f \in Fetches : flight[f] = "unborn" /\ flight'[f] # "unborn")
       => (Failed => clock >= at[last] + RetryAfter)]_vars

\* After a successful fetch the next is due inside the lifetime of the response,
\* after the instant it was read and not after it expires, for every lifetime
\* down to the shortest: it is not fetched again at once, and the refresh falls
\* due no later than the instant at which callers can no longer be served from it.
RefreshInsideLifetime ==
  last # None /\ ~Failed =>
    expires = fetched[last] /\ at[last] < nextAttempt /\ nextAttempt <= expires

\* A call that is never cancelled gets its answer or another turn of the loop
\* once the fetch it waits for is over.
WaitersWake == \A c \in Callers : (pc[c] = "wait") ~> (pc[c] # "wait")
===============================================================================
