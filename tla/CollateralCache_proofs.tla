------------------------ MODULE CollateralCache_proofs ------------------------
(***************************************************************************)
(* The collateral cache, for every number of callers and fetches and every *)
(* choice of the durations.                                                *)
(***************************************************************************)
EXTENDS CollateralCache, TLAPS

\* A step of Current that neither starts a fetch nor meets one.
Quiet ==
  \/ Tick
  \/ \E c \in Callers : Call(c) \/ Serve(c) \/ Join(c) \/ Unavailable(c) \/ Woken(c)
                        \/ GiveUp(c)

\* Each step is quiet, starts a fetch on behalf of a caller, or is a fetch's own.
LEMMA NextCases ==
  ASSUME Next
  PROVE  \/ Quiet
         \/ \E c \in Callers : ServeAndRefresh(c) \/ Refresh(c)
         \/ \E f \in Fetches : Answer(f) \/ Store(f)
BY DEF Next, Quiet, CallerStep, FetchStep

\* The lead of a refresh is never the whole lifetime of a response that has one,
\* with Go's integer division as with the model's.
LEMMA LeadBound ==
  ASSUME NEW e \in Nat, NEW t \in Nat, t < e
  PROVE  Lead(e, t) \in Nat /\ t < e - Lead(e, t) /\ e - Lead(e, t) <= e
<1> DEFINE half == (e - t) \div 2
<1>1. half \in Nat /\ 2 * half <= e - t
  OBVIOUS
<1>2. Lead(e, t) \in Nat /\ Lead(e, t) <= half
  BY <1>1, CacheAssumption DEF Lead
<1> QED BY <1>1, <1>2

-------------------------------------------------------------------------------
(* The inductive invariant.  That nextAttempt is a time at all, and inside the *)
(* lifetime, depends on what a fetch carries from its answer to its store.     *)

\* What a fetch is about to store is an error or outlives the time it read.
CarriesFresh ==
  \A f \in Fetches : flight[f] = "store" => fetched[f] = None \/ at[f] < fetched[f]

\* The fetch stored last is over, so what it got and read stays as it was.
LastIsDone == last # None => flight[last] = "done"

\* After a failure the next attempt is due exactly RetryAfter later.
RetryScheduled == Failed => nextAttempt = at[last] + RetryAfter

IInv ==
  /\ TypeOK /\ SingleFlight /\ CarriesFresh /\ LastIsDone
  /\ RetryScheduled /\ RefreshInsideLifetime

\* The parts of IInv that only look at the cache and its fetches.
LEMMA FetchPartsStable ==
  ASSUME IInv, UNCHANGED <<expires, nextAttempt, flight, fetched, at, last>>
  PROVE  CarriesFresh' /\ LastIsDone' /\ RetryScheduled' /\ RefreshInsideLifetime'
BY DEF IInv, CarriesFresh, LastIsDone, RetryScheduled, RefreshInsideLifetime, Failed

(* An empty cache satisfies the invariant. *)
LEMMA InitInv == ASSUME Init PROVE IInv
BY CacheAssumption DEF Init, IInv, TypeOK, SingleFlight, Active, CarriesFresh, LastIsDone,
   RetryScheduled, RefreshInsideLifetime, Failed, Fetches, None

(* Time passing, a caller arriving, looking or leaving: every step that
   answers no fetch keeps the invariant. *)
LEMMA QuietInv == ASSUME IInv, Quiet PROVE IInv'
<1>1. UNCHANGED <<expires, nextAttempt, refreshing, flight, fetched, at, last>>
  BY DEF Quiet, Tick, Call, Serve, Join, Unavailable, Woken, GiveUp, cacheVars, flightVars
<1>2. TypeOK /\ SingleFlight
  BY DEF IInv
<1>3. ASSUME Tick PROVE TypeOK' /\ SingleFlight'
  BY <1>2, <1>3 DEF Tick, TypeOK, SingleFlight, Active, cacheVars, flightVars, callVars
<1>4. ASSUME NEW c \in Callers, Call(c) \/ Woken(c) PROVE TypeOK' /\ SingleFlight'
  BY <1>1, <1>2, <1>4 DEF Call, Woken, TypeOK, SingleFlight, Active
<1>5. ASSUME NEW c \in Callers, Serve(c) \/ Unavailable(c) \/ GiveUp(c)
      PROVE  TypeOK' /\ SingleFlight'
  BY <1>1, <1>2, <1>5 DEF Serve, Unavailable, GiveUp, Return, TypeOK, SingleFlight, Active
<1>6. ASSUME NEW c \in Callers, Join(c) PROVE TypeOK' /\ SingleFlight'
  <2>1. refreshing \in Fetches /\ flight[refreshing] # "unborn"
    BY <1>2, <1>6 DEF Join, TypeOK, SingleFlight, Active
  <2> QED BY <1>1, <1>2, <1>6, <2>1 DEF Join, WaitFor, TypeOK, SingleFlight, Active
<1> QED BY <1>1, <1>3, <1>4, <1>5, <1>6, FetchPartsStable DEF Quiet, IInv

\* A fetch starts only where none is active, so refreshing names the new one.
LEMMA StartInv ==
  ASSUME IInv, NEW c \in Callers, ServeAndRefresh(c) \/ Refresh(c)
  PROVE  IInv'
<1> USE DEF IInv
<1>1. PICK f \in Fetches : startRefresh(f) /\ (Return(c, "ok") \/ WaitFor(c, f))
  BY DEF ServeAndRefresh, Refresh
<1>2. refreshing = None /\ UNCHANGED <<clock, last>>
  BY DEF ServeAndRefresh, Refresh
<1>3. TypeOK'
  BY <1>1, <1>2 DEF startRefresh, Return, WaitFor, TypeOK
<1>4. \A g \in Fetches : flight'[g] = IF g = f THEN "fetch" ELSE flight[g]
  BY <1>1 DEF startRefresh, TypeOK
<1>5. \A g \in Fetches : ~Active(g)
  BY <1>2 DEF SingleFlight, Fetches, None
<1>6. SingleFlight'
  <2>1. \A g \in Fetches : Active(g)' <=> refreshing' = g
    BY <1>1, <1>4, <1>5 DEF Active, startRefresh
  <2>2. ASSUME NEW d \in Callers, pc'[d] = "wait"
        PROVE  on'[d] # None /\ flight'[on'[d]] # "unborn"
    <3>1. CASE d = c
      BY <1>1, <1>4, <2>2, <3>1 DEF Return, WaitFor, TypeOK, Fetches, None
    <3>2. CASE d # c
      <4>1. pc[d] = "wait" /\ on'[d] = on[d]
        BY <1>1, <2>2, <3>2 DEF Return, WaitFor, TypeOK
      <4>2. on[d] \in Fetches /\ flight[on[d]] # "unborn"
        BY <4>1 DEF SingleFlight, TypeOK
      <4> QED BY <1>4, <4>1, <4>2 DEF Fetches, None
    <3> QED BY <3>1, <3>2
  <2> QED BY <2>1, <2>2 DEF SingleFlight
<1>7. UNCHANGED <<expires, nextAttempt, fetched, at, last>>
  BY <1>1, <1>2 DEF startRefresh
<1>8. last # None => last \in Fetches /\ last # f
  BY <1>1 DEF LastIsDone, startRefresh, TypeOK
<1>9. CarriesFresh' /\ LastIsDone'
  BY <1>4, <1>7, <1>8 DEF CarriesFresh, LastIsDone
<1>10. RetryScheduled' /\ RefreshInsideLifetime'
  BY <1>7 DEF RetryScheduled, RefreshInsideLifetime, Failed
<1> QED BY <1>3, <1>6, <1>9, <1>10

(* A fetch that returns, with a response or an error, stores its result,
   clears the name of the fetch and closes the channel in one critical
   section, and keeps the invariant. *)
LEMMA AnswerInv == ASSUME IInv, NEW f \in Fetches, Answer(f) PROVE IInv'
<1> USE DEF IInv
<1>1. PICK e \in {None} \cup {clock + l : l \in Lifetimes} :
        fetched' = [fetched EXCEPT ![f] = IF clock < e THEN e ELSE None]
  BY DEF Answer
<1>2. e \in Nat
  BY <1>1, CacheAssumption DEF None, TypeOK
<1>3. \A g \in Fetches :
        /\ flight'[g] = IF g = f THEN "store" ELSE flight[g]
        /\ at'[g] = IF g = f THEN clock ELSE at[g]
        /\ fetched'[g] = IF g # f THEN fetched[g] ELSE IF clock < e THEN e ELSE None
  BY <1>1 DEF Answer, TypeOK
<1>4. UNCHANGED <<clock, expires, nextAttempt, refreshing, pc, on, result, last>>
  BY DEF Answer, cacheVars, callVars
<1>5. flight[f] = "fetch"
  BY DEF Answer
<1>6. TypeOK'
  <2>1. fetched' \in [Fetches -> Nat]
    BY <1>1, <1>2 DEF TypeOK, None
  <2>2. at' \in [Fetches -> Nat]
    BY DEF Answer, TypeOK
  <2>3. flight' \in [Fetches -> {"unborn", "fetch", "store", "done"}]
    BY DEF Answer, TypeOK
  <2> QED BY <1>4, <2>1, <2>2, <2>3 DEF TypeOK
<1>7. SingleFlight'
  <2>1. \A g \in Fetches : Active(g)' <=> Active(g)
    BY <1>3, <1>5 DEF Active
  <2>2. ASSUME NEW d \in Callers, pc[d] = "wait"
        PROVE  on[d] # None /\ flight'[on[d]] # "unborn"
    <3>1. on[d] \in Fetches /\ flight[on[d]] # "unborn"
      BY <2>2 DEF SingleFlight, TypeOK
    <3> QED BY <1>3, <3>1 DEF Fetches, None
  <2> QED BY <1>4, <2>1, <2>2 DEF SingleFlight
<1>8. CarriesFresh'
  BY <1>3 DEF CarriesFresh
<1>9. last # None => last \in Fetches /\ last # f
  BY <1>5 DEF LastIsDone, TypeOK
<1>10. LastIsDone' /\ RetryScheduled' /\ RefreshInsideLifetime'
  BY <1>3, <1>4, <1>9 DEF LastIsDone, RetryScheduled, RefreshInsideLifetime, Failed
<1> QED BY <1>6, <1>7, <1>8, <1>10

\* The outcome is stored by the only active fetch, and the next attempt computed
\* from what it carries.
LEMMA StoreInv == ASSUME IInv, NEW f \in Fetches, Store(f) PROVE IInv'
<1> USE DEF IInv
<1>1. /\ flight[f] = "store" /\ refreshing' = None /\ last' = f
      /\ UNCHANGED <<clock, fetched, at, pc, on, result>>
  BY DEF Store, callVars
<1>2. \A g \in Fetches : flight'[g] = IF g = f THEN "done" ELSE flight[g]
  BY DEF Store, TypeOK
<1>3. fetched[f] \in Nat /\ at[f] \in Nat /\ f # None
  BY DEF TypeOK, Fetches, None
<1>4. nextAttempt' \in Nat /\ expires' \in Nat /\ RetryScheduled' /\ RefreshInsideLifetime'
  <2>1. CASE fetched[f] = None
    <3>1. nextAttempt' = at[f] + RetryAfter /\ expires' = expires
      BY <2>1 DEF Store
    <3> QED BY <1>1, <1>3, <2>1, <3>1, CacheAssumption
         DEF RetryScheduled, RefreshInsideLifetime, Failed, TypeOK
  <2>2. CASE fetched[f] # None
    <3>1. expires' = fetched[f] /\ nextAttempt' = fetched[f] - Lead(fetched[f], at[f])
      BY <2>2 DEF Store
    <3>2. at[f] < fetched[f]
      BY <1>1, <2>2 DEF CarriesFresh
    <3>3. /\ Lead(fetched[f], at[f]) \in Nat
          /\ at[f] < nextAttempt' /\ nextAttempt' <= fetched[f]
      BY <1>3, <3>1, <3>2, LeadBound
    <3>4. nextAttempt' \in Nat
      BY <1>3, <3>1, <3>3
    <3> QED BY <1>1, <1>3, <2>2, <3>1, <3>3, <3>4
         DEF RetryScheduled, RefreshInsideLifetime, Failed
  <2> QED BY <2>1, <2>2
<1>5. TypeOK'
  <2>1. flight' \in [Fetches -> {"unborn", "fetch", "store", "done"}]
    BY DEF Store, TypeOK
  <2> QED BY <1>1, <1>4, <2>1 DEF TypeOK
<1>6. SingleFlight'
  <2>1. refreshing = f
    BY <1>1 DEF SingleFlight, Active
  <2>2. \A g \in Fetches : ~Active(g)'
    BY <1>2, <2>1 DEF SingleFlight, Active
  <2>3. ASSUME NEW d \in Callers, pc[d] = "wait"
        PROVE  on[d] # None /\ flight'[on[d]] # "unborn"
    <3>1. on[d] \in Fetches /\ flight[on[d]] # "unborn"
      BY <2>3 DEF SingleFlight, TypeOK
    <3> QED BY <1>2, <3>1 DEF Fetches, None
  <2> QED BY <1>1, <2>2, <2>3 DEF SingleFlight, Fetches, None
<1>7. CarriesFresh' /\ LastIsDone'
  BY <1>1, <1>2 DEF CarriesFresh, LastIsDone
<1> QED BY <1>4, <1>5, <1>6, <1>7

(* Every step of the cache keeps the invariant. *)
LEMMA StepInv == IInv /\ [Next]_vars => IInv'
<1> SUFFICES ASSUME IInv, [Next]_vars PROVE IInv'
  OBVIOUS
<1>1. CASE UNCHANGED vars
  <2>1. UNCHANGED <<clock, expires, nextAttempt, refreshing, flight, fetched, at, pc, on,
                    result, last>>
    BY <1>1 DEF vars, cacheVars, flightVars, callVars
  <2>2. TypeOK' /\ SingleFlight'
    BY <2>1 DEF IInv, TypeOK, SingleFlight, Active
  <2> QED BY <2>1, <2>2, FetchPartsStable DEF IInv
<1>2. CASE Next
  BY <1>2, NextCases, QuietInv, StartInv, AnswerInv, StoreInv
<1> QED BY <1>1, <1>2

-------------------------------------------------------------------------------
\* Every step of Current and refresh keeps the shape of the cache; that the next
\* attempt is a time needs the whole invariant.
THEOREM TypeCorrect == Spec => []TypeOK
<1>1. IInv => TypeOK
  BY DEF IInv
<1> QED BY <1>1, InitInv, StepInv, PTL DEF Spec

\* One fetch at a time, whatever callers come and go, and nobody waits for a
\* channel that will not be closed.
THEOREM OneFetch == Spec => []SingleFlight
<1>1. IInv => SingleFlight
  BY DEF IInv
<1> QED BY <1>1, InitInv, StepInv, PTL DEF Spec

\* A successful refresh schedules the next inside the lifetime of its response,
\* for every lifetime and every refreshAfter.
THEOREM RefreshDueInLifetime == Spec => []RefreshInsideLifetime
<1>1. IInv => RefreshInsideLifetime
  BY DEF IInv
<1> QED BY <1>1, InitInv, StepInv, PTL DEF Spec

\* No fetch starts earlier than retryAfter after the last one failed.
THEOREM RetryIsHonoured == Spec => RetryHonoured
<1>1. IInv /\ [Next]_vars =>
        [(\E f \in Fetches : flight[f] = "unborn" /\ flight'[f] # "unborn")
           => (Failed => clock >= at[last] + RetryAfter)]_vars
  <2> SUFFICES ASSUME IInv, Next, Failed,
                      NEW f \in Fetches, flight[f] = "unborn", flight'[f] # "unborn"
               PROVE  clock >= at[last] + RetryAfter
    OBVIOUS
  <2>1. ~Quiet
    BY DEF Quiet, Tick, Call, Serve, Join, Unavailable, Woken, GiveUp, flightVars
  <2>2. ASSUME NEW g \in Fetches PROVE ~Answer(g) /\ ~Store(g)
    BY <2>2 DEF Answer, Store, IInv, TypeOK
  <2>3. clock >= nextAttempt
    BY <2>1, <2>2, NextCases DEF ServeAndRefresh, Refresh
  <2> QED BY <2>3 DEF IInv, RetryScheduled
<1> QED BY <1>1, InitInv, StepInv, PTL DEF Spec, RetryHonoured
================================================================================
