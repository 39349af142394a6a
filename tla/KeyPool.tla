------------------------------ MODULE KeyPool ------------------------------
(***************************************************************************)
(* keypool.Pool: fill-first selection over a list of API keys with a       *)
(* circuit breaker per key, as many requests drive it concurrently.        *)
(*                                                                         *)
(* Each request is a goroutine inside withKey.  The pool's mutex makes     *)
(* acquireCandidate, close, releaseProbe and open atomic; between them the *)
(* upstream call runs with no lock held, so any number of other requests,  *)
(* clock ticks and cancellations may happen while a lease is out.  A lease *)
(* carries the breaker generation that admitted it: an outcome reported    *)
(* under an older generation changes nothing.                              *)
(***************************************************************************)
EXTENDS UpstreamError

CONSTANTS
  NumKeys,       \* number of configured keys
  Requests,      \* the requests (goroutines) that use the pool
  Failures,      \* the failed outcomes an upstream call may have
  SystemOne,     \* TRUE for the pool of the System One API
  CreditsTTL,    \* BreakerPolicy.CreditsTTL, in ticks
  RateLimitTTL,  \* BreakerPolicy.RateLimitTTL, in ticks
  DefaultRetry,  \* the one-second fallback of acquireCandidate, in ticks
  MaxTime        \* bound on the clock

ASSUME NumKeysAssumption  == NumKeys \in Nat
ASSUME FailuresAssumption == Failures \subseteq Failure
ASSUME SystemOneAssumption == SystemOne \in BOOLEAN
ASSUME TTLAssumption ==
  /\ CreditsTTL \in Nat \ {0}
  /\ RateLimitTTL \in Nat \ {0}
  /\ DefaultRetry \in Nat \ {0}
ASSUME MaxTimeAssumption == MaxTime \in Nat

Keys == 1..NumKeys       \* in fill-first order

Closed == 0              \* the zero time.Time of keyState.openUntil

VARIABLES
  now,         \* the clock policy.Now reads
  openUntil,   \* keyState.openUntil
  probing,     \* keyState.probing
  generation,  \* keyState.generation
  pc,          \* where each request is in withKey
  attempted,   \* its attempted set
  lease,       \* the keyLease it holds while calling upstream
  failed,      \* lastErr # nil
  cancelled,   \* ctx.Err() # nil
  result,      \* what withKey returned
  retryAfter   \* UnavailableError.RetryAfter, when that is what it returned

breaker == <<openUntil, probing, generation>>
request == <<pc, attempted, lease, failed, cancelled, result, retryAfter>>
vars    == <<now, breaker, request>>

NoLease == [key |-> 0, gen |-> 0]

Results == {"none", "ok", "error", "cancelled", "unavailable"}

Init ==
  /\ now = 1
  /\ openUntil  = [k \in Keys |-> Closed]
  /\ probing    = [k \in Keys |-> FALSE]
  /\ generation = [k \in Keys |-> 0]
  /\ pc         = [r \in Requests |-> "idle"]
  /\ attempted  = [r \in Requests |-> {}]
  /\ lease      = [r \in Requests |-> NoLease]
  /\ failed     = [r \in Requests |-> FALSE]
  /\ cancelled  = [r \in Requests |-> FALSE]
  /\ result     = [r \in Requests |-> "none"]
  /\ retryAfter = [r \in Requests |-> 0]

-----------------------------------------------------------------------------
(* The breaker, as each lock holder reads and writes it.                    *)

IsOpen(k) == now < openUntil[k]

Usable(k) == ~probing[k] /\ ~IsOpen(k)

\* Mutant: the keys a request already tried are offered again.
CandidatesAgain(r) == {k \in Keys : Usable(k)}

Candidates(r) == {k \in Keys \ attempted[r] : Usable(k)}

IsFirst(k, S) == k \in S /\ \A j \in S : k <= j

OpenKeys == {k \in Keys : IsOpen(k)}

\* The open keys whose cooldown ends first.
Earliest == {k \in OpenKeys : \A j \in OpenKeys : openUntil[k] <= openUntil[j]}

\* Mutants: no fallback when no cooldown is running; the longest cooldown.
AdviceNoFallback ==
  IF OpenKeys = {} THEN {0} ELSE {openUntil[k] - now : k \in Earliest}

AdviceLongest ==
  IF OpenKeys = {} THEN {DefaultRetry}
  ELSE {openUntil[k] - now : k \in {k \in OpenKeys : \A j \in OpenKeys : openUntil[k] >= openUntil[j]}}

\* The wait acquireCandidate advises, as the set of its one value: the shortest
\* cooldown still running, or the fallback when every key is held by its probe.
Advice ==
  IF OpenKeys = {} THEN {DefaultRetry} ELSE {openUntil[k] - now : k \in Earliest}

Current(r) == lease[r].gen = generation[lease[r].key]

\* Mutants: the outcome is applied whatever the generation; a cancelled probe
\* keeps the slot; a late failure opens a breaker that has been closed since.
CloseStale(r) ==
  LET k == lease[r].key IN
  /\ openUntil' = [openUntil EXCEPT ![k] = Closed]
  /\ probing'   = [probing EXCEPT ![k] = FALSE]
  /\ UNCHANGED generation

ReleaseProbeStale(r) ==
  /\ probing' = [probing EXCEPT ![lease[r].key] = FALSE]
  /\ UNCHANGED <<openUntil, generation>>

ReleaseProbeLeak(r) == UNCHANGED breaker

OpenStale(r, ttl) ==
  LET k     == lease[r].key
      opens == Current(r) \/ openUntil[k] = Closed
  IN
  /\ openUntil'  = IF opens THEN [openUntil EXCEPT ![k] = now + ttl] ELSE openUntil
  /\ probing'    = IF opens THEN [probing EXCEPT ![k] = FALSE] ELSE probing
  /\ generation' = IF opens THEN [generation EXCEPT ![k] = @ + 1] ELSE generation

\* Pool.close, Pool.releaseProbe and Pool.open for the lease of request r.
Close(r) ==
  LET k == lease[r].key IN
  /\ openUntil'  = IF Current(r) THEN [openUntil EXCEPT ![k] = Closed] ELSE openUntil
  /\ probing'    = IF Current(r) THEN [probing EXCEPT ![k] = FALSE] ELSE probing
  /\ generation' = generation

ReleaseProbe(r) ==
  /\ probing' = IF Current(r) THEN [probing EXCEPT ![lease[r].key] = FALSE] ELSE probing
  /\ UNCHANGED <<openUntil, generation>>

Open(r, ttl) ==
  LET k == lease[r].key IN
  /\ openUntil'  = IF Current(r) THEN [openUntil EXCEPT ![k] = now + ttl] ELSE openUntil
  /\ probing'    = IF Current(r) THEN [probing EXCEPT ![k] = FALSE] ELSE probing
  /\ generation' = IF Current(r) THEN [generation EXCEPT ![k] = @ + 1] ELSE generation

\* How long reportFailure opens the breaker for failure e.
TTL(e) ==
  IF PoolArm(e, SystemOne) = "rate_limited"
  THEN (IF e.retry > 0 THEN e.retry ELSE RateLimitTTL)
  ELSE CreditsTTL

ReportFailure(r, e) ==
  IF e.kind = "interrupted" THEN ReleaseProbe(r)
  ELSE IF Trips(e, SystemOne) THEN Open(r, TTL(e))
  ELSE Close(r)

-----------------------------------------------------------------------------
(* withKey, one action per stretch of code between two upstream calls.      *)

Return(r, what) ==
  /\ pc'     = [pc EXCEPT ![r] = "done"]
  /\ lease'  = [lease EXCEPT ![r] = NoLease]
  /\ result' = [result EXCEPT ![r] = what]

\* A request enters the pool, with or without a key of its own.
Start(r) ==
  /\ pc[r] = "idle"
  /\ \E entry \in {"select", "passthrough"} : pc' = [pc EXCEPT ![r] = entry]
  /\ UNCHANGED <<now, breaker, attempted, lease, failed, cancelled, result, retryAfter>>

\* The caller's key bypasses pool and breakers altogether.
Passthrough(r) ==
  /\ pc[r] = "passthrough"
  /\ \E what \in {"ok", "error"} : Return(r, what)
  /\ UNCHANGED <<now, breaker, attempted, failed, cancelled, retryAfter>>

\* The loop's ctx.Err() check.
Abandon(r) ==
  /\ pc[r] = "select" /\ cancelled[r]
  /\ Return(r, "cancelled")
  /\ UNCHANGED <<now, breaker, attempted, failed, cancelled, retryAfter>>

\* acquireCandidate finds a key: an expired breaker admits r as its one probe.
Acquire(r) ==
  /\ pc[r] = "select" /\ ~cancelled[r]
  /\ \E k \in Keys :
       LET probe == openUntil[k] # Closed
           gen   == IF probe THEN generation[k] + 1 ELSE generation[k]
       IN
         /\ IsFirst(k, Candidates(r))
         /\ probing'    = [probing EXCEPT ![k] = probe]
         /\ generation' = [generation EXCEPT ![k] = gen]
         /\ lease'      = [lease EXCEPT ![r] = [key |-> k, gen |-> gen]]
         /\ attempted'  = [attempted EXCEPT ![r] = @ \cup {k}]
  /\ pc' = [pc EXCEPT ![r] = "calling"]
  /\ UNCHANGED <<now, openUntil, failed, cancelled, result, retryAfter>>

\* acquireCandidate finds none: the last failure is returned, or unavailability.
Exhaust(r) ==
  /\ pc[r] = "select" /\ ~cancelled[r] /\ Candidates(r) = {}
  /\ IF failed[r]
     THEN /\ Return(r, "error")
          /\ UNCHANGED retryAfter
     ELSE /\ Return(r, "unavailable")
          /\ \E wait \in Advice : retryAfter' = [retryAfter EXCEPT ![r] = wait]
  /\ UNCHANGED <<now, breaker, attempted, failed, cancelled>>

\* The upstream call succeeds (for a stream: it was accepted).
Succeed(r) ==
  /\ pc[r] = "calling"
  /\ Close(r)
  /\ Return(r, "ok")
  /\ UNCHANGED <<now, attempted, failed, cancelled, retryAfter>>

\* The upstream call fails; the failure is reported and may rotate to another key.
Fail(r, e) ==
  /\ pc[r] = "calling"
  /\ ReportFailure(r, e)
  /\ failed' = [failed EXCEPT ![r] = TRUE]
  /\ IF Rotates(e, SystemOne)
     THEN /\ pc'    = [pc EXCEPT ![r] = "select"]
          /\ lease' = [lease EXCEPT ![r] = NoLease]
          /\ UNCHANGED result
     ELSE Return(r, "error")
  /\ UNCHANGED <<now, attempted, cancelled, retryAfter>>

\* The caller's context ends, at any point of the request.
Cancel(r) ==
  /\ pc[r] \in {"select", "calling", "passthrough"} /\ ~cancelled[r]
  /\ cancelled' = [cancelled EXCEPT ![r] = TRUE]
  /\ UNCHANGED <<now, breaker, pc, attempted, lease, failed, result, retryAfter>>

Tick ==
  /\ now < MaxTime
  /\ now' = now + 1
  /\ UNCHANGED <<breaker, request>>

Select(r) == Abandon(r) \/ Acquire(r) \/ Exhaust(r)

Answered(r) == Passthrough(r) \/ Succeed(r) \/ \E e \in Failures : Fail(r, e)

Finished == \A r \in Requests : pc[r] = "done"

\* Every request has returned and the clock has reached its bound.
Done == Finished /\ now >= MaxTime /\ UNCHANGED vars

Next ==
  \/ \E r \in Requests : Start(r) \/ Select(r) \/ Answered(r) \/ Cancel(r)
  \/ Tick
  \/ Done

Spec == Init /\ [][Next]_vars

(* The Go scheduler runs a goroutine that can run, and an upstream call ends *)
(* (with an answer, or a transport or context deadline).  No fairness on new *)
(* requests, on cancellation or on the clock.                                *)
FairSpec == Spec /\ \A r \in Requests : WF_vars(Select(r)) /\ WF_vars(Answered(r))
-----------------------------------------------------------------------------
(* Properties. *)

Leases == [key : Keys \cup {0}, gen : Nat]

\* Every variable keeps its type; a request holds a lease exactly while it calls
\* upstream, on a key it has attempted and of a generation the key has reached;
\* a returned UnavailableError advises a positive wait.
TypeOK ==
  /\ now \in Nat
  /\ openUntil \in [Keys -> Nat]
  /\ probing \in [Keys -> BOOLEAN]
  /\ generation \in [Keys -> Nat]
  /\ pc \in [Requests -> {"idle", "select", "calling", "passthrough", "done"}]
  /\ attempted \in [Requests -> SUBSET Keys]
  /\ lease \in [Requests -> Leases]
  /\ failed \in [Requests -> BOOLEAN]
  /\ cancelled \in [Requests -> BOOLEAN]
  /\ result \in [Requests -> Results]
  /\ retryAfter \in [Requests -> Nat]
  /\ \A r \in Requests :
       IF pc[r] = "calling"
       THEN lease[r].key \in attempted[r] /\ lease[r].gen <= generation[lease[r].key]
       ELSE lease[r] = NoLease
  /\ \A r \in Requests : result[r] = "unavailable" => retryAfter[r] > 0

\* The calls in flight whose outcome can still change the breaker of k.
Holders(k) == {r \in Requests : pc[r] = "calling" /\ lease[r] = [key |-> k, gen |-> generation[k]]}

\* The generations do what keyState.generation and acquireCandidate's comment
\* promise: a probing breaker is past its cooldown and exactly one call in flight
\* can settle it; a breaker that is open, or has elapsed unprobed, listens to none.
OneProbe ==
  \A k \in Keys :
    /\ probing[k] => openUntil[k] # Closed /\ ~IsOpen(k) /\ \E r \in Requests : Holders(k) = {r}
    /\ openUntil[k] # Closed /\ ~probing[k] => Holders(k) = {}

\* While a breaker is open nothing touches it: no late success closes it, no late
\* failure shortens or extends its cooldown, no request probes it early
\* (keyLease: "a late response from an older generation cannot undo a newer decision").
OpenHolds ==
  [][\A k \in Keys : IsOpen(k) =>
        /\ openUntil'[k] = openUntil[k]
        /\ probing'[k] = probing[k]
        /\ generation'[k] = generation[k]]_vars

\* A request told "unavailable" was told the truth (UnavailableError's comment):
\* every key was open or held by its probe, and the wait it was advised is exactly
\* that for the first cooldown to end, or the fallback if none is running.
UnavailableIsTrue ==
  [][\A r \in Requests :
        result[r] # "unavailable" /\ result'[r] = "unavailable" =>
          /\ \A k \in Keys : ~Usable(k)
          /\ retryAfter'[r] > 0
          /\ \A k \in Keys : IsOpen(k) => now + retryAfter'[r] <= openUntil[k]
          /\ \/ \E k \in Keys : IsOpen(k) /\ now + retryAfter'[r] = openUntil[k]
             \/ retryAfter'[r] = DefaultRetry /\ \A k \in Keys : ~IsOpen(k)]_vars

\* Whatever upstream answers, a request that entered the pool returns.
RequestsReturn ==
  \A r \in Requests : pc[r] = "select" ~> pc[r] = "done"

\* The half-open slot is never leaked: each probe ends, whether it succeeds,
\* fails, or its caller goes away.
ProbesEnd ==
  \A k \in Keys : probing[k] ~> ~probing[k]

\* The breakers as their abstract specification sees them.
StateOf(k) ==
  IF openUntil[k] = Closed THEN "closed"
  ELSE IF IsOpen(k) THEN "open"
  ELSE IF probing[k] THEN "probing" ELSE "elapsed"

Promise == INSTANCE Breaker WITH
  NoKey   <- 0,
  state   <- [k \in Keys |-> StateOf(k)],
  heard   <- [k \in Keys |-> Holders(k)],
  calling <- [r \in Requests |-> lease[r].key]

\* The generation-checked leases implement the breaker promise: in particular a
\* probe is settled by the request that was admitted for it and by no other, and a
\* late failure does not reopen a breaker that a probe has closed since.
ImplementsBreaker == Promise!Spec
=============================================================================
