--------------------------- MODULE KeyPoolProofs ---------------------------
(***************************************************************************)
(* Proofs about KeyPool, for any number of keys and requests, any failures *)
(* and any cooldowns.                                                      *)
(***************************************************************************)
EXTENDS KeyPool, TLAPS

USE NumKeysAssumption, FailuresAssumption, SystemOneAssumption, TTLAssumption, MaxTimeAssumption

\* A breaker never opens for no time at all (BreakerPolicy.withDefaults, and the
\* RetryAfter > 0 test of reportFailure).
LEMMA TTLPositive == \A e \in Failures : TTL(e) \in Nat \ {0}
<1> SUFFICES ASSUME NEW e \in Failures PROVE TTL(e) \in Nat \ {0}
  OBVIOUS
<1>1. e.retry \in Nat
  BY DEF Failure
<1> QED
  BY <1>1 DEF TTL

\* The wait an UnavailableError advises is positive.
LEMMA AdvicePositive == TypeOK => \A wait \in Advice : wait \in Nat \ {0}
<1> SUFFICES ASSUME TypeOK, NEW wait \in Advice PROVE wait \in Nat \ {0}
  OBVIOUS
<1>1. CASE OpenKeys = {}
  BY <1>1 DEF Advice
<1>2. CASE OpenKeys # {}
  <2>1. PICK k \in Keys : now < openUntil[k] /\ wait = openUntil[k] - now
    BY <1>2 DEF Advice, Earliest, OpenKeys, IsOpen
  <2>2. now \in Nat /\ openUntil[k] \in Nat
    BY DEF TypeOK
  <2> QED
    BY <2>1, <2>2
<1> QED
  BY <1>1, <1>2

-----------------------------------------------------------------------------
\* The typing invariant holds in every reachable state.
LEMMA InitType == Init => TypeOK
  BY DEF Init, TypeOK, Leases, NoLease, Results, Closed

\* What Close, ReleaseProbe and Open leave of the breaker's types.
LEMMA ReportType ==
  ASSUME TypeOK, NEW r \in Requests, pc[r] = "calling",
         \/ Close(r)
         \/ \E e \in Failures : ReportFailure(r, e)
  PROVE  /\ openUntil' \in [Keys -> Nat]
         /\ probing' \in [Keys -> BOOLEAN]
         /\ generation' \in [Keys -> Nat]
         /\ \A k \in Keys : generation[k] <= generation'[k]
<1> DEFINE k == lease[r].key
<1>1. /\ k \in Keys /\ now \in Nat
      /\ openUntil \in [Keys -> Nat]
      /\ probing \in [Keys -> BOOLEAN]
      /\ generation \in [Keys -> Nat]
  BY DEF TypeOK
<1>2. CASE Close(r)
  BY <1>1, <1>2 DEF Close, Closed
<1>3. CASE ReleaseProbe(r)
  BY <1>1, <1>3 DEF ReleaseProbe
<1>4. ASSUME NEW e \in Failures, Open(r, TTL(e))
      PROVE  /\ openUntil' \in [Keys -> Nat]
             /\ probing' \in [Keys -> BOOLEAN]
             /\ generation' \in [Keys -> Nat]
             /\ \A j \in Keys : generation[j] <= generation'[j]
  <2>1. TTL(e) \in Nat \ {0}
    BY TTLPositive
  <2> QED
    BY <1>1, <1>4, <2>1 DEF Open
<1> QED
  BY <1>2, <1>3, <1>4 DEF ReportFailure

LEMMA NextType == TypeOK /\ [Next]_vars => TypeOK'
<1> SUFFICES ASSUME TypeOK, [Next]_vars PROVE TypeOK'
  OBVIOUS
<1> USE DEF TypeOK, Leases, NoLease, Results
<1>1. ASSUME NEW r \in Requests, Start(r) PROVE TypeOK'
  BY <1>1 DEF Start, breaker
<1>2. ASSUME NEW r \in Requests, Abandon(r) PROVE TypeOK'
  BY <1>2 DEF Abandon, Return, breaker
<1>3. ASSUME NEW r \in Requests, Acquire(r) PROVE TypeOK'
  <2>1. PICK k \in Keys :
          LET probe == openUntil[k] # Closed
              gen   == IF probe THEN generation[k] + 1 ELSE generation[k]
          IN  /\ probing'    = [probing EXCEPT ![k] = probe]
              /\ generation' = [generation EXCEPT ![k] = gen]
              /\ lease'      = [lease EXCEPT ![r] = [key |-> k, gen |-> gen]]
              /\ attempted'  = [attempted EXCEPT ![r] = @ \cup {k}]
    BY <1>3 DEF Acquire
  <2>2. /\ pc' = [pc EXCEPT ![r] = "calling"]
        /\ UNCHANGED <<now, openUntil, failed, cancelled, result, retryAfter>>
    BY <1>3 DEF Acquire
  <2>3. generation' \in [Keys -> Nat] /\ \A j \in Keys : generation[j] <= generation'[j]
    BY <2>1
  <2>4. /\ probing' \in [Keys -> BOOLEAN]
        /\ attempted' \in [Requests -> SUBSET Keys]
        /\ \A s \in Requests : attempted[s] \subseteq attempted'[s]
    BY <2>1
  <2>5. lease' \in [Requests -> [key : Keys \cup {0}, gen : Nat]]
    BY <2>1
  <2>6. /\ lease'[r].key \in attempted'[r]
        /\ lease'[r].gen <= generation'[lease'[r].key]
    BY <2>1
  <2>7. ASSUME NEW s \in Requests \ {r}, pc'[s] = "calling"
        PROVE  lease'[s].key \in attempted'[s] /\ lease'[s].gen <= generation'[lease'[s].key]
    <3>1. pc[s] = "calling" /\ lease'[s] = lease[s]
      BY <2>1, <2>2, <2>7
    <3>2. lease[s].key \in attempted[s] /\ lease[s].gen <= generation[lease[s].key]
      BY <3>1
    <3>3. lease[s].key \in Keys /\ lease[s].gen \in Nat
      BY <3>2
    <3> QED
      BY <3>1, <3>2, <3>3, <2>3, <2>4
  <2> QED
    BY <2>1, <2>2, <2>3, <2>4, <2>5, <2>6, <2>7
<1>4. ASSUME NEW r \in Requests, Exhaust(r) PROVE TypeOK'
  <2>1. /\ retryAfter' \in [Requests -> Nat]
        /\ retryAfter'[r] > 0 \/ result'[r] # "unavailable"
        /\ \A s \in Requests \ {r} : retryAfter'[s] = retryAfter[s]
    <3>1. CASE failed[r]
      <4>1. retryAfter' = retryAfter /\ result' = [result EXCEPT ![r] = "error"]
        BY <1>4, <3>1 DEF Exhaust, Return
      <4> QED
        BY <4>1
    <3>2. CASE ~failed[r]
      <4>1. PICK wait \in Advice : retryAfter' = [retryAfter EXCEPT ![r] = wait]
        BY <1>4, <3>2 DEF Exhaust
      <4>2. wait \in Nat \ {0}
        BY AdvicePositive
      <4> QED
        BY <4>1, <4>2
    <3> QED
      BY <3>1, <3>2
  <2>2. /\ pc' = [pc EXCEPT ![r] = "done"]
        /\ lease' = [lease EXCEPT ![r] = NoLease]
        /\ \E what \in Results : result' = [result EXCEPT ![r] = what]
        /\ UNCHANGED <<now, openUntil, probing, generation, attempted, failed, cancelled>>
    BY <1>4 DEF Exhaust, Return, breaker
  <2>3. /\ pc' \in [Requests -> {"idle", "select", "calling", "passthrough", "done"}]
        /\ lease' \in [Requests -> Leases]
        /\ result' \in [Requests -> Results]
    BY <2>2
  <2>4. ASSUME NEW s \in Requests
        PROVE  IF pc'[s] = "calling"
               THEN lease'[s].key \in attempted'[s] /\ lease'[s].gen <= generation'[lease'[s].key]
               ELSE lease'[s] = NoLease
    BY <2>2
  <2>5. ASSUME NEW s \in Requests, result'[s] = "unavailable" PROVE retryAfter'[s] > 0
    BY <2>1, <2>2, <2>5
  <2> QED
    BY <2>1, <2>2, <2>3, <2>4, <2>5
<1>5. ASSUME NEW r \in Requests, Passthrough(r) PROVE TypeOK'
  BY <1>5 DEF Passthrough, Return, breaker
<1>6. ASSUME NEW r \in Requests, Succeed(r) PROVE TypeOK'
  <2>1. /\ openUntil' \in [Keys -> Nat]
        /\ probing' \in [Keys -> BOOLEAN]
        /\ generation' \in [Keys -> Nat]
        /\ \A k \in Keys : generation[k] <= generation'[k]
    BY <1>6, ReportType DEF Succeed
  <2> QED
    BY <1>6, <2>1 DEF Succeed, Return
<1>7. ASSUME NEW r \in Requests, NEW e \in Failures, Fail(r, e) PROVE TypeOK'
  <2>1. /\ openUntil' \in [Keys -> Nat]
        /\ probing' \in [Keys -> BOOLEAN]
        /\ generation' \in [Keys -> Nat]
        /\ \A k \in Keys : generation[k] <= generation'[k]
    BY <1>7, ReportType DEF Fail
  <2>2. /\ pc' \in [Requests -> {"idle", "select", "calling", "passthrough", "done"}]
        /\ lease' = [lease EXCEPT ![r] = NoLease]
        /\ pc'[r] # "calling"
        /\ \A s \in Requests \ {r} : pc'[s] = pc[s]
    BY <1>7 DEF Fail, Return
  <2>3. /\ result' \in [Requests -> Results]
        /\ \A s \in Requests : result'[s] = "unavailable" => result[s] = "unavailable"
        /\ failed' \in [Requests -> BOOLEAN]
        /\ UNCHANGED <<now, attempted, cancelled, retryAfter>>
    BY <1>7 DEF Fail, Return
  <2>4. ASSUME NEW s \in Requests
        PROVE  IF pc'[s] = "calling"
               THEN lease'[s].key \in attempted'[s] /\ lease'[s].gen <= generation'[lease'[s].key]
               ELSE lease'[s] = NoLease
    BY <2>1, <2>2, <2>3
  <2>5. lease' \in [Requests -> Leases]
    BY <2>2
  <2> QED
    BY <2>1, <2>2, <2>3, <2>4, <2>5
<1>8. ASSUME NEW r \in Requests, Cancel(r) PROVE TypeOK'
  BY <1>8 DEF Cancel, breaker
<1>9. CASE Tick
  BY <1>9 DEF Tick, breaker, request
<1>10. CASE UNCHANGED vars
  BY <1>10 DEF vars, breaker, request
<1> QED
  BY <1>1, <1>2, <1>3, <1>4, <1>5, <1>6, <1>7, <1>8, <1>9, <1>10
     DEF Next, Select, Answered, Done

\* Every reachable state of the pool is well typed: in particular a lease is held
\* exactly while its call is in flight, and no advised wait is zero.
THEOREM TypeCorrect == Spec => []TypeOK
  BY InitType, NextType, PTL DEF Spec

-----------------------------------------------------------------------------
(* OneProbe is inductive relative to TypeOK.  It is handled key by key, with   *)
(* the set Holders(k) replaced by the predicate that defines it.               *)

Holds(r, k) == pc[r] = "calling" /\ lease[r].key = k /\ lease[r].gen = generation[k]

\* What OneProbe says of key k.
KeyInv(k) ==
  /\ probing[k] => /\ openUntil[k] # Closed
                   /\ ~IsOpen(k)
                   /\ \E r \in Requests : \A s \in Requests : Holds(s, k) <=> s = r
  /\ openUntil[k] # Closed /\ ~probing[k] => \A s \in Requests : ~Holds(s, k)

LEMMA OneProbeByKey == TypeOK => (OneProbe <=> \A k \in Keys : KeyInv(k))
<1> SUFFICES ASSUME TypeOK PROVE OneProbe <=> \A k \in Keys : KeyInv(k)
  OBVIOUS
<1>1. \A k \in Keys, r \in Requests : r \in Holders(k) <=> Holds(r, k)
  BY DEF Holders, Holds, TypeOK, Leases
<1>2. \A k \in Keys : Holders(k) \subseteq Requests
  BY DEF Holders
<1>3. \A k \in Keys, r \in Requests :
        Holders(k) = {r} <=> \A s \in Requests : Holds(s, k) <=> s = r
  BY <1>1, <1>2
<1>4. \A k \in Keys : Holders(k) = {} <=> \A s \in Requests : ~Holds(s, k)
  BY <1>1, <1>2
<1> QED
  BY <1>3, <1>4 DEF OneProbe, KeyInv

\* A request that ends its call: what that does to every breaker and holder.
LEMMA ReportKeepsKeyInv ==
  ASSUME TypeOK, NEW r \in Requests, pc[r] = "calling",
         \A k \in Keys : KeyInv(k),
         \/ Close(r)
         \/ \E e \in Failures : ReportFailure(r, e),
         now' = now, pc'[r] # "calling",
         \A s \in Requests \ {r} : pc'[s] = pc[s] /\ lease'[s] = lease[s]
  PROVE  \A k \in Keys : KeyInv(k)'
<1>0. PICK c \in Keys : c = lease[r].key
  BY DEF TypeOK
<1>1. /\ c \in Keys /\ c = lease[r].key /\ now \in Nat
      /\ openUntil \in [Keys -> Nat]
      /\ probing \in [Keys -> BOOLEAN]
      /\ generation \in [Keys -> Nat]
      /\ \A s \in Requests : lease[s].gen \in Nat
  BY <1>0 DEF TypeOK, Leases
<1>2. \A k \in Keys : ~Holds(r, k)'
  BY DEF Holds
\* The keys other than the lease's, and every key when the lease is stale.
<1>3. ASSUME NEW k \in Keys, k # c \/ ~Current(r),
             openUntil'[k] = openUntil[k], probing'[k] = probing[k],
             generation'[k] = generation[k]
      PROVE  KeyInv(k)'
  <2>1. ~Holds(r, k)
    BY <1>1, <1>3 DEF Holds, Current
  <2>2. \A s \in Requests : Holds(s, k)' <=> Holds(s, k)
    BY <1>2, <1>3, <2>1 DEF Holds
  <2> QED
    BY <1>3, <2>2 DEF KeyInv, IsOpen
<1>4. \A k \in Keys \ {c} : /\ openUntil'[k] = openUntil[k]
                            /\ probing'[k] = probing[k]
                            /\ generation'[k] = generation[k]
  BY <1>1 DEF ReportFailure, Close, ReleaseProbe, Open
<1>5. CASE ~Current(r)
  <2>1. UNCHANGED <<openUntil, probing, generation>>
    BY <1>5 DEF ReportFailure, Close, ReleaseProbe, Open
  <2> QED
    BY <1>3, <1>5, <2>1
<1>6. CASE Current(r)
  <2>1. Holds(r, c)
    BY <1>1, <1>6 DEF Holds, Current
  <2>2. CASE Close(r)
    <3>1. KeyInv(c)'
      BY <1>1, <1>6, <2>2 DEF Close, KeyInv, Closed
    <3> QED
      BY <1>3, <1>4, <3>1
  <2>3. CASE ReleaseProbe(r)
    <3>1. openUntil'[c] = openUntil[c] /\ ~probing'[c] /\ generation'[c] = generation[c]
      BY <1>1, <1>6, <2>3 DEF ReleaseProbe
    <3>2. openUntil[c] # Closed => \A s \in Requests \ {r} : ~Holds(s, c)
      BY <1>1, <2>1 DEF KeyInv
    <3>3. openUntil[c] # Closed => \A s \in Requests : ~Holds(s, c)'
      BY <1>2, <3>1, <3>2 DEF Holds
    <3>4. KeyInv(c)'
      BY <3>1, <3>3 DEF KeyInv
    <3> QED
      BY <1>3, <1>4, <3>4
  <2>4. ASSUME NEW e \in Failures, Open(r, TTL(e)) PROVE \A k \in Keys : KeyInv(k)'
    <3>1. ~probing'[c] /\ generation'[c] = generation[c] + 1
      BY <1>1, <1>6, <2>4 DEF Open
    <3>2. \A s \in Requests \ {r} : lease[s].key = c /\ pc[s] = "calling" =>
             lease[s].gen <= generation[c]
      BY <1>1 DEF TypeOK
    <3>3. \A s \in Requests : ~Holds(s, c)'
      BY <1>1, <1>2, <3>1, <3>2 DEF Holds
    <3>4. KeyInv(c)'
      BY <3>1, <3>3 DEF KeyInv
    <3> QED
      BY <1>3, <1>4, <3>4
  <2> QED
    BY <2>2, <2>3, <2>4 DEF ReportFailure
<1> QED
  BY <1>5, <1>6

\* A step that changes no breaker and neither starts nor ends a call.
LEMMA IdleKeepsKeyInv ==
  ASSUME TypeOK, NEW k \in Keys, KeyInv(k),
         UNCHANGED breaker, now' \in Nat, now <= now',
         \A s \in Requests : Holds(s, k)' <=> Holds(s, k)
  PROVE  KeyInv(k)'
<1>1. /\ openUntil'[k] = openUntil[k] /\ probing'[k] = probing[k]
      /\ now \in Nat /\ openUntil[k] \in Nat
  BY DEF breaker, TypeOK
<1> QED
  BY <1>1 DEF KeyInv, IsOpen

LEMMA AcquireKeepsKeyInv ==
  ASSUME TypeOK, NEW r \in Requests, Acquire(r), \A k \in Keys : KeyInv(k)
  PROVE  \A k \in Keys : KeyInv(k)'
<1>1. /\ now \in Nat
      /\ openUntil \in [Keys -> Nat]
      /\ probing \in [Keys -> BOOLEAN]
      /\ generation \in [Keys -> Nat]
      /\ pc \in [Requests -> {"idle", "select", "calling", "passthrough", "done"}]
      /\ lease \in [Requests -> Leases]
  BY DEF TypeOK
<1>2. PICK c \in Keys :
        LET probe == openUntil[c] # Closed
            gen   == IF probe THEN generation[c] + 1 ELSE generation[c]
        IN  /\ IsFirst(c, Candidates(r))
            /\ probing'    = [probing EXCEPT ![c] = probe]
            /\ generation' = [generation EXCEPT ![c] = gen]
            /\ lease'      = [lease EXCEPT ![r] = [key |-> c, gen |-> gen]]
  BY DEF Acquire
<1>3. /\ pc[r] = "select" /\ pc' = [pc EXCEPT ![r] = "calling"]
      /\ openUntil' = openUntil /\ now' = now
  BY DEF Acquire
<1>4. ~probing[c] /\ ~IsOpen(c)
  BY <1>2 DEF IsFirst, Candidates, Usable
<1>5. ASSUME NEW k \in Keys \ {c} PROVE KeyInv(k)'
  <2>1. probing'[k] = probing[k] /\ generation'[k] = generation[k]
    BY <1>1, <1>2
  <2>2. ~Holds(r, k) /\ ~Holds(r, k)'
    BY <1>1, <1>2, <1>3 DEF Holds
  <2>3. \A s \in Requests \ {r} : Holds(s, k)' <=> Holds(s, k)
    BY <1>1, <1>2, <1>3, <2>1 DEF Holds
  <2> QED
    BY <1>3, <2>1, <2>2, <2>3 DEF KeyInv, IsOpen
<1>6. KeyInv(c)'
  <2>1. CASE openUntil[c] = Closed
    BY <1>1, <1>2, <1>3, <2>1 DEF KeyInv
  <2>2. CASE openUntil[c] # Closed
    <3>1. probing'[c] /\ generation'[c] = generation[c] + 1
      BY <1>1, <1>2, <2>2
    <3>2. Holds(r, c)'
      BY <1>1, <1>2, <1>3, <2>2 DEF Holds
    <3>3. ASSUME NEW s \in Requests \ {r} PROVE ~Holds(s, c)'
      <4>1. pc'[s] = pc[s] /\ lease'[s] = lease[s]
        BY <1>1, <1>2, <1>3
      <4>2. pc[s] = "calling" /\ lease[s].key = c => lease[s].gen \in Nat /\ lease[s].gen <= generation[c]
        BY DEF TypeOK, Leases
      <4> QED
        BY <1>1, <3>1, <4>1, <4>2 DEF Holds
    <3>4. \A s \in Requests : Holds(s, c)' <=> s = r
      BY <3>2, <3>3
    <3> QED
      BY <1>3, <1>4, <2>2, <3>1, <3>4 DEF KeyInv, IsOpen
  <2> QED
    BY <2>1, <2>2
<1> QED
  BY <1>5, <1>6

LEMMA NextKeyInv ==
  ASSUME TypeOK, \A k \in Keys : KeyInv(k), [Next]_vars
  PROVE  \A k \in Keys : KeyInv(k)'
<1> USE DEF TypeOK
<1>1. ASSUME NEW r \in Requests, Start(r) \/ Abandon(r) \/ Exhaust(r) \/ Passthrough(r) \/ Cancel(r)
      PROVE  \A k \in Keys : KeyInv(k)'
  <2>1. UNCHANGED breaker /\ now' = now
    BY <1>1 DEF Start, Abandon, Exhaust, Passthrough, Cancel
  <2>2. \A s \in Requests : /\ pc'[s] = "calling" <=> pc[s] = "calling"
                            /\ pc[s] = "calling" => lease'[s] = lease[s]
    BY <1>1 DEF Start, Abandon, Exhaust, Passthrough, Cancel, Return
  <2>3. \A s \in Requests, k \in Keys : Holds(s, k)' <=> Holds(s, k)
    BY <2>1, <2>2 DEF Holds, breaker
  <2> QED
    BY <2>1, <2>3, IdleKeepsKeyInv
<1>2. ASSUME NEW r \in Requests, Acquire(r) PROVE \A k \in Keys : KeyInv(k)'
  BY <1>2, AcquireKeepsKeyInv
<1>3. ASSUME NEW r \in Requests, Succeed(r) \/ \E e \in Failures : Fail(r, e)
      PROVE  \A k \in Keys : KeyInv(k)'
  <2>1. /\ pc[r] = "calling" /\ pc'[r] # "calling" /\ now' = now
        /\ Close(r) \/ \E e \in Failures : ReportFailure(r, e)
        /\ \A s \in Requests \ {r} : pc'[s] = pc[s] /\ lease'[s] = lease[s]
    BY <1>3 DEF Succeed, Fail, Return
  <2> QED
    BY <2>1, ReportKeepsKeyInv
<1>4. CASE Tick
  <2>1. /\ UNCHANGED breaker /\ now' \in Nat /\ now <= now'
        /\ \A s \in Requests, k \in Keys : Holds(s, k)' <=> Holds(s, k)
    BY <1>4 DEF Tick, Holds, breaker, request
  <2> QED
    BY <2>1, IdleKeepsKeyInv
<1>5. CASE UNCHANGED vars
  BY <1>5 DEF vars, breaker, request, KeyInv, Holds, IsOpen
<1> QED
  BY <1>1, <1>2, <1>3, <1>4, <1>5 DEF Next, Select, Answered, Done

\* A half-open breaker has exactly one call in flight that can settle it; an open
\* or elapsed one has none.  For any number of keys and requests.
THEOREM OneProbeAlways == Spec => []OneProbe
<1>1. Init => OneProbe
  <2>1. Init => \A k \in Keys : KeyInv(k)
    BY DEF Init, KeyInv, Closed
  <2> QED
    BY <2>1, InitType, OneProbeByKey
<1>2. TypeOK /\ TypeOK' /\ OneProbe /\ [Next]_vars => OneProbe'
  <2> SUFFICES ASSUME TypeOK, TypeOK', OneProbe, [Next]_vars PROVE OneProbe'
    OBVIOUS
  <2>1. \A k \in Keys : KeyInv(k)
    BY OneProbeByKey
  <2>2. \A k \in Keys : KeyInv(k)'
    BY <2>1, NextKeyInv
  <2>3. (\A k \in Keys : KeyInv(k))'
    BY <2>2
  <2> QED
    BY <2>3, OneProbeByKey, PTL
<1> QED
  BY <1>1, <1>2, TypeCorrect, PTL DEF Spec

-----------------------------------------------------------------------------
\* No step touches an open breaker, whichever late outcome it reports: the lease
\* of a call in flight is never current on an open key (OneProbe).
THEOREM OpenHoldsAlways == Spec => OpenHolds
<1> DEFINE Holding == \A k \in Keys : IsOpen(k) => /\ openUntil'[k] = openUntil[k]
                                                   /\ probing'[k] = probing[k]
                                                   /\ generation'[k] = generation[k]
<1>1. TypeOK /\ OneProbe /\ [Next]_vars => Holding
  <2> SUFFICES ASSUME TypeOK, OneProbe, [Next]_vars, NEW k \in Keys, IsOpen(k)
               PROVE  /\ openUntil'[k] = openUntil[k]
                      /\ probing'[k] = probing[k]
                      /\ generation'[k] = generation[k]
    OBVIOUS
  <2>1. /\ now \in Nat
        /\ openUntil \in [Keys -> Nat]
        /\ probing \in [Keys -> BOOLEAN]
        /\ generation \in [Keys -> Nat]
    BY DEF TypeOK
  <2>2. \A r \in Requests : pc[r] = "calling" /\ lease[r].key = k => ~Current(r)
    <3>1. KeyInv(k)
      BY OneProbeByKey
    <3>2. openUntil[k] # Closed /\ ~probing[k]
      BY <2>1, <3>1 DEF KeyInv, IsOpen, Closed
    <3> QED
      BY <3>1, <3>2 DEF KeyInv, Holds, Current
  <2>3. ASSUME NEW r \in Requests, Acquire(r)
        PROVE  /\ openUntil'[k] = openUntil[k]
               /\ probing'[k] = probing[k]
               /\ generation'[k] = generation[k]
    <3>1. PICK c \in Keys : /\ IsFirst(c, Candidates(r))
                            /\ \E p : probing' = [probing EXCEPT ![c] = p]
                            /\ \E g : generation' = [generation EXCEPT ![c] = g]
      BY <2>3 DEF Acquire
    <3>2. c # k
      BY <3>1 DEF IsFirst, Candidates, Usable
    <3> QED
      BY <2>1, <2>3, <3>1, <3>2 DEF Acquire
  <2>4. ASSUME NEW r \in Requests, pc[r] = "calling",
               Close(r) \/ \E e \in Failures : ReportFailure(r, e)
        PROVE  /\ openUntil'[k] = openUntil[k]
               /\ probing'[k] = probing[k]
               /\ generation'[k] = generation[k]
    <3>1. lease[r].key \in Keys
      BY <2>4 DEF TypeOK
    <3> QED
      BY <2>1, <2>2, <2>4, <3>1 DEF ReportFailure, Close, ReleaseProbe, Open
  <2> QED
    BY <2>3, <2>4
       DEF Next, Select, Answered, Done, Start, Abandon, Exhaust, Passthrough, Cancel,
           Succeed, Fail, Tick, vars, breaker
<1>2. TypeOK /\ OneProbe /\ [Next]_vars => [Holding]_vars
  BY <1>1
<1> QED
  BY <1>2, TypeCorrect, OneProbeAlways, PTL DEF Spec, OpenHolds

-----------------------------------------------------------------------------
\* A request that looks for a key and has tried one has a failure to return.
TriedFailed ==
  \A r \in Requests : pc[r] \in {"idle", "select"} /\ ~failed[r] => attempted[r] = {}

LEMMA TriedFailedAlways == Spec => []TriedFailed
<1>1. Init => TriedFailed
  BY DEF Init, TriedFailed
<1>2. TypeOK /\ TriedFailed /\ [Next]_vars => TriedFailed'
  <2> SUFFICES ASSUME TypeOK, TriedFailed, [Next]_vars PROVE TriedFailed'
    OBVIOUS
  <2> USE DEF TriedFailed, TypeOK
  <2>1. ASSUME NEW r \in Requests, Start(r) PROVE TriedFailed'
    BY <2>1 DEF Start
  <2>2. ASSUME NEW r \in Requests, Acquire(r) PROVE TriedFailed'
    <3>1. /\ pc' = [pc EXCEPT ![r] = "calling"] /\ failed' = failed
          /\ \A s \in Requests \ {r} : attempted'[s] = attempted[s]
      BY <2>2 DEF Acquire
    <3> QED
      BY <3>1
  <2>3. ASSUME NEW r \in Requests, Abandon(r) \/ Exhaust(r) \/ Passthrough(r) \/ Succeed(r)
        PROVE  TriedFailed'
    BY <2>3 DEF Abandon, Exhaust, Passthrough, Succeed, Return
  <2>4. ASSUME NEW r \in Requests, NEW e \in Failures, Fail(r, e) PROVE TriedFailed'
    <3>1. /\ failed' = [failed EXCEPT ![r] = TRUE] /\ attempted' = attempted
          /\ \A s \in Requests \ {r} : pc'[s] = pc[s]
      BY <2>4 DEF Fail, Return
    <3> QED
      BY <3>1
  <2>5. ASSUME NEW r \in Requests, Cancel(r) PROVE TriedFailed'
    BY <2>5 DEF Cancel
  <2>6. CASE Tick \/ UNCHANGED vars
    BY <2>6 DEF Tick, vars, request
  <2> QED
    BY <2>1, <2>2, <2>3, <2>4, <2>5, <2>6 DEF Next, Select, Answered, Done
<1> QED
  BY <1>1, <1>2, TypeCorrect, PTL DEF Spec

\* What a request is told when it is told "unavailable" is true of every key.
THEOREM UnavailableIsTrueAlways == Spec => UnavailableIsTrue
<1> DEFINE Truthful ==
      \A r \in Requests :
        result[r] # "unavailable" /\ result'[r] = "unavailable" =>
          /\ \A k \in Keys : ~Usable(k)
          /\ retryAfter'[r] > 0
          /\ \A k \in Keys : IsOpen(k) => now + retryAfter'[r] <= openUntil[k]
          /\ \/ \E k \in Keys : IsOpen(k) /\ now + retryAfter'[r] = openUntil[k]
             \/ retryAfter'[r] = DefaultRetry /\ \A k \in Keys : ~IsOpen(k)
<1>1. TypeOK /\ TypeOK' /\ TriedFailed /\ [Next]_vars => Truthful
  <2> SUFFICES ASSUME TypeOK, TypeOK', TriedFailed, [Next]_vars, NEW r \in Requests,
                      result[r] # "unavailable", result'[r] = "unavailable"
               PROVE  /\ \A k \in Keys : ~Usable(k)
                      /\ retryAfter'[r] > 0
                      /\ \A k \in Keys : IsOpen(k) => now + retryAfter'[r] <= openUntil[k]
                      /\ \/ \E k \in Keys : IsOpen(k) /\ now + retryAfter'[r] = openUntil[k]
                         \/ retryAfter'[r] = DefaultRetry /\ \A k \in Keys : ~IsOpen(k)
    OBVIOUS
  <2>1. Exhaust(r) /\ ~failed[r]
    <3>1. ASSUME NEW s \in Requests, Exhaust(s) PROVE s = r /\ ~failed[r]
      BY <3>1 DEF Exhaust, Return, TypeOK
    <3>2. ASSUME NEW s \in Requests,
                 Start(s) \/ Abandon(s) \/ Acquire(s) \/ Passthrough(s) \/ Succeed(s) \/ Cancel(s)
          PROVE  FALSE
      BY <3>2 DEF Start, Abandon, Acquire, Passthrough, Succeed, Cancel, Return, TypeOK
    <3>3. ASSUME NEW s \in Requests, NEW e \in Failures, Fail(s, e) PROVE FALSE
      BY <3>3 DEF Fail, Return, TypeOK
    <3>4. ~Tick /\ ~UNCHANGED vars
      BY DEF Tick, vars, request
    <3> QED
      BY <3>1, <3>2, <3>3, <3>4 DEF Next, Select, Answered, Done
  <2>2. /\ Candidates(r) = {} /\ attempted[r] = {}
        /\ \E wait \in Advice : retryAfter' = [retryAfter EXCEPT ![r] = wait]
    BY <2>1 DEF Exhaust, TriedFailed
  <2>3. \A k \in Keys : ~Usable(k)
    BY <2>2 DEF Candidates
  <2>4. retryAfter'[r] > 0
    BY DEF TypeOK
  <2>5. CASE OpenKeys # {}
    <3>1. PICK j \in Earliest : retryAfter' = [retryAfter EXCEPT ![r] = openUntil[j] - now]
      BY <2>2, <2>5 DEF Advice
    <3>2. j \in Keys /\ IsOpen(j) /\ now \in Nat /\ openUntil[j] \in Nat
      BY <3>1 DEF Earliest, OpenKeys, TypeOK
    <3>3. retryAfter'[r] = openUntil[j] - now
      BY <3>1 DEF TypeOK
    <3>4. now + retryAfter'[r] = openUntil[j]
      BY <3>2, <3>3
    <3>5. \A k \in Keys : IsOpen(k) => openUntil[j] <= openUntil[k]
      BY <3>1 DEF Earliest, OpenKeys
    <3> QED
      BY <2>3, <2>4, <3>2, <3>4, <3>5
  <2>6. CASE OpenKeys = {}
    <3>1. \A k \in Keys : ~IsOpen(k)
      BY <2>6 DEF OpenKeys
    <3>2. retryAfter'[r] = DefaultRetry
      BY <2>2, <2>6 DEF Advice, TypeOK
    <3> QED
      BY <2>3, <2>4, <3>1, <3>2
  <2> QED
    BY <2>5, <2>6
<1>2. TypeOK /\ TypeOK' /\ TriedFailed /\ [Next]_vars => [Truthful]_vars
  BY <1>1
<1> QED
  BY <1>2, TypeCorrect, TriedFailedAlways, PTL DEF Spec, UnavailableIsTrue

-----------------------------------------------------------------------------
(* KeyPool implements Breaker: initial states map to initial states, and every *)
(* step to a step of Breaker or to a stutter.                                  *)

\* A breaker hears the calls that hold a lease of its generation.
HeardFacts == \A k \in Keys : Holders(k) = {s \in Requests : Holds(s, k)}

LEMMA HeardHold == TypeOK => HeardFacts
<1> SUFFICES ASSUME TypeOK, NEW k \in Keys PROVE Holders(k) = {s \in Requests : Holds(s, k)}
  BY DEF HeardFacts
<1>1. \A s \in Requests : s \in Holders(k) <=> Holds(s, k)
  BY DEF Holders, Holds, TypeOK, Leases
<1>2. Holders(k) \subseteq Requests
  BY DEF Holders
<1> QED
  BY <1>1, <1>2

\* A key whose time, flag and holders stay keeps its abstract state and whom it hears.
LEMMA SameKey ==
  ASSUME TypeOK, TypeOK', NEW k \in Keys,
         openUntil'[k] = openUntil[k], probing'[k] = probing[k], IsOpen(k)' <=> IsOpen(k),
         \A s \in Requests : Holds(s, k)' <=> Holds(s, k)
  PROVE  StateOf(k)' = StateOf(k) /\ Holders(k)' = Holders(k)
<1>1. StateOf(k)' = StateOf(k)
  BY DEF StateOf, IsOpen
<1>2. HeardFacts /\ HeardFacts'
  BY HeardHold, PTL
<1>3. Holders(k)' = {s \in Requests : Holds(s, k)'} /\ Holders(k) = {s \in Requests : Holds(s, k)}
  BY <1>2 DEF HeardFacts
<1> QED
  BY <1>1, <1>3

LEMMA InitImplements == Init => Promise!Init
  BY DEF Init, Promise!Init, StateOf, Holders, NoLease

LEMMA ReportImplements ==
  ASSUME TypeOK, TypeOK', OneProbe, OneProbe', NEW r \in Requests, pc[r] = "calling",
         \/ Close(r)
         \/ \E e \in Failures : ReportFailure(r, e),
         now' = now, pc'[r] # "calling",
         lease' = [lease EXCEPT ![r] = NoLease],
         \A s \in Requests \ {r} : pc'[s] = pc[s]
  PROVE  \E k \in Keys : Promise!End(r, k)
<1>0. PICK c \in Keys : c = lease[r].key
  BY DEF TypeOK
<1>1. /\ c \in Keys /\ c = lease[r].key /\ now \in Nat
      /\ openUntil \in [Keys -> Nat]
      /\ probing \in [Keys -> BOOLEAN]
      /\ generation \in [Keys -> Nat]
      /\ lease \in [Requests -> Leases]
  BY <1>0 DEF TypeOK
<1>2. /\ [s \in Requests |-> lease[s].key][r] = c
      /\ [s \in Requests |-> lease'[s].key]
           = [[s \in Requests |-> lease[s].key] EXCEPT ![r] = 0]
  BY <1>1 DEF NoLease
<1>3. \A k \in Keys : ~Holds(r, k)'
  BY DEF Holds
<1>4. \A k \in Keys \ {c} : StateOf(k)' = StateOf(k) /\ Holders(k)' = Holders(k)
  <2> SUFFICES ASSUME NEW k \in Keys \ {c}
               PROVE  StateOf(k)' = StateOf(k) /\ Holders(k)' = Holders(k)
    OBVIOUS
  <2>1. openUntil'[k] = openUntil[k] /\ probing'[k] = probing[k] /\ generation'[k] = generation[k]
    BY <1>1 DEF ReportFailure, Close, ReleaseProbe, Open
  <2>2. \A s \in Requests : Holds(s, k)' <=> Holds(s, k)
    BY <1>1, <1>3, <2>1 DEF Holds
  <2>3. IsOpen(k)' <=> IsOpen(k)
    BY <2>1 DEF IsOpen
  <2> QED
    BY <2>1, <2>2, <2>3, SameKey
<1>5. /\ Holders(c) = {s \in Requests : Holds(s, c)}
      /\ Holders(c)' = {s \in Requests : Holds(s, c)'}
  <2>1. HeardFacts /\ HeardFacts'
    BY HeardHold, PTL
  <2> QED
    BY <2>1 DEF HeardFacts
<1>6. /\ [k \in Keys |-> StateOf(k)'] = [[k \in Keys |-> StateOf(k)] EXCEPT ![c] = StateOf(c)']
      /\ [k \in Keys |-> Holders(k)'] = [[k \in Keys |-> Holders(k)] EXCEPT ![c] = Holders(c)']
  BY <1>4
<1>7. KeyInv(c) /\ KeyInv(c)'
  <2>1. (\A k \in Keys : KeyInv(k)) /\ (\A k \in Keys : KeyInv(k))'
    BY OneProbeByKey, PTL
  <2> QED
    BY <2>1
<1>8. CASE ~Current(r)
  <2>1. UNCHANGED <<openUntil, probing, generation>>
    BY <1>8 DEF ReportFailure, Close, ReleaseProbe, Open
  <2>2. ~Holds(r, c)
    BY <1>1, <1>8 DEF Holds, Current
  <2>3. \A s \in Requests : Holds(s, c)' <=> Holds(s, c)
    BY <1>1, <1>3, <2>1, <2>2 DEF Holds
  <2>4. StateOf(c)' = StateOf(c) /\ Holders(c)' = Holders(c)
    BY <2>1, <2>3, SameKey DEF IsOpen
  <2>5. /\ [k \in Keys |-> StateOf(k)'] = [k \in Keys |-> StateOf(k)]
        /\ [k \in Keys |-> Holders(k)'] = [k \in Keys |-> Holders(k)]
    BY <1>4, <2>4
  <2>6. r \notin [k \in Keys |-> Holders(k)][c]
    BY <1>5, <2>2
  <2>7. Promise!Ignore(r, c)
    BY <1>2, <2>5, <2>6 DEF Promise!Ignore
  <2> QED
    BY <2>7 DEF Promise!End
<1>9. CASE Current(r) /\ probing[c]
  <2>1. Holds(r, c)
    BY <1>1, <1>9 DEF Holds, Current
  <2>2. StateOf(c) = "probing" /\ Holders(c) = {r}
    <3>1. \A s \in Requests : Holds(s, c) <=> s = r
      BY <1>7, <1>9, <2>1 DEF KeyInv
    <3>2. Holders(c) = {r}
      BY <1>5, <3>1
    <3> QED
      BY <1>7, <1>9, <3>2 DEF KeyInv, StateOf
  <2>3. ~probing'[c]
    BY <1>1, <1>9 DEF ReportFailure, Close, ReleaseProbe, Open
  <2>4. StateOf(c)' \in {"closed", "open", "elapsed"}
    BY <2>3 DEF StateOf
  <2>5. Holders(c)' = {}
    <3>1. ASSUME NEW s \in Requests PROVE ~Holds(s, c)'
      <4>1. CASE s = r
        BY <1>3, <4>1
      <4>2. CASE s # r
        <5>1. /\ lease'[s] = lease[s] /\ pc'[s] = pc[s] /\ ~Holds(s, c)
              /\ pc[s] = "calling" /\ lease[s].key = c => lease[s].gen <= generation[c]
          BY <1>1, <1>5, <2>2, <4>2 DEF TypeOK
        <5>2. generation'[c] = generation[c] \/ generation'[c] = generation[c] + 1
          BY <1>1 DEF ReportFailure, Close, ReleaseProbe, Open
        <5>3. lease[s].gen \in Nat /\ generation[c] \in Nat
          BY <1>1 DEF Leases
        <5> QED
          BY <5>1, <5>2, <5>3 DEF Holds
      <4> QED
        BY <4>1, <4>2
    <3> QED
      BY <1>5, <3>1
  <2>6. Promise!Settle(r, c)
    BY <1>2, <1>6, <2>2, <2>4, <2>5 DEF Promise!Settle
  <2> QED
    BY <2>6 DEF Promise!End
<1>10. CASE Current(r) /\ ~probing[c]
  <2>1. Holds(r, c)
    BY <1>1, <1>10 DEF Holds, Current
  <2>2. r \in [k \in Keys |-> Holders(k)][c]
    BY <1>5, <2>1
  <2>3. openUntil[c] = Closed /\ [k \in Keys |-> StateOf(k)][c] = "closed"
    BY <1>7, <1>10, <2>1 DEF KeyInv, StateOf
  <2>4. ~probing'[c]
    BY <1>1, <1>10 DEF ReportFailure, Close, ReleaseProbe, Open
  <2>5. CASE Close(r) \/ ReleaseProbe(r)
    <3>1. openUntil'[c] = Closed /\ generation'[c] = generation[c]
      BY <1>1, <2>3, <2>5 DEF Close, ReleaseProbe
    <3>2. \A s \in Requests \ {r} : Holds(s, c)' <=> Holds(s, c)
      BY <1>1, <3>1 DEF Holds
    <3>3. Holders(c)' = Holders(c) \ {r} /\ StateOf(c)' = StateOf(c)
      <4>1. StateOf(c)' = "closed" /\ StateOf(c) = "closed"
        BY <2>3, <3>1 DEF StateOf
      <4> QED
        BY <1>3, <1>5, <3>2, <4>1
    <3>4. /\ [k \in Keys |-> StateOf(k)'] = [k \in Keys |-> StateOf(k)]
          /\ [k \in Keys |-> Holders(k)'] = [[k \in Keys |-> Holders(k)] EXCEPT ![c] = @ \ {r}]
      BY <1>4, <3>3
    <3>5. Promise!Pass(r, c)
      BY <1>2, <2>2, <2>3, <3>4 DEF Promise!Pass
    <3> QED
      BY <3>5 DEF Promise!End
  <2>6. ASSUME NEW e \in Failures, Open(r, TTL(e)) PROVE Promise!Trip(r, c)
    <3>1. openUntil'[c] = now + TTL(e) /\ generation'[c] = generation[c] + 1
      BY <1>1, <1>10, <2>6 DEF Open
    <3>2. StateOf(c)' = "open"
      BY <1>1, <3>1, TTLPositive DEF IsOpen, StateOf, Closed
    <3>3. Holders(c)' = {}
      <4>1. openUntil'[c] # Closed
        BY <1>1, <3>1, TTLPositive DEF Closed
      <4> QED
        BY <1>5, <1>7, <2>4, <4>1 DEF KeyInv
    <3> QED
      BY <1>2, <1>6, <2>2, <2>3, <3>2, <3>3 DEF Promise!Trip
  <2> QED
    BY <2>5, <2>6 DEF ReportFailure, Promise!End
<1> QED
  BY <1>8, <1>9, <1>10

LEMMA AcquireImplements ==
  ASSUME TypeOK, TypeOK', OneProbe, OneProbe', NEW r \in Requests, Acquire(r)
  PROVE  \E k \in Keys : Promise!Admit(r, k) \/ Promise!Probe(r, k)
<1>1. /\ now \in Nat
      /\ openUntil \in [Keys -> Nat]
      /\ probing \in [Keys -> BOOLEAN]
      /\ generation \in [Keys -> Nat]
      /\ pc \in [Requests -> {"idle", "select", "calling", "passthrough", "done"}]
      /\ lease \in [Requests -> Leases]
  BY DEF TypeOK
<1>2. PICK c \in Keys :
        LET probe == openUntil[c] # Closed
            gen   == IF probe THEN generation[c] + 1 ELSE generation[c]
        IN  /\ IsFirst(c, Candidates(r))
            /\ probing'    = [probing EXCEPT ![c] = probe]
            /\ generation' = [generation EXCEPT ![c] = gen]
            /\ lease'      = [lease EXCEPT ![r] = [key |-> c, gen |-> gen]]
  BY DEF Acquire
<1>3. /\ pc[r] = "select" /\ pc' = [pc EXCEPT ![r] = "calling"]
      /\ openUntil' = openUntil /\ now' = now
  BY DEF Acquire
<1>4. ~probing[c] /\ ~IsOpen(c)
  BY <1>2 DEF IsFirst, Candidates, Usable
<1>5. /\ [s \in Requests |-> lease[s].key][r] = 0
      /\ [s \in Requests |-> lease'[s].key]
           = [[s \in Requests |-> lease[s].key] EXCEPT ![r] = c]
  <2>1. lease[r] = NoLease
    BY <1>3 DEF TypeOK
  <2>2. lease'[r].key = c /\ \A s \in Requests \ {r} : lease'[s] = lease[s]
    BY <1>1, <1>2
  <2>3. lease[r].key = 0
    BY <2>1 DEF NoLease
  <2>4. ASSUME NEW s \in Requests
        PROVE  lease'[s].key = IF s = r THEN c ELSE lease[s].key
    BY <2>2
  <2> QED
    BY <2>3, <2>4
<1>6. \A k \in Keys \ {c} : StateOf(k)' = StateOf(k) /\ Holders(k)' = Holders(k)
  <2> SUFFICES ASSUME NEW k \in Keys \ {c}
               PROVE  StateOf(k)' = StateOf(k) /\ Holders(k)' = Holders(k)
    OBVIOUS
  <2>1. probing'[k] = probing[k] /\ generation'[k] = generation[k]
    BY <1>1, <1>2
  <2>2. ~Holds(r, k) /\ ~Holds(r, k)'
    BY <1>1, <1>2, <1>3 DEF Holds
  <2>3. \A s \in Requests \ {r} : Holds(s, k)' <=> Holds(s, k)
    BY <1>1, <1>2, <1>3, <2>1 DEF Holds
  <2>4. \A s \in Requests : Holds(s, k)' <=> Holds(s, k)
    BY <2>2, <2>3
  <2>5. IsOpen(k)' <=> IsOpen(k)
    BY <1>3 DEF IsOpen
  <2> QED
    BY <1>3, <2>1, <2>4, <2>5, SameKey
<1>7. /\ Holders(c) = {s \in Requests : Holds(s, c)}
      /\ Holders(c)' = {s \in Requests : Holds(s, c)'}
  <2>1. HeardFacts /\ HeardFacts'
    BY HeardHold, PTL
  <2> QED
    BY <2>1 DEF HeardFacts
<1>8. Holds(r, c)' /\ \A s \in Requests \ {r} : pc'[s] = pc[s] /\ lease'[s] = lease[s]
  BY <1>1, <1>2, <1>3 DEF Holds
<1>9. CASE openUntil[c] = Closed
  <2>1. ~probing'[c] /\ StateOf(c) = "closed" /\ StateOf(c)' = "closed" /\ generation'[c] = generation[c]
    BY <1>1, <1>2, <1>3, <1>9 DEF StateOf
  <2>2. \A s \in Requests \ {r} : Holds(s, c)' <=> Holds(s, c)
    BY <1>8, <2>1 DEF Holds
  <2>3. Holders(c)' = Holders(c) \cup {r}
    BY <1>7, <1>8, <2>2
  <2>4. /\ [k \in Keys |-> StateOf(k)'] = [k \in Keys |-> StateOf(k)]
        /\ [k \in Keys |-> Holders(k)'] = [[k \in Keys |-> Holders(k)] EXCEPT ![c] = @ \cup {r}]
    BY <1>6, <2>1, <2>3
  <2>5. Promise!Admit(r, c)
    BY <1>5, <2>1, <2>4 DEF Promise!Admit
  <2> QED
    BY <2>5
<1>10. CASE openUntil[c] # Closed
  <2>1. probing'[c] /\ generation'[c] = generation[c] + 1
    BY <1>1, <1>2, <1>10
  <2>2. StateOf(c) = "elapsed" /\ StateOf(c)' = "probing"
    BY <1>3, <1>4, <1>10, <2>1 DEF StateOf, IsOpen
  <2>3. Holders(c)' = {r}
    <3>1. KeyInv(c)'
      <4>1. (\A k \in Keys : KeyInv(k))'
        BY OneProbeByKey, PTL
      <4> QED
        BY <4>1
    <3>2. \A s \in Requests : Holds(s, c)' <=> s = r
      BY <1>8, <2>1, <3>1 DEF KeyInv
    <3> QED
      BY <1>7, <3>2
  <2>4. /\ [k \in Keys |-> StateOf(k)'] = [[k \in Keys |-> StateOf(k)] EXCEPT ![c] = "probing"]
        /\ [k \in Keys |-> Holders(k)'] = [[k \in Keys |-> Holders(k)] EXCEPT ![c] = {r}]
    BY <1>6, <2>2, <2>3
  <2>5. Promise!Probe(r, c)
    BY <1>5, <2>2, <2>4 DEF Promise!Probe
  <2> QED
    BY <2>5
<1> QED
  BY <1>9, <1>10

LEMMA TickImplements ==
  ASSUME TypeOK, TypeOK', OneProbe, OneProbe', Tick
  PROVE  Promise!Elapse
<1>1. /\ now \in Nat /\ now' = now + 1
      /\ openUntil \in [Keys -> Nat] /\ openUntil' = openUntil
      /\ probing' = probing /\ generation' = generation
      /\ lease' = lease /\ pc' = pc
  BY DEF TypeOK, Tick, breaker, request
<1> DEFINE E == {k \in Keys : IsOpen(k) /\ ~(now' < openUntil[k])}
<1>3. \A k \in Keys : IsOpen(k) => StateOf(k) = "open" /\ ~probing[k]
  <2>1. \A k \in Keys : KeyInv(k)
    BY OneProbeByKey
  <2> QED
    BY <1>1, <2>1 DEF KeyInv, StateOf, IsOpen, Closed
<1>4. \A k \in Keys : StateOf(k)' = IF k \in E THEN "elapsed" ELSE StateOf(k)
  BY <1>1, <1>3 DEF StateOf, IsOpen, Closed
<1>5. \A k \in Keys : Holders(k)' = Holders(k)
  BY <1>1 DEF Holders
<1>6. E \in SUBSET {k \in Keys : [j \in Keys |-> StateOf(j)][k] = "open"}
  BY <1>3
<1>7. [k \in Keys |-> StateOf(k)'] = [k \in Keys |-> IF k \in E THEN "elapsed"
                                                    ELSE [j \in Keys |-> StateOf(j)][k]]
  BY <1>4
<1>8. /\ [k \in Keys |-> Holders(k)'] = [k \in Keys |-> Holders(k)]
      /\ [s \in Requests |-> lease'[s].key] = [s \in Requests |-> lease[s].key]
  BY <1>1, <1>5
<1> QED
  <2> HIDE DEF E
  <2> QED
    BY <1>6, <1>7, <1>8 DEF Promise!Elapse

\* A step that changes neither breakers nor calls is a stutter of Breaker.
LEMMA StutterImplements ==
  ASSUME TypeOK, TypeOK',
         UNCHANGED <<now, openUntil, probing, generation>>,
         \A s \in Requests : /\ pc'[s] = "calling" <=> pc[s] = "calling"
                             /\ lease'[s] = lease[s]
  PROVE  UNCHANGED Promise!vars
<1>1. \A k \in Keys : StateOf(k)' = StateOf(k) /\ Holders(k)' = Holders(k)
  <2> SUFFICES ASSUME NEW k \in Keys PROVE StateOf(k)' = StateOf(k) /\ Holders(k)' = Holders(k)
    OBVIOUS
  <2>1. \A s \in Requests : Holds(s, k)' <=> Holds(s, k)
    BY DEF Holds
  <2>2. IsOpen(k)' <=> IsOpen(k)
    BY DEF IsOpen
  <2> QED
    BY <2>1, <2>2, SameKey
<1>2. /\ [k \in Keys |-> StateOf(k)'] = [k \in Keys |-> StateOf(k)]
      /\ [k \in Keys |-> Holders(k)'] = [k \in Keys |-> Holders(k)]
      /\ [s \in Requests |-> lease'[s].key] = [s \in Requests |-> lease[s].key]
  BY <1>1
<1> QED
  BY <1>2 DEF Promise!vars

\* The pool with its clock, generations and leases implements the breaker promise:
\* a probe is settled by its own request only, an open breaker changes only by
\* elapsing, and an outcome of before it last opened changes nothing, ever.
THEOREM PoolImplementsBreaker == Spec => ImplementsBreaker
<1>1. Init => Promise!Init
  BY InitImplements
<1>2. TypeOK /\ TypeOK' /\ OneProbe /\ OneProbe' /\ [Next]_vars => [Promise!Next]_(Promise!vars)
  <2> SUFFICES ASSUME TypeOK, TypeOK', OneProbe, OneProbe', [Next]_vars
               PROVE  Promise!Next \/ UNCHANGED Promise!vars
    OBVIOUS
  <2>1. ASSUME NEW r \in Requests, Acquire(r) PROVE Promise!Next
    BY <2>1, AcquireImplements DEF Promise!Next
  <2>2. ASSUME NEW r \in Requests, Succeed(r) \/ \E e \in Failures : Fail(r, e)
        PROVE  Promise!Next
    <3>1. /\ pc[r] = "calling" /\ pc'[r] # "calling" /\ now' = now
          /\ Close(r) \/ \E e \in Failures : ReportFailure(r, e)
          /\ lease' = [lease EXCEPT ![r] = NoLease]
          /\ \A s \in Requests \ {r} : pc'[s] = pc[s]
      BY <2>2 DEF Succeed, Fail, Return, TypeOK
    <3> QED
      BY <3>1, ReportImplements DEF Promise!Next
  <2>3. CASE Tick
    BY <2>3, TickImplements DEF Promise!Next
  <2>4. ASSUME NEW r \in Requests, Start(r) \/ Abandon(r) \/ Exhaust(r) \/ Passthrough(r) \/ Cancel(r)
        PROVE  UNCHANGED Promise!vars
    <3>1. /\ UNCHANGED <<now, openUntil, probing, generation>>
          /\ \A s \in Requests : pc'[s] = "calling" <=> pc[s] = "calling"
      BY <2>4 DEF Start, Abandon, Exhaust, Passthrough, Cancel, Return, breaker, TypeOK
    <3>2. lease[r] = NoLease => lease' = lease
      BY <2>4 DEF Start, Abandon, Exhaust, Passthrough, Cancel, Return, TypeOK
    <3>3. lease' = lease
      BY <2>4, <3>2 DEF Start, Abandon, Exhaust, Passthrough, Cancel, TypeOK
    <3> QED
      BY <3>1, <3>3, StutterImplements
  <2>5. CASE UNCHANGED vars
    BY <2>5, StutterImplements DEF vars, breaker, request
  <2> QED
    BY <2>1, <2>2, <2>3, <2>4, <2>5 DEF Next, Select, Answered, Done
<1> QED
  BY <1>1, <1>2, TypeCorrect, OneProbeAlways, PTL DEF Spec, ImplementsBreaker, Promise!Spec
=============================================================================
