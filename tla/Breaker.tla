------------------------------ MODULE Breaker ------------------------------
(***************************************************************************)
(* What the key pool promises of its circuit breakers, without clocks or   *)
(* generations.  A breaker is closed, open, elapsed (its cooldown is over  *)
(* and nobody has tried the key yet) or probing.  Calls may be in flight   *)
(* on a key in every one of those states: they may have started before it  *)
(* opened.  A breaker hears the calls it has admitted since it last        *)
(* opened, and no others.  The promise:                                    *)
(*   - only an open breaker elapses, and nothing else happens to it;       *)
(*   - an elapsed breaker admits one call, its probe, and only the end of  *)
(*     that call settles it;                                               *)
(*   - a closed breaker is opened only by a call it hears;                 *)
(*   - a call it does not hear changes nothing, whenever it ends.          *)
(***************************************************************************)
CONSTANTS Keys, Requests, NoKey

VARIABLES
  state,    \* of each key's breaker
  heard,    \* the calls each breaker hears
  calling   \* the key each request is calling, if any

vars == <<state, heard, calling>>

Init ==
  /\ state   = [k \in Keys |-> "closed"]
  /\ heard   = [k \in Keys |-> {}]
  /\ calling = [r \in Requests |-> NoKey]

\* Request r starts a call on a key whose breaker is closed.
Admit(r, k) ==
  /\ calling[r] = NoKey /\ state[k] = "closed"
  /\ calling' = [calling EXCEPT ![r] = k]
  /\ heard'   = [heard EXCEPT ![k] = @ \cup {r}]
  /\ UNCHANGED state

\* Request r starts the one probe of a key whose cooldown is over.
Probe(r, k) ==
  /\ calling[r] = NoKey /\ state[k] = "elapsed"
  /\ calling' = [calling EXCEPT ![r] = k]
  /\ state'   = [state EXCEPT ![k] = "probing"]
  /\ heard'   = [heard EXCEPT ![k] = {r}]

\* The probe of k ends: the key is healthy, bad again, or still unknown.
Settle(r, k) ==
  /\ calling[r] = k /\ state[k] = "probing" /\ heard[k] = {r}
  /\ calling' = [calling EXCEPT ![r] = NoKey]
  /\ \E s \in {"closed", "open", "elapsed"} : state' = [state EXCEPT ![k] = s]
  /\ heard' = [heard EXCEPT ![k] = {}]

\* A call that the closed breaker of k hears ends, and says nothing against the key.
Pass(r, k) ==
  /\ calling[r] = k /\ state[k] = "closed" /\ r \in heard[k]
  /\ calling' = [calling EXCEPT ![r] = NoKey]
  /\ heard'   = [heard EXCEPT ![k] = @ \ {r}]
  /\ UNCHANGED state

\* It opens the breaker, which forgets the other calls in flight.
Trip(r, k) ==
  /\ calling[r] = k /\ state[k] = "closed" /\ r \in heard[k]
  /\ calling' = [calling EXCEPT ![r] = NoKey]
  /\ state'   = [state EXCEPT ![k] = "open"]
  /\ heard'   = [heard EXCEPT ![k] = {}]

\* A call from before the breaker last opened ends, well or badly.
Ignore(r, k) ==
  /\ calling[r] = k /\ r \notin heard[k]
  /\ calling' = [calling EXCEPT ![r] = NoKey]
  /\ UNCHANGED <<state, heard>>

\* Time passes: some open breakers elapse.
Elapse ==
  /\ \E S \in SUBSET {k \in Keys : state[k] = "open"} :
        state' = [k \in Keys |-> IF k \in S THEN "elapsed" ELSE state[k]]
  /\ UNCHANGED <<heard, calling>>

End(r, k) == Settle(r, k) \/ Pass(r, k) \/ Trip(r, k) \/ Ignore(r, k)

Next ==
  \/ \E r \in Requests, k \in Keys : Admit(r, k) \/ Probe(r, k) \/ End(r, k)
  \/ Elapse

Spec == Init /\ [][Next]_vars
=============================================================================
