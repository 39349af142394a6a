---------------------------- MODULE SharedFetch -----------------------------
(***************************************************************************)
(* What a cache of one upstream lookup promises its callers, without       *)
(* clocks, values or flights.  The cache has a value or not, its last      *)
(* outcome is fresh or not, and a fetch is in the air or not.  The         *)
(* promise:                                                                *)
(*   - a caller is answered at once from a fresh outcome, and from an old  *)
(*     value if the cache serves stale ones;                               *)
(*   - whoever is not answered from a fresh outcome has a fetch made, but  *)
(*     never a second one: those who wait, wait for the one in the air;    *)
(*   - a fetch that lands answers all who wait, and is fresh, failed or    *)
(*     not; only time ends that;                                           *)
(*   - a cache that serves stale values keeps the one it has;              *)
(*   - a caller that leaves takes nothing with it.                         *)
(***************************************************************************)
CONSTANT Callers

VARIABLES
  stale,     \* the cache serves stale values
  has,       \* it has a value
  fresh,     \* its last outcome need not be fetched again yet
  fetching,  \* a fetch is in the air
  at         \* whether each caller is away, waiting, or has got what it asked for

vars == <<stale, has, fresh, fetching, at>>

Init ==
  /\ stale \in BOOLEAN
  /\ has = FALSE /\ fresh = FALSE /\ fetching = FALSE
  /\ at = [c \in Callers |-> "away"]

\* A caller asks: it is answered, or waits; what is not fresh is being fetched from then on.
Ask(c) ==
  /\ at[c] = "away"
  /\ at' = [at EXCEPT ![c] = IF fresh \/ (stale /\ has) THEN "over" ELSE "waiting"]
  /\ fetching' = (fetching \/ ~fresh)
  /\ UNCHANGED <<stale, has, fresh>>

\* A caller gives up, before it asks or while it waits.
Leave(c) ==
  /\ at[c] \in {"away", "waiting"}
  /\ at' = [at EXCEPT ![c] = "over"]
  /\ UNCHANGED <<stale, has, fresh, fetching>>

\* A caller is done with its answer.
Return(c) ==
  /\ at[c] = "over"
  /\ at' = [at EXCEPT ![c] = "away"]
  /\ UNCHANGED <<stale, has, fresh, fetching>>

\* The fetch ends, and with it every wait.
Land ==
  /\ fetching /\ fetching' = FALSE
  /\ fresh' = TRUE
  /\ \E ok \in BOOLEAN : has' = (ok \/ (stale /\ has))
  /\ at' = [c \in Callers |-> IF at[c] = "waiting" THEN "over" ELSE at[c]]
  /\ UNCHANGED stale

\* The outcome has been kept for its time to live.
Expire ==
  /\ fresh /\ fresh' = FALSE
  /\ UNCHANGED <<stale, has, fetching, at>>

\* A cache nobody uses may be thrown away and another one put in its place, where caches
\* are kept in a table of bounded size.
Drop ==
  /\ ~fetching /\ at = [c \in Callers |-> "away"]
  /\ has' = FALSE /\ fresh' = FALSE
  /\ UNCHANGED <<stale, fetching, at>>

Next ==
  \/ \E c \in Callers : Ask(c) \/ Leave(c) \/ Return(c)
  \/ Land \/ Expire

Spec == Init /\ [][Next]_vars
=============================================================================
