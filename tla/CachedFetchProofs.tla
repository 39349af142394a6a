------------------------- MODULE CachedFetchProofs --------------------------
(***************************************************************************)
(* One flight at a time, no answer out of date, no retry before its time,  *)
(* for any number of callers and flights and any times to live.            *)
(*                                                                         *)
(* Flights are numbered in the order they start, and a new one starts only *)
(* when none is in the air: the one in the air, if any, is the last        *)
(* (FlightIsLast).  When it is down, nextRefresh is its landing plus the   *)
(* time its outcome is kept for (Kept), which gives Backoff.  Under        *)
(* serveStale the cache holds the last success (HoldsNewest), without it   *)
(* the last outcome (HoldsLatest); a caller that waits has asked before    *)
(* its flight landed (AskedInTime).                                        *)
(*                                                                         *)
(* The promise of SharedFetch is stated over flights and landings, so its  *)
(* refinement needs the same facts, and that nextRefresh is over while a   *)
(* flight is in the air (Due).                                             *)
(***************************************************************************)
EXTENDS CachedFetch, TLAPS

Outcome == [done : BOOLEAN, value : Nat, err : BOOLEAN]
Kinds   == {"none", "ok", "error", "cancelled"}

Switches == serveStale \in BOOLEAN /\ err \in BOOLEAN /\ hasValue \in BOOLEAN

Typed ==
  /\ Switches
  /\ now \in Nat \ {0} /\ nextRefresh \in Nat
  /\ started \in Nat /\ started <= MaxFlights
  /\ flight \in Nat /\ value \in Nat
  /\ outcome \in [Flights -> Outcome]
  /\ pc \in [Callers -> {"idle", "waiting", "done"}]
  /\ waitsFor \in [Callers -> Nat]
  /\ answer \in [Callers -> [kind : Kinds, value : Nat]]
  /\ finishedAt \in [Flights -> Nat]
  /\ calledAt \in [Callers -> Nat]
  /\ valueThen = [c \in Callers |-> valueThen[c]]

\* The flight in the air is the last one started, and all the others have landed.
FlightIsLast ==
  /\ flight # 0 => flight = started
  /\ \A n \in Flights : ~outcome[n].done <=> (n > started \/ n = flight)

LifeOf(n) == IF outcome[n].err THEN FailureTTL ELSE TTL

\* Between flights the outcome of the last one is kept for its own time to live.
Kept ==
  flight = 0 /\ started # 0 => nextRefresh = finishedAt[started] + LifeOf(started)

\* A success is known by the number of its flight, once that has landed.
Successes ==
  \A n \in Flights : outcome[n].done /\ ~outcome[n].err /\ n <= started => outcome[n].value = n

\* Without serveStale, a cache without an error holds its last success, and for how long.
HoldsLatest ==
  ~serveStale /\ ~err =>
    \/ nextRefresh = 0
    \/ value \in Fetched /\ nextRefresh = finishedAt[value] + TTL

\* With serveStale, it holds the newest value fetched.
HoldsNewest ==
  serveStale =>
    IF hasValue THEN value \in Fetched /\ \A n \in Fetched : n <= value
    ELSE value = 0 /\ Fetched = {}

\* A waiting caller has no answer yet, waits for a flight that was started, and asked
\* before it landed.
AskedInTime ==
  \A c \in Callers :
    /\ pc[c] = "waiting" =>
         /\ answer[c] = NoAnswer
         /\ waitsFor[c] \in 1..started
         /\ calledAt[c] <= now
         /\ outcome[waitsFor[c]].done => calledAt[c] <= finishedAt[waitsFor[c]]
    /\ pc[c] # "done" => answer[c] = NoAnswer

\* What was answered is a landed success, so that its landing is known for good.
Answered ==
  ~serveStale => \A c \in Callers : answer[c].kind = "ok" => answer[c].value \in Fetched

IInv ==
  /\ Typed /\ FlightIsLast /\ Kept /\ Successes
  /\ HoldsLatest /\ HoldsNewest /\ AskedInTime /\ Answered
  /\ NothingExpired /\ StaleIsServed

-----------------------------------------------------------------------------
LEMMA InitIInv == Init => IInv
<1> SUFFICES ASSUME Init PROVE IInv
  OBVIOUS
<1> USE DEF Init, Flights, Pending, NoAnswer
<1>0. Typed
  <2>1. Switches
    BY DEF Switches
  <2>2. now \in Nat \ {0} /\ nextRefresh \in Nat
    OBVIOUS
  <2>3. started \in Nat /\ started <= MaxFlights
    BY BoundsAssumption
  <2> QED
    BY <2>1, <2>2, <2>3 DEF Typed, Outcome, Kinds
<1>1. FlightIsLast /\ Kept /\ Successes
  BY BoundsAssumption DEF FlightIsLast, Kept, Successes
<1>2. Fetched = {}
  BY DEF Fetched
<1>3. HoldsLatest /\ HoldsNewest /\ AskedInTime /\ Answered
  BY <1>2 DEF HoldsLatest, HoldsNewest, AskedInTime, Answered
<1>4. NothingExpired /\ StaleIsServed
  BY DEF NothingExpired, StaleIsServed
<1> QED
  BY <1>0, <1>1, <1>3, <1>4 DEF IInv

\* The newest value fetched is the one the cache holds under serveStale.
LEMMA NewestIsHeld ==
  ASSUME Typed, HoldsNewest, serveStale
  PROVE  Newest = value /\ (Newest # 0 => hasValue)
<1>1. CASE hasValue
  <2>1. value \in Fetched /\ \A n \in Fetched : n <= value
    BY <1>1 DEF HoldsNewest
  <2>2. \A m \in Fetched : (\A n \in Fetched : n <= m) => m = value
    <3>1. Fetched \subseteq Nat
      BY DEF Fetched, Typed
    <3> QED
      BY <2>1, <3>1
  <2> QED
    BY <1>1, <2>1, <2>2 DEF Newest
<1>2. CASE ~hasValue
  BY <1>2 DEF HoldsNewest, Newest
<1> QED
  BY <1>1, <1>2 DEF Typed

LEMMA SwitchesStep == ASSUME Switches, [Next]_vars PROVE Switches'
<1>1. CASE \E ok \in BOOLEAN : Land(ok)
  BY <1>1 DEF Switches, Land, Store
<1>2. CASE UNCHANGED <<serveStale, err, hasValue>>
  BY <1>2 DEF Switches
<1>3. ASSUME NEW c \in Callers, Hit(c) \/ Miss(c) \/ Wake(c) \/ Abandon(c) \/ Again(c)
      PROVE  UNCHANGED <<serveStale, err, hasValue>>
  BY <1>3 DEF Hit, Miss, Wake, Abandon, Again, cache
<1>4. Tick \/ UNCHANGED vars => UNCHANGED <<serveStale, err, hasValue>>
  BY DEF Tick, vars, cache
<1> QED
  BY <1>1, <1>2, <1>3, <1>4 DEF Next

\* The typing of a step, action by action.
LEMMA TypedStep == ASSUME Typed, FlightIsLast, AskedInTime, [Next]_vars PROVE Typed'
<1>0. Switches'
  BY SwitchesStep DEF Typed
<1> USE <1>0 DEF Typed
<1>1. ASSUME NEW c \in Callers, Hit(c) PROVE Typed'
  <2> DEFINE a == [kind |-> IF err THEN "error" ELSE "ok", value |-> value]
  <2>1. a \in [kind : Kinds, value : Nat]
    BY DEF Kinds
  <2>2. answer' = [answer EXCEPT ![c] = a]
    BY <1>1 DEF Hit, Answer
  <2> QED
    BY <1>1, <2>1, <2>2 DEF Hit, Enter, Answer, cache
<1>2. ASSUME NEW c \in Callers, Miss(c) PROVE Typed'
  <2>1. flight' \in Nat /\ started' \in Nat /\ started' <= MaxFlights
    BY <1>2, BoundsAssumption DEF Miss, Launch
  <2>2. answer' \in [Callers -> [kind : Kinds, value : Nat]]
    BY <1>2 DEF Miss, Answer, Kinds
  <2>3. /\ pc' \in [Callers -> {"idle", "waiting", "done"}]
        /\ waitsFor' \in [Callers -> Nat]
    BY <1>2, <2>1 DEF Miss, Answer
  <2>4. calledAt' \in [Callers -> Nat] /\ valueThen' = [d \in Callers |-> valueThen'[d]]
    BY <1>2 DEF Miss, Enter
  <2>5. UNCHANGED <<now, value, nextRefresh, outcome, finishedAt>>
    BY <1>2 DEF Miss
  <2> QED
    BY <2>1, <2>2, <2>3, <2>4, <2>5
<1>3. ASSUME NEW c \in Callers, Wake(c) PROVE Typed'
  <2> DEFINE o == outcome[waitsFor[c]]
             a == [kind |-> IF o.err THEN "error" ELSE "ok", value |-> o.value]
  <2>1. /\ pc' = [pc EXCEPT ![c] = "done"] /\ answer' = [answer EXCEPT ![c] = a]
        /\ UNCHANGED <<serveStale, now, cache, waitsFor, history>>
    BY <1>3 DEF Wake, Answer
  <2>2. waitsFor[c] \in Flights
    BY <1>3, BoundsAssumption DEF Wake, AskedInTime, Flights
  <2>3. o.value \in Nat
    BY <2>2 DEF Outcome
  <2>4. a \in [kind : Kinds, value : Nat]
    BY <2>3 DEF Kinds
  <2> HIDE DEF a
  <2> QED
    BY <2>1, <2>4 DEF cache, history
<1>4. ASSUME NEW c \in Callers, Abandon(c) PROVE Typed'
  BY <1>4 DEF Abandon, Enter, cache, Kinds
<1>5. ASSUME NEW c \in Callers, Again(c) PROVE Typed'
  BY <1>5 DEF Again, cache, NoAnswer, Kinds
<1>6. ASSUME NEW ok \in BOOLEAN, Land(ok) PROVE Typed'
  <2>1. value' \in Nat /\ nextRefresh' \in Nat
    BY <1>6, PolicyAssumption DEF Land, Store
  <2>2. flight \in Flights
    BY <1>6, BoundsAssumption DEF Land, FlightIsLast, Flights
  <2>3. [done |-> TRUE, value |-> value', err |-> ~ok] \in Outcome
    BY <2>1 DEF Outcome
  <2>4. outcome' \in [Flights -> Outcome]
    BY <1>6, <2>3 DEF Land, Publish
  <2>5. finishedAt' \in [Flights -> Nat] /\ flight' \in Nat
    BY <1>6 DEF Land
  <2> QED
    BY <1>6, <2>1, <2>4, <2>5 DEF Land, callers
<1>7. CASE Tick
  BY <1>7 DEF Tick, cache, callers, history
<1>8. CASE UNCHANGED vars
  BY <1>8 DEF vars, cache, callers, history
<1> QED
  BY <1>1, <1>2, <1>3, <1>4, <1>5, <1>6, <1>7, <1>8 DEF Next

-----------------------------------------------------------------------------
(* The cache. *)

\* Only a miss that starts a flight, and a landing, change the cache.
Quiet == UNCHANGED <<serveStale, cache, finishedAt>>

Starts ==
  /\ flight = 0 /\ ~Fresh
  /\ started < MaxFlights /\ started' = started + 1 /\ flight' = started + 1
  /\ UNCHANGED <<serveStale, now, value, err, hasValue, nextRefresh, outcome, finishedAt>>

LEMMA CacheSteps ==
  ASSUME [Next]_vars PROVE Quiet \/ Starts \/ \E ok \in BOOLEAN : Land(ok)
<1>1. ASSUME NEW c \in Callers, Hit(c) \/ Wake(c) \/ Abandon(c) \/ Again(c) PROVE Quiet
  BY <1>1 DEF Hit, Wake, Abandon, Again, Quiet, history
<1>2. ASSUME NEW c \in Callers, Miss(c) PROVE Quiet \/ Starts
  BY <1>2 DEF Miss, Launch, Quiet, Starts, cache
<1>3. Tick \/ UNCHANGED vars => Quiet
  BY DEF Tick, vars, Quiet, history
<1> QED
  BY <1>1, <1>2, <1>3 DEF Next

\* What a landing does, written out.
Landed(ok) ==
  /\ flight \in Flights /\ flight = started /\ ~outcome[flight].done
  /\ IF ok \/ ~serveStale
     THEN value' = (IF ok THEN flight ELSE 0) /\ hasValue' = ok
     ELSE value' = value /\ hasValue' = hasValue
  /\ err' = ~ok
  /\ nextRefresh' = now + (IF ok THEN TTL ELSE FailureTTL)
  /\ outcome'[flight].done /\ outcome'[flight].value = value' /\ outcome'[flight].err = ~ok
  /\ \A n \in Flights \ {flight} : outcome'[n] = outcome[n] /\ finishedAt'[n] = finishedAt[n]
  /\ finishedAt'[flight] = now
  /\ flight' = 0 /\ UNCHANGED <<serveStale, now, started, callers, calledAt, valueThen>>

LEMMA LandedByLand ==
  ASSUME Typed, FlightIsLast, NEW ok \in BOOLEAN, Land(ok) PROVE Landed(ok)
<1>1. flight \in Flights /\ flight = started
  BY BoundsAssumption DEF Land, Typed, FlightIsLast, Flights
<1>2. ~outcome[flight].done
  BY <1>1 DEF FlightIsLast
<1>3. outcome' = [outcome EXCEPT ![flight] = [done |-> TRUE, value |-> value', err |-> ~ok]]
  BY DEF Land, Publish
<1>4. finishedAt' = [finishedAt EXCEPT ![flight] = now]
  BY DEF Land
<1>5. /\ outcome'[flight].done /\ outcome'[flight].value = value' /\ outcome'[flight].err = ~ok
      /\ \A n \in Flights \ {flight} : outcome'[n] = outcome[n] /\ finishedAt'[n] = finishedAt[n]
      /\ finishedAt'[flight] = now
  BY <1>1, <1>3, <1>4 DEF Typed
<1> QED
  BY <1>1, <1>2, <1>5 DEF Land, Landed, Store

LEMMA FlightStep ==
  ASSUME Typed, FlightIsLast, Kept, Successes, [Next]_vars
  PROVE  FlightIsLast' /\ Kept' /\ Successes'
<1>1. CASE Quiet
  BY <1>1 DEF Quiet, cache, FlightIsLast, Kept, Successes, LifeOf
<1>2. CASE Starts
  <2>1. started' = started + 1 /\ flight' = started' /\ outcome' = outcome
    BY <1>2 DEF Starts
  <2>2. FlightIsLast' /\ Kept'
    BY <1>2, <2>1 DEF Starts, FlightIsLast, Kept, Typed, Flights
  <2>3. \A n \in Flights : outcome[n].done => n <= started
    BY DEF FlightIsLast, Typed, Flights
  <2>4. Successes'
    BY <2>1, <2>3 DEF Successes
  <2> QED
    BY <2>2, <2>4
<1>3. ASSUME NEW ok \in BOOLEAN, Land(ok) PROVE FlightIsLast' /\ Kept' /\ Successes'
  <2>1. Landed(ok)
    BY <1>3, LandedByLand
  <2>2. FlightIsLast'
    <3>1. ASSUME NEW n \in Flights PROVE ~outcome'[n].done <=> n > started
      <4>1. CASE n = flight
        BY <2>1, <4>1 DEF Landed, Typed
      <4>2. CASE n # flight
        <5>1. outcome'[n] = outcome[n]
          BY <2>1, <4>2 DEF Landed
        <5> QED
          BY <4>2, <5>1 DEF FlightIsLast
      <4> QED
        BY <4>1, <4>2
    <3>2. flight' = 0 /\ started' = started /\ 0 \notin Flights
      BY <2>1 DEF Landed, Flights
    <3> QED
      BY <3>1, <3>2 DEF FlightIsLast
  <2>3. Kept'
    BY <2>1 DEF Landed, Kept, LifeOf
  <2>4. ok => value' = flight
    BY <2>1 DEF Landed
  <2>5. Successes'
    BY <2>1, <2>4 DEF Landed, Successes
  <2> QED
    BY <2>2, <2>3, <2>5
<1> QED
  BY <1>1, <1>2, <1>3, CacheSteps

\* A landed success stays one; its landing is not forgotten.
LEMMA FetchedStay ==
  ASSUME Typed, FlightIsLast, [Next]_vars, NEW n \in Fetched
  PROVE  n \in Fetched' /\ finishedAt'[n] = finishedAt[n] /\ n \in Nat
<1>1. n \in Flights /\ n <= started /\ outcome[n].done /\ ~outcome[n].err /\ n \in Nat
  BY BoundsAssumption DEF Fetched, Typed, Flights
<1>2. CASE Quiet
  BY <1>1, <1>2 DEF Quiet, cache, Fetched
<1>3. CASE Starts
  BY <1>1, <1>3 DEF Starts, Fetched, Typed
<1>4. ASSUME NEW ok \in BOOLEAN, Land(ok) PROVE n \in Fetched' /\ finishedAt'[n] = finishedAt[n]
  <2>1. Landed(ok)
    BY <1>4, LandedByLand
  <2>2. n # flight /\ outcome'[n] = outcome[n] /\ finishedAt'[n] = finishedAt[n]
    BY <1>1, <2>1 DEF Landed
  <2> QED
    BY <1>1, <2>1, <2>2 DEF Landed, Fetched, Typed
<1> QED
  BY <1>1, <1>2, <1>3, <1>4, CacheSteps

\* A step adds the flight that lands well to them, and no other.
LEMMA FetchedStep ==
  ASSUME Typed, FlightIsLast, [Next]_vars
  PROVE  \/ Fetched' = Fetched /\ (Quiet \/ Starts \/ Landed(FALSE))
         \/ Fetched' = Fetched \cup {flight} /\ Landed(TRUE)
<1>1. CASE Quiet
  BY <1>1 DEF Quiet, cache, Fetched
<1>2. CASE Starts
  <2> DEFINE next == started + 1
  <2>1. /\ next \in Flights /\ next > started /\ 1..next = (1..started) \cup {next}
        /\ started' = next /\ outcome' = outcome
    BY <1>2, BoundsAssumption DEF Starts, Typed, Flights
  <2>2. ~outcome[next].done
    BY <2>1 DEF FlightIsLast
  <2> QED
    BY <1>2, <2>1, <2>2 DEF Fetched
<1>3. ASSUME NEW ok \in BOOLEAN, Land(ok)
      PROVE  /\ Landed(ok)
             /\ IF ok THEN Fetched' = Fetched \cup {flight} ELSE Fetched' = Fetched
  <2>1. Landed(ok)
    BY <1>3, LandedByLand
  <2>2. \A n \in 1..started : n \in Flights
    BY BoundsAssumption DEF Typed, Flights
  <2>3. ASSUME NEW n \in 1..started PROVE n \in Fetched' <=> (n \in Fetched \/ (n = flight /\ ok))
    <3>1. n \in Fetched' <=> outcome'[n].done /\ ~outcome'[n].err
      BY <2>1 DEF Landed, Fetched
    <3>2. CASE n = flight
      BY <2>1, <3>1, <3>2 DEF Landed, Fetched
    <3>3. CASE n # flight
      BY <2>1, <2>2, <3>1, <3>3 DEF Landed, Fetched
    <3> QED
      BY <3>2, <3>3
  <2>4. flight \in 1..started /\ Fetched \subseteq 1..started /\ Fetched' \subseteq 1..started
    BY <2>1 DEF Landed, Fetched, Flights
  <2>5. ok => Fetched' = Fetched \cup {flight}
    BY <2>3, <2>4
  <2>6. ~ok => Fetched' = Fetched
    BY <2>3, <2>4
  <2> QED
    BY <2>1, <2>5, <2>6
<1> QED
  BY <1>1, <1>2, <1>3, CacheSteps

LEMMA HoldsStep ==
  ASSUME Typed, FlightIsLast, HoldsLatest, HoldsNewest, [Next]_vars
  PROVE  HoldsLatest' /\ HoldsNewest'
<1>1. CASE Fetched' = Fetched /\ (Quiet \/ Starts)
  <2>1. UNCHANGED <<serveStale, value, err, hasValue, nextRefresh, finishedAt>>
    BY <1>1 DEF Quiet, Starts, cache
  <2> QED
    BY <1>1, <2>1 DEF HoldsLatest, HoldsNewest
<1>2. CASE Fetched' = Fetched /\ Landed(FALSE)
  BY <1>2 DEF Landed, HoldsLatest, HoldsNewest
<1>3. CASE Fetched' = Fetched \cup {flight} /\ Landed(TRUE)
  <2>1. \A n \in Fetched : n \in Nat /\ n <= flight
    BY <1>3 DEF Fetched, Landed, Typed
  <2> QED
    BY <1>3, <2>1 DEF Landed, HoldsLatest, HoldsNewest, Typed
<1> QED
  BY <1>1, <1>2, <1>3, FetchedStep

-----------------------------------------------------------------------------
(* The callers. *)

Still(c) ==
  /\ pc'[c] = pc[c] /\ answer'[c] = answer[c] /\ waitsFor'[c] = waitsFor[c]
  /\ calledAt'[c] = calledAt[c] /\ valueThen'[c] = valueThen[c]

Mine(c) == Hit(c) \/ Miss(c) \/ Wake(c) \/ Abandon(c) \/ Again(c)

LEMMA CallerSteps ==
  ASSUME Typed, [Next]_vars, NEW c \in Callers PROVE Still(c) \/ Mine(c)
<1>1. ASSUME NEW d \in Callers, Mine(d), d # c PROVE Still(c)
  <2>1. CASE Hit(d) \/ Miss(d)
    BY <1>1, <2>1 DEF Hit, Miss, Enter, Answer, Still, Typed
  <2>2. CASE Wake(d)
    BY <1>1, <2>2 DEF Wake, Answer, history, Still, Typed
  <2>3. CASE Abandon(d) \/ Again(d)
    BY <1>1, <2>3 DEF Abandon, Again, Enter, Still, Typed
  <2> QED
    BY <1>1, <2>1, <2>2, <2>3 DEF Mine
<1>2. ASSUME NEW ok \in BOOLEAN, Land(ok) PROVE Still(c)
  BY <1>2 DEF Land, callers, Still
<1>3. Tick \/ UNCHANGED vars => Still(c)
  BY DEF Tick, vars, callers, history, Still
<1> QED
  BY <1>1, <1>2, <1>3 DEF Next, Mine

\* The caller's new state, when the step is its own.
LEMMA MineSteps ==
  ASSUME Typed, NEW c \in Callers, Mine(c)
  PROVE  /\ UNCHANGED <<serveStale, now, value, err, hasValue, nextRefresh, outcome, finishedAt>>
         /\ \/ /\ pc'[c] = "done" /\ Fresh
               /\ answer'[c] = [kind |-> IF err THEN "error" ELSE "ok", value |-> value]
               /\ calledAt'[c] = now /\ valueThen'[c] = Newest
            \/ /\ pc'[c] = "done" /\ MayServeStale
               /\ answer'[c] = [kind |-> "ok", value |-> value]
               /\ calledAt'[c] = now /\ valueThen'[c] = Newest
            \/ /\ pc[c] = "idle" /\ pc'[c] = "waiting" /\ ~MayServeStale /\ Launch
               /\ waitsFor'[c] = flight' /\ answer'[c] = answer[c]
               /\ calledAt'[c] = now /\ valueThen'[c] = Newest
            \/ LET o == outcome[waitsFor[c]]
               IN /\ pc[c] = "waiting" /\ pc'[c] = "done" /\ o.done
                  /\ answer'[c] = [kind |-> IF o.err THEN "error" ELSE "ok", value |-> o.value]
                  /\ calledAt'[c] = calledAt[c] /\ valueThen'[c] = valueThen[c]
            \/ pc'[c] = "done" /\ answer'[c] = [kind |-> "cancelled", value |-> 0]
            \/ pc'[c] = "idle" /\ answer'[c] = NoAnswer /\ valueThen'[c] = 0
<1> USE DEF Typed
<1>1. CASE Hit(c)
  BY <1>1 DEF Hit, Enter, Answer, cache
<1>2. CASE Miss(c)
  BY <1>2 DEF Miss, Enter, Answer
<1>3. CASE Wake(c)
  BY <1>3 DEF Wake, Answer, cache, history
<1>4. CASE Abandon(c)
  BY <1>4 DEF Abandon, cache
<1>5. CASE Again(c)
  BY <1>5 DEF Again, cache
<1> QED
  BY <1>1, <1>2, <1>3, <1>4, <1>5 DEF Mine

LEMMA AskedStep ==
  ASSUME Typed, Typed', FlightIsLast, AskedInTime, [Next]_vars PROVE AskedInTime'
<1> SUFFICES ASSUME NEW c \in Callers
    PROVE /\ pc'[c] = "waiting" =>
              /\ answer'[c] = NoAnswer
              /\ waitsFor'[c] \in 1..started'
              /\ calledAt'[c] <= now'
              /\ outcome'[waitsFor'[c]].done => calledAt'[c] <= finishedAt'[waitsFor'[c]]
          /\ pc'[c] # "done" => answer'[c] = NoAnswer
  BY DEF AskedInTime, NoAnswer
<1>1. CASE Still(c)
  <2>1. pc'[c] # "done" => answer'[c] = NoAnswer
    BY <1>1 DEF Still, AskedInTime
  <2> SUFFICES ASSUME pc[c] = "waiting"
      PROVE /\ waitsFor[c] \in 1..started'
            /\ calledAt[c] <= now'
            /\ outcome'[waitsFor[c]].done => calledAt[c] <= finishedAt'[waitsFor[c]]
    BY <1>1, <2>1 DEF Still
  <2>2. /\ waitsFor[c] \in 1..started /\ waitsFor[c] \in Flights /\ calledAt[c] <= now
        /\ outcome[waitsFor[c]].done => calledAt[c] <= finishedAt[waitsFor[c]]
    BY BoundsAssumption DEF AskedInTime, Typed, Flights
  <2>3. started' >= started /\ now' >= now
    <3>1. started' = started \/ started' = started + 1
      BY CacheSteps DEF Quiet, Starts, Land, cache
    <3>2. ASSUME NEW ok \in BOOLEAN, Land(ok) PROVE now' = now
      BY <3>2 DEF Land
    <3>3. ASSUME NEW d \in Callers, Mine(d) PROVE now' = now
      BY <3>3, MineSteps
    <3>4. now' = now \/ now' = now + 1
      BY <3>2, <3>3 DEF Next, Mine, Tick, vars
    <3> QED
      BY <3>1, <3>4 DEF Typed
  <2>4. outcome'[waitsFor[c]].done => calledAt[c] <= finishedAt'[waitsFor[c]]
    BY <2>2, FetchedStep, CacheSteps, LandedByLand DEF Quiet, Starts, Landed, cache
  <2> QED
    BY <2>2, <2>3, <2>4 DEF Typed
<1>2. CASE Mine(c)
  <2>1. pc'[c] # "done" => answer'[c] = NoAnswer
    BY <1>2, MineSteps DEF AskedInTime
  <2>2. ASSUME pc'[c] = "waiting"
        PROVE  /\ waitsFor'[c] \in 1..started' /\ calledAt'[c] <= now'
               /\ ~outcome'[waitsFor'[c]].done
    <3>1. /\ Launch /\ waitsFor'[c] = flight' /\ calledAt'[c] = now /\ now' = now /\ outcome' = outcome
      BY <1>2, <2>2, MineSteps
    <3>2. CASE flight # 0
      BY <3>1, <3>2, BoundsAssumption DEF Launch, FlightIsLast, Typed, Flights
    <3>3. CASE flight = 0
      <4>1. started' = started + 1 /\ flight' = started' /\ started + 1 \in Flights
        BY <3>1, <3>3, BoundsAssumption DEF Launch, Typed, Flights
      <4>2. ~outcome[started + 1].done
        BY <4>1 DEF FlightIsLast, Typed
      <4> QED
        BY <3>1, <4>1, <4>2 DEF Typed
    <3> QED
      BY <3>2, <3>3
  <2> QED
    BY <2>1, <2>2
<1> QED
  BY <1>1, <1>2, CallerSteps

LEMMA AnsweredStep ==
  ASSUME Typed, FlightIsLast, Successes, HoldsLatest, AskedInTime, Answered, NothingExpired,
         [Next]_vars
  PROVE  Answered' /\ NothingExpired'
<1>0. serveStale' = serveStale
  BY CacheSteps DEF Quiet, Starts, Land
<1> SUFFICES ASSUME ~serveStale, NEW c \in Callers, answer'[c].kind = "ok"
    PROVE  answer'[c].value \in Fetched' /\ calledAt'[c] < finishedAt'[answer'[c].value] + TTL
  BY <1>0 DEF Answered, NothingExpired
<1>1. CASE Still(c)
  <2>1. answer[c].value \in Fetched /\ calledAt[c] < finishedAt[answer[c].value] + TTL
    BY <1>1 DEF Still, Answered, NothingExpired
  <2> QED
    BY <1>1, <2>1, FetchedStay DEF Still
<1>2. CASE Mine(c)
  <2> DEFINE w == waitsFor[c]
  <2>1. CASE Fresh /\ answer'[c] = [kind |-> IF err THEN "error" ELSE "ok", value |-> value]
             /\ calledAt'[c] = now
    <3>1. ~err
      BY <2>1
    <3>2. value \in Fetched /\ nextRefresh = finishedAt[value] + TTL
      BY <2>1, <3>1 DEF HoldsLatest, Fresh, Typed
    <3> QED
      BY <2>1, <3>2, FetchedStay DEF Fresh
  <2>2. CASE /\ pc[c] = "waiting" /\ outcome[w].done /\ calledAt'[c] = calledAt[c]
             /\ answer'[c] = [kind |-> IF outcome[w].err THEN "error" ELSE "ok", value |-> outcome[w].value]
    <3>1. w \in 1..started /\ w \in Flights /\ calledAt[c] <= finishedAt[w]
      BY <2>2, BoundsAssumption DEF AskedInTime, Typed, Flights
    <3>2. ~outcome[w].err
      BY <2>2
    <3>3. outcome[w].value = w /\ w \in Fetched
      BY <2>2, <3>1, <3>2 DEF Successes, Fetched, Typed
    <3>4. calledAt[c] < finishedAt[w] + TTL
      <4>1. finishedAt[w] \in Nat /\ calledAt[c] \in Nat
        BY <3>1 DEF Typed
      <4>2. TTL \in Nat /\ TTL > 0
        BY PolicyAssumption
      <4> HIDE DEF w
      <4> QED
        BY <3>1, <4>1, <4>2
    <3> QED
      BY <2>2, <3>3, <3>4, FetchedStay
  <2>3. CASE pc[c] = "idle" /\ answer'[c] = answer[c]
    BY <2>3 DEF AskedInTime, NoAnswer
  <2> QED
    BY <1>2, <2>1, <2>2, <2>3, MineSteps DEF MayServeStale, NoAnswer
<1> QED
  BY <1>1, <1>2, CallerSteps

LEMMA StaleStep ==
  ASSUME Typed, HoldsNewest, AskedInTime, StaleIsServed, [Next]_vars PROVE StaleIsServed'
<1>0. serveStale' = serveStale
  BY CacheSteps DEF Quiet, Starts, Land
<1> SUFFICES ASSUME serveStale, NEW c \in Callers, valueThen'[c] # 0, answer'[c].kind # "cancelled"
    PROVE  pc'[c] # "waiting" /\ (pc'[c] = "done" => answer'[c].value >= valueThen'[c])
  BY <1>0 DEF StaleIsServed
<1>1. CASE Still(c)
  BY <1>1 DEF Still, StaleIsServed
<1>2. CASE Mine(c)
  <2>1. Newest = value /\ (Newest # 0 => hasValue) /\ value \in Nat
    BY NewestIsHeld DEF Typed
  <2>2. pc[c] = "waiting" => valueThen[c] = 0
    BY DEF StaleIsServed, AskedInTime, NoAnswer
  <2>3. CASE pc'[c] = "done" /\ answer'[c].value = value /\ valueThen'[c] = Newest
    BY <2>1, <2>3
  <2>4. CASE ~MayServeStale /\ valueThen'[c] = Newest
    BY <2>1, <2>4 DEF MayServeStale
  <2>5. CASE pc[c] = "waiting" /\ valueThen'[c] = valueThen[c]
    BY <2>2, <2>5
  <2>6. \/ pc'[c] = "done" /\ answer'[c].value = value /\ valueThen'[c] = Newest
        \/ ~MayServeStale /\ valueThen'[c] = Newest
        \/ pc[c] = "waiting" /\ valueThen'[c] = valueThen[c]
        \/ answer'[c].kind = "cancelled"
        \/ valueThen'[c] = 0
    <3>1. Hit(c) => pc'[c] = "done" /\ answer'[c].value = value /\ valueThen'[c] = Newest
      BY DEF Hit, Enter, Answer, Typed
    <3>2. Miss(c) /\ MayServeStale => pc'[c] = "done" /\ answer'[c].value = value /\ valueThen'[c] = Newest
      BY DEF Miss, Enter, Answer, Typed
    <3>3. Miss(c) => valueThen'[c] = Newest
      BY DEF Miss, Enter, Typed
    <3>4. Wake(c) => pc[c] = "waiting" /\ valueThen'[c] = valueThen[c]
      BY DEF Wake, history
    <3>5. Abandon(c) => answer'[c].kind = "cancelled"
      BY DEF Abandon, Typed
    <3>6. Again(c) => valueThen'[c] = 0
      BY DEF Again, Typed
    <3> QED
      BY <1>2, <3>1, <3>2, <3>3, <3>4, <3>5, <3>6 DEF Mine
  <2> QED
    BY <2>3, <2>4, <2>5, <2>6
<1> QED
  BY <1>1, <1>2, CallerSteps

LEMMA Inductive == Spec => []IInv
<1>1. IInv /\ [Next]_vars => IInv'
  <2> SUFFICES ASSUME IInv, [Next]_vars PROVE IInv'
    OBVIOUS
  <2> USE DEF IInv
  <2>1. Typed'
    BY TypedStep
  <2>2. FlightIsLast' /\ Kept' /\ Successes'
    BY FlightStep
  <2>3. HoldsLatest' /\ HoldsNewest'
    BY HoldsStep
  <2>4. AskedInTime'
    BY <2>1, AskedStep
  <2>5. Answered' /\ NothingExpired' /\ StaleIsServed'
    BY AnsweredStep, StaleStep
  <2> QED
    BY <2>1, <2>2, <2>3, <2>4, <2>5
<1> QED
  BY <1>1, InitIInv, PTL DEF Spec

-----------------------------------------------------------------------------
\* Concurrent callers share one fetch: the flights in the air are exactly the one the
\* cache knows of, for any number of callers that come, leave and come back.
THEOREM OneFlightAlways == Spec => []OneFlight
<1>1. IInv => OneFlight
  <2> SUFFICES ASSUME IInv PROVE OneFlight
    OBVIOUS
  <2>1. 1..started \subseteq Flights
    BY BoundsAssumption DEF IInv, Typed, Flights
  <2>2. \A n \in 1..started : ~outcome[n].done <=> n = flight
    BY <2>1 DEF IInv, FlightIsLast, Typed
  <2>3. flight # 0 => flight \in 1..started
    BY DEF IInv, FlightIsLast, Typed
  <2> QED
    BY <2>2, <2>3 DEF OneFlight
<1> QED
  BY <1>1, Inductive, PTL

\* No answer is older than its policy allows, whatever lands between the question and
\* the answer.
THEOREM AnswersAreCurrentAlways == Spec => []AnswersAreCurrent
<1>1. IInv => AnswersAreCurrent
  BY DEF IInv, AnswersAreCurrent
<1> QED
  BY <1>1, Inductive, PTL

\* A flight starts only after the one before it has landed and its outcome has been kept
\* for its time to live.
THEOREM BackoffAlways == Spec => Backoff
<1> DEFINE Waits ==
      started' # started =>
        started = 0 \/
          /\ outcome[started].done
          /\ now >= finishedAt[started] + (IF outcome[started].err THEN FailureTTL ELSE TTL)
<1>1. IInv /\ [Next]_vars => Waits
  <2> SUFFICES ASSUME IInv, [Next]_vars, started' # started, started # 0 PROVE Waits
    OBVIOUS
  <2>1. flight = 0 /\ ~Fresh
    BY CacheSteps DEF Quiet, Starts, Land, cache
  <2>2. started \in Flights /\ outcome[started].done
    BY <2>1, BoundsAssumption DEF IInv, Typed, FlightIsLast, Flights
  <2>3. nextRefresh = finishedAt[started] + LifeOf(started) /\ now >= nextRefresh
    BY <2>1 DEF IInv, Kept, Fresh, Typed
  <2> QED
    BY <2>2, <2>3 DEF LifeOf
<1> QED
  BY <1>1, Inductive, PTL DEF Spec, Backoff

-----------------------------------------------------------------------------
(* The cache keeps the promise of SharedFetch. *)

\* While a flight is in the air, and before the first, nothing is fresh.
Due == flight # 0 \/ started = 0 => nextRefresh <= now

Facts == IInv /\ Due

LEMMA FactsAlways == Spec => []Facts
<1>1. Init => Due
  BY DEF Init, Due
<1>2. IInv /\ Due /\ [Next]_vars => Due'
  <2> SUFFICES ASSUME IInv, Due, [Next]_vars PROVE Due'
    OBVIOUS
  <2>1. now' >= now
    <3>1. ASSUME NEW c \in Callers, Mine(c) PROVE now' = now
      BY <3>1, MineSteps DEF IInv
    <3>2. ASSUME NEW ok \in BOOLEAN, Land(ok) PROVE now' = now
      BY <3>2 DEF Land
    <3>3. now' = now \/ now' = now + 1
      BY <3>1, <3>2 DEF Next, Mine, Tick, vars
    <3> QED  BY <3>3 DEF IInv, Typed
  <2>2. now \in Nat /\ now' \in Nat /\ nextRefresh \in Nat /\ started \in Nat
    BY TypedStep DEF IInv, Typed
  <2>3. CASE Quiet
    BY <2>1, <2>2, <2>3 DEF Quiet, cache, Due
  <2>4. CASE Starts
    BY <2>1, <2>2, <2>4 DEF Starts, Fresh, Due
  <2>5. ASSUME NEW ok \in BOOLEAN, Land(ok) PROVE Due'
    <3>1. Landed(ok)
      BY <2>5, LandedByLand DEF IInv
    <3>2. flight' = 0 /\ started' # 0
      BY <3>1 DEF Landed, Flights
    <3> QED  BY <3>2 DEF Due
  <2> QED  BY <2>3, <2>4, <2>5, CacheSteps
<1> QED  BY <1>1, <1>2, Inductive, PTL DEF Spec, Facts

InTheAir == \E n \in 1..started : ~outcome[n].done

Flying == flight # 0

\* The flights in the air are those the cache knows of.
LEMMA AirIsFlight == Facts => (InTheAir <=> Flying)
<1> SUFFICES ASSUME Facts PROVE InTheAir <=> flight # 0
  BY DEF Flying
<1>1. \A n \in 1..started : n \in Flights /\ n \in Nat /\ ~(n > started)
  BY BoundsAssumption DEF Facts, IInv, Typed, Flights
<1>2. \A n \in 1..started : ~outcome[n].done <=> n = flight
  BY <1>1 DEF Facts, IInv, FlightIsLast
<1>3. flight # 0 => flight \in 1..started
  BY DEF Facts, IInv, FlightIsLast, Typed
<1> QED  BY <1>1, <1>2, <1>3 DEF InTheAir

\* What lasts by the last landing is what nextRefresh calls fresh.
LEMMA LastingIsFresh == Facts => (Lasts <=> Fresh)
<1> SUFFICES ASSUME Facts PROVE Lasts <=> Fresh
  OBVIOUS
<1>1. now \in Nat /\ nextRefresh \in Nat /\ started \in Nat
  BY DEF Facts, IInv, Typed
<1>2. CASE flight # 0 \/ started = 0
  <2>1. ~Fresh
    BY <1>1, <1>2 DEF Facts, Due, Fresh
  <2>2. flight # 0 => flight = started /\ ~outcome[started].done
    <3>1. flight # 0 => flight = started /\ flight \in Flights
      BY BoundsAssumption DEF Facts, IInv, FlightIsLast, Typed, Flights
    <3> QED  BY <3>1 DEF Facts, IInv, FlightIsLast
  <2> QED  BY <1>2, <2>1, <2>2 DEF Lasts
<1>3. CASE flight = 0 /\ started # 0
  <2>1. started \in Flights
    BY <1>3, BoundsAssumption DEF Facts, IInv, Typed, Flights
  <2>2. outcome[started].done
    BY <1>1, <1>3, <2>1 DEF Facts, IInv, FlightIsLast, Flights
  <2>3. nextRefresh = finishedAt[started] + LifeOf(started)
    BY <1>3 DEF Facts, IInv, Kept
  <2> QED  BY <1>3, <2>2, <2>3 DEF Lasts, Fresh, LifeOf
<1> QED  BY <1>2, <1>3

Places == [c \in Callers |-> Place(c)]

\* A caller that has not moved, and whose flight has not landed, is where it was.
LEMMA StillPlaced ==
  ASSUME NEW c \in Callers, Still(c), pc[c] = "waiting" => outcome'[waitsFor[c]].done = outcome[waitsFor[c]].done
  PROVE  Place(c)' = Place(c)
  BY DEF Still, Place

\* A waiting caller that its flight has not answered waits for the one in the air.
LEMMA WaitsForFlight ==
  ASSUME Facts, NEW c \in Callers, pc[c] = "waiting"
  PROVE  /\ waitsFor[c] \in Flights
         /\ ~outcome[waitsFor[c]].done <=> waitsFor[c] = flight
<1>1. waitsFor[c] \in 1..started
  BY DEF Facts, IInv, AskedInTime
<1>2. waitsFor[c] \in Flights /\ ~(waitsFor[c] > started)
  BY <1>1, BoundsAssumption DEF Facts, IInv, Typed, Flights
<1> QED  BY <1>2 DEF Facts, IInv, FlightIsLast

\* A step of one caller moves that caller alone.
LEMMA MovesOne ==
  ASSUME Facts, NEW c \in Callers, Mine(c), NEW p, Place(c)' = p
  PROVE  Places' = [Places EXCEPT ![c] = p]
<1>1. ASSUME NEW d \in Callers, d # c PROVE Place(d)' = Place(d)
  <2>1. Still(d)
    <3>1. CASE Hit(c) \/ Miss(c)
      BY <1>1, <3>1 DEF Hit, Miss, Enter, Answer, Still, Facts, IInv, Typed
    <3>2. CASE Wake(c)
      BY <1>1, <3>2 DEF Wake, Answer, history, Still, Facts, IInv, Typed
    <3>3. CASE Abandon(c) \/ Again(c)
      BY <1>1, <3>3 DEF Abandon, Again, Enter, Still, Facts, IInv, Typed
    <3> QED  BY <3>1, <3>2, <3>3 DEF Mine
  <2>2. outcome' = outcome
    BY MineSteps DEF Facts, IInv
  <2> QED  BY <2>1, <2>2, StillPlaced
<1>2. Places' = [d \in Callers |-> Place(d)']
  BY DEF Places
<1>3. [Places EXCEPT ![c] = p] = [d \in Callers |-> IF d = c THEN p ELSE Place(d)]
  BY DEF Places
<1>4. \A d \in Callers : Place(d)' = IF d = c THEN p ELSE Place(d)
  BY <1>1
<1> QED  BY <1>2, <1>3, <1>4, Zenon

\* A step of a caller leaves what the promise says of the cache alone, but for the fetch.
LEMMA CacheStands ==
  ASSUME Facts, Facts', NEW c \in Callers, Mine(c)
  PROVE  /\ serveStale' = serveStale /\ hasValue' = hasValue
         /\ Lasts' = Lasts
<1>1. UNCHANGED <<serveStale, now, hasValue, nextRefresh>>
  BY MineSteps DEF Facts, IInv
<1>2. Fresh' <=> Fresh
  BY <1>1 DEF Fresh
<1>3. Lasts' <=> Lasts
  BY <1>2, LastingIsFresh, PTL
<1> QED  BY <1>1, <1>3 DEF Lasts

LEMMA CallerImplements ==
  ASSUME Facts, Facts', NEW c \in Callers, Mine(c)
  PROVE  Promise!Ask(c) \/ Promise!Leave(c) \/ Promise!Return(c) \/ UNCHANGED Promise!vars
<1>1. /\ serveStale' = serveStale /\ hasValue' = hasValue /\ Lasts' = Lasts
      /\ Lasts <=> Fresh
      /\ serveStale \in BOOLEAN /\ hasValue \in BOOLEAN
  BY CacheStands, LastingIsFresh DEF Facts, IInv, Typed, Switches
<1>2. /\ InTheAir <=> flight # 0
      /\ InTheAir' <=> flight' # 0
  <2>1. (InTheAir <=> Flying) /\ (InTheAir' <=> Flying')
    BY AirIsFlight, PTL
  <2> QED  BY <2>1 DEF Flying
<1>3. pc \in [Callers -> {"idle", "waiting", "done"}]
  BY DEF Facts, IInv, Typed
<1>4. Places[c] = Place(c)
  BY DEF Places
<1>5. CASE Hit(c)
  <2>1. pc[c] = "idle" /\ pc' = [pc EXCEPT ![c] = "done"] /\ Fresh /\ flight' = flight
    BY <1>5 DEF Hit, Enter, Answer, cache
  <2>2. Place(c) = "away" /\ Place(c)' = "over"
    BY <1>3, <2>1 DEF Place
  <2>3. Places' = [Places EXCEPT ![c] = "over"]
    BY <2>2, MovesOne
  <2>4. InTheAir' = (InTheAir \/ ~Lasts)
    BY <1>1, <1>2, <2>1 DEF InTheAir
  <2>5. Promise!Ask(c)
    BY <1>1, <1>4, <2>1, <2>2, <2>3, <2>4 DEF Promise!Ask, Places, InTheAir
  <2> QED  BY <2>5
<1>6. CASE Miss(c)
  <2>1. pc[c] = "idle" /\ ~Fresh /\ Launch
    BY <1>6 DEF Miss, Enter
  <2>2. Place(c) = "away"
    BY <2>1 DEF Place
  <2>3. flight' # 0
    BY <2>1 DEF Launch, Facts, IInv, Typed
  <2>4. InTheAir' = (InTheAir \/ ~Lasts)
    BY <1>1, <1>2, <2>1, <2>3 DEF InTheAir
  <2>5. CASE MayServeStale
    <3>1. pc' = [pc EXCEPT ![c] = "done"]
      BY <1>6, <2>5 DEF Miss, Answer
    <3>2. Place(c)' = "over"
      BY <1>3, <3>1 DEF Place
    <3>3. Places' = [Places EXCEPT ![c] = "over"]
      BY <1>6, <3>2, MovesOne DEF Mine
    <3>4. Promise!Ask(c)
      BY <1>1, <1>4, <2>2, <2>4, <2>5, <3>3 DEF MayServeStale, Promise!Ask, Places, InTheAir
    <3> QED  BY <3>4
  <2>6. CASE ~MayServeStale
    <3>1. /\ pc' = [pc EXCEPT ![c] = "waiting"] /\ waitsFor' = [waitsFor EXCEPT ![c] = flight']
      BY <1>6, <2>6 DEF Miss
    <3>2. pc'[c] = "waiting" /\ waitsFor'[c] = flight'
      BY <1>3, <3>1 DEF Facts, IInv, Typed
    <3>3. ~outcome'[waitsFor'[c]].done
      <4>1. (waitsFor[c] \in Flights /\ (~outcome[waitsFor[c]].done <=> waitsFor[c] = flight))'
        BY <3>2 DEF Facts, IInv, AskedInTime, FlightIsLast, Typed, Flights
      <4> QED  BY <3>2, <4>1
    <3>4. Place(c)' = "waiting"
      BY <3>2, <3>3 DEF Place
    <3>5. Places' = [Places EXCEPT ![c] = "waiting"]
      BY <1>6, <3>4, MovesOne DEF Mine
    <3>6. Promise!Ask(c)
      BY <1>1, <1>4, <2>1, <2>2, <2>4, <2>6, <3>5 DEF MayServeStale, Promise!Ask, Places, InTheAir
    <3> QED  BY <3>6
  <2> QED  BY <2>5, <2>6
<1>7. CASE Wake(c) \/ Abandon(c) \/ Again(c)
  <2>1. flight' = flight
    BY <1>7 DEF Wake, Abandon, Again, cache
  <2>2. InTheAir' = InTheAir
    BY <1>2, <2>1 DEF InTheAir
  <2>3. CASE Wake(c)
    <3>1. pc[c] = "waiting" /\ outcome[waitsFor[c]].done /\ pc' = [pc EXCEPT ![c] = "done"]
      BY <2>3 DEF Wake, Answer
    <3>2. Place(c) = "over" /\ Place(c)' = "over"
      BY <1>3, <3>1 DEF Place
    <3>3. Places' = [Places EXCEPT ![c] = "over"]
      BY <3>2, MovesOne
    <3>4. Places' = Places
      BY <3>2, <3>3 DEF Places
    <3> QED  BY <1>1, <2>2, <3>4 DEF Promise!vars, Places, InTheAir
  <2>4. CASE Abandon(c)
    <3>1. pc[c] \in {"idle", "waiting"} /\ pc' = [pc EXCEPT ![c] = "done"]
      BY <2>4 DEF Abandon, Enter
    <3>2. Place(c) \in {"away", "waiting", "over"} /\ Place(c)' = "over"
      BY <1>3, <3>1 DEF Place
    <3>3. Places' = [Places EXCEPT ![c] = "over"]
      BY <2>4, <3>2, MovesOne DEF Mine
    <3>4. CASE Place(c) = "over"
      <4>1. Places' = Places
        BY <3>3, <3>4 DEF Places
      <4> QED  BY <1>1, <2>2, <4>1 DEF Promise!vars, Places, InTheAir
    <3>5. CASE Place(c) # "over"
      BY <1>1, <1>4, <2>2, <3>2, <3>3, <3>5 DEF Promise!Leave, Places, InTheAir
    <3> QED  BY <3>4, <3>5
  <2>5. CASE Again(c)
    <3>1. pc[c] = "done" /\ pc' = [pc EXCEPT ![c] = "idle"]
      BY <2>5 DEF Again
    <3>2. Place(c) = "over" /\ Place(c)' = "away"
      BY <1>3, <3>1 DEF Place
    <3>3. Places' = [Places EXCEPT ![c] = "away"]
      BY <2>5, <3>2, MovesOne DEF Mine
    <3> QED  BY <1>1, <1>4, <2>2, <3>2, <3>3 DEF Promise!Return, Places, InTheAir
  <2> QED  BY <1>7, <2>3, <2>4, <2>5
<1> QED  BY <1>5, <1>6, <1>7 DEF Mine

LEMMA LandImplements ==
  ASSUME Facts, Facts', NEW ok \in BOOLEAN, Land(ok)
  PROVE  Promise!Land
<1>1. Landed(ok)
  BY LandedByLand DEF Facts, IInv
<1>2. InTheAir /\ ~InTheAir'
  <2>1. (InTheAir <=> Flying) /\ (InTheAir' <=> Flying')
    BY AirIsFlight, PTL
  <2> QED  BY <1>1, <2>1 DEF Flying, Landed, Flights
<1>3. Lasts'
  <2>1. Lasts' <=> Fresh'
    BY LastingIsFresh, PTL
  <2>2. now' = now /\ nextRefresh' = now + (IF ok THEN TTL ELSE FailureTTL)
    BY <1>1 DEF Landed
  <2>3. now \in Nat
    BY DEF Facts, IInv, Typed
  <2>4. now' < nextRefresh'
    BY <2>2, <2>3, PolicyAssumption
  <2> QED  BY <2>1, <2>4 DEF Fresh
<1>4. serveStale' = serveStale /\ hasValue' = (ok \/ (serveStale /\ hasValue))
  BY <1>1 DEF Landed, Facts, IInv, Typed, Switches
<1>5. \A c \in Callers : Place(c)' = IF Place(c) = "waiting" THEN "over" ELSE Place(c)
  <2> SUFFICES ASSUME NEW c \in Callers
               PROVE  Place(c)' = IF Place(c) = "waiting" THEN "over" ELSE Place(c)
    OBVIOUS
  <2>1. pc' = pc /\ waitsFor' = waitsFor /\ pc[c] \in {"idle", "waiting", "done"}
    BY <1>1 DEF Landed, callers, Facts, IInv, Typed
  <2>2. CASE pc[c] = "waiting"
    <3>1. waitsFor[c] \in Flights /\ (~outcome[waitsFor[c]].done <=> waitsFor[c] = flight)
      BY <2>2, WaitsForFlight
    <3>2. outcome'[waitsFor[c]].done
      BY <1>1, <3>1 DEF Landed
    <3> QED  BY <2>1, <2>2, <3>2 DEF Place
  <2>3. CASE pc[c] # "waiting"
    BY <2>1, <2>3 DEF Place
  <2> QED  BY <2>2, <2>3
<1>6. Places' = [c \in Callers |-> IF Places[c] = "waiting" THEN "over" ELSE Places[c]]
  BY <1>5 DEF Places
<1> QED  BY <1>2, <1>3, <1>4, <1>6 DEF Promise!Land, Places, InTheAir

LEMMA TickImplements ==
  ASSUME Facts, Facts', Tick
  PROVE  Promise!Expire \/ UNCHANGED Promise!vars
<1>1. UNCHANGED <<serveStale, value, err, hasValue, nextRefresh, flight, started, outcome, pc,
                  waitsFor, finishedAt>> /\ now' = now + 1
  BY DEF Tick, cache, callers, history
<1>2. Places' = Places /\ InTheAir' = InTheAir /\ serveStale' = serveStale /\ hasValue' = hasValue
  BY <1>1 DEF Places, Place, InTheAir
<1>3. Lasts' => Lasts
  <2>1. (Lasts <=> Fresh) /\ (Lasts' <=> Fresh')
    BY LastingIsFresh, PTL
  <2>2. now \in Nat /\ nextRefresh \in Nat
    BY DEF Facts, IInv, Typed
  <2> QED  BY <1>1, <2>1, <2>2 DEF Fresh
<1>4. CASE Lasts' = Lasts
  BY <1>2, <1>4 DEF Promise!vars, Places, InTheAir
<1>5. CASE Lasts /\ ~Lasts'
  BY <1>2, <1>5 DEF Promise!Expire, Places, InTheAir
<1> QED  BY <1>3, <1>4, <1>5 DEF Lasts

\* A cache with its flights, clocks and values keeps the promise of a cache without
\* them, under either policy: one fetch at a time, none before the last outcome is over,
\* and nobody left waiting by one that landed.
THEOREM CacheSharesFetches == Spec => ImplementsSharedFetch
<1>1. Init => Promise!Init
  <2> SUFFICES ASSUME Init PROVE Promise!Init
    OBVIOUS
  <2>1. /\ ~Lasts /\ ~InTheAir /\ hasValue = FALSE /\ serveStale \in BOOLEAN
        /\ [c \in Callers |-> Place(c)] = [c \in Callers |-> "away"]
    BY DEF Init, Lasts, InTheAir, Place
  <2> QED  BY <2>1 DEF Promise!Init, InTheAir
<1>2. Facts /\ Facts' /\ [Next]_vars => [Promise!Next]_(Promise!vars)
  <2> SUFFICES ASSUME Facts, Facts', [Next]_vars
               PROVE  Promise!Next \/ UNCHANGED Promise!vars
    OBVIOUS
  <2>1. ASSUME NEW c \in Callers, Mine(c) PROVE Promise!Next \/ UNCHANGED Promise!vars
    BY <2>1, CallerImplements DEF Promise!Next
  <2>2. ASSUME NEW ok \in BOOLEAN, Land(ok) PROVE Promise!Next
    BY <2>2, LandImplements DEF Promise!Next
  <2>3. CASE Tick
    BY <2>3, TickImplements DEF Promise!Next
  <2>4. CASE UNCHANGED vars
    <3>1. UNCHANGED <<serveStale, now, hasValue, flight, started, outcome, pc, waitsFor, finishedAt>>
      BY <2>4 DEF vars, cache, callers, history
    <3> QED  BY <3>1 DEF Promise!vars, Lasts, Place
  <2> QED  BY <2>1, <2>2, <2>3, <2>4 DEF Next, Mine
<1>3. Spec => []Facts
  BY FactsAlways
<1> QED  BY <1>1, <1>2, <1>3, PTL DEF Spec, ImplementsSharedFetch, Promise!Spec
=============================================================================
