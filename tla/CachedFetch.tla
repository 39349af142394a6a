---------------------------- MODULE CachedFetch ----------------------------
(***************************************************************************)
(* server.cachedFetch: one upstream lookup shared by concurrent callers    *)
(* (the model catalog's entries, the readiness probe, the dashboard's      *)
(* account usage).  get runs under the cache's mutex up to the point where *)
(* the caller either has an answer or waits for a flight; refresh is a     *)
(* goroutine of its own, detached from the caller that started it, and     *)
(* publishes its outcome under the same mutex.                             *)
(*                                                                         *)
(* A fetched value is named by the number of the flight that fetched it;   *)
(* 0 is Go's zero value.                                                   *)
(***************************************************************************)
EXTENDS Naturals

CONSTANTS
  Callers,     \* the requests that use the cache
  TTL,         \* cachePolicy.ttl, in ticks
  FailureTTL,  \* cachePolicy.failureTTL, in ticks
  MaxFlights,  \* bound on the flights of a behaviour
  MaxTime      \* bound on the clock

ASSUME PolicyAssumption ==
  /\ TTL \in Nat \ {0} /\ FailureTTL \in Nat \ {0}
ASSUME BoundsAssumption == MaxFlights \in Nat /\ MaxTime \in Nat

VARIABLES
  serveStale,   \* cachePolicy.serveStale, which a cache keeps for good
  now,          \* the clock
  value,        \* cachedFetch.value
  err,          \* cachedFetch.err # nil
  hasValue,     \* cachedFetch.hasValue
  nextRefresh,  \* cachedFetch.nextRefresh
  flight,       \* the number of cachedFetch.flight, 0 when nil
  started,      \* how many flights were started
  outcome,      \* what each flight published, cacheFlight.done included
  pc,           \* where each caller is in get
  waitsFor,     \* the flight a caller waits for
  answer,       \* what get returned to it
  finishedAt,   \* history: when each flight finished
  calledAt,     \* history: when each caller entered get
  valueThen     \* history: the newest value fetched by then, 0 if none

cache   == <<value, err, hasValue, nextRefresh, flight, started, outcome>>
callers == <<pc, waitsFor, answer>>
history == <<finishedAt, calledAt, valueThen>>
vars    == <<serveStale, now, cache, callers, history>>

Flights == 1..MaxFlights

Pending == [done |-> FALSE, value |-> 0, err |-> FALSE]
NoAnswer == [kind |-> "none", value |-> 0]

Init ==
  /\ serveStale \in BOOLEAN
  /\ now = 1
  /\ value = 0 /\ err = FALSE /\ hasValue = FALSE
  /\ nextRefresh = 0 /\ flight = 0 /\ started = 0
  /\ outcome    = [n \in Flights |-> Pending]
  /\ pc         = [c \in Callers |-> "idle"]
  /\ waitsFor   = [c \in Callers |-> 0]
  /\ answer     = [c \in Callers |-> NoAnswer]
  /\ finishedAt = [n \in Flights |-> 0]
  /\ calledAt   = [c \in Callers |-> 0]
  /\ valueThen  = [c \in Callers |-> 0]

-----------------------------------------------------------------------------
Answer(c, isErr, v) ==
  /\ pc'     = [pc EXCEPT ![c] = "done"]
  /\ answer' = [answer EXCEPT ![c] = [kind |-> IF isErr THEN "error" ELSE "ok", value |-> v]]

\* Mutant: a fresh entry is recognised only while it holds a value, so a failure
\* is retried by the next caller.
FreshValueOnly == now < nextRefresh /\ hasValue

\* The cached outcome, good or bad, need not be fetched again yet.
Fresh == now < nextRefresh

\* Mutants: stale values are served under every policy; under none.
MayServeStaleAlways == hasValue
MayServeStaleNever == FALSE

MayServeStale == serveStale /\ hasValue

Fetched == {n \in 1..started : outcome[n].done /\ ~outcome[n].err}

Newest == IF Fetched = {} THEN 0 ELSE CHOOSE n \in Fetched : \A m \in Fetched : m <= n

Enter(c) ==
  /\ pc[c] = "idle"
  /\ calledAt'  = [calledAt EXCEPT ![c] = now]
  /\ valueThen' = [valueThen EXCEPT ![c] = Newest]

\* get, when the cached outcome is fresh: value and err are returned together.
Hit(c) ==
  /\ Enter(c) /\ Fresh
  /\ Answer(c, err, value)
  /\ UNCHANGED <<serveStale, now, cache, waitsFor, finishedAt>>

\* Mutant: every miss starts a flight of its own.
LaunchAlways ==
  /\ started < MaxFlights
  /\ started' = started + 1
  /\ flight'  = started + 1

\* The flight a miss joins: the one in the air, or a new one.
Launch ==
  IF flight # 0 THEN UNCHANGED <<flight, started>>
  ELSE /\ started < MaxFlights
       /\ started' = started + 1
       /\ flight'  = started + 1

\* get, when it is not: join or start a flight, then answer with the stale value
\* or wait.
Miss(c) ==
  /\ Enter(c) /\ ~Fresh
  /\ Launch
  /\ IF MayServeStale
     THEN Answer(c, FALSE, value) /\ UNCHANGED waitsFor
     ELSE /\ pc' = [pc EXCEPT ![c] = "waiting"]
          /\ waitsFor' = [waitsFor EXCEPT ![c] = flight']
          /\ UNCHANGED answer
  /\ UNCHANGED <<serveStale, now, value, err, hasValue, nextRefresh, outcome, finishedAt>>

\* The flight's done channel is closed: its own result is returned, whatever the
\* cache holds by now.
Wake(c) ==
  /\ pc[c] = "waiting" /\ outcome[waitsFor[c]].done
  /\ Answer(c, outcome[waitsFor[c]].err, outcome[waitsFor[c]].value)
  /\ UNCHANGED <<serveStale, now, cache, waitsFor, history>>

\* The caller's context ends: before the lookup (ctx.Err) or while it waits.
Abandon(c) ==
  /\ \/ Enter(c)
     \/ pc[c] = "waiting" /\ UNCHANGED <<calledAt, valueThen>>
  /\ pc'     = [pc EXCEPT ![c] = "done"]
  /\ answer' = [answer EXCEPT ![c] = [kind |-> "cancelled", value |-> 0]]
  /\ UNCHANGED <<serveStale, now, cache, waitsFor, finishedAt>>

\* The same client asks again.
Again(c) ==
  /\ pc[c] = "done"
  /\ pc' = [pc EXCEPT ![c] = "idle"]
  /\ answer'   = [answer EXCEPT ![c] = NoAnswer]
  /\ waitsFor' = [waitsFor EXCEPT ![c] = 0]
  /\ calledAt'  = [calledAt EXCEPT ![c] = 0]
  /\ valueThen' = [valueThen EXCEPT ![c] = 0]
  /\ UNCHANGED <<serveStale, now, cache, finishedAt>>

\* What refresh stores: a failure leaves a stale value in place if it may be served.
Store(ok) ==
  IF ok \/ ~serveStale
  THEN /\ value'    = IF ok THEN flight ELSE 0
       /\ hasValue' = ok
  ELSE UNCHANGED <<value, hasValue>>

\* Mutant: the done channel is closed on the success path only.
PublishSuccess(ok) ==
  outcome' = IF ok THEN [outcome EXCEPT ![flight] = [done |-> TRUE, value |-> value', err |-> FALSE]]
             ELSE outcome

\* The flight's own copy of the outcome, and its closed channel.
Publish(ok) ==
  outcome' = [outcome EXCEPT ![flight] = [done |-> TRUE, value |-> value', err |-> ~ok]]

\* refresh, from the end of its fetch (a result, an error or its own timeout).
Land(ok) ==
  /\ flight # 0
  /\ Store(ok)
  /\ err' = ~ok
  /\ nextRefresh' = now + (IF ok THEN TTL ELSE FailureTTL)
  /\ Publish(ok)
  /\ flight' = 0
  /\ finishedAt' = [finishedAt EXCEPT ![flight] = now]
  /\ UNCHANGED <<serveStale, now, started, callers, calledAt, valueThen>>

Tick ==
  /\ now < MaxTime
  /\ now' = now + 1
  /\ UNCHANGED <<serveStale, cache, callers, history>>

Next ==
  \/ \E c \in Callers : Hit(c) \/ Miss(c) \/ Wake(c) \/ Abandon(c) \/ Again(c)
  \/ \E ok \in BOOLEAN : Land(ok)
  \/ Tick

Spec == Init /\ [][Next]_vars

(* refresh runs under its own timeout, so a flight always lands; the runtime *)
(* wakes a goroutine whose channel is closed.                                *)
FairSpec ==
  /\ Spec
  /\ WF_vars(\E ok \in BOOLEAN : Land(ok))
  /\ \A c \in Callers : WF_vars(Wake(c))

-----------------------------------------------------------------------------
(* Properties. *)

\* Concurrent callers share one fetch: the flights still in the air are exactly the
\* one the cache knows of, so none is forgotten and no two overlap.
OneFlight ==
  {n \in 1..started : ~outcome[n].done} = {flight} \ {0}

\* Without serveStale a success is never answered after it expired: it was fresh
\* when the caller asked, or was fetched for it (readiness, account usage).
NothingExpired ==
  ~serveStale =>
    \A c \in Callers : answer[c].kind = "ok" =>
      calledAt[c] < finishedAt[answer[c].value] + TTL

\* With serveStale an outage never takes a catalog away: a caller that asks once a
\* fetch has succeeded is answered, never made to wait, and never with an older
\* value than the newest fetched before it asked.
StaleIsServed ==
  serveStale =>
    \A c \in Callers : valueThen[c] # 0 /\ answer[c].kind # "cancelled" =>
      /\ pc[c] # "waiting"
      /\ pc[c] = "done" => answer[c].value >= valueThen[c]

\* Whatever the policy, what is answered is current under it.
AnswersAreCurrent == NothingExpired /\ StaleIsServed

\* No retry storm: a flight starts only when the previous one has landed and its
\* outcome, success or failure, has been kept for its whole time to live.
Backoff ==
  [][started' # started =>
       started = 0 \/
         /\ outcome[started].done
         /\ now >= finishedAt[started] + (IF outcome[started].err THEN FailureTTL ELSE TTL)]_vars

\* What a caller has of its question: nothing, a wait for a flight in the air, or an
\* outcome, which its flight may have before it wakes.
Place(c) ==
  CASE pc[c] = "idle" -> "away"
    [] pc[c] = "waiting" /\ ~outcome[waitsFor[c]].done -> "waiting"
    [] OTHER -> "over"

\* The last outcome is still within its time to live.
Lasts ==
  /\ started # 0 /\ outcome[started].done
  /\ now < finishedAt[started] + (IF outcome[started].err THEN FailureTTL ELSE TTL)

Promise == INSTANCE SharedFetch WITH
  stale    <- serveStale,
  has      <- hasValue,
  fresh    <- Lasts,
  fetching <- (\E n \in 1..started : ~outcome[n].done),
  at       <- [c \in Callers |-> Place(c)]

\* The cache keeps the promise ModelCatalog takes for granted of it: as told by its
\* flights and their landings, no second fetch is ever in the air, none starts before
\* its time, and none lands without answering all who wait.
ImplementsSharedFetch == Promise!Spec

\* A caller that waits is answered even if the caller that started the flight left.
WaitersReturn ==
  \A c \in Callers : pc[c] = "waiting" ~> pc[c] = "done"
=============================================================================
