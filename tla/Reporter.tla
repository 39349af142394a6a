------------------------------ MODULE Reporter ------------------------------
(***************************************************************************)
(* fingerprint.Reporter: logical CLI sessions, opened by accepted          *)
(* inference requests and reported to the upstream at most once each.      *)
(* Use, the function it returns and eligible run under r.mu; two workers   *)
(* take jobs from a bounded queue and call the upstream between lock       *)
(* regions; Close cancels the context, waits for the workers and drains    *)
(* the queue.                                                              *)
(*                                                                         *)
(* A session (activity) is named by its number in the order of creation,   *)
(* so that a job still refers to a session that was replaced in the map.   *)
(***************************************************************************)
EXTENDS Naturals, Sequences, FiniteSets

CONSTANTS
  Keys,         \* the accounts
  Versions,     \* the CLI versions a request may carry
  Requests,     \* the inference requests
  Workers,      \* reportWorkers
  QueueSize,    \* reportQueueSize
  Capacity,     \* maxReportedKeys
  Idle,         \* activity.idle, in ticks (its per-account offset is left out)
  MaxSessions,  \* bound on the sessions of a behaviour
  MaxTime       \* bound on the clock

ASSUME SizesAssumption ==
  /\ QueueSize \in Nat \ {0} /\ Capacity \in Nat \ {0} /\ Idle \in Nat \ {0}
  /\ MaxSessions \in Nat /\ MaxTime \in Nat
ASSUME FiniteAssumption == IsFiniteSet(Keys) /\ IsFiniteSet(Requests)

VARIABLES
  now,        \* the clock
  ended,      \* r.ctx has ended
  active,     \* the session r.active holds for each key, 0 when there is none
  sessions,   \* the activities created so far
  queue,      \* r.queue, as sessions
  uses,       \* the session each request is using: Unused, None or Over
  worker,     \* what each worker is doing, and on which session
  closing,    \* where Close is
  reports     \* history: the reports started for each session

vars == <<now, ended, active, sessions, queue, uses, worker, closing, reports>>

Unused == 0
None   == MaxSessions + 1   \* Use returned nil
Over   == MaxSessions + 2   \* finished

Idling == [at |-> "idle", on |-> 0]

Init ==
  /\ now = 0 /\ ended = FALSE
  /\ active = [k \in Keys |-> 0] /\ sessions = <<>> /\ queue = <<>>
  /\ uses = [r \in Requests |-> Unused]
  /\ worker = [w \in Workers |-> Idling]
  /\ closing = "open" /\ reports = <<>>

-----------------------------------------------------------------------------
(* Requests. *)

Held == {k \in Keys : active[k] # 0}

\* The session has no request and has had none for the idle time.
Expired(a) == sessions[a].inflight = 0 /\ now - sessions[a].last >= Idle

\* Mutant: a full map makes room by dropping any session without a request.
SweptIdle(k) ==
  IF active[k] = 0 /\ Cardinality(Held) >= Capacity
  THEN [j \in Keys |-> IF active[j] # 0 /\ sessions[active[j]].inflight = 0 THEN 0 ELSE active[j]]
  ELSE active

\* A full map drops its expired sessions before it takes a new key.
Swept(k) ==
  IF active[k] = 0 /\ Cardinality(Held) >= Capacity
  THEN [j \in Keys |-> IF active[j] # 0 /\ Expired(active[j]) THEN 0 ELSE active[j]]
  ELSE active

\* Mutant: one key too many is taken.
FullLate(map) == Cardinality({j \in Keys : map[j] # 0}) > Capacity

Full(map) == Cardinality({j \in Keys : map[j] # 0}) >= Capacity

\* Mutant: an expired session is taken up again, its place in the queue with it.
NeedsSessionUnlessHeld(k, v) == active[k] = 0 \/ sessions[active[k]].version # v

NeedsSession(k, v) ==
  active[k] = 0 \/ sessions[active[k]].version # v \/ Expired(active[k])

NewSession(k, v) ==
  [key |-> k, version |-> v, last |-> now, inflight |-> 0, queued |-> FALSE, attempted |-> FALSE]

\* The session when a request has entered or left it.
Touched(s, inflight, queued) ==
  [key |-> s.key, version |-> s.version, last |-> now, inflight |-> inflight,
   queued |-> queued, attempted |-> s.attempted]

\* The session when its report has been started.
Attempted(s) ==
  [key |-> s.key, version |-> s.version, last |-> s.last, inflight |-> s.inflight,
   queued |-> s.queued, attempted |-> TRUE]

\* Mutant: a session is queued again until it is marked as attempted.
EnqueuesUntilAttempted(s) == ~s.attempted /\ Len(queue) < QueueSize

\* The request puts the session's job in the queue.
Enqueues(s) == ~s.queued /\ ~s.attempted /\ Len(queue) < QueueSize

\* Use, for a key whose session the request joins or opens; a full queue leaves the
\* session to a later request.
\* The context may end between Use's check and the end of its lock region: that
\* changes nothing, for nothing in between looks at it again and Drain needs the lock.
Use(r, k, v) ==
  /\ uses[r] = Unused /\ ~ended
  /\ active[k] # 0 \/ ~Full(Swept(k))
  /\ LET fresh == NeedsSession(k, v)
         a     == IF fresh THEN Len(sessions) + 1 ELSE active[k]
         s     == IF fresh THEN NewSession(k, v) ELSE sessions[a]
         queues == Enqueues(s)
         t     == Touched(s, s.inflight + 1, s.queued \/ queues)
     IN /\ a <= MaxSessions
        /\ sessions' = IF fresh THEN Append(sessions, t) ELSE [sessions EXCEPT ![a] = t]
        /\ reports'  = IF fresh THEN Append(reports, 0) ELSE reports
        /\ active'   = [Swept(k) EXCEPT ![k] = a]
        /\ uses'     = [uses EXCEPT ![r] = a]
        /\ queue'    = IF queues THEN Append(queue, a) ELSE queue
  /\ UNCHANGED <<now, ended, worker, closing>>

\* Use returns nil: the reporter has stopped, or every slot is taken.
UseNothing(r, k) ==
  /\ uses[r] = Unused
  /\ \/ ended /\ UNCHANGED active
     \/ ~ended /\ active[k] = 0 /\ Full(Swept(k)) /\ active' = Swept(k)
  /\ uses' = [uses EXCEPT ![r] = None]
  /\ UNCHANGED <<now, ended, sessions, queue, worker, closing, reports>>

\* The function Use returned.
Finish(r) ==
  /\ uses[r] \in 1..Len(sessions)
  /\ LET a == uses[r]
         s == sessions[a]
     IN sessions' = [sessions EXCEPT ![a] = Touched(s, s.inflight - 1, s.queued)]
  /\ uses' = [uses EXCEPT ![r] = Over]
  /\ UNCHANGED <<now, ended, active, queue, worker, closing, reports>>

-----------------------------------------------------------------------------
(* Workers. *)

Eligible(a) ==
  ~ended /\ active[sessions[a].key] = a /\ ~Expired(a)

Goto(w, at, a) == worker' = [worker EXCEPT ![w] = [at |-> at, on |-> a]]

WorkerOnly == UNCHANGED <<now, ended, active, uses, closing>>

\* Both select cases may be ready; a job taken after the end is dropped.
Take(w) ==
  /\ worker[w].at = "idle" /\ queue # <<>>
  /\ queue' = Tail(queue)
  /\ IF ended THEN Goto(w, "stopped", 0) ELSE Goto(w, "taken", Head(queue))
  /\ WorkerOnly /\ UNCHANGED <<sessions, reports>>

\* Mutant: a worker notices the end when the next job comes.
StopOnJob(w) ==
  /\ worker[w].at = "idle" /\ ended /\ queue # <<>>
  /\ Goto(w, "stopped", 0)
  /\ WorkerOnly /\ UNCHANGED <<sessions, queue, reports>>

Stop(w) ==
  /\ worker[w].at = "idle" /\ ended
  /\ Goto(w, "stopped", 0)
  /\ WorkerOnly /\ UNCHANGED <<sessions, queue, reports>>

\* reportOnce's first look at the session.
Check(w) ==
  /\ worker[w].at = "taken"
  /\ IF Eligible(worker[w].on) THEN Goto(w, "checked", worker[w].on)
     ELSE worker' = [worker EXCEPT ![w] = Idling]
  /\ WorkerOnly /\ UNCHANGED <<sessions, queue, reports>>

\* It marks the session and calls the upstream.
Report(w) ==
  /\ worker[w].at = "checked"
  /\ sessions' = [sessions EXCEPT ![worker[w].on] = Attempted(sessions[worker[w].on])]
  /\ reports'  = [reports EXCEPT ![worker[w].on] = @ + 1]
  /\ Goto(w, "reporting", worker[w].on)
  /\ WorkerOnly /\ UNCHANGED queue

\* RecordFingerprint returns, with or without an error; a second look decides on
\* the session event.
Reported(w) ==
  /\ worker[w].at = "reporting"
  /\ IF Eligible(worker[w].on) THEN Goto(w, "announcing", worker[w].on)
     ELSE worker' = [worker EXCEPT ![w] = Idling]
  /\ WorkerOnly /\ UNCHANGED <<sessions, queue, reports>>

\* RecordCLISession returns.
Announced(w) ==
  /\ worker[w].at = "announcing"
  /\ worker' = [worker EXCEPT ![w] = Idling]
  /\ WorkerOnly /\ UNCHANGED <<sessions, queue, reports>>

WorkerSteps(w) == Take(w) \/ Stop(w) \/ Check(w) \/ Report(w) \/ Reported(w) \/ Announced(w)

-----------------------------------------------------------------------------
(* Close. *)

Cancel ==
  /\ closing = "open"
  /\ ended' = TRUE /\ closing' = "waiting"
  /\ UNCHANGED <<now, active, sessions, queue, uses, worker, reports>>

\* The workers have stopped: what is left in the queue goes.
Drain ==
  /\ closing = "waiting" /\ \A w \in Workers : worker[w].at = "stopped"
  /\ queue' = <<>> /\ closing' = "closed"
  /\ UNCHANGED <<now, ended, active, sessions, uses, worker, reports>>

Tick ==
  /\ now < MaxTime /\ now' = now + 1
  /\ UNCHANGED <<ended, active, sessions, queue, uses, worker, closing, reports>>

Done ==
  /\ closing = "closed" /\ \A r \in Requests : uses[r] \in {None, Over}
  /\ UNCHANGED vars

Next ==
  \/ \E r \in Requests, k \in Keys : (\E v \in Versions : Use(r, k, v)) \/ UseNothing(r, k)
  \/ \E r \in Requests : Finish(r)
  \/ \E w \in Workers : WorkerSteps(w)
  \/ Cancel \/ Drain \/ Tick \/ Done

Spec == Init /\ [][Next]_vars

-----------------------------------------------------------------------------
(* Properties. *)

Created == 1..Len(sessions)

Places == {"idle", "taken", "checked", "reporting", "announcing", "stopped"}

Session == [key : Keys, version : Versions, last : Nat, inflight : Nat,
            queued : BOOLEAN, attempted : BOOLEAN]

\* Every variable keeps its type, and whatever refers to a session refers to one that was
\* created; the map refers to one of its own key.
TypeOK ==
  /\ now \in Nat /\ ended \in BOOLEAN
  /\ sessions \in Seq(Session) /\ Len(sessions) <= MaxSessions
  /\ active \in [Keys -> Nat]
  /\ \A k \in Keys : active[k] # 0 => active[k] \in Created /\ sessions[active[k]].key = k
  /\ queue \in Seq(Nat) /\ \A i \in DOMAIN queue : queue[i] \in Created
  /\ uses \in [Requests -> Nat] /\ \A r \in Requests : uses[r] \in Created \cup {Unused, None, Over}
  /\ worker \in [Workers -> [at : Places, on : Nat]]
  /\ \A w \in Workers : worker[w].at \notin {"idle", "stopped"} => worker[w].on \in Created
  /\ closing \in {"open", "waiting", "closed"}
  /\ reports \in Seq(Nat) /\ Len(reports) = Len(sessions)

Holding(a, places) == \E w \in Workers : worker[w].on = a /\ worker[w].at \in places

\* A logical session is reported at most once, however its requests, its job and
\* the two workers interleave.
OneReportPerSession == \A a \in Created : reports[a] <= 1

\* A live session whose report was promised (queued) is never forgotten: its job is
\* in the queue or with a worker.  One that was not queued can still be.
QueuedIsPending ==
  \A a \in Created :
    ~ended /\ active[sessions[a].key] = a /\ ~Expired(a) /\ sessions[a].queued
      => \/ sessions[a].attempted
         \/ \E i \in DOMAIN queue : queue[i] = a
         \/ Holding(a, {"taken", "checked"})

\* The table keeps its bound, and room is made only at the cost of sessions that no
\* request uses and that none has used for the idle time.
BusySessionsStay ==
  [][/\ Cardinality(Held') <= Capacity
     /\ \A k \in Keys : active[k] # 0 /\ active'[k] = 0 =>
          /\ \A r \in Requests : uses[r] # active[k]
          /\ now - sessions[active[k]].last >= Idle]_vars
=============================================================================
