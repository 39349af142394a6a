----------------------------- MODULE Lifecycle ------------------------------
(***************************************************************************)
(* main: the version tracker, the requests that are being served, the      *)
(* Reporter they keep active, and the way the process ends.  Every attempt *)
(* at the upstream carries the version the tracker held when its headers   *)
(* were made; the answer comes later, and only an accepted one enters the  *)
(* Reporter.  A signal makes net/http stop listening and wait, up to the   *)
(* drain time, for the requests it has; only then does main return and     *)
(* close the Reporter.  When the time is up, or when the listener fails,   *)
(* the process exits without closing anything.                             *)
(*                                                                         *)
(* A pinned version is a behaviour without a Refresh.                      *)
(***************************************************************************)
EXTENDS Reporter

CONSTANT NotSent   \* the version of a request that has not arrived

ASSUME NotSentAssumption == NotSent \notin Versions

VARIABLES
  version,   \* Tracker.v
  carried,   \* the version each request was last sent with
  tracked,   \* the requests Shutdown waits for
  main       \* where main is: serving, draining, closing, or exited with 0 or 1

lifecycle == <<version, carried, tracked, main>>
allVars   == <<vars, lifecycle>>

Exited == {"exit 0", "exit 1"}

InitLifecycle ==
  /\ Init
  /\ version \in Versions
  /\ carried = [r \in Requests |-> NotSent]
  /\ tracked = {}
  /\ main = "serving"

-----------------------------------------------------------------------------
(* The version tracker. *)

\* refresh: the registry answers, at the start or 24 hours after the last time;
\* a failure changes nothing.
Refresh ==
  /\ version' \in Versions \ {version}
  /\ UNCHANGED <<vars, carried, tracked, main>>

-----------------------------------------------------------------------------
(* Requests. *)

Waiting(r) == carried[r] # NotSent /\ uses[r] = Unused

\* Over is also the end of a request that had no session.
Return(r) == uses' = [uses EXCEPT ![r] = Over]

\* A request arrives and is sent upstream.  One whose connection was accepted just
\* before the signal may escape Shutdown's count (external: net/http tracks a
\* connection after it has accepted it).
Arrive(r) ==
  /\ carried[r] = NotSent
  /\ main # "serving" => r \notin tracked
  /\ carried' = [carried EXCEPT ![r] = version]
  /\ tracked' = IF main = "serving" THEN tracked \cup {r} ELSE tracked
  /\ UNCHANGED <<vars, version, main>>

\* The pool tries another key: the headers are made again.
Resend(r) ==
  /\ Waiting(r)
  /\ carried' = [carried EXCEPT ![r] = version]
  /\ UNCHANGED <<vars, version, tracked, main>>

\* Mutant: the Reporter is told the version of the moment, not the one that was sent.
AcceptNow(r, k) ==
  /\ Waiting(r)
  /\ Use(r, k, version) \/ UseNothing(r, k)
  /\ UNCHANGED lifecycle

\* The upstream accepts it: doInference takes the version from the request's header.
Accept(r, k) ==
  /\ Waiting(r)
  /\ Use(r, k, carried[r]) \/ UseNothing(r, k)
  /\ UNCHANGED lifecycle

\* It is refused, or its client leaves before the answer: no session is entered.
Refused(r) ==
  /\ Waiting(r) /\ Return(r)
  /\ UNCHANGED <<now, ended, active, sessions, queue, worker, closing, reports, lifecycle>>

\* Its body has been read or closed and its handler returns.
Served(r) ==
  /\ \/ Finish(r)
     \/ /\ uses[r] = None /\ Return(r)
        /\ UNCHANGED <<now, ended, active, sessions, queue, worker, closing, reports>>
  /\ UNCHANGED lifecycle

-----------------------------------------------------------------------------
(* The end. *)

Goes(from, to) == main = from /\ main' = to

ProcessOnly == UNCHANGED <<vars, version, carried, tracked>>

Signal == Goes("serving", "draining") /\ ProcessOnly

ListenerFails == Goes("serving", "exit 1") /\ ProcessOnly

\* Mutant: main returns as soon as the listener is closed.
DrainedAtOnce == Goes("draining", "closing") /\ ProcessOnly

Drained ==
  /\ \A r \in tracked : uses[r] = Over
  /\ Goes("draining", "closing") /\ ProcessOnly

DrainTimesOut == Goes("draining", "exit 1") /\ ProcessOnly

\* reporter.Close, deferred.
CloseReporter ==
  /\ main = "closing" /\ (Cancel \/ Drain)
  /\ UNCHANGED lifecycle

Exit ==
  /\ closing = "closed"
  /\ Goes("closing", "exit 0") /\ ProcessOnly

Gone == main \in Exited /\ UNCHANGED allVars

NextLifecycle ==
  \/ /\ main \notin Exited
     /\ \/ Refresh
        \/ \E r \in Requests :
             \/ Arrive(r) \/ Resend(r) \/ Refused(r) \/ Served(r)
             \/ \E k \in Keys : Accept(r, k)
        \/ (\E w \in Workers : WorkerSteps(w)) /\ UNCHANGED lifecycle
        \/ Tick /\ UNCHANGED lifecycle
        \/ Signal \/ ListenerFails \/ Drained \/ DrainTimesOut
        \/ CloseReporter \/ Exit
  \/ Gone

SpecLifecycle == InitLifecycle /\ [][NextLifecycle]_allVars

(* Shutdown returns, drained or at its deadline; the Reporter's calls end when its *)
(* context does, so a worker that can go on does.  Nothing is asked of requests.   *)
FairLifecycle ==
  /\ SpecLifecycle
  /\ WF_allVars(Drained \/ DrainTimesOut)
  /\ WF_allVars(CloseReporter) /\ WF_allVars(Exit)
  /\ \A w \in Workers : WF_allVars(main \notin Exited /\ WorkerSteps(w) /\ UNCHANGED lifecycle)

-----------------------------------------------------------------------------
(* Properties. *)

\* A session is only ever entered by requests the upstream saw with its version, so
\* what is reported of a device agrees with the traffic that is shown for it.
UsedAsSent ==
  \A r \in Requests : uses[r] \in Created => sessions[uses[r]].version = carried[r]

\* Once main has closed the Reporter nothing was cut off and nothing is left: every
\* request Shutdown counted has returned, the workers have stopped, and no job, with
\* the account's key in it, is in the queue, although uncounted requests go on.
GracefulIsWhole ==
  closing = "closed" =>
    /\ \A r \in tracked : uses[r] = Over
    /\ queue = <<>> /\ \A w \in Workers : worker[w].at = "stopped"

\* A signal ends the process, whatever requests and reports are under way.
ShutdownEnds == main = "draining" ~> main \in Exited
=============================================================================
