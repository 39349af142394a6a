------------------------------ MODULE ChatIdle ------------------------------
(***************************************************************************)
(* server.chatIdle: the watchdog of one upstream conversation.  The        *)
(* handler brackets every wait for the upstream, the call that opens the   *)
(* stream and each Read of its body, with begin and end; one timer is      *)
(* reused for all of them.  A timer that has fired runs expire in a        *)
(* goroutine of its own, which neither Stop nor Reset can take back: it    *)
(* may run during a later read, between two reads, or after close.         *)
(*                                                                         *)
(* Time is kept as what is left, so a behaviour may go on for ever: Tick   *)
(* lowers the timer and the deadline and raises the time the current wait  *)
(* has lasted, up to Idle.  A timer may fire late, never early.            *)
(***************************************************************************)
EXTENDS Integers

CONSTANTS
  Idle,          \* chatIdle.idle, in ticks
  MaxCallbacks   \* bound on the callbacks that have fired and not yet run

ASSUME IdleAssumption == Idle \in Nat \ {0}
ASSUME CallbacksAssumption == MaxCallbacks \in Nat \ {0}

VARIABLES
  handler,    \* where the handler is: between waits, in one, back from one, or closed
  outcome,    \* what the wait returned before end looked at it
  seen,       \* what end made of it
  waiting,    \* chatIdle.waiting
  timer,      \* ticks until chatIdle.timer fires, Off when it is not running
  deadline,   \* ticks until chatIdle.deadline, 0 when it has passed
  cause,      \* context.Cause(chatIdle.ctx), "none" while it is live
  callbacks,  \* expire goroutines that have not taken the lock yet
  waited      \* history: how long the current wait has lasted

watchdog == <<handler, outcome, seen, waiting, timer, deadline, cause, callbacks, waited>>

Off == -1

InitIdle ==
  /\ handler = "between" /\ outcome = "data" /\ seen = "data"
  /\ waiting = FALSE /\ timer = Off /\ deadline = 0
  /\ cause = "none" /\ callbacks = 0 /\ waited = 0

-----------------------------------------------------------------------------
(* The handler. *)

Cancelled == cause # "none"

\* Read (or the call to Generate): begin, then wait.  begin leaves a context that
\* has ended alone.
Begin ==
  /\ handler = "between" /\ seen = "data"
  /\ handler' = "reading" /\ waited' = 0
  /\ IF Cancelled THEN UNCHANGED <<waiting, timer, deadline>>
     ELSE waiting' = TRUE /\ timer' = Idle /\ deadline' = Idle
  /\ UNCHANGED <<outcome, seen, cause, callbacks>>

\* The wait is over: bytes, an error of the upstream's, or the context's end.
Return(r) ==
  /\ handler = "reading"
  /\ r = "canceled" => Cancelled
  /\ handler' = "returned" /\ outcome' = r
  /\ UNCHANGED <<seen, waiting, timer, deadline, cause, callbacks, waited>>

\* Mutant: a read of nothing starts the wait again.
ReadNothingRenews ==
  /\ handler = "reading" /\ ~Cancelled
  /\ timer' = Idle /\ deadline' = Idle
  /\ UNCHANGED <<handler, outcome, seen, waiting, cause, callbacks, waited>>

\* The body returns no bytes and no error: the wait goes on, nothing is renewed.
ReadNothing ==
  /\ handler = "reading" /\ ~Cancelled
  /\ UNCHANGED watchdog

\* end: the cause of the context's end replaces whatever the wait returned.
End ==
  /\ handler = "returned"
  /\ handler' = "between" /\ waiting' = FALSE /\ timer' = Off
  /\ seen' = IF Cancelled THEN cause ELSE outcome
  /\ UNCHANGED <<outcome, deadline, cause, callbacks, waited>>

\* The handler returns: after a failed wait, or for a reason of its own.
Close ==
  /\ handler = "between"
  /\ handler' = "closed" /\ waiting' = FALSE /\ timer' = Off
  /\ cause' = IF Cancelled THEN cause ELSE "canceled"
  /\ UNCHANGED <<outcome, seen, deadline, callbacks, waited>>

-----------------------------------------------------------------------------
(* The runtime and the client. *)

\* The timer fires: it stops running and starts a callback.
Fire ==
  /\ timer = 0 /\ callbacks < MaxCallbacks
  /\ timer' = Off /\ callbacks' = callbacks + 1
  /\ UNCHANGED <<handler, outcome, seen, waiting, deadline, cause, waited>>

\* Mutant: a callback trusts the timer that started it.
ExpireUnchecked ==
  /\ callbacks > 0 /\ callbacks' = callbacks - 1
  /\ IF handler = "closed" \/ ~waiting \/ Cancelled
     THEN UNCHANGED <<waiting, timer, cause>>
     ELSE waiting' = FALSE /\ cause' = "idle" /\ UNCHANGED timer
  /\ UNCHANGED <<handler, outcome, seen, deadline, waited>>

\* Mutant: a callback that finds nobody waiting keeps the timer going.
ExpireRearms ==
  /\ callbacks > 0 /\ callbacks' = callbacks - 1
  /\ IF deadline > 0 THEN timer' = deadline /\ UNCHANGED <<waiting, cause>>
     ELSE IF waiting /\ ~Cancelled THEN waiting' = FALSE /\ cause' = "idle" /\ UNCHANGED timer
     ELSE UNCHANGED <<waiting, timer, cause>>
  /\ UNCHANGED <<handler, outcome, seen, deadline, waited>>

\* Mutant: a callback that is early stops the timer.
ExpireStops ==
  /\ callbacks > 0 /\ callbacks' = callbacks - 1
  /\ IF handler = "closed" \/ ~waiting \/ Cancelled \/ deadline > 0
     THEN timer' = Off /\ UNCHANGED <<waiting, cause>>
     ELSE waiting' = FALSE /\ cause' = "idle" /\ UNCHANGED timer
  /\ UNCHANGED <<handler, outcome, seen, deadline, waited>>

\* expire: a callback cancels the wait whose deadline has passed, and only that one;
\* one that is early runs again at the deadline.
Expire ==
  /\ callbacks > 0 /\ callbacks' = callbacks - 1
  /\ CASE handler = "closed" \/ ~waiting \/ Cancelled ->
            UNCHANGED <<waiting, timer, cause>>
       [] ~(handler = "closed" \/ ~waiting \/ Cancelled) /\ deadline > 0 ->
            timer' = deadline /\ UNCHANGED <<waiting, cause>>
       [] OTHER ->
            waiting' = FALSE /\ cause' = "idle" /\ UNCHANGED timer
  /\ UNCHANGED <<handler, outcome, seen, deadline, waited>>

\* The client leaves: the parent context ends.
ClientLeaves ==
  /\ ~Cancelled /\ handler # "closed"
  /\ cause' = "canceled"
  /\ UNCHANGED <<handler, outcome, seen, waiting, timer, deadline, callbacks, waited>>

\* Mutant: the clock runs past zero.
LessAlways(n) == n - 1

Less(n) == IF n > 0 THEN n - 1 ELSE n

Tick ==
  /\ timer' = Less(timer)
  /\ deadline' = Less(deadline)
  /\ waited' = IF waited < Idle THEN waited + 1 ELSE waited
  /\ UNCHANGED <<handler, outcome, seen, waiting, cause, callbacks>>

Returned == {"data", "failed", "canceled"}

NextIdle ==
  \/ Begin \/ ReadNothing \/ End \/ Close
  \/ \E r \in Returned : Return(r)
  \/ Fire \/ Expire \/ ClientLeaves \/ Tick

SpecIdle == InitIdle /\ [][NextIdle]_watchdog

(* Time passes, a timer that is due fires, a callback gets the lock, a body whose *)
(* context has ended returns from Read, and the handler goes on to end.  Nothing  *)
(* is assumed of the upstream.                                                    *)
FairIdle ==
  /\ SpecIdle
  /\ WF_watchdog(Tick) /\ WF_watchdog(Fire) /\ WF_watchdog(Expire)
  /\ WF_watchdog(Return("canceled")) /\ WF_watchdog(End)

-----------------------------------------------------------------------------
(* Properties. *)

\* Every variable keeps its type: what is left of a wait is never negative.
TypeOK ==
  /\ handler \in {"between", "reading", "returned", "closed"}
  /\ outcome \in Returned
  /\ seen \in Returned \cup {"idle"}
  /\ waiting \in BOOLEAN
  /\ timer \in Off..Idle /\ deadline \in 0..Idle /\ waited \in 0..Idle
  /\ cause \in {"none", "canceled", "idle"}
  /\ callbacks \in 0..MaxCallbacks

\* A wait is called idle only after it lasted the whole idle time: never by the
\* callback of an earlier wait, and never between waits, while the handler writes
\* to a slow client.
OnlyIdleWaitsExpire ==
  [][cause' = "idle" /\ cause # "idle" =>
       handler \in {"reading", "returned"} /\ waited = Idle]_watchdog

\* A wait in progress is always watched: the timer will fire at its deadline, or a
\* callback is on its way that will look at it.
AlwaysWatched ==
  waiting /\ cause = "none" => timer = deadline \/ callbacks > 0

\* After close, nothing runs the timer again: it cannot outlive the request.
NoTimerAfterClose ==
  handler = "closed" => timer = Off /\ ~waiting

\* The timer runs, or is looked at, exactly as long as there is something to watch.
TimerFollowsWait == AlwaysWatched /\ NoTimerAfterClose

\* An upstream that falls silent, or keeps a read spinning without a byte, holds a
\* handler no longer than the idle time: every wait ends.
WaitsEnd ==
  handler = "reading" ~> handler # "reading"
=============================================================================
