---------------------------- MODULE Translation -----------------------------
(***************************************************************************)
(* The pure translations of the proxy, one input per state: failures of    *)
(* the upstream, bodies it may stream, conversations clients may send,     *)
(* exchanges with System One.  Conversations and bodies grow as clients    *)
(* and the upstream extend them.                                           *)
(***************************************************************************)
EXTENDS UpstreamError, StreamReader, Convert, SystemOne

CONSTANTS
  Failures,    \* [http, payload, retry]: an HTTP status, what comes with it, a Retry-After
  Messages,    \* the messages of conversations
  Requests,    \* the questions asked of System One, by their names
  Responses,   \* what comes back
  MaxLines, MaxMessages

\* Names and texts are those the code looks for; JSON objects are finite.
ASSUME InputsAssumption ==
  /\ Failures \subseteq [http : Nat, payload : Payloads, retry : Nat]
  /\ \A m \in Messages :
       /\ m.parts \in Seq(Parts) /\ m.calls \in Seq(Calls) /\ m.reasoning \in Seq(Words)
       /\ m.id \in STRING /\ m.name \in STRING /\ m.role \in STRING
  /\ \A questions \in Requests :
       /\ IsFiniteSet(DOMAIN questions)
       /\ \A q \in DOMAIN questions : questions[q].type = "choice" => IsFiniteSet(questions[q].count)
  /\ \A response \in Responses : IsFiniteSet(DOMAIN response.answers)

VARIABLES
  of,      \* the translation the input is for
  input

vars == <<of, input>>

-----------------------------------------------------------------------------
Init ==
  \/ of = "failure" /\ input \in Failures
  \/ of = "body" /\ input \in [lines : {<<>>}, tail : Lines, end : Ends]
  \/ of = "conversation" /\ input = <<>>
  \/ of = "exchange" /\ input \in [questions : Requests, unlock : {FALSE}, response : Responses]

\* The stream goes on for another line before it ends.
Longer ==
  /\ of = "body" /\ Len(input.lines) < MaxLines
  /\ \E line \in Lines : input' = [input EXCEPT !.lines = Append(@, line)]
  /\ UNCHANGED of

\* The client sends the conversation again with one more message.
Grow ==
  /\ of = "conversation" /\ Len(input) < MaxMessages
  /\ \E m \in Messages : input' = Append(input, m)
  /\ UNCHANGED of

\* The proxy is restarted with the options unlocked.
Unlock ==
  /\ of = "exchange" /\ ~input.unlock
  /\ input' = [input EXCEPT !.unlock = TRUE]
  /\ UNCHANGED of

Next == Longer \/ Grow \/ Unlock

Spec == Init /\ [][Next]_vars

-----------------------------------------------------------------------------
Failure1 == HTTPFailure(input.http, input.payload, input.retry)

\* Nothing a client can cause opens a breaker or makes the pool burn through its
\* keys: an oversized request, a missing zero-retention route and a spend cap keep
\* the key and stop, whatever status a gateway wraps them in (IsRequestTooLarge:
\* "even when a gateway wraps it in 403/429").
ClientFaultsKeepKeys ==
  of = "failure" =>
    \A systemOne \in BOOLEAN :
      IsRequestTooLarge(Failure1) \/ IsZDRUnavailable(Failure1) \/ IsSpendCapExceeded(Failure1) =>
        ~Rotates(Failure1, systemOne)

\* The two switches over the same error agree: the chat client is told of a bad or
\* exhausted account exactly when the pool opened that account's breaker, and is
\* told it is the request's own fault only if the pool kept the key.
ChatAgreesWithPool ==
  of = "failure" =>
    LET answer == ChatAnswer(Failure1)
    IN /\ Trips(Failure1, FALSE) <=>
            answer.type \in {"billing_error", "rate_limit_error", "upstream_auth_error"}
       /\ answer.type = "plan_error" <=> PoolArm(Failure1, FALSE) = "not_in_plan"
       /\ answer.status \in {404, 413} => ~Rotates(Failure1, FALSE)

\* An upstream outage is not an account's fault and is not hidden as one: the pool
\* neither opens a breaker nor rotates, and the client may retry (a 5xx answer).
OutageIsSurfaced ==
  of = "failure" =>
    \A systemOne \in BOOLEAN :
      PoolArm(Failure1, systemOne) = "outage" =>
        /\ ~Rotates(Failure1, systemOne)
        /\ ChatAnswer(Failure1).status \in 500..599
        /\ SystemOneAnswer(Failure1).status \in 500..599

\* A payload in an error event: as text behind the status, or in the event's own fields.
Wrapped(p, http, rest)    == ErrorEvent(Payload(0, "", "", "none"), p, http, rest)
InFields(p, status, rest) == ErrorEvent(Payload(status, p.code, p.type, p.text), NoPayload, 0, rest)

\* The answers that tell of an account which the same request cannot use.
Terminal == {"billing_error", "plan_error"}

\* Of the names a failure has only those that are markers, and the status that belongs to
\* the markers of its event's line.
MarkersAlone(ev, e) ==
  /\ e.codes \subseteq {"MODEL_NOT_IN_PLAN", "premium_credits_exhausted"}
  /\ e.text \in Markers \cup {"none"}
  /\ \/ /\ "model_not_in_plan" \notin InLine(ev)
        /\ \/ e.status = 402
           \/ e.status = 400 /\ e.text = "insufficient credits"
     \/ InLine(ev) = {"model_not_in_plan"} /\ ev.rest = "none" /\ e.status = 403

\* A failure is the same failure inside a stream: in an event's own fields, or wrapped
\* as text with its status in front, it is read as over HTTP ("classifyUpstreamError is
\* shared by HTTP and in-band stream failures").  What the client is told differs only
\* through the markers, which TerminalError looks for in the whole line, codes and types
\* included, before any other arm: the answer is final exactly if it is over HTTP or there
\* is a marker, and it is that of HTTP where no marker is, or where the markers are alone
\* and come with their own status.
InBandAgrees ==
  of = "failure" /\ input.http \in ErrorStatuses /\ input.retry = 0 =>
    \A rest \in Markers \cup {"none"} :
      \A ev \in {Wrapped(input.payload, input.http, rest), InFields(input.payload, Failure1.status, rest)} :
        LET told == InBandAnswer(ev)
            over == ChatAnswer(Failure1)
        IN /\ EventFailure(ev) = Failure1
           /\ told.type \in Terminal <=> InLine(ev) # {} \/ over.type \in Terminal
           /\ InLine(ev) = {} \/ MarkersAlone(ev, Failure1) => told = over

\* See Faithful: every event before the first fault, in order, then the right blame.
EventsAreDelivered == of = "body" => Faithful(input)

\* See SystemTextIsSame: marks for caching change no word of the system prompt.
SystemTextIsIdentical ==
  of = "conversation" /\ ~Unsendable(input) => SystemTextIsSame(input)

\* See ToolsArePaired: no call or result is lost, and each result finds its call's name.
ToolsStayPaired ==
  of = "conversation" /\ ~Unsendable(input) => ToolsArePaired(input)

HasTurn(messages) == \E i \in DOMAIN messages : ~IsSystem(messages[i])

\* A conversation keeps its root, and with it its session, while it grows: whatever is
\* appended after its first turn, system messages included.
RootIsStable ==
  [][of = "conversation" /\ HasTurn(input) => Root(input') = Root(input)]_vars

\* Exactly the questions' answers, each Choice one of its options with all of their
\* probabilities.
IsWhole(questions, response) ==
  /\ response.sound /\ DOMAIN response.answers = DOMAIN questions
  /\ \A x \in DOMAIN questions : questions[x].type = "choice" =>
       /\ response.answers[x].choice \in questions[x].count
       /\ response.answers[x].probabilities # Absent =>
            DOMAIN response.answers[x].probabilities = questions[x].count

\* The answer is passed on; it is rejected, as an outage that no key pays for, and nothing
\* is written to a client that has gone.
IsPassedOn(outcome) == Handled(outcome, FALSE).status = 200

IsRejected(outcome) ==
  /\ ~Rotates(outcome, TRUE)
  /\ Handled(outcome, FALSE).status \in 500..599
  /\ Handled(outcome, TRUE).status = 0

IsLocked(verdict) == verdict.code = "jev_choice_options_locked"

\* System One never passes on an answer that does not answer: a 200 has exactly the
\* questions' answers, each Choice one of its options with all of their probabilities.
\* An answer it rejects costs no key its breaker and is an outage to the client; only
\* failures that may pass tell it to wait; and the lock of the options is blamed only
\* if lifting it helps, in whatever order the questions are looked at.
SystemOneIsWhole ==
  /\ of = "exchange" =>
       LET q        == input.questions
           verdicts == RequestVerdicts(q, FALSE, input.unlock)
           outcome  == Judged(q, input.response)
       IN /\ \A v \in verdicts : IsLocked(v) =>
               \E x \in DOMAIN q : q[x].type = "choice" /\ Cardinality(q[x].count) <= MaxOptions
          /\ Fine \in verdicts => verdicts = {Fine} /\ RequestVerdicts(q, FALSE, TRUE) = {Fine}
          /\ Fine \in verdicts /\ IsPassedOn(outcome) => IsWhole(q, input.response)
          /\ outcome # Usable => IsRejected(outcome)
  /\ of = "failure" /\ SystemOneRetry(Failure1) > 0 =>
       \/ SystemOneAnswer(Failure1).status = 429
       \/ SystemOneAnswer(Failure1).status \in 500..599
=============================================================================
