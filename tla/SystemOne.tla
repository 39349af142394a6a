----------------------------- MODULE SystemOne ------------------------------
(***************************************************************************)
(* System One (Jev): a request of named questions, checked before anything *)
(* is sent (ParseSystemOneRequest), an answer checked before anything is   *)
(* told (decodeSystemOneResponse), and the handler between them            *)
(* (handleSystemOne).                                                      *)
(*                                                                         *)
(* A question is [type, instructed, criteria, count, sound]:               *)
(*   instructed  its instructions are of a kind the schema allows;         *)
(*   criteria  "absent" (or null), "object", "array", or "other";          *)
(*   count     the set of names of an object, the length of an array;      *)
(*   sound     every value in it is of a kind the schema allows.           *)
(* An answer is [type, noul, choice, score, confidence, probabilities];    *)
(* Absent stands for a missing field, and numbers are in tenths.  A        *)
(* response is [sound, long, answers]: sound when it is JSON without an    *)
(* error, a failed success, negative usage or odd legends, long when it is *)
(* over the size limit.                                                    *)
(***************************************************************************)
EXTENDS Integers, FiniteSets, UpstreamError

CONSTANTS
  Options,         \* the names criteria may have
  DefaultOptions,  \* JevDefaultChoiceOptions
  MaxOptions,      \* JevMaxChoiceOptions
  MaxQuestions,    \* JevMaxQuestions
  MaxLevels,       \* the levels a score may have
  Absent

ASSUME LimitsAssumption ==
  /\ DefaultOptions \in Nat \ {0} /\ MaxOptions \in Nat /\ DefaultOptions <= MaxOptions
  /\ MaxQuestions \in Nat \ {0} /\ MaxLevels \in Nat \ {0, 1}

Refusal(status, code) == [status |-> status, code |-> code]
Fine == Refusal(200, "")
Invalid == Refusal(422, "invalid_request_error")

-----------------------------------------------------------------------------
(* The request. *)

\* Mutant: the lock is looked at before the limit of the upstream.
OptionsVerdictLockFirst(n, unlock) ==
  CASE n = 0                          -> Invalid
    [] n > 0 /\ ~unlock /\ n > DefaultOptions -> Refusal(422, "jev_choice_options_locked")
    [] n > MaxOptions /\ unlock       -> Refusal(422, "jev_choice_options_exceeded")
    [] OTHER                          -> Fine

\* The number of a Choice's options.
OptionsVerdict(n, unlock) ==
  CASE n = 0          -> Invalid
    [] n > MaxOptions -> Refusal(422, "jev_choice_options_exceeded")
    [] n \in 1..MaxOptions /\ ~unlock /\ n > DefaultOptions
                      -> Refusal(422, "jev_choice_options_locked")
    [] OTHER          -> Fine

Require(holds) == IF holds THEN Fine ELSE Invalid

First(a, b) == IF a # Fine THEN a ELSE b

\* validateSystemOneCriteria.
CriteriaVerdict(q, unlock) ==
  CASE q.type = "noul" /\ q.criteria = "absent" -> Fine
    [] q.type = "noul" /\ q.criteria = "object" ->
         Require(q.count \subseteq {"true", "false"} /\ q.sound)
    [] q.type = "choice" /\ q.criteria = "object" ->
         First(OptionsVerdict(Cardinality(q.count), unlock), Require(q.sound))
    [] q.type = "score" /\ q.criteria = "array" ->
         Require(q.count \in 2..MaxLevels /\ q.sound)
    [] OTHER -> Invalid

QuestionVerdict(q, unlock) == First(Require(q.instructed), CriteriaVerdict(q, unlock))

\* ParseSystemOneRequest, for a body with a known model; odd if it asks for a stream, or if
\* its state is missing or of a kind the schema does not allow.  Questions are looked at in
\* the random order of a Go map, and the first fault is told: any of them may be.
RequestVerdicts(questions, odd, unlock) ==
  LET n == Cardinality(DOMAIN questions)
      faults == {QuestionVerdict(questions[q], unlock) : q \in DOMAIN questions} \ {Fine}
  IN CASE odd \/ n \notin 1..MaxQuestions -> {Invalid}
       [] ~odd /\ n \in 1..MaxQuestions /\ "" \in DOMAIN questions -> {Invalid} \cup faults
       [] OTHER -> IF faults = {} THEN {Fine} ELSE faults

-----------------------------------------------------------------------------
(* The response. *)

Unit == 0..10

Within(x, range) == x = Absent \/ x \in range

\* Mutant: probabilities of other options pass if their number is right.
CoversByCount(p, options) == Cardinality(DOMAIN p) = Cardinality(options)

\* The probabilities are those of the options, all of them.
Covers(p, options) ==
  Cardinality(DOMAIN p) = Cardinality(options) /\ \A o \in DOMAIN p : o \in options

\* The answer to one question; fields of other types are not looked at.
AnswerFits(q, a) ==
  /\ a.type = q.type
  /\ Within(a.confidence, Unit)
  /\ a.probabilities # Absent => \A o \in DOMAIN a.probabilities : a.probabilities[o] \in Unit
  /\ CASE q.type = "noul"   -> a.noul # Absent /\ a.noul \in Unit
       [] q.type = "choice" -> /\ a.choice # Absent /\ a.choice \in q.count
                               /\ a.probabilities # Absent => Covers(a.probabilities, q.count)
       [] q.type = "score"  -> a.score # Absent /\ a.score \in 0..((q.count - 1) * 10)

\* Mutant: answers to questions that were not asked pass along.
DecodesSuperset(questions, response) ==
  /\ response.sound
  /\ \A q \in DOMAIN questions :
       q \in DOMAIN response.answers /\ AnswerFits(questions[q], response.answers[q])

\* decodeSystemOneResponse.
Decodes(questions, response) ==
  /\ response.sound
  /\ Cardinality(DOMAIN response.answers) = Cardinality(DOMAIN questions)
  /\ \A q \in DOMAIN questions :
       q \in DOMAIN response.answers /\ AnswerFits(questions[q], response.answers[q])

\* The client's own APIError for a response it cannot use.
Unusable(code) == [kind |-> "api", status |-> 502, codes |-> {code}, text |-> "none", retry |-> 0]

Usable == [kind |-> "none"]

\* Client.SystemOne, once the upstream has answered with a 2xx status.
Judged(questions, response) ==
  CASE response.long -> Unusable("upstream_response_too_large")
    [] ~response.long /\ ~Decodes(questions, response) -> Unusable("upstream_invalid_response")
    [] OTHER -> Usable

-----------------------------------------------------------------------------
(* The handler. *)

Told(status, result) == [status |-> status, result |-> result]

\* The status writeSystemOneError gives an error of the pool or of the call.
ErrorStatus(e) ==
  CASE e.kind = "unavailable" -> 503
    [] e.kind \in {"interrupted", "timeout"} -> 504
    [] e.kind = "transport"   -> 502
    [] OTHER                  -> SystemOneAnswer(e).status

\* handleSystemOne after the pool has returned: status 0 when nothing is written.
Handled(outcome, gone) ==
  CASE outcome.kind = "none"           -> Told(200, "ok")
    [] outcome.kind # "none" /\ gone   -> Told(0, "canceled")
    [] OTHER                           -> Told(ErrorStatus(outcome), "upstream_error")
=============================================================================
