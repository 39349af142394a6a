--------------------------- MODULE UpstreamError ---------------------------
(***************************************************************************)
(* The vocabulary of a failed upstream call, and the decisions separate    *)
(* switch statements take over it: what the key pool does with the key     *)
(* (keypool.reportFailure), what a chat client is told                     *)
(* (server.classifyUpstreamError, terminalErrorStatus for an error inside  *)
(* a stream) and what a System One client is told                          *)
(* (server.writeSystemOneError).                                           *)
(*                                                                         *)
(* A failure is a record:                                                  *)
(*   kind   "interrupted" (context canceled, or its deadline exceeded),    *)
(*          "timeout"     (a net.Error that timed out in another way),     *)
(*          "transport"   (any other error that is not an APIError), or    *)
(*          "api"         (commandcode.APIError);                          *)
(*   status the HTTP status of an APIError;                                *)
(*   codes  the recognised names found in its Code and Type fields:        *)
(*          single words ("authentication_error" stands for                *)
(*          "invalid_api_key" too, the two are always asked for together); *)
(*   text   the recognised marker found in its message, or "none";         *)
(*   retry  its Retry-After in ticks, 0 when the header is absent or       *)
(*          unusable.                                                      *)
(***************************************************************************)
EXTENDS Naturals, FiniteSets

Codes == {"insufficient_credits", "USAGE_EXCEEDED", "CMD_ZDR_NO_PROVIDERS",
          "upgrade_required", "MODEL_NOT_IN_PLAN", "unsupported_model",
          "request_too_large", "authentication_error",
          \* no predicate asks for it, but it is a marker of streams
          "premium_credits_exhausted",
          \* the client's own, for a System One response it cannot use
          "upstream_response_too_large", "upstream_invalid_response"}

Texts == {"none", "premium_credits_exhausted", "insufficient credits", "model_not_in_plan",
          "model/provider not recognized", "over the size limit"}

Failure == [kind   : {"interrupted", "timeout", "transport", "api"},
            status : Nat,
            codes  : SUBSET Codes,
            text   : Texts,
            retry  : Nat]

HasCode(e, code) == e.codes \cap {code} # {}

-----------------------------------------------------------------------------
(* The predicates of commandcode.APIError; each is false of an error that is not one. *)

IsAPI(e)         == e.kind = "api"
IsInterrupted(e) == e.kind = "interrupted"

IsInsufficientCredits(e) ==
  /\ IsAPI(e)
  /\ \/ e.status = 402
     \/ HasCode(e, "insufficient_credits")
     \/ e.status = 400 /\ e.text = "insufficient credits"

IsRateLimited(e) == IsAPI(e) /\ e.status = 429

IsRequestTooLarge(e) ==
  /\ IsAPI(e)
  /\ \/ e.status = 413
     \/ HasCode(e, "request_too_large")
     \/ e.text = "over the size limit"

IsSpendCapExceeded(e) == IsAPI(e) /\ HasCode(e, "USAGE_EXCEEDED")

IsZDRUnavailable(e) == IsAPI(e) /\ HasCode(e, "CMD_ZDR_NO_PROVIDERS")

IsModelNotInPlan(e) ==
  /\ IsAPI(e)
  /\ \/ HasCode(e, "upgrade_required")
     \/ HasCode(e, "MODEL_NOT_IN_PLAN")
     \/ e.status = 403 /\ e.text = "model_not_in_plan"

IsModelNotRecognized(e) ==
  /\ IsAPI(e)
  /\ \/ HasCode(e, "unsupported_model")
     \/ e.status = 403 /\ e.text = "model/provider not recognized"

HasAuthCode(e) == HasCode(e, "authentication_error")

\* What the switches ask of the status alone.
IsForbidden(e)   == IsAPI(e) /\ e.status = 403
IsRefused(e)     == IsAPI(e) /\ e.status \in {401, 403}
IsKeyRefused(e)  == IsRefused(e) /\ (e.status = 401 \/ HasAuthCode(e))
IsClientError(e) == IsAPI(e) /\ e.status \in 400..499
IsServerError(e) == IsAPI(e) /\ e.status \in 500..599

-----------------------------------------------------------------------------
(* A Go switch: its arms in source order, the first whose guard holds decides. *)

Arm(when, then) == [when |-> when, then |-> then]

FirstArm(arms) ==
  LET holding == {i \in DOMAIN arms : arms[i].when}
  IN  arms[CHOOSE i \in holding : \A j \in holding : i <= j].then

\* On the System One path a 403 may mean the request and not the key.
IsPermission(e, systemOne) == systemOne /\ IsForbidden(e) /\ ~HasAuthCode(e)

\* Mutant: account failures are recognised before failures of the request.
PoolArmAccountFirst(e, systemOne) ==
  FirstArm(<<
    Arm(IsInterrupted(e),                        "interrupted"),
    Arm(IsInsufficientCredits(e),                "credits"),
    Arm(IsRateLimited(e),                        "rate_limited"),
    Arm(IsRequestTooLarge(e),                    "too_large"),
    Arm(IsZDRUnavailable(e),                     "zdr"),
    Arm(IsSpendCapExceeded(e),                   "spend_cap"),
    Arm(IsModelNotInPlan(e),                     "not_in_plan"),
    Arm(IsModelNotRecognized(e),                 "not_recognized"),
    Arm(IsRefused(e),                            "auth"),
    Arm(TRUE,                                    "outage") >>)

\* keypool.reportFailure: the arm taken, named for the class of failure.
PoolArm(e, systemOne) ==
  FirstArm(<<
    Arm(IsInterrupted(e),                        "interrupted"),
    Arm(IsRequestTooLarge(e),                    "too_large"),
    Arm(IsZDRUnavailable(e),                     "zdr"),
    Arm(IsSpendCapExceeded(e),                   "spend_cap"),
    Arm(IsInsufficientCredits(e),                "credits"),
    Arm(IsRateLimited(e),                        "rate_limited"),
    Arm(IsModelNotInPlan(e),                     "not_in_plan"),
    Arm(IsModelNotRecognized(e),                 "not_recognized"),
    Arm(IsPermission(e, systemOne),              "permission"),
    Arm(IsRefused(e),                            "auth"),
    Arm(IsClientError(e),                        "request"),
    Arm(TRUE,                                    "outage") >>)

\* Mutant: an outage is blamed on the key.
TripsOnOutage(e, systemOne) ==
  PoolArm(e, systemOne) \in {"credits", "rate_limited", "auth", "outage"}

\* The arms that open the breaker of the key that failed.
Trips(e, systemOne) == PoolArm(e, systemOne) \in {"credits", "rate_limited", "auth"}

\* The arms after which withKey tries the next key.
Rotates(e, systemOne) == Trips(e, systemOne) \/ PoolArm(e, systemOne) = "not_in_plan"

-----------------------------------------------------------------------------
Answer(status, type) == [status |-> status, type |-> type]

\* Mutant: the plan marker is looked for before the rate limit.
ChatAnswerPlanFirst(e) ==
  FirstArm(<<
    Arm(IsRequestTooLarge(e),       Answer(413, "invalid_request_error")),
    Arm(IsZDRUnavailable(e),        Answer(403, "zdr_error")),
    Arm(IsSpendCapExceeded(e),      Answer(403, "spend_limit_error")),
    Arm(IsInsufficientCredits(e),   Answer(402, "billing_error")),
    Arm(IsModelNotInPlan(e),        Answer(403, "plan_error")),
    Arm(IsRateLimited(e),           Answer(429, "rate_limit_error")),
    Arm(IsModelNotRecognized(e),    Answer(404, "invalid_request_error")),
    Arm(IsRefused(e),               Answer(502, "upstream_auth_error")),
    Arm(IsServerError(e),           Answer(e.status, "server_error")),
    Arm(TRUE,                       Answer(502, "upstream_error")) >>)

\* server.classifyUpstreamError, for an APIError met on the chat path.
ChatAnswer(e) ==
  FirstArm(<<
    Arm(IsRequestTooLarge(e),       Answer(413, "invalid_request_error")),
    Arm(IsZDRUnavailable(e),        Answer(403, "zdr_error")),
    Arm(IsSpendCapExceeded(e),      Answer(403, "spend_limit_error")),
    Arm(IsInsufficientCredits(e),   Answer(402, "billing_error")),
    Arm(IsRateLimited(e),           Answer(429, "rate_limit_error")),
    Arm(IsModelNotInPlan(e),        Answer(403, "plan_error")),
    Arm(IsModelNotRecognized(e),    Answer(404, "invalid_request_error")),
    Arm(IsRefused(e),               Answer(502, "upstream_auth_error")),
    Arm(IsServerError(e),           Answer(e.status, "server_error")),
    Arm(TRUE,                       Answer(502, "upstream_error")) >>)

\* server.writeSystemOneError, for an APIError: its arms come in another order.
SystemOneAnswer(e) ==
  FirstArm(<<
    Arm(IsZDRUnavailable(e),        Answer(403, "zdr_error")),
    Arm(IsSpendCapExceeded(e),      Answer(403, "spend_limit_error")),
    Arm(IsInsufficientCredits(e),   Answer(402, "billing_error")),
    Arm(IsModelNotInPlan(e),        Answer(403, "plan_error")),
    Arm(IsKeyRefused(e),            Answer(502, "upstream_auth_error")),
    Arm(IsForbidden(e),             Answer(403, "permission_error")),
    Arm(IsRateLimited(e),           Answer(429, "rate_limit_error")),
    Arm(IsClientError(e),           Answer(e.status, "invalid_request_error")),
    Arm(IsServerError(e),           Answer(e.status, "server_error")),
    Arm(TRUE,                       Answer(502, "upstream_error")) >>)

\* Mutant: the upstream's figure is passed on whatever the failure.
SystemOneRetryAny(e) == e.retry

\* The Retry-After seconds put on a System One answer: only its rate-limit and
\* 503/529 arms set a retry, and only those take the upstream's own figure.
SystemOneRetry(e) ==
  LET type == SystemOneAnswer(e).type
      own  == IF \/ type = "rate_limit_error"
                 \/ type = "server_error" /\ e.status \in {503, 529}
              THEN 10 ELSE 0
  IN  IF own > 0 /\ e.retry > 0 THEN e.retry ELSE own

-----------------------------------------------------------------------------
(* The two ways a failure is read.  A payload is the upstream's JSON error object,   *)
(* [status, code, type, text]: status 0 and the name "" when absent.                 *)

ErrorStatuses == 400..599

API(status, code, type, text, retry) ==
  [kind |-> "api", status |-> status, codes |-> {code, type} \ {""}, text |-> text, retry |-> retry]

\* parseAPIError: the payload's own status outranks that of HTTP.
HTTPFailure(http, p, retry) ==
  API(IF p.status \in ErrorStatuses THEN p.status ELSE http, p.code, p.type, p.text, retry)

Payload(status, code, type, text) == [status |-> status, code |-> code, type |-> type, text |-> text]

Names    == Codes \cup {""}
Payloads == [status : Nat, code : Names, type : Names, text : Texts]

NoPayload == Payload(0, "", "", "")

(* An error event in a stream: its payload "own"; another one embedded in its          *)
(* message, behind the number "prefix", or NoPayload; and what the other fields of its *)
(* line hold.  A message outside the error object comes without names, so it makes no  *)
(* difference where it is.                                                             *)
ErrorEvent(own, embedded, prefix, rest) ==
  [own |-> own, embedded |-> embedded, prefix |-> prefix, rest |-> rest]

FirstOf(a, b) == IF a # "" THEN a ELSE b

EventStatus(ev) ==
  CASE ev.embedded.status \in ErrorStatuses -> ev.embedded.status
    [] ev.embedded.status \notin ErrorStatuses /\ ev.prefix \in ErrorStatuses -> ev.prefix
    [] OTHER -> IF ev.own.status \in ErrorStatuses THEN ev.own.status ELSE 502

\* Event.APIError: the embedded fields outrank the outer ones, one by one.
EventFailure(ev) ==
  API(EventStatus(ev), FirstOf(ev.embedded.code, ev.own.code), FirstOf(ev.embedded.type, ev.own.type),
      FirstOf(ev.embedded.text, ev.own.text), 0)

Markers == {"premium_credits_exhausted", "model_not_in_plan", "insufficient credits"}

\* The marker a name holds in lower case.
Lower(name) == IF name = "MODEL_NOT_IN_PLAN" THEN "model_not_in_plan" ELSE name

\* The markers in a payload, in its names as in its text.
MarkersOf(p) == Markers \cap {Lower(p.code), Lower(p.type), p.text}

\* The markers in the message of an event, and in its whole line.
InMessage(ev) == (Markers \cap {ev.own.text}) \cup MarkersOf(ev.embedded)
InLine(ev)    == InMessage(ev) \cup MarkersOf(ev.own) \cup (Markers \cap {ev.rest})

\* The one that is looked for first.
FirstMarker(found) ==
  CASE "premium_credits_exhausted" \in found -> "premium_credits_exhausted"
    [] "premium_credits_exhausted" \notin found /\ "model_not_in_plan" \in found -> "model_not_in_plan"
    [] OTHER -> "insufficient credits"

\* Mutant: only the message is searched.
TerminalMarkerMessage(ev) == IF InMessage(ev) # {} THEN FirstMarker(InMessage(ev)) ELSE "none"

\* TerminalError: a marker of the message, else one anywhere in the line.
TerminalMarker(ev) ==
  CASE InMessage(ev) # {}                       -> FirstMarker(InMessage(ev))
    [] InMessage(ev) = {} /\ InLine(ev) # {}    -> FirstMarker(InLine(ev))
    [] OTHER                                    -> "none"

\* terminalErrorStatus.
TerminalAnswer(marker) ==
  IF marker = "model_not_in_plan" THEN Answer(403, "plan_error") ELSE Answer(402, "billing_error")

\* What the client of a stream is told of an error event.
InBandAnswer(ev) ==
  IF TerminalMarker(ev) # "none" THEN TerminalAnswer(TerminalMarker(ev))
  ELSE ChatAnswer(EventFailure(ev))
=============================================================================
