-------------------------- MODULE TranslationProofs ---------------------------
(***************************************************************************)
(* What holds of the pure translations, for all failures, bodies,          *)
(* conversations and exchanges.  Inputs is the inductive invariant: it     *)
(* says what the input of each translation is.  What a translation does    *)
(* over a sequence is shown by induction over its length: NatSetInduction  *)
(* and SeqInduction come from the well-foundedness of the naturals, the    *)
(* recursive functions of StreamReader and Convert exist and take step     *)
(* after step (LoopsExist and the lemmas named ...Steps), and so does the  *)
(* one FlattenSeq is made with (FlatsExist).                               *)
(***************************************************************************)
EXTENDS Translation, FiniteSetTheorems, SequenceTheorems, WellFoundedInduction, TLAPS

-----------------------------------------------------------------------------
(* The switches over a failure: the first arm that holds. *)

\* The first arm that holds decides.
LEMMA FirstIs ==
  ASSUME NEW arms, DOMAIN arms \subseteq Nat, NEW i \in DOMAIN arms, arms[i].when,
         \A j \in DOMAIN arms : j < i => ~arms[j].when
  PROVE  FirstArm(arms) = arms[i].then
<1> DEFINE holding == {k \in DOMAIN arms : arms[k].when}
           first(k) == \A j \in holding : k <= j
<1>1. i \in holding /\ first(i)
  OBVIOUS
<1>2. \A k \in holding : first(k) => k = i
  BY <1>1
<1>3. (CHOOSE k \in holding : first(k)) = i
  BY <1>1, <1>2
<1> QED  BY <1>3 DEF FirstArm

\* A switch of ten arms, the last a default.
LEMMA TenArms ==
  ASSUME NEW arms, DOMAIN arms = 1..10, arms[10].when
  PROVE  FirstArm(arms) =
           IF arms[1].when THEN arms[1].then ELSE IF arms[2].when THEN arms[2].then ELSE
           IF arms[3].when THEN arms[3].then ELSE IF arms[4].when THEN arms[4].then ELSE
           IF arms[5].when THEN arms[5].then ELSE IF arms[6].when THEN arms[6].then ELSE
           IF arms[7].when THEN arms[7].then ELSE IF arms[8].when THEN arms[8].then ELSE
           IF arms[9].when THEN arms[9].then ELSE arms[10].then
<1> DEFINE Before(i) == \A j \in 1..10 : j < i => ~arms[j].when
<1>1. /\ Before(1)
      /\ \A i \in 1..9 : Before(i) /\ ~arms[i].when => Before(i + 1)
  OBVIOUS
<1>2. \A i \in 1..10 : arms[i].when /\ Before(i) => FirstArm(arms) = arms[i].then
  BY FirstIs
<1> HIDE DEF Before
<1>3. /\ Before(1) /\ ~arms[1].when => Before(2)
      /\ Before(2) /\ ~arms[2].when => Before(3)
      /\ Before(3) /\ ~arms[3].when => Before(4)
      /\ Before(4) /\ ~arms[4].when => Before(5)
      /\ Before(5) /\ ~arms[5].when => Before(6)
      /\ Before(6) /\ ~arms[6].when => Before(7)
      /\ Before(7) /\ ~arms[7].when => Before(8)
      /\ Before(8) /\ ~arms[8].when => Before(9)
      /\ Before(9) /\ ~arms[9].when => Before(10)
  BY <1>1
<1> QED  BY <1>1, <1>2, <1>3

\* A switch of twelve arms, the last a default.
LEMMA TwelveArms ==
  ASSUME NEW arms, DOMAIN arms = 1..12, arms[12].when
  PROVE  FirstArm(arms) =
           IF arms[1].when THEN arms[1].then ELSE IF arms[2].when THEN arms[2].then ELSE
           IF arms[3].when THEN arms[3].then ELSE IF arms[4].when THEN arms[4].then ELSE
           IF arms[5].when THEN arms[5].then ELSE IF arms[6].when THEN arms[6].then ELSE
           IF arms[7].when THEN arms[7].then ELSE IF arms[8].when THEN arms[8].then ELSE
           IF arms[9].when THEN arms[9].then ELSE IF arms[10].when THEN arms[10].then ELSE
           IF arms[11].when THEN arms[11].then ELSE arms[12].then
<1> DEFINE Before(i) == \A j \in 1..12 : j < i => ~arms[j].when
<1>1. /\ Before(1)
      /\ \A i \in 1..11 : Before(i) /\ ~arms[i].when => Before(i + 1)
  OBVIOUS
<1>2. \A i \in 1..12 : arms[i].when /\ Before(i) => FirstArm(arms) = arms[i].then
  BY FirstIs
<1> HIDE DEF Before
<1>3. /\ Before(1) /\ ~arms[1].when => Before(2)
      /\ Before(2) /\ ~arms[2].when => Before(3)
      /\ Before(3) /\ ~arms[3].when => Before(4)
      /\ Before(4) /\ ~arms[4].when => Before(5)
      /\ Before(5) /\ ~arms[5].when => Before(6)
      /\ Before(6) /\ ~arms[6].when => Before(7)
      /\ Before(7) /\ ~arms[7].when => Before(8)
      /\ Before(8) /\ ~arms[8].when => Before(9)
      /\ Before(9) /\ ~arms[9].when => Before(10)
      /\ Before(10) /\ ~arms[10].when => Before(11)
      /\ Before(11) /\ ~arms[11].when => Before(12)
  BY <1>1
<1> QED  BY <1>1, <1>2, <1>3

\* The pool's switch (Pool.reportFailure), arm by arm.
LEMMA PoolArms ==
  ASSUME NEW e, NEW systemOne
  PROVE  PoolArm(e, systemOne) =
           IF IsInterrupted(e) THEN "interrupted" ELSE
           IF IsRequestTooLarge(e) THEN "too_large" ELSE
           IF IsZDRUnavailable(e) THEN "zdr" ELSE
           IF IsSpendCapExceeded(e) THEN "spend_cap" ELSE
           IF IsInsufficientCredits(e) THEN "credits" ELSE
           IF IsRateLimited(e) THEN "rate_limited" ELSE
           IF IsModelNotInPlan(e) THEN "not_in_plan" ELSE
           IF IsModelNotRecognized(e) THEN "not_recognized" ELSE
           IF IsPermission(e, systemOne) THEN "permission" ELSE
           IF IsRefused(e) THEN "auth" ELSE
           IF IsClientError(e) THEN "request" ELSE
           "outage"
<1> DEFINE arms == <<Arm(IsInterrupted(e), "interrupted"),
                    Arm(IsRequestTooLarge(e), "too_large"),
                    Arm(IsZDRUnavailable(e), "zdr"),
                    Arm(IsSpendCapExceeded(e), "spend_cap"),
                    Arm(IsInsufficientCredits(e), "credits"),
                    Arm(IsRateLimited(e), "rate_limited"),
                    Arm(IsModelNotInPlan(e), "not_in_plan"),
                    Arm(IsModelNotRecognized(e), "not_recognized"),
                    Arm(IsPermission(e, systemOne), "permission"),
                    Arm(IsRefused(e), "auth"),
                    Arm(IsClientError(e), "request"),
                    Arm(TRUE, "outage")>>
<1>1. /\ DOMAIN arms = 1..12 /\ arms[12].when
      /\ arms[1].when <=> IsInterrupted(e)
      /\ arms[2].when <=> IsRequestTooLarge(e)
      /\ arms[3].when <=> IsZDRUnavailable(e)
      /\ arms[4].when <=> IsSpendCapExceeded(e)
      /\ arms[5].when <=> IsInsufficientCredits(e)
      /\ arms[6].when <=> IsRateLimited(e)
      /\ arms[7].when <=> IsModelNotInPlan(e)
      /\ arms[8].when <=> IsModelNotRecognized(e)
      /\ arms[9].when <=> IsPermission(e, systemOne)
      /\ arms[10].when <=> IsRefused(e)
      /\ arms[11].when <=> IsClientError(e)
      /\ arms[1].then = "interrupted"
      /\ arms[2].then = "too_large"
      /\ arms[3].then = "zdr"
      /\ arms[4].then = "spend_cap"
      /\ arms[5].then = "credits"
      /\ arms[6].then = "rate_limited"
      /\ arms[7].then = "not_in_plan"
      /\ arms[8].then = "not_recognized"
      /\ arms[9].then = "permission"
      /\ arms[10].then = "auth"
      /\ arms[11].then = "request"
      /\ arms[12].then = "outage"
  BY DEF Arm
<1>2. PoolArm(e, systemOne) = FirstArm(arms)
  BY DEF PoolArm
<1> HIDE DEF arms
<1> QED  BY <1>1, <1>2, TwelveArms

\* The chat handler's switch (classifyUpstreamError), arm by arm.
LEMMA ChatArms ==
  ASSUME NEW e
  PROVE  ChatAnswer(e) =
           IF IsRequestTooLarge(e) THEN Answer(413, "invalid_request_error") ELSE
           IF IsZDRUnavailable(e) THEN Answer(403, "zdr_error") ELSE
           IF IsSpendCapExceeded(e) THEN Answer(403, "spend_limit_error") ELSE
           IF IsInsufficientCredits(e) THEN Answer(402, "billing_error") ELSE
           IF IsRateLimited(e) THEN Answer(429, "rate_limit_error") ELSE
           IF IsModelNotInPlan(e) THEN Answer(403, "plan_error") ELSE
           IF IsModelNotRecognized(e) THEN Answer(404, "invalid_request_error") ELSE
           IF IsRefused(e) THEN Answer(502, "upstream_auth_error") ELSE
           IF IsServerError(e) THEN Answer(e.status, "server_error") ELSE
           Answer(502, "upstream_error")
<1> DEFINE arms == <<Arm(IsRequestTooLarge(e), Answer(413, "invalid_request_error")),
                    Arm(IsZDRUnavailable(e), Answer(403, "zdr_error")),
                    Arm(IsSpendCapExceeded(e), Answer(403, "spend_limit_error")),
                    Arm(IsInsufficientCredits(e), Answer(402, "billing_error")),
                    Arm(IsRateLimited(e), Answer(429, "rate_limit_error")),
                    Arm(IsModelNotInPlan(e), Answer(403, "plan_error")),
                    Arm(IsModelNotRecognized(e), Answer(404, "invalid_request_error")),
                    Arm(IsRefused(e), Answer(502, "upstream_auth_error")),
                    Arm(IsServerError(e), Answer(e.status, "server_error")),
                    Arm(TRUE, Answer(502, "upstream_error"))>>
<1>1. /\ DOMAIN arms = 1..10 /\ arms[10].when
      /\ arms[1].when <=> IsRequestTooLarge(e)
      /\ arms[2].when <=> IsZDRUnavailable(e)
      /\ arms[3].when <=> IsSpendCapExceeded(e)
      /\ arms[4].when <=> IsInsufficientCredits(e)
      /\ arms[5].when <=> IsRateLimited(e)
      /\ arms[6].when <=> IsModelNotInPlan(e)
      /\ arms[7].when <=> IsModelNotRecognized(e)
      /\ arms[8].when <=> IsRefused(e)
      /\ arms[9].when <=> IsServerError(e)
      /\ arms[1].then = Answer(413, "invalid_request_error")
      /\ arms[2].then = Answer(403, "zdr_error")
      /\ arms[3].then = Answer(403, "spend_limit_error")
      /\ arms[4].then = Answer(402, "billing_error")
      /\ arms[5].then = Answer(429, "rate_limit_error")
      /\ arms[6].then = Answer(403, "plan_error")
      /\ arms[7].then = Answer(404, "invalid_request_error")
      /\ arms[8].then = Answer(502, "upstream_auth_error")
      /\ arms[9].then = Answer(e.status, "server_error")
      /\ arms[10].then = Answer(502, "upstream_error")
  BY DEF Arm
<1>2. ChatAnswer(e) = FirstArm(arms)
  BY DEF ChatAnswer
<1> HIDE DEF arms
<1> QED  BY <1>1, <1>2, TenArms

\* System One's switch (writeSystemOneError), arm by arm.
LEMMA SystemOneArms ==
  ASSUME NEW e
  PROVE  SystemOneAnswer(e) =
           IF IsZDRUnavailable(e) THEN Answer(403, "zdr_error") ELSE
           IF IsSpendCapExceeded(e) THEN Answer(403, "spend_limit_error") ELSE
           IF IsInsufficientCredits(e) THEN Answer(402, "billing_error") ELSE
           IF IsModelNotInPlan(e) THEN Answer(403, "plan_error") ELSE
           IF IsKeyRefused(e) THEN Answer(502, "upstream_auth_error") ELSE
           IF IsForbidden(e) THEN Answer(403, "permission_error") ELSE
           IF IsRateLimited(e) THEN Answer(429, "rate_limit_error") ELSE
           IF IsClientError(e) THEN Answer(e.status, "invalid_request_error") ELSE
           IF IsServerError(e) THEN Answer(e.status, "server_error") ELSE
           Answer(502, "upstream_error")
<1> DEFINE arms == <<Arm(IsZDRUnavailable(e), Answer(403, "zdr_error")),
                    Arm(IsSpendCapExceeded(e), Answer(403, "spend_limit_error")),
                    Arm(IsInsufficientCredits(e), Answer(402, "billing_error")),
                    Arm(IsModelNotInPlan(e), Answer(403, "plan_error")),
                    Arm(IsKeyRefused(e), Answer(502, "upstream_auth_error")),
                    Arm(IsForbidden(e), Answer(403, "permission_error")),
                    Arm(IsRateLimited(e), Answer(429, "rate_limit_error")),
                    Arm(IsClientError(e), Answer(e.status, "invalid_request_error")),
                    Arm(IsServerError(e), Answer(e.status, "server_error")),
                    Arm(TRUE, Answer(502, "upstream_error"))>>
<1>1. /\ DOMAIN arms = 1..10 /\ arms[10].when
      /\ arms[1].when <=> IsZDRUnavailable(e)
      /\ arms[2].when <=> IsSpendCapExceeded(e)
      /\ arms[3].when <=> IsInsufficientCredits(e)
      /\ arms[4].when <=> IsModelNotInPlan(e)
      /\ arms[5].when <=> IsKeyRefused(e)
      /\ arms[6].when <=> IsForbidden(e)
      /\ arms[7].when <=> IsRateLimited(e)
      /\ arms[8].when <=> IsClientError(e)
      /\ arms[9].when <=> IsServerError(e)
      /\ arms[1].then = Answer(403, "zdr_error")
      /\ arms[2].then = Answer(403, "spend_limit_error")
      /\ arms[3].then = Answer(402, "billing_error")
      /\ arms[4].then = Answer(403, "plan_error")
      /\ arms[5].then = Answer(502, "upstream_auth_error")
      /\ arms[6].then = Answer(403, "permission_error")
      /\ arms[7].then = Answer(429, "rate_limit_error")
      /\ arms[8].then = Answer(e.status, "invalid_request_error")
      /\ arms[9].then = Answer(e.status, "server_error")
      /\ arms[10].then = Answer(502, "upstream_error")
  BY DEF Arm
<1>2. SystemOneAnswer(e) = FirstArm(arms)
  BY DEF SystemOneAnswer
<1> HIDE DEF arms
<1> QED  BY <1>1, <1>2, TenArms

\* What a client can cause keeps its key, whatever else the failure says.
LEMMA FaultsKeepKeys ==
  ASSUME NEW e, NEW systemOne,
         IsRequestTooLarge(e) \/ IsZDRUnavailable(e) \/ IsSpendCapExceeded(e)
  PROVE  ~Rotates(e, systemOne)
  BY PoolArms DEF Rotates, Trips

\* The type and the status of what each arm says.
LEMMA AnswerParts == \A s, x : Answer(s, x).status = s /\ Answer(s, x).type = x
  BY DEF Answer

\* What the chat client is told follows from the arm the pool took.
LEMMA ChatFollowsPool ==
  ASSUME NEW e, IsAPI(e)
  PROVE  /\ Trips(e, FALSE) <=>
              ChatAnswer(e).type \in {"billing_error", "rate_limit_error", "upstream_auth_error"}
         /\ ChatAnswer(e).type = "plan_error" <=> PoolArm(e, FALSE) = "not_in_plan"
         /\ ChatAnswer(e).status \in {404, 413} => ~Rotates(e, FALSE)
<1>1. ~IsInterrupted(e) /\ ~IsPermission(e, FALSE)
  BY DEF IsAPI, IsInterrupted, IsPermission
<1>2. IsServerError(e) => e.status \notin {404, 413}
  BY DEF IsServerError
<1> DEFINE account == \/ IsInsufficientCredits(e) \/ IsRateLimited(e)
                      \/ ~IsModelNotInPlan(e) /\ ~IsModelNotRecognized(e) /\ IsRefused(e)
           request == IsRequestTooLarge(e) \/ IsZDRUnavailable(e) \/ IsSpendCapExceeded(e)
<1>3. /\ Trips(e, FALSE) <=> ~request /\ account
      /\ PoolArm(e, FALSE) = "not_in_plan" <=>
           ~request /\ ~IsInsufficientCredits(e) /\ ~IsRateLimited(e) /\ IsModelNotInPlan(e)
  BY <1>1, PoolArms DEF Trips
<1>4. /\ ChatAnswer(e).type \in {"billing_error", "rate_limit_error", "upstream_auth_error"} <=>
           ~request /\ account
      /\ ChatAnswer(e).type = "plan_error" <=>
           ~request /\ ~IsInsufficientCredits(e) /\ ~IsRateLimited(e) /\ IsModelNotInPlan(e)
  BY ChatArms, AnswerParts
<1>5. ChatAnswer(e).status \in {404, 413} =>
        \/ request
        \/ ~IsInsufficientCredits(e) /\ ~IsRateLimited(e) /\ ~IsModelNotInPlan(e) /\ IsModelNotRecognized(e)
  BY <1>2, ChatArms, AnswerParts
<1> HIDE DEF account
<1>6. ChatAnswer(e).status \in {404, 413} => ~Rotates(e, FALSE)
  BY <1>3, <1>5 DEF Rotates, account
<1> QED  BY <1>3, <1>4, <1>6

\* An outage is nobody's account and nobody's request.
LEMMA OutagesSurface ==
  ASSUME NEW e, IsAPI(e), NEW systemOne, PoolArm(e, systemOne) = "outage"
  PROVE  /\ ~Rotates(e, systemOne)
         /\ ChatAnswer(e).status \in 500..599
         /\ SystemOneAnswer(e).status \in 500..599
<1>1. ~IsInterrupted(e) /\ ~Rotates(e, systemOne)
  BY DEF IsAPI, IsInterrupted, Rotates, Trips
<1>2. /\ ~IsRequestTooLarge(e) /\ ~IsZDRUnavailable(e) /\ ~IsSpendCapExceeded(e)
      /\ ~IsInsufficientCredits(e) /\ ~IsRateLimited(e) /\ ~IsModelNotInPlan(e) /\ ~IsModelNotRecognized(e)
      /\ ~IsRefused(e) /\ ~IsClientError(e)
  BY <1>1, PoolArms DEF IsPermission, IsForbidden, IsRefused
<1>3. ~IsForbidden(e) /\ ~IsKeyRefused(e)
  BY <1>2 DEF IsForbidden, IsRefused, IsKeyRefused
<1>5. ChatAnswer(e).status \in 500..599
  BY <1>2, AnswerParts, ChatArms DEF IsServerError, IsAPI
<1>6. SystemOneAnswer(e).status \in 500..599
  BY <1>2, <1>3, AnswerParts, SystemOneArms DEF IsServerError, IsAPI
<1> QED  BY <1>1, <1>5, <1>6

\* Only a rate limit and an outage are worth waiting for.
LEMMA RetriesCanSucceed ==
  ASSUME NEW e, SystemOneRetry(e) > 0, e.retry \in Nat
  PROVE  SystemOneAnswer(e).status = 429 \/ SystemOneAnswer(e).status \in 500..599
<1> DEFINE type == SystemOneAnswer(e).type
<1>1. type = "rate_limit_error" \/ (type = "server_error" /\ e.status \in {503, 529})
  BY DEF SystemOneRetry
<1>2. type = "rate_limit_error" => SystemOneAnswer(e).status = 429
  BY SystemOneArms, AnswerParts
<1>3. type = "server_error" => SystemOneAnswer(e).status = e.status
  BY SystemOneArms, AnswerParts
<1> QED  BY <1>1, <1>2, <1>3

\* The markers of a line: those in its payload's names and text, and what else it holds.
LEMMA MarkersInLine ==
  ASSUME NEW p, NEW x, NEW rest, NEW ev \in {Wrapped(p, x, rest), InFields(p, x, rest)}
  PROVE  ev.rest = rest /\ InLine(ev) = MarkersOf(p) \cup (Markers \cap {rest})
<1>1. MarkersOf(NoPayload) = {} /\ MarkersOf(Payload(0, "", "", "none")) = {} /\ "none" \notin Markers
  BY DEF MarkersOf, NoPayload, Payload, Lower, Markers
<1>2. MarkersOf(Payload(x, p.code, p.type, p.text)) = MarkersOf(p) /\ Markers \cap {p.text} \subseteq MarkersOf(p)
  BY DEF MarkersOf, Payload
<1>3. CASE ev = Wrapped(p, x, rest)
  <2>1. ev.own = Payload(0, "", "", "none") /\ ev.own.text = "none" /\ ev.embedded = p /\ ev.rest = rest
    BY <1>3 DEF Wrapped, ErrorEvent, Payload
  <2> QED  BY <1>1, <2>1 DEF InLine, InMessage
<1>4. CASE ev = InFields(p, x, rest)
  <2>1. /\ ev.own = Payload(x, p.code, p.type, p.text) /\ ev.own.text = p.text
        /\ ev.embedded = NoPayload /\ ev.rest = rest
    BY <1>4 DEF InFields, ErrorEvent, Payload
  <2> QED  BY <1>1, <1>2, <2>1 DEF InLine, InMessage
<1> QED  BY <1>3, <1>4

\* TerminalError finds a marker of the line if there is one.
LEMMA MarkerIsFound ==
  ASSUME NEW ev
  PROVE  IF InLine(ev) = {} THEN TerminalMarker(ev) = "none" ELSE TerminalMarker(ev) \in InLine(ev)
<1>1. InMessage(ev) \subseteq InLine(ev) /\ InLine(ev) \subseteq Markers
  BY DEF InLine, InMessage, MarkersOf
<1>2. \A found \in SUBSET Markers : found # {} => FirstMarker(found) \in found
  BY DEF FirstMarker, Markers
<1>3. CASE InMessage(ev) # {}
  BY <1>1, <1>2, <1>3 DEF TerminalMarker
<1>4. CASE InMessage(ev) = {} /\ InLine(ev) # {}
  BY <1>1, <1>2, <1>4 DEF TerminalMarker
<1>5. CASE InMessage(ev) = {} /\ InLine(ev) = {}
  BY <1>5 DEF TerminalMarker
<1> QED  BY <1>1, <1>3, <1>4, <1>5

\* What the client is told in a stream: of a marker, else of the failure.
LEMMA InBandTells ==
  ASSUME NEW ev
  PROVE  /\ InLine(ev) = {} => InBandAnswer(ev) = ChatAnswer(EventFailure(ev))
         /\ InLine(ev) # {} => \E m \in InLine(ev) : InBandAnswer(ev) = TerminalAnswer(m)
<1>1. "none" \notin InLine(ev)
  BY DEF InLine, InMessage, MarkersOf, Markers
<1> QED  BY <1>1, MarkerIsFound DEF InBandAnswer

\* What belongs to markers alone: no other names, and a status that markers come with.
BelongsToMarkers(e) ==
  /\ e.codes \subseteq {"MODEL_NOT_IN_PLAN", "premium_credits_exhausted"}
  /\ e.text \in Markers \cup {"none"}
  /\ e.status \in {400, 402, 403}

\* It is no failure of the request's size or route, nor a limit.
LEMMA MarkerArms ==
  ASSUME NEW e, IsAPI(e), BelongsToMarkers(e)
  PROVE  /\ ~IsRequestTooLarge(e) /\ ~IsRateLimited(e) /\ ~IsZDRUnavailable(e) /\ ~IsSpendCapExceeded(e)
         /\ e.status = 403 => ~IsInsufficientCredits(e)
<1>1. /\ ~HasCode(e, "request_too_large") /\ ~HasCode(e, "USAGE_EXCEEDED")
      /\ ~HasCode(e, "CMD_ZDR_NO_PROVIDERS") /\ ~HasCode(e, "insufficient_credits")
  <2>1. e.codes \subseteq {"MODEL_NOT_IN_PLAN", "premium_credits_exhausted"}
    BY Zenon DEF BelongsToMarkers
  <2> QED  BY <2>1 DEF HasCode
<1>2. e.text # "over the size limit"
  BY Zenon DEF BelongsToMarkers, Markers
<1>3. e.status \in {400, 402, 403}
  BY Zenon DEF BelongsToMarkers
<1>4. e.status # 413 /\ e.status # 429 /\ (e.status = 403 => e.status # 402 /\ e.status # 400)
  BY <1>3
<1>5. ~IsRequestTooLarge(e) /\ ~IsRateLimited(e)
  BY <1>1, <1>2, <1>4 DEF IsRequestTooLarge, IsRateLimited
<1>6. ~IsZDRUnavailable(e) /\ ~IsSpendCapExceeded(e)
  BY <1>1 DEF IsZDRUnavailable, IsSpendCapExceeded
<1>7. e.status = 403 => ~IsInsufficientCredits(e)
  BY <1>1, <1>4 DEF IsInsufficientCredits
<1> QED  BY <1>5, <1>6, <1>7

NamesPlan(e) == HasCode(e, "MODEL_NOT_IN_PLAN") \/ e.text = "model_not_in_plan"

\* A payload that holds the marker of plans names it in a code, a type or its text.
LEMMA PlanIsNamed ==
  ASSUME NEW p \in Payloads, NEW e, e.codes = {p.code, p.type} \ {""}, e.text = p.text,
         "model_not_in_plan" \in MarkersOf(p)
  PROVE  NamesPlan(e)
<1>1. p.code # "model_not_in_plan" /\ p.type # "model_not_in_plan"
  BY DEF Payloads, Names, Codes
<1>2. p.code = "MODEL_NOT_IN_PLAN" \/ p.type = "MODEL_NOT_IN_PLAN" \/ e.text = "model_not_in_plan"
  BY <1>1 DEF MarkersOf, Lower
<1>3. "MODEL_NOT_IN_PLAN" \in e.codes \/ e.text = "model_not_in_plan"
  BY <1>2
<1> QED  BY Zenon, <1>3 DEF HasCode, NamesPlan

\* Markers that are alone, with their own status, are what HTTP would have told.
LEMMA MarkersTell ==
  ASSUME NEW ev, NEW e, IsAPI(e), MarkersAlone(ev, e),
         "model_not_in_plan" \in InLine(ev) /\ ev.rest = "none" => NamesPlan(e)
  PROVE  \A m \in InLine(ev) : ChatAnswer(e) = TerminalAnswer(m)
<1> SUFFICES ASSUME NEW m \in InLine(ev) PROVE ChatAnswer(e) = TerminalAnswer(m)
  OBVIOUS
<1>1. BelongsToMarkers(e)
  BY Zenon DEF BelongsToMarkers, MarkersAlone
<1>2. /\ ~IsRequestTooLarge(e) /\ ~IsRateLimited(e) /\ ~IsZDRUnavailable(e) /\ ~IsSpendCapExceeded(e)
      /\ e.status = 403 => ~IsInsufficientCredits(e)
  BY Zenon, <1>1, MarkerArms
<1>3. CASE "model_not_in_plan" \notin InLine(ev)
  <2>1. "model_not_in_plan" \in {"model_not_in_plan"}
    OBVIOUS
  <2>2. InLine(ev) # {"model_not_in_plan"}
    BY Zenon, <1>3, <2>1
  <2>3. e.status = 402 \/ (e.status = 400 /\ e.text = "insufficient credits")
    BY Zenon, <2>2 DEF MarkersAlone
  <2>4. IsInsufficientCredits(e)
    BY Zenon, <2>3 DEF IsInsufficientCredits
  <2>5. ChatAnswer(e) = Answer(402, "billing_error")
    BY <1>2, <2>4, ChatArms
  <2> QED  BY <1>3, <2>5 DEF TerminalAnswer
<1>4. CASE "model_not_in_plan" \in InLine(ev)
  <2>1. InLine(ev) = {"model_not_in_plan"} /\ ev.rest = "none" /\ e.status = 403
    BY Zenon, <1>4 DEF MarkersAlone
  <2>7. IsModelNotInPlan(e) /\ ~IsInsufficientCredits(e)
    BY Zenon, <1>2, <1>4, <2>1 DEF IsModelNotInPlan, NamesPlan
  <2>8. ChatAnswer(e) = Answer(403, "plan_error")
    BY <1>2, <2>7, ChatArms
  <2>9. m = "model_not_in_plan"
    BY <2>1
  <2> QED  BY <2>8, <2>9 DEF TerminalAnswer
<1> QED  BY <1>3, <1>4

\* A failure that a stream wraps as text is the failure HTTP would have brought.
LEMMA WrappedReads ==
  ASSUME NEW p \in Payloads, NEW http \in ErrorStatuses, NEW rest, NEW ev, ev = Wrapped(p, http, rest)
  PROVE  EventFailure(ev) = HTTPFailure(http, p, 0)
<1>1. /\ ev.embedded = p /\ ev.prefix = http
      /\ ev.own.code = "" /\ ev.own.type = "" /\ ev.own.text = "none"
  BY DEF Wrapped, ErrorEvent, Payload
<1>2. EventStatus(ev) = IF p.status \in ErrorStatuses THEN p.status ELSE http
  <2>1. ev.embedded.status = p.status
    BY <1>1
  <2>2. CASE p.status \in ErrorStatuses
    <3>1. ev.embedded.status \in ErrorStatuses
      BY Zenon, <2>1, <2>2
    <3>2. EventStatus(ev) = ev.embedded.status
      BY Zenon, <3>1 DEF EventStatus
    <3> QED  BY Zenon, <2>1, <2>2, <3>2
  <2>3. CASE p.status \notin ErrorStatuses
    <3>1. ev.embedded.status \notin ErrorStatuses /\ ev.prefix \in ErrorStatuses
      BY Zenon, <1>1, <2>1, <2>3
    <3>2. EventStatus(ev) = ev.prefix
      BY Zenon, <3>1 DEF EventStatus
    <3> QED  BY Zenon, <1>1, <2>3, <3>2
  <2> QED  BY <2>2, <2>3
<1>3. p.text # ""
  BY DEF Payloads, Texts
<1>4. FirstOf(p.code, "") = p.code /\ FirstOf(p.type, "") = p.type /\ FirstOf(p.text, "none") = p.text
  BY <1>3 DEF FirstOf
<1> QED  BY <1>1, <1>2, <1>4 DEF EventFailure, HTTPFailure

\* So is one that an event has in fields of its own.
LEMMA PlainReads ==
  ASSUME NEW p, NEW http \in ErrorStatuses, NEW status,
         status = IF p.status \in ErrorStatuses THEN p.status ELSE http,
         NEW rest, NEW ev, ev = InFields(p, status, rest)
  PROVE  EventFailure(ev) = HTTPFailure(http, p, 0)
<1>1. /\ ev.own.status = status
      /\ ev.own.code = p.code /\ ev.own.type = p.type /\ ev.own.text = p.text
  BY DEF InFields, ErrorEvent, Payload
<1>2. /\ ev.embedded.status = 0 /\ ev.embedded.code = "" /\ ev.embedded.type = ""
      /\ ev.embedded.text = "" /\ ev.prefix = 0
  BY DEF InFields, ErrorEvent, NoPayload, Payload
<1>3. 0 \notin ErrorStatuses /\ status \in ErrorStatuses
  <2>1. 0 \notin ErrorStatuses
    BY DEF ErrorStatuses
  <2>2. status \in ErrorStatuses
    BY Zenon
  <2> QED  BY <2>1, <2>2
<1>4. EventStatus(ev) = status
  <2>1. ev.embedded.status \notin ErrorStatuses /\ ev.prefix \notin ErrorStatuses /\ ev.own.status \in ErrorStatuses
    BY Zenon, <1>1, <1>2, <1>3
  <2> QED  BY <1>1, <2>1 DEF EventStatus
<1>5. FirstOf("", p.code) = p.code /\ FirstOf("", p.type) = p.type /\ FirstOf("", p.text) = p.text
  BY DEF FirstOf
<1> QED  BY <1>1, <1>2, <1>4, <1>5 DEF EventFailure, HTTPFailure

-----------------------------------------------------------------------------
(* The theorems over every failure. *)

\* What holds of the input in every state.
(* What each translation is given: the inductive invariant. *)

Inputs ==
  /\ of = "failure" => input \in Failures
  /\ of = "conversation" => input \in Seq(Messages)
  /\ of = "exchange" => input \in [questions : Requests, unlock : BOOLEAN, response : Responses]
  /\ of = "body" => input \in Bodies

\* Inputs holds at first, and Longer, Grow and Unlock keep it.
LEMMA InputsAlways == Spec => []Inputs
<1>1. Init => Inputs
  <2>1. <<>> \in Seq(Messages)
    OBVIOUS
  <2>2. \/ of = "failure" /\ input \in Failures
        \/ of = "conversation" /\ input = <<>>
        \/ of = "exchange" /\ input \in [questions : Requests, unlock : BOOLEAN, response : Responses]
        \/ of = "body" /\ input \in Bodies
        => Inputs
    BY <2>1 DEF Inputs
  <2>3. <<>> \in Seq(Lines)
    OBVIOUS
  <2>4. [lines : {<<>>}, tail : Lines, end : Ends] \subseteq Bodies
    BY <2>3 DEF Bodies
  <2> QED  BY <2>2, <2>4 DEF Init
<1>2. Inputs /\ [Next]_vars => Inputs'
  <2> SUFFICES ASSUME Inputs, [Next]_vars PROVE Inputs'
    OBVIOUS
  <2>1. CASE Longer
    <3>1. PICK line \in Lines : input' = [input EXCEPT !.lines = Append(@, line)]
      BY <2>1 DEF Longer
    <3>2. of = "body" /\ of' = "body" /\ input \in Bodies
      BY <2>1 DEF Longer, Inputs
    <3>3. Append(input.lines, line) \in Seq(Lines)
      BY <3>2 DEF Bodies
    <3>4. input' \in Bodies
      BY <3>1, <3>2, <3>3 DEF Bodies
    <3> QED  BY <3>2, <3>4 DEF Inputs
  <2>2. CASE Grow
    BY <2>2 DEF Grow, Inputs
  <2>3. CASE Unlock
    <3>1. of = "exchange" /\ of' = "exchange" /\ input' = [input EXCEPT !.unlock = TRUE]
      BY <2>3 DEF Unlock
    <3>2. input \in [questions : Requests, unlock : BOOLEAN, response : Responses]
      BY <3>1 DEF Inputs
    <3>3. input' \in [questions : Requests, unlock : BOOLEAN, response : Responses]
      BY <3>1, <3>2
    <3> QED  BY <3>1, <3>3 DEF Inputs
  <2>4. CASE UNCHANGED vars
    BY <2>4 DEF vars, Inputs
  <2> QED  BY <2>1, <2>2, <2>3, <2>4 DEF Next
<1> QED  BY <1>1, <1>2, PTL DEF Spec

\* A failure over HTTP has the status of its payload, if that is one of an error.
LEMMA FailureParts ==
  ASSUME Inputs, of = "failure"
  PROVE  /\ IsAPI(Failure1) /\ Failure1.retry = input.retry /\ Failure1.text = input.payload.text
         /\ Failure1.status = IF input.payload.status \in ErrorStatuses THEN input.payload.status ELSE input.http
         /\ input.retry \in Nat
<1>1. input \in [http : Nat, payload : Payloads, retry : Nat]
  BY InputsAssumption DEF Inputs
<1>2. input.retry \in Nat
  BY <1>1
<1> QED  BY <1>2 DEF Failure1, HTTPFailure, API, IsAPI

\* Nothing a client can cause trips a breaker or burns a key, whatever status, code, type
\* or text comes with it (the order of the arms in Pool.reportFailure's switch).
THEOREM ClientFaultsKeepKeysAlways == Spec => []ClientFaultsKeepKeys
<1>1. Inputs => ClientFaultsKeepKeys
  BY FaultsKeepKeys DEF ClientFaultsKeepKeys
<1> QED  BY <1>1, InputsAlways, PTL

\* What classifyUpstreamError tells the chat client agrees with what Pool.reportFailure did to the key,
\* for every failure: two switches over one error, in two packages.
THEOREM ChatAgreesWithPoolAlways == Spec => []ChatAgreesWithPool
<1>1. Inputs => ChatAgreesWithPool
  BY FailureParts, ChatFollowsPool DEF ChatAgreesWithPool
<1> QED  BY <1>1, InputsAlways, PTL

\* What falls through to the last arm of Pool.reportFailure's switch costs no key anything, and is a
\* 5xx to chat clients and to those of System One.
THEOREM OutageIsSurfacedAlways == Spec => []OutageIsSurfaced
<1>1. Inputs => OutageIsSurfaced
  BY FailureParts, OutagesSurface DEF OutageIsSurfaced
<1> QED  BY <1>1, InputsAlways, PTL

\* A failure in an event of the stream (Event's status, code and message, or JSON behind a
\* status in its text) is read as the same failure over HTTP; the client is told the same,
\* or of a marker that TerminalError found in the event's line.
THEOREM InBandAgreesAlways == Spec => []InBandAgrees
<1>1. ASSUME Inputs, of = "failure", input.http \in ErrorStatuses, input.retry = 0,
             NEW rest \in Markers \cup {"none"},
             NEW ev \in {Wrapped(input.payload, input.http, rest), InFields(input.payload, Failure1.status, rest)}
      PROVE  /\ EventFailure(ev) = Failure1
             /\ InBandAnswer(ev).type \in Terminal <=> InLine(ev) # {} \/ ChatAnswer(Failure1).type \in Terminal
             /\ InLine(ev) = {} \/ MarkersAlone(ev, Failure1) => InBandAnswer(ev) = ChatAnswer(Failure1)
  <2> DEFINE p == input.payload
  <2>1. p \in Payloads
    BY <1>1, InputsAssumption DEF Inputs
  <2>2. /\ Failure1 = HTTPFailure(input.http, p, 0) /\ IsAPI(Failure1)
        /\ Failure1.status = IF p.status \in ErrorStatuses THEN p.status ELSE input.http
        /\ Failure1.codes = {p.code, p.type} \ {""} /\ Failure1.text = p.text
    BY <1>1, FailureParts DEF Failure1, HTTPFailure, API
  <2>3. EventFailure(ev) = Failure1
    <3>1. CASE ev = Wrapped(p, input.http, rest)
      <4>1. EventFailure(ev) = HTTPFailure(input.http, p, 0)
        BY Zenon, <1>1, <2>1, <3>1, WrappedReads
      <4> QED  BY Zenon, <2>2, <4>1
    <3>2. CASE ev = InFields(p, Failure1.status, rest)
      <4> HIDE DEF p
      <4>1. \A status : status = (IF p.status \in ErrorStatuses THEN p.status ELSE input.http) =>
              EventFailure(InFields(p, status, rest)) = HTTPFailure(input.http, p, 0)
        BY <1>1, PlainReads
      <4> QED  BY Zenon, <2>2, <3>2, <4>1
    <3> QED  BY <1>1, <3>1, <3>2
  <2>4. ev.rest = rest /\ InLine(ev) = MarkersOf(p) \cup (Markers \cap {ev.rest})
    BY <1>1, MarkersInLine
  <2>5. CASE InLine(ev) = {}
    BY <2>3, <2>5, InBandTells
  <2>6. CASE InLine(ev) # {}
    <3>1. PICK m \in InLine(ev) : InBandAnswer(ev) = TerminalAnswer(m)
      BY <2>6, InBandTells
    <3>2. TerminalAnswer(m).type \in Terminal
      BY AnswerParts DEF TerminalAnswer, Terminal
    <3>3. ASSUME MarkersAlone(ev, Failure1) PROVE ChatAnswer(Failure1) = TerminalAnswer(m)
      <4>1. ASSUME "model_not_in_plan" \in InLine(ev) /\ ev.rest = "none" PROVE NamesPlan(Failure1)
        <5>1. "model_not_in_plan" \in MarkersOf(p)
          BY <2>4, <4>1 DEF Markers
        <5> HIDE DEF p
        <5> QED  BY <2>1, <2>2, <5>1, PlanIsNamed
      <4> QED  BY Zenon, <2>2, <3>3, <4>1, MarkersTell
    <3> QED  BY <2>3, <2>6, <3>1, <3>2, <3>3
  <2> QED  BY <2>5, <2>6
<1>2. Inputs => InBandAgrees
  BY <1>1 DEF InBandAgrees
<1> QED  BY <1>2, InputsAlways, PTL

\* A verdict on a question is Fine, or names one fault.
LEMMA FirstFault ==
  \A a, b : First(a, b) = Fine <=> a = Fine /\ b = Fine
  BY DEF First

\* The lock is blamed for a Choice that is not too large for the upstream.
LEMMA LockBlamed ==
  ASSUME NEW q, NEW unlock, QuestionVerdict(q, unlock).code = "jev_choice_options_locked"
  PROVE  q.type = "choice" /\ Cardinality(q.count) <= MaxOptions
<1>1. \A b : Require(b) \in {Fine, Invalid}
  BY DEF Require
<1>2. Fine.code = "" /\ Invalid.code = "invalid_request_error"
  BY DEF Fine, Invalid, Refusal
<1>3. CriteriaVerdict(q, unlock).code = "jev_choice_options_locked"
  BY <1>1, <1>2 DEF QuestionVerdict, First
<1> DEFINE n == Cardinality(q.count)
<1>4. q.type = "choice" /\ OptionsVerdict(n, unlock).code = "jev_choice_options_locked"
  BY <1>1, <1>2, <1>3 DEF CriteriaVerdict, First
<1> HIDE DEF n
<1>5. n \in 1..MaxOptions
  BY <1>2, <1>4 DEF OptionsVerdict, Refusal
<1> QED  BY <1>4, <1>5, LimitsAssumption DEF n

\* What is fine under the lock is fine without it.
LEMMA UnlockingHelps ==
  ASSUME NEW q, NEW unlock, QuestionVerdict(q, unlock) = Fine
  PROVE  QuestionVerdict(q, TRUE) = Fine
<1>1. ASSUME NEW n, OptionsVerdict(n, unlock) = Fine PROVE OptionsVerdict(n, TRUE) = Fine
  <2> DEFINE refusal(code) == Refusal(422, code)
  <2>3. Fine.status = 200 /\ Invalid.status = 422 /\ \A code : refusal(code).status = 422
    BY DEF Fine, Invalid, Refusal
  <2>1. Fine # Invalid /\ \A code : Fine # refusal(code)
    BY <2>3
  <2>2. n # 0 /\ ~(n > MaxOptions)
    BY <1>1, <2>1 DEF OptionsVerdict
  <2> QED  BY <2>2 DEF OptionsVerdict
<1>2. CriteriaVerdict(q, unlock) = Fine => CriteriaVerdict(q, TRUE) = Fine
  BY <1>1, FirstFault DEF CriteriaVerdict
<1> QED  BY <1>2, FirstFault DEF QuestionVerdict

\* Requests without a fault.
LEMMA FineRequests ==
  ASSUME NEW questions, NEW unlock, Fine \in RequestVerdicts(questions, FALSE, unlock)
  PROVE  RequestVerdicts(questions, FALSE, unlock) = {Fine} /\ RequestVerdicts(questions, FALSE, TRUE) = {Fine}
<1> DEFINE n == Cardinality(DOMAIN questions)
           faults(u) == {QuestionVerdict(questions[q], u) : q \in DOMAIN questions} \ {Fine}
<1>1. Fine # Invalid
  BY DEF Fine, Invalid, Refusal
<1>2. n \in 1..MaxQuestions /\ "" \notin DOMAIN questions /\ faults(unlock) = {}
  BY <1>1 DEF RequestVerdicts
<1>3. faults(TRUE) = {}
  BY <1>2, UnlockingHelps
<1> QED  BY <1>2, <1>3 DEF RequestVerdicts

\* Blame for the lock.
LEMMA BlamedRequests ==
  ASSUME NEW questions, NEW unlock, NEW v \in RequestVerdicts(questions, FALSE, unlock),
         IsLocked(v)
  PROVE  \E x \in DOMAIN questions :
           questions[x].type = "choice" /\ Cardinality(questions[x].count) <= MaxOptions
<1>1. Fine.code = "" /\ Invalid.code = "invalid_request_error"
  BY DEF Fine, Invalid, Refusal
<1>2. v \in {QuestionVerdict(questions[q], unlock) : q \in DOMAIN questions}
  BY <1>1 DEF RequestVerdicts, IsLocked
<1> QED  BY <1>2, LockBlamed DEF IsLocked

\* A response the client cannot use is an outage.
LEMMA UnusableIsOutage ==
  ASSUME NEW code \in {"upstream_response_too_large", "upstream_invalid_response"},
         NEW e, e = Unusable(code)
  PROVE  \A systemOne : ~Rotates(e, systemOne) /\ SystemOneAnswer(e).status \in 500..599
<1>1. IsAPI(e) /\ e.status = 502 /\ e.codes = {code} /\ e.text = "none"
  BY DEF Unusable, IsAPI
<1>2. /\ ~HasCode(e, "insufficient_credits") /\ ~HasCode(e, "USAGE_EXCEEDED")
      /\ ~HasCode(e, "CMD_ZDR_NO_PROVIDERS") /\ ~HasCode(e, "upgrade_required")
      /\ ~HasCode(e, "MODEL_NOT_IN_PLAN") /\ ~HasCode(e, "unsupported_model") /\ ~HasCode(e, "request_too_large")
  BY <1>1 DEF HasCode
<1>3. /\ ~IsInsufficientCredits(e) /\ ~IsRequestTooLarge(e) /\ ~IsSpendCapExceeded(e)
      /\ ~IsZDRUnavailable(e) /\ ~IsModelNotInPlan(e) /\ ~IsModelNotRecognized(e)
  BY <1>1, <1>2 DEF IsInsufficientCredits, IsRequestTooLarge, IsSpendCapExceeded, IsZDRUnavailable,
                    IsModelNotInPlan, IsModelNotRecognized
<1>4. ~IsInterrupted(e) /\ ~IsRateLimited(e) /\ ~IsForbidden(e) /\ ~IsRefused(e) /\ ~IsClientError(e)
  BY <1>1 DEF IsInterrupted, IsAPI, IsRateLimited, IsForbidden, IsRefused, IsClientError
<1>5. \A systemOne : PoolArm(e, systemOne) = "outage"
  BY <1>3, <1>4, PoolArms DEF IsPermission
<1> QED  BY <1>1, <1>5, OutagesSurface

\* An exchange is usable, or unusable with a code.
LEMMA Outcomes ==
  ASSUME NEW questions, NEW response, NEW outcome, outcome = Judged(questions, response)
  PROVE  \/ outcome = Usable /\ ~response.long /\ Decodes(questions, response)
         \/ \E code \in {"upstream_response_too_large", "upstream_invalid_response"} :
              outcome = Unusable(code)
  BY DEF Judged

\* The status the client of System One sees.
LEMMA HandledParts ==
  ASSUME NEW e
  PROVE  /\ e.kind = "api" => Handled(e, FALSE).status = SystemOneAnswer(e).status
                              /\ Handled(e, TRUE).status = 0
  BY DEF Handled, Told, ErrorStatus

\* As many of a finite set as it has are all of it.
LEMMA AllOfIt ==
  ASSUME NEW S, NEW T, IsFiniteSet(T), S \subseteq T, Cardinality(S) = Cardinality(T)
  PROVE  S = T
  BY FS_Subset

\* A usable answer answers all that was asked, and nothing else.
LEMMA UsableAnswers ==
  ASSUME NEW questions \in Requests, NEW response \in Responses,
         Decodes(questions, response)
  PROVE  IsWhole(questions, response)
<1> DEFINE a == response.answers
<1>1. /\ response.sound /\ Cardinality(DOMAIN a) = Cardinality(DOMAIN questions)
      /\ \A x \in DOMAIN questions : x \in DOMAIN a /\ AnswerFits(questions[x], a[x])
  BY DEF Decodes
<1>2. /\ IsFiniteSet(DOMAIN a)
      /\ \A x \in DOMAIN questions : questions[x].type = "choice" => IsFiniteSet(questions[x].count)
  BY InputsAssumption
<1> HIDE DEF a
<1>3. DOMAIN questions = DOMAIN a
  BY <1>1, <1>2, AllOfIt
<1>4. ASSUME NEW x \in DOMAIN questions, questions[x].type = "choice"
      PROVE  /\ a[x].choice \in questions[x].count
             /\ a[x].probabilities # Absent => DOMAIN a[x].probabilities = questions[x].count
  <2>1. /\ a[x].choice \in questions[x].count
        /\ a[x].probabilities # Absent => Covers(a[x].probabilities, questions[x].count)
    BY <1>1, <1>4 DEF AnswerFits
  <2>2. ASSUME a[x].probabilities # Absent PROVE DOMAIN a[x].probabilities = questions[x].count
    <3>1. /\ Cardinality(DOMAIN a[x].probabilities) = Cardinality(questions[x].count)
          /\ DOMAIN a[x].probabilities \subseteq questions[x].count
      BY <2>1, <2>2 DEF Covers
    <3>2. IsFiniteSet(questions[x].count)
      BY <1>2, <1>4
    <3> QED  BY <3>1, <3>2, AllOfIt
  <2> QED  BY <2>1, <2>2
<1> QED  BY <1>1, <1>3, <1>4 DEF a, IsWhole

\* What is told of an exchange, from what was asked and what came back.
LEMMA ExchangeIsWhole ==
  ASSUME NEW q \in Requests, NEW response \in Responses,
         NEW outcome, outcome = Judged(q, response)
  PROVE  /\ IsPassedOn(outcome) => IsWhole(q, response)
         /\ outcome # Usable => IsRejected(outcome)
<1>1. CASE outcome = Usable /\ Decodes(q, response)
  BY <1>1, UsableAnswers
<1>2. CASE \E code \in {"upstream_response_too_large", "upstream_invalid_response"} : outcome = Unusable(code)
  <2> DEFINE Outage == 500..599
  <2>1. ~Rotates(outcome, TRUE) /\ SystemOneAnswer(outcome).status \in Outage
    <3>1. PICK code \in {"upstream_response_too_large", "upstream_invalid_response"} : outcome = Unusable(code)
      BY <1>2
    <3>2. \A systemOne : ~Rotates(outcome, systemOne) /\ SystemOneAnswer(outcome).status \in Outage
      BY <3>1, UnusableIsOutage
    <3> HIDE DEF Outage
    <3> QED  BY Zenon, <3>2
  <2>2. 200 \notin Outage
    OBVIOUS
  <2> HIDE DEF Outage
  <2>3. outcome.kind = "api"
    BY <1>2 DEF Unusable
  <2>4. /\ Handled(outcome, FALSE).status = SystemOneAnswer(outcome).status
        /\ Handled(outcome, TRUE).status = 0
    BY <2>3, HandledParts
  <2>5. Handled(outcome, FALSE).status \in Outage
    BY <2>1, <2>4
  <2>6. ~IsPassedOn(outcome)
    BY <2>2, <2>5 DEF IsPassedOn
  <2>7. IsRejected(outcome)
    BY <2>1, <2>4, <2>5 DEF IsRejected, Outage
  <2> QED  BY <2>6, <2>7
<1> QED  BY <1>1, <1>2, Outcomes

\* System One passes on only whole answers, spares the key an answer it rejects, and
\* blames the lock only where lifting it helps (SystemOneIsWhole): Judged and Handled
\* after ParseSystemOneRequest, and writeSystemOneError for every failure.
THEOREM SystemOneIsWholeAlways == Spec => []SystemOneIsWhole
<1>1. ASSUME Inputs, of = "exchange", NEW q, q = input.questions, 
             NEW response, response = input.response, NEW outcome, outcome = Judged(q, response)
      PROVE  /\ \A v \in RequestVerdicts(q, FALSE, input.unlock) : IsLocked(v) =>
                  \E x \in DOMAIN q : q[x].type = "choice" /\ Cardinality(q[x].count) <= MaxOptions
             /\ Fine \in RequestVerdicts(q, FALSE, input.unlock) =>
                  RequestVerdicts(q, FALSE, input.unlock) = {Fine} /\ RequestVerdicts(q, FALSE, TRUE) = {Fine}
             /\ IsPassedOn(outcome) => IsWhole(q, response)
             /\ outcome # Usable => IsRejected(outcome)
  <2>1. q \in Requests /\ response \in Responses
    BY <1>1 DEF Inputs
  <2>2. \A v \in RequestVerdicts(q, FALSE, input.unlock) : IsLocked(v) =>
          \E x \in DOMAIN q : q[x].type = "choice" /\ Cardinality(q[x].count) <= MaxOptions
    BY BlamedRequests
  <2>3. Fine \in RequestVerdicts(q, FALSE, input.unlock) =>
          RequestVerdicts(q, FALSE, input.unlock) = {Fine} /\ RequestVerdicts(q, FALSE, TRUE) = {Fine}
    BY FineRequests
  <2>4. /\ IsPassedOn(outcome) => IsWhole(q, response)
        /\ outcome # Usable => IsRejected(outcome)
    BY <1>1, <2>1, ExchangeIsWhole
  <2> QED  BY <2>2, <2>3, <2>4
<1>2. ASSUME Inputs, of = "failure", SystemOneRetry(Failure1) > 0
      PROVE  SystemOneAnswer(Failure1).status = 429 \/ SystemOneAnswer(Failure1).status \in 500..599
  <2>1. Failure1.retry \in Nat
    BY <1>2, FailureParts
  <2> QED  BY <1>2, <2>1, RetriesCanSucceed
<1>3. Inputs => SystemOneIsWhole
  <2>1. ASSUME Inputs, of = "exchange"
        PROVE  LET q == input.questions
                   verdicts == RequestVerdicts(q, FALSE, input.unlock)
                   outcome == Judged(q, input.response)
               IN /\ \A v \in verdicts : IsLocked(v) =>
                       \E x \in DOMAIN q : q[x].type = "choice" /\ Cardinality(q[x].count) <= MaxOptions
                  /\ Fine \in verdicts => verdicts = {Fine} /\ RequestVerdicts(q, FALSE, TRUE) = {Fine}
                  /\ Fine \in verdicts /\ IsPassedOn(outcome) => IsWhole(q, input.response)
                  /\ outcome # Usable => IsRejected(outcome)
    BY Zenon, <1>1, <2>1
  <2>2. ASSUME Inputs, of = "failure", SystemOneRetry(Failure1) > 0
        PROVE  SystemOneAnswer(Failure1).status = 429 \/ SystemOneAnswer(Failure1).status \in 500..599
    BY Zenon, <1>2, <2>2
  <2> QED  BY Zenon, <2>1, <2>2 DEF SystemOneIsWhole
<1> QED  BY <1>3, InputsAlways, PTL

-----------------------------------------------------------------------------
(* The root of a conversation. *)

\* Every set of numbers has a least one.
LEMMA HasLeast ==
  ASSUME NEW T \in SUBSET Nat, T # {}
  PROVE  \E x \in T : \A y \in T : x <= y
<1> DEFINE Less == OpToRel(<, Nat)
<1>0. Less = {p \in Nat \X Nat : p[1] < p[2]}
  BY DEF OpToRel
<1>1. IsWellFoundedOn(Less, Nat)
  BY NatLessThanWellFounded
<1> HIDE DEF Less
<1>2. PICK x \in T : \A y \in T : ~(<<y, x>> \in Less)
  BY <1>1, WFMin
<1>3. ASSUME NEW y \in T PROVE x <= y
  <2>1. ~(<<y, x>> \in Less)
    BY <1>2
  <2>2. ~(y < x)
    BY <1>0, <2>1
  <2> QED  BY <2>2
<1> QED  BY <1>3

\* CHOOSE finds the least of a set that has one.
LEMMA TheLeast ==
  ASSUME NEW T \in SUBSET Nat, NEW i \in T, \A j \in T : i <= j
  PROVE  (CHOOSE k \in T : \A j \in T : k <= j) = i
<1> DEFINE least(k) == \A j \in T : k <= j
<1>1. i \in T /\ least(i)
  OBVIOUS
<1>2. \A k \in T : least(k) => k = i
  BY <1>1
<1> QED  BY <1>1, <1>2

\* One more message does not change what the root is made of.
LEMMA RootPartsStay ==
  ASSUME NEW S, NEW s \in Seq(S), HasTurn(s), NEW m \in S
  PROVE  RootParts(Append(s, m)) = RootParts(s)
<1> DEFINE t == Append(s, m)
           turns(q) == {i \in DOMAIN q : ~IsSystem(q[i])}
<1>1. /\ t \in Seq(S) /\ Len(s) \in Nat /\ Len(t) = Len(s) + 1
      /\ DOMAIN s = 1..Len(s) /\ DOMAIN t = 1..Len(t)
      /\ \A i \in 1..Len(s) : t[i] = s[i]
  OBVIOUS
<1> HIDE DEF t
<1>2. turns(s) # {} /\ turns(s) \in SUBSET Nat /\ turns(t) \in SUBSET Nat
  BY <1>1 DEF HasTurn
<1>3. PICK n \in turns(s) : \A j \in turns(s) : n <= j
  BY <1>2, HasLeast
<1>4. n \in 1..Len(s) /\ n \in turns(t)
  BY <1>1, <1>3
<1>5. \A j \in turns(t) : n <= j
  <2>1. ASSUME NEW j \in turns(t) PROVE n <= j
    <3>1. CASE j \in 1..Len(s)
      BY <1>1, <1>3, <3>1
    <3>2. CASE j = Len(s) + 1
      BY <1>1, <1>4, <3>2
    <3> QED  BY <1>1, <2>1, <3>1, <3>2
  <2> QED  BY <2>1
<1>6. /\ (CHOOSE i \in turns(s) : \A j \in turns(s) : i <= j) = n
      /\ (CHOOSE i \in turns(t) : \A j \in turns(t) : i <= j) = n
  <2> HIDE DEF turns
  <2> QED  BY <1>2, <1>3, <1>4, <1>5, TheLeast
<1>7. RootParts(s) = SubSeq(s, 1, n) /\ RootParts(t) = SubSeq(t, 1, n)
  BY <1>2, <1>4, <1>6 DEF RootParts
<1>8. SubSeq(t, 1, n) = SubSeq(s, 1, n)
  <2>1. SubSeq(s, 1, n) = [i \in 1..n |-> s[i]]
    BY <1>1, <1>4
  <2>2. SubSeq(t, 1, n) = [i \in 1..n |-> t[i]]
    BY <1>1, <1>4
  <2> QED  BY <1>1, <1>4, <2>1, <2>2
<1> QED  BY <1>7, <1>8 DEF t

\* ConversationRoot, and the session made from it, is that of the first turn: no message
\* appended later changes it.
THEOREM RootIsStableAlways == Spec => RootIsStable
<1>1. Inputs /\ [Next]_vars => [of = "conversation" /\ HasTurn(input) => Root(input') = Root(input)]_vars
  <2> SUFFICES ASSUME Inputs, [Next]_vars, of = "conversation", HasTurn(input), vars' # vars
               PROVE  Root(input') = Root(input)
    BY DEF vars
  <2>1. Grow
    BY DEF Next, Longer, Unlock, vars
  <2>2. PICK m \in Messages : input' = Append(input, m)
    BY <2>1 DEF Grow
  <2>3. input \in Seq(Messages)
    BY DEF Inputs
  <2>4. RootParts(input') = RootParts(input)
    BY <2>2, <2>3, RootPartsStay
  <2> QED  BY <2>4 DEF Root
<1> QED  BY <1>1, InputsAlways, PTL DEF Spec, RootIsStable

-----------------------------------------------------------------------------
(* The stream of events. *)

\* A set of naturals with 0 and each successor has them all.
LEMMA NatSetInduction ==
  ASSUME NEW T \in SUBSET Nat, 0 \in T, \A n \in T : n + 1 \in T
  PROVE  T = Nat
<1> DEFINE U == Nat \ T
<1> SUFFICES ASSUME U # {} PROVE FALSE
  OBVIOUS
<1>1. PICK x \in U : \A y \in U : x <= y
  BY HasLeast
<1>2. x # 0 /\ x \in Nat
  OBVIOUS
<1>3. x - 1 \in Nat /\ (x - 1) + 1 = x
  BY <1>2
<1>4. x - 1 \notin T
  BY <1>3
<1> QED  BY <1>1, <1>2, <1>3, <1>4

\* What a loop of the code, over the lines or the messages in v, does to its result t
\* at number n.
Stepped(loop, v, t, n) ==
  CASE loop = "read"    -> Read(t, n, All(v)[n], ErrorAt(v, n))
    [] loop = "said"    -> Said(t, v[n])
    [] loop = "section" -> Section(t, v[n])
    [] loop = "named"   -> Named(t, v[n])
    [] loop = "turn"    -> Turn(t, v[n])

\* The results of a loop over v from zero.
LoopBy(loop, zero, v, N, f) ==
  f = [n \in 0..N |-> IF n = 0 THEN zero ELSE Stepped(loop, v, f[n - 1], n)]

\* There is such a function, for however many times.
LEMMA LoopsExist ==
  ASSUME NEW loop, NEW zero, NEW v, NEW N \in Nat
  PROVE  \E f : LoopBy(loop, zero, v, N, f)
<1> DEFINE T == {n \in Nat : \E f : LoopBy(loop, zero, v, n, f)}
<1>1. 0 \in T
  <2> DEFINE f == [n \in 0..0 |-> zero]
  <2>1. LoopBy(loop, zero, v, 0, f)
    BY DEF LoopBy
  <2> QED  BY <2>1
<1>2. ASSUME NEW n \in T PROVE n + 1 \in T
  <2>1. PICK f : LoopBy(loop, zero, v, n, f)
    OBVIOUS
  <2> DEFINE more == [i \in 0..(n + 1) |-> IF i = 0 THEN zero ELSE Stepped(loop, v, f[i - 1], i)]
  <2>2. n \in Nat /\ f = [i \in 0..n |-> IF i = 0 THEN zero ELSE Stepped(loop, v, f[i - 1], i)]
    BY <2>1 DEF LoopBy
  <2>3. \A i \in 0..n : more[i] = f[i]
    BY <2>2
  <2>4. \A i \in 1..(n + 1) : i - 1 \in 0..n
    BY <2>2
  <2>5. more = [i \in 0..(n + 1) |-> IF i = 0 THEN zero ELSE Stepped(loop, v, more[i - 1], i)]
    <3>1. \A i \in 0..(n + 1) : more[i] = IF i = 0 THEN zero ELSE Stepped(loop, v, more[i - 1], i)
      BY <2>2, <2>3, <2>4
    <3> HIDE DEF more
    <3>2. more = [i \in 0..(n + 1) |-> more[i]]
      BY DEF more
    <3> QED  BY <3>1, <3>2
  <2> HIDE DEF more
  <2>6. LoopBy(loop, zero, v, n + 1, more)
    BY <2>5 DEF LoopBy
  <2> QED  BY <2>2, <2>6
<1>3. T = Nat
  <2> HIDE DEF T
  <2>1. T \in SUBSET Nat
    BY DEF T
  <2> QED  BY <1>1, <1>2, <2>1, NatSetInduction
<1> QED  BY <1>3

\* What a Reader holds after each of the lines of a body.
ReadAfter(body, N) ==
  CHOOSE f : f = [n \in 0..N |-> IF n = 0 THEN Started ELSE Read(f[n - 1], n, All(body)[n], ErrorAt(body, n))]

\* Read takes one line after the other.
LEMMA ReadSteps ==
  ASSUME NEW body, NEW N \in Nat, NEW f, f = ReadAfter(body, N)
  PROVE  f[0] = Started /\ \A n \in 1..N : f[n] = Read(f[n - 1], n, All(body)[n], ErrorAt(body, n))
<1>1. \A t, n : Stepped("read", body, t, n) = Read(t, n, All(body)[n], ErrorAt(body, n))
  BY DEF Stepped
<1>2. PICK h : LoopBy("read", Started, body, N, h)
  BY LoopsExist
<1>3. h = [n \in 0..N |-> IF n = 0 THEN Started ELSE Read(h[n - 1], n, All(body)[n], ErrorAt(body, n))]
  BY Zenon, <1>1, <1>2 DEF LoopBy
<1>4. f = [n \in 0..N |-> IF n = 0 THEN Started ELSE Read(f[n - 1], n, All(body)[n], ErrorAt(body, n))]
  BY Zenon, <1>3 DEF ReadAfter
<1>5. \A n \in 0..N : f[n] = IF n = 0 THEN Started ELSE Read(f[n - 1], n, All(body)[n], ErrorAt(body, n))
  BY Zenon, <1>4
<1>6. 0 \in 0..N /\ \A n \in 1..N : n \in 0..N /\ n # 0
  OBVIOUS
<1> QED  BY <1>5, <1>6

\* Faults are lines, and a line is one exactly when Read says so.
LEMMA FaultsAre ==
  ASSUME NEW body \in Bodies
  PROVE  /\ Len(body.lines) \in Nat /\ Len(All(body)) = Len(body.lines) + 1
         /\ DOMAIN All(body) = 1..Len(All(body)) /\ Faults(body) \subseteq 1..Len(All(body))
         /\ \A i \in 1..Len(All(body)) :
              /\ Verdict(All(body)[i], ErrorAt(body, i)) = "malformed" <=> i \in Faults(body)
              /\ Verdict(All(body)[i], ErrorAt(body, i)) = "event" <=> All(body)[i] = "event"
              /\ All(body)[i] = "event" => i \notin Faults(body)
<1> DEFINE N == Len(body.lines)
<1>1. body.lines \in Seq(Lines) /\ body.tail \in Lines /\ body.end \in Ends
  BY DEF Bodies
<1>2. /\ N \in Nat /\ DOMAIN body.lines = 1..N /\ Len(All(body)) = N + 1 /\ DOMAIN All(body) = 1..(N + 1)
      /\ \A i \in 1..N : All(body)[i] = body.lines[i] /\ body.lines[i] \in Lines
      /\ All(body)[N + 1] = body.tail
  BY <1>1 DEF All
<1> HIDE DEF N
<1>3. Faults(body) = {i \in 1..N : Critical(body.lines[i])} \cup
                     (IF Critical(body.tail) /\ (body.end = "EOF" \/ body.tail = "mistyped") THEN {N + 1} ELSE {})
  BY <1>2 DEF Faults, N
<1>4. Faults(body) \subseteq 1..(N + 1)
  BY <1>2, <1>3
<1>5. \A line \in Lines : /\ Verdict(line, "none") = "malformed" <=> Critical(line)
                          /\ Verdict(line, "none") = "event" <=> line = "event"
                          /\ line = "event" => ~Critical(line)
  BY DEF Lines, Verdict, Undecodable, CutOff, Critical
<1>6. \A line \in Lines, end \in Ends :
        /\ Verdict(line, end) = "malformed" <=> Critical(line) /\ (end = "EOF" \/ line = "mistyped")
        /\ Verdict(line, end) = "event" <=> line = "event"
  BY DEF Lines, Ends, Verdict, Undecodable, CutOff, Critical, IsJSON
<1>7. ASSUME NEW i \in 1..N
      PROVE  /\ Verdict(All(body)[i], ErrorAt(body, i)) = "malformed" <=> i \in Faults(body)
             /\ Verdict(All(body)[i], ErrorAt(body, i)) = "event" <=> All(body)[i] = "event"
             /\ All(body)[i] = "event" => i \notin Faults(body)
  <2>1. ErrorAt(body, i) = "none"
    BY <1>2 DEF ErrorAt, N
  <2>2. i \in Faults(body) <=> Critical(body.lines[i])
    BY <1>2, <1>3
  <2>3. All(body)[i] = body.lines[i] /\ body.lines[i] \in Lines
    BY <1>2
  <2> QED  BY <1>5, <2>1, <2>2, <2>3
<1>8. /\ Verdict(All(body)[N + 1], ErrorAt(body, N + 1)) = "malformed" <=> N + 1 \in Faults(body)
      /\ Verdict(All(body)[N + 1], ErrorAt(body, N + 1)) = "event" <=> All(body)[N + 1] = "event"
      /\ All(body)[N + 1] = "event" => N + 1 \notin Faults(body)
  <2>1. ErrorAt(body, N + 1) = body.end
    BY <1>2 DEF ErrorAt, N
  <2>2. N + 1 \in Faults(body) <=> Critical(body.tail) /\ (body.end = "EOF" \/ body.tail = "mistyped")
    BY <1>2, <1>3
  <2> QED  BY <1>1, <1>2, <1>5, <1>6, <2>1, <2>2
<1> QED  BY <1>2, <1>4, <1>7, <1>8 DEF N

\* What holds of a Reader after n lines.
ReadUpTo(body, r, n) ==
  /\ r.given \in Seq(Nat)
  /\ Increasing(r.given)
  /\ Elements(r.given) = {i \in Events(body) : i <= n}
  /\ (\E f \in Faults(body) : f <= n) => r.err = "malformed"
  /\ (\A f \in Faults(body) : n < f) => r.err = IF n <= Len(body.lines) THEN "none" ELSE body.end

\* An event that comes later goes to the end.
LEMMA LaterElement ==
  ASSUME NEW s \in Seq(Nat), NEW n \in Nat, \A j \in Elements(s) : j < n, Increasing(s)
  PROVE  /\ Append(s, n) \in Seq(Nat) /\ Increasing(Append(s, n))
         /\ Elements(Append(s, n)) = Elements(s) \cup {n}
<1> DEFINE h == Append(s, n)
<1>1. /\ h \in Seq(Nat) /\ Len(s) \in Nat /\ DOMAIN s = 1..Len(s) /\ DOMAIN h = 1..(Len(s) + 1)
      /\ \A k \in 1..Len(s) : h[k] = s[k]
      /\ h[Len(s) + 1] = n
  OBVIOUS
<1> HIDE DEF h
<1>2. Elements(h) = Elements(s) \cup {n}
  BY <1>1 DEF Elements
<1>3. \A k \in 1..Len(s) : s[k] < n
  BY <1>1 DEF Elements
<1>4. ASSUME NEW k \in DOMAIN h, NEW j \in DOMAIN h, k < j PROVE h[k] < h[j]
  <2>1. k \in 1..Len(s)
    BY <1>1, <1>4
  <2>2. CASE j \in 1..Len(s)
    BY <1>1, <1>4, <2>1, <2>2 DEF Increasing
  <2>3. CASE j = Len(s) + 1
    BY <1>1, <1>3, <2>1, <2>3
  <2> QED  BY <1>1, <1>4, <2>2, <2>3
<1> QED  BY <1>1, <1>2, <1>4 DEF h, Increasing

\* One more line.
LEMMA ReadsOn ==
  ASSUME NEW body \in Bodies, NEW n \in 0..Len(body.lines), NEW r, ReadUpTo(body, r, n),
         NEW i, i = n + 1, NEW now, now = Read(r, i, All(body)[i], ErrorAt(body, i))
  PROVE  ReadUpTo(body, now, i)
<1> DEFINE N == Len(body.lines)
           line == All(body)[i]
           err == ErrorAt(body, i)
           F == Faults(body)
<1>1. /\ N \in Nat /\ n \in 0..N /\ i \in 1..(N + 1) /\ F \subseteq 1..(N + 1) /\ DOMAIN All(body) = 1..(N + 1)
      /\ Verdict(line, err) = "malformed" <=> i \in F
      /\ Verdict(line, err) = "event" <=> line = "event"
      /\ line = "event" => i \notin F
      /\ err = IF i <= N THEN "none" ELSE body.end
  BY FaultsAre DEF ErrorAt
<1>2. Events(body) = {j \in 1..(N + 1) : All(body)[j] = "event" /\ \A f \in F : j < f}
  BY <1>1 DEF Events
<1>3. /\ r.given \in Seq(Nat)
      /\ Increasing(r.given)
      /\ Elements(r.given) = {j \in Events(body) : j <= n}
      /\ (\E f \in F : f <= n) => r.err = "malformed"
      /\ (\A f \in F : n < f) => r.err = "none"
  BY <1>1 DEF ReadUpTo
<1> HIDE DEF N, line, err, F
<1>4. CASE \E f \in F : f <= n
  <2>1. now = r
    BY <1>3, <1>4 DEF Read, line, err
  <2>2. {j \in Events(body) : j <= i} = {j \in Events(body) : j <= n}
    BY <1>1, <1>2, <1>4
  <2>3. (\E f \in F : f <= i) /\ ~(\A f \in F : i < f)
    BY <1>1, <1>4
  <2>4. /\ now.given \in Seq(Nat) /\ Increasing(now.given)
        /\ Elements(now.given) = {j \in Events(body) : j <= i} /\ now.err = "malformed"
    BY <1>3, <1>4, <2>1, <2>2
  <2> QED  BY <2>3, <2>4 DEF ReadUpTo, F
<1>5. CASE \A f \in F : n < f
  <2>1. r.err = "none"
    BY <1>3, <1>5
  <2>2. now = [given |-> IF line = "event" THEN Append(r.given, i) ELSE r.given,
               err   |-> IF i \in F THEN "malformed" ELSE err]
    BY <1>1, <2>1 DEF Read, line, err
  <2>3. (\E f \in F : f <= i) <=> i \in F
    BY <1>1, <1>5
  <2>4. /\ (\E f \in F : f <= i) => now.err = "malformed"
        /\ (\A f \in F : i < f) => now.err = IF i <= N THEN "none" ELSE body.end
    <3>1. (\A f \in F : i < f) => i \notin F
      BY <1>1
    <3> QED  BY <1>1, <2>2, <2>3, <3>1
  <2>5. CASE line = "event"
    <3>1. {j \in Events(body) : j <= i} = {j \in Events(body) : j <= n} \cup {i}
      BY <1>1, <1>2, <1>5, <2>5 DEF line
    <3>2. now.given = Append(r.given, i)
      BY <2>2, <2>5
    <3>3. /\ now.given \in Seq(Nat) /\ Increasing(now.given)
          /\ Elements(now.given) = Elements(r.given) \cup {i}
      <4>1. i \in Nat /\ \A j \in Elements(r.given) : j < i
        BY <1>1, <1>2, <1>3
      <4> QED  BY <1>3, <3>2, <4>1, LaterElement
    <3>4. Elements(now.given) = {j \in Events(body) : j <= i}
      BY <1>3, <3>1, <3>3
    <3> QED  BY <2>4, <3>3, <3>4 DEF ReadUpTo, F, N
  <2>6. CASE line # "event"
    <3>1. {j \in Events(body) : j <= i} = {j \in Events(body) : j <= n}
      BY <1>1, <1>2, <2>6 DEF line
    <3>2. now.given = r.given
      BY <2>2, <2>6
    <3>3. now.given \in Seq(Nat) /\ Increasing(now.given) /\ Elements(now.given) = {j \in Events(body) : j <= i}
      BY <1>3, <3>1, <3>2
    <3> QED  BY <2>4, <3>3 DEF ReadUpTo, F, N
  <2> QED  BY <2>5, <2>6
<1>6. (\E f \in F : f <= n) \/ (\A f \in F : n < f)
  BY <1>1
<1> QED  BY <1>4, <1>5, <1>6

\* The Reader is faithful to each body: by induction over its lines.
LEMMA EveryBodyIsFaithful ==
  ASSUME NEW body \in Bodies
  PROVE  Faithful(body)
<1> DEFINE N == Len(body.lines)
           read == ReadAfter(body, N + 1)
           T == {n \in Nat : n <= N + 1 => ReadUpTo(body, read[n], n)}
<1>1. N \in Nat /\ Len(All(body)) = N + 1 /\ Faults(body) \subseteq 1..(N + 1) /\ DOMAIN All(body) = 1..(N + 1)
  BY FaultsAre
<1>2. Deliver(body) = read[N + 1]
  BY Zenon, <1>1 DEF Deliver, ReadAfter
<1>3. read[0] = Started /\ \A n \in 1..(N + 1) : read[n] = Read(read[n - 1], n, All(body)[n], ErrorAt(body, n))
  <2>1. N + 1 \in Nat
    BY <1>1
  <2> HIDE DEF N
  <2> QED  BY <2>1, ReadSteps
<1> HIDE DEF read
<1>4. /\ read[0] = Started
      /\ \A n \in 0..N : read[n + 1] = Read(read[n], n + 1, All(body)[n + 1], ErrorAt(body, n + 1))
  <2>1. \A n \in 0..N : n + 1 \in 1..(N + 1) /\ (n + 1) - 1 = n
    BY <1>1
  <2> QED  BY <1>3, <2>1
<1>5. 0 \in T
  <2>1. ReadUpTo(body, Started, 0)
    <3>1. {i \in Events(body) : i <= 0} = {}
      BY <1>1 DEF Events
    <3>2. \A f \in Faults(body) : 0 < f
      BY <1>1
    <3> QED  BY <1>1, <3>1, <3>2 DEF ReadUpTo, Started, Increasing, Elements
  <2> QED  BY <1>4, <2>1
<1>6. ASSUME NEW n \in T PROVE n + 1 \in T
  <2>1. n \in Nat
    OBVIOUS
  <2>2. ASSUME n + 1 <= N + 1 PROVE ReadUpTo(body, read[n + 1], n + 1)
    <3>1. n \in 0..N /\ ReadUpTo(body, read[n], n)
      BY <1>1, <2>1, <2>2
    <3> QED  BY <1>4, <3>1, ReadsOn
  <2> QED  BY <2>1, <2>2
<1>7. T = Nat
  <2> HIDE DEF T
  <2>1. T \in SUBSET Nat
    BY DEF T
  <2> QED  BY <1>5, <1>6, <2>1, NatSetInduction
<1>8. ReadUpTo(body, Deliver(body), N + 1)
  BY <1>1, <1>2, <1>7
<1>9. {i \in Events(body) : i <= N + 1} = Events(body)
  BY <1>1 DEF Events
<1>10. (\E f \in Faults(body) : f <= N + 1) <=> Faults(body) # {}
  BY <1>1
<1>11. ~(N + 1 <= N)
  BY <1>1
<1> QED  BY <1>8, <1>9, <1>10, <1>11 DEF Faithful, ReadUpTo

\* Reader.Next hands over every event before the first fault, in order and once, and then
\* blames what went wrong, for bodies of any length.
THEOREM EventsAreDeliveredAlways == Spec => []EventsAreDelivered
<1>1. Inputs => EventsAreDelivered
  BY EveryBodyIsFaithful DEF Inputs, EventsAreDelivered
<1> QED  BY <1>1, InputsAlways, PTL

-----------------------------------------------------------------------------
(* Sequences joined. *)

\* What holds of <<>> and of each longer sequence holds of all.
LEMMA SeqInduction ==
  ASSUME NEW S, NEW T, <<>> \in T, \A s \in Seq(S) : \A x \in S : s \in T => Append(s, x) \in T
  PROVE  \A s \in Seq(S) : s \in T
<1> DEFINE U == {n \in Nat : \A s \in Seq(S) : Len(s) = n => s \in T}
<1>1. 0 \in U
  <2>1. \A s \in Seq(S) : Len(s) = 0 => s = <<>>
    OBVIOUS
  <2> QED  BY <2>1
<1>2. ASSUME NEW n \in U PROVE n + 1 \in U
  <2>1. ASSUME NEW s \in Seq(S), Len(s) = n + 1 PROVE s \in T
    <3>1. n \in Nat
      OBVIOUS
    <3> DEFINE b == [i \in 1..n |-> s[i]]
    <3>2. b \in Seq(S) /\ Len(b) = n /\ s[n + 1] \in S
      BY <2>1, <3>1
    <3>3. Append(b, s[n + 1]) = s
      BY <2>1, <3>1
    <3>4. b \in T
      BY <3>2
    <3> HIDE DEF b, U
    <3> QED  BY <3>2, <3>3, <3>4
  <2> QED  BY <2>1
<1>3. U = Nat
  <2> HIDE DEF U
  <2>1. U \in SUBSET Nat
    BY DEF U
  <2> QED  BY <1>1, <1>2, <2>1, NatSetInduction
<1>4. \A s \in Seq(S) : Len(s) \in U
  <2> HIDE DEF U
  <2> QED  BY <1>3
<1> QED  BY <1>4

\* What the n-th sequences of s make together.
FlatBy(s, N, f) == f = [i \in 1..N |-> IF i = 1 THEN s[i] ELSE f[i - 1] \o s[i]]

\* FlattenSeq, by the function it is made with.
LEMMA FlattenDef ==
  ASSUME NEW s
  PROVE  FlattenSeq(s) = IF Len(s) = 0 THEN s ELSE (CHOOSE f : FlatBy(s, Len(s), f))[Len(s)]
  BY Zenon DEF FlattenSeq, FlatBy

\* There is such a function, for however many sequences.
LEMMA FlatsExist ==
  ASSUME NEW s, NEW N \in Nat
  PROVE  \E f : FlatBy(s, N, f)
<1> DEFINE T == {n \in Nat : \E f : FlatBy(s, n, f)}
<1>1. 0 \in T
  <2> DEFINE f == [i \in 1..0 |-> s[i]]
  <2>1. FlatBy(s, 0, f)
    BY DEF FlatBy
  <2> QED  BY <2>1
<1>2. ASSUME NEW n \in T PROVE n + 1 \in T
  <2>1. PICK f : FlatBy(s, n, f)
    OBVIOUS
  <2> DEFINE more == [i \in 1..(n + 1) |-> IF i = 1 THEN s[i] ELSE f[i - 1] \o s[i]]
  <2>2. n \in Nat /\ f = [i \in 1..n |-> IF i = 1 THEN s[i] ELSE f[i - 1] \o s[i]]
    BY <2>1 DEF FlatBy
  <2>3. ASSUME NEW i \in 1..n PROVE more[i] = f[i]
    <3>1. i \in 1..(n + 1)
      BY <2>2
    <3>2. more[i] = IF i = 1 THEN s[i] ELSE f[i - 1] \o s[i]
      BY <3>1
    <3> HIDE DEF more
    <3>3. f[i] = IF i = 1 THEN s[i] ELSE f[i - 1] \o s[i]
      BY Zenon, <2>2
    <3> QED  BY <3>2, <3>3
  <2>4. \A i \in 1..(n + 1) : i # 1 => i - 1 \in 1..n
    BY <2>2
  <2>5. more = [i \in 1..(n + 1) |-> IF i = 1 THEN s[i] ELSE more[i - 1] \o s[i]]
    <3>1. \A i \in 1..(n + 1) : more[i] = IF i = 1 THEN s[i] ELSE more[i - 1] \o s[i]
      <4>1. ASSUME NEW i \in 1..(n + 1), i # 1 PROVE more[i] = more[i - 1] \o s[i]
        <5>1. more[i] = f[i - 1] \o s[i]
          BY <4>1
        <5>2. i - 1 \in 1..n
          BY <2>4, <4>1
        <5> HIDE DEF more
        <5>3. more[i - 1] = f[i - 1]
          BY <2>3, <5>2
        <5> QED  BY <5>1, <5>3
      <4>2. 1 \in 1..(n + 1) => more[1] = s[1]
        OBVIOUS
      <4> HIDE DEF more
      <4> QED  BY <4>1, <4>2
    <3> HIDE DEF more
    <3>2. more = [i \in 1..(n + 1) |-> more[i]]
      BY DEF more
    <3> QED  BY <3>1, <3>2
  <2> HIDE DEF more
  <2>6. FlatBy(s, n + 1, more)
    BY <2>5 DEF FlatBy
  <2> QED  BY <2>2, <2>6
<1>3. T = Nat
  <2> HIDE DEF T
  <2>1. T \in SUBSET Nat
    BY DEF T
  <2> QED  BY <1>1, <1>2, <2>1, NatSetInduction
<1> QED  BY <1>3

\* One more sequence comes at the end.
LEMMA FlattenAppend ==
  ASSUME NEW S, NEW s \in Seq(Seq(S)), NEW x \in Seq(S), FlattenSeq(s) \in Seq(S)
  PROVE  FlattenSeq(Append(s, x)) = FlattenSeq(s) \o x
<1> DEFINE t == Append(s, x)
           N == Len(s)
           f == CHOOSE f : FlatBy(s, N, f)
           g == CHOOSE g : FlatBy(t, N + 1, g)
<1>1. /\ t \in Seq(Seq(S)) /\ N \in Nat /\ Len(t) = N + 1 /\ DOMAIN s = 1..N
      /\ \A i \in 1..N : t[i] = s[i]
      /\ t[N + 1] = x
  OBVIOUS
<1> HIDE DEF t, N
<1>2. FlattenSeq(t) = g[N + 1] /\ (N # 0 => FlattenSeq(s) = f[N]) /\ (N = 0 => FlattenSeq(s) = s)
  BY <1>1, FlattenDef DEF N
<1>3. FlatBy(s, N, f)
  <2>1. \E h : FlatBy(s, N, h)
    BY <1>1, FlatsExist
  <2> QED  BY <2>1
<1>4. FlatBy(t, N + 1, g)
  <2>1. \E h : FlatBy(t, N + 1, h)
    <3>1. N + 1 \in Nat
      BY <1>1
    <3> QED  BY Zenon, <3>1, FlatsExist
  <2> QED  BY <2>1
<1> HIDE DEF f, g
<1>5. /\ \A i \in 1..N : f[i] = IF i = 1 THEN s[i] ELSE f[i - 1] \o s[i]
      /\ \A i \in 1..(N + 1) : g[i] = IF i = 1 THEN t[i] ELSE g[i - 1] \o t[i]
  <2>1. f = [i \in 1..N |-> IF i = 1 THEN s[i] ELSE f[i - 1] \o s[i]]
    BY Zenon, <1>3 DEF FlatBy
  <2>2. g = [i \in 1..(N + 1) |-> IF i = 1 THEN t[i] ELSE g[i - 1] \o t[i]]
    BY Zenon, <1>4 DEF FlatBy
  <2>3. \A i \in 1..N : f[i] = IF i = 1 THEN s[i] ELSE f[i - 1] \o s[i]
    BY Zenon, <2>1
  <2>4. \A i \in 1..(N + 1) : g[i] = IF i = 1 THEN t[i] ELSE g[i - 1] \o t[i]
    BY Zenon, <2>2
  <2> QED  BY <2>3, <2>4
<1> DEFINE T == {n \in Nat : n \in 1..N => f[n] = g[n]}
<1>6. 0 \in T
  OBVIOUS
<1>7. ASSUME NEW n \in T PROVE n + 1 \in T
  <2>1. n \in Nat
    OBVIOUS
  <2>2. ASSUME n + 1 \in 1..N PROVE f[n + 1] = g[n + 1]
    <3>1. CASE n = 0
      <4>1. n + 1 = 1 /\ 1 \in 1..N /\ 1 \in 1..(N + 1)
        BY <1>1, <2>2, <3>1
      <4>2. f[1] = s[1]
        BY Zenon, <1>5, <4>1
      <4>3. g[1] = t[1]
        BY Zenon, <1>5, <4>1
      <4> QED  BY <1>1, <4>1, <4>2, <4>3
    <3>2. CASE n # 0
      <4>1. n \in 1..N /\ n + 1 # 1 /\ (n + 1) - 1 = n /\ n + 1 \in 1..(N + 1)
        BY <1>1, <2>1, <2>2, <3>2
      <4>2. f[n] = g[n]
        BY <4>1
      <4> QED  BY <1>1, <1>5, <2>2, <4>1, <4>2
    <3> QED  BY <3>1, <3>2
  <2> QED  BY <2>1, <2>2
<1>8. T = Nat
  <2> HIDE DEF T
  <2>1. T \in SUBSET Nat
    BY DEF T
  <2> QED  BY <1>6, <1>7, <2>1, NatSetInduction
<1>9. CASE N = 0
  <2>1. FlattenSeq(s) = <<>>
    <3>1. s = <<>>
      BY <1>1, <1>9 DEF N
    <3> QED  BY <1>2, <1>9, <3>1
  <2>2. g[N + 1] = x
    BY <1>1, <1>5, <1>9
  <2>3. <<>> \o x = x
    OBVIOUS
  <2> QED  BY <1>2, <2>1, <2>2, <2>3 DEF t
<1>10. CASE N # 0
  <2>1. N \in 1..N /\ N + 1 # 1 /\ (N + 1) - 1 = N /\ N + 1 \in 1..(N + 1)
    BY <1>1, <1>10
  <2>2. f[N] = g[N]
    BY <1>1, <1>8, <2>1
  <2>3. g[N + 1] = g[N] \o x
    BY <1>1, <1>5, <2>1
  <2> QED  BY <1>2, <1>10, <2>2, <2>3 DEF t
<1> QED  BY <1>9, <1>10

\* Nothing makes nothing.
LEMMA FlattenNone == FlattenSeq(<<>>) = <<>>
  BY FlattenDef

\* Sequences over a set make one over that set.
LEMMA FlattenType ==
  ASSUME NEW S, NEW s \in Seq(Seq(S))
  PROVE  FlattenSeq(s) \in Seq(S)
<1> DEFINE W == Seq(S)
           T == {q \in Seq(W) : FlattenSeq(q) \in Seq(S)}
<1>1. <<>> \in T
  <2>1. <<>> \in Seq(W) /\ <<>> \in Seq(S)
    OBVIOUS
  <2> QED  BY Zenon, <2>1, FlattenNone
<1>2. ASSUME NEW q \in Seq(W), NEW x \in W, q \in T PROVE Append(q, x) \in T
  <2>1. FlattenSeq(Append(q, x)) = FlattenSeq(q) \o x /\ FlattenSeq(q) \in Seq(S)
    BY <1>2, FlattenAppend
  <2>2. FlattenSeq(Append(q, x)) \in Seq(S)
    BY <2>1
  <2>3. Append(q, x) \in Seq(W)
    OBVIOUS
  <2> QED  BY <2>2, <2>3
<1>3. \A q \in Seq(W) : q \in T
  <2> HIDE DEF T, W
  <2> QED  BY <1>1, <1>2, SeqInduction
<1> QED  BY <1>3

Joint(u, v) == u \o v

\* Joining is associative.
LEMMA Regrouped ==
  ASSUME NEW S, NEW u \in Seq(S), NEW v \in Seq(S), NEW w \in Seq(S)
  PROVE  Joint(Joint(u, v), w) = Joint(u, Joint(v, w))
<1>1. (u \o v) \o w = u \o (v \o w)
  BY ConcatAssociative
<1> QED  BY Zenon, <1>1 DEF Joint

\* Joining appends one by one.
LEMMA JointAppend ==
  ASSUME NEW S, NEW a \in Seq(S), NEW b \in Seq(S), NEW x \in S
  PROVE  Joint(a, b) \in Seq(S) /\ Joint(a, Append(b, x)) = Append(Joint(a, b), x)
  BY DEF Joint

\* What g takes from each element of a sequence, joined.
Picked(s, g) == FlattenSeq([i \in DOMAIN s |-> g[s[i]]])

\* What is taken makes a sequence.
LEMMA PickedType ==
  ASSUME NEW S, NEW R, NEW g \in [S -> Seq(R)], NEW s \in Seq(S)
  PROVE  Picked(s, g) \in Seq(R)
<1> DEFINE ps == [i \in DOMAIN s |-> g[s[i]]]
<1>1. ps \in Seq(Seq(R))
  <2> DEFINE W == Seq(R)
  <2>1. g \in [S -> W]
    OBVIOUS
  <2> HIDE DEF W
  <2>2. ps \in Seq(W)
    BY <2>1
  <2> QED  BY <2>2 DEF W
<1> HIDE DEF ps
<1>2. FlattenSeq(ps) \in Seq(R)
  BY <1>1, FlattenType
<1> QED  BY Zenon, <1>2 DEF Picked, ps

\* One more element, one more taken.
LEMMA PickedAppend ==
  ASSUME NEW S, NEW R, NEW g \in [S -> Seq(R)], NEW s \in Seq(S), NEW x \in S
  PROVE  Picked(Append(s, x), g) = Joint(Picked(s, g), g[x])
<1> DEFINE ps == [i \in DOMAIN s |-> g[s[i]]]
           t  == Append(s, x)
           pt == [i \in DOMAIN t |-> g[t[i]]]
<1>1. ps \in Seq(Seq(R)) /\ g[x] \in Seq(R)
  OBVIOUS
<1>2. pt = Append(ps, g[x])
  OBVIOUS
<1> HIDE DEF ps, pt
<1>3. FlattenSeq(ps) \in Seq(R)
  BY <1>1, FlattenType
<1>4. FlattenSeq(pt) = FlattenSeq(ps) \o g[x]
  BY <1>1, <1>2, <1>3, FlattenAppend
<1> QED  BY Zenon, <1>4 DEF Picked, ps, pt, Joint

\* Nothing is taken from nothing.
LEMMA PickedNone == ASSUME NEW g PROVE Picked(<<>>, g) = <<>>
<1>1. [i \in DOMAIN <<>> |-> g[<<>>[i]]] = <<>>
  OBVIOUS
<1> QED  BY <1>1, FlattenNone DEF Picked

\* What is taken from two sequences joined.
LEMMA PickedJoint ==
  ASSUME NEW S, NEW R, NEW g \in [S -> Seq(R)], NEW a \in Seq(S), NEW b \in Seq(S)
  PROVE  Picked(Joint(a, b), g) = Joint(Picked(a, g), Picked(b, g))
<1> DEFINE T == {c \in Seq(S) : Picked(Joint(a, c), g) = Joint(Picked(a, g), Picked(c, g))}
<1>0. \A c \in Seq(S) : Picked(c, g) \in Seq(R) /\ \A x \in S : Picked(Append(c, x), g) = Joint(Picked(c, g), g[x])
  BY PickedType, PickedAppend
<1>1. <<>> \in T
  <2>1. Joint(a, <<>>) = a /\ \A p \in Seq(R) : Joint(p, <<>>) = p
    BY DEF Joint
  <2>2. Picked(a, g) \in Seq(R) /\ Picked(<<>>, g) = <<>>
    BY <1>0, PickedNone
  <2> QED  BY <2>1, <2>2
<1>2. ASSUME NEW c \in Seq(S), NEW x \in S, c \in T PROVE Append(c, x) \in T
  <2>1. Joint(a, Append(c, x)) = Append(Joint(a, c), x) /\ Joint(a, c) \in Seq(S) /\ Append(c, x) \in Seq(S)
    <3> HIDE DEF T
    <3> QED  BY JointAppend
  <2>2. Picked(Append(Joint(a, c), x), g) = Joint(Picked(Joint(a, c), g), g[x])
    BY <1>0, <2>1
  <2>3. Picked(Joint(a, c), g) = Joint(Picked(a, g), Picked(c, g))
    BY <1>2
  <2> HIDE DEF T
  <2>4. Picked(Append(c, x), g) = Joint(Picked(c, g), g[x])
    BY <1>0
  <2>5. g[x] \in Seq(R) /\ Picked(a, g) \in Seq(R) /\ Picked(c, g) \in Seq(R)
    BY <1>0
  <2>6. Joint(Joint(Picked(a, g), Picked(c, g)), g[x]) = Joint(Picked(a, g), Joint(Picked(c, g), g[x]))
    BY <2>5, Regrouped
  <2>7. Picked(Joint(a, Append(c, x)), g) = Joint(Picked(a, g), Picked(Append(c, x), g))
    BY Zenon, <2>1, <2>2, <2>3, <2>4, <2>6
  <2> QED  BY <2>1, <2>7 DEF T
<1>3. \A c \in Seq(S) : c \in T
  <2> HIDE DEF T
  <2> QED  BY <1>1, <1>2, SeqInduction
<1>4. b \in T
  <2> HIDE DEF T
  <2> QED  BY <1>3
<1> QED  BY <1>4

\* The first n + 1 of sequences.
LEMMA FlattenOneMore ==
  ASSUME NEW R, NEW g, NEW n \in Nat, \A i \in 1..(n + 1) : g[i] \in Seq(R)
  PROVE  /\ FlattenSeq([i \in 1..n |-> g[i]]) \in Seq(R)
         /\ FlattenSeq([i \in 1..(n + 1) |-> g[i]]) = FlattenSeq([i \in 1..n |-> g[i]]) \o g[n + 1]
<1> DEFINE b == [i \in 1..n |-> g[i]]
           t == [i \in 1..(n + 1) |-> g[i]]
<1>1. b \in Seq(Seq(R)) /\ g[n + 1] \in Seq(R)
  OBVIOUS
<1>2. t = Append(b, g[n + 1])
  OBVIOUS
<1> HIDE DEF b, t
<1>3. FlattenSeq(b) \in Seq(R)
  BY <1>1, FlattenType
<1>4. FlattenSeq(t) = FlattenSeq(b) \o g[n + 1]
  BY <1>1, <1>2, <1>3, FlattenAppend
<1> QED  BY Zenon, <1>3, <1>4 DEF b, t

-----------------------------------------------------------------------------
(* The system prompt: the words of blocks and of parts. *)

Word(p)     == IF p.type = "text" THEN p.text ELSE <<>>
Single(p)   == IF p.type = "text" THEN <<p>> ELSE <<>>
TextTaken       == [p \in Parts |-> p.text]
Worded      == [p \in Parts |-> Word(p)]
Singles     == [p \in Parts |-> Single(p)]

\* What is taken from parts is text, or parts.
LEMMA PartTakes ==
  /\ TextTaken \in [Parts -> Seq(Words)] /\ Worded \in [Parts -> Seq(Words)] /\ Singles \in [Parts -> Seq(Parts)]
  /\ \A p \in Parts : TextTaken[p] = p.text /\ Worded[p] = Word(p) /\ Singles[p] = Single(p)
<1>1. \A p \in Parts : p.text \in Seq(Words)
  BY DEF Parts
<1>2. \A p \in Parts : Word(p) \in Seq(Words) /\ Single(p) \in Seq(Parts)
  BY <1>1 DEF Word, Single
<1> QED  BY <1>1, <1>2 DEF TextTaken, Worded, Singles

\* The operators of Convert take something from each part.
LEMMA TakenFromParts ==
  ASSUME NEW b \in Seq(Parts)
  PROVE  /\ BlockTexts(b) = Picked(b, TextTaken)
         /\ FlattenSeq([i \in DOMAIN b |-> IF b[i].type = "text" THEN <<b[i]>> ELSE <<>>]) = Picked(b, Singles)
         /\ FlattenSeq([i \in DOMAIN b |-> IF b[i].type = "text" THEN b[i].text ELSE <<>>]) = Picked(b, Worded)
<1>1. \A i \in DOMAIN b : b[i] \in Parts
  OBVIOUS
<1>2. [i \in DOMAIN b |-> b[i].text] = [i \in DOMAIN b |-> TextTaken[b[i]]]
  BY Zenon, <1>1, PartTakes
<1>3. [i \in DOMAIN b |-> IF b[i].type = "text" THEN <<b[i]>> ELSE <<>>] = [i \in DOMAIN b |-> Singles[b[i]]]
  BY Zenon, <1>1, PartTakes DEF Single
<1>4. [i \in DOMAIN b |-> IF b[i].type = "text" THEN b[i].text ELSE <<>>] = [i \in DOMAIN b |-> Worded[b[i]]]
  BY Zenon, <1>1, PartTakes DEF Word
<1> QED  BY Zenon, <1>2, <1>3, <1>4 DEF BlockTexts, Picked

\* The words of blocks joined are theirs joined.
LEMMA BlocksJoint ==
  ASSUME NEW b \in Seq(Parts), NEW c \in Seq(Parts)
  PROVE  BlockTexts(Joint(b, c)) = Joint(BlockTexts(b), BlockTexts(c))
<1>1. Joint(b, c) \in Seq(Parts)
  BY DEF Joint
<1>2. TextTaken \in [Parts -> Seq(Words)]
  BY PartTakes
<1>3. Picked(Joint(b, c), TextTaken) = Joint(Picked(b, TextTaken), Picked(c, TextTaken))
  BY <1>2, PickedJoint
<1> QED  BY Zenon, <1>1, <1>3, TakenFromParts

\* The words of one more block come last.
LEMMA BlocksAppend ==
  ASSUME NEW b \in Seq(Parts), NEW x \in Parts
  PROVE  BlockTexts(b) \in Seq(Words) /\ BlockTexts(Append(b, x)) = Joint(BlockTexts(b), x.text)
<1>1. Append(b, x) \in Seq(Parts) /\ TextTaken[x] = x.text
  BY PartTakes
<1>2. Picked(b, TextTaken) \in Seq(Words) /\ Picked(Append(b, x), TextTaken) = Joint(Picked(b, TextTaken), TextTaken[x])
  <2>1. TextTaken \in [Parts -> Seq(Words)]
    BY PartTakes
  <2>2. Picked(b, TextTaken) \in Seq(Words)
    BY <2>1, PickedType
  <2>3. Picked(Append(b, x), TextTaken) = Joint(Picked(b, TextTaken), TextTaken[x])
    BY <2>1, PickedAppend
  <2> QED  BY <2>2, <2>3
<1> QED  BY <1>1, <1>2, TakenFromParts

\* No blocks, no words.
LEMMA NoBlocks == BlockTexts(<<>>) = <<>>
<1>1. <<>> \in Seq(Parts)
  OBVIOUS
<1> QED  BY <1>1, TakenFromParts, PickedNone

\* The text parts hold the words of the content.
LEMMA TextPartsTell ==
  ASSUME NEW ps \in Seq(Parts)
  PROVE  BlockTexts(Picked(ps, Singles)) = Picked(ps, Worded)
<1> DEFINE T == {q \in Seq(Parts) : BlockTexts(Picked(q, Singles)) = Picked(q, Worded)}
<1>1. <<>> \in T
  <2>1. <<>> \in Seq(Parts)
    OBVIOUS
  <2> QED  BY <2>1, PickedNone, NoBlocks
<1>2. ASSUME NEW q \in Seq(Parts), NEW x \in Parts, q \in T PROVE Append(q, x) \in T
  <2>1. BlockTexts(Picked(q, Singles)) = Picked(q, Worded) /\ Append(q, x) \in Seq(Parts)
    BY <1>2
  <2> HIDE DEF T
  <2>2. /\ Picked(Append(q, x), Singles) = Joint(Picked(q, Singles), Single(x))
        /\ Picked(Append(q, x), Worded) = Joint(Picked(q, Worded), Word(x))
        /\ Picked(q, Singles) \in Seq(Parts) /\ Single(x) \in Seq(Parts)
    <3>1. Singles \in [Parts -> Seq(Parts)] /\ Singles[x] = Single(x)
      BY PartTakes
    <3>2. Worded \in [Parts -> Seq(Words)] /\ Worded[x] = Word(x)
      BY PartTakes
    <3>3. Picked(Append(q, x), Singles) = Joint(Picked(q, Singles), Singles[x])
      BY <3>1, PickedAppend
    <3>4. Picked(Append(q, x), Worded) = Joint(Picked(q, Worded), Worded[x])
      BY <3>2, PickedAppend
    <3>5. Picked(q, Singles) \in Seq(Parts)
      BY <3>1, PickedType
    <3>6. Single(x) \in Seq(Parts)
      BY <3>1
    <3> QED  BY <3>1, <3>2, <3>3, <3>4, <3>5, <3>6
  <2>3. BlockTexts(Single(x)) = Word(x)
    <3>1. CASE x.type = "text"
      <4>1. Single(x) = Append(<<>>, x) /\ <<>> \in Seq(Parts)
        BY <3>1 DEF Single
      <4>2. BlockTexts(Single(x)) = Joint(<<>>, x.text)
        BY <4>1, BlocksAppend, NoBlocks
      <4>3. x.text \in Seq(Words)
        BY DEF Parts
      <4>4. Joint(<<>>, x.text) = x.text
        BY <4>3 DEF Joint
      <4> QED  BY <3>1, <4>2, <4>4 DEF Word
    <3>2. CASE x.type # "text"
      BY <3>2, NoBlocks DEF Word, Single
    <3> QED  BY <3>1, <3>2
  <2>4. BlockTexts(Joint(Picked(q, Singles), Single(x))) = Joint(BlockTexts(Picked(q, Singles)), BlockTexts(Single(x)))
    BY <2>2, BlocksJoint
  <2>5. BlockTexts(Picked(Append(q, x), Singles)) = Picked(Append(q, x), Worded)
    BY Zenon, <2>1, <2>2, <2>3, <2>4
  <2> QED  BY <2>1, <2>5 DEF T
<1>3. \A q \in Seq(Parts) : q \in T
  <2> HIDE DEF T
  <2> QED  BY <1>1, <1>2, SeqInduction
<1> QED  BY <1>3

\* The text parts of a message hold the words of its content.
LEMMA MessageTold ==
  ASSUME NEW m, m.parts \in Seq(Parts)
  PROVE  /\ TextParts(m) \in Seq(Parts) /\ ContentText(m) \in Seq(Words)
         /\ BlockTexts(TextParts(m)) = ContentText(m)
         /\ ContentText(m) # <<>> => TextParts(m) # <<>>
<1>1. TextParts(m) = Picked(m.parts, Singles) /\ ContentText(m) = Picked(m.parts, Worded)
  BY TakenFromParts DEF TextParts, ContentText
<1>2. TextParts(m) \in Seq(Parts) /\ ContentText(m) \in Seq(Words)
  <2>1. Singles \in [Parts -> Seq(Parts)]
    BY PartTakes
  <2>2. Worded \in [Parts -> Seq(Words)]
    BY PartTakes
  <2>3. Picked(m.parts, Singles) \in Seq(Parts)
    BY <2>1, PickedType
  <2>4. Picked(m.parts, Worded) \in Seq(Words)
    BY <2>2, PickedType
  <2> QED  BY <1>1, <2>3, <2>4
<1>3. BlockTexts(TextParts(m)) = ContentText(m)
  BY <1>1, TextPartsTell
<1> QED  BY <1>2, <1>3, NoBlocks

\* LastApart, for parts.
LEMMA PartsApart ==
  ASSUME NEW q \in Seq(Parts), NEW n \in Nat, Len(q) = n + 1
  PROVE  \E b \in Seq(Parts), x \in Parts :
           q = Append(b, x) /\ Len(b) = n /\ x = q[n + 1] /\ b = [i \in 1..n |-> q[i]]
<1> DEFINE b == [i \in 1..n |-> q[i]]
<1>1. b \in Seq(Parts) /\ Len(b) = n /\ q[n + 1] \in Parts
  OBVIOUS
<1>2. Append(b, q[n + 1]) = q
  OBVIOUS
<1> QED  BY <1>1, <1>2

\* A line break is added to the words of blocks.
LEMMA ClosedTold ==
  ASSUME NEW b \in Seq(Parts)
  PROVE  /\ Closed(b) \in Seq(Parts)
         /\ Closed(<<>>) = <<>>
         /\ b # <<>> => Closed(b) # <<>> /\ BlockTexts(Closed(b)) = BlockTexts(b) \o <<Break>>
<1>1. Closed(<<>>) = <<>>
  BY DEF Closed
<1>2. CASE b = <<>>
  BY <1>1, <1>2
<1>3. CASE b # <<>>
  <2>1. PICK n \in Nat : Len(b) = n + 1
    <3>1. Len(b) \in Nat /\ Len(b) # 0
      BY <1>3
    <3>2. Len(b) - 1 \in Nat /\ Len(b) = (Len(b) - 1) + 1
      BY <3>1
    <3> QED  BY <3>2
  <2>2. PICK a \in Seq(Parts), x \in Parts :
          b = Append(a, x) /\ Len(a) = n /\ x = b[n + 1] /\ a = [i \in 1..n |-> b[i]]
    BY <2>1, PartsApart
  <2>3. x.type \in STRING /\ x.text \in Seq(Words) /\ x.cache \in STRING
    BY DEF Parts
  <2>4. Broken(x) \in Parts /\ Broken(x).text = Append(x.text, Break)
    BY <2>3, BreakAssumption DEF Broken, Parts
  <2>5. Closed(b) = Append(a, Broken(x))
    <3>1. DOMAIN b = 1..(n + 1) /\ b[n + 1] = x /\ \A i \in 1..n : b[i] = a[i] /\ i # n + 1
      <4>1. \A i \in 1..n : a[i] = b[i]
        BY Zenon, <2>2
      <4>2. DOMAIN b = 1..Len(b)
        OBVIOUS
      <4>3. b[n + 1] = x
        BY Zenon, <2>2
      <4>4. DOMAIN b = 1..(n + 1) /\ \A i \in 1..n : i # n + 1
        BY <2>1, <4>2
      <4> QED  BY <4>1, <4>3, <4>4
    <3> DEFINE c == Append(a, Broken(x))
    <3>2. /\ c \in Seq(Parts) /\ Len(c) = n + 1 /\ DOMAIN c = 1..(n + 1) /\ c[n + 1] = Broken(x)
          /\ \A i \in 1..n : c[i] = a[i]
      <4>1. a \in Seq(Parts) /\ Len(a) = n /\ Broken(x) \in Parts
        BY <2>2, <2>4
      <4> QED  BY <4>1
    <3>3. c = [i \in 1..(n + 1) |-> c[i]]
      <4> HIDE DEF c
      <4> QED  BY <3>2
    <3> HIDE DEF c
    <3>4. Closed(b) = [i \in 1..(n + 1) |-> IF i = n + 1 THEN Broken(b[i]) ELSE b[i]]
      BY Zenon, <2>1, <3>1 DEF Closed
    <3>5. \A i \in 1..(n + 1) : c[i] = IF i = n + 1 THEN Broken(b[i]) ELSE b[i]
      BY <3>1, <3>2
    <3>6. Closed(b) = c
      BY <3>3, <3>4, <3>5
    <3> QED  BY <3>6 DEF c
  <2>6. BlockTexts(b) = BlockTexts(a) \o x.text /\ BlockTexts(a) \in Seq(Words)
    BY <2>2, BlocksAppend DEF Joint
  <2>7. BlockTexts(Closed(b)) = BlockTexts(a) \o Append(x.text, Break)
    BY <2>4, <2>5, BlocksAppend DEF Joint
  <2>8. \A u, v \in Seq(Words) : u \o Append(v, Break) = (u \o v) \o <<Break>>
    BY BreakAssumption
  <2>9. BlockTexts(a) \o Append(x.text, Break) = (BlockTexts(a) \o x.text) \o <<Break>>
    BY <2>3, <2>6, <2>8
  <2>10. Closed(b) \in Seq(Parts) /\ Closed(b) # <<>>
    BY <2>4, <2>5
  <2> QED  BY Zenon, <1>1, <2>6, <2>7, <2>9, <2>10
<1> QED  BY <1>2, <1>3

\* What was said up to each message.
SaidAfter(messages, N) ==
  CHOOSE f : f = [n \in 0..N |-> IF n = 0 THEN <<>> ELSE Said(f[n - 1], messages[n])]

\* Said takes one message after the other.
LEMMA SaidSteps ==
  ASSUME NEW messages, NEW N \in Nat, NEW f, f = SaidAfter(messages, N)
  PROVE  f[0] = <<>> /\ \A n \in 1..N : f[n] = Said(f[n - 1], messages[n])
<1>1. \A t, n : Stepped("said", messages, t, n) = Said(t, messages[n])
  BY DEF Stepped
<1>2. PICK h : LoopBy("said", <<>>, messages, N, h)
  BY LoopsExist
<1>3. h = [n \in 0..N |-> IF n = 0 THEN <<>> ELSE Said(h[n - 1], messages[n])]
  BY Zenon, <1>1, <1>2 DEF LoopBy
<1>4. f = [n \in 0..N |-> IF n = 0 THEN <<>> ELSE Said(f[n - 1], messages[n])]
  BY Zenon, <1>3 DEF SaidAfter
<1>5. \A n \in 0..N : f[n] = IF n = 0 THEN <<>> ELSE Said(f[n - 1], messages[n])
  BY Zenon, <1>4
<1>6. 0 \in 0..N /\ \A n \in 1..N : n \in 0..N /\ n # 0
  OBVIOUS
<1> QED  BY <1>5, <1>6

\* The blocks up to each message.
SectionsAfter(messages, N) ==
  CHOOSE f : f = [n \in 0..N |-> IF n = 0 THEN <<>> ELSE Section(f[n - 1], messages[n])]

\* Section takes one message after the other.
LEMMA SectionSteps ==
  ASSUME NEW messages, NEW N \in Nat, NEW f, f = SectionsAfter(messages, N)
  PROVE  f[0] = <<>> /\ \A n \in 1..N : f[n] = Section(f[n - 1], messages[n])
<1>1. \A t, n : Stepped("section", messages, t, n) = Section(t, messages[n])
  BY DEF Stepped
<1>2. PICK h : LoopBy("section", <<>>, messages, N, h)
  BY LoopsExist
<1>3. h = [n \in 0..N |-> IF n = 0 THEN <<>> ELSE Section(h[n - 1], messages[n])]
  BY Zenon, <1>1, <1>2 DEF LoopBy
<1>4. f = [n \in 0..N |-> IF n = 0 THEN <<>> ELSE Section(f[n - 1], messages[n])]
  BY Zenon, <1>3 DEF SectionsAfter
<1>5. \A n \in 0..N : f[n] = IF n = 0 THEN <<>> ELSE Section(f[n - 1], messages[n])
  BY Zenon, <1>4
<1>6. 0 \in 0..N /\ \A n \in 1..N : n \in 0..N /\ n # 0
  OBVIOUS
<1> QED  BY <1>5, <1>6

\* The blocks hold what was said.
Tell(blocks, text) ==
  /\ blocks \in Seq(Parts) /\ text \in Seq(Words)
  /\ BlockTexts(blocks) = text
  /\ blocks = <<>> <=> text = <<>>

\* One more message.
LEMMA MessageKeepsTell ==
  ASSUME NEW blocks, NEW text, Tell(blocks, text), NEW m, m.parts \in Seq(Parts)
  PROVE  Tell(Section(blocks, m), Said(text, m))
<1> DEFINE c == ContentText(m)
           p == TextParts(m)
<1>1. /\ p \in Seq(Parts) /\ c \in Seq(Words) /\ BlockTexts(p) = c
      /\ c # <<>> => p # <<>>
  BY MessageTold
<1>2. /\ blocks \in Seq(Parts) /\ text \in Seq(Words) /\ BlockTexts(blocks) = text
      /\ blocks = <<>> <=> text = <<>>
  BY DEF Tell
<1>3. CASE ~IsSystem(m) \/ c = <<>>
  <2>1. Section(blocks, m) = blocks /\ Said(text, m) = text
    BY <1>3 DEF Section, Said
  <2> QED  BY <2>1
<1>4. CASE IsSystem(m) /\ c # <<>>
  <2>1. Section(blocks, m) = Closed(blocks) \o p /\ Said(text, m) = Joined(text, c)
    BY <1>4 DEF Section, Said
  <2> HIDE DEF c, p
  <2>2. CASE text = <<>>
    <3>1. Closed(blocks) = <<>>
      BY <1>2, <2>2, ClosedTold
    <3>2. Section(blocks, m) = p /\ Said(text, m) = c
      BY <1>1, <2>1, <2>2, <3>1 DEF Joined
    <3> QED  BY <1>1, <1>4, <3>2 DEF Tell
  <2>3. CASE text # <<>>
    <3>1. /\ Closed(blocks) \in Seq(Parts) /\ Closed(blocks) # <<>>
          /\ BlockTexts(Closed(blocks)) = text \o <<Break>>
      BY <1>2, <2>3, ClosedTold
    <3>2. Said(text, m) = text \o <<Break>> \o c
      BY <2>1, <2>3 DEF Joined
    <3>3. BlockTexts(Closed(blocks) \o p) = BlockTexts(Closed(blocks)) \o BlockTexts(p)
      BY <1>1, <3>1, BlocksJoint DEF Joint
    <3>4. BlockTexts(Section(blocks, m)) = Said(text, m)
      BY Zenon, <1>1, <2>1, <3>1, <3>2, <3>3
    <3>5. Section(blocks, m) \in Seq(Parts) /\ Section(blocks, m) # <<>>
      BY <1>1, <2>1, <3>1
    <3>6. \A u, v \in Seq(Words) : u \o <<Break>> \o v \in Seq(Words) /\ u \o <<Break>> \o v # <<>>
      BY BreakAssumption
    <3>7. Said(text, m) \in Seq(Words) /\ Said(text, m) # <<>>
      BY <1>1, <1>2, <3>2, <3>6
    <3> QED  BY <3>4, <3>5, <3>7 DEF Tell
  <2> QED  BY <2>2, <2>3
<1> QED  BY <1>3, <1>4

\* The blocks hold what was said: by induction over the messages.
LEMMA SectionsTell ==
  ASSUME NEW messages \in Seq(Messages)
  PROVE  Tell(Sections(messages), SystemText(messages))
<1> DEFINE N == Len(messages)
           f == SaidAfter(messages, N)
           g == SectionsAfter(messages, N)
           T == {n \in Nat : n <= N => Tell(g[n], f[n])}
<1>1. N \in Nat /\ \A i \in 1..N : messages[i] \in Messages
  OBVIOUS
<1>2. SystemText(messages) = f[N] /\ Sections(messages) = g[N]
  BY Zenon DEF SystemText, Sections, SaidAfter, SectionsAfter
<1>3. f[0] = <<>> /\ \A n \in 1..N : f[n] = Said(f[n - 1], messages[n])
  <2> HIDE DEF N
  <2> QED  BY <1>1, SaidSteps
<1>4. g[0] = <<>> /\ \A n \in 1..N : g[n] = Section(g[n - 1], messages[n])
  <2> HIDE DEF N
  <2> QED  BY <1>1, SectionSteps
<1> HIDE DEF f, g, N
<1>5. /\ f[0] = <<>> /\ g[0] = <<>>
      /\ \A n \in 1..N : f[n] = Said(f[n - 1], messages[n]) /\ g[n] = Section(g[n - 1], messages[n])
  BY <1>3, <1>4
<1>6. 0 \in T
  <2>1. Tell(<<>>, <<>>)
    BY NoBlocks DEF Tell
  <2> QED  BY <1>5, <2>1
<1>7. ASSUME NEW n \in T PROVE n + 1 \in T
  <2>1. n \in Nat
    OBVIOUS
  <2>2. ASSUME n + 1 <= N PROVE Tell(g[n + 1], f[n + 1])
    <3>1. n + 1 \in 1..N /\ (n + 1) - 1 = n /\ n <= N
      BY <1>1, <2>1, <2>2
    <3>2. Tell(g[n], f[n])
      BY <3>1
    <3>3. f[n + 1] = Said(f[n], messages[n + 1]) /\ g[n + 1] = Section(g[n], messages[n + 1])
      BY <1>5, <3>1
    <3>4. messages[n + 1].parts \in Seq(Parts)
      BY <1>1, <3>1, InputsAssumption
    <3> HIDE DEF T
    <3>5. Tell(Section(g[n], messages[n + 1]), Said(f[n], messages[n + 1]))
      BY <3>2, <3>4, MessageKeepsTell
    <3> QED  BY <3>3, <3>5
  <2> QED  BY <2>1, <2>2
<1>8. T = Nat
  <2> HIDE DEF T
  <2>1. T \in SUBSET Nat
    BY DEF T
  <2> QED  BY <1>6, <1>7, <2>1, NatSetInduction
<1>9. Tell(g[N], f[N])
  BY <1>1, <1>8
<1> QED  BY <1>2, <1>9

\* Marked or not, the same words.
LEMMA SystemTextsAreSame ==
  ASSUME NEW messages \in Seq(Messages)
  PROVE  SystemTextIsSame(messages)
<1> DEFINE wire == ConvertSystem(messages)
<1> SUFFICES ASSUME wire.form = "blocks"
             PROVE  BlockTexts(wire.blocks) = SystemText(messages) /\ SystemText(messages) # <<>>
  BY DEF SystemTextIsSame
<1>1. Sections(messages) # <<>> /\ wire.blocks = Sections(messages)
  BY DEF ConvertSystem
<1> QED  BY <1>1, SectionsTell DEF Tell

\* The words of the system prompt are the client's, whether or not a block of it is marked
\* for caching (convertSystem's blocks against the text it returns without a mark).
THEOREM SystemTextIsIdenticalAlways == Spec => []SystemTextIsIdentical
<1>1. Inputs => SystemTextIsIdentical
  BY SystemTextsAreSame DEF Inputs, SystemTextIsIdentical
<1> QED  BY <1>1, InputsAlways, PTL

-----------------------------------------------------------------------------
(* Tool calls and their results. *)

ToolNames      == STRING \cup {"unknown"}
PlainParts == [type : {"text", "image", "reasoning"}, text : Seq(Words)]
Tools      == [type : {"tool-call", "tool-result"}, id : STRING, name : ToolNames]
WireParts  == PlainParts \cup Tools
WireTurns  == [role : STRING, content : Seq(WireParts)]

ToolIn    == [p \in WireParts |-> IF IsTool(p) THEN <<p>> ELSE <<>>]
ContentIn == [w \in WireTurns |-> w.content]

\* What is taken from the parts and the turns of the wire.
LEMMA ToolTakes ==
  /\ ToolIn \in [WireParts -> Seq(WireParts)] /\ ContentIn \in [WireTurns -> Seq(WireParts)]
  /\ \A p \in PlainParts : p \in WireParts /\ ToolIn[p] = <<>>
  /\ \A p \in Tools : p \in WireParts /\ ToolIn[p] = <<p>>
  /\ \A w \in WireTurns : ContentIn[w] = w.content
<1>1. \A p \in PlainParts : p \in WireParts /\ ~IsTool(p)
  BY DEF PlainParts, WireParts, IsTool
<1>2. \A p \in Tools : p \in WireParts /\ IsTool(p)
  BY DEF Tools, WireParts, IsTool
<1>3. \A p \in WireParts : <<p>> \in Seq(WireParts) /\ <<>> \in Seq(WireParts)
  OBVIOUS
<1>4. \A w \in WireTurns : w.content \in Seq(WireParts)
  BY DEF WireTurns
<1> QED  BY <1>1, <1>2, <1>3, <1>4 DEF ToolIn, ContentIn

\* ToolParts takes the tool parts.
LEMMA ToolsTaken ==
  ASSUME NEW c \in Seq(WireParts)
  PROVE  ToolParts(c) = Picked(c, ToolIn)
<1>1. \A i \in DOMAIN c : c[i] \in WireParts
  OBVIOUS
<1>2. [i \in DOMAIN c |-> IF IsTool(c[i]) THEN <<c[i]>> ELSE <<>>] = [i \in DOMAIN c |-> ToolIn[c[i]]]
  BY Zenon, <1>1 DEF ToolIn
<1> QED  BY Zenon, <1>2 DEF ToolParts, Picked

\* Contents takes the contents.
LEMMA ContentsTaken ==
  ASSUME NEW w \in Seq(WireTurns)
  PROVE  Contents(w) = Picked(w, ContentIn)
<1>1. \A i \in DOMAIN w : w[i] \in WireTurns
  OBVIOUS
<1>2. [i \in DOMAIN w |-> w[i].content] = [i \in DOMAIN w |-> ContentIn[w[i]]]
  BY Zenon, <1>1 DEF ContentIn
<1> QED  BY Zenon, <1>2 DEF Contents, Picked

\* The tool parts of two contents joined.
LEMMA ToolPartsJoint ==
  ASSUME NEW a \in Seq(WireParts), NEW b \in Seq(WireParts)
  PROVE  ToolParts(Joint(a, b)) = Joint(ToolParts(a), ToolParts(b))
<1>1. Joint(a, b) \in Seq(WireParts)
  BY DEF Joint
<1>2. ToolIn \in [WireParts -> Seq(WireParts)]
  BY ToolTakes
<1>3. Picked(Joint(a, b), ToolIn) = Joint(Picked(a, ToolIn), Picked(b, ToolIn))
  BY <1>2, PickedJoint
<1> QED  BY Zenon, <1>1, <1>3, ToolsTaken

\* Text holds no tool parts.
LEMMA NoTools ==
  ASSUME NEW c \in Seq(PlainParts)
  PROVE  ToolParts(c) = <<>> /\ c \in Seq(WireParts)
<1> DEFINE T == {q \in Seq(PlainParts) : Picked(q, ToolIn) = <<>>}
<1>1. <<>> \in T
  BY PickedNone
<1>2. ASSUME NEW q \in Seq(PlainParts), NEW x \in PlainParts, q \in T PROVE Append(q, x) \in T
  <2>1. Picked(q, ToolIn) = <<>>
    BY <1>2
  <2>2. Append(q, x) \in Seq(PlainParts)
    OBVIOUS
  <2> HIDE DEF T
  <2>3. PlainParts \subseteq WireParts
    BY ToolTakes
  <2>4. q \in Seq(WireParts) /\ x \in WireParts
    BY <2>3
  <2>5. ToolIn \in [WireParts -> Seq(WireParts)] /\ ToolIn[x] = <<>>
    BY ToolTakes
  <2>6. Picked(Append(q, x), ToolIn) = Joint(Picked(q, ToolIn), ToolIn[x])
    BY <2>4, <2>5, PickedAppend
  <2>7. Joint(<<>>, <<>>) = <<>>
    BY DEF Joint
  <2>8. Picked(Append(q, x), ToolIn) = <<>>
    BY <2>1, <2>5, <2>6, <2>7
  <2> QED  BY <2>2, <2>8 DEF T
<1>3. \A q \in Seq(PlainParts) : q \in T
  <2> HIDE DEF T
  <2> QED  BY <1>1, <1>2, SeqInduction
<1>4. PlainParts \subseteq WireParts
  BY ToolTakes
<1>5. c \in Seq(WireParts)
  BY <1>4
<1>6. Picked(c, ToolIn) = <<>>
  BY <1>3
<1> QED  BY <1>5, <1>6, ToolsTaken

\* Tool parts are all of themselves.
LEMMA AllTools ==
  ASSUME NEW c \in Seq(Tools)
  PROVE  ToolParts(c) = c /\ c \in Seq(WireParts)
<1> DEFINE T == {q \in Seq(Tools) : Picked(q, ToolIn) = q}
<1>1. <<>> \in T
  BY PickedNone
<1>2. ASSUME NEW q \in Seq(Tools), NEW x \in Tools, q \in T PROVE Append(q, x) \in T
  <2>1. Picked(q, ToolIn) = q
    BY <1>2
  <2>2. Append(q, x) \in Seq(Tools)
    OBVIOUS
  <2> HIDE DEF T
  <2>3. Tools \subseteq WireParts
    BY ToolTakes
  <2>4. q \in Seq(WireParts) /\ x \in WireParts
    BY <2>3
  <2>5. ToolIn \in [WireParts -> Seq(WireParts)] /\ ToolIn[x] = <<x>>
    BY ToolTakes
  <2>6. Picked(Append(q, x), ToolIn) = Joint(Picked(q, ToolIn), ToolIn[x])
    BY <2>4, <2>5, PickedAppend
  <2>7. Joint(q, <<x>>) = Append(q, x)
    BY DEF Joint
  <2>8. Picked(Append(q, x), ToolIn) = Append(q, x)
    BY Zenon, <2>1, <2>5, <2>6, <2>7
  <2> QED  BY <2>2, <2>8 DEF T
<1>3. \A q \in Seq(Tools) : q \in T
  <2> HIDE DEF T
  <2> QED  BY <1>1, <1>2, SeqInduction
<1>4. Tools \subseteq WireParts
  BY ToolTakes
<1>5. c \in Seq(WireParts)
  BY <1>4
<1>6. Picked(c, ToolIn) = c
  BY <1>3
<1> QED  BY <1>5, <1>6, ToolsTaken

\* What users and assistants say is text.
LEMMA SpeechIsPlain ==
  ASSUME NEW m, m.parts \in Seq(Parts), m.reasoning \in Seq(Words)
  PROVE  UserContent(m) \in Seq(PlainParts) /\ Spoken(m) \in Seq(PlainParts)
<1> DEFINE ps == m.parts
           user(p) == IF p.type \in {"text", "image"} THEN <<WirePart(p.type, p.text)>> ELSE <<>>
           mate(p) == IF p.type \in {"text", "reasoning"} /\ p.text # <<>> THEN <<WirePart(p.type, p.text)>> ELSE <<>>
           u == [p \in Parts |-> user(p)]
           a == [p \in Parts |-> mate(p)]
           parts == FlattenSeq([i \in DOMAIN ps |->
                      IF ps[i].type \in {"text", "reasoning"} /\ ps[i].text # <<>>
                      THEN <<WirePart(ps[i].type, ps[i].text)>> ELSE <<>>])
<1>1. \A p \in Parts : p.text \in Seq(Words)
  BY DEF Parts
<1>2. \A text \in Seq(Words), type \in {"text", "image", "reasoning"} : WirePart(type, text) \in PlainParts
  BY DEF WirePart, PlainParts
<1>3. \A p \in Parts : user(p) \in Seq(PlainParts) /\ mate(p) \in Seq(PlainParts)
  BY <1>1, <1>2
<1>4. u \in [Parts -> Seq(PlainParts)] /\ a \in [Parts -> Seq(PlainParts)]
  BY <1>3
<1>5. \A i \in DOMAIN ps : ps[i] \in Parts
  OBVIOUS
<1>6. Picked(ps, u) \in Seq(PlainParts) /\ Picked(ps, a) \in Seq(PlainParts)
  <2> HIDE DEF u, a
  <2>1. Picked(ps, u) \in Seq(PlainParts)
    BY <1>4, PickedType
  <2>2. Picked(ps, a) \in Seq(PlainParts)
    BY <1>4, PickedType
  <2> QED  BY <2>1, <2>2
<1>7. UserContent(m) = Picked(ps, u)
  <2>1. \A i \in DOMAIN ps : u[ps[i]] = user(ps[i])
    BY <1>5
  <2> HIDE DEF u
  <2>2. [i \in DOMAIN ps |-> user(ps[i])] = [i \in DOMAIN ps |-> u[ps[i]]]
    BY Zenon, <2>1
  <2> QED  BY Zenon, <2>2 DEF UserContent, Picked
<1>8. parts = Picked(ps, a)
  <2>1. \A i \in DOMAIN ps : a[ps[i]] = mate(ps[i])
    BY <1>5
  <2> HIDE DEF a
  <2>2. [i \in DOMAIN ps |-> mate(ps[i])] = [i \in DOMAIN ps |-> a[ps[i]]]
    BY Zenon, <2>1
  <2> QED  BY Zenon, <2>2 DEF Picked
<1>9. Spoken(m) = parts \/ Spoken(m) = <<WirePart("reasoning", m.reasoning)>> \o parts
  BY Zenon DEF Spoken
<1> HIDE DEF parts
<1>10. <<WirePart("reasoning", m.reasoning)>> \in Seq(PlainParts)
  BY <1>2
<1>11. \A p, q \in Seq(PlainParts) : p \o q \in Seq(PlainParts)
  OBVIOUS
<1> QED  BY <1>6, <1>7, <1>8, <1>9, <1>10, <1>11

\* The calls of a message are tool parts, none of them lost.
LEMMA CallsAreTools ==
  ASSUME NEW m, m.calls \in Seq(Calls)
  PROVE  CallsOf(m) \in Seq(Tools) /\ Len(CallsOf(m)) = Len(m.calls)
<1>1. \A c \in Calls : Call(c) \in Tools
  BY DEF Calls, Call, Tools, ToolNames
<1> DEFINE k == m.calls
           s == [i \in DOMAIN k |-> Call(k[i])]
<1>2. s \in Seq(Tools) /\ Len(s) = Len(k)
  BY <1>1
<1> QED  BY <1>2 DEF CallsOf

-----------------------------------------------------------------------------
(* ToolNames of calls. *)

\* The names noted are those of the last calls.
Agree(names, calls) == \A id \in STRING : NameOf(names, id) = LastName(calls, id)

\* Without calls no id has a name.
LEMMA LastNameNone == \A id : LastName(<<>>, id) = ""
  BY DEF LastName

\* One more call names its id anew.
LEMMA LastNameAppend ==
  ASSUME NEW calls \in Seq(Tools), NEW c \in Tools, NEW id
  PROVE  LastName(Append(calls, c), id) = IF c.id = id THEN c.name ELSE LastName(calls, id)
<1> DEFINE t == Append(calls, c)
           n == Len(calls)
           named(s) == {i \in DOMAIN s : s[i].id = id}
           last(s) == CHOOSE i \in named(s) : \A j \in named(s) : j <= i
<1>1. /\ n \in Nat /\ DOMAIN calls = 1..n /\ DOMAIN t = 1..(n + 1)
      /\ t[n + 1] = c /\ \A i \in 1..n : t[i] = calls[i]
  OBVIOUS
<1> HIDE DEF t, n
<1>2. \A s : LastName(s, id) = IF named(s) = {} THEN "" ELSE s[last(s)].name
  BY DEF LastName
<1>3. CASE c.id = id
  <2>1. n + 1 \in named(t) /\ \A j \in named(t) : j <= n + 1
    BY <1>1, <1>3
  <2>2. \A k \in named(t) : (\A j \in named(t) : j <= k) => k = n + 1
    BY <1>1, <2>1
  <2>3. last(t) = n + 1
    <3> HIDE DEF named
    <3> QED  BY <2>1, <2>2
  <2>4. named(t) # {}
    BY <2>1
  <2> QED  BY <1>1, <1>2, <1>3, <2>3, <2>4 DEF t
<1>4. CASE c.id # id
  <2>1. named(t) = named(calls)
    BY <1>1, <1>4
  <2>2. CASE named(calls) = {}
    BY <1>2, <1>4, <2>1, <2>2 DEF t
  <2>3. CASE named(calls) # {}
    <3>1. named(calls) \in SUBSET (1..n)
      BY <1>1
    <3>2. \E i \in named(calls) : \A j \in named(calls) : j <= i
      <4> DEFINE upper == {k \in Nat : \A j \in named(calls) : j <= k}
      <4>1. n \in upper
        BY <1>1, <3>1
      <4>2. PICK k \in upper : \A j \in upper : k <= j
        <5>1. upper \in SUBSET Nat /\ upper # {}
          BY <4>1
        <5> HIDE DEF upper
        <5> QED  BY <5>1, HasLeast
      <4>3. k \in Nat /\ \A j \in named(calls) : j <= k
        BY <4>2
      <4>4. k # 0
        BY <1>1, <2>3, <3>1, <4>3
      <4>5. k - 1 \notin upper /\ k - 1 \in Nat
        BY <4>2, <4>3, <4>4
      <4>6. PICK j \in named(calls) : ~(j <= k - 1)
        BY <4>5
      <4>7. j = k
        BY <1>1, <3>1, <4>3, <4>6
      <4> QED  BY <4>3, <4>7
    <3>3. last(calls) \in named(calls)
      <4> HIDE DEF named
      <4> QED  BY <3>2
    <3>4. last(t) = last(calls)
      BY <2>1
    <3>5. t[last(calls)] = calls[last(calls)]
      BY <1>1, <3>1, <3>3
    <3> HIDE DEF last, named
    <3> QED  BY <1>2, <1>4, <2>1, <2>3, <3>4, <3>5 DEF t
  <2> QED  BY <2>2, <2>3
<1> QED  BY <1>3, <1>4

\* A name noted is that of the call.
LEMMA NamedAgrees ==
  ASSUME NEW names, NEW calls \in Seq(Tools), Agree(names, calls), NEW c \in Calls
  PROVE  Agree(Named(names, c), Append(calls, Call(c)))
<1>1. Call(c) \in Tools /\ Call(c).id = c.id /\ Call(c).name = c.name
  BY DEF Calls, Call, Tools, ToolNames
<1> SUFFICES ASSUME NEW id \in STRING
             PROVE  NameOf(Named(names, c), id) = LastName(Append(calls, Call(c)), id)
  BY DEF Agree
<1>2. LastName(Append(calls, Call(c)), id) = IF c.id = id THEN c.name ELSE LastName(calls, id)
  BY <1>1, LastNameAppend
<1>3. NameOf(Named(names, c), id) = IF id = c.id THEN c.name ELSE NameOf(names, id)
  BY DEF NameOf, Named
<1> QED  BY <1>2, <1>3 DEF Agree

\* The names after each call of a message.
NamedAfter(names, calls, N) ==
  CHOOSE f : f = [n \in 0..N |-> IF n = 0 THEN names ELSE Named(f[n - 1], calls[n])]

\* Named takes one call after the other.
LEMMA NamedSteps ==
  ASSUME NEW names, NEW calls, NEW N \in Nat, NEW f, f = NamedAfter(names, calls, N)
  PROVE  f[0] = names /\ \A n \in 1..N : f[n] = Named(f[n - 1], calls[n])
<1>1. \A t, n : Stepped("named", calls, t, n) = Named(t, calls[n])
  BY DEF Stepped
<1>2. PICK h : LoopBy("named", names, calls, N, h)
  BY LoopsExist
<1>3. h = [n \in 0..N |-> IF n = 0 THEN names ELSE Named(h[n - 1], calls[n])]
  BY Zenon, <1>1, <1>2 DEF LoopBy
<1>4. f = [n \in 0..N |-> IF n = 0 THEN names ELSE Named(f[n - 1], calls[n])]
  BY Zenon, <1>3 DEF NamedAfter
<1>5. \A n \in 0..N : f[n] = IF n = 0 THEN names ELSE Named(f[n - 1], calls[n])
  BY Zenon, <1>4
<1>6. 0 \in 0..N /\ \A n \in 1..N : n \in 0..N /\ n # 0
  OBVIOUS
<1> QED  BY <1>5, <1>6

\* The names noted after a message: by induction over its calls.
LEMMA NotedAgrees ==
  ASSUME NEW names, NEW calls \in Seq(Tools), Agree(names, calls), NEW m, m.calls \in Seq(Calls)
  PROVE  Agree(Noted(names, m), Joint(calls, CallsOf(m)))
<1> DEFINE k == m.calls
           N == Len(k)
           f == NamedAfter(names, k, N)
           upTo(n) == [i \in 1..n |-> Call(k[i])]
           T == {n \in Nat : n <= N => Agree(f[n], Joint(calls, upTo(n)))}
<1>1. N \in Nat /\ \A i \in 1..N : k[i] \in Calls /\ Call(k[i]) \in Tools
  <2>1. \A c \in Calls : Call(c) \in Tools
    BY DEF Calls, Call, Tools, ToolNames
  <2> QED  BY <2>1
<1>2. Noted(names, m) = f[N]
  BY Zenon DEF Noted, NamedAfter
<1>3. f[0] = names /\ \A n \in 1..N : f[n] = Named(f[n - 1], k[n])
  <2>1. N \in Nat
    BY <1>1
  <2> HIDE DEF N
  <2> QED  BY <2>1, NamedSteps
<1>4. CallsOf(m) = upTo(N)
  BY DEF CallsOf
<1> HIDE DEF f, N, k
<1>5. 0 \in T
  <2>1. Joint(calls, upTo(0)) = calls
    BY DEF Joint
  <2> QED  BY <1>3, <2>1
<1>6. ASSUME NEW n \in T PROVE n + 1 \in T
  <2>1. n \in Nat
    OBVIOUS
  <2>2. ASSUME n + 1 <= N PROVE Agree(f[n + 1], Joint(calls, upTo(n + 1)))
    <3>1. n + 1 \in 1..N /\ (n + 1) - 1 = n /\ n <= N
      BY <1>1, <2>1, <2>2
    <3>2. Agree(f[n], Joint(calls, upTo(n)))
      BY <3>1
    <3>3. f[n + 1] = Named(f[n], k[n + 1]) /\ k[n + 1] \in Calls /\ Call(k[n + 1]) \in Tools
      BY <1>1, <1>3, <3>1
    <3> HIDE DEF T
    <3>4. upTo(n) \in Seq(Tools) /\ Len(upTo(n)) = n /\ upTo(n + 1) = Append(upTo(n), Call(k[n + 1]))
      BY <1>1, <2>1, <2>2
    <3> HIDE DEF upTo
    <3>5. /\ Joint(calls, upTo(n)) \in Seq(Tools)
          /\ Joint(calls, upTo(n + 1)) = Append(Joint(calls, upTo(n)), Call(k[n + 1]))
      <4>1. \A b \in Seq(Tools) : \A x \in Tools :
              Joint(calls, b) \in Seq(Tools) /\ Joint(calls, Append(b, x)) = Append(Joint(calls, b), x)
        BY JointAppend
      <4> QED  BY Zenon, <3>3, <3>4, <4>1
    <3>6. Agree(Named(f[n], k[n + 1]), Append(Joint(calls, upTo(n)), Call(k[n + 1])))
      BY <3>2, <3>3, <3>5, NamedAgrees
    <3> QED  BY <3>3, <3>5, <3>6
  <2> QED  BY <2>1, <2>2
<1>7. T = Nat
  <2> HIDE DEF T
  <2>1. T \in SUBSET Nat
    BY DEF T
  <2> QED  BY <1>5, <1>6, <2>1, NatSetInduction
<1>8. Agree(f[N], Joint(calls, upTo(N)))
  <2>1. N \in Nat /\ N <= N
    BY <1>1
  <2>2. N \in T
    BY Zenon, <1>7, <2>1
  <2> HIDE DEF upTo
  <2> QED  BY <2>1, <2>2
<1> QED  BY <1>2, <1>4, <1>8

-----------------------------------------------------------------------------
(* Messages on the wire. *)

IsMessage(m) ==
  /\ m.parts \in Seq(Parts) /\ m.calls \in Seq(Calls) /\ m.reasoning \in Seq(Words)
  /\ m.id \in STRING /\ m.name \in STRING /\ m.role \in STRING

\* What a message does after the calls before it, as ToolsOf has it, and the calls it makes.
Works(calls, m) ==
  CASE m.role = "assistant" -> CallsOf(m)
    [] m.role = "tool" -> <<Result(m.id, ToolName(m.name, LastName(calls, m.id)))>>
    [] OTHER -> <<>>

Makes(m) == IF m.role = "assistant" THEN CallsOf(m) ELSE <<>>

\* A name is a string, if there is one.
LEMMA LastNameType ==
  ASSUME NEW calls \in Seq(Tools), NEW id
  PROVE  LastName(calls, id) \in ToolNames \cup {""}
<1> DEFINE M == ToolNames \cup {""}
           T == {s \in Seq(Tools) : LastName(s, id) \in M}
<1>1. "" \in M /\ \A x \in Tools : x.name \in M
  <2>1. \A x \in Tools : x.name \in ToolNames
    BY DEF Tools
  <2> QED  BY Zenon, <2>1
<1> HIDE DEF M
<1>2. <<>> \in T
  <2>1. LastName(<<>>, id) = ""
    BY LastNameNone
  <2>2. LastName(<<>>, id) \in M
    BY Zenon, <1>1, <2>1
  <2>3. <<>> \in Seq(Tools)
    OBVIOUS
  <2> QED  BY Zenon, <2>2, <2>3
<1>3. ASSUME NEW s \in Seq(Tools), NEW x \in Tools, s \in T PROVE Append(s, x) \in T
  <2>1. LastName(s, id) \in M
    BY <1>3
  <2>2. LastName(Append(s, x), id) = IF x.id = id THEN x.name ELSE LastName(s, id)
    BY LastNameAppend
  <2>3. LastName(Append(s, x), id) \in M
    BY Zenon, <1>1, <2>1, <2>2
  <2> QED  BY <2>3
<1>4. \A s \in Seq(Tools) : s \in T
  <2> HIDE DEF T
  <2> QED  BY <1>2, <1>3, SeqInduction
<1>5. LastName(calls, id) \in M
  BY <1>4
<1> QED  BY <1>5 DEF M

\* What a message does are tool parts.
LEMMA WorksType ==
  ASSUME NEW calls \in Seq(Tools), NEW m, IsMessage(m)
  PROVE  Works(calls, m) \in Seq(Tools) /\ Makes(m) \in Seq(Tools)
<1>1. CallsOf(m) \in Seq(Tools)
  BY CallsAreTools DEF IsMessage
<1>2. <<Result(m.id, ToolName(m.name, LastName(calls, m.id)))>> \in Seq(Tools)
  <2>1. LastName(calls, m.id) \in ToolNames \cup {""} /\ m.name \in ToolNames /\ m.id \in STRING
    BY LastNameType DEF IsMessage, ToolNames
  <2>2. ToolName(m.name, LastName(calls, m.id)) \in ToolNames
    BY <2>1 DEF ToolName, NonEmpty, ToolNames
  <2>3. Result(m.id, ToolName(m.name, LastName(calls, m.id))) \in Tools
    BY <2>1, <2>2 DEF Result, Tools
  <2> QED  BY <2>3
<1>3. <<>> \in Seq(Tools)
  OBVIOUS
<1> QED  BY <1>1, <1>2, <1>3 DEF Works, Makes

\* What a turn adds to the wire.
Added(names, m) ==
  CASE m.role = "user"      -> UserContent(m)
    [] m.role = "assistant" -> AssistantContent(m)
    [] m.role = "tool"      -> <<Result(m.id, ToolName(m.name, NameOf(names, m.id)))>>
    [] OTHER                -> <<>>

\* It has the tool parts the message is about.
LEMMA AddedWorks ==
  ASSUME NEW names, NEW calls \in Seq(Tools), Agree(names, calls), NEW m, IsMessage(m)
  PROVE  Added(names, m) \in Seq(WireParts) /\ ToolParts(Added(names, m)) = Works(calls, m)
<1>1. CASE m.role = "user"
  <2>1. UserContent(m) \in Seq(PlainParts)
    BY SpeechIsPlain DEF IsMessage
  <2>2. Added(names, m) = UserContent(m) /\ Works(calls, m) = <<>>
    BY <1>1 DEF Added, Works
  <2> QED  BY <2>1, <2>2, NoTools
<1>2. CASE m.role = "assistant"
  <2>1. Spoken(m) \in Seq(PlainParts) /\ CallsOf(m) \in Seq(Tools)
    BY SpeechIsPlain, CallsAreTools DEF IsMessage
  <2>2. Added(names, m) = Joint(Spoken(m), CallsOf(m)) /\ Works(calls, m) = CallsOf(m)
    BY <1>2 DEF Added, Works, AssistantContent, Joint
  <2>3. ToolParts(Spoken(m)) = <<>> /\ Spoken(m) \in Seq(WireParts)
    BY <2>1, NoTools
  <2>4. ToolParts(CallsOf(m)) = CallsOf(m) /\ CallsOf(m) \in Seq(WireParts)
    BY <2>1, AllTools
  <2>5. ToolParts(Joint(Spoken(m), CallsOf(m))) = Joint(<<>>, CallsOf(m))
    BY <2>3, <2>4, ToolPartsJoint
  <2>6. Joint(<<>>, CallsOf(m)) = CallsOf(m) /\ Joint(Spoken(m), CallsOf(m)) \in Seq(WireParts)
    BY <2>3, <2>4 DEF Joint
  <2> QED  BY <2>2, <2>5, <2>6
<1>3. CASE m.role = "tool"
  <2>1. NameOf(names, m.id) = LastName(calls, m.id)
    BY DEF Agree, IsMessage
  <2>2. Added(names, m) = Works(calls, m)
    BY <1>3, <2>1 DEF Added, Works
  <2>3. Works(calls, m) \in Seq(Tools)
    BY WorksType
  <2> QED  BY <2>2, <2>3, AllTools
<1>4. CASE m.role \notin {"user", "assistant", "tool"}
  <2>1. Added(names, m) = <<>> /\ Works(calls, m) = <<>>
    BY <1>4 DEF Added, Works
  <2>2. <<>> \in Seq(PlainParts)
    OBVIOUS
  <2> QED  BY <2>1, <2>2, NoTools
<1> QED  BY <1>1, <1>2, <1>3, <1>4

\* The wire after some messages: the tool parts done, the names of the calls made.
Holds(acc, calls, done) ==
  /\ acc.out \in Seq(WireTurns)
  /\ \A i \in DOMAIN acc.out : acc.out[i].content # <<>>
  /\ ToolParts(Contents(acc.out)) = done
  /\ Agree(acc.names, calls)

\* The elements of a sequence with one more.
LEMMA AppendElements ==
  ASSUME NEW S, NEW s \in Seq(S), NEW x \in S, NEW j \in DOMAIN Append(s, x)
  PROVE  Append(s, x)[j] = x \/ (j \in DOMAIN s /\ Append(s, x)[j] = s[j])
<1>1. j \in 1..(Len(s) + 1) /\ DOMAIN s = 1..Len(s) /\ Len(s) \in Nat
  OBVIOUS
<1>2. CASE j = Len(s) + 1
  BY <1>2
<1>3. CASE j # Len(s) + 1
  <2>1. j \in 1..Len(s)
    BY <1>1, <1>3
  <2> QED  BY <1>1, <2>1
<1> QED  BY <1>2, <1>3

\* One more turn, one more content.
LEMMA ContentsAppend ==
  ASSUME NEW s \in Seq(WireTurns), NEW w \in WireTurns
  PROVE  /\ Contents(s) \in Seq(WireParts)
         /\ Contents(Append(s, w)) = Joint(Contents(s), w.content)
<1>1. ContentIn \in [WireTurns -> Seq(WireParts)] /\ ContentIn[w] = w.content
  BY ToolTakes
<1>2. Append(s, w) \in Seq(WireTurns)
  OBVIOUS
<1>3. Contents(s) = Picked(s, ContentIn) /\ Contents(Append(s, w)) = Picked(Append(s, w), ContentIn)
  BY <1>2, ContentsTaken
<1>4. Picked(s, ContentIn) \in Seq(WireParts)
  BY <1>1, PickedType
<1>5. Picked(Append(s, w), ContentIn) = Joint(Picked(s, ContentIn), ContentIn[w])
  BY <1>1, PickedAppend
<1> QED  BY <1>1, <1>3, <1>4, <1>5

\* One more message.
LEMMA TurnKeeps ==
  ASSUME NEW acc, NEW calls \in Seq(Tools), NEW done \in Seq(Tools), Holds(acc, calls, done),
         NEW m, IsMessage(m)
  PROVE  Holds(Turn(acc, m), Joint(calls, Makes(m)), Joint(done, Works(calls, m)))
<1> DEFINE c == Added(acc.names, m)
           w == [role |-> m.role, content |-> c]
           t == Turn(acc, m)
<1>1. /\ t.names = IF m.role = "assistant" THEN Noted(acc.names, m) ELSE acc.names
      /\ t.out = IF c = <<>> THEN acc.out ELSE Append(acc.out, w)
  BY DEF Turn, Added
<1>2. c \in Seq(WireParts) /\ ToolParts(c) = Works(calls, m) /\ Works(calls, m) \in Seq(Tools)
  BY AddedWorks, WorksType DEF Holds
<1>3. Agree(t.names, Joint(calls, Makes(m)))
  <2>1. CASE m.role = "assistant"
    <3>1. Agree(Noted(acc.names, m), Joint(calls, CallsOf(m)))
      BY NotedAgrees DEF Holds, IsMessage
    <3> QED  BY <1>1, <2>1, <3>1 DEF Makes
  <2>2. CASE m.role # "assistant"
    <3>1. Joint(calls, Makes(m)) = calls
      BY <2>2 DEF Makes, Joint
    <3> QED  BY <1>1, <2>2, <3>1 DEF Holds
  <2> QED  BY <2>1, <2>2
<1> HIDE DEF c, t
<1>4. CASE c = <<>>
  <2>1. Works(calls, m) = <<>>
    <3>1. <<>> \in Seq(PlainParts)
      OBVIOUS
    <3>2. ToolParts(<<>>) = <<>>
      BY <3>1, NoTools
    <3> QED  BY <1>2, <1>4, <3>2
  <2>2. Joint(done, Works(calls, m)) = done
    BY <2>1 DEF Joint
  <2>3. t.out = acc.out
    BY <1>1, <1>4
  <2> QED  BY <1>3, <2>2, <2>3 DEF Holds, t
<1>5. CASE c # <<>>
  <2>1. w \in WireTurns /\ w.content = c
    BY <1>2 DEF WireTurns, IsMessage
  <2> HIDE DEF w
  <2>2. t.out = Append(acc.out, w) /\ acc.out \in Seq(WireTurns)
    BY <1>1, <1>5 DEF Holds
  <2>3. t.out \in Seq(WireTurns)
    BY <2>1, <2>2
  <2>4. \A i \in DOMAIN t.out : t.out[i].content # <<>>
    <3>1. ASSUME NEW i \in DOMAIN t.out PROVE t.out[i] = w \/ (i \in DOMAIN acc.out /\ t.out[i] = acc.out[i])
      <4>1. ASSUME NEW s \in Seq(WireTurns), NEW j \in DOMAIN Append(s, w)
            PROVE  Append(s, w)[j] = w \/ (j \in DOMAIN s /\ Append(s, w)[j] = s[j])
        BY <2>1, AppendElements
      <4> QED  BY Zenon, <2>2, <4>1
    <3> QED  BY <1>5, <2>1, <3>1 DEF Holds
  <2>5. Contents(acc.out) \in Seq(WireParts) /\ Contents(t.out) = Joint(Contents(acc.out), c)
    BY <2>1, <2>2, ContentsAppend
  <2>6. ToolParts(Contents(t.out)) = Joint(done, Works(calls, m))
    <3>1. ToolParts(Joint(Contents(acc.out), c)) = Joint(ToolParts(Contents(acc.out)), ToolParts(c))
      BY <1>2, <2>5, ToolPartsJoint
    <3>2. ToolParts(Contents(acc.out)) = done
      BY DEF Holds
    <3> QED  BY Zenon, <1>2, <2>5, <3>1, <3>2
  <2> QED  BY <1>3, <2>3, <2>4, <2>6 DEF Holds, t
<1> QED  BY <1>4, <1>5

\* The wire and the names after each message.
TurnsAfter(messages, N) ==
  CHOOSE f : f = [n \in 0..N |-> IF n = 0 THEN Empty ELSE Turn(f[n - 1], messages[n])]

\* Turn takes one message after the other.
LEMMA TurnSteps ==
  ASSUME NEW messages, NEW N \in Nat, NEW f, f = TurnsAfter(messages, N)
  PROVE  f[0] = Empty /\ \A n \in 1..N : f[n] = Turn(f[n - 1], messages[n])
<1>1. \A t, n : Stepped("turn", messages, t, n) = Turn(t, messages[n])
  BY DEF Stepped
<1>2. PICK h : LoopBy("turn", Empty, messages, N, h)
  BY LoopsExist
<1>3. h = [n \in 0..N |-> IF n = 0 THEN Empty ELSE Turn(h[n - 1], messages[n])]
  BY Zenon, <1>1, <1>2 DEF LoopBy
<1>4. f = [n \in 0..N |-> IF n = 0 THEN Empty ELSE Turn(f[n - 1], messages[n])]
  BY Zenon, <1>3 DEF TurnsAfter
<1>5. \A n \in 0..N : f[n] = IF n = 0 THEN Empty ELSE Turn(f[n - 1], messages[n])
  BY Zenon, <1>4
<1>6. 0 \in 0..N /\ \A n \in 1..N : n \in 0..N /\ n # 0
  OBVIOUS
<1> QED  BY <1>5, <1>6

\* Each message adds its calls to those before.
LEMMA CallsGrow ==
  ASSUME NEW messages, NEW n \in Nat, \A i \in 1..(n + 1) : IsMessage(messages[i])
  PROVE  /\ CallsBefore(messages, n) \in Seq(Tools)
         /\ CallsBefore(messages, n + 1) = Joint(CallsBefore(messages, n), Makes(messages[n + 1]))
<1> DEFINE g == [i \in 1..(n + 1) |-> Makes(messages[i])]
<1>1. \A i \in 1..(n + 1) : g[i] \in Seq(Tools)
  <2>1. <<>> \in Seq(Tools)
    OBVIOUS
  <2>2. \A i \in 1..(n + 1) : Makes(messages[i]) \in Seq(Tools)
    BY <2>1, WorksType
  <2> QED  BY <2>2
<1>2. \A k \in {n, n + 1} : CallsBefore(messages, k) = FlattenSeq([i \in 1..k |-> g[i]])
  <2>1. ASSUME NEW k \in {n, n + 1} PROVE CallsBefore(messages, k) = FlattenSeq([i \in 1..k |-> g[i]])
    <3>1. \A i \in 1..k : g[i] = Makes(messages[i])
      OBVIOUS
    <3> HIDE DEF g
    <3>2. [i \in 1..k |-> Makes(messages[i])] = [i \in 1..k |-> g[i]]
      BY Zenon, <3>1
    <3> QED  BY Zenon, <3>2 DEF CallsBefore, Makes
  <2> QED  BY <2>1
<1>3. g[n + 1] = Makes(messages[n + 1])
  OBVIOUS
<1> HIDE DEF g
<1>4. /\ FlattenSeq([i \in 1..n |-> g[i]]) \in Seq(Tools)
      /\ FlattenSeq([i \in 1..(n + 1) |-> g[i]]) = FlattenSeq([i \in 1..n |-> g[i]]) \o g[n + 1]
  BY <1>1, FlattenOneMore
<1> QED  BY Zenon, <1>2, <1>3, <1>4 DEF Joint

ToolsUpTo(messages, n) == FlattenSeq([i \in 1..n |-> ToolsOf(messages, i)])

\* Each message adds its tool parts to those before.
LEMMA ToolsGrow ==
  ASSUME NEW messages, NEW n \in Nat, \A i \in 1..(n + 1) : IsMessage(messages[i])
  PROVE  /\ ToolsUpTo(messages, n) \in Seq(Tools)
         /\ ToolsUpTo(messages, n + 1) =
              Joint(ToolsUpTo(messages, n), Works(CallsBefore(messages, n), messages[n + 1]))
<1> DEFINE g == [i \in 1..(n + 1) |-> ToolsOf(messages, i)]
<1>1. ASSUME NEW i \in 1..(n + 1)
      PROVE  /\ ToolsOf(messages, i) = Works(CallsBefore(messages, i - 1), messages[i])
             /\ ToolsOf(messages, i) \in Seq(Tools)
  <2>1. ToolsOf(messages, i) = Works(CallsBefore(messages, i - 1), messages[i])
    BY DEF ToolsOf, Works
  <2>2. i - 1 \in Nat /\ \A k \in 1..((i - 1) + 1) : k \in 1..(n + 1)
    OBVIOUS
  <2>3. CallsBefore(messages, i - 1) \in Seq(Tools)
    BY <2>2, CallsGrow
  <2>4. Works(CallsBefore(messages, i - 1), messages[i]) \in Seq(Tools)
    BY <2>3, WorksType
  <2> QED  BY <2>1, <2>4
<1>2. \A k \in {n, n + 1} : ToolsUpTo(messages, k) = FlattenSeq([i \in 1..k |-> g[i]])
  <2>1. ASSUME NEW k \in {n, n + 1} PROVE ToolsUpTo(messages, k) = FlattenSeq([i \in 1..k |-> g[i]])
    <3>1. \A i \in 1..k : g[i] = ToolsOf(messages, i)
      OBVIOUS
    <3> HIDE DEF g
    <3>2. [i \in 1..k |-> ToolsOf(messages, i)] = [i \in 1..k |-> g[i]]
      BY Zenon, <3>1
    <3> QED  BY Zenon, <3>2 DEF ToolsUpTo
  <2> QED  BY <2>1
<1>3. /\ \A i \in 1..(n + 1) : g[i] \in Seq(Tools)
      /\ g[n + 1] = Works(CallsBefore(messages, n), messages[n + 1])
  <2>1. n + 1 \in 1..(n + 1) /\ (n + 1) - 1 = n
    OBVIOUS
  <2> QED  BY <1>1, <2>1
<1> HIDE DEF g
<1>4. /\ FlattenSeq([i \in 1..n |-> g[i]]) \in Seq(Tools)
      /\ FlattenSeq([i \in 1..(n + 1) |-> g[i]]) = FlattenSeq([i \in 1..n |-> g[i]]) \o g[n + 1]
  BY <1>3, FlattenOneMore
<1> QED  BY Zenon, <1>2, <1>3, <1>4 DEF Joint

\* The wire holds the tool parts of all messages: by induction over them.
LEMMA WireHolds ==
  ASSUME NEW messages \in Seq(Messages)
  PROVE  ToolsArePaired(messages)
<1> DEFINE N == Len(messages)
           f == TurnsAfter(messages, N)
           T == {n \in Nat : n <= N => Holds(f[n], CallsBefore(messages, n), ToolsUpTo(messages, n))}
<1>1. N \in Nat /\ DOMAIN messages = 1..N /\ \A i \in 1..N : IsMessage(messages[i])
  <2>1. N \in Nat /\ DOMAIN messages = 1..N /\ \A i \in 1..N : messages[i] \in Messages
    OBVIOUS
  <2> QED  BY <2>1, InputsAssumption DEF IsMessage
<1>2. WireMessages(messages) = f[N].out
  BY Zenon DEF WireMessages, TurnsAfter
<1>3. f[0] = Empty /\ \A n \in 1..N : f[n] = Turn(f[n - 1], messages[n])
  <2> HIDE DEF N
  <2> QED  BY <1>1, TurnSteps
<1> HIDE DEF f, N
<1>4. 0 \in T
  <2>1. CallsBefore(messages, 0) = <<>> /\ ToolsUpTo(messages, 0) = <<>>
    <3>1. \A g : [i \in 1..0 |-> g[i]] = <<>>
      OBVIOUS
    <3> QED  BY <3>1, FlattenNone DEF CallsBefore, ToolsUpTo
  <2>2. Holds(Empty, <<>>, <<>>)
    <3>1. Contents(<<>>) = <<>> /\ ToolParts(<<>>) = <<>>
      BY FlattenNone DEF Contents, ToolParts
    <3>2. Agree(Empty.names, <<>>)
      BY LastNameNone DEF Agree, NameOf, Empty
    <3>3. Empty.out = <<>>
      BY DEF Empty
    <3> QED  BY <3>1, <3>2, <3>3 DEF Holds
  <2> QED  BY <1>3, <2>1, <2>2
<1>5. ASSUME NEW n \in T PROVE n + 1 \in T
  <2>1. n \in Nat
    OBVIOUS
  <2> DEFINE calls == CallsBefore(messages, n)
             done  == ToolsUpTo(messages, n)
             m     == messages[n + 1]
  <2>2. ASSUME n + 1 <= N PROVE Holds(f[n + 1], CallsBefore(messages, n + 1), ToolsUpTo(messages, n + 1))
    <3>1. n + 1 \in 1..N /\ (n + 1) - 1 = n /\ n <= N /\ \A i \in 1..(n + 1) : i \in 1..N
      BY <1>1, <2>1, <2>2
    <3>2. Holds(f[n], calls, done)
      BY <3>1
    <3> HIDE DEF T
    <3>3. f[n + 1] = Turn(f[n], m) /\ IsMessage(m) /\ \A i \in 1..(n + 1) : IsMessage(messages[i])
      BY <1>1, <1>3, <3>1
    <3>4. calls \in Seq(Tools) /\ CallsBefore(messages, n + 1) = Joint(calls, Makes(m))
      BY <2>1, <3>3, CallsGrow
    <3>5. done \in Seq(Tools) /\ ToolsUpTo(messages, n + 1) = Joint(done, Works(calls, m))
      BY <2>1, <3>3, ToolsGrow
    <3> HIDE DEF calls, done, m
    <3>6. Holds(Turn(f[n], m), Joint(calls, Makes(m)), Joint(done, Works(calls, m)))
      BY <3>2, <3>3, <3>4, <3>5, TurnKeeps
    <3> QED  BY <3>3, <3>4, <3>5, <3>6
  <2> QED  BY <2>1, <2>2
<1>6. T = Nat
  <2> HIDE DEF T
  <2>1. T \in SUBSET Nat
    BY DEF T
  <2> QED  BY <1>4, <1>5, <2>1, NatSetInduction
<1>7. Holds(f[N], CallsBefore(messages, N), ToolsUpTo(messages, N))
  BY <1>1, <1>6
<1>8. ToolsUpTo(messages, N) = FlattenSeq([n \in DOMAIN messages |-> ToolsOf(messages, n)])
  BY <1>1 DEF ToolsUpTo
<1> QED  BY <1>2, <1>7, <1>8 DEF Holds, ToolsArePaired

\* Every call and every result of a conversation reaches the upstream in order, and each
\* result has its name, the client's or that of the last call under its id
\* (convertMessages and its toolNames).
THEOREM ToolsStayPairedAlways == Spec => []ToolsStayPaired
<1>1. Inputs => ToolsStayPaired
  BY WireHolds DEF Inputs, ToolsStayPaired
<1> QED  BY <1>1, InputsAlways, PTL
=============================================================================
