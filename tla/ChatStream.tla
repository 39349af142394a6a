----------------------------- MODULE ChatStream -----------------------------
(***************************************************************************)
(* server.handleChatCompletions: one chat completion, from the request to  *)
(* the client's last byte.  The upstream answers with a sequence of events *)
(* (NDJSON lines); the handler forwards what is visible, keeps a           *)
(* streamState, and decides whether the client is told of a success or of  *)
(* a failure, as server-sent events (serveStream) or as one JSON document  *)
(* (serveNonStream).  The client may leave at any moment; events the       *)
(* reader has buffered are still handled after that.                       *)
(*                                                                         *)
(* An event keeps the fields the handler looks at.  A blank tool id and a  *)
(* tool call whose input is not a JSON object are NoId; a finish reason is *)
(* absent (""), one of OpenAI's, or "unknown".                             *)
(***************************************************************************)
EXTENDS Integers, Sequences

CONSTANTS
  Events,     \* the events the upstream may send
  NoId,       \* the id of an incomplete tool event
  MaxEvents   \* bound on the events of a response

\* An event without token counts, and one without a usable amount (of money, or of
\* captured tokens); a zero is a usable amount.
NoUsage == [given |-> FALSE, output |-> 0, cacheWrite |-> 0]
NoCost  == -1

\* An event of a type, every other field absent.
Event(type) ==
  [type |-> type, id |-> NoId, reason |-> "", usage |-> NoUsage, cost |-> NoCost]

ASSUME BoundsAssumption == MaxEvents \in Nat

VARIABLES
  streaming,  \* req.Stream
  gone,       \* r.Context() has ended
  pc,         \* where the handler is
  history,    \* the events read so far
  st,         \* streamState
  chunks,     \* the visible events: written (serveStream) or collected
  started,    \* the 200 header has been written
  reply,      \* how the client's answer ended
  recorded    \* the results given to recordSuccess and recordFailure

vars == <<streaming, gone, pc, history, st, chunks, started, reply, recorded>>

NewState ==
  [reason |-> "", usage |-> NoUsage, captured |-> NoCost, cost |-> 0,
   costReported |-> FALSE, terminalSeen |-> FALSE, hasText |-> FALSE,
   hasTool |-> FALSE, pendingTools |-> {}]

Init ==
  /\ streaming \in BOOLEAN /\ gone = FALSE /\ pc = "new"
  /\ history = <<>> /\ st = NewState /\ chunks = <<>>
  /\ started = FALSE /\ reply = "none" /\ recorded = <<>>

-----------------------------------------------------------------------------
(* The events. *)

(* "blank" is white space only, "empty" a delta without text; "tool-input" stands  *)
(* for the start, a delta or the end of a call's raw input.                         *)
Content == {"text", "blank", "empty", "reasoning", "tool-call", "tool-input"}
Visible == {"text", "blank", "reasoning", "tool-call"}

\* TerminalError: the error event carries one of the three billing and plan markers.
IsMarker(ev) == ev.type = "marker"

\* Event.APIError: an error event without one; it always has an error to tell.
IsError(ev) == ev.type = "error"

\* OpenAIFinishReason: an absent reason reads as a stop, an unknown one as none.
FinishReason(ev) ==
  CASE ev.reason = ""        -> "stop"
    [] ev.reason = "unknown" -> ""
    [] OTHER                 -> ev.reason

\* The event names its reason itself (a refusal may be named by either field).
Explicit(ev) == ev.reason # ""

\* A budget or a filter may end an answer before anything is visible.
CutShort(reason) == reason \in {"length", "content_filter"}

-----------------------------------------------------------------------------
(* The state the events are folded into. *)

AbsorbReason(s, ev) ==
  CASE ev.type = "finish-step" /\ ~s.terminalSeen /\ Explicit(ev) -> FinishReason(ev)
    [] ev.type = "finish" /\ (Explicit(ev) \/ s.reason = "")      -> FinishReason(ev)
    [] OTHER                                                      -> s.reason

\* ReportedCostUSD: a zero counts as a report and keeps the cost known so far.
ReportsCost(ev) == ev.type \in {"finish-step", "metadata"} /\ ev.cost # NoCost

\* Mutant: a complete tool call settles every input seen so far.
PendingCleared(s, ev) ==
  CASE ev.type = "tool-input" -> s.pendingTools \cup {ev.id}
    [] ev.type = "tool-call"  -> {}
    [] OTHER                  -> s.pendingTools

\* Only a complete tool call settles the inputs seen under its id.
Pending(s, ev) ==
  CASE ev.type = "tool-input" -> s.pendingTools \cup {ev.id}
    [] ev.type = "tool-call"  -> s.pendingTools \ {ev.id}
    [] OTHER                  -> s.pendingTools

\* absorb, with the handlers' part of a visible event and protocolFailure's of a tool
\* event; an invalid captured count is dropped.
Absorb(s, ev) ==
  [reason       |-> AbsorbReason(s, ev),
   usage        |-> IF ev.type \in {"finish-step", "finish"} /\ ev.usage.given
                    THEN ev.usage ELSE s.usage,
   captured     |-> IF ev.type = "cache-write" /\ ev.cost # NoCost THEN ev.cost ELSE s.captured,
   cost         |-> IF ReportsCost(ev) /\ ev.cost > 0 THEN ev.cost ELSE s.cost,
   costReported |-> s.costReported \/ ReportsCost(ev),
   terminalSeen |-> s.terminalSeen \/ ev.type = "finish",
   hasText      |-> s.hasText \/ ev.type = "text",
   hasTool      |-> s.hasTool \/ ev.type = "tool-call",
   pendingTools |-> Pending(s, ev)]

\* protocolFailure's verdict on an event, "" when it accepts it.
ProtocolFailure(s, ev) ==
  CASE s.terminalSeen /\ ev.type \in Content        -> "upstream_invalid_sequence"
    [] ev.type = "abort"                            -> "upstream_aborted"
    [] ev.type \in {"finish", "finish-step"} /\ FinishReason(ev) = ""
                                                    -> "upstream_invalid_finish"
    [] ev.type = "finish" /\ s.pendingTools # {}    -> "upstream_invalid_tool_call"
    [] ev.type = "finish" /\ s.terminalSeen /\ Explicit(ev) /\ FinishReason(ev) # s.reason
                                                    -> "upstream_invalid_finish"
    [] ev.type \in {"tool-input", "tool-call"} /\ ev.id = NoId
                                                    -> "upstream_invalid_tool_call"
    [] OTHER                                        -> ""

\* The verdict on the whole of a response that has its finish event.
CompletionFailure(s) ==
  CASE s.pendingTools # {} \/ (s.reason = "tool_calls" /\ ~s.hasTool)
         -> "upstream_invalid_tool_call"
    [] ~s.hasText /\ ~s.hasTool /\ ~CutShort(s.reason)
         -> "upstream_incomplete_response"
    [] OTHER -> ""

\* Mutant: the captured count replaces the total that was reported.
FinalUsageCaptured(s) ==
  IF s.captured = NoCost THEN s.usage
  ELSE [s.usage EXCEPT !.given = TRUE, !.cacheWrite = s.captured]

\* A usage with a captured count in the place of a zero.
Filled(u, count) ==
  [given |-> TRUE, output |-> u.output,
   cacheWrite |-> IF u.cacheWrite = 0 THEN count ELSE u.cacheWrite]

\* finalizeUsage: a captured cache-write count only fills a zero total.
FinalUsage(s) ==
  IF s.captured = NoCost THEN s.usage ELSE Filled(s.usage, s.captured)

-----------------------------------------------------------------------------
(* The ways a request ends. *)

Record(result) == recorded' = Append(recorded, result)

Success == reply' = "success" /\ Record("ok")

\* A JSON error with a status before the first chunk, an error frame after it.
SayFailure == reply' = IF started THEN "error_frame" ELSE "error"

Silent == UNCHANGED <<reply, recorded>>

\* Mutant: a stream cut by the client's departure is reported as a failure.
ReportAlways(result) == SayFailure /\ Record(result)

\* Mutant: a stream that fails after its first chunk just stops.
ReportUnlessStarted(result) ==
  IF gone \/ started THEN Silent ELSE SayFailure /\ Record(result)

\* handleProtocolFailure, handleTruncatedStream: nobody is told, and nothing is
\* recorded, once the client has left.
Report(result) ==
  IF gone THEN Silent ELSE SayFailure /\ Record(result)

\* handleStreamReadError: the client's departure explains any read error.
ReadFailure(kind) ==
  IF gone THEN Record("canceled") /\ UNCHANGED reply
  ELSE IF kind = "malformed" THEN Report("upstream_malformed_event")
  ELSE SayFailure /\ Record(kind)

ReadErrors == {"malformed", "timeout", "upstream_connection_error"}

-----------------------------------------------------------------------------
(* The handler. *)

Leave ==
  /\ pc # "done" /\ ~gone
  /\ gone' = TRUE
  /\ UNCHANGED <<streaming, pc, history, st, chunks, started, reply, recorded>>

\* The request is refused before the upstream is called; metrics do not count it.
Reject ==
  /\ pc = "new"
  /\ pc' = "done" /\ reply' = "rejected"
  /\ UNCHANGED <<streaming, gone, history, st, chunks, started, recorded>>

Connect ==
  /\ pc = "new"
  /\ pc' = "reading"
  /\ UNCHANGED <<streaming, gone, history, st, chunks, started, reply, recorded>>

\* Generate fails: with an upstream answer or without a usable key ("upstream"), or
\* on the way there.
Refused(kind) ==
  /\ pc = "new" /\ pc' = "done"
  /\ IF kind = "upstream" /\ ~gone
     THEN SayFailure /\ Record("upstream_error")
     ELSE ReadFailure(kind)
  /\ UNCHANGED <<streaming, gone, history, st, chunks, started>>

Take(ev) ==
  /\ pc = "reading" /\ Len(history) < MaxEvents
  /\ history' = Append(history, ev)
  /\ UNCHANGED <<streaming, gone>>

\* An in-band error ends the stream: one of the three billing markers, or any other.
InBandError(ev) ==
  /\ Take(ev)
  /\ IsMarker(ev) \/ IsError(ev)
  /\ SayFailure
  /\ Record(IF IsMarker(ev) THEN "terminal_marker" ELSE "upstream_error")
  /\ pc' = "done"
  /\ UNCHANGED <<st, chunks, started>>

\* An event that breaks the protocol ends it too.
Violate(ev) ==
  /\ Take(ev)
  /\ ~IsMarker(ev) /\ ~IsError(ev)
  /\ ProtocolFailure(st, ev) # ""
  /\ Report(ProtocolFailure(st, ev))
  /\ pc' = "done"
  /\ UNCHANGED <<st, chunks, started>>

\* Any other event is folded into the state and, when visible, forwarded.
Accept(ev) ==
  /\ Take(ev)
  /\ ~IsMarker(ev) /\ ~IsError(ev)
  /\ ProtocolFailure(st, ev) = ""
  /\ st' = Absorb(st, ev)
  /\ chunks'  = IF ev.type \in Visible THEN Append(chunks, ev) ELSE chunks
  /\ started' = (started \/ (streaming /\ ev.type \in Visible))
  /\ UNCHANGED <<pc, reply, recorded>>

\* The read fails.
Break(kind) ==
  /\ pc = "reading" /\ pc' = "done"
  /\ ReadFailure(kind)
  /\ UNCHANGED <<streaming, gone, history, st, chunks, started>>

AtEnd ==
  /\ pc = "reading" /\ pc' = "done"
  /\ UNCHANGED <<streaming, gone, history, chunks>>

\* A clean end without a finish event.
Truncated ==
  /\ AtEnd /\ ~st.terminalSeen
  /\ Report("truncated_response")
  /\ UNCHANGED <<st, started>>

Final == [st EXCEPT !.usage = FinalUsage(st)]

Incomplete ==
  /\ AtEnd /\ st.terminalSeen
  /\ CompletionFailure(st) # ""
  /\ Report(CompletionFailure(st))
  /\ st' = Final
  /\ UNCHANGED started

\* A JSON answer billed no output, although nothing cut it short.
Empty == ~streaming /\ FinalUsage(st).output = 0 /\ ~CutShort(st.reason)

EmptyAnswer ==
  /\ AtEnd /\ st.terminalSeen
  /\ CompletionFailure(st) = "" /\ Empty
  /\ SayFailure /\ Record("empty_response")
  /\ st' = Final
  /\ UNCHANGED started

Complete ==
  /\ AtEnd /\ st.terminalSeen
  /\ CompletionFailure(st) = "" /\ ~Empty
  /\ Success
  /\ st' = Final
  /\ started' = (started \/ streaming)

Done == pc = "done" /\ UNCHANGED vars

Next ==
  \/ Leave \/ Reject \/ Connect
  \/ \E kind \in {"upstream", "timeout", "upstream_connection_error"} : Refused(kind)
  \/ \E ev \in Events : InBandError(ev) \/ Violate(ev) \/ Accept(ev)
  \/ \E kind \in ReadErrors : Break(kind)
  \/ Truncated \/ Incomplete \/ EmptyAnswer \/ Complete
  \/ Done

Spec == Init /\ [][Next]_vars

-----------------------------------------------------------------------------
(* What a response is, read off its events alone. *)

Indices(h, types) == {i \in DOMAIN h : h[i].type \in types}

First(S) == CHOOSE i \in S : \A j \in S : i <= j
Last(S)  == CHOOSE i \in S : \A j \in S : j <= i

\* The reason a response ends with: its finish's, else its last step's, else a stop.
EndReason(h) ==
  LET finish == First(Indices(h, {"finish"}))
      steps  == {i \in Indices(h, {"finish-step"}) : i < finish /\ Explicit(h[i])}
  IN IF Explicit(h[finish]) \/ steps = {} THEN FinishReason(h[finish])
     ELSE FinishReason(h[Last(steps)])

\* A response that may be told as a success.
WellFormed(h) ==
  /\ Indices(h, {"finish"}) # {}
  /\ Indices(h, {"abort", "error", "marker"}) = {}
  /\ \A i \in Indices(h, {"tool-call", "tool-input"}) : h[i].id # NoId
  /\ \A i \in Indices(h, {"finish", "finish-step"}) : h[i].reason # "unknown"
  /\ \A i \in Indices(h, Content), j \in Indices(h, {"finish"}) : i < j
  /\ \A i \in Indices(h, {"tool-input"}) :
       \E j \in Indices(h, {"tool-call"}) : i < j /\ h[j].id = h[i].id
  /\ \A i \in Indices(h, {"finish"}) : Explicit(h[i]) => h[i].reason = EndReason(h)
  /\ EndReason(h) = "tool_calls" => Indices(h, {"tool-call"}) # {}
  /\ Indices(h, {"text", "tool-call"}) # {} \/ CutShort(EndReason(h))

\* The usage and the cost a response reports: the last usage, and the last cost that
\* is not zero; the last valid cache-write count seen anywhere fills a zero total.
ReportedUsage(h) ==
  LET U == {i \in Indices(h, {"finish-step", "finish"}) : h[i].usage.given}
      C == {i \in Indices(h, {"cache-write"}) : h[i].cost # NoCost}
      u == IF U = {} THEN NoUsage ELSE h[Last(U)].usage
  IN IF C = {} THEN u ELSE Filled(u, h[Last(C)].cost)

ReportedCost(h) ==
  LET P == {i \in Indices(h, {"finish-step", "metadata"}) : h[i].cost > 0}
  IN IF P = {} THEN 0 ELSE h[Last(P)].cost

-----------------------------------------------------------------------------
(* Properties. *)

Results ==
  {"ok", "canceled", "terminal_marker", "upstream_error", "empty_response"} \cup
  {"timeout", "upstream_connection_error", "truncated_response"} \cup
  {"upstream_malformed_event", "upstream_invalid_sequence", "upstream_aborted",
   "upstream_invalid_finish", "upstream_invalid_tool_call", "upstream_incomplete_response"}

\* The client is told of a success exactly when the events it came from form a
\* complete response: no truncated, aborted, contradictory or half-called answer
\* passes for one, and a complete one fails only if the read does or it is empty.
SuccessIsComplete ==
  /\ reply = "success" => WellFormed(history)
  /\ pc = "done" /\ recorded # <<>> /\ WellFormed(history) =>
       recorded[1] \in {"ok", "empty_response", "canceled", "timeout",
                         "upstream_connection_error", "upstream_malformed_event"}

\* A client that stays gets one answer, and what it is told is what is counted: a
\* single result per request, "ok" for a success and only then.  A failure has a
\* status of its own only if nothing was streamed yet.
ToldAsRecorded ==
  pc = "done" =>
    /\ Len(recorded) <= 1
    /\ ~gone => reply # "none"
    /\ recorded = <<>> => gone \/ reply = "rejected"
    /\ recorded = <<"ok">> <=> reply = "success"
    /\ reply \in {"error", "error_frame"} =>
         (reply = "error_frame" <=> streaming /\ chunks # <<>>)

\* A client that leaves is never counted as a failure of the upstream's connection:
\* what is recorded then is its departure, or what the upstream said itself.
DepartureIsNotFailure ==
  pc = "done" /\ gone /\ recorded # <<>> =>
    recorded[1] \in {"ok", "canceled", "terminal_marker", "upstream_error", "empty_response"}

\* The accounting of a success is that of its events, in whatever order they came,
\* and no JSON answer is a success that was billed no output.
AccountsForTheResponse ==
  reply = "success" =>
    /\ st.usage = ReportedUsage(history)
    /\ st.cost = ReportedCost(history)
    /\ ~streaming => st.usage.output # 0 \/ CutShort(st.reason)
=============================================================================
