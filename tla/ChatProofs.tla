----------------------------- MODULE ChatProofs -----------------------------
(***************************************************************************)
(* The chat handler, for every set of events and responses of every        *)
(* length: what a client is told is what is recorded, once; a client that  *)
(* leaves is not counted as a failure of the upstream's connection; a      *)
(* success is a complete response; and its usage and cost are the last     *)
(* reported.  And its watchdog, for every idle time and every number of    *)
(* callbacks in flight.                                                    *)
(*                                                                         *)
(* Until the handler is done nothing is said or recorded, and the 200      *)
(* header is out exactly when a chunk was streamed (Undecided); each way   *)
(* to end then records one result, and settles the answer with it.         *)
(*                                                                         *)
(* The other two need what the state says of the events so far: Folded,    *)
(* for the verdict, and Ledger, for the accounts.  The properties choose   *)
(* the first or last place of a kind, so each is kept as a place that      *)
(* exists (IsFirst, IsLast): an appended event is the last, and moves no   *)
(* first.                                                                  *)
(*                                                                         *)
(* The watchdog's invariants are not inductive: that a wait is cancelled   *)
(* no earlier than its deadline needs to know that the deadline counts     *)
(* down exactly while the wait lasts, and that only the handler inside a   *)
(* wait is waiting (WaitMeasured).                                         *)
(***************************************************************************)
EXTENDS ChatStream, ChatIdle, TLAPS

Undecided ==
  pc # "done" =>
    /\ recorded = <<>> /\ reply = "none"
    /\ started <=> streaming /\ chunks # <<>>

IInv ==
  /\ chunks \in Seq(Events)
  /\ Undecided /\ ToldAsRecorded /\ DepartureIsNotFailure

\* The results that blame the upstream's stream.
Faults ==
  {"truncated_response", "upstream_malformed_event", "upstream_invalid_sequence",
   "upstream_aborted", "upstream_invalid_finish", "upstream_invalid_tool_call",
   "upstream_incomplete_response"}

\* The results of what the upstream itself said.
Answers == {"terminal_marker", "upstream_error", "empty_response"}

-----------------------------------------------------------------------------
LEMMA ProtocolFaults ==
  ASSUME NEW s, NEW ev, ProtocolFailure(s, ev) # ""
  PROVE  ProtocolFailure(s, ev) \in Faults
  BY DEF ProtocolFailure, Faults

LEMMA CompletionFaults ==
  ASSUME NEW s, CompletionFailure(s) # ""
  PROVE  CompletionFailure(s) \in Faults
  BY DEF CompletionFailure, Faults

\* A first result is the only one.
LEMMA FirstRecord ==
  ASSUME NEW result, recorded = <<>>, Record(result)
  PROVE  recorded' = <<result>> /\ recorded' # <<>> /\ Len(recorded') = 1 /\ recorded'[1] = result
  BY DEF Record

\* A failure that is said and recorded, while the client is there or whoever is, ends
\* the request as the properties want it.
LEMMA FailureEnds ==
  ASSUME IInv, pc # "done", pc' = "done", UNCHANGED <<chunks, streaming, gone>>,
         NEW result, Record(result), SayFailure, result # "ok",
         gone => result \in Answers
  PROVE  IInv'
<1>1. recorded = <<>>
  BY DEF IInv, Undecided
<1>2. recorded' = <<result>> /\ recorded' # <<>> /\ Len(recorded') = 1 /\ recorded'[1] = result
  BY <1>1, FirstRecord
<1>3. reply' \in {"error", "error_frame"} /\ (reply' = "error_frame" <=> streaming /\ chunks # <<>>)
  BY DEF SayFailure, IInv, Undecided
<1>4. ToldAsRecorded'
  BY <1>2, <1>3 DEF ToldAsRecorded
<1>5. DepartureIsNotFailure'
  BY <1>2 DEF DepartureIsNotFailure, Answers
<1> QED  BY <1>4, <1>5 DEF IInv, Undecided

\* So does a silent end, when the client has left.
LEMMA SilenceEnds ==
  ASSUME IInv, pc # "done", pc' = "done", UNCHANGED <<chunks, streaming, gone>>, gone, Silent
  PROVE  IInv'
<1>1. recorded' = <<>> /\ reply' = "none"
  BY DEF IInv, Undecided, Silent
<1>2. ToldAsRecorded'
  BY <1>1 DEF ToldAsRecorded
<1>3. DepartureIsNotFailure'
  BY <1>1 DEF DepartureIsNotFailure
<1> QED  BY <1>2, <1>3 DEF IInv, Undecided

LEMMA ReportEnds ==
  ASSUME IInv, pc # "done", pc' = "done", UNCHANGED <<chunks, streaming, gone>>,
         NEW result \in Faults, Report(result)
  PROVE  IInv'
<1>1. result # "ok"
  BY DEF Faults
<1>2. CASE gone  BY <1>2, SilenceEnds DEF Report
<1>3. CASE ~gone  BY <1>1, <1>3, FailureEnds DEF Report
<1> QED  BY <1>2, <1>3

LEMMA ReadFailureEnds ==
  ASSUME IInv, pc # "done", pc' = "done", UNCHANGED <<chunks, streaming, gone>>,
         NEW kind \in ReadErrors, ReadFailure(kind)
  PROVE  IInv'
<1>1. CASE gone
  <2>1. recorded = <<>> /\ reply = "none"
    BY DEF IInv, Undecided
  <2>2. Record("canceled") /\ reply' = "none"
    BY <1>1, <2>1 DEF ReadFailure
  <2>3. recorded' = <<"canceled">> /\ recorded' # <<>> /\ Len(recorded') = 1
          /\ recorded'[1] = "canceled"
    BY <2>1, <2>2, FirstRecord
  <2>4. ToldAsRecorded'
    BY <1>1, <2>2, <2>3 DEF ToldAsRecorded
  <2>5. DepartureIsNotFailure'
    BY <2>3 DEF DepartureIsNotFailure
  <2> QED  BY <2>4, <2>5 DEF IInv, Undecided
<1>2. CASE ~gone /\ kind = "malformed"
  <2>1. "upstream_malformed_event" \in Faults
    BY DEF Faults
  <2> QED  BY <1>2, <2>1, ReportEnds DEF ReadFailure
<1>3. CASE ~gone /\ kind # "malformed"
  <2>1. kind # "ok"
    BY DEF ReadErrors
  <2> QED  BY <1>3, <2>1, FailureEnds DEF ReadFailure
<1> QED  BY <1>1, <1>2, <1>3

-----------------------------------------------------------------------------
LEMMA InitInvariant == Init => IInv
  BY DEF Init, IInv, Undecided, ToldAsRecorded, DepartureIsNotFailure

LEMMA BeforeReading ==
  ASSUME IInv, Leave \/ Reject \/ Connect
  PROVE  IInv'
<1>1. CASE Leave
  BY <1>1 DEF Leave, IInv, Undecided, ToldAsRecorded, DepartureIsNotFailure
<1>2. CASE Reject
  BY <1>2 DEF Reject, IInv, Undecided, ToldAsRecorded, DepartureIsNotFailure
<1>3. CASE Connect
  BY <1>3 DEF Connect, IInv, Undecided, ToldAsRecorded, DepartureIsNotFailure
<1> QED  BY <1>1, <1>2, <1>3

LEMMA RefusedEnds ==
  ASSUME IInv, NEW kind \in {"upstream", "timeout", "upstream_connection_error"}, Refused(kind)
  PROVE  IInv'
<1>1. pc # "done" /\ pc' = "done" /\ UNCHANGED <<chunks, streaming, gone>>
  BY DEF Refused
<1>2. CASE kind = "upstream" /\ ~gone
  BY <1>1, <1>2, FailureEnds DEF Refused
<1>3. CASE kind # "upstream"
  BY <1>1, <1>3, ReadFailureEnds DEF Refused, ReadErrors
<1>4. CASE kind = "upstream" /\ gone
  <2>1. ReadFailure("timeout")
    BY <1>4 DEF Refused, ReadFailure
  <2> QED  BY <1>1, <2>1, ReadFailureEnds DEF ReadErrors
<1> QED  BY <1>2, <1>3, <1>4

LEMMA EventStep ==
  ASSUME IInv, NEW ev \in Events, InBandError(ev) \/ Violate(ev) \/ Accept(ev)
  PROVE  IInv'
<1>1. CASE InBandError(ev)
  <2>1. pc # "done" /\ pc' = "done" /\ UNCHANGED <<chunks, streaming, gone>>
    BY <1>1 DEF InBandError, Take
  <2> DEFINE result == IF IsMarker(ev) THEN "terminal_marker" ELSE "upstream_error"
  <2>2. Record(result) /\ SayFailure
    BY <1>1 DEF InBandError
  <2>3. result # "ok" /\ result \in Answers
    BY DEF Answers
  <2> HIDE DEF result
  <2> QED  BY <2>1, <2>2, <2>3, FailureEnds
<1>2. CASE Violate(ev)
  <2>1. pc # "done" /\ pc' = "done" /\ UNCHANGED <<chunks, streaming, gone>>
    BY <1>2 DEF Violate, Take
  <2>2. ProtocolFailure(st, ev) \in Faults /\ Report(ProtocolFailure(st, ev))
    BY <1>2, ProtocolFaults DEF Violate
  <2> QED  BY <2>1, <2>2, ReportEnds
<1>3. CASE Accept(ev)
  <2>1. pc = "reading" /\ pc' = pc /\ UNCHANGED <<streaming, gone, reply, recorded>>
    BY <1>3 DEF Accept, Take
  <2>2. CASE ev.type \in Visible
    <3>1. chunks' = Append(chunks, ev) /\ started' = (started \/ streaming)
      BY <1>3, <2>2 DEF Accept
    <3>2. chunks' \in Seq(Events) /\ chunks' # <<>>
      BY <3>1 DEF IInv
    <3> QED
      BY <2>1, <3>1, <3>2 DEF IInv, Undecided, ToldAsRecorded, DepartureIsNotFailure
  <2>3. CASE ev.type \notin Visible
    <3>1. chunks' = chunks /\ (started' <=> started)
      BY <1>3, <2>3 DEF Accept
    <3> QED
      BY <2>1, <3>1 DEF IInv, Undecided, ToldAsRecorded, DepartureIsNotFailure
  <2> QED  BY <2>2, <2>3
<1> QED  BY <1>1, <1>2, <1>3

LEMMA EndStep ==
  ASSUME IInv, Truncated \/ Incomplete \/ EmptyAnswer \/ Complete
  PROVE  IInv'
<1>1. pc # "done" /\ pc' = "done" /\ UNCHANGED <<chunks, streaming, gone>>
  BY DEF Truncated, Incomplete, EmptyAnswer, Complete, AtEnd
<1>2. CASE Truncated
  BY <1>1, <1>2, ReportEnds DEF Truncated, Faults
<1>3. CASE Incomplete
  BY <1>1, <1>3, ReportEnds, CompletionFaults DEF Incomplete
<1>4. CASE EmptyAnswer
  BY <1>1, <1>4, FailureEnds DEF EmptyAnswer, Answers
<1>5. CASE Complete
  <2>1. recorded = <<>> /\ reply' = "success" /\ Record("ok")
    BY <1>1, <1>5 DEF Complete, Success, IInv, Undecided
  <2>2. recorded' = <<"ok">> /\ recorded' # <<>> /\ Len(recorded') = 1 /\ recorded'[1] = "ok"
    BY <2>1, FirstRecord
  <2>3. ToldAsRecorded'
    BY <2>1, <2>2 DEF ToldAsRecorded
  <2>4. DepartureIsNotFailure'
    BY <2>2 DEF DepartureIsNotFailure
  <2> QED  BY <1>1, <2>3, <2>4 DEF IInv, Undecided
<1> QED  BY <1>2, <1>3, <1>4, <1>5

LEMMA NextInvariant == IInv /\ [Next]_vars => IInv'
<1> SUFFICES ASSUME IInv, [Next]_vars PROVE IInv'
  OBVIOUS
<1>1. CASE Leave \/ Reject \/ Connect  BY <1>1, BeforeReading
<1>2. CASE \E kind \in {"upstream", "timeout", "upstream_connection_error"} : Refused(kind)
  BY <1>2, RefusedEnds
<1>3. CASE \E ev \in Events : InBandError(ev) \/ Violate(ev) \/ Accept(ev)
  BY <1>3, EventStep
<1>4. CASE \E kind \in ReadErrors : Break(kind)
  <2> PICK kind \in ReadErrors : Break(kind)
    BY <1>4
  <2>1. pc # "done" /\ pc' = "done" /\ UNCHANGED <<chunks, streaming, gone>> /\ ReadFailure(kind)
    BY DEF Break
  <2> QED  BY <2>1, ReadFailureEnds
<1>5. CASE Truncated \/ Incomplete \/ EmptyAnswer \/ Complete
  BY <1>5, EndStep
<1>6. CASE Done \/ UNCHANGED vars
  BY <1>6 DEF Done, vars, IInv, Undecided, ToldAsRecorded, DepartureIsNotFailure
<1> QED  BY <1>1, <1>2, <1>3, <1>4, <1>5, <1>6 DEF Next

LEMMA InvariantAlways == Spec => []IInv
  BY InitInvariant, NextInvariant, PTL DEF Spec

\* One answer per request, and one result that says the same: whatever the upstream
\* sends, for as long as it sends.
THEOREM ToldAsRecordedAlways == Spec => []ToldAsRecorded
<1>1. IInv => ToldAsRecorded  BY DEF IInv
<1> QED  BY <1>1, InvariantAlways, PTL

\* A client that leaves is never recorded as a failure of the connection.
THEOREM DepartureIsNotFailureAlways == Spec => []DepartureIsNotFailure
<1>1. IInv => DepartureIsNotFailure  BY DEF IInv
<1> QED  BY <1>1, InvariantAlways, PTL

-----------------------------------------------------------------------------
(* Places in a response. *)

\* The first and the last of a set of places, without a choice.
IsFirst(i, S) == i \in S /\ \A j \in S : i <= j
IsLast(i, S)  == i \in S /\ \A j \in S : j <= i

\* Such a place is the one the properties choose.
LEMMA FirstIs ==
  ASSUME NEW S \in SUBSET Int, NEW i, IsFirst(i, S)
  PROVE  First(S) = i
<1>1. \A j : IsFirst(j, S) => j = i
  BY DEF IsFirst
<1> QED  BY <1>1 DEF First, IsFirst

LEMMA LastIs ==
  ASSUME NEW S \in SUBSET Int, NEW i, IsLast(i, S)
  PROVE  Last(S) = i
<1>1. \A j : IsLast(j, S) => j = i
  BY DEF IsLast
<1> QED  BY <1>1 DEF Last, IsLast

\* g is h with one more event, ev; and what that adds to the places of some types.
Extends(h, ev, g) ==
  /\ h \in Seq(Events) /\ g \in Seq(Events)
  /\ Len(h) \in Nat /\ Len(g) = Len(h) + 1
  /\ DOMAIN h = 1..Len(h) /\ g[Len(h) + 1] = ev
  /\ \A i \in DOMAIN h : g[i] = h[i] /\ i \in Nat /\ i < Len(h) + 1
  /\ \A types : /\ Indices(h, types) \subseteq DOMAIN h
                /\ Indices(g, types) = IF ev.type \in types
                     THEN Indices(h, types) \cup {Len(h) + 1} ELSE Indices(h, types)

LEMMA OneMoreEvent ==
  ASSUME NEW h \in Seq(Events), NEW ev \in Events
  PROVE  Extends(h, ev, Append(h, ev))
<1> DEFINE g == Append(h, ev)
<1>1. /\ g \in Seq(Events) /\ Len(g) = Len(h) + 1 /\ Len(h) \in Nat
      /\ g[Len(h) + 1] = ev
      /\ \A i \in DOMAIN h : g[i] = h[i] /\ i \in Nat /\ i < Len(h) + 1
      /\ DOMAIN h = 1..Len(h) /\ DOMAIN g = DOMAIN h \cup {Len(h) + 1}
  OBVIOUS
<1>2. Len(h) + 1 \notin DOMAIN h
  BY <1>1
<1> HIDE DEF g
<1>3. ASSUME NEW types
      PROVE  /\ Indices(h, types) \subseteq DOMAIN h
             /\ Indices(g, types) = IF ev.type \in types
                  THEN Indices(h, types) \cup {Len(h) + 1} ELSE Indices(h, types)
  BY <1>1, <1>2 DEF Indices
<1> QED  BY <1>1, <1>3 DEF Extends, g

\* The places of some types then.
Grows(h, ev, g, types) ==
  /\ \A i \in Indices(h, types) : g[i] = h[i] /\ i \in Nat /\ i < Len(h) + 1
  /\ g[Len(h) + 1] = ev
  /\ ev.type \in types => Indices(g, types) = Indices(h, types) \cup {Len(h) + 1}
  /\ ev.type \notin types => Indices(g, types) = Indices(h, types)

LEMMA PlacesAfter ==
  ASSUME NEW h, NEW ev, NEW g, Extends(h, ev, g)
  PROVE  \A types : Grows(h, ev, g, types)
  BY DEF Extends, Grows

-----------------------------------------------------------------------------
(* The state is what the events so far amount to. *)

\* Nothing in the events rules a complete response out, yet.
Sound(h) ==
  /\ Indices(h, {"abort", "error", "marker"}) = {}
  /\ \A i \in Indices(h, {"tool-call", "tool-input"}) : h[i].id # NoId
  /\ \A i \in Indices(h, {"finish", "finish-step"}) : h[i].reason # "unknown"
  /\ \A i \in Indices(h, Content), j \in Indices(h, {"finish"}) : i < j

\* The input of a call is open: no complete call has come under its id since.
Open(h, i) == \A j \in Indices(h, {"tool-call"}) : i < j => h[j].id # h[i].id

\* What the state notes of the events.
Noted(h, s) ==
  /\ s.terminalSeen <=> Indices(h, {"finish"}) # {}
  /\ s.hasText <=> Indices(h, {"text"}) # {}
  /\ s.hasTool <=> Indices(h, {"tool-call"}) # {}
  /\ \A id : id \in s.pendingTools <=>
       \E i \in Indices(h, {"tool-input"}) : h[i].id = id /\ Open(h, i)

\* The steps before a place that name a reason of their own.
StepsBefore(h, n) == {i \in Indices(h, {"finish-step"}) : i < n /\ Explicit(h[i])}

\* The state's reason before the first finish event, ...
OpenReason(h, s) ==
  \/ StepsBefore(h, Len(h) + 1) = {} /\ s.reason = ""
  \/ \E i : /\ IsLast(i, StepsBefore(h, Len(h) + 1))
            /\ s.reason = FinishReason(h[i]) /\ s.reason # ""

\* ... and from then on: it is that of the first finish event, or of the last step
\* before it that names one.
ReasonAt(h, s, f) ==
  /\ IsFirst(f, Indices(h, {"finish"}))
  /\ \/ Explicit(h[f]) /\ s.reason = FinishReason(h[f])
     \/ StepsBefore(h, f) = {} /\ s.reason = FinishReason(h[f])
     \/ /\ ~Explicit(h[f])
        /\ \E i : IsLast(i, StepsBefore(h, f)) /\ s.reason = FinishReason(h[i])

ClosedReason(h, s) ==
  /\ s.reason # ""
  /\ \A i \in Indices(h, {"finish"}) : Explicit(h[i]) => FinishReason(h[i]) = s.reason
  /\ \E f : ReasonAt(h, s, f)

Folded(h, s) ==
  /\ h \in Seq(Events) /\ Sound(h) /\ Noted(h, s)
  /\ IF s.terminalSeen THEN ClosedReason(h, s) ELSE OpenReason(h, s)

LEMMA ReasonIs ==
  ASSUME NEW h \in Seq(Events), NEW s, NEW f, ReasonAt(h, s, f)
  PROVE  EndReason(h) = s.reason
<1>1. \A types : Indices(h, types) \in SUBSET Int
  BY DEF Indices
<1>2. First(Indices(h, {"finish"})) = f
  BY <1>1, FirstIs DEF ReasonAt
<1>3. StepsBefore(h, f) \in SUBSET Int
  BY <1>1 DEF StepsBefore
<1>4. EndReason(h) = IF Explicit(h[f]) \/ StepsBefore(h, f) = {} THEN FinishReason(h[f])
                     ELSE FinishReason(h[Last(StepsBefore(h, f))])
  BY <1>2 DEF EndReason, StepsBefore
<1>5. CASE Explicit(h[f]) \/ StepsBefore(h, f) = {}
  BY <1>4, <1>5 DEF ReasonAt, IsLast
<1>6. CASE ~Explicit(h[f]) /\ StepsBefore(h, f) # {}
  <2>1. PICK i : IsLast(i, StepsBefore(h, f)) /\ s.reason = FinishReason(h[i])
    BY <1>6 DEF ReasonAt
  <2>2. Last(StepsBefore(h, f)) = i
    BY <2>1, <1>3, LastIs
  <2> QED  BY <1>4, <1>6, <2>1, <2>2
<1> QED  BY <1>5, <1>6

-----------------------------------------------------------------------------
(* Each event that is accepted keeps it so. *)

\* An unknown reason reads as none, an absent one as a stop.
LEMMA NoReason ==
  ASSUME NEW ev
  PROVE  /\ FinishReason(ev) = "" <=> ev.reason = "unknown"
         /\ Explicit(ev) /\ ev.reason # "unknown" => FinishReason(ev) = ev.reason
         /\ ~Explicit(ev) => FinishReason(ev) = "stop"
  BY DEF FinishReason, Explicit

\* What protocolFailure's verdict says of an event, either way.
LEMMA Accepted ==
  ASSUME NEW s, NEW ev, ProtocolFailure(s, ev) = ""
  PROVE  /\ ~(s.terminalSeen /\ ev.type \in Content) /\ ev.type # "abort"
         /\ ev.type \in {"finish", "finish-step"} => ev.reason # "unknown"
         /\ ev.type = "finish" => s.pendingTools = {}
         /\ ev.type = "finish" /\ s.terminalSeen /\ Explicit(ev) => FinishReason(ev) = s.reason
         /\ ev.type \in {"tool-input", "tool-call"} => ev.id # NoId
  BY NoReason DEF ProtocolFailure

LEMMA Rejected ==
  ASSUME NEW s, NEW ev, ProtocolFailure(s, ev) # ""
  PROVE  \/ s.terminalSeen /\ ev.type \in Content
         \/ ev.type = "abort"
         \/ ev.type \in {"finish", "finish-step"} /\ ev.reason = "unknown"
         \/ ev.type = "finish" /\ s.pendingTools # {}
         \/ ev.type = "finish" /\ s.terminalSeen /\ Explicit(ev) /\ FinishReason(ev) # s.reason
         \/ ev.type \in {"tool-input", "tool-call"} /\ ev.id = NoId
  BY NoReason DEF ProtocolFailure

LEMMA SoundStep ==
  ASSUME NEW h, NEW s, Folded(h, s), NEW ev \in Events, ProtocolFailure(s, ev) = "",
         ~IsMarker(ev), ~IsError(ev)
  PROVE  Sound(Append(h, ev))
<1> DEFINE g == Append(h, ev)
<1>1. h \in Seq(Events) /\ Sound(h) /\ (s.terminalSeen <=> Indices(h, {"finish"}) # {})
  BY DEF Folded, Noted
<1>2. Extends(h, ev, g)
  BY <1>1, OneMoreEvent
<1>3. /\ ~(s.terminalSeen /\ ev.type \in Content)
      /\ ev.type # "abort"
      /\ ev.type \in {"finish", "finish-step"} => ev.reason # "unknown"
      /\ ev.type \in {"tool-input", "tool-call"} => ev.id # NoId
  <2>1. ProtocolFailure(s, ev) = ""
    OBVIOUS
  <2> HIDE DEF g
  <2> QED  BY ONLY <2>1, Accepted
<1> HIDE DEF g
<1>4. \A types : Grows(h, ev, g, types)
  BY <1>2, PlacesAfter
<1>5. Indices(g, {"abort", "error", "marker"}) = {}
  <2>1. ev.type \notin {"abort", "error", "marker"}
    BY <1>3 DEF IsMarker, IsError
  <2>2. Grows(h, ev, g, {"abort", "error", "marker"})
    BY <1>4
  <2> QED  BY <1>1, <2>1, <2>2 DEF Sound, Grows
<1>6. \A i \in Indices(g, {"tool-call", "tool-input"}) : g[i].id # NoId
  <2>1. Grows(h, ev, g, {"tool-call", "tool-input"})
    BY <1>4
  <2> QED  BY <1>1, <1>3, <2>1 DEF Sound, Grows
<1>7. \A i \in Indices(g, {"finish", "finish-step"}) : g[i].reason # "unknown"
  <2>1. Grows(h, ev, g, {"finish", "finish-step"})
    BY <1>4
  <2> QED  BY <1>1, <1>3, <2>1 DEF Sound, Grows
<1>8. \A i \in Indices(g, Content), j \in Indices(g, {"finish"}) : i < j
  <2>1. ev.type \in Content => ev.type # "finish" /\ Indices(h, {"finish"}) = {}
    BY <1>1, <1>3 DEF Content
  <2>2. \A i \in Indices(h, Content), j \in Indices(h, {"finish"}) : i < j
    BY <1>1 DEF Sound
  <2>3. Grows(h, ev, g, Content) /\ Grows(h, ev, g, {"finish"})
    BY <1>4
  <2> QED  BY <2>1, <2>2, <2>3 DEF Grows
<1> QED  BY <1>5, <1>6, <1>7, <1>8 DEF Sound, g

LEMMA NotedStep ==
  ASSUME NEW h, NEW s, Folded(h, s), NEW ev \in Events
  PROVE  Noted(Append(h, ev), Absorb(s, ev))
<1> DEFINE g == Append(h, ev)  t == Absorb(s, ev)
<1>1. h \in Seq(Events) /\ Noted(h, s)
  BY DEF Folded
<1>2. Extends(h, ev, g)
  BY <1>1, OneMoreEvent
<1>3. /\ t.terminalSeen = (s.terminalSeen \/ ev.type = "finish")
      /\ t.hasText = (s.hasText \/ ev.type = "text")
      /\ t.hasTool = (s.hasTool \/ ev.type = "tool-call")
      /\ t.pendingTools = Pending(s, ev)
  BY DEF Absorb
<1> HIDE DEF g, t
<1>4. t.terminalSeen <=> Indices(g, {"finish"}) # {}
  <2>1. Grows(h, ev, g, {"finish"})
    BY <1>2, PlacesAfter
  <2> QED  BY <1>1, <1>3, <2>1 DEF Noted, Grows
<1>5. t.hasText <=> Indices(g, {"text"}) # {}
  <2>1. Grows(h, ev, g, {"text"})
    BY <1>2, PlacesAfter
  <2> QED  BY <1>1, <1>3, <2>1 DEF Noted, Grows
<1>6. t.hasTool <=> Indices(g, {"tool-call"}) # {}
  <2>1. Grows(h, ev, g, {"tool-call"})
    BY <1>2, PlacesAfter
  <2> QED  BY <1>1, <1>3, <2>1 DEF Noted, Grows
<1>7. ASSUME NEW id
      PROVE  id \in t.pendingTools <=> \E i \in Indices(g, {"tool-input"}) : g[i].id = id /\ Open(g, i)
  <2>1. id \in s.pendingTools <=> \E i \in Indices(h, {"tool-input"}) : h[i].id = id /\ Open(h, i)
    BY <1>1 DEF Noted
  <2>2. CASE ev.type = "tool-input"
    <3>1. t.pendingTools = s.pendingTools \cup {ev.id}
      BY <1>3, <2>2 DEF Pending
    <3>2. \A i \in DOMAIN h : Open(g, i) <=> Open(h, i)
      BY <1>2, <2>2 DEF Open, Extends
    <3>3. Open(g, Len(h) + 1)
      BY <1>2, <2>2 DEF Open, Extends
    <3>4. Indices(g, {"tool-input"}) = Indices(h, {"tool-input"}) \cup {Len(h) + 1}
      BY <1>2, <2>2 DEF Extends
    <3> QED  BY <1>2, <2>1, <3>1, <3>2, <3>3, <3>4 DEF Extends
  <2>3. CASE ev.type = "tool-call"
    <3>1. t.pendingTools = s.pendingTools \ {ev.id}
      BY <1>3, <2>3 DEF Pending
    <3>2. \A i \in DOMAIN h : Open(g, i) <=> Open(h, i) /\ h[i].id # ev.id
      BY <1>2, <2>3 DEF Open, Extends
    <3>3. Indices(g, {"tool-input"}) = Indices(h, {"tool-input"})
      BY <1>2, <2>3 DEF Extends
    <3> QED  BY <1>2, <2>1, <3>1, <3>2, <3>3 DEF Extends
  <2>4. CASE ev.type \notin {"tool-input", "tool-call"}
    <3>1. t.pendingTools = s.pendingTools
      BY <1>3, <2>4 DEF Pending
    <3>2. \A i \in DOMAIN h : Open(g, i) <=> Open(h, i)
      BY <1>2, <2>4 DEF Open, Extends
    <3>3. Indices(g, {"tool-input"}) = Indices(h, {"tool-input"})
      BY <1>2, <2>4 DEF Extends
    <3> QED  BY <1>2, <2>1, <3>1, <3>2, <3>3 DEF Extends
  <2> QED  BY <2>2, <2>3, <2>4
<1> QED  BY <1>4, <1>5, <1>6, <1>7 DEF Noted, g, t

\* The place after the last, in numbers.
LEMMA NextPlace ==
  ASSUME NEW m \in Nat
  PROVE  /\ m + 1 \in Nat /\ m + 1 <= m + 1 /\ m + 1 < m + 2
         /\ \A i \in Nat : i < m + 1 => i <= m + 1 /\ i < m + 2 /\ ~(m + 1 < i)
  OBVIOUS

\* The explicit steps before a place of the shorter sequence stay; one may come at its end.
LEMMA StepsAfter ==
  ASSUME NEW h, NEW ev, NEW g, Extends(h, ev, g)
  PROVE  /\ \A n \in Nat : n < Len(h) + 2 => StepsBefore(g, n) = StepsBefore(h, n)
         /\ StepsBefore(g, Len(g) + 1) =
              IF ev.type = "finish-step" /\ Explicit(ev)
              THEN StepsBefore(h, Len(h) + 1) \cup {Len(h) + 1} ELSE StepsBefore(h, Len(h) + 1)
         /\ \A n : \A i \in StepsBefore(h, n) : g[i] = h[i] /\ i \in Nat /\ i < Len(h) + 1
<1>1. Grows(h, ev, g, {"finish-step"})
  BY PlacesAfter
<1>2. Len(h) \in Nat /\ Len(g) = Len(h) + 1
  BY DEF Extends
<1>3. \A n \in Nat : n < Len(h) + 2 => StepsBefore(g, n) = StepsBefore(h, n)
  BY <1>1, <1>2 DEF Grows, StepsBefore
<1>4. StepsBefore(g, Len(g) + 1) =
        IF ev.type = "finish-step" /\ Explicit(ev)
        THEN StepsBefore(h, Len(h) + 1) \cup {Len(h) + 1} ELSE StepsBefore(h, Len(h) + 1)
  BY <1>1, <1>2 DEF Grows, StepsBefore
<1>5. \A n : \A i \in StepsBefore(h, n) : g[i] = h[i] /\ i \in Nat /\ i < Len(h) + 1
  BY <1>1 DEF Grows, StepsBefore
<1> QED  BY <1>3, <1>4, <1>5

\* No later event changes it.
LEMMA ReasonStays ==
  ASSUME NEW h, NEW ev, NEW g, Extends(h, ev, g), NEW s, NEW f, ReasonAt(h, s, f)
  PROVE  ReasonAt(g, s, f)
<1>1. Grows(h, ev, g, {"finish"}) /\ Len(h) \in Nat
  BY PlacesAfter DEF Extends
<1>2. /\ \A n \in Nat : n < Len(h) + 2 => StepsBefore(g, n) = StepsBefore(h, n)
      /\ \A n : \A i \in StepsBefore(h, n) : g[i] = h[i] /\ i \in Nat /\ i < Len(h) + 1
  BY StepsAfter
<1>3. f \in Nat /\ f < Len(h) + 1 /\ g[f] = h[f]
  BY <1>1 DEF ReasonAt, IsFirst, Grows
<1>4. f <= Len(h) + 1 /\ f < Len(h) + 2
  BY <1>1, <1>3, NextPlace
<1>5. IsFirst(f, Indices(g, {"finish"}))
  <2>1. /\ Indices(g, {"finish"}) \subseteq Indices(h, {"finish"}) \cup {Len(h) + 1}
        /\ f \in Indices(g, {"finish"})
    BY <1>1 DEF ReasonAt, IsFirst, Grows
  <2> QED  BY <1>4, <2>1 DEF ReasonAt, IsFirst
<1>6. StepsBefore(g, f) = StepsBefore(h, f)
  BY <1>2, <1>3, <1>4
<1>7. \A i : IsLast(i, StepsBefore(h, f)) => g[i] = h[i]
  BY <1>2 DEF IsLast
<1> QED  BY <1>3, <1>5, <1>6, <1>7 DEF ReasonAt

LEMMA ReasonStep ==
  ASSUME NEW h, NEW s, Folded(h, s), NEW ev \in Events, ProtocolFailure(s, ev) = ""
  PROVE  IF Absorb(s, ev).terminalSeen THEN ClosedReason(Append(h, ev), Absorb(s, ev))
         ELSE OpenReason(Append(h, ev), Absorb(s, ev))
<1> DEFINE g == Append(h, ev)  t == Absorb(s, ev)
<1>1. h \in Seq(Events) /\ Sound(h) /\ (s.terminalSeen <=> Indices(h, {"finish"}) # {})
  BY DEF Folded, Noted
<1>2. Extends(h, ev, g)
  BY <1>1, OneMoreEvent
<1>3. t.terminalSeen = (s.terminalSeen \/ ev.type = "finish") /\ t.reason = AbsorbReason(s, ev)
  BY DEF Absorb
<1>4. /\ ~(s.terminalSeen /\ ev.type \in Content) /\ ev.type # "abort"
      /\ ev.type \in {"finish", "finish-step"} => ev.reason # "unknown"
      /\ ev.type = "finish" => s.pendingTools = {}
      /\ ev.type = "finish" /\ s.terminalSeen /\ Explicit(ev) => FinishReason(ev) = s.reason
      /\ ev.type \in {"tool-input", "tool-call"} => ev.id # NoId
  BY Accepted
<1>5. ev.type \in {"finish", "finish-step"} => FinishReason(ev) # ""
  BY <1>4, NoReason
<1>6. /\ \A n \in Nat : n < Len(h) + 2 => StepsBefore(g, n) = StepsBefore(h, n)
      /\ StepsBefore(g, Len(g) + 1) =
           IF ev.type = "finish-step" /\ Explicit(ev)
           THEN StepsBefore(h, Len(h) + 1) \cup {Len(h) + 1} ELSE StepsBefore(h, Len(h) + 1)
      /\ \A n : \A i \in StepsBefore(h, n) : g[i] = h[i] /\ i \in Nat /\ i < Len(h) + 1
  BY <1>2, StepsAfter
<1>7. Grows(h, ev, g, {"finish"})
  BY <1>2, PlacesAfter
<1>8. Len(h) \in Nat /\ g[Len(h) + 1] = ev
  BY <1>2 DEF Extends
<1> DEFINE n == Len(h) + 1
<1> HIDE DEF g, t
<1>9. CASE ~s.terminalSeen /\ ev.type # "finish"
  <2>1. ~t.terminalSeen
    BY <1>3, <1>9
  <2>2. OpenReason(h, s)
    BY <1>9 DEF Folded
  <2>3. CASE ev.type = "finish-step" /\ Explicit(ev)
    <3>1. t.reason = FinishReason(ev) /\ t.reason # ""
      BY <1>3, <1>5, <1>9, <2>3 DEF AbsorbReason
    <3>2. IsLast(n, StepsBefore(g, Len(g) + 1))
      <4>1. StepsBefore(g, Len(g) + 1) = StepsBefore(h, n) \cup {n}
        BY <1>6, <2>3
      <4>2. \A i \in StepsBefore(h, n) : i <= n
        BY <1>6, <1>8, NextPlace
      <4>3. n <= n
        BY <1>8, NextPlace
      <4> HIDE DEF n
      <4> QED  BY <4>1, <4>2, <4>3 DEF IsLast
    <3> QED  BY <2>1, <3>1, <3>2, <1>8 DEF OpenReason, g, t
  <2>4. CASE ~(ev.type = "finish-step" /\ Explicit(ev))
    <3>1. t.reason = s.reason
      BY <1>3, <1>9, <2>4 DEF AbsorbReason
    <3>2. StepsBefore(g, Len(g) + 1) = StepsBefore(h, Len(h) + 1)
      BY <1>6, <2>4
    <3>3. \A i : IsLast(i, StepsBefore(h, Len(h) + 1)) => g[i] = h[i]
      BY <1>6 DEF IsLast
    <3>4. OpenReason(g, t)
      BY <2>2, <3>1, <3>2, <3>3 DEF OpenReason
    <3> QED  BY <2>1, <3>4 DEF g, t
  <2> QED  BY <2>3, <2>4
<1>10. CASE ~s.terminalSeen /\ ev.type = "finish"
  <2>1. t.terminalSeen
    BY <1>3, <1>10
  <2>2. OpenReason(h, s)
    BY <1>10 DEF Folded
  <2>3. Indices(g, {"finish"}) = {n}
    BY <1>1, <1>7, <1>10 DEF Grows
  <2>4. IsFirst(n, Indices(g, {"finish"})) /\ g[n] = ev
    <3>1. n <= n /\ g[n] = ev
      BY <1>8, NextPlace
    <3> HIDE DEF n
    <3> QED  BY <2>3, <3>1 DEF IsFirst
  <2>5. StepsBefore(g, n) = StepsBefore(h, n)
    <3>1. n \in Nat /\ n < Len(h) + 2
      BY <1>8, NextPlace
    <3> QED  BY <1>6, <3>1
  <2>6. CASE Explicit(ev) \/ s.reason = ""
    <3>1. t.reason = FinishReason(ev) /\ t.reason # ""
      BY <1>3, <1>5, <1>10, <2>6 DEF AbsorbReason
    <3>2. Explicit(ev) \/ StepsBefore(g, n) = {}
      BY <2>2, <2>5, <2>6 DEF OpenReason
    <3>3. ClosedReason(g, t)
      BY <2>3, <2>4, <3>1, <3>2 DEF ClosedReason, ReasonAt
    <3> QED  BY <2>1, <3>3 DEF g, t
  <2>7. CASE ~Explicit(ev) /\ s.reason # ""
    <3>1. t.reason = s.reason
      BY <1>3, <1>10, <2>7 DEF AbsorbReason
    <3>2. PICK i : IsLast(i, StepsBefore(h, n)) /\ s.reason = FinishReason(h[i])
      BY <2>2, <2>7 DEF OpenReason
    <3>3. g[i] = h[i]
      BY <3>2, <1>6 DEF IsLast
    <3>4. IsLast(i, StepsBefore(g, n)) /\ t.reason = FinishReason(g[i])
      BY <3>1, <3>2, <3>3, <2>5
    <3>5. ClosedReason(g, t)
      BY <2>3, <2>4, <2>7, <3>1, <3>4 DEF ClosedReason, ReasonAt
    <3> QED  BY <2>1, <3>5 DEF g, t
  <2> QED  BY <2>6, <2>7
<1>11. CASE s.terminalSeen
  <2>1. t.terminalSeen
    BY <1>3, <1>11
  <2>2. ClosedReason(h, s)
    BY <1>11 DEF Folded
  <2>3. t.reason = s.reason
    <3>1. s.reason # ""
      BY <2>2 DEF ClosedReason
    <3> QED  BY <1>3, <1>4, <1>11, <3>1 DEF AbsorbReason
  <2>4. \A i \in Indices(g, {"finish"}) : Explicit(g[i]) => FinishReason(g[i]) = t.reason
    <3>1. \A i \in Indices(h, {"finish"}) : Explicit(h[i]) => FinishReason(h[i]) = s.reason
      BY <2>2 DEF ClosedReason
    <3> QED  BY <1>4, <1>7, <1>11, <2>3, <3>1 DEF Grows
  <2>5. PICK f : ReasonAt(h, s, f)
    BY <2>2 DEF ClosedReason
  <2>6. ReasonAt(g, s, f)
    BY <1>2, <2>5, ReasonStays
  <2>7. ReasonAt(g, t, f)
    BY <2>3, <2>6 DEF ReasonAt
  <2>8. t.reason # ""
    BY <2>2, <2>3 DEF ClosedReason
  <2>9. ClosedReason(g, t)
    BY <2>4, <2>7, <2>8 DEF ClosedReason
  <2> QED  BY <2>1, <2>9 DEF g, t
<1> QED  BY <1>9, <1>10, <1>11

LEMMA FoldedStep ==
  ASSUME NEW h, NEW s, Folded(h, s), NEW ev \in Events, ProtocolFailure(s, ev) = "",
         ~IsMarker(ev), ~IsError(ev)
  PROVE  Folded(Append(h, ev), Absorb(s, ev))
<1>1. h \in Seq(Events)
  BY DEF Folded
<1>2. Append(h, ev) \in Seq(Events)
  BY <1>1, OneMoreEvent DEF Extends
<1> QED  BY <1>2, SoundStep, NotedStep, ReasonStep DEF Folded

-----------------------------------------------------------------------------
(* Which responses are complete. *)

\* A response whose last event is not accepted is not one.
LEMMA RejectedIsIncomplete ==
  ASSUME NEW h, NEW s, Folded(h, s), NEW ev \in Events,
         ProtocolFailure(s, ev) # "" \/ IsMarker(ev) \/ IsError(ev)
  PROVE  ~WellFormed(Append(h, ev))
<1> DEFINE g == Append(h, ev)
<1>1. h \in Seq(Events) /\ Noted(h, s) /\ (s.terminalSeen => ClosedReason(h, s))
  BY DEF Folded
<1>2. Extends(h, ev, g)
  BY <1>1, OneMoreEvent
<1>3. \A types : Grows(h, ev, g, types)
  BY <1>2, PlacesAfter
<1>4. Len(h) \in Nat /\ g[Len(h) + 1] = ev
  BY <1>2 DEF Extends
<1> HIDE DEF g
<1>5. \A types : ev.type \in types => Len(h) + 1 \in Indices(g, types)
  BY <1>3 DEF Grows
<1> SUFFICES ASSUME WellFormed(g) PROVE FALSE
  BY DEF g
<1>6. CASE IsMarker(ev) \/ IsError(ev) \/ ev.type = "abort"
  <2>1. Len(h) + 1 \in Indices(g, {"abort", "error", "marker"})
    BY <1>5, <1>6 DEF IsMarker, IsError
  <2> QED  BY <2>1 DEF WellFormed
<1>7. CASE s.terminalSeen /\ ev.type \in Content
  <2>1. PICK j : j \in Indices(h, {"finish"})
    BY <1>1, <1>7 DEF Noted
  <2>2. j \in Indices(g, {"finish"}) /\ j \in Nat /\ j < Len(h) + 1
    BY <1>3, <2>1 DEF Grows
  <2>3. Len(h) + 1 \in Indices(g, Content)
    BY <1>5, <1>7
  <2>4. Len(h) + 1 < j
    BY <2>2, <2>3 DEF WellFormed
  <2> QED  BY <1>4, <2>2, <2>4, NextPlace
<1>8. CASE ev.type \in {"finish", "finish-step"} /\ ev.reason = "unknown"
  <2>1. Len(h) + 1 \in Indices(g, {"finish", "finish-step"})
    BY <1>5, <1>8
  <2> QED  BY <1>4, <1>8, <2>1 DEF WellFormed
<1>9. CASE ev.type = "finish" /\ s.pendingTools # {}
  <2>1. PICK id : id \in s.pendingTools
    BY <1>9
  <2>2. PICK i \in Indices(h, {"tool-input"}) : h[i].id = id /\ Open(h, i)
    BY <1>1, <2>1 DEF Noted
  <2>3. i \in Indices(g, {"tool-input"}) /\ g[i] = h[i]
    BY <1>3, <1>9, <2>2 DEF Grows
  <2>4. PICK j \in Indices(g, {"tool-call"}) : i < j /\ g[j].id = g[i].id
    BY <2>3 DEF WellFormed
  <2>5. j \in Indices(h, {"tool-call"}) /\ g[j] = h[j]
    BY <1>3, <1>9, <2>4 DEF Grows
  <2> QED  BY <2>2, <2>3, <2>4, <2>5 DEF Open
<1>10. CASE ev.type = "finish" /\ s.terminalSeen /\ Explicit(ev) /\ FinishReason(ev) # s.reason
  <2>1. Len(h) + 1 \in Indices(g, {"finish"}) /\ Len(h) + 1 \in Indices(g, {"finish", "finish-step"})
    BY <1>5, <1>10
  <2>2. ev.reason # "unknown" /\ ev.reason = EndReason(g)
    BY <1>4, <1>10, <2>1 DEF WellFormed
  <2>3. EndReason(g) = s.reason
    <3>1. PICK f : ReasonAt(h, s, f)
      BY <1>1, <1>10 DEF ClosedReason
    <3>2. ReasonAt(g, s, f)
      BY <1>2, <3>1, ReasonStays
    <3>3. g \in Seq(Events)
      BY <1>2 DEF Extends
    <3> QED  BY <3>2, <3>3, ReasonIs
  <2> QED  BY <1>10, <2>2, <2>3, NoReason
<1>11. CASE ev.type \in {"tool-input", "tool-call"} /\ ev.id = NoId
  <2>1. Len(h) + 1 \in Indices(g, {"tool-call", "tool-input"})
    BY <1>5, <1>11
  <2> QED  BY <1>4, <1>11, <2>1 DEF WellFormed
<1> QED  BY <1>6, <1>7, <1>8, <1>9, <1>10, <1>11, Rejected

\* A response without its finish is not one either.
LEMMA TruncatedIsIncomplete ==
  ASSUME NEW h, NEW s, Folded(h, s), ~s.terminalSeen
  PROVE  ~WellFormed(h)
<1>1. Noted(h, s)
  BY DEF Folded
<1>2. Indices(h, {"finish"}) = {}
  BY <1>1 DEF Noted
<1> QED  BY <1>2 DEF WellFormed

\* What completionFailure asks of the state is what is left to ask of the events.
LEMMA CompletionDecides ==
  ASSUME NEW h, NEW s, Folded(h, s), s.terminalSeen
  PROVE  WellFormed(h) <=> CompletionFailure(s) = ""
<1>1. h \in Seq(Events) /\ Sound(h) /\ Noted(h, s)
  BY DEF Folded
<1>2. ClosedReason(h, s)
  BY DEF Folded
<1>3. EndReason(h) = s.reason
  <2>1. PICK f : ReasonAt(h, s, f)
    BY <1>2 DEF ClosedReason
  <2> QED  BY <1>1, <2>1, ReasonIs
<1>4. CompletionFailure(s) = "" <=>
        /\ s.pendingTools = {}
        /\ s.reason = "tool_calls" => s.hasTool
        /\ s.hasText \/ s.hasTool \/ CutShort(s.reason)
  BY DEF CompletionFailure
<1>5. s.pendingTools = {} <=>
        \A i \in Indices(h, {"tool-input"}) :
          \E j \in Indices(h, {"tool-call"}) : i < j /\ h[j].id = h[i].id
  <2>1. s.pendingTools = {} <=> \A i \in Indices(h, {"tool-input"}) : ~Open(h, i)
    BY <1>1 DEF Noted
  <2> QED  BY <2>1 DEF Open
<1>6. s.hasTool <=> Indices(h, {"tool-call"}) # {}
  BY <1>1 DEF Noted
<1>7. s.hasText \/ s.hasTool <=> Indices(h, {"text", "tool-call"}) # {}
  <2>1. Indices(h, {"text", "tool-call"}) = Indices(h, {"text"}) \cup Indices(h, {"tool-call"})
    BY DEF Indices
  <2> QED  BY <1>1, <2>1 DEF Noted
<1>8. Indices(h, {"finish"}) # {}
  BY <1>1 DEF Noted
<1>9. \A i \in Indices(h, {"finish"}) : Explicit(h[i]) => h[i].reason = EndReason(h)
  <2>1. \A i \in Indices(h, {"finish"}) : i \in Indices(h, {"finish", "finish-step"})
    BY DEF Indices
  <2>2. \A i \in Indices(h, {"finish"}) : h[i].reason # "unknown"
    BY <1>1, <2>1 DEF Sound
  <2> QED  BY <1>2, <1>3, <2>2, NoReason DEF ClosedReason
<1>10. WellFormed(h) <=>
         /\ s.pendingTools = {}
         /\ s.reason = "tool_calls" => Indices(h, {"tool-call"}) # {}
         /\ Indices(h, {"text", "tool-call"}) # {} \/ CutShort(s.reason)
  BY <1>1, <1>3, <1>5, <1>8, <1>9 DEF WellFormed, Sound
<1> QED  BY <1>4, <1>6, <1>7, <1>10

-----------------------------------------------------------------------------
(* The state of the handler is known until it is done. *)

Known ==
  pc # "done" =>
    /\ Folded(history, st)
    /\ pc = "new" => history = <<>>

CompleteInv == IInv /\ Known /\ SuccessIsComplete

LEMMA EmptyFolded == Folded(<<>>, NewState) /\ ~WellFormed(<<>>)
<1>1. <<>> \in Seq(Events) /\ Len(<<>>) = 0
  OBVIOUS
<1>2. \A types : Indices(<<>>, types) = {}
  BY DEF Indices
<1>3. Sound(<<>>) /\ ~WellFormed(<<>>)
  BY <1>2 DEF Sound, WellFormed
<1>4. Noted(<<>>, NewState)
  BY <1>2 DEF Noted, NewState
<1>5. OpenReason(<<>>, NewState)
  BY <1>2 DEF OpenReason, StepsBefore, NewState
<1> QED  BY <1>1, <1>3, <1>4, <1>5 DEF Folded, NewState

\* The results that say nothing of the events.
ReadFaults ==
  {"ok", "empty_response", "canceled", "timeout", "upstream_connection_error",
   "upstream_malformed_event"}

\* Without a success, the events were incomplete or it was the read that failed.
LEMMA NoSuccess ==
  ASSUME pc' = "done", reply' # "success",
         recorded' = <<>> \/ ~WellFormed(history') \/ recorded'[1] \in ReadFaults
  PROVE  (Known /\ SuccessIsComplete)'
  BY DEF Known, SuccessIsComplete, ReadFaults

\* A failure that is reported is not a success, and nothing else is recorded.
LEMMA ReportSays ==
  ASSUME IInv, pc # "done", NEW result, Report(result) \/ (SayFailure /\ Record(result))
  PROVE  /\ reply' # "success"
         /\ recorded' = <<>> \/ recorded'[1] = result
<1>1. recorded = <<>> /\ reply = "none"
  BY DEF IInv, Undecided
<1>2. CASE SayFailure /\ Record(result)
  BY <1>1, <1>2, FirstRecord DEF SayFailure
<1>3. CASE Silent
  BY <1>1, <1>3 DEF Silent
<1> QED  BY <1>2, <1>3 DEF Report

LEMMA ReadFailureSays ==
  ASSUME IInv, pc # "done", NEW kind \in ReadErrors, ReadFailure(kind)
  PROVE  /\ reply' # "success"
         /\ recorded' = <<>> \/ recorded'[1] \in ReadFaults
<1>1. recorded = <<>> /\ reply = "none"
  BY DEF IInv, Undecided
<1>2. CASE gone
  <2>1. Record("canceled") /\ reply' = "none"
    BY <1>1, <1>2 DEF ReadFailure
  <2> QED  BY <1>1, <2>1, FirstRecord DEF ReadFaults
<1>3. CASE ~gone /\ kind = "malformed"
  <2>1. Report("upstream_malformed_event")
    BY <1>3 DEF ReadFailure
  <2> QED  BY <2>1, ReportSays DEF ReadFaults
<1>4. CASE ~gone /\ kind # "malformed"
  <2>1. SayFailure /\ Record(kind) /\ kind \in ReadFaults
    BY <1>4 DEF ReadFailure, ReadErrors, ReadFaults
  <2> QED  BY <2>1, ReportSays
<1> QED  BY <1>2, <1>3, <1>4

LEMMA CompleteInit == Init => CompleteInv
<1> SUFFICES ASSUME Init PROVE CompleteInv
  OBVIOUS
<1>1. IInv
  BY InitInvariant
<1>2. Known
  BY EmptyFolded DEF Init, Known
<1>3. SuccessIsComplete
  BY DEF Init, SuccessIsComplete
<1> QED  BY <1>1, <1>2, <1>3 DEF CompleteInv

LEMMA CompleteBefore ==
  ASSUME CompleteInv, Leave \/ Reject \/ Connect
  PROVE  (Known /\ SuccessIsComplete)'
<1>1. CASE Leave
  BY <1>1 DEF CompleteInv, Leave, Known, SuccessIsComplete
<1>2. CASE Reject
  <2>1. recorded' = <<>> /\ reply' # "success" /\ pc' = "done"
    BY <1>2 DEF CompleteInv, IInv, Undecided, Reject
  <2> QED  BY <2>1, NoSuccess
<1>3. CASE Connect
  BY <1>3 DEF CompleteInv, IInv, Undecided, Connect, Known, SuccessIsComplete
<1> QED  BY <1>1, <1>2, <1>3

LEMMA CompleteRefused ==
  ASSUME CompleteInv, NEW kind \in {"upstream", "timeout", "upstream_connection_error"},
         Refused(kind)
  PROVE  (Known /\ SuccessIsComplete)'
<1>1. pc = "new" /\ pc' = "done" /\ history' = <<>> /\ IInv
  BY DEF CompleteInv, Known, Refused
<1>2. reply' # "success"
  <2>1. CASE kind = "upstream" /\ ~gone
    BY <1>1, <2>1, ReportSays DEF Refused
  <2>2. CASE kind # "upstream"
    <3>1. kind \in ReadErrors /\ ReadFailure(kind)
      BY <2>2 DEF Refused, ReadErrors
    <3> QED  BY <1>1, <3>1, ReadFailureSays
  <2>3. CASE kind = "upstream" /\ gone
    BY <1>1, <2>3 DEF Refused, ReadFailure, IInv, Undecided
  <2> QED  BY <2>1, <2>2, <2>3
<1> QED  BY <1>1, <1>2, EmptyFolded, NoSuccess

LEMMA CompleteEvent ==
  ASSUME CompleteInv, NEW ev \in Events, InBandError(ev) \/ Violate(ev) \/ Accept(ev)
  PROVE  (Known /\ SuccessIsComplete)'
<1>1. pc = "reading" /\ Folded(history, st) /\ history' = Append(history, ev) /\ IInv
  BY DEF CompleteInv, Known, InBandError, Violate, Accept, Take
<1>2. CASE InBandError(ev)
  <2>1. ~WellFormed(history')
    BY <1>1, <1>2, RejectedIsIncomplete DEF InBandError
  <2>2. reply' # "success" /\ pc' = "done"
    BY <1>1, <1>2, ReportSays DEF InBandError
  <2> QED  BY <2>1, <2>2, NoSuccess
<1>3. CASE Violate(ev)
  <2>1. ~WellFormed(history')
    BY <1>1, <1>3, RejectedIsIncomplete DEF Violate
  <2>2. reply' # "success" /\ pc' = "done"
    BY <1>1, <1>3, ReportSays DEF Violate
  <2> QED  BY <2>1, <2>2, NoSuccess
<1>4. CASE Accept(ev)
  <2>1. Folded(history', st') /\ pc' = "reading" /\ reply' = "none"
    BY <1>1, <1>4, FoldedStep DEF Accept, IInv, Undecided
  <2> QED  BY <2>1 DEF Known, SuccessIsComplete
<1> QED  BY <1>2, <1>3, <1>4

LEMMA CompleteEnd ==
  ASSUME CompleteInv, Truncated \/ Incomplete \/ EmptyAnswer \/ Complete
  PROVE  (Known /\ SuccessIsComplete)'
<1>1. pc = "reading" /\ pc' = "done" /\ Folded(history, st) /\ history' = history /\ IInv
  BY DEF CompleteInv, Known, Truncated, Incomplete, EmptyAnswer, Complete, AtEnd
<1>2. CASE Truncated
  <2>1. ~WellFormed(history')
    BY <1>1, <1>2, TruncatedIsIncomplete DEF Truncated
  <2>2. reply' # "success"
    BY <1>1, <1>2, ReportSays DEF Truncated
  <2> QED  BY <1>1, <2>1, <2>2, NoSuccess
<1>3. CASE Incomplete
  <2>1. ~WellFormed(history')
    BY <1>1, <1>3, CompletionDecides DEF Incomplete
  <2>2. reply' # "success"
    BY <1>1, <1>3, ReportSays DEF Incomplete
  <2> QED  BY <1>1, <2>1, <2>2, NoSuccess
<1>4. CASE EmptyAnswer
  <2>1. reply' # "success" /\ (recorded' = <<>> \/ recorded'[1] = "empty_response")
    BY <1>1, <1>4, ReportSays DEF EmptyAnswer
  <2> QED  BY <1>1, <2>1, NoSuccess DEF ReadFaults
<1>5. CASE Complete
  <2>1. WellFormed(history')
    BY <1>1, <1>5, CompletionDecides DEF Complete
  <2>2. recorded' = <<"ok">> /\ recorded'[1] = "ok"
    BY <1>1, <1>5, FirstRecord DEF Complete, Success, IInv, Undecided
  <2> QED  BY <1>1, <2>1, <2>2 DEF Known, SuccessIsComplete
<1> QED  BY <1>2, <1>3, <1>4, <1>5

LEMMA CompleteNext == CompleteInv /\ [Next]_vars => CompleteInv'
<1> SUFFICES ASSUME CompleteInv, [Next]_vars PROVE CompleteInv'
  OBVIOUS
<1>1. IInv'
  BY NextInvariant DEF CompleteInv
<1> SUFFICES (Known /\ SuccessIsComplete)'
  BY <1>1 DEF CompleteInv
<1>2. CASE Leave \/ Reject \/ Connect  BY <1>2, CompleteBefore
<1>3. CASE \E kind \in {"upstream", "timeout", "upstream_connection_error"} : Refused(kind)
  BY <1>3, CompleteRefused
<1>4. CASE \E ev \in Events : InBandError(ev) \/ Violate(ev) \/ Accept(ev)
  BY <1>4, CompleteEvent
<1>5. CASE \E kind \in ReadErrors : Break(kind)
  <2> PICK kind \in ReadErrors : Break(kind)
    BY <1>5
  <2>1. pc # "done" /\ pc' = "done" /\ ReadFailure(kind) /\ IInv
    BY DEF Break, CompleteInv
  <2> QED  BY <2>1, ReadFailureSays, NoSuccess
<1>6. CASE Truncated \/ Incomplete \/ EmptyAnswer \/ Complete
  BY <1>6, CompleteEnd
<1>7. CASE Done \/ UNCHANGED vars
  BY <1>7 DEF Done, vars, CompleteInv, Known, SuccessIsComplete
<1> QED  BY <1>2, <1>3, <1>4, <1>5, <1>6, <1>7 DEF Next

\* A success is a complete response, and a complete response fails only when the read
\* does or it is empty: for any events and responses of any length (absorb,
\* protocolFailure, completionFailure and the ways a stream ends).
THEOREM SuccessIsCompleteAlways == Spec => []SuccessIsComplete
<1>1. CompleteInv => SuccessIsComplete  BY DEF CompleteInv
<1> QED  BY <1>1, CompleteInit, CompleteNext, PTL DEF Spec

-----------------------------------------------------------------------------
(* The accounts of a response. *)

\* The places of the reports that count.
UsageAt(h) == {i \in Indices(h, {"finish-step", "finish"}) : h[i].usage.given}
CountAt(h) == {i \in Indices(h, {"cache-write"}) : h[i].cost # NoCost}
CostAt(h)  == {i \in Indices(h, {"finish-step", "metadata"}) : h[i].cost > 0}

\* The state has kept the last report of each kind.
KeepsUsage(h, s) ==
  \/ UsageAt(h) = {} /\ s.usage = NoUsage
  \/ \E i : IsLast(i, UsageAt(h)) /\ s.usage = h[i].usage

KeepsCount(h, s) ==
  \/ CountAt(h) = {} /\ s.captured = NoCost
  \/ \E i : IsLast(i, CountAt(h)) /\ s.captured = h[i].cost

KeepsCost(h, s) ==
  \/ CostAt(h) = {} /\ s.cost = 0
  \/ \E i : IsLast(i, CostAt(h)) /\ s.cost = h[i].cost

Ledger(h, s) ==
  /\ h \in Seq(Events) /\ {"usage", "cost", "reason"} \subseteq DOMAIN s
  /\ KeepsUsage(h, s) /\ KeepsCount(h, s) /\ KeepsCost(h, s)

\* A place at the end is the last; without one, the last stays.
LEMMA LastAdded ==
  ASSUME NEW n, n \in Nat, NEW S, \A i \in S : i \in Nat /\ i < n + 1
  PROVE  IsLast(n + 1, S \cup {n + 1})
<1>1. n + 1 <= n + 1 /\ \A i \in S : i <= n + 1
  BY NextPlace
<1> QED  BY <1>1 DEF IsLast

LEMMA LedgerStep ==
  ASSUME NEW h, NEW s, Ledger(h, s), NEW ev \in Events
  PROVE  Ledger(Append(h, ev), Absorb(s, ev))
<1> DEFINE g == Append(h, ev)  t == Absorb(s, ev)
<1>1. Extends(h, ev, g)
  BY OneMoreEvent DEF Ledger
<1>2. g \in Seq(Events) /\ Len(h) \in Nat /\ g[Len(h) + 1] = ev
  BY <1>1 DEF Extends
<1>3. {"usage", "cost", "reason"} \subseteq DOMAIN t
  BY DEF Absorb
<1>4. /\ t.usage = IF ev.type \in {"finish-step", "finish"} /\ ev.usage.given
                    THEN ev.usage ELSE s.usage
      /\ t.captured = IF ev.type = "cache-write" /\ ev.cost # NoCost THEN ev.cost ELSE s.captured
      /\ t.cost = IF ReportsCost(ev) /\ ev.cost > 0 THEN ev.cost ELSE s.cost
  BY DEF Absorb
<1> HIDE DEF g, t
<1>5. KeepsUsage(g, t)
  <2>1. Grows(h, ev, g, {"finish-step", "finish"})
    BY <1>1, PlacesAfter
  <2>2. \A i \in UsageAt(h) : g[i] = h[i] /\ i \in Nat /\ i < Len(h) + 1
    BY <2>1 DEF Grows, UsageAt
  <2>3. CASE ev.type \in {"finish-step", "finish"} /\ ev.usage.given
    <3>1. UsageAt(g) = UsageAt(h) \cup {Len(h) + 1}
      BY <2>1, <2>3 DEF Grows, UsageAt
    <3>2. IsLast(Len(h) + 1, UsageAt(g))
      BY <1>2, <2>2, <3>1, LastAdded
    <3> QED  BY <1>2, <1>4, <2>3, <3>2 DEF KeepsUsage
  <2>4. CASE ~(ev.type \in {"finish-step", "finish"} /\ ev.usage.given)
    <3>1. UsageAt(g) = UsageAt(h)
      BY <2>1, <2>4 DEF Grows, UsageAt
    <3>2. \A i : IsLast(i, UsageAt(h)) => g[i] = h[i]
      BY <2>2 DEF IsLast
    <3> QED  BY <1>4, <2>4, <3>1, <3>2 DEF KeepsUsage, Ledger
  <2> QED  BY <2>3, <2>4
<1>6. KeepsCount(g, t)
  <2>1. Grows(h, ev, g, {"cache-write"})
    BY <1>1, PlacesAfter
  <2>2. \A i \in CountAt(h) : g[i] = h[i] /\ i \in Nat /\ i < Len(h) + 1
    BY <2>1 DEF Grows, CountAt
  <2>3. CASE ev.type = "cache-write" /\ ev.cost # NoCost
    <3>1. CountAt(g) = CountAt(h) \cup {Len(h) + 1}
      BY <2>1, <2>3 DEF Grows, CountAt
    <3>2. IsLast(Len(h) + 1, CountAt(g))
      BY <1>2, <2>2, <3>1, LastAdded
    <3> QED  BY <1>2, <1>4, <2>3, <3>2 DEF KeepsCount
  <2>4. CASE ~(ev.type = "cache-write" /\ ev.cost # NoCost)
    <3>1. CountAt(g) = CountAt(h)
      BY <2>1, <2>4 DEF Grows, CountAt
    <3>2. \A i : IsLast(i, CountAt(h)) => g[i] = h[i]
      BY <2>2 DEF IsLast
    <3> QED  BY <1>4, <2>4, <3>1, <3>2 DEF KeepsCount, Ledger
  <2> QED  BY <2>3, <2>4
<1>7. KeepsCost(g, t)
  <2>1. Grows(h, ev, g, {"finish-step", "metadata"})
    BY <1>1, PlacesAfter
  <2>2. \A i \in CostAt(h) : g[i] = h[i] /\ i \in Nat /\ i < Len(h) + 1
    BY <2>1 DEF Grows, CostAt
  <2>3. ReportsCost(ev) /\ ev.cost > 0 <=> ev.type \in {"finish-step", "metadata"} /\ ev.cost > 0
    <3>1. ev.cost > 0 => ev.cost # NoCost
      BY DEF NoCost
    <3> QED  BY <3>1 DEF ReportsCost
  <2>4. CASE ev.type \in {"finish-step", "metadata"} /\ ev.cost > 0
    <3>1. CostAt(g) = CostAt(h) \cup {Len(h) + 1}
      BY <2>1, <2>4 DEF Grows, CostAt
    <3>2. IsLast(Len(h) + 1, CostAt(g))
      BY <1>2, <2>2, <3>1, LastAdded
    <3> QED  BY <1>2, <1>4, <2>3, <2>4, <3>2 DEF KeepsCost
  <2>5. CASE ~(ev.type \in {"finish-step", "metadata"} /\ ev.cost > 0)
    <3>1. CostAt(g) = CostAt(h)
      BY <2>1, <2>5 DEF Grows, CostAt
    <3>2. \A i : IsLast(i, CostAt(h)) => g[i] = h[i]
      BY <2>2 DEF IsLast
    <3> QED  BY <1>4, <2>3, <2>5, <3>1, <3>2 DEF KeepsCost, Ledger
  <2> QED  BY <2>4, <2>5
<1> QED  BY <1>2, <1>3, <1>5, <1>6, <1>7 DEF Ledger, g, t

\* So what the state has at the end is what the events report.
LEMMA LedgerIsReport ==
  ASSUME NEW h, NEW s, Ledger(h, s)
  PROVE  FinalUsage(s) = ReportedUsage(h) /\ s.cost = ReportedCost(h)
<1>1. \A types : Indices(h, types) \in SUBSET Int
  BY DEF Ledger, Indices
<1>2. /\ UsageAt(h) \in SUBSET Int /\ CountAt(h) \in SUBSET Int /\ CostAt(h) \in SUBSET Int
  BY <1>1 DEF UsageAt, CountAt, CostAt
<1>3. s.usage = IF UsageAt(h) = {} THEN NoUsage ELSE h[Last(UsageAt(h))].usage
  BY <1>2, LastIs DEF Ledger, KeepsUsage, IsLast
<1>4. CountAt(h) = {} => s.captured = NoCost
  BY DEF Ledger, KeepsCount, IsLast
<1>5. CountAt(h) # {} => s.captured # NoCost /\ s.captured = h[Last(CountAt(h))].cost
  <2>1. ASSUME NEW i, IsLast(i, CountAt(h)) PROVE Last(CountAt(h)) = i /\ h[i].cost # NoCost
    BY <1>2, <2>1, LastIs DEF IsLast, CountAt
  <2> QED  BY <2>1 DEF Ledger, KeepsCount
<1>6. s.cost = IF CostAt(h) = {} THEN 0 ELSE h[Last(CostAt(h))].cost
  BY <1>2, LastIs DEF Ledger, KeepsCost, IsLast
<1>7. FinalUsage(s) = ReportedUsage(h)
  BY <1>3, <1>4, <1>5 DEF FinalUsage, ReportedUsage, UsageAt, CountAt
<1> QED  BY <1>6, <1>7 DEF ReportedCost, CostAt

AccountInv ==
  /\ IInv /\ AccountsForTheResponse
  /\ pc # "done" => Ledger(history, st)

LEMMA EmptyLedger == Ledger(<<>>, NewState)
<1>1. <<>> \in Seq(Events) /\ \A types : Indices(<<>>, types) = {}
  BY DEF Indices
<1>2. UsageAt(<<>>) = {} /\ CountAt(<<>>) = {} /\ CostAt(<<>>) = {}
  BY <1>1 DEF UsageAt, CountAt, CostAt
<1>3. NewState.usage = NoUsage /\ NewState.captured = NoCost /\ NewState.cost = 0
        /\ {"usage", "cost", "reason"} \subseteq DOMAIN NewState
  BY DEF NewState
<1> QED  BY <1>1, <1>2, <1>3 DEF Ledger, KeepsUsage, KeepsCount, KeepsCost

LEMMA AccountInit == Init => AccountInv
<1> SUFFICES ASSUME Init PROVE AccountInv
  OBVIOUS
<1>1. IInv
  BY InitInvariant
<1>2. Ledger(history, st)
  BY EmptyLedger DEF Init
<1>3. AccountsForTheResponse
  BY DEF Init, AccountsForTheResponse
<1> QED  BY <1>1, <1>2, <1>3 DEF AccountInv

\* A success is told at the end only.
LEMMA AccountComplete ==
  ASSUME AccountInv, Complete
  PROVE  AccountsForTheResponse'
<1>1. Ledger(history, st)
  BY DEF AccountInv, Complete, AtEnd
<1>2. /\ st' = [st EXCEPT !.usage = FinalUsage(st)] /\ history' = history
      /\ streaming' = streaming /\ ~Empty
  BY DEF Complete, AtEnd, Final
<1> DEFINE u == FinalUsage(st)
<1>3. {"usage", "cost", "reason"} \subseteq DOMAIN st
  BY <1>1 DEF Ledger
<1> HIDE DEF u
<1>4. [st EXCEPT !.usage = u].usage = u /\ [st EXCEPT !.usage = u].cost = st.cost
        /\ [st EXCEPT !.usage = u].reason = st.reason
  BY <1>3
<1>5. st'.usage = FinalUsage(st) /\ st'.cost = st.cost /\ st'.reason = st.reason
  BY <1>2, <1>4 DEF u
<1>6. st'.usage = ReportedUsage(history') /\ st'.cost = ReportedCost(history')
  BY <1>1, <1>2, <1>5, LedgerIsReport
<1>7. ~streaming' => st'.usage.output # 0 \/ CutShort(st'.reason)
  BY <1>2, <1>5 DEF Empty
<1> QED  BY <1>6, <1>7 DEF AccountsForTheResponse

LEMMA AccountNext == AccountInv /\ [Next]_vars => AccountInv'
<1> SUFFICES ASSUME AccountInv, [Next]_vars PROVE AccountInv'
  OBVIOUS
<1>1. IInv /\ IInv'
  BY NextInvariant DEF AccountInv
<1> SUFFICES (AccountsForTheResponse /\ (pc # "done" => Ledger(history, st)))'
  BY <1>1 DEF AccountInv
<1>2. reply' # "success" => AccountsForTheResponse'
  BY DEF AccountsForTheResponse
<1>3. CASE Leave \/ Reject \/ Connect
  BY <1>1, <1>3 DEF Leave, Reject, Connect, AccountInv, AccountsForTheResponse
<1>4. CASE \E kind \in {"upstream", "timeout", "upstream_connection_error"} : Refused(kind)
  <2> PICK kind \in {"upstream", "timeout", "upstream_connection_error"} : Refused(kind)
    BY <1>4
  <2>1. pc # "done" /\ pc' = "done"
    BY DEF Refused
  <2>2. CASE kind = "upstream" /\ ~gone
    BY <1>1, <1>2, <2>1, <2>2, ReportSays DEF Refused
  <2>3. CASE kind # "upstream"
    <3>1. kind \in ReadErrors /\ ReadFailure(kind)
      BY <2>3 DEF Refused, ReadErrors
    <3> QED  BY <1>1, <1>2, <2>1, <3>1, ReadFailureSays
  <2>4. CASE kind = "upstream" /\ gone
    BY <1>1, <1>2, <2>1, <2>4 DEF Refused, ReadFailure, IInv, Undecided
  <2> QED  BY <2>2, <2>3, <2>4
<1>5. CASE \E ev \in Events : InBandError(ev) \/ Violate(ev)
  <2> PICK ev \in Events : InBandError(ev) \/ Violate(ev)
    BY <1>5
  <2>1. pc # "done" /\ pc' = "done"
    BY DEF InBandError, Violate, Take
  <2>2. reply' # "success"
    BY <1>1, <2>1, ReportSays DEF InBandError, Violate
  <2> QED  BY <1>2, <2>1, <2>2
<1>6. CASE \E ev \in Events : Accept(ev)
  <2> PICK ev \in Events : Accept(ev)
    BY <1>6
  <2>1. pc = "reading" /\ history' = Append(history, ev) /\ st' = Absorb(st, ev) /\ reply' = reply
    BY DEF Accept, Take
  <2>2. Ledger(history', st')
    BY <2>1, LedgerStep DEF AccountInv
  <2>3. reply' # "success"
    BY <1>1, <2>1 DEF IInv, Undecided
  <2> QED  BY <1>2, <2>2, <2>3
<1>7. CASE \E kind \in ReadErrors : Break(kind)
  <2> PICK kind \in ReadErrors : Break(kind)
    BY <1>7
  <2>1. pc # "done" /\ pc' = "done" /\ ReadFailure(kind)
    BY DEF Break
  <2> QED  BY <1>1, <1>2, <2>1, ReadFailureSays
<1>8. CASE Truncated \/ Incomplete \/ EmptyAnswer
  <2>1. pc # "done" /\ pc' = "done"
    BY <1>8 DEF Truncated, Incomplete, EmptyAnswer, AtEnd
  <2>2. reply' # "success"
    BY <1>1, <1>8, <2>1, ReportSays DEF Truncated, Incomplete, EmptyAnswer
  <2> QED  BY <1>2, <2>1, <2>2
<1>9. CASE Complete
  <2>1. pc' = "done"
    BY <1>9 DEF Complete, AtEnd
  <2> QED  BY <1>9, <2>1, AccountComplete
<1>10. CASE Done \/ UNCHANGED vars
  BY <1>10 DEF Done, vars, AccountInv, AccountsForTheResponse
<1> QED  BY <1>3, <1>4, <1>5, <1>6, <1>7, <1>8, <1>9, <1>10 DEF Next

\* The usage and the cost of a success are the last its events report, whatever their
\* order and number (absorb, absorbCost and finalizeUsage).
THEOREM AccountsForTheResponseAlways == Spec => []AccountsForTheResponse
<1>1. AccountInv => AccountsForTheResponse  BY DEF AccountInv
<1> QED  BY <1>1, AccountInit, AccountNext, PTL DEF Spec

-----------------------------------------------------------------------------
(* The watchdog. *)

\* The deadline is what is left of the wait, and waiting is true only inside one.
WaitMeasured ==
  waiting => handler \in {"reading", "returned"} /\ deadline = Idle - waited

\* TypeOK but for waiting, whose type is kept apart: the provers take arithmetic and
\* Boolean-valued variables one at a time.
OthersTyped ==
  /\ handler \in {"between", "reading", "returned", "closed"}
  /\ outcome \in Returned
  /\ seen \in Returned \cup {"idle"}
  /\ timer \in Off..Idle /\ deadline \in 0..Idle /\ waited \in 0..Idle
  /\ cause \in {"none", "canceled", "idle"}
  /\ callbacks \in 0..MaxCallbacks

Guarded == OthersTyped /\ WaitMeasured /\ AlwaysWatched /\ NoTimerAfterClose

IdleInv == waiting \in BOOLEAN /\ Guarded

-----------------------------------------------------------------------------
LEMMA TypesTogether == IdleInv => TypeOK
  BY Zenon DEF IdleInv, Guarded, OthersTyped, TypeOK

LEMMA IdleInit == InitIdle => IdleInv
<1> SUFFICES ASSUME InitIdle PROVE IdleInv
  OBVIOUS
<1>1. waiting \in BOOLEAN
  BY DEF InitIdle
<1>2. Guarded
  BY IdleAssumption, CallbacksAssumption
     DEF InitIdle, Guarded, OthersTyped, WaitMeasured, AlwaysWatched, NoTimerAfterClose,
         Returned, Off
<1> QED  BY <1>1, <1>2 DEF IdleInv

\* waiting is assigned TRUE, FALSE or its own value.
LEMMA WaitingTyped == waiting \in BOOLEAN /\ NextIdle => waiting' \in BOOLEAN
<1> SUFFICES ASSUME waiting \in BOOLEAN, NextIdle PROVE waiting' \in BOOLEAN
  OBVIOUS
<1> QED
  BY Zenon DEF NextIdle, Begin, ReadNothing, End, Close, Return, Fire, Expire, ClientLeaves, Tick, watchdog

LEMMA HandlerGuarded ==
  ASSUME Guarded, Begin \/ ReadNothing \/ End \/ Close \/ \E r \in Returned : Return(r)
  PROVE  Guarded'
<1> USE IdleAssumption, CallbacksAssumption
        DEF Guarded, OthersTyped, WaitMeasured, AlwaysWatched, NoTimerAfterClose, Returned,
            Off, Cancelled
<1>1. CASE Begin  BY <1>1 DEF Begin
<1>2. CASE ReadNothing  BY <1>2 DEF ReadNothing, watchdog
<1>3. CASE End  BY <1>3 DEF End
<1>4. CASE Close  BY <1>4 DEF Close
<1>5. CASE \E r \in Returned : Return(r)  BY <1>5 DEF Return
<1> QED  BY <1>1, <1>2, <1>3, <1>4, <1>5

LEMMA RuntimeGuarded ==
  ASSUME Guarded, Fire \/ Expire \/ ClientLeaves \/ Tick
  PROVE  Guarded'
<1> USE IdleAssumption, CallbacksAssumption
        DEF Guarded, OthersTyped, WaitMeasured, AlwaysWatched, NoTimerAfterClose, Returned,
            Off, Cancelled
<1>1. CASE Fire  BY <1>1 DEF Fire
<1>2. CASE Expire
  <2>1. CASE handler = "closed" \/ ~waiting \/ Cancelled
    BY <1>2, <2>1 DEF Expire
  <2>2. CASE ~(handler = "closed" \/ ~waiting \/ Cancelled) /\ deadline > 0
    BY <1>2, <2>2 DEF Expire
  <2>3. CASE ~(handler = "closed" \/ ~waiting \/ Cancelled) /\ ~(deadline > 0)
    BY <1>2, <2>3 DEF Expire
  <2> QED  BY <2>1, <2>2, <2>3
<1>3. CASE ClientLeaves  BY <1>3 DEF ClientLeaves
<1>4. CASE Tick  BY <1>4 DEF Tick, Less
<1> QED  BY <1>1, <1>2, <1>3, <1>4

LEMMA IdleNext == IdleInv /\ [NextIdle]_watchdog => IdleInv'
<1> SUFFICES ASSUME IdleInv, [NextIdle]_watchdog PROVE IdleInv'
  OBVIOUS
<1>1. CASE Begin \/ ReadNothing \/ End \/ Close \/ \E r \in Returned : Return(r)
  BY <1>1, HandlerGuarded, WaitingTyped DEF NextIdle, IdleInv
<1>2. CASE Fire \/ Expire \/ ClientLeaves \/ Tick
  BY <1>2, RuntimeGuarded, WaitingTyped DEF NextIdle, IdleInv
<1>3. CASE UNCHANGED watchdog
  BY <1>3, Zenon
     DEF watchdog, IdleInv, Guarded, OthersTyped, WaitMeasured, AlwaysWatched, NoTimerAfterClose
<1> QED  BY <1>1, <1>2, <1>3 DEF NextIdle

\* The invariant holds in every state.
LEMMA IdleInvAlways == SpecIdle => []IdleInv
  BY IdleInit, IdleNext, PTL DEF SpecIdle

\* The types of the module's variables, for every idle time.
THEOREM WatchdogTyped == SpecIdle => []TypeOK
  BY IdleInvAlways, TypesTogether, PTL

\* A wait in progress always has a running timer or a callback that looks at it,
\* however many callbacks of earlier waits are still about, and neither the handler
\* nor a late callback starts the timer after close.
THEOREM TimerFollowsWaitAlways == SpecIdle => []TimerFollowsWait
<1>1. IdleInv => TimerFollowsWait  BY DEF IdleInv, Guarded, TimerFollowsWait
<1> QED  BY <1>1, IdleInvAlways, PTL

\* Only a wait that lasted the whole idle time is ended as idle.
THEOREM OnlyIdleWaitsExpireAlways == SpecIdle => OnlyIdleWaitsExpire
<1> DEFINE Expired == cause' = "idle" /\ cause # "idle"
           Due     == handler \in {"reading", "returned"} /\ waited = Idle
<1>1. IdleInv /\ [NextIdle]_watchdog => [Expired => Due]_watchdog
  <2> SUFFICES ASSUME IdleInv, NextIdle, Expired PROVE Due
    BY DEF watchdog
  <2>1. Expire
    BY DEF NextIdle, Begin, ReadNothing, End, Close, Return, Fire, ClientLeaves, Tick, Cancelled,
           watchdog
  <2> QED
    BY <2>1, IdleAssumption
       DEF Expire, Cancelled, IdleInv, Guarded, OthersTyped, WaitMeasured
<1> QED  BY <1>1, IdleInvAlways, PTL DEF SpecIdle, OnlyIdleWaitsExpire
=============================================================================
