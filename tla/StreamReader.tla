---------------------------- MODULE StreamReader ----------------------------
(***************************************************************************)
(* stream.Reader: the events and the one final error that Next returns,    *)
(* call after call, for a response body.  A body is its lines and the way  *)
(* it ends: what follows the last line break comes together with the end,  *)
(* which is EOF or the error of the read ("io": a timeout, a cancellation, *)
(* a broken connection).                                                   *)
(*                                                                         *)
(* A line is one of                                                        *)
(*   "skipped"   blank, the [DONE] sentinel, a comment, or nothing;        *)
(*   "untyped"   an event without a type;                                  *)
(*   "event"     an event;                                                 *)
(*   "mistyped"  JSON of a tool or end event that does not decode;         *)
(*   "noise"     other JSON that does not decode;                          *)
(*   "broken"    text that is not JSON, but names a tool or end event;     *)
(*   "garbled"   other text that is not JSON.                              *)
(***************************************************************************)
EXTENDS Naturals, Sequences

Lines == {"skipped", "untyped", "event", "mistyped", "noise", "broken", "garbled"}
Ends  == {"EOF", "io"}

Bodies == [lines : Seq(Lines), tail : Lines, end : Ends]

Undecodable(line) == line \in {"mistyped", "noise", "broken", "garbled"}
IsJSON(line)      == line \in {"skipped", "untyped", "event", "mistyped", "noise"}

\* malformedCriticalEvent: the decoder gets as far as the type.
Critical(line) == line \in {"mistyped", "broken"}

\* Mutant: an interrupted half line is blamed on the peer.
CutOffNever(line, err) == FALSE

\* A line may be only the half that arrived before the read failed.
CutOff(line, err) == err = "io" /\ ~IsJSON(line)

\* What Next makes of a line: it returns the event or an error, or reads on.
Verdict(line, err) ==
  CASE line = "event"                             -> "event"
    [] Undecodable(line) /\ CutOff(line, err)     -> "io"
    [] Undecodable(line) /\ ~CutOff(line, err) /\ Critical(line) -> "malformed"
    [] OTHER                                      -> "skip"

Started == [given |-> <<>>, err |-> "none"]

\* Mutant: an error that comes with the last event is returned in its place.
ReadErrorFirst(r, i, line, err) ==
  IF r.err # "none" THEN r
  ELSE [given |-> IF Verdict(line, err) = "event" /\ err = "none" THEN Append(r.given, i) ELSE r.given,
        err   |-> IF Verdict(line, err) = "malformed" THEN "malformed" ELSE err]

\* Line i, read with an error or "none": Reader.err is sticky, an event that comes with
\* an error is returned before it, and a malformed one replaces it.
Read(r, i, line, err) ==
  IF r.err # "none" THEN r
  ELSE [given |-> IF Verdict(line, err) = "event" THEN Append(r.given, i) ELSE r.given,
        err   |-> IF Verdict(line, err) = "malformed" THEN "malformed" ELSE err]

All(body) == Append(body.lines, body.tail)

\* Only the last read meets the end of the body.
ErrorAt(body, i) == IF i <= Len(body.lines) THEN "none" ELSE body.end

\* All that the calls of Next return for a body: Read, line after line.
Deliver(body) ==
  LET read[n \in 0..Len(All(body))] ==
        IF n = 0 THEN Started ELSE Read(read[n - 1], n, All(body)[n], ErrorAt(body, n))
  IN read[Len(All(body))]

-----------------------------------------------------------------------------
(* What they should be, told of the whole body. *)

\* The lines that make a response unusable: whole lines, and a last half line unless the
\* connection explains it.
Faults(body) ==
  {i \in DOMAIN body.lines : Critical(body.lines[i])} \cup
  (IF Critical(body.tail) /\ (body.end = "EOF" \/ body.tail = "mistyped")
   THEN {Len(body.lines) + 1} ELSE {})

\* The events before the first fault.
Events(body) ==
  {i \in DOMAIN All(body) : All(body)[i] = "event" /\ \A f \in Faults(body) : i < f}

Increasing(s) == \A i, j \in DOMAIN s : i < j => s[i] < s[j]

Elements(s) == {s[i] : i \in DOMAIN s}

\* Every event before the first fault is delivered, once and in its order, the last one
\* even if the read failed with it; then comes the fault, or else the body's own end.
Faithful(body) ==
  LET given == Deliver(body).given
  IN /\ Increasing(given) /\ Elements(given) = Events(body)
     /\ Deliver(body).err = IF Faults(body) = {} THEN body.end ELSE "malformed"
=============================================================================
