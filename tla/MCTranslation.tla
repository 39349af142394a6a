--------------------------- MODULE MCTranslation ----------------------------
(* Small instances of Translation for TLC. *)
EXTENDS Translation

CONSTANTS Statuses

-----------------------------------------------------------------------------
(* Failures: an HTTP status, the payload that comes with it, and a Retry-After. *)

MCFailures ==
  [http : Statuses, payload : [status : {0, 429}, code : Names, type : Names, text : Texts], retry : {0, 3}]

-----------------------------------------------------------------------------
(* Messages. *)

MCWords == {"break", " ", "word", "marked", "two", "blocks", "odd", "rules", "see", "why", "because", "so", "output"}

Part(type, text, cache) == [type |-> type, text |-> text, cache |-> cache]

Plain(role, text) ==
  [role |-> role, name |-> "", id |-> "", form |-> "text", reasoning |-> <<>>, calls |-> <<>>,
   parts |-> IF text = <<>> THEN <<>> ELSE <<Part("text", text, "no")>>]

Array(role, parts) == [Plain(role, <<>>) EXCEPT !.form = "parts", !.parts = parts]

Calling(calls) == [Plain("assistant", <<>>) EXCEPT !.calls = calls]

Result1(id, name) == [Plain("tool", <<"output">>) EXCEPT !.id = id, !.name = name]

MCMessages ==
  {Plain(role, text) : role \in {"system", "user", "assistant"}, text \in {<<>>, <<"word">>}} \cup
  {Array("system", parts) : parts \in
     {<<Part("text", <<"marked">>, "ephemeral")>>, <<Part("text", <<>>, "ephemeral")>>,
      <<Part("text", <<"two">>, "no"), Part("text", <<"blocks">>, "ephemeral")>>,
      <<Part("text", <<"odd">>, "other")>>}} \cup
  {Plain("developer", <<"rules">>), Plain("critic", <<"word">>)} \cup
  {Array("user", parts) : parts \in
     {<<Part("image", <<>>, "no")>>, <<Part("text", <<"see">>, "no"), Part("remote_image", <<>>, "no")>>}} \cup
  {[Array("assistant", <<Part("reasoning", <<"why">>, "no"), Part("text", <<"so">>, "no")>>)
      EXCEPT !.reasoning = r] : r \in {<<"why">>, <<"because">>}} \cup
  {Calling(<<[id |-> "i", name |-> n]>>) : n \in {"f", "g"}} \cup
  {Calling(<<[id |-> "i", name |-> "f"], [id |-> "j", name |-> ""]>>)} \cup
  {Result1(id, name) : id \in {"i", "j"}, name \in {"", "h"}}

-----------------------------------------------------------------------------
(* Exchanges with System One: one question of interest, perhaps a second one. *)

Question(type, criteria, count) ==
  [type |-> type, instructed |-> TRUE, criteria |-> criteria, count |-> count, sound |-> TRUE]

YesNo == Question("noul", "absent", {})

Questions ==
  {YesNo, Question("noul", "object", {"a"}), Question("noul", "object", {"true"}),
   Question("noul", "other", {}), Question("other", "object", {})} \cup
  {Question("choice", "object", S) : S \in SUBSET Options} \cup
  {[Question("choice", "object", Options) EXCEPT !.instructed = FALSE],
   [Question("choice", "object", {"a"}) EXCEPT !.sound = FALSE]} \cup
  {Question("score", "array", n) : n \in {1, 2, MaxLevels + 1}}

NoAnswer == [type |-> "noul", noul |-> Absent, choice |-> Absent, score |-> Absent,
             confidence |-> Absent, probabilities |-> Absent]

Yes == [NoAnswer EXCEPT !.noul = 10]

Probabilities == {Absent} \cup UNION {[S -> {0, 11}] : S \in SUBSET Options}

Answers ==
  {[NoAnswer EXCEPT !.noul = x] : x \in {Absent, -1, 11}} \cup {Yes, [Yes EXCEPT !.confidence = 11]} \cup
  {[NoAnswer EXCEPT !.type = "choice", !.choice = c, !.probabilities = p] :
     c \in Options \cup {Absent}, p \in Probabilities} \cup
  {[NoAnswer EXCEPT !.type = "score", !.score = x] : x \in {Absent, -1, 10, 11}}

Alone(name, x) == [n \in {name} |-> x]
Pair(x, y)     == [n \in {"q", "r"} |-> IF n = "q" THEN x ELSE y]

MCRequests == {Alone("q", x) : x \in Questions} \cup {Pair(x, YesNo) : x \in Questions} \cup {Alone("", YesNo)}

Answered == {Alone("q", a) : a \in Answers} \cup {Pair(a, Yes) : a \in Answers} \cup {Alone("s", Yes)}

MCResponses ==
  [sound : BOOLEAN, long : {FALSE}, answers : Answered] \cup
  [sound : {TRUE}, long : {TRUE}, answers : {Alone("q", Yes)}]
=============================================================================
