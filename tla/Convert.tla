------------------------------ MODULE Convert -------------------------------
(***************************************************************************)
(* convert: an OpenAI chat request rewritten for the upstream, and the     *)
(* root by which its conversation is recognised.                           *)
(*                                                                         *)
(* A text is a sequence of words, Break being the line break; <<>> is no   *)
(* text.  A message is a record of                                         *)
(*   role, name, id    as they come ("" when absent);                      *)
(*   form              "text", or "parts" for an array;                    *)
(*   parts             its content: of a "text" at most one text part;     *)
(*   reasoning         reasoning_content;                                  *)
(*   calls             its tool calls, [id, name] each.                    *)
(* A part is [type, text, cache]; cache tells of cache_control: "no",      *)
(* "ephemeral" or "other".  The text of an image is empty.                 *)
(***************************************************************************)
EXTENDS Naturals, Sequences, SequencesExt

CONSTANTS Words, Break

ASSUME BreakAssumption == Break \in Words

Parts == [type : STRING, text : Seq(Words), cache : STRING]
Calls == [id : STRING, name : STRING]

IsSystem(m) == m.role \in {"system", "developer"}

\* Message.ContentText.
ContentText(m) ==
  FlattenSeq([i \in DOMAIN m.parts |->
                IF m.parts[i].type = "text" THEN m.parts[i].text ELSE <<>>])

Joined(a, b) == IF a = <<>> THEN b ELSE a \o <<Break>> \o b

-----------------------------------------------------------------------------
(* convertMessages. *)

\* The system prompt: the texts of system and developer messages, wherever they are.
Said(text, m) ==
  IF IsSystem(m) /\ ContentText(m) # <<>> THEN Joined(text, ContentText(m)) ELSE text

SystemText(messages) ==
  LET text[n \in 0..Len(messages)] == IF n = 0 THEN <<>> ELSE Said(text[n - 1], messages[n])
  IN  text[Len(messages)]

\* An image by reference is refused, and so is a role of no meaning here.
Refused(m) ==
  \/ m.role = "user" /\ \E i \in DOMAIN m.parts : m.parts[i].type = "remote_image"
  \/ m.role \notin {"system", "developer", "user", "assistant", "tool"}

WirePart(type, text) == [type |-> type, text |-> text]

\* An empty text part of an array is kept, an empty text is not.
UserContent(m) ==
  FlattenSeq([i \in DOMAIN m.parts |->
    IF m.parts[i].type \in {"text", "image"}
    THEN <<WirePart(m.parts[i].type, m.parts[i].text)>> ELSE <<>>])

\* assistantContent: reasoning_content comes first, unless the parts hold it already.
Spoken(m) ==
  LET parts  == FlattenSeq([i \in DOMAIN m.parts |->
                  IF m.parts[i].type \in {"text", "reasoning"} /\ m.parts[i].text # <<>>
                  THEN <<WirePart(m.parts[i].type, m.parts[i].text)>> ELSE <<>>])
      inside == FlattenSeq([i \in DOMAIN m.parts |->
                  IF m.parts[i].type = "reasoning" THEN m.parts[i].text ELSE <<>>])
  IN IF m.reasoning \in {<<>>, inside} THEN parts
     ELSE <<WirePart("reasoning", m.reasoning)>> \o parts

Call(c)          == [type |-> "tool-call", id |-> c.id, name |-> c.name]
Result(id, name) == [type |-> "tool-result", id |-> id, name |-> name]

CallsOf(m) == [i \in DOMAIN m.calls |-> Call(m.calls[i])]

AssistantContent(m) == Spoken(m) \o CallsOf(m)

\* Mutant: the first call under an id keeps its name.
NamedOnce(names, c) ==
  [id \in DOMAIN names \cup {c.id} |-> IF id \in DOMAIN names THEN names[id] ELSE c.name]

\* toolNames after a call, a function on the ids seen so far.
Named(names, c) ==
  [id \in DOMAIN names \cup {c.id} |-> IF id = c.id THEN c.name ELSE names[id]]

\* toolNames after a message.
Noted(names, m) ==
  LET noted[n \in 0..Len(m.calls)] == IF n = 0 THEN names ELSE Named(noted[n - 1], m.calls[n])
  IN  noted[Len(m.calls)]

NonEmpty(a, b) == IF a # "" THEN a ELSE b

\* A name for an id, "" if it has none.
NameOf(names, id) == IF id \in DOMAIN names THEN names[id] ELSE ""

\* The tool a result came from: its own word, that of the call, or "unknown".
ToolName(name, called) == NonEmpty(name, NonEmpty(called, "unknown"))

\* One turn of convertMessages' loop, over [names, out].
Turn(acc, m) ==
  LET content == CASE m.role = "user"      -> UserContent(m)
                   [] m.role = "assistant" -> AssistantContent(m)
                   [] m.role = "tool"      -> <<Result(m.id, ToolName(m.name, NameOf(acc.names, m.id)))>>
                   [] OTHER                -> <<>>
  IN [names |-> IF m.role = "assistant" THEN Noted(acc.names, m) ELSE acc.names,
      out   |-> IF content = <<>> THEN acc.out
                ELSE Append(acc.out, [role |-> m.role, content |-> content])]

Empty == [names |-> [id \in {} |-> ""], out |-> <<>>]

WireMessages(messages) ==
  LET acc[n \in 0..Len(messages)] == IF n = 0 THEN Empty ELSE Turn(acc[n - 1], messages[n])
  IN  acc[Len(messages)].out

-----------------------------------------------------------------------------
(* convertSystem. *)

\* A mark outside of a text block, or of another kind, is refused.
BadMark(m) ==
  IsSystem(m) /\ m.form = "parts" /\
    \E i \in DOMAIN m.parts :
      LET p == m.parts[i] IN p.cache # "no" /\ (p.type # "text" \/ p.cache = "other")

Marked(m) ==
  IsSystem(m) /\ m.form = "parts" /\ \E i \in DOMAIN m.parts : m.parts[i].cache # "no"

\* The text parts of a message.
TextParts(m) ==
  FlattenSeq([i \in DOMAIN m.parts |-> IF m.parts[i].type = "text" THEN <<m.parts[i]>> ELSE <<>>])

Broken(part) == [type |-> part.type, text |-> Append(part.text, Break), cache |-> part.cache]

\* A line break after the last block.
Closed(blocks) ==
  [i \in DOMAIN blocks |-> IF i = Len(blocks) THEN Broken(blocks[i]) ELSE blocks[i]]

\* Mutant: the line break comes before a message is known to have text.
SectionEager(blocks, m) ==
  IF ~IsSystem(m) THEN blocks ELSE IF ContentText(m) = <<>> THEN Closed(blocks)
  ELSE Closed(blocks) \o TextParts(m)

\* The text blocks after a message with text; the break goes on the block before it.
Section(blocks, m) ==
  IF ~IsSystem(m) \/ ContentText(m) = <<>> THEN blocks ELSE Closed(blocks) \o TextParts(m)

Sections(messages) ==
  LET blocks[n \in 0..Len(messages)] == IF n = 0 THEN <<>> ELSE Section(blocks[n - 1], messages[n])
  IN  blocks[Len(messages)]

\* The blocks if any was marked, else one text; none at all is replaced by a blank.
ConvertSystem(messages) ==
  LET blocks == Sections(messages)
  IN IF (\E i \in DOMAIN messages : Marked(messages[i])) /\ blocks # <<>>
     THEN [form |-> "blocks", blocks |-> blocks]
     ELSE [form |-> "text", text |-> IF SystemText(messages) = <<>> THEN <<" ">>
                                     ELSE SystemText(messages)]

-----------------------------------------------------------------------------
(* ToWire and ConversationRoot. *)

\* The request is refused with an error, before anything is sent.
Unsendable(messages) == \E i \in DOMAIN messages : Refused(messages[i]) \/ BadMark(messages[i])

\* Mutant: every system message counts, wherever it is.
RootPartsAll(messages) ==
  LET turns == SelectSeq(messages, LAMBDA m : ~IsSystem(m))
  IN SelectSeq(messages, IsSystem) \o SubSeq(turns, 1, IF turns = <<>> THEN 0 ELSE 1)

\* The messages the root is made of: the leading system messages and the first turn.
RootParts(messages) ==
  LET turns == {i \in DOMAIN messages : ~IsSystem(messages[i])}
  IN IF turns = {} THEN messages
     ELSE SubSeq(messages, 1, CHOOSE i \in turns : \A j \in turns : i <= j)

\* What the root depends on; the hash is taken to tell these apart.  A content without
\* text counts as it is written.
Root(messages) ==
  LET parts == RootParts(messages)
  IN [i \in DOMAIN parts |->
        [role |-> IF IsSystem(parts[i]) THEN "system" ELSE parts[i].role,
         content |-> IF ContentText(parts[i]) # <<>> THEN ContentText(parts[i])
                     ELSE <<parts[i].form, parts[i].parts>>]]

-----------------------------------------------------------------------------
(* What a reader of the code expects. *)

BlockTexts(blocks) == FlattenSeq([i \in DOMAIN blocks |-> blocks[i].text])

\* Marking a block for caching changes the form of the system prompt, not one word.
SystemTextIsSame(messages) ==
  LET wire == ConvertSystem(messages)
  IN wire.form = "blocks" =>
       /\ BlockTexts(wire.blocks) = SystemText(messages)
       /\ SystemText(messages) # <<>>

Contents(wire) == FlattenSeq([i \in DOMAIN wire |-> wire[i].content])

\* The tool calls and results of a content.
IsTool(part) == part.type \in {"tool-call", "tool-result"}

ToolParts(content) ==
  FlattenSeq([i \in DOMAIN content |-> IF IsTool(content[i]) THEN <<content[i]>> ELSE <<>>])

\* The calls made in the first n messages, and the name of the last of them under an id.
CallsBefore(messages, n) ==
  FlattenSeq([i \in 1..n |-> IF messages[i].role = "assistant" THEN CallsOf(messages[i]) ELSE <<>>])

LastName(calls, id) ==
  LET named == {i \in DOMAIN calls : calls[i].id = id}
  IN  IF named = {} THEN "" ELSE calls[CHOOSE i \in named : \A j \in named : j <= i].name

\* What message n has to do with tools.
ToolsOf(messages, n) ==
  LET m == messages[n]
  IN CASE m.role = "assistant" -> CallsOf(m)
       [] m.role = "tool" ->
            <<Result(m.id, ToolName(m.name, LastName(CallsBefore(messages, n - 1), m.id)))>>
       [] OTHER -> <<>>

\* Every tool call and every tool result is passed on, in order, and no message without
\* content; a result has a name: the client's own, else that of the last call under its
\* id before it, if that has one.
ToolsArePaired(messages) ==
  LET wire == WireMessages(messages)
  IN /\ \A i \in DOMAIN wire : wire[i].content # <<>>
     /\ ToolParts(Contents(wire)) = FlattenSeq([n \in DOMAIN messages |-> ToolsOf(messages, n)])
=============================================================================
