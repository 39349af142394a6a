---------------------------- MODULE MCChatStream ----------------------------
(* The responses of the run: made of the events that shape the protocol's    *)
(* verdict, or of those that carry usage and cost.                           *)
EXTENDS ChatStream

Spent(output, cacheWrite) == [given |-> TRUE, output |-> output, cacheWrite |-> cacheWrite]

Ending(type, reason, usage) == [Event(type) EXCEPT !.reason = reason, !.usage = usage]
ToolEvent(type, id)         == [Event(type) EXCEPT !.id = id]
Priced(type, cost)          == [Event(type) EXCEPT !.cost = cost]

ProtocolEvents ==
  {Event(t) : t \in {"text", "blank", "empty", "reasoning", "abort", "error", "marker"}} \cup
  {ToolEvent(t, id) : t \in {"tool-call", "tool-input"}, id \in {"a", "b", NoId}} \cup
  {Ending("finish", r, Spent(1, 0)) :
     r \in {"", "stop", "tool_calls", "length", "content_filter", "unknown"}} \cup
  {Ending("finish-step", r, NoUsage) : r \in {"", "tool_calls", "length", "unknown"}}

AccountingEvents ==
  {Event("text")} \cup
  {Ending("finish", "stop", u) : u \in {NoUsage, Spent(0, 0), Spent(1, 0), Spent(1, 1)}} \cup
  {[Ending("finish-step", "", u) EXCEPT !.cost = c] :
     u \in {NoUsage, Spent(1, 1), Spent(2, 0)}, c \in {NoCost, 2}} \cup
  {Priced("metadata", c) : c \in {0, 1}} \cup
  {Priced("cache-write", c) : c \in {NoCost, 0, 2}}

AllEvents == ProtocolEvents \cup AccountingEvents

\* A response is of one family; the two share the plain text and the finish.
OneFamily ==
  \/ \A i \in DOMAIN history : history[i] \in ProtocolEvents
  \/ \A i \in DOMAIN history : history[i] \in AccountingEvents
=============================================================================
