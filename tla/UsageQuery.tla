----------------------------- MODULE UsageQuery -----------------------------
(***************************************************************************)
(* The dashboard's account usage: one query per key at a time (CachedFetch *)
(* makes it so), each under its own timeout, all of them sharing a few     *)
(* slots.  A query that has a slot asks the upstream who the account is,   *)
(* then for its credits and its subscription in two goroutines, then for a *)
(* summary of the subscription's current period.  A call that fails leaves *)
(* its section out; a timeout gives up the whole answer.  The timeout runs *)
(* while the query waits for a slot, too.                                  *)
(***************************************************************************)
EXTENDS Naturals, FiniteSets

CONSTANTS
  Keys,      \* the configured keys
  Slots,     \* the capacity of usageSlots
  Orgs,      \* the organizations a key may belong to
  Periods,   \* the billing periods a subscription may show
  None       \* no organization, no subscription

ASSUME UsageAssumption == Slots \in Nat \ {0} /\ None \notin Orgs \cup Periods

VARIABLES
  at,      \* where each key's query is
  ended,   \* its context has ended
  slots,   \* the queries that hold a slot
  calls,   \* its call for each section, with the parameters it was sent with
  answer   \* the outcome of its latest query: none yet, an error, or the calls' results

vars == <<at, ended, slots, calls, answer>>

Sections == {"identity", "credits", "subscription", "summary"}

Unsent == [state |-> "unsent", org |-> None, since |-> None, data |-> None]

Nothing == [kind |-> "nothing"]
Error   == [kind |-> "error"]
Parts(q) == [kind |-> "parts", parts |-> q]

Init ==
  /\ at = [k \in Keys |-> "idle"] /\ ended = [k \in Keys |-> FALSE]
  /\ slots = {}
  /\ calls = [k \in Keys |-> [s \in Sections |-> Unsent]]
  /\ answer = [k \in Keys |-> Nothing]

-----------------------------------------------------------------------------
Goto(k, place) == at' = [at EXCEPT ![k] = place]

\* The calls of k for these sections go out.
Send(k, sections, org, since) ==
  calls' = [calls EXCEPT ![k] = [s \in Sections |->
    IF s \in sections THEN [state |-> "out", org |-> org, since |-> since, data |-> None] ELSE @[s]]]

Back(k, s) == calls[k][s].state \notin {"unsent", "out"}

\* What a call that succeeded has decoded; a failed one leaves the zero value.
DataOf(k, s) == IF calls[k][s].state = "ok" THEN calls[k][s].data ELSE None

-----------------------------------------------------------------------------
(* The query of a key. *)

\* A dashboard asks and the cached outcome is stale: a fetch starts, with a fresh
\* timeout, and waits for a slot.
Ask(k) ==
  /\ at[k] = "idle"
  /\ Goto(k, "queued")
  /\ ended' = [ended EXCEPT ![k] = FALSE]
  /\ calls' = [calls EXCEPT ![k] = [s \in Sections |-> Unsent]]
  /\ answer' = [answer EXCEPT ![k] = Nothing]
  /\ UNCHANGED slots

\* The timeout, at any moment.
Deadline(k) ==
  /\ at[k] # "idle" /\ ~ended[k]
  /\ ended' = [ended EXCEPT ![k] = TRUE]
  /\ UNCHANGED <<at, slots, calls, answer>>

\* A slot is free; it may be taken although the context has ended as well.
Enter(k) ==
  /\ at[k] = "queued" /\ Cardinality(slots) < Slots
  /\ slots' = slots \cup {k}
  /\ Goto(k, "identity")
  /\ Send(k, {"identity"}, None, None)
  /\ UNCHANGED <<ended, answer>>

\* Mutant: the query waits for its slot whatever its context says.
GiveUpNever(k) == FALSE /\ UNCHANGED vars

\* The context ends first.
GiveUp(k) ==
  /\ at[k] = "queued" /\ ended[k]
  /\ Goto(k, "idle")
  /\ answer' = [answer EXCEPT ![k] = Error]
  /\ UNCHANGED <<ended, slots, calls>>

\* What getJSON may return: data, the upstream's failure, or the end of the context.
Results(k, s) ==
  LET Data == CASE s = "identity" -> Orgs \cup {None} [] s = "subscription" -> Periods \cup {None}
                [] OTHER -> {None}
  IN [state : {"ok"}, data : Data]
     \cup [state : {"failed"} \cup (IF ended[k] THEN {"cut"} ELSE {}), data : {None}]

CallReturns(k, s) ==
  /\ calls[k][s].state = "out"
  /\ \E r \in Results(k, s) :
       calls' = [calls EXCEPT ![k][s].state = r.state, ![k][s].data = r.data]
  /\ UNCHANGED <<at, ended, slots, answer>>

\* The identity is known, or not: both billing calls go out, for its organization.
Identified(k) ==
  /\ at[k] = "identity" /\ Back(k, "identity")
  /\ Goto(k, "billing")
  /\ Send(k, {"credits", "subscription"}, DataOf(k, "identity"), None)
  /\ UNCHANGED <<ended, slots, answer>>

\* Mutant: the goroutines are not joined, one result is enough to go on.
JoinedEarly(k) == \E s \in {"credits", "subscription"} : Back(k, s)

Joined(k) == \A s \in {"credits", "subscription"} : Back(k, s)

\* The summary is asked for since the period's start, if the subscription shows one.
Summarize(k) ==
  /\ at[k] = "billing" /\ Joined(k)
  /\ Goto(k, "summary")
  /\ Send(k, {"summary"}, DataOf(k, "identity"), DataOf(k, "subscription"))
  /\ UNCHANGED <<ended, slots, answer>>

\* Mutant: only the sections' own errors are reported, those of the timeout included.
OutcomePartial(k) == Parts(calls[k])

Outcome(k) == IF ended[k] THEN Error ELSE Parts(calls[k])

\* Usage returns, the slot is given back and the outcome is cached.
Finish(k) ==
  /\ at[k] = "summary" /\ Back(k, "summary")
  /\ Goto(k, "idle")
  /\ slots' = slots \ {k}
  /\ answer' = [answer EXCEPT ![k] = Outcome(k)]
  /\ UNCHANGED <<ended, calls>>

Next ==
  \E k \in Keys :
    \/ Ask(k) \/ Deadline(k) \/ Enter(k) \/ GiveUp(k)
    \/ Identified(k) \/ Summarize(k) \/ Finish(k)
    \/ \E s \in Sections : CallReturns(k, s)

Spec == Init /\ [][Next]_vars

(* The timeout passes, net/http ends a call whose context has, and goroutines that   *)
(* can go on do; nothing is assumed of the upstream, nor of who gets the next slot.  *)
FairSpec ==
  /\ Spec
  /\ \A k \in Keys :
       /\ WF_vars(Deadline(k)) /\ WF_vars(GiveUp(k))
       /\ WF_vars(Identified(k)) /\ WF_vars(Summarize(k)) /\ WF_vars(Finish(k))
       /\ \A s \in Sections : WF_vars(ended[k] /\ CallReturns(k, s))

-----------------------------------------------------------------------------
(* Properties. *)

\* An answer is of one piece: every section was asked for the organization the
\* identity gave, the summary for the period the subscription shows, and a section
\* is missing only because the upstream failed it, never because of the proxy's own
\* timeout, whose outcome is an error and no answer.
AnswersAreWhole ==
  \A k \in Keys : answer[k].kind = "parts" =>
    LET p == answer[k].parts
        shown(s) == IF p[s].state = "ok" THEN p[s].data ELSE None
    IN /\ \A s \in Sections : p[s].state \in {"ok", "failed"}
       /\ \A s \in Sections \ {"identity"} : p[s].org = shown("identity")
       /\ p["summary"].since = shown("subscription")

\* Every query ends and leaves an outcome, however long others hold the slots.
QueriesEnd == \A k \in Keys : at[k] # "idle" ~> at[k] = "idle" /\ answer[k] # Nothing
=============================================================================
