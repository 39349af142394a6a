---------------------------- MODULE LookupProofs ----------------------------
(***************************************************************************)
(* The two lookups an account's requests share.                            *)
(*                                                                         *)
(* The usage query: an answer is of one piece, for any number of keys and  *)
(* slots.  At each place of a query the calls sent so far are known, and   *)
(* those it has waited for are back with results that nothing changes any  *)
(* more (Staged).  What has been cut off was cut off by the query's own    *)
(* timeout (CutByTimeout), and then the outcome is an error.               *)
(*                                                                         *)
(* The model catalog: one fetch per account, and no entry in use is lost,  *)
(* for any capacity and any numbers of accounts and requests.  A number is *)
(* an entry's again only when nothing refers to it, so an entry that is    *)
(* held or fetched for is its owner's and in the map (Owned, InUse); the   *)
(* count of its users is exact (Counted), so a victim has no holder.  The  *)
(* order of use is strict and total on the map (Ordered), so a finite set  *)
(* of victims has one that is used least recently, and a full map gives up *)
(* exactly one entry for the one it takes.                                 *)
(***************************************************************************)
EXTENDS UsageQuery, ModelCatalog, Integers, FiniteSetTheorems, WellFoundedInduction, TLAPS

-----------------------------------------------------------------------------
(* The usage query. *)


States == {"unsent", "out", "ok", "failed", "cut"}

AnyCall(c) == c.state \in States /\ c = [state |-> c.state, org |-> c.org, since |-> c.since, data |-> c.data]

Typed ==
  /\ at \in [Keys -> {"idle", "queued", "identity", "billing", "summary"}]
  /\ ended \in [Keys -> BOOLEAN]
  /\ calls = [k \in Keys |-> [s \in Sections |-> calls[k][s]]]
  /\ \A k \in Keys, s \in Sections : AnyCall(calls[k][s])
  /\ answer = [k \in Keys |-> answer[k]]

Billing == {"credits", "subscription"}

Unanswered(k, S) == \A s \in S : calls[k][s].state = "unsent"
Asked(k, S)      == \A s \in S : calls[k][s].state # "unsent"

\* Which calls have been sent, for which organization and period, and which are back.
Staged(k) ==
  /\ at[k] = "identity" => Asked(k, {"identity"})
  /\ at[k] \in {"billing", "summary"} =>
       /\ Back(k, "identity") /\ Asked(k, Billing)
       /\ \A s \in Billing : calls[k][s].org = DataOf(k, "identity")
  /\ at[k] = "summary" =>
       /\ \A s \in Billing : Back(k, s)
       /\ Asked(k, {"summary"})
       /\ calls[k]["summary"].org = DataOf(k, "identity")
       /\ calls[k]["summary"].since = DataOf(k, "subscription")

CutByTimeout(k) ==
  at[k] # "idle" => \A s \in Sections : calls[k][s].state = "cut" => ended[k]

\* AnswersAreWhole, of one answer.
Whole(a) ==
  a.kind = "parts" =>
    LET p == a.parts
        shown(s) == IF p[s].state = "ok" THEN p[s].data ELSE None
    IN /\ \A s \in Sections : p[s].state \in {"ok", "failed"}
       /\ \A s \in Sections \ {"identity"} : p[s].org = shown("identity")
       /\ p["summary"].since = shown("subscription")

IInv ==
  /\ Typed
  /\ \A k \in Keys : Staged(k) /\ CutByTimeout(k) /\ Whole(answer[k])

-----------------------------------------------------------------------------
LEMMA InitIInv == Init => IInv
<1> SUFFICES ASSUME Init PROVE IInv
  OBVIOUS
<1> USE DEF Init
<1>1. Typed
  BY DEF Typed, AnyCall, States, Unsent
<1>2. ASSUME NEW k \in Keys PROVE Staged(k) /\ CutByTimeout(k) /\ Whole(answer[k])
  BY DEF Staged, CutByTimeout, Whole, Nothing
<1> QED
  BY <1>1, <1>2 DEF IInv

\* A key's part of the state.
Same(k) ==
  /\ at'[k] = at[k] /\ ended'[k] = ended[k] /\ answer'[k] = answer[k]
  /\ \A s \in Sections : calls'[k][s] = calls[k][s]

Steps(k) ==
  \/ Ask(k) \/ Deadline(k) \/ Enter(k) \/ GiveUp(k)
  \/ Identified(k) \/ Summarize(k) \/ Finish(k)
  \/ \E s \in Sections : CallReturns(k, s)

\* A call that is sent, and one that returns.
LEMMA SendSends ==
  ASSUME Typed, NEW k \in Keys, NEW S \in SUBSET Sections, NEW o, NEW t, Send(k, S, o, t)
  PROVE  /\ calls' = [j \in Keys |-> [s \in Sections |-> calls'[j][s]]]
         /\ \A j \in Keys \ {k} : calls'[j] = calls[j]
         /\ \A s \in Sections \ S : calls'[k][s] = calls[k][s]
         /\ \A s \in S : calls'[k][s] = [state |-> "out", org |-> o, since |-> t, data |-> None]
BY DEF Send, Typed

LEMMA ReturnReturns ==
  ASSUME Typed, NEW k \in Keys, NEW s \in Sections, CallReturns(k, s)
  PROVE  /\ calls' = [j \in Keys |-> [z \in Sections |-> calls'[j][z]]]
         /\ \A j \in Keys \ {k} : calls'[j] = calls[j]
         /\ \A z \in Sections \ {s} : calls'[k][z] = calls[k][z]
         /\ calls[k][s].state = "out"
         /\ calls'[k][s].org = calls[k][s].org /\ calls'[k][s].since = calls[k][s].since
         /\ calls'[k][s].state \in {"ok", "failed", "cut"} /\ AnyCall(calls'[k][s])
         /\ calls'[k][s].state = "cut" => ended[k]
         /\ UNCHANGED <<at, ended, slots, answer>>
<1>1. PICK r \in Results(k, s) :
        calls' = [calls EXCEPT ![k][s].state = r.state, ![k][s].data = r.data]
  BY DEF CallReturns
<1>2. r.state \in {"ok", "failed", "cut"} /\ (r.state = "cut" => ended[k])
  BY DEF Results
<1>3. /\ calls' = [j \in Keys |-> [z \in Sections |-> calls'[j][z]]]
      /\ \A j \in Keys \ {k} : calls'[j] = calls[j]
      /\ \A z \in Sections \ {s} : calls'[k][z] = calls[k][z]
      /\ calls'[k][s] = [calls[k][s] EXCEPT !.state = r.state, !.data = r.data]
  BY <1>1 DEF Typed
<1>4. calls[k][s] = [state |-> calls[k][s].state, org |-> calls[k][s].org,
                     since |-> calls[k][s].since, data |-> calls[k][s].data]
  BY DEF Typed, AnyCall
<1>5. calls'[k][s] = [state |-> r.state, org |-> calls[k][s].org,
                      since |-> calls[k][s].since, data |-> r.data]
  BY <1>3, <1>4
<1> QED
  BY <1>2, <1>3, <1>5 DEF CallReturns, AnyCall, States

LEMMA OthersSame ==
  ASSUME Typed, NEW k \in Keys, Steps(k), NEW j \in Keys \ {k} PROVE Same(j)
<1> USE DEF Same
<1>1. CASE Ask(k) \/ Deadline(k) \/ GiveUp(k)
  BY <1>1 DEF Ask, Deadline, GiveUp, Goto, Typed
<1>2. CASE Enter(k)
  <2>1. Send(k, {"identity"}, None, None)
    BY <1>2 DEF Enter
  <2>2. calls'[j] = calls[j]
    BY <2>1, SendSends DEF Sections
  <2> QED
    BY <1>2, <2>2 DEF Enter, Goto, Typed
<1>3. CASE Identified(k)
  <2>1. Send(k, Billing, DataOf(k, "identity"), None)
    BY <1>3 DEF Identified, Billing
  <2>2. calls'[j] = calls[j]
    BY <2>1, SendSends DEF Sections, Billing
  <2> QED
    BY <1>3, <2>2 DEF Identified, Goto, Typed
<1>4. CASE Summarize(k)
  <2>1. Send(k, {"summary"}, DataOf(k, "identity"), DataOf(k, "subscription"))
    BY <1>4 DEF Summarize
  <2>2. calls'[j] = calls[j]
    BY <2>1, SendSends DEF Sections
  <2> QED
    BY <1>4, <2>2 DEF Summarize, Goto, Typed
<1>5. CASE Finish(k)
  BY <1>5 DEF Finish, Goto, Typed
<1>6. ASSUME NEW s \in Sections, CallReturns(k, s) PROVE Same(j)
  BY <1>6, ReturnReturns
<1> QED
  BY <1>1, <1>2, <1>3, <1>4, <1>5, <1>6 DEF Steps

LEMMA TypedStep ==
  ASSUME Typed, NEW k \in Keys, Steps(k) PROVE Typed'
<1> DEFINE Calls == /\ calls = [j \in Keys |-> [s \in Sections |-> calls[j][s]]]
                    /\ \A j \in Keys, s \in Sections : AnyCall(calls[j][s])
<1>0. /\ at \in [Keys -> {"idle", "queued", "identity", "billing", "summary"}]
      /\ ended \in [Keys -> BOOLEAN] /\ answer = [j \in Keys |-> answer[j]] /\ Calls
  BY DEF Typed
<1>1. CASE Ask(k)
  <2>1. Calls'
    BY <1>0, <1>1 DEF Ask, Unsent, AnyCall, States
  <2> QED
    BY <1>0, <1>1, <2>1 DEF Ask, Goto, Typed
<1>2. CASE Deadline(k) \/ GiveUp(k)
  <2>1. Calls'
    BY <1>0, <1>2 DEF Deadline, GiveUp
  <2>2. /\ at' \in [Keys -> {"idle", "queued", "identity", "billing", "summary"}]
        /\ ended' \in [Keys -> BOOLEAN] /\ answer' = [j \in Keys |-> answer'[j]]
    BY <1>0, <1>2 DEF Deadline, GiveUp, Goto
  <2> QED
    BY <2>1, <2>2 DEF Typed
<1>3. ASSUME NEW S \in SUBSET Sections, NEW o, NEW t, Send(k, S, o, t) PROVE Calls'
  <2>1. ASSUME NEW s \in S PROVE AnyCall(calls'[k][s])
    <3>1. calls'[k][s] = [state |-> "out", org |-> o, since |-> t, data |-> None]
      BY <1>3, SendSends
    <3> QED
      BY <3>1 DEF AnyCall, States
  <2>2. \A s \in Sections \ S : AnyCall(calls'[k][s])
    BY <1>0, <1>3, SendSends
  <2>3. \A j \in Keys \ {k}, s \in Sections : AnyCall(calls'[j][s])
    BY <1>0, <1>3, SendSends
  <2> QED
    BY <1>3, <2>1, <2>2, <2>3, SendSends
<1>4. CASE Enter(k) \/ Identified(k) \/ Summarize(k)
  <2>1. {"identity"} \subseteq Sections /\ {"credits", "subscription"} \subseteq Sections
        /\ {"summary"} \subseteq Sections
    BY DEF Sections
  <2>2. Calls'
    BY <1>3, <1>4, <2>1 DEF Enter, Identified, Summarize
  <2> QED
    BY <1>0, <1>4, <2>2 DEF Enter, Identified, Summarize, Goto, Typed
<1>5. CASE Finish(k)
  BY <1>0, <1>5 DEF Finish, Goto, Typed
<1>6. ASSUME NEW s \in Sections, CallReturns(k, s) PROVE Typed'
  <2>1. Calls'
    <3>1. ASSUME NEW j \in Keys, NEW z \in Sections PROVE AnyCall(calls'[j][z])
      <4>1. CASE j # k \/ z # s
        <5>1. calls'[j][z] = calls[j][z]
          BY <1>6, <4>1, ReturnReturns
        <5> QED
          BY <1>0, <5>1
      <4>2. CASE j = k /\ z = s
        BY <1>6, <4>2, ReturnReturns
      <4> QED
        BY <4>1, <4>2
    <3> QED
      BY <1>6, <3>1, ReturnReturns
  <2>2. UNCHANGED <<at, ended, answer>>
    BY <1>6, ReturnReturns
  <2> QED
    BY <1>0, <2>1, <2>2 DEF Typed
<1> QED
  BY <1>1, <1>2, <1>4, <1>5, <1>6 DEF Steps

LEMMA StagedStep ==
  ASSUME Typed, NEW k \in Keys, Staged(k), CutByTimeout(k), Steps(k)
  PROVE  Staged(k)' /\ CutByTimeout(k)'
<1>0. "identity" \in Sections /\ "subscription" \in Sections /\ "summary" \in Sections
      /\ Billing \subseteq Sections /\ "identity" \notin Billing /\ "summary" \notin Billing
      /\ "subscription" \in Billing
  BY DEF Sections, Billing
<1>9. {"identity"} \in SUBSET Sections /\ Billing \in SUBSET Sections /\ {"summary"} \in SUBSET Sections
  BY <1>0
<1>1. CASE Ask(k)
  <2>1. at'[k] = "queued" /\ \A s \in Sections : calls'[k][s].state = "unsent"
    BY <1>1 DEF Ask, Goto, Typed, Unsent
  <2> QED
    BY <2>1 DEF Staged, CutByTimeout, Asked
<1>2. CASE Deadline(k)
  BY <1>2 DEF Deadline, Typed, Staged, CutByTimeout, Asked, Back, DataOf
<1>3. CASE GiveUp(k)
  BY <1>3 DEF GiveUp, Goto, Typed, Staged, CutByTimeout, Asked, Back, DataOf
<1>4. CASE Enter(k)
  <2>1. Send(k, {"identity"}, None, None) /\ at'[k] = "identity" /\ ended' = ended /\ at[k] = "queued"
    BY <1>4 DEF Enter, Goto, Typed
  <2>2. calls'[k]["identity"].state = "out"
        /\ \A s \in Sections \ {"identity"} : calls'[k][s] = calls[k][s]
    BY <1>9, <2>1, SendSends DEF Send, Typed
  <2> QED
    BY <1>0, <2>1, <2>2 DEF Staged, CutByTimeout, Asked, Back, DataOf
<1>5. CASE Identified(k)
  <2>1. /\ Send(k, Billing, DataOf(k, "identity"), None) /\ at[k] = "identity" /\ at'[k] = "billing"
        /\ ended' = ended /\ Back(k, "identity")
    BY <1>5 DEF Identified, Goto, Typed, Billing
  <2>2. /\ \A s \in Billing : calls'[k][s] =
             [state |-> "out", org |-> DataOf(k, "identity"), since |-> None, data |-> None]
        /\ \A s \in Sections \ Billing : calls'[k][s] = calls[k][s]
    BY <1>9, <2>1, SendSends DEF Send, Typed
  <2> QED
    BY <1>0, <2>1, <2>2 DEF Staged, CutByTimeout, Asked, Back, DataOf
<1>6. CASE Summarize(k)
  <2>1. /\ Send(k, {"summary"}, DataOf(k, "identity"), DataOf(k, "subscription"))
        /\ at[k] = "billing" /\ at'[k] = "summary" /\ ended' = ended
        /\ \A s \in Billing : Back(k, s)
    BY <1>6 DEF Summarize, Goto, Typed, Billing, Joined
  <2>2. /\ calls'[k]["summary"] =
             [state |-> "out", org |-> DataOf(k, "identity"), since |-> DataOf(k, "subscription"), data |-> None]
        /\ \A s \in Sections \ {"summary"} : calls'[k][s] = calls[k][s]
    BY <1>9, <2>1, SendSends DEF Send, Typed
  <2> QED
    BY <1>0, <2>1, <2>2 DEF Staged, CutByTimeout, Asked, Back, DataOf
<1>7. CASE Finish(k)
  <2>1. at'[k] = "idle"
    BY <1>7 DEF Finish, Goto, Typed
  <2> QED
    BY <2>1 DEF Staged, CutByTimeout, Asked
<1>8. ASSUME NEW s \in Sections, CallReturns(k, s) PROVE Staged(k)' /\ CutByTimeout(k)'
  <2> USE DEF Staged, CutByTimeout, Asked, Back, DataOf
  <2>1. /\ UNCHANGED <<at, ended>> /\ calls[k][s].state = "out"
        /\ \A z \in Sections \ {s} : calls'[k][z] = calls[k][z]
        /\ calls'[k][s].org = calls[k][s].org /\ calls'[k][s].since = calls[k][s].since
        /\ calls'[k][s].state \notin {"unsent", "out"}
        /\ calls'[k][s].state = "cut" => ended[k]
    BY <1>8, ReturnReturns
  <2>2. Staged(k)'
    <3>1. at[k] = "identity" => Asked(k, {"identity"})'
      BY <1>0, <2>1
    <3>2. CASE at[k] \in {"billing", "summary"}
      <4>1. s # "identity" /\ calls'[k]["identity"] = calls[k]["identity"]
        BY <1>0, <2>1, <3>2
      <4>2. \A z \in Billing : calls'[k][z].org = DataOf(k, "identity") /\ calls'[k][z].state # "unsent"
        BY <1>0, <2>1, <3>2
      <4>3. CASE at[k] = "summary"
        <5>1. s \notin Billing /\ \A z \in Billing : calls'[k][z] = calls[k][z]
          BY <1>0, <2>1, <4>3
        <5>2. calls'[k]["summary"].org = calls[k]["summary"].org
              /\ calls'[k]["summary"].since = calls[k]["summary"].since
              /\ calls'[k]["summary"].state # "unsent"
          BY <1>0, <2>1, <4>3
        <5> QED
          BY <1>0, <2>1, <4>1, <4>2, <4>3, <5>1, <5>2
      <4> QED
        BY <2>1, <3>2, <4>1, <4>2, <4>3
    <3>3. CASE at[k] \notin {"billing", "summary"}
      BY <2>1, <3>1, <3>3
    <3> QED
      BY <3>2, <3>3
  <2>3. CutByTimeout(k)'
    BY <2>1
  <2> QED
    BY <2>2, <2>3
<1> QED
  BY <1>1, <1>2, <1>3, <1>4, <1>5, <1>6, <1>7, <1>8 DEF Steps

LEMMA WholeStep ==
  ASSUME Typed, NEW k \in Keys, Staged(k), CutByTimeout(k), Whole(answer[k]), Steps(k)
  PROVE  Whole(answer'[k])
<1>1. CASE Ask(k)
  <2>1. answer'[k] = Nothing
    BY <1>1 DEF Ask, Typed
  <2> QED
    BY <2>1 DEF Whole, Nothing
<1>2. CASE GiveUp(k)
  <2>1. answer'[k] = Error
    BY <1>2 DEF GiveUp, Typed
  <2> QED
    BY <2>1 DEF Whole, Error
<1>3. CASE Finish(k)
  <2>1. answer'[k] = Outcome(k) /\ at[k] = "summary" /\ Back(k, "summary")
    BY <1>3 DEF Finish, Typed
  <2>2. CASE ended[k]
    BY <2>1, <2>2 DEF Outcome, Error, Whole
  <2>3. CASE ~ended[k]
    <3>1. answer'[k].parts = calls[k]
      BY <2>1, <2>3 DEF Outcome, Parts
    <3>2. ASSUME NEW s \in Sections PROVE calls[k][s].state \in {"ok", "failed"}
      <4>1. Back(k, s)
        BY <2>1 DEF Staged, Sections, Billing
      <4>2. calls[k][s].state \in States /\ calls[k][s].state # "cut"
        BY <2>1, <2>3 DEF Typed, AnyCall, CutByTimeout
      <4> QED
        BY <4>1, <4>2 DEF Back, States
    <3>3. \A s \in Sections \ {"identity"} : calls[k][s].org = DataOf(k, "identity")
      BY <2>1 DEF Staged, Sections, Billing
    <3>4. calls[k]["summary"].since = DataOf(k, "subscription")
      BY <2>1 DEF Staged
    <3> QED
      BY <3>1, <3>2, <3>3, <3>4 DEF Whole, DataOf
  <2> QED
    BY <2>2, <2>3
<1>4. CASE Deadline(k) \/ Enter(k) \/ Identified(k) \/ Summarize(k)
  BY <1>4 DEF Deadline, Enter, Identified, Summarize
<1>5. ASSUME NEW s \in Sections, CallReturns(k, s) PROVE Whole(answer'[k])
  BY <1>5 DEF CallReturns
<1> QED
  BY <1>1, <1>2, <1>3, <1>4, <1>5 DEF Steps

-----------------------------------------------------------------------------
\* What the dashboard is shown of an account is of one organization and one period, and
\* lacks only what the upstream failed, for any keys, slots and timeouts.
THEOREM AnswersAreWholeAlways == Spec => []AnswersAreWhole
<1>1. IInv /\ [Next]_vars => IInv'
  <2> SUFFICES ASSUME IInv, [Next]_vars PROVE IInv'
    OBVIOUS
  <2>1. CASE UNCHANGED vars
    BY <2>1 DEF IInv, vars, Typed, Staged, CutByTimeout, Asked, Back, DataOf
  <2>2. ASSUME NEW k \in Keys, Steps(k) PROVE IInv'
    <3>1. Typed'
      BY <2>2, TypedStep DEF IInv
    <3>2. Staged(k)' /\ CutByTimeout(k)' /\ Whole(answer[k])'
      BY <2>2, StagedStep, WholeStep DEF IInv
    <3>3. ASSUME NEW j \in Keys \ {k} PROVE Staged(j)' /\ CutByTimeout(j)' /\ Whole(answer[j])'
      <4>1. Same(j)
        BY <2>2, OthersSame DEF IInv
      <4>2. Staged(j) /\ CutByTimeout(j) /\ Whole(answer[j])
        BY DEF IInv
      <4>3. "identity" \in Sections /\ "subscription" \in Sections /\ "summary" \in Sections
            /\ Billing \subseteq Sections
        BY DEF Sections, Billing
      <4>4. Staged(j)'
        BY <4>1, <4>2, <4>3 DEF Same, Staged, Asked, Back, DataOf
      <4> QED
        BY <4>1, <4>2, <4>4 DEF Same, CutByTimeout
    <3> QED
      BY <3>1, <3>2, <3>3 DEF IInv
  <2> QED
    BY <2>1, <2>2 DEF Next, Steps
<1>2. IInv => AnswersAreWhole
  BY DEF IInv, Whole, AnswersAreWhole
<1> QED
  BY <1>1, <1>2, InitIInv, PTL DEF Spec

-----------------------------------------------------------------------------
(* The model catalog. *)

\* A set of naturals with 0 and each member's successor has them all.
LEMMA NatSetInduction ==
  ASSUME NEW T \in SUBSET Nat, 0 \in T, \A n \in T : n + 1 \in T
  PROVE  T = Nat
<1> DEFINE Less == OpToRel(<, Nat)
           U == Nat \ T
<1>0. Less = {p \in Nat \X Nat : p[1] < p[2]}
  BY DEF OpToRel
<1>1. IsWellFoundedOn(Less, Nat)
  BY NatLessThanWellFounded
<1> HIDE DEF Less
<1>2. SUFFICES ASSUME U # {} PROVE FALSE
  OBVIOUS
<1>3. PICK x \in U : \A y \in U : ~(<<y, x>> \in Less)
  BY <1>1, <1>2, WFMin
<1>4. x # 0
  OBVIOUS
<1>5. x - 1 \in U
  <2>1. x - 1 \in Nat /\ (x - 1) + 1 = x
    BY <1>4
  <2> QED BY <2>1
<1>6. <<x - 1, x>> \in Less
  BY <1>0, <1>5
<1> QED BY <1>3, <1>5, <1>6

\* The requests that hold an entry.
Holders(e) == {r \in Requests : holds[r] = e}

CatalogTyped ==
  /\ entries \in [Accounts -> 0..MaxEntries]
  /\ owner = [e \in Entries |-> owner[e]]
  /\ users \in [Entries -> Int]
  /\ cache \in [Entries -> [has : BOOLEAN, fresh : BOOLEAN, flying : BOOLEAN]]
  /\ pc \in [Requests -> {"idle", "holding", "waiting", "answered"}]
  /\ holds \in [Requests -> 0..MaxEntries]

\* The order of use is a strict order of all that are kept.
Ordered ==
  /\ \A a \in Kept : <<a, a>> \notin older
  /\ \A a, b \in Kept : a # b => <<a, b>> \in older \/ <<b, a>> \in older
  /\ \A a, b, c \in Kept : <<a, b>> \in older /\ <<b, c>> \in older => <<a, c>> \in older

\* An entry in the map is its owner's; those that are held or fetched for are in it.
Owned  == \A a \in Accounts : entries[a] # 0 => owner[entries[a]] = a
InMap(e) == \E a \in Accounts : entries[a] = e
InUse  == \A e \in Entries : Holders(e) # {} \/ cache[e].flying => InMap(e)
Counted == \A e \in Entries : users[e] = Cardinality(Holders(e))
Placed == \A r \in Requests : (pc[r] = "idle" => holds[r] = 0)
                              /\ (pc[r] \in {"holding", "waiting"} => holds[r] # 0)

CatalogInv ==
  /\ CatalogTyped /\ Ordered /\ Owned /\ InUse /\ Counted /\ Placed
  /\ Cardinality(Kept) <= Capacity

\* 0 names no entry.
LEMMA EntryNumbers == Entries = {e \in 0..MaxEntries : e # 0} /\ 0 \notin Entries
  BY CapacityAssumption DEF Entries

LEMMA HoldersFinite == \A e : IsFiniteSet(Holders(e))
<1>1. \A e : Holders(e) \subseteq Requests
  BY DEF Holders
<1> QED  BY <1>1, FiniteAssumption, FS_Subset

LEMMA KeptFinite == IsFiniteSet(Kept)
<1>1. Kept \subseteq Accounts
  BY DEF Kept
<1> QED  BY <1>1, FiniteAssumption, FS_Subset

\* Some of a strictly ordered finite set is before all the rest.
LEMMA OldestExists ==
  ASSUME Ordered, NEW S \in SUBSET Kept, S # {}
  PROVE  \E a \in S : Oldest(S) = {a}
<1> DEFINE Least(R, a) == a \in R /\ \A b \in R \ {a} : <<a, b>> \in older
           T == {n \in Nat : \A R \in SUBSET Kept : Cardinality(R) = n /\ R # {} => \E a : Least(R, a)}
<1>1. \A R \in SUBSET Kept : IsFiniteSet(R) /\ Cardinality(R) \in Nat
  BY KeptFinite, FS_Subset, FS_CardinalityType
<1>2. 0 \in T
  BY <1>1, FS_EmptySet
<1>3. ASSUME NEW n \in T PROVE n + 1 \in T
  <2>1. ASSUME NEW R \in SUBSET Kept, Cardinality(R) = n + 1, R # {} PROVE \E a : Least(R, a)
    <3> PICK x : x \in R
      BY <2>1
    <3>1. Cardinality(R \ {x}) = n /\ R \ {x} \in SUBSET Kept
      BY <1>1, <2>1, FS_RemoveElement
    <3>2. CASE R \ {x} = {}
      <4>1. Least(R, x)
        BY <3>2
      <4> QED  BY <4>1
    <3>3. CASE R \ {x} # {}
      <4> PICK y : Least(R \ {x}, y)
        BY <3>1, <3>3
      <4>1. y \in R /\ y # x /\ x \in Kept /\ y \in Kept
        OBVIOUS
      <4>2. CASE <<y, x>> \in older
        <5>1. Least(R, y)
          BY <4>1, <4>2
        <5> QED  BY <5>1
      <4>3. CASE <<x, y>> \in older
        <5>1. Least(R, x)
          <6>1. \A b \in R \ {x} : b # y => <<y, b>> \in older /\ b \in Kept
            OBVIOUS
          <6> QED  BY <4>1, <4>3, <6>1 DEF Ordered
        <5> QED  BY <5>1
      <4> QED  BY <4>1, <4>2, <4>3 DEF Ordered
    <3> QED  BY <3>2, <3>3
  <2> QED  BY <2>1
<1>4. T = Nat
  <2> HIDE DEF T
  <2>1. T \in SUBSET Nat
    BY DEF T
  <2> QED  BY <1>2, <1>3, <2>1, NatSetInduction
<1>5. PICK a : Least(S, a)
  BY <1>1, <1>4
<1>6. \A b \in S : Least(S, b) => b = a
  <2> TAKE b \in S
  <2> SUFFICES ASSUME Least(S, b), b # a PROVE FALSE
    OBVIOUS
  <2>1. <<a, b>> \in older /\ <<b, a>> \in older /\ a \in Kept /\ b \in Kept
    BY <1>5
  <2> QED  BY <2>1 DEF Ordered
<1>7. Oldest(S) = {a}
  BY <1>5, <1>6 DEF Oldest
<1> QED  BY <1>5, <1>7

\* A use keeps the order one.
LEMMA UseOrders ==
  ASSUME Ordered, NEW kept \in SUBSET Kept, NEW a,
         older' = Used(a, kept), Kept' = kept \cup {a}
  PROVE  Ordered'
<1> DEFINE rest == kept \ {a}
<1>1. \A b, c : <<b, c>> \in older' <=> b \in rest /\ (c = a \/ (c \in rest /\ <<b, c>> \in older))
  BY DEF Used
<1>2. Kept' = rest \cup {a} /\ a \notin rest
  OBVIOUS
<1> HIDE DEF rest
<1>3. rest \subseteq Kept
  BY DEF rest
<1> QED  BY <1>1, <1>2, <1>3 DEF Ordered

\* Nothing is kept or held at first.
LEMMA CatalogInit == InitCatalog => CatalogInv
<1> SUFFICES ASSUME InitCatalog PROVE CatalogInv
  OBVIOUS
<1>1. CatalogTyped
  BY CapacityAssumption DEF InitCatalog, CatalogTyped, Cold, Entries
<1>2. Kept = {} /\ Cardinality(Kept) <= Capacity
  BY FS_EmptySet, CapacityAssumption DEF InitCatalog, Kept
<1>3. \A e \in Entries : Holders(e) = {} /\ ~cache[e].flying
  BY EntryNumbers DEF InitCatalog, Holders, Cold
<1>4. Counted
  BY <1>3, FS_EmptySet DEF InitCatalog, Counted
<1> QED  BY <1>1, <1>2, <1>3, <1>4 DEF CatalogInv, InitCatalog, Ordered, Owned, InUse, Placed

\* A step that leaves the map and who holds what alone.
LEMMA MapKept ==
  ASSUME CatalogInv, UNCHANGED <<catalog, holds>>, CatalogTyped', Placed',
         \A e \in Entries : cache'[e].flying => cache[e].flying \/ Holders(e) # {}
  PROVE  CatalogInv'
<1>1. entries' = entries /\ older' = older /\ owner' = owner /\ users' = users /\ holds' = holds
  BY DEF catalog
<1>2. Kept' = Kept /\ \A e : Holders(e)' = Holders(e)
  BY <1>1 DEF Kept, Holders
<1>3. Ordered'
  BY <1>1, <1>2 DEF CatalogInv, Ordered
<1>4. Counted'
  BY <1>1, <1>2 DEF CatalogInv, Counted
<1>5. Owned' /\ InUse'
  BY <1>1, <1>2 DEF CatalogInv, Owned, InUse, InMap
<1> QED  BY <1>2, <1>3, <1>4, <1>5 DEF CatalogInv

\* One holder more or less.
LEMMA TakeHolds ==
  ASSUME CatalogTyped, NEW r \in Requests, NEW e \in Entries, Take(r, e), holds[r] = 0
  PROVE  /\ holds' \in [Requests -> 0..MaxEntries]
         /\ pc' \in [Requests -> {"idle", "holding", "waiting", "answered"}]
         /\ Holders(e)' = Holders(e) \cup {r} /\ r \notin Holders(e)
         /\ \A f \in Entries \ {e} : Holders(f)' = Holders(f)
         /\ Cardinality(Holders(e)') = Cardinality(Holders(e)) + 1
<1>1. /\ pc' = [pc EXCEPT ![r] = "holding"] /\ holds' = [holds EXCEPT ![r] = e]
      /\ e \in 0..MaxEntries /\ e # 0 /\ 0 \notin Entries
  BY EntryNumbers DEF Take
<1>2. /\ holds' \in [Requests -> 0..MaxEntries]
      /\ pc' \in [Requests -> {"idle", "holding", "waiting", "answered"}]
  BY <1>1 DEF CatalogTyped
<1>3. /\ Holders(e)' = Holders(e) \cup {r} /\ r \notin Holders(e)
      /\ \A f \in Entries \ {e} : Holders(f)' = Holders(f)
  BY <1>1 DEF CatalogTyped, Holders
<1>4. Cardinality(Holders(e) \cup {r}) = Cardinality(Holders(e)) + 1
  BY <1>3, HoldersFinite, FS_AddElement
<1> QED  BY <1>2, <1>3, <1>4

\* A request that takes an entry holds one.
LEMMA TakePlaces ==
  ASSUME CatalogInv, NEW r \in Requests, NEW e \in Entries, Take(r, e)
  PROVE  Placed'
  BY EntryNumbers DEF Take, CatalogInv, CatalogTyped, Placed

\* A request joins the users of its account's entry.
LEMMA FindStep ==
  ASSUME CatalogInv, NEW r \in Requests, NEW a \in Accounts, Find(r, a)
  PROVE  CatalogInv'
<1> PICK e \in Entries : e = entries[a]
  BY EntryNumbers DEF Find, CatalogInv, CatalogTyped
<1>1. /\ pc[r] = "idle" /\ e # 0 /\ users' = [users EXCEPT ![e] = @ + 1]
      /\ older' = Used(a, Kept) /\ Take(r, e) /\ UNCHANGED <<entries, owner, cache>>
  BY DEF Find
<1>2. holds[r] = 0
  BY <1>1 DEF CatalogInv, Placed
<1>3. Kept' = Kept \cup {a} /\ Kept' = Kept
  BY <1>1 DEF Kept
<1>4. Ordered'
  BY <1>1, <1>3, UseOrders DEF CatalogInv
<1>5. /\ holds' \in [Requests -> 0..MaxEntries]
      /\ pc' \in [Requests -> {"idle", "holding", "waiting", "answered"}]
      /\ \A f \in Entries \ {e} : Holders(f)' = Holders(f)
      /\ Cardinality(Holders(e)') = Cardinality(Holders(e)) + 1
  BY <1>1, <1>2, TakeHolds DEF CatalogInv
<1>6. CatalogTyped'
  BY <1>1, <1>5 DEF CatalogInv, CatalogTyped
<1>7. Counted'
  BY <1>1, <1>5 DEF CatalogInv, CatalogTyped, Counted
<1>8. Owned'
  BY <1>1 DEF CatalogInv, Owned
<1>9. InUse'
  BY <1>1, <1>5 DEF CatalogInv, InUse, InMap
<1>10. Placed'
  BY <1>1, TakePlaces
<1> QED  BY <1>3, <1>4, <1>6, <1>7, <1>8, <1>9, <1>10 DEF CatalogInv

\* A new entry takes a free number, and at most the place of one that nobody uses.
LEMMA CreateStep ==
  ASSUME CatalogInv, NEW r \in Requests, NEW a \in Accounts, Create(r, a)
  PROVE  CatalogInv'
<1> PICK e : e = CHOOSE f \in Free : TRUE
  OBVIOUS
<1> PICK victims : victims = IF Crowded THEN Oldest(Victims) ELSE {}
  OBVIOUS
<1>1. /\ pc[r] = "idle" /\ entries[a] = 0 /\ e \in Free
      /\ Crowded => Victims # {}
      /\ entries' = [b \in Accounts |->
           IF b = a THEN e ELSE IF b \in victims THEN 0 ELSE entries[b]]
      /\ older' = Used(a, Kept \ victims)
      /\ owner' = [owner EXCEPT ![e] = a]
      /\ users' = [users EXCEPT ![e] = 1]
      /\ cache' = [f \in Entries |-> IF f \in Free THEN Cold ELSE cache[f]]
      /\ Take(r, e)
  BY DEF Create
<1>2. /\ e \in Entries /\ e # 0 /\ e \in 0..MaxEntries
      /\ \A b \in Accounts : entries[b] # e
      /\ Holders(e) = {} /\ ~cache[e].flying
  BY <1>1, EntryNumbers DEF Free, Holders
<1>3. /\ victims \subseteq Kept
      /\ \A b \in victims : Holders(entries[b]) = {} /\ ~cache[entries[b]].flying
      /\ Crowded => \E v \in Kept : victims = {v}
  <2>1. Victims \subseteq Kept
    BY DEF Victims
  <2>2. CASE Crowded
    <3> PICK v \in Victims : victims = {v}
      BY <1>1, <2>1, <2>2, OldestExists DEF CatalogInv
    <3>1. v \in Kept /\ entries[v] \in Entries /\ users[entries[v]] = 0 /\ ~cache[entries[v]].flying
      BY EntryNumbers DEF Victims, Evictable, Kept, CatalogInv, CatalogTyped
    <3>2. Holders(entries[v]) = {}
      BY <3>1, HoldersFinite, FS_EmptySet DEF CatalogInv, Counted
    <3> QED  BY <3>1, <3>2
  <2>3. CASE ~Crowded
    BY <2>3
  <2> QED  BY <2>2, <2>3
<1>4. Kept' = (Kept \ victims) \cup {a} /\ a \notin Kept
  BY <1>1, <1>2 DEF Kept
<1>5. Ordered'
  BY <1>1, <1>4, UseOrders DEF CatalogInv
<1>6. Cardinality(Kept') <= Capacity
  <2>1. /\ IsFiniteSet(Kept) /\ Cardinality(Kept) \in Nat /\ Capacity \in Nat
        /\ IsFiniteSet(Kept \ victims) /\ a \notin Kept \ victims
    BY <1>4, KeptFinite, FS_CardinalityType, FS_Subset, CapacityAssumption
  <2>2. Cardinality(Kept') = Cardinality(Kept \ victims) + 1
    BY <1>4, <2>1, FS_AddElement
  <2>3. Cardinality(Kept \ victims) < Capacity
    <3>1. CASE Crowded
      <4> PICK v \in Kept : victims = {v}
        BY <1>3, <3>1
      <4>1. Cardinality(Kept \ victims) = Cardinality(Kept) - 1
        BY <2>1, FS_RemoveElement
      <4> QED  BY <2>1, <4>1 DEF CatalogInv
    <3>2. CASE ~Crowded
      <4>1. Kept \ victims = Kept
        BY <3>2
      <4> QED  BY <2>1, <3>2, <4>1 DEF Crowded
    <3> QED  BY <3>1, <3>2
  <2>4. Cardinality(Kept \ victims) \in Nat
    BY <2>1, FS_CardinalityType
  <2> QED  BY <2>1, <2>2, <2>3, <2>4
<1>7. holds[r] = 0
  BY <1>1 DEF CatalogInv, Placed
<1>8. /\ holds' \in [Requests -> 0..MaxEntries]
      /\ pc' \in [Requests -> {"idle", "holding", "waiting", "answered"}]
      /\ Holders(e)' = Holders(e) \cup {r}
      /\ \A f \in Entries \ {e} : Holders(f)' = Holders(f)
      /\ Cardinality(Holders(e)') = Cardinality(Holders(e)) + 1
  BY <1>1, <1>2, <1>7, TakeHolds DEF CatalogInv
<1>9. CatalogTyped'
  <2>1. Cold \in [has : BOOLEAN, fresh : BOOLEAN, flying : BOOLEAN]
    BY DEF Cold
  <2>2. cache' \in [Entries -> [has : BOOLEAN, fresh : BOOLEAN, flying : BOOLEAN]]
    BY <1>1, <2>1 DEF CatalogInv, CatalogTyped
  <2>3. entries' \in [Accounts -> 0..MaxEntries]
    <3> DEFINE new(b) == IF b = a THEN e ELSE IF b \in victims THEN 0 ELSE entries[b]
    <3>1. \A b \in Accounts : new(b) \in 0..MaxEntries
      BY <1>2, CapacityAssumption DEF CatalogInv, CatalogTyped
    <3>2. entries' = [b \in Accounts |-> new(b)]
      BY <1>1
    <3> HIDE DEF new
    <3> QED  BY <3>1, <3>2
  <2>4. users' \in [Entries -> Int]
    <3>1. users' = [users EXCEPT ![e] = 1]
      BY <1>1
    <3>2. users \in [Entries -> Int]
      BY DEF CatalogInv, CatalogTyped
    <3> PICK one \in Int : one = 1
      OBVIOUS
    <3>3. users' = [users EXCEPT ![e] = one]
      BY <3>1
    <3> QED  BY <3>2, <3>3
  <2>5. owner' = [f \in Entries |-> owner'[f]]
    BY <1>1 DEF CatalogInv, CatalogTyped
  <2> QED  BY <1>8, <2>2, <2>3, <2>4, <2>5 DEF CatalogTyped
<1>10. Counted'
  <2>1. Cardinality(Holders(e)') = 1
    BY <1>2, <1>8, FS_EmptySet
  <2> QED  BY <1>1, <1>8, <2>1 DEF CatalogInv, CatalogTyped, Counted
<1>11. Owned'
  <2>1. ASSUME NEW b \in Accounts, entries'[b] # 0 PROVE owner'[entries'[b]] = b
    <3>1. CASE b = a
      BY <1>1, <1>2, <3>1 DEF CatalogInv, CatalogTyped
    <3>2. CASE b # a
      <4>1. entries'[b] = entries[b] /\ entries[b] # e /\ entries[b] # 0
        BY <1>1, <1>2, <2>1, <3>2
      <4>2. owner'[entries[b]] = owner[entries[b]]
        BY <1>1, <4>1, EntryNumbers DEF CatalogInv, CatalogTyped
      <4> QED  BY <4>1, <4>2 DEF CatalogInv, Owned
    <3> QED  BY <3>1, <3>2
  <2> QED  BY <2>1 DEF Owned
<1>12. InUse'
  <2>1. ASSUME NEW f \in Entries, Holders(f)' # {} \/ cache'[f].flying PROVE InMap(f)'
    <3>1. CASE f = e
      BY <1>1, <3>1 DEF InMap
    <3>2. CASE f # e
      <4>1. Holders(f) # {} \/ cache[f].flying
        BY <1>1, <1>8, <2>1, <3>2 DEF Cold
      <4> PICK b \in Accounts : entries[b] = f
        BY <4>1 DEF CatalogInv, InUse, InMap
      <4>2. b \notin victims
        BY <1>3, <4>1
      <4>3. b # a
        BY <1>1, EntryNumbers
      <4>4. entries'[b] = f
        BY <1>1, <4>2, <4>3
      <4> QED  BY <4>4 DEF InMap
    <3> QED  BY <3>1, <3>2
  <2> QED  BY <2>1 DEF InUse
<1>13. Placed'
  BY <1>1, <1>2, TakePlaces
<1> QED  BY <1>5, <1>6, <1>9, <1>10, <1>11, <1>12, <1>13 DEF CatalogInv

\* A request gives back what it holds.
LEMMA ReleaseStep ==
  ASSUME CatalogInv, NEW r \in Requests, Release(r)
  PROVE  CatalogInv'
<1> PICK e \in 0..MaxEntries : e = holds[r]
  BY DEF CatalogInv, CatalogTyped
<1>1. /\ pc[r] = "answered" /\ pc' = [pc EXCEPT ![r] = "idle"] /\ holds' = [holds EXCEPT ![r] = 0]
      /\ users' = IF e = 0 THEN users ELSE [users EXCEPT ![e] = @ - 1]
      /\ UNCHANGED <<entries, older, owner, cache>>
  BY DEF Release
<1>2. Kept' = Kept
  BY <1>1 DEF Kept
<1>3. CatalogTyped'
  BY <1>1, EntryNumbers, CapacityAssumption DEF CatalogInv, CatalogTyped
<1>4. \A f \in Entries : Holders(f)' = IF f = e THEN Holders(f) \ {r} ELSE Holders(f)
  BY <1>1, EntryNumbers DEF CatalogInv, CatalogTyped, Holders
<1>5. e \in Entries => Cardinality(Holders(e) \ {r}) = Cardinality(Holders(e)) - 1
  <2>1. r \in Holders(e)
    BY DEF Holders
  <2> QED  BY <2>1, HoldersFinite, FS_RemoveElement
<1>6. Counted'
  <2> SUFFICES ASSUME NEW f \in Entries PROVE users'[f] = Cardinality(Holders(f)')
    BY DEF Counted
  <2>1. CASE f = e
    BY <1>1, <1>4, <1>5, <2>1, EntryNumbers DEF CatalogInv, CatalogTyped, Counted
  <2>2. CASE f # e
    BY <1>1, <1>4, <2>2 DEF CatalogInv, CatalogTyped, Counted
  <2> QED  BY <2>1, <2>2
<1>7. Ordered'
  BY <1>1, <1>2 DEF CatalogInv, Ordered
<1>8. Owned' /\ InUse'
  BY <1>1, <1>4 DEF CatalogInv, Owned, InUse, InMap
<1>9. Placed'
  BY <1>1 DEF CatalogInv, CatalogTyped, Placed
<1> QED  BY <1>2, <1>3, <1>6, <1>7, <1>8, <1>9 DEF CatalogInv

\* The steps that leave the map alone.
LEMMA CacheStep ==
  ASSUME CatalogInv,
         \/ \E r \in Requests : Get(r) \/ Leave(r) \/ \E a \in Accounts : NoRoom(r, a)
         \/ \E e \in Entries : Expire(e) \/ \E ok \in BOOLEAN : Land(e, ok)
  PROVE  CatalogInv'
<1>1. CASE \E r \in Requests : Get(r)
  <2> PICK r \in Requests : Get(r)
    BY <1>1
  <2> PICK e \in Entries : e = holds[r]
    BY EntryNumbers DEF Get, CatalogInv, CatalogTyped, Placed
  <2>1. /\ pc[r] = "holding" /\ UNCHANGED <<catalog, holds>>
        /\ cache' = [cache EXCEPT ![e].flying = @ \/ ~cache[e].fresh]
        /\ pc' = [pc EXCEPT ![r] = "answered"] \/ pc' = [pc EXCEPT ![r] = "waiting"]
    BY DEF Get, Answer
  <2>2. r \in Holders(e)
    BY DEF Holders
  <2>3. cache' \in [Entries -> [has : BOOLEAN, fresh : BOOLEAN, flying : BOOLEAN]]
        /\ \A f \in Entries \ {e} : cache'[f] = cache[f]
    <3>1. cache[e] \in [has : BOOLEAN, fresh : BOOLEAN, flying : BOOLEAN]
      BY DEF CatalogInv, CatalogTyped
    <3>2. [cache[e] EXCEPT !.flying = @ \/ ~cache[e].fresh]
            \in [has : BOOLEAN, fresh : BOOLEAN, flying : BOOLEAN]
      BY <3>1, Zenon
    <3>3. cache' = [cache EXCEPT ![e] = [cache[e] EXCEPT !.flying = @ \/ ~cache[e].fresh]]
      BY <2>1 DEF CatalogInv, CatalogTyped
    <3> QED  BY <3>2, <3>3 DEF CatalogInv, CatalogTyped
  <2>4. CatalogTyped'
    BY <2>1, <2>3 DEF CatalogInv, CatalogTyped, catalog
  <2>5. Placed'
    BY <2>1 DEF CatalogInv, CatalogTyped, Placed
  <2> QED  BY <2>1, <2>2, <2>3, <2>4, <2>5, MapKept
<1>2. CASE \E r \in Requests : Leave(r)
  <2> PICK r \in Requests : Leave(r)
    BY <1>2
  <2>1. /\ pc[r] \in {"holding", "waiting"} /\ UNCHANGED <<catalog, cache, holds>>
        /\ pc' = [pc EXCEPT ![r] = "answered"]
    BY DEF Leave, Answer
  <2>2. CatalogTyped' /\ Placed'
    BY <2>1 DEF CatalogInv, CatalogTyped, Placed, catalog
  <2> QED  BY <2>1, <2>2, MapKept
<1>3. CASE \E r \in Requests, a \in Accounts : NoRoom(r, a)
  <2> PICK r \in Requests, a \in Accounts : NoRoom(r, a)
    BY <1>3
  <2>1. pc[r] = "idle" /\ UNCHANGED <<catalog, cache, holds>> /\ pc' = [pc EXCEPT ![r] = "answered"]
    BY DEF NoRoom, Answer
  <2>2. CatalogTyped' /\ Placed'
    BY <2>1 DEF CatalogInv, CatalogTyped, Placed, catalog
  <2> QED  BY <2>1, <2>2, MapKept
<1>4. CASE \E e \in Entries : Expire(e)
  <2> PICK e \in Entries : Expire(e)
    BY <1>4
  <2>1. UNCHANGED <<catalog, requests>> /\ cache' = [cache EXCEPT ![e].fresh = FALSE]
    BY DEF Expire
  <2>2. /\ cache' \in [Entries -> [has : BOOLEAN, fresh : BOOLEAN, flying : BOOLEAN]]
        /\ \A f \in Entries : cache'[f].flying = cache[f].flying
    BY <2>1 DEF CatalogInv, CatalogTyped
  <2>3. CatalogTyped' /\ Placed'
    BY <2>1, <2>2 DEF CatalogInv, CatalogTyped, Placed, catalog, requests
  <2> QED  BY <2>1, <2>2, <2>3, MapKept DEF requests
<1>5. CASE \E e \in Entries, ok \in BOOLEAN : Land(e, ok)
  <2> PICK e \in Entries, ok \in BOOLEAN : Land(e, ok)
    BY <1>5
  <2>1. /\ UNCHANGED <<catalog, holds>>
        /\ cache' = [cache EXCEPT ![e] = [has |-> ok \/ cache[e].has, fresh |-> TRUE, flying |-> FALSE]]
        /\ pc' = [r \in Requests |-> IF r \in Waiters(e) THEN "answered" ELSE pc[r]]
    BY DEF Land
  <2>2. /\ cache' \in [Entries -> [has : BOOLEAN, fresh : BOOLEAN, flying : BOOLEAN]]
        /\ \A f \in Entries : cache'[f].flying => cache[f].flying
    <3>1. (ok \/ cache[e].has) \in BOOLEAN
      OBVIOUS
    <3> DEFINE landed == [has |-> ok \/ cache[e].has, fresh |-> TRUE, flying |-> FALSE]
    <3>2. landed \in [has : BOOLEAN, fresh : BOOLEAN, flying : BOOLEAN] /\ ~landed.flying
      BY <3>1
    <3> HIDE DEF landed
    <3>3. cache' = [cache EXCEPT ![e] = landed]
      BY <2>1 DEF landed
    <3> QED  BY <3>2, <3>3 DEF CatalogInv, CatalogTyped
  <2>3. CatalogTyped' /\ Placed'
    BY <2>1, <2>2 DEF CatalogInv, CatalogTyped, Placed, catalog
  <2> QED  BY <2>1, <2>2, <2>3, MapKept
<1> QED  BY <1>1, <1>2, <1>3, <1>4, <1>5

LEMMA CatalogNext == CatalogInv /\ [NextCatalog]_allCatalog => CatalogInv'
<1> SUFFICES ASSUME CatalogInv, [NextCatalog]_allCatalog PROVE CatalogInv'
  OBVIOUS
<1>1. CASE \E r \in Requests, a \in Accounts : Find(r, a)
  BY <1>1, FindStep
<1>2. CASE \E r \in Requests, a \in Accounts : Create(r, a)
  BY <1>2, CreateStep
<1>3. CASE \E r \in Requests : Release(r)
  BY <1>3, ReleaseStep
<1>4. CASE \/ \E r \in Requests : Get(r) \/ Leave(r) \/ \E a \in Accounts : NoRoom(r, a)
           \/ \E e \in Entries : Expire(e) \/ \E ok \in BOOLEAN : Land(e, ok)
  BY <1>4, CacheStep
<1>5. CASE UNCHANGED allCatalog
  <2>1. UNCHANGED <<catalog, cache, pc, holds>>
    BY <1>5 DEF allCatalog, requests
  <2>2. CatalogTyped' /\ Placed'
    BY <2>1 DEF CatalogInv, CatalogTyped, Placed, catalog
  <2> QED  BY <2>1, <2>2, MapKept
<1> QED  BY <1>1, <1>2, <1>3, <1>4, <1>5 DEF NextCatalog

LEMMA CatalogAlways == SpecCatalog => []CatalogInv
  BY CatalogInit, CatalogNext, PTL DEF SpecCatalog

\* Whatever an account fetches for is the entry it has in the map.
LEMMA OneFetch == CatalogInv => OneFetchPerAccount
<1> SUFFICES ASSUME CatalogInv, NEW a \in Accounts
             PROVE  Cardinality({e \in Entries : owner[e] = a /\ cache[e].flying}) <= 1
  BY DEF OneFetchPerAccount
<1> DEFINE S == {e \in Entries : owner[e] = a /\ cache[e].flying}
<1>1. S \subseteq {entries[a]}
  <2> SUFFICES ASSUME NEW e \in S PROVE e = entries[a]
    OBVIOUS
  <2> PICK b \in Accounts : entries[b] = e
    BY DEF CatalogInv, InUse, InMap
  <2>1. owner[e] = b
    BY EntryNumbers DEF CatalogInv, Owned
  <2> QED  BY <2>1
<1> HIDE DEF S
<1>2. S = {} \/ S = {entries[a]}
  BY <1>1
<1>3. Cardinality(S) <= 1
  <2>1. CASE S = {}
    BY <2>1, FS_EmptySet
  <2>2. CASE S = {entries[a]}
    <3>1. Cardinality({entries[a]}) = 1
      BY FS_Singleton
    <3> QED  BY <2>2, <3>1
  <2> QED  BY <1>2, <2>1, <2>2
<1> QED  BY <1>3 DEF S

\* An entry with holders is where its owner's next request will look.
LEMMA EntriesStay == CatalogInv => HeldEntriesStay
<1> SUFFICES ASSUME CatalogInv PROVE HeldEntriesStay
  OBVIOUS
<1>1. \A S \in SUBSET Kept : S # {} => \E a \in S : Oldest(S) = {a}
  BY OldestExists DEF CatalogInv
<1>2. ASSUME NEW e \in Entries
      PROVE  users[e] = Cardinality(Holders(e)) /\ (Holders(e) # {} => entries[owner[e]] = e)
  <2>1. ASSUME Holders(e) # {} PROVE entries[owner[e]] = e
    <3> PICK a \in Accounts : entries[a] = e
      BY <2>1 DEF CatalogInv, InUse, InMap
    <3>1. owner[e] = a
      BY EntryNumbers DEF CatalogInv, Owned
    <3> QED  BY <3>1
  <2> QED  BY <2>1 DEF CatalogInv, Counted
<1> QED  BY <1>1, <1>2 DEF CatalogInv, HeldEntriesStay, Holders

\* No account has two fetches in the air, whatever was evicted and by whomever the first
\* was abandoned (entry, release and CachedFetch's get).
THEOREM OneFetchPerAccountAlways == SpecCatalog => []OneFetchPerAccount
  BY CatalogAlways, OneFetch, PTL

\* The map keeps within its capacity, the entry a request holds stays in it until the
\* request releases it, and the users it counts are the requests that hold the entry.
THEOREM HeldEntriesStayAlways == SpecCatalog => []HeldEntriesStay
  BY CatalogAlways, EntriesStay, PTL

-----------------------------------------------------------------------------
(* Each entry's cache lives as one that shares its fetches may. *)

PlacesOf(e) == [r \in Requests |-> Place(r, e)]

\* What a step may do to the cache of an entry.
SharedStep(e) == Shared(e)!Next \/ Shared(e)!Drop \/ UNCHANGED Shared(e)!vars

\* Where a request is in an entry.
LEMMA PlaceIs ==
  ASSUME CatalogInv, NEW r \in Requests, NEW e \in Entries
  PROVE  /\ holds[r] # e => Place(r, e) = "away"
         /\ holds[r] = e /\ pc[r] = "holding" => Place(r, e) = "away"
         /\ holds[r] = e /\ pc[r] = "waiting" => Place(r, e) = "waiting"
         /\ holds[r] = e /\ pc[r] = "answered" => Place(r, e) = "over"
         /\ holds[r] = e => pc[r] # "idle"
  BY EntryNumbers DEF Place, CatalogInv, Placed

\* A request that moves within an entry moves in no other, and alone.
LEMMA OthersStay ==
  ASSUME NEW r \in Requests, NEW e \in Entries, NEW p,
         \A s \in Requests \ {r} : pc'[s] = pc[s] /\ holds'[s] = holds[s],
         Place(r, e)' = p
  PROVE  PlacesOf(e)' = [PlacesOf(e) EXCEPT ![r] = p]
<1>1. \A s \in Requests \ {r} : Place(s, e)' = Place(s, e)
  BY DEF Place
<1>2. PlacesOf(e)' = [s \in Requests |-> Place(s, e)']
  BY DEF PlacesOf
<1>3. [PlacesOf(e) EXCEPT ![r] = p] = [s \in Requests |-> IF s = r THEN p ELSE Place(s, e)]
  BY DEF PlacesOf
<1>4. \A s \in Requests : Place(s, e)' = IF s = r THEN p ELSE Place(s, e)
  BY <1>1
<1> QED  BY <1>2, <1>3, <1>4, Zenon

\* Nothing happens to an entry whose cache stays and in which one request stays where it
\* was, when no other moves.
LEMMA NothingHappens ==
  ASSUME NEW r \in Requests, NEW e \in Entries,
         \A s \in Requests \ {r} : pc'[s] = pc[s] /\ holds'[s] = holds[s],
         Place(r, e)' = Place(r, e), cache'[e] = cache[e]
  PROVE  SharedStep(e)
<1>1. PlacesOf(e)' = PlacesOf(e)
  <2>1. \A s \in Requests : Place(s, e)' = Place(s, e)
    BY DEF Place
  <2> QED  BY <2>1 DEF PlacesOf
<1> QED  BY <1>1 DEF SharedStep, Shared!vars, PlacesOf

\* The caches change as whole records.
LEMMA CacheRecords ==
  ASSUME CatalogInv, NEW e \in Entries
  PROVE  /\ cache[e].has \in BOOLEAN /\ cache[e].fresh \in BOOLEAN /\ cache[e].flying \in BOOLEAN
         /\ cache = [f \in Entries |-> cache[f]]
         /\ cache[e] = [has |-> cache[e].has, fresh |-> cache[e].fresh, flying |-> cache[e].flying]
  BY DEF CatalogInv, CatalogTyped

\* A request joins an entry, or makes one, or leaves the map with none.
LEMMA MapShares ==
  ASSUME CatalogInv, CatalogInv', NEW e \in Entries, NEW r \in Requests, NEW a \in Accounts,
         Find(r, a) \/ Create(r, a) \/ NoRoom(r, a)
  PROVE  SharedStep(e)
<1>1. pc[r] = "idle" /\ holds[r] = 0 /\ e # 0
  BY EntryNumbers DEF Find, Create, NoRoom, CatalogInv, Placed
<1>2. \A s \in Requests \ {r} : pc'[s] = pc[s] /\ holds'[s] = holds[s]
  BY DEF Find, Create, NoRoom, Take, Answer, CatalogInv, CatalogTyped
<1>3. Place(r, e) = "away" /\ Place(r, e)' = "away"
  <2>1. Place(r, e) = "away"
    BY <1>1, PlaceIs
  <2>2. CASE Find(r, a) \/ Create(r, a)
    <3>1. pc'[r] = "holding"
      BY <2>2 DEF Find, Create, Take, CatalogInv, CatalogTyped
    <3> QED  BY <2>1, <3>1 DEF Place
  <2>3. CASE NoRoom(r, a)
    <3>1. holds'[r] # e
      BY <1>1, <2>3 DEF NoRoom
    <3> QED  BY <2>1, <3>1 DEF Place
  <2> QED  BY <2>2, <2>3
<1>4. CASE cache'[e] = cache[e]
  BY <1>2, <1>3, <1>4, NothingHappens
<1>5. CASE cache'[e] # cache[e]
  <2>1. e \in Free /\ cache'[e] = Cold
    BY <1>5 DEF Find, Create, NoRoom
  <2>2. ~cache[e].flying /\ \A s \in Requests : Place(s, e) = "away"
    BY <2>1, PlaceIs DEF Free
  <2>3. \A s \in Requests : Place(s, e)' = "away"
    BY <1>2, <1>3, <2>2 DEF Place
  <2>4. PlacesOf(e) = [s \in Requests |-> "away"] /\ PlacesOf(e)' = PlacesOf(e)
    BY <2>2, <2>3 DEF PlacesOf
  <2>5. cache'[e].has = FALSE /\ cache'[e].fresh = FALSE /\ cache'[e].flying = cache[e].flying
    <3>1. cache[e].flying = FALSE
      BY <2>2, CacheRecords
    <3>2. Cold.has = FALSE /\ Cold.fresh = FALSE /\ Cold.flying = FALSE
      BY DEF Cold
    <3>3. cache'[e].has = FALSE /\ cache'[e].fresh = FALSE /\ cache'[e].flying = FALSE
      BY <2>1, <3>2
    <3> QED  BY <3>1, <3>3
  <2>6. Shared(e)!Drop
    BY <2>2, <2>4, <2>5 DEF Shared!Drop, PlacesOf
  <2> QED  BY <2>6 DEF SharedStep
<1> QED  BY <1>4, <1>5

\* A request looks its entry up, leaves or gives it back.
LEMMA RequestShares ==
  ASSUME CatalogInv, CatalogInv', NEW e \in Entries, NEW r \in Requests,
         Get(r) \/ Leave(r) \/ Release(r)
  PROVE  SharedStep(e)
<1>1. \A s \in Requests \ {r} : pc'[s] = pc[s] /\ holds'[s] = holds[s]
  BY DEF Get, Leave, Release, Answer, CatalogInv, CatalogTyped
<1>2. CASE holds[r] # e
  <2>1. cache'[e] = cache[e]
    BY <1>2 DEF Get, Leave, Release, CatalogInv, CatalogTyped
  <2>2. holds'[r] # e
    BY <1>2, EntryNumbers DEF Get, Leave, Release, CatalogInv, CatalogTyped
  <2> QED  BY <1>1, <1>2, <2>1, <2>2, PlaceIs, NothingHappens DEF Place
<1>3. CASE holds[r] = e
  <2>0. PlacesOf(e)[r] = Place(r, e)
    BY DEF PlacesOf
  <2>1. CASE Get(r)
    <3> DEFINE answered == cache[e].fresh \/ cache[e].has
    <3>1. /\ pc[r] = "holding" /\ holds' = holds
          /\ pc' = [pc EXCEPT ![r] = IF answered THEN "answered" ELSE "waiting"]
      BY <1>3, <2>1 DEF Get, Answer
    <3>2. /\ cache'[e].has = cache[e].has /\ cache'[e].fresh = cache[e].fresh
          /\ cache'[e].flying = (cache[e].flying \/ ~cache[e].fresh)
      <4>1. cache'[e] = [cache[e] EXCEPT !.flying = @ \/ ~cache[e].fresh]
        BY <1>3, <2>1 DEF Get, CatalogInv, CatalogTyped
      <4>2. cache[e] \in [has : BOOLEAN, fresh : BOOLEAN, flying : BOOLEAN]
        BY DEF CatalogInv, CatalogTyped
      <4> QED  BY <4>1, <4>2
    <3>3. Place(r, e) = "away" /\ Place(r, e)' = IF answered THEN "over" ELSE "waiting"
      BY <1>3, <3>1, PlaceIs DEF Place, CatalogInv, CatalogTyped
    <3>4. PlacesOf(e)' = [PlacesOf(e) EXCEPT ![r] = IF answered THEN "over" ELSE "waiting"]
      BY <1>1, <3>3, OthersStay
    <3>5. Shared(e)!Ask(r)
      BY <2>0, <3>2, <3>3, <3>4 DEF Shared!Ask, PlacesOf
    <3> QED  BY <3>5 DEF SharedStep, Shared!Next
  <2>2. CASE Leave(r)
    <3>1. /\ pc[r] \in {"holding", "waiting"} /\ holds' = holds /\ cache' = cache
          /\ pc' = [pc EXCEPT ![r] = "answered"]
      BY <2>2 DEF Leave, Answer
    <3>2. Place(r, e) \in {"away", "waiting"} /\ Place(r, e)' = "over"
      BY <1>3, <3>1, PlaceIs DEF Place, CatalogInv, CatalogTyped
    <3>3. PlacesOf(e)' = [PlacesOf(e) EXCEPT ![r] = "over"]
      BY <1>1, <3>2, OthersStay
    <3>4. Shared(e)!Leave(r)
      BY <2>0, <3>1, <3>2, <3>3 DEF Shared!Leave, PlacesOf
    <3> QED  BY <3>4 DEF SharedStep, Shared!Next
  <2>3. CASE Release(r)
    <3>1. pc[r] = "answered" /\ holds' = [holds EXCEPT ![r] = 0] /\ cache' = cache
      BY <2>3 DEF Release
    <3>2. Place(r, e) = "over" /\ Place(r, e)' = "away"
      BY <1>3, <3>1, PlaceIs, EntryNumbers DEF Place, CatalogInv, CatalogTyped
    <3>3. PlacesOf(e)' = [PlacesOf(e) EXCEPT ![r] = "away"]
      BY <1>1, <3>2, OthersStay
    <3>4. Shared(e)!Return(r)
      BY <2>0, <3>1, <3>2, <3>3 DEF Shared!Return, PlacesOf
    <3> QED  BY <3>4 DEF SharedStep, Shared!Next
  <2> QED  BY <2>1, <2>2, <2>3
<1> QED  BY <1>2, <1>3

\* A fetch ends, or time does its work, in this entry or in another.
LEMMA TimeShares ==
  ASSUME CatalogInv, CatalogInv', NEW e \in Entries, NEW f \in Entries,
         Expire(f) \/ \E ok \in BOOLEAN : Land(f, ok)
  PROVE  SharedStep(e)
<1>0. holds' = holds
  BY DEF Expire, Land, requests
<1>1. CASE Expire(f)
  <2>1. /\ PlacesOf(e)' = PlacesOf(e)
        /\ cache[f].fresh /\ cache' = [cache EXCEPT ![f].fresh = FALSE]
    BY <1>1 DEF Expire, requests, PlacesOf, Place
  <2>2. CASE f = e
    <3>1. cache'[e].has = cache[e].has /\ cache'[e].flying = cache[e].flying /\ cache'[e].fresh = FALSE
      <4>1. cache'[e] = [cache[e] EXCEPT !.fresh = FALSE]
        BY <2>1, <2>2 DEF CatalogInv, CatalogTyped
      <4>2. cache[e] \in [has : BOOLEAN, fresh : BOOLEAN, flying : BOOLEAN]
        BY DEF CatalogInv, CatalogTyped
      <4> QED  BY <4>1, <4>2
    <3>2. Shared(e)!Expire
      BY <2>1, <2>2, <3>1 DEF Shared!Expire, PlacesOf
    <3> QED  BY <3>2 DEF SharedStep, Shared!Next
  <2>3. CASE f # e
    <3>1. cache'[e] = cache[e]
      BY <2>1, <2>3, CacheRecords
    <3> QED  BY <2>1, <3>1 DEF SharedStep, Shared!vars, PlacesOf
  <2> QED  BY <2>2, <2>3
<1>2. ASSUME NEW ok \in BOOLEAN, Land(f, ok) PROVE SharedStep(e)
  <2>1. /\ cache[f].flying
        /\ cache' = [cache EXCEPT ![f] = [has |-> ok \/ cache[f].has, fresh |-> TRUE, flying |-> FALSE]]
        /\ pc' = [r \in Requests |-> IF r \in Waiters(f) THEN "answered" ELSE pc[r]]
    BY <1>2 DEF Land
  <2>2. CASE f = e
    <3>1. /\ cache'[e].has = (ok \/ cache[e].has) /\ cache'[e].fresh = TRUE
          /\ cache'[e].flying = FALSE
      BY <2>1, <2>2, CacheRecords
    <3>2. ASSUME NEW r \in Requests
          PROVE  Place(r, e)' = IF Place(r, e) = "waiting" THEN "over" ELSE Place(r, e)
      BY <1>0, <2>1, <2>2 DEF Place, Waiters
    <3>3. PlacesOf(e)' = [r \in Requests |-> IF PlacesOf(e)[r] = "waiting" THEN "over" ELSE PlacesOf(e)[r]]
      BY <3>2 DEF PlacesOf
    <3>4. Shared(e)!Land
      BY <2>1, <2>2, <3>1, <3>3 DEF Shared!Land, PlacesOf
    <3> QED  BY <3>4 DEF SharedStep, Shared!Next
  <2>3. CASE f # e
    <3>1. cache'[e] = cache[e]
      BY <2>1, <2>3, CacheRecords
    <3>2. \A r \in Requests : Place(r, e)' = Place(r, e)
      BY <1>0, <2>1, <2>3 DEF Place, Waiters
    <3>3. PlacesOf(e)' = PlacesOf(e)
      BY <3>2 DEF PlacesOf
    <3> QED  BY <3>1, <3>3 DEF SharedStep, Shared!vars, PlacesOf
  <2> QED  BY <2>2, <2>3
<1> QED  BY <1>1, <1>2

\* For any accounts, requests and capacity, the catalog takes no cache from under a request
\* or a fetch: each entry's cache goes through the steps of SharedFetch, and is replaced
\* only when nobody is in it and nothing is fetched for it.
THEOREM EntriesShareFetchesAlways == SpecCatalog => EntriesShareFetches
<1>1. InitCatalog => \A e \in Entries : Shared(e)!Init
  <2> SUFFICES ASSUME InitCatalog, NEW e \in Entries PROVE Shared(e)!Init
    OBVIOUS
  <2>1. cache[e] = Cold /\ \A r \in Requests : holds[r] # e
    BY EntryNumbers DEF InitCatalog
  <2>2. PlacesOf(e) = [r \in Requests |-> "away"]
    BY <2>1 DEF PlacesOf, Place
  <2> QED  BY <2>1, <2>2 DEF Shared!Init, PlacesOf, Cold
<1>2. CatalogInv /\ CatalogInv' /\ [NextCatalog]_allCatalog => \A e \in Entries : SharedStep(e)
  <2> SUFFICES ASSUME CatalogInv, CatalogInv', [NextCatalog]_allCatalog, NEW e \in Entries
               PROVE  SharedStep(e)
    OBVIOUS
  <2>1. CASE \E r \in Requests, a \in Accounts : Find(r, a) \/ Create(r, a) \/ NoRoom(r, a)
    BY <2>1, MapShares
  <2>2. CASE \E r \in Requests : Get(r) \/ Leave(r) \/ Release(r)
    BY <2>2, RequestShares
  <2>3. CASE \E f \in Entries : Expire(f) \/ \E ok \in BOOLEAN : Land(f, ok)
    BY <2>3, TimeShares
  <2>4. CASE UNCHANGED allCatalog
    <3>1. UNCHANGED <<cache, pc, holds>>
      BY <2>4 DEF allCatalog, requests
    <3> QED  BY <3>1 DEF SharedStep, Shared!vars, Place
  <2> QED  BY <2>1, <2>2, <2>3, <2>4 DEF NextCatalog
<1>3. (\A e \in Entries : SharedStep(e))
        => \A e \in Entries : [Shared(e)!Next \/ Shared(e)!Drop]_(Shared(e)!vars)
  BY DEF SharedStep
<1> QED  BY <1>1, <1>2, <1>3, CatalogAlways, PTL DEF SpecCatalog, EntriesShareFetches
=============================================================================
