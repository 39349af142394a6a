---------------------------- MODULE StatsProofs -----------------------------
(***************************************************************************)
(* The books on requests, for any requests, keys, endpoints, models and    *)
(* capacities: the in-flight gauges are exact (InFlightIsExact), the store *)
(* and the registry each balance (BooksBalance), and the recent requests   *)
(* shown are the latest (RecentIsLatest).                                  *)
(*                                                                         *)
(* InFlightIsExact needs two more facts to be inductive: a request that    *)
(* has not begun was sent with no key (Fresh), so its beginning moves no   *)
(* key's gauge; and the books have their types (Typed).  ColumnsAddUp      *)
(* stands on the types of the models' books, and on what a sum does when   *)
(* one of its terms moves (SumMoves).  Sums are folds over finite sets;    *)
(* what is said of them below rests on induction over the naturals, which  *)
(* follows from the well-foundedness of < on them.  LabelsAgree needs that *)
(* the label of a request with a result is settled (Settled).  The ring    *)
(* holds the i-th latest request i places behind next (RingInv).           *)
(***************************************************************************)
EXTENDS Stats, Integers, FiniteSetTheorems, SequenceTheorems, WellFoundedInduction, TLAPS

Steps == {"new", "open", "counted", "timed", "done"}

Aggregates == [Columns -> Int]

Records == [endpoint : Endpoints, model : Models \cup {Unnamed}, key : Keys \cup {NoKey},
            sent : Nat, result : {"", "ok", "failed", "canceled"}]

Typed ==
  /\ pc \in [Requests -> Steps]
  /\ record \in [Requests -> Records]
  /\ total \in [Endpoints -> Aggregates]
  /\ keys \in [Endpoints -> [Keys -> Aggregates]]

Fresh == \A r \in Requests : pc[r] = "new" => record[r].key = NoKey

IInv == Typed /\ Fresh /\ InFlightIsExact

\* The requests an endpoint has in flight, and those a key has.
Flying(e) == {r \in Requests : Running(r) /\ At(r) = e}
With(e, k) == {r \in Flying(e) : record[r].key = k}

\* The columns of an aggregate that a step moves.
LEMMA InFlightColumn == "inFlight" \in Columns /\ "attempts" \in Columns
  BY DEF Columns

LEMMA ExactMeans ==
  InFlightIsExact <=>
    \A e \in Endpoints :
      /\ total[e]["inFlight"] = Cardinality(Flying(e))
      /\ \A k \in Keys : keys[e][k]["inFlight"] = Cardinality(With(e, k))
  BY DEF InFlightIsExact, Flying, With

LEMMA AtEndpoint ==
  ASSUME Typed, NEW r \in Requests
  PROVE  At(r) \in Endpoints
  BY DEF Typed, Records, At

\* Every aggregate of the books is one, and its columns are numbers.
LEMMA BooksTyped ==
  ASSUME IInv, NEW e \in Endpoints
  PROVE  /\ total[e] \in Aggregates /\ total[e]["inFlight"] \in Int
         /\ \A k \in Keys : /\ keys[e][k] \in Aggregates /\ keys[e][k]["inFlight"] \in Int
                            /\ keys[e][k]["attempts"] \in Int
<1>1. \A a \in Aggregates : a["inFlight"] \in Int /\ a["attempts"] \in Int
  BY InFlightColumn DEF Aggregates
<1>2. total[e] \in Aggregates /\ \A k \in Keys : keys[e][k] \in Aggregates
  BY DEF IInv, Typed
<1> QED  BY <1>1, <1>2

\* What sending changes of a record, and a result.
LEMMA SentFacts ==
  ASSUME NEW x \in Records, NEW k \in Keys
  PROVE  Sent(x, k) \in Records /\ Sent(x, k).endpoint = x.endpoint /\ Sent(x, k).key = k
<1> DEFINE n == x.sent + 1
<1>1. n \in Nat
  <2>1. x.sent \in Nat
    BY DEF Records
  <2>2. \A i \in Nat : i + 1 \in Nat
    OBVIOUS
  <2> QED  BY <2>1, <2>2
<1>2. Sent(x, k) = [endpoint |-> x.endpoint, model |-> x.model, key |-> k, sent |-> n,
                     result |-> x.result]
  BY DEF Sent
<1>3. /\ x.endpoint \in Endpoints /\ x.model \in Models \cup {Unnamed}
      /\ x.result \in {"", "ok", "failed", "canceled"}
  BY DEF Records
<1> HIDE DEF n
<1>4. k \in Keys \cup {NoKey}
  OBVIOUS
<1>5. [endpoint |-> x.endpoint, model |-> x.model, key |-> k, sent |-> n,
       result |-> x.result] \in Records
  <2> DEFINE e == x.endpoint  m == x.model  y == x.result
  <2>1. /\ e \in Endpoints /\ m \in Models \cup {Unnamed}
        /\ y \in {"", "ok", "failed", "canceled"}
    BY <1>3
  <2> HIDE DEF e, m, y
  <2>2. [endpoint |-> e, model |-> m, key |-> k, sent |-> n, result |-> y] \in Records
    BY <1>1, <1>4, <2>1 DEF Records
  <2> QED  BY <2>2 DEF e, m, y
<1>6. Sent(x, k) \in Records
  BY <1>2, <1>5
<1> QED  BY <1>2, <1>6

LEMMA ToldFacts ==
  ASSUME NEW x \in Records, NEW result \in {"ok", "failed", "canceled"}
  PROVE  Told(x, result) \in Records /\ Told(x, result).endpoint = x.endpoint
         /\ Told(x, result).key = x.key
  BY DEF Told, Records

\* Setting the gauge.
LEMMA GaugeSet ==
  ASSUME NEW a \in Aggregates, NEW n \in Int
  PROVE  /\ [a EXCEPT !["inFlight"] = n] \in Aggregates
         /\ [a EXCEPT !["inFlight"] = n]["inFlight"] = n
  BY InFlightColumn DEF Aggregates

\* Adding up the rest of an aggregate does not touch its gauge.
LEMMA AddedKeeps ==
  ASSUME NEW a \in Aggregates, NEW result
  PROVE  Added(a, result) \in Aggregates /\ Added(a, result)["inFlight"] = a["inFlight"]
  BY DEF Added, Aggregates, Columns

\* One request more or less in a finite set.
LEMMA OneMore ==
  ASSUME NEW S, IsFiniteSet(S), NEW x, x \notin S
  PROVE  Cardinality(S \cup {x}) = Cardinality(S) + 1
  BY FS_AddElement

LEMMA OneLess ==
  ASSUME NEW S, IsFiniteSet(S), NEW x \in S
  PROVE  Cardinality(S \ {x}) = Cardinality(S) - 1
  BY FS_RemoveElement

LEMMA FlyingFinite ==
  ASSUME NEW e
  PROVE  IsFiniteSet(Flying(e)) /\ \A k : IsFiniteSet(With(e, k))
<1>1. Flying(e) \subseteq Requests /\ \A k : With(e, k) \subseteq Requests
  BY DEF Flying, With
<1> QED  BY <1>1, FiniteAssumption, FS_Subset

-----------------------------------------------------------------------------
LEMMA InitInvariant == Init => IInv
<1> SUFFICES ASSUME Init PROVE IInv
  OBVIOUS
<1>1. Nothing \in Aggregates /\ Nothing["inFlight"] = 0
  BY DEF Nothing, Aggregates, Columns
<1>2. Fresh /\ Typed
  <2>1. \A r \in Requests : record[r] \in Blank /\ record[r].key = NoKey
    BY DEF Init, Blank
  <2>2. \A b \in Blank : b \in Records
    <3> DEFINE Zero == {0}  Unsent == {""}
    <3>1. Blank = [endpoint : Endpoints, model : Models \cup {Unnamed}, key : {NoKey},
                   sent : Zero, result : Unsent]
      BY DEF Blank
    <3>2. Zero \subseteq Nat /\ Unsent \subseteq {"", "ok", "failed", "canceled"}
      OBVIOUS
    <3> HIDE DEF Zero, Unsent
    <3> QED  BY <3>1, <3>2 DEF Records
  <2>3. Fresh
    BY <2>1 DEF Fresh
  <2>4. record \in [Requests -> Blank] /\ pc \in [Requests -> Steps]
    BY DEF Init, Steps
  <2>5. total \in [Endpoints -> Aggregates] /\ keys \in [Endpoints -> [Keys -> Aggregates]]
    BY <1>1 DEF Init
  <2>6. Typed
    BY <2>2, <2>4, <2>5 DEF Typed
  <2> QED  BY <2>3, <2>6
<1>3. \A e \in Endpoints : Flying(e) = {} /\ \A k \in Keys : With(e, k) = {}
  BY DEF Init, Flying, With, Running
<1>4. InFlightIsExact
  BY <1>1, <1>3, ExactMeans, FS_EmptySet DEF Init
<1> QED  BY <1>2, <1>4 DEF IInv

\* A step that moves no gauge and no request between keys.
LEMMA UnmovedExact ==
  ASSUME IInv, UNCHANGED <<total, keys>>,
         \A r \in Requests : /\ Running(r)' = Running(r) /\ At(r)' = At(r)
                             /\ record'[r].key = record[r].key
  PROVE  InFlightIsExact'
<1>1. \A e \in Endpoints : Flying(e)' = Flying(e) /\ \A k \in Keys : With(e, k)' = With(e, k)
  BY DEF Flying, With
<1>2. \A e \in Endpoints :
        /\ total'[e]["inFlight"] = Cardinality(Flying(e)')
        /\ \A k \in Keys : keys'[e][k]["inFlight"] = Cardinality(With(e, k)')
  BY <1>1, ExactMeans DEF IInv
<1> QED  BY <1>2 DEF InFlightIsExact, Flying, With

-----------------------------------------------------------------------------
LEMMA BeginStep ==
  ASSUME IInv, NEW r \in Requests, Begin(r)
  PROVE  IInv'
<1> PICK e \in Endpoints : e = At(r)
  BY AtEndpoint DEF IInv
<1>1. /\ pc[r] = "new" /\ pc' = [pc EXCEPT ![r] = "open"]
      /\ total' = [total EXCEPT ![e]["inFlight"] = @ + 1]
      /\ UNCHANGED <<record, keys>>
  BY DEF Begin
<1>2. total' = [total EXCEPT ![e] = [total[e] EXCEPT !["inFlight"] = @ + 1]]
  BY <1>1
<1>3. \A f \in Endpoints : total'[f] \in Aggregates /\ keys'[f] = keys[f]
        /\ total'[f]["inFlight"] = total[f]["inFlight"] + (IF f = e THEN 1 ELSE 0)
  <2>1. total[e] \in Aggregates /\ total[e]["inFlight"] \in Int
    BY InFlightColumn DEF IInv, Typed, Aggregates
  <2>2. /\ total'[e] \in Aggregates
        /\ total'[e]["inFlight"] = total[e]["inFlight"] + 1
    <3>1. total'[e] = [total[e] EXCEPT !["inFlight"] = total[e]["inFlight"] + 1]
      BY <1>2 DEF IInv, Typed
    <3> QED  BY <2>1, <3>1, GaugeSet
  <2>3. \A f \in Endpoints \ {e} : total'[f] = total[f] /\ total[f] \in Aggregates
                                    /\ total[f]["inFlight"] \in Int
    BY <1>2, InFlightColumn DEF IInv, Typed, Aggregates
  <2> QED  BY <1>1, <2>2, <2>3
<1>4. Typed'
  BY <1>1, <1>2, <1>3 DEF IInv, Typed, Steps
<1>5. Fresh'
  BY <1>1 DEF IInv, Fresh, Typed
<1>6. record[r].key \notin Keys
  BY <1>1, NamesAssumption DEF IInv, Fresh
<1>7. ~Running(r) /\ Running(r)'
  BY <1>1 DEF Running, IInv, Typed
<1>8. \A q \in Requests \ {r} : Running(q)' = Running(q)
  BY <1>1 DEF Running, IInv, Typed
<1>9. \A q \in Requests : At(q)' = At(q)
  BY <1>1 DEF At
<1>10. \A f \in Endpoints : f # e => Flying(f)' = Flying(f)
  BY <1>8, <1>9 DEF Flying
<1>11. Flying(e)' = Flying(e) \cup {r} /\ r \notin Flying(e)
  BY <1>7, <1>8, <1>9 DEF Flying
<1>12. \A f \in Endpoints, k \in Keys : With(f, k)' = With(f, k)
  BY <1>1, <1>6, <1>10, <1>11 DEF With
<1>13. Cardinality(Flying(e)') = Cardinality(Flying(e)) + 1
  BY <1>11, FlyingFinite, OneMore
<1>14. \A f \in Endpoints :
         /\ total'[f]["inFlight"] = Cardinality(Flying(f)')
         /\ \A k \in Keys : keys'[f][k]["inFlight"] = Cardinality(With(f, k)')
  BY <1>2, <1>3, <1>10, <1>12, <1>13, ExactMeans DEF IInv
<1>15. InFlightIsExact'
  BY <1>14 DEF InFlightIsExact, Flying, With
<1> QED  BY <1>4, <1>5, <1>15 DEF IInv

\* A request moves from one key to another within its endpoint.
LEMMA SelectKeyStep ==
  ASSUME IInv, NEW r \in Requests, NEW k \in Keys, SelectKey(r, k)
  PROVE  IInv'
<1> PICK e \in Endpoints : e = At(r)
  BY AtEndpoint DEF IInv
<1> PICK old \in Keys \cup {NoKey} : old = record[r].key
  BY DEF IInv, Typed, Records
<1>1. /\ pc[r] = "open" /\ k # old
      /\ keys' = [keys EXCEPT ![e] = Lease(keys[e], old, k)]
      /\ total' = [total EXCEPT ![e]["attempts"] = @ + 1]
      /\ record' = [record EXCEPT ![r] = Sent(record[r], k)]
      /\ pc' = pc
  BY DEF SelectKey
<1>2. /\ Sent(record[r], k) \in Records
      /\ Sent(record[r], k).endpoint = record[r].endpoint
      /\ Sent(record[r], k).key = k
  <2>1. record[r] \in Records
    BY DEF IInv, Typed
  <2> QED  BY <2>1, SentFacts
<1>3. \A f \in Endpoints : total'[f] \in Aggregates /\ total'[f]["inFlight"] = total[f]["inFlight"]
  <2>1. total[e] \in Aggregates /\ total[e]["attempts"] \in Int
    BY InFlightColumn DEF IInv, Typed, Aggregates
  <2>2. total'[e] = [total[e] EXCEPT !["attempts"] = total[e]["attempts"] + 1]
    BY <1>1 DEF IInv, Typed
  <2>3. total'[e] \in Aggregates /\ total'[e]["inFlight"] = total[e]["inFlight"]
    BY <2>1, <2>2, InFlightColumn DEF Aggregates
  <2>4. \A f \in Endpoints \ {e} : total'[f] = total[f] /\ total[f] \in Aggregates
    BY <1>1 DEF IInv, Typed
  <2> QED  BY <2>3, <2>4
<1>4. \A f \in Endpoints, j \in Keys :
        /\ keys'[f][j] \in Aggregates
        /\ keys'[f][j]["inFlight"] =
             (keys[f][j]["inFlight"] + (IF f = e /\ j = k THEN 1 ELSE 0))
               - (IF f = e /\ j = old THEN 1 ELSE 0)
  <2> TAKE f \in Endpoints, j \in Keys
  <2>1. /\ keys[f][j] \in Aggregates /\ keys[f][j]["inFlight"] \in Int
        /\ keys[f][j]["attempts"] \in Int
    BY BooksTyped
  <2>2. CASE f # e
    <3>1. keys'[f] = keys[f]
      BY <1>1, <2>2 DEF IInv, Typed
    <3> QED  BY <2>1, <2>2, <3>1
  <2>3. CASE f = e
    <3> DEFINE n == (keys[e][j]["inFlight"] + (IF j = k THEN 1 ELSE 0)) - (IF j = old THEN 1 ELSE 0)
               m == keys[e][j]["attempts"] + (IF j = k THEN 1 ELSE 0)
    <3>1. keys'[e] = Lease(keys[e], old, k)
      BY <1>1 DEF IInv, Typed
    <3>2. keys'[e][j] = [keys[e][j] EXCEPT !["inFlight"] = n, !["attempts"] = m]
      BY <3>1 DEF Lease
    <3>3. n \in Int /\ m \in Int
      BY <2>1, <2>3
    <3> HIDE DEF n, m
    <3>4. keys'[e][j] \in Aggregates /\ keys'[e][j]["inFlight"] = n
      BY <2>1, <2>3, <3>2, <3>3, InFlightColumn DEF Aggregates
    <3> QED  BY <2>3, <3>4 DEF n
  <2> QED  BY <2>2, <2>3
<1>5. Typed'
  <2>1. keys' \in [Endpoints -> [Keys -> Aggregates]]
    <3>1. DOMAIN keys' = Endpoints /\ \A f \in Endpoints : DOMAIN keys'[f] = Keys
      BY <1>1 DEF Lease, IInv, Typed
    <3>2. Lease(keys[e], old, k) \in [Keys -> Aggregates]
      <4>1. \A j \in Keys : Lease(keys[e], old, k)[j] \in Aggregates
        BY <1>1, <1>4 DEF IInv, Typed
      <4> QED  BY <4>1 DEF Lease
    <3> QED  BY <1>1, <3>2 DEF IInv, Typed
  <2>2. total' \in [Endpoints -> Aggregates]
    BY <1>1, <1>3 DEF IInv, Typed
  <2>3. record' \in [Requests -> Records]
    BY <1>1, <1>2 DEF IInv, Typed
  <2> QED  BY <1>1, <2>1, <2>2, <2>3 DEF IInv, Typed
<1>6. Fresh'
  BY <1>1 DEF IInv, Fresh, Typed
<1>7. \A q \in Requests : Running(q)' = Running(q) /\ At(q)' = At(q)
  BY <1>1, <1>2 DEF Running, At, IInv, Typed
<1>8. \A f \in Endpoints : Flying(f)' = Flying(f)
  BY <1>7 DEF Flying
<1>9. r \in Flying(e) /\ \A f \in Endpoints : r \in Flying(f) => f = e
  BY <1>1 DEF Flying, Running
<1>10. record'[r].key = k /\ \A q \in Requests \ {r} : record'[q].key = record[q].key
  BY <1>1, <1>2 DEF IInv, Typed
<1>11. \A f \in Endpoints, j \in Keys : f # e => With(f, j)' = With(f, j)
  BY <1>8, <1>9, <1>10 DEF With, Flying
<1>12. \A j \in Keys : j # k /\ j # old => With(e, j)' = With(e, j)
  BY <1>8, <1>9, <1>10 DEF With, Flying
<1>13. With(e, k)' = With(e, k) \cup {r} /\ r \notin With(e, k)
  BY <1>1, <1>8, <1>9, <1>10 DEF With, Flying
<1>14. old \in Keys => With(e, old)' = With(e, old) \ {r} /\ r \in With(e, old)
  BY <1>1, <1>8, <1>9, <1>10 DEF With, Flying
<1>15. Cardinality(With(e, k)') = Cardinality(With(e, k)) + 1
  BY <1>13, FlyingFinite, OneMore
<1>16. old \in Keys => Cardinality(With(e, old)') = Cardinality(With(e, old)) - 1
  BY <1>14, FlyingFinite, OneLess
<1>17. \A f \in Endpoints, j \in Keys : keys'[f][j]["inFlight"] = Cardinality(With(f, j)')
  <2> TAKE f \in Endpoints, j \in Keys
  <2>1. keys[f][j]["inFlight"] = Cardinality(With(f, j)) /\ keys[f][j]["inFlight"] \in Int
    BY ExactMeans, BooksTyped DEF IInv
  <2>2. CASE f # e
    BY <1>4, <1>11, <2>1, <2>2
  <2>3. CASE f = e /\ j = k
    BY <1>1, <1>4, <1>15, <2>1, <2>3
  <2>4. CASE f = e /\ j = old
    BY <1>1, <1>4, <1>16, <2>1, <2>4
  <2>5. CASE f = e /\ j # k /\ j # old
    BY <1>4, <1>12, <2>1, <2>5
  <2> QED  BY <2>2, <2>3, <2>4, <2>5
<1>18. \A f \in Endpoints : total'[f]["inFlight"] = Cardinality(Flying(f)')
  BY <1>3, <1>8, ExactMeans DEF IInv
<1>19. InFlightIsExact'
  BY <1>17, <1>18 DEF InFlightIsExact, Flying, With
<1> QED  BY <1>5, <1>6, <1>19 DEF IInv

-----------------------------------------------------------------------------
(* The result and the registry. *)

LEMMA CountStep ==
  ASSUME IInv, NEW r \in Requests, NEW result \in {"ok", "failed", "canceled"}, Count(r, result)
  PROVE  IInv'
<1>1. /\ pc[r] = "open" /\ pc' = [pc EXCEPT ![r] = "counted"]
      /\ record' = [record EXCEPT ![r] = Told(record[r], result)]
      /\ UNCHANGED <<total, keys>>
  BY DEF Count
<1>2. /\ Told(record[r], result) \in Records
      /\ Told(record[r], result).endpoint = record[r].endpoint
      /\ Told(record[r], result).key = record[r].key
  <2>1. record[r] \in Records
    BY DEF IInv, Typed
  <2> QED  BY <2>1, ToldFacts
<1>3. Typed'
  BY <1>1, <1>2 DEF IInv, Typed, Steps
<1>4. Fresh'
  BY <1>1 DEF IInv, Fresh, Typed
<1>5. \A q \in Requests : /\ Running(q)' = Running(q) /\ At(q)' = At(q)
                          /\ record'[q].key = record[q].key
  <2> TAKE q \in Requests
  <2>1. CASE q = r
    BY <1>1, <1>2, <2>1 DEF Running, At, IInv, Typed
  <2>2. CASE q # r
    BY <1>1, <2>2 DEF Running, At, IInv, Typed
  <2> QED  BY <2>1, <2>2
<1>6. InFlightIsExact'
  BY <1>1, <1>5, UnmovedExact
<1> QED  BY <1>3, <1>4, <1>6 DEF IInv

LEMMA TimeStep ==
  ASSUME IInv, NEW r \in Requests, Time(r)
  PROVE  IInv'
<1>1. /\ pc[r] = "counted" /\ pc' = [pc EXCEPT ![r] = "timed"]
      /\ UNCHANGED <<record, total, keys>>
  BY DEF Time
<1>2. Typed'
  BY <1>1 DEF IInv, Typed, Steps
<1>3. Fresh'
  BY <1>1 DEF IInv, Fresh, Typed
<1>4. \A q \in Requests : /\ Running(q)' = Running(q) /\ At(q)' = At(q)
                          /\ record'[q].key = record[q].key
  BY <1>1 DEF Running, At, IInv, Typed
<1>5. InFlightIsExact'
  BY <1>1, <1>4, UnmovedExact
<1> QED  BY <1>2, <1>3, <1>5 DEF IInv

-----------------------------------------------------------------------------
\* The end of a request: it leaves the gauges of its endpoint and of its last key.
LEMMA FinishStep ==
  ASSUME IInv, NEW r \in Requests, NEW status, NEW canceled, NEW writeFailed,
         Finish(r, status, canceled, writeFailed)
  PROVE  IInv'
<1> PICK e \in Endpoints : e = At(r)
  BY AtEndpoint DEF IInv
<1> PICK key \in Keys \cup {NoKey} : key = record[r].key
  BY DEF IInv, Typed, Records
<1> PICK result : result = FinalResult(record[r].result, status, canceled, writeFailed)
  OBVIOUS
<1> DEFINE End(a) == [Added(a, result) EXCEPT !["inFlight"] = @ - 1]
<1>1. /\ Running(r) /\ pc' = [pc EXCEPT ![r] = "done"]
      /\ total' = [total EXCEPT ![e] = End(total[e])]
      /\ keys' = IF key = NoKey THEN keys ELSE [keys EXCEPT ![e][key] = End(keys[e][key])]
      /\ record' = record
  BY DEF Finish, Running
<1>2. \A a \in Aggregates : End(a) \in Aggregates /\ End(a)["inFlight"] = a["inFlight"] - 1
  <2> TAKE a \in Aggregates
  <2> PICK b \in Aggregates : b = Added(a, result) /\ b["inFlight"] = a["inFlight"]
    BY AddedKeeps
  <2>1. End(a) = [b EXCEPT !["inFlight"] = b["inFlight"] - 1] /\ b["inFlight"] \in Int
    BY InFlightColumn DEF Aggregates
  <2> QED  BY <2>1, GaugeSet
<1> HIDE DEF End
<1>3. \A f \in Endpoints : total'[f] \in Aggregates
        /\ total'[f]["inFlight"] = total[f]["inFlight"] - (IF f = e THEN 1 ELSE 0)
  <2> TAKE f \in Endpoints
  <2>1. total[f] \in Aggregates /\ total[f]["inFlight"] \in Int
    BY BooksTyped
  <2>2. total'[f] = IF f = e THEN End(total[e]) ELSE total[f]
    BY <1>1 DEF IInv, Typed
  <2> QED  BY <1>2, <2>1, <2>2
<1>4. \A f \in Endpoints, j \in Keys :
        /\ keys'[f][j] \in Aggregates
        /\ keys'[f][j]["inFlight"] = keys[f][j]["inFlight"] - (IF f = e /\ j = key THEN 1 ELSE 0)
  <2> TAKE f \in Endpoints, j \in Keys
  <2>1. keys[f][j] \in Aggregates /\ keys[f][j]["inFlight"] \in Int
    BY BooksTyped
  <2>2. keys'[f][j] = IF f = e /\ j = key THEN End(keys[f][j]) ELSE keys[f][j]
    BY <1>1, NamesAssumption DEF IInv, Typed
  <2> QED  BY <1>2, <2>1, <2>2
<1>5. Typed'
  <2>1. keys' \in [Endpoints -> [Keys -> Aggregates]]
    <3>1. CASE key = NoKey
      BY <1>1, <3>1 DEF IInv, Typed
    <3>2. CASE key # NoKey
      <4>1. End(keys[e][key]) \in Aggregates
        BY <1>2, <3>2, BooksTyped
      <4> QED  BY <1>1, <3>2, <4>1 DEF IInv, Typed
    <3> QED  BY <3>1, <3>2
  <2>2. total' \in [Endpoints -> Aggregates]
    BY <1>1, <1>3 DEF IInv, Typed
  <2> QED  BY <1>1, <2>1, <2>2 DEF IInv, Typed, Steps
<1>6. Fresh'
  BY <1>1 DEF IInv, Fresh, Typed
<1>7. ~Running(r)'
  BY <1>1 DEF Running, IInv, Typed
<1>8. \A q \in Requests \ {r} : Running(q)' = Running(q)
  BY <1>1 DEF Running, IInv, Typed
<1>9. \A q \in Requests : At(q)' = At(q)
  BY <1>1 DEF At
<1>10. \A f \in Endpoints : f # e => Flying(f)' = Flying(f)
  BY <1>8, <1>9 DEF Flying
<1>11. Flying(e)' = Flying(e) \ {r} /\ r \in Flying(e)
  BY <1>1, <1>7, <1>8, <1>9 DEF Flying
<1>12. \A f \in Endpoints, j \in Keys : f # e \/ j # key => With(f, j)' = With(f, j)
  BY <1>1, <1>10, <1>11 DEF With
<1>13. key \in Keys => With(e, key)' = With(e, key) \ {r} /\ r \in With(e, key)
  BY <1>1, <1>11 DEF With
<1>14. Cardinality(Flying(e)') = Cardinality(Flying(e)) - 1
  BY <1>11, FlyingFinite, OneLess
<1>15. key \in Keys => Cardinality(With(e, key)') = Cardinality(With(e, key)) - 1
  BY <1>13, FlyingFinite, OneLess
<1>16. \A f \in Endpoints, j \in Keys : keys'[f][j]["inFlight"] = Cardinality(With(f, j)')
  <2> TAKE f \in Endpoints, j \in Keys
  <2>1. keys[f][j]["inFlight"] = Cardinality(With(f, j)) /\ keys[f][j]["inFlight"] \in Int
    BY ExactMeans, BooksTyped DEF IInv
  <2>2. CASE f # e \/ j # key
    BY <1>4, <1>12, <2>1, <2>2
  <2>3. CASE f = e /\ j = key
    BY <1>4, <1>15, <2>1, <2>3
  <2> QED  BY <2>2, <2>3
<1>17. \A f \in Endpoints : total'[f]["inFlight"] = Cardinality(Flying(f)')
  <2> TAKE f \in Endpoints
  <2>1. total[f]["inFlight"] = Cardinality(Flying(f)) /\ total[f]["inFlight"] \in Int
    BY ExactMeans, BooksTyped DEF IInv
  <2> QED  BY <1>3, <1>10, <1>14, <2>1
<1>18. InFlightIsExact'
  BY <1>16, <1>17 DEF InFlightIsExact, Flying, With
<1> QED  BY <1>5, <1>6, <1>18 DEF IInv

-----------------------------------------------------------------------------
LEMMA NextInvariant == IInv /\ [Next]_vars => IInv'
<1> SUFFICES ASSUME IInv, [Next]_vars PROVE IInv'
  OBVIOUS
<1>1. CASE \E r \in Requests : Begin(r)
  BY <1>1, BeginStep
<1>2. CASE \E r \in Requests, k \in Keys : SelectKey(r, k)
  BY <1>2, SelectKeyStep
<1>3. CASE \E r \in Requests, result \in {"ok", "failed", "canceled"} : Count(r, result)
  BY <1>3, CountStep
<1>4. CASE \E r \in Requests : Time(r)
  BY <1>4, TimeStep
<1>5. CASE \E r \in Requests : Served(r)
  BY <1>5, FinishStep DEF Served
<1>6. CASE UNCHANGED vars
  <2>1. UNCHANGED <<record, pc, total, keys>>
    BY <1>6 DEF vars
  <2>2. InFlightIsExact'
    BY <2>1, UnmovedExact DEF Running, At
  <2> QED  BY <2>1, <2>2 DEF IInv, Typed, Fresh
<1> QED  BY <1>1, <1>2, <1>3, <1>4, <1>5, <1>6 DEF Next, Done

\* The requests shown in flight, per endpoint and per key, are those that are, for any
\* requests that begin, move between keys and finish in any order (Store.Begin, SelectKey
\* and Request.Finish).
THEOREM InFlightIsExactAlways == Spec => []InFlightIsExact
<1>1. IInv => InFlightIsExact
  BY DEF IInv
<1> QED  BY <1>1, InitInvariant, NextInvariant, PTL DEF Spec

-----------------------------------------------------------------------------
(* Sums over finite sets. *)

\* Induction over the naturals: a set of them with 0 and every successor is all of them.
LEMMA NatSetInduction ==
  ASSUME NEW T \in SUBSET Nat, 0 \in T, \A n \in T : n + 1 \in T
  PROVE  T = Nat
<1> DEFINE Less == OpToRel(<, Nat)
           U == Nat \ T
<1>0. Less = {p \in Nat \X Nat : p[1] < p[2]}
  BY DEF OpToRel
<1>1. IsWellFoundedOn(Less, Nat)
  BY NatLessThanWellFounded
<1> HIDE DEF Less
<1>2. SUFFICES ASSUME U # {} PROVE FALSE
  OBVIOUS
<1>3. PICK x \in U : \A y \in U : ~(<<y, x>> \in Less)
  BY <1>1, <1>2, WFMin
<1>4. x # 0
  OBVIOUS
<1>5. x - 1 \in U
  <2>1. x - 1 \in Nat /\ (x - 1) + 1 = x
    BY <1>4
  <2> QED BY <2>1
<1>6. <<x - 1, x>> \in Less
  BY <1>0, <1>5
<1> QED BY <1>3, <1>5, <1>6

\* The element that a sum adds first, and the partial sums of S.
Pick(s) == CHOOSE x \in s : TRUE

Adds(it, F, S) ==
  it = [s \in SUBSET S |-> IF s = {} THEN 0 ELSE F[Pick(s)] + it[s \ {Pick(s)}]]

LEMMA PickIn == \A s : s # {} => Pick(s) \in s
  BY DEF Pick

LEMMA SumDef ==
  ASSUME NEW F, NEW S
  PROVE  SumFunctionOnSet(F, S) = (CHOOSE it : Adds(it, F, S))[S]
  BY Zenon DEF SumFunctionOnSet, FoldFunctionOnSet, MapThenFoldSet, Adds, Pick

LEMMA Smaller ==
  ASSUME NEW s, IsFiniteSet(s), s # {}
  PROVE  IsFiniteSet(s \ {Pick(s)}) /\ Cardinality(s \ {Pick(s)}) = Cardinality(s) - 1
  BY PickIn, FS_RemoveElement

LEMMA SumsExist ==
  ASSUME NEW F, NEW S, IsFiniteSet(S)
  PROVE  \E it : Adds(it, F, S)
<1> DEFINE Small(n) == {s \in SUBSET S : Cardinality(s) <= n}
           Partial(g, n) == g = [s \in Small(n) |-> IF s = {} THEN 0 ELSE F[Pick(s)] + g[s \ {Pick(s)}]]
           T == {n \in Nat : \E g : Partial(g, n)}
<1>1. \A s \in SUBSET S : IsFiniteSet(s) /\ Cardinality(s) \in Nat /\ Cardinality(s) <= Cardinality(S)
  BY FS_Subset, FS_CardinalityType
<1>2. 0 \in T
  <2>1. Small(0) = {{}}
    BY <1>1, FS_EmptySet
  <2> DEFINE g == [s \in {{}} |-> 0]
  <2>2. Partial(g, 0)
    BY <2>1
  <2> QED BY <2>2
<1>3. ASSUME NEW n \in T PROVE n + 1 \in T
  <2> PICK g : Partial(g, n)
    OBVIOUS
  <2> DEFINE h == [s \in Small(n + 1) |-> IF s = {} THEN 0 ELSE F[Pick(s)] + g[s \ {Pick(s)}]]
  <2>1. n \in Nat
    OBVIOUS
  <2>2. ASSUME NEW s \in Small(n + 1), s # {} PROVE s \ {Pick(s)} \in Small(n)
    <3>1. Cardinality(s \ {Pick(s)}) = Cardinality(s) - 1
      BY <1>1, <2>2, Smaller
    <3> QED BY <1>1, <2>1, <2>2, <3>1
  <2>3. \A s \in Small(n) : s \in Small(n + 1)
    BY <1>1, <2>1
  <2> HIDE DEF Small
  <2>4. \A s \in Small(n) : h[s] = g[s]
    BY <2>3
  <2>5. \A s \in Small(n + 1) : h[s] = IF s = {} THEN 0 ELSE F[Pick(s)] + h[s \ {Pick(s)}]
    BY <2>2, <2>4
  <2>6. Partial(h, n + 1)
    BY <2>5
  <2> HIDE DEF h, Partial
  <2>7. \E k : Partial(k, n + 1)
    BY <2>6
  <2> QED BY <2>1, <2>7
<1>4. T = Nat
  <2> HIDE DEF T
  <2>1. T \in SUBSET Nat
    BY DEF T
  <2> QED BY <1>2, <1>3, <2>1, NatSetInduction
<1>5. PICK g : Partial(g, Cardinality(S))
  BY <1>1, <1>4
<1>6. Small(Cardinality(S)) = SUBSET S
  BY <1>1
<1> QED BY <1>5, <1>6 DEF Adds

\* The partial sums of a set are those of any set around it.
LEMMA SumsAgree ==
  ASSUME NEW F, NEW S, IsFiniteSet(S), NEW R \in SUBSET S, NEW it, NEW jt,
         Adds(it, F, S), Adds(jt, F, R)
  PROVE  it[R] = jt[R]
<1> DEFINE T == {n \in Nat : \A s \in SUBSET R : Cardinality(s) = n => it[s] = jt[s]}
<1>1. \A s \in SUBSET R : IsFiniteSet(s) /\ Cardinality(s) \in Nat
  BY FS_Subset, FS_CardinalityType
<1>2. \A s \in SUBSET R : /\ it[s] = IF s = {} THEN 0 ELSE F[Pick(s)] + it[s \ {Pick(s)}]
                          /\ jt[s] = IF s = {} THEN 0 ELSE F[Pick(s)] + jt[s \ {Pick(s)}]
  BY DEF Adds
<1>3. 0 \in T
  BY <1>1, <1>2, FS_EmptySet
<1>4. ASSUME NEW n \in T PROVE n + 1 \in T
  <2>1. ASSUME NEW s \in SUBSET R, Cardinality(s) = n + 1 PROVE it[s] = jt[s]
    <3>1. s # {}
      BY <1>1, <2>1, FS_EmptySet
    <3>2. Cardinality(s \ {Pick(s)}) = n /\ s \ {Pick(s)} \in SUBSET R
      BY <1>1, <2>1, <3>1, Smaller
    <3>3. it[s \ {Pick(s)}] = jt[s \ {Pick(s)}]
      BY <3>2
    <3> QED BY <1>2, <3>1, <3>3
  <2> QED BY <2>1
<1>5. T = Nat
  <2> HIDE DEF T
  <2>1. T \in SUBSET Nat
    BY DEF T
  <2> QED BY <1>3, <1>4, <2>1, NatSetInduction
<1> QED BY <1>1, <1>5

LEMMA SumStep ==
  ASSUME NEW F, NEW S, IsFiniteSet(S)
  PROVE  SumFunctionOnSet(F, S) =
           IF S = {} THEN 0 ELSE F[Pick(S)] + SumFunctionOnSet(F, S \ {Pick(S)})
<1> DEFINE it == CHOOSE it : Adds(it, F, S)
<1>1. Adds(it, F, S)
  BY SumsExist
<1> HIDE DEF it
<1>2. it[S] = IF S = {} THEN 0 ELSE F[Pick(S)] + it[S \ {Pick(S)}]
  BY <1>1 DEF Adds
<1>3. SumFunctionOnSet(F, S) = it[S]
  BY SumDef DEF it
<1>4. CASE S # {}
  <2> DEFINE R == S \ {Pick(S)}
             jt == CHOOSE jt : Adds(jt, F, R)
  <2>1. R \in SUBSET S /\ IsFiniteSet(R)
    BY <1>4, Smaller
  <2>2. Adds(jt, F, R) /\ SumFunctionOnSet(F, R) = jt[R]
    BY <2>1, SumsExist, SumDef
  <2> HIDE DEF R, jt
  <2>3. it[R] = jt[R]
    BY <1>1, <2>1, <2>2, SumsAgree
  <2> QED BY <1>2, <1>3, <1>4, <2>2, <2>3 DEF R
<1> QED BY <1>2, <1>3, <1>4

LEMMA SumType ==
  ASSUME NEW F, NEW S, IsFiniteSet(S), \A x \in S : F[x] \in Int
  PROVE  \A s \in SUBSET S : SumFunctionOnSet(F, s) \in Int
<1> DEFINE T == {n \in Nat : \A s \in SUBSET S : Cardinality(s) = n => SumFunctionOnSet(F, s) \in Int}
<1>1. \A s \in SUBSET S : IsFiniteSet(s) /\ Cardinality(s) \in Nat
  BY FS_Subset, FS_CardinalityType
<1>2. \A s \in SUBSET S : Cardinality(s) = 0 => s = {}
  BY <1>1, FS_EmptySet
<1>3. 0 \in T
  <2>1. SumFunctionOnSet(F, {}) = 0
    BY SumStep, FS_EmptySet
  <2> QED BY <1>2, <2>1
<1>4. ASSUME NEW n \in T PROVE n + 1 \in T
  <2>1. ASSUME NEW s \in SUBSET S, Cardinality(s) = n + 1 PROVE SumFunctionOnSet(F, s) \in Int
    <3>1. s # {} /\ Pick(s) \in s
      BY <1>1, <2>1, FS_EmptySet, PickIn
    <3>2. Cardinality(s \ {Pick(s)}) = n /\ s \ {Pick(s)} \in SUBSET S
      BY <1>1, <2>1, <3>1, Smaller
    <3>3. SumFunctionOnSet(F, s \ {Pick(s)}) \in Int
      BY <3>2
    <3> QED BY <1>1, <3>1, <3>3, SumStep
  <2> QED BY <2>1
<1>5. T = Nat
  <2> HIDE DEF T
  <2>1. T \in SUBSET Nat
    BY DEF T
  <2> QED BY <1>3, <1>4, <2>1, NatSetInduction
<1> QED BY <1>1, <1>5

\* Any element may be added first.
LEMMA SumRemove ==
  ASSUME NEW F, NEW S, IsFiniteSet(S), \A x \in S : F[x] \in Int
  PROVE  \A x \in S : SumFunctionOnSet(F, S) = F[x] + SumFunctionOnSet(F, S \ {x})
<1> DEFINE Same(s) == \A x \in s : SumFunctionOnSet(F, s) = F[x] + SumFunctionOnSet(F, s \ {x})
           T == {n \in Nat : \A s \in SUBSET S : Cardinality(s) = n => Same(s)}
<1>1. \A s \in SUBSET S : IsFiniteSet(s) /\ Cardinality(s) \in Nat
  BY FS_Subset, FS_CardinalityType
<1>2. 0 \in T
  BY <1>1, FS_EmptySet
<1>3. ASSUME NEW n \in T PROVE n + 1 \in T
  <2>1. ASSUME NEW s \in SUBSET S, Cardinality(s) = n + 1, NEW x \in s
        PROVE  SumFunctionOnSet(F, s) = F[x] + SumFunctionOnSet(F, s \ {x})
    <3> DEFINE z == Pick(s)
    <3>1. z \in s /\ SumFunctionOnSet(F, s) = F[z] + SumFunctionOnSet(F, s \ {z})
      BY <1>1, PickIn, SumStep
    <3> HIDE DEF z
    <3>2. CASE x = z
      BY <3>1, <3>2
    <3>3. CASE x # z
      <4>1. Cardinality(s \ {x}) = n /\ Cardinality(s \ {z}) = n
        BY <1>1, <2>1, <3>1, FS_RemoveElement
      <4>2. Same(s \ {x}) /\ Same(s \ {z})
        BY <4>1
      <4>3. SumFunctionOnSet(F, s \ {z}) = F[x] + SumFunctionOnSet(F, (s \ {z}) \ {x})
        BY <3>3, <4>2
      <4>4. SumFunctionOnSet(F, s \ {x}) = F[z] + SumFunctionOnSet(F, (s \ {x}) \ {z})
        BY <3>1, <3>3, <4>2
      <4>5. (s \ {z}) \ {x} = (s \ {x}) \ {z}
        OBVIOUS
      <4> DEFINE rest == SumFunctionOnSet(F, (s \ {x}) \ {z})
      <4>6. F[x] \in Int /\ F[z] \in Int /\ rest \in Int
        BY <3>1, SumType
      <4>7. /\ SumFunctionOnSet(F, s) = F[z] + (F[x] + rest)
            /\ SumFunctionOnSet(F, s \ {x}) = F[z] + rest
        BY <3>1, <4>3, <4>4, <4>5
      <4> HIDE DEF rest
      <4> QED BY <4>6, <4>7
    <3> QED BY <3>2, <3>3
  <2> QED BY <2>1
<1>4. T = Nat
  <2> HIDE DEF T
  <2>1. T \in SUBSET Nat
    BY DEF T
  <2> QED BY <1>2, <1>3, <2>1, NatSetInduction
<1>5. Same(S)
  BY <1>1, <1>4
<1> QED BY <1>5

LEMMA SumSame ==
  ASSUME NEW F, NEW G, NEW S, IsFiniteSet(S), \A x \in S : F[x] = G[x]
  PROVE  SumFunctionOnSet(F, S) = SumFunctionOnSet(G, S)
<1> DEFINE T == {n \in Nat : \A s \in SUBSET S : Cardinality(s) = n =>
                    SumFunctionOnSet(F, s) = SumFunctionOnSet(G, s)}
<1>1. \A s \in SUBSET S : IsFiniteSet(s) /\ Cardinality(s) \in Nat
  BY FS_Subset, FS_CardinalityType
<1>2. 0 \in T
  <2>1. \A s \in SUBSET S : Cardinality(s) = 0 => s = {}
    BY <1>1, FS_EmptySet
  <2> QED BY <1>1, <2>1, SumStep
<1>3. ASSUME NEW n \in T PROVE n + 1 \in T
  <2>1. ASSUME NEW s \in SUBSET S, Cardinality(s) = n + 1
        PROVE  SumFunctionOnSet(F, s) = SumFunctionOnSet(G, s)
    <3>1. s # {} /\ Pick(s) \in s
      BY <1>1, <2>1, FS_EmptySet, PickIn
    <3>2. Cardinality(s \ {Pick(s)}) = n /\ s \ {Pick(s)} \in SUBSET S
      BY <1>1, <2>1, <3>1, Smaller
    <3>3. SumFunctionOnSet(F, s \ {Pick(s)}) = SumFunctionOnSet(G, s \ {Pick(s)})
      BY <3>2
    <3>4. F[Pick(s)] = G[Pick(s)]
      BY <3>1
    <3> QED BY <1>1, <3>1, <3>3, <3>4, SumStep
  <2> QED BY <2>1
<1>4. T = Nat
  <2> HIDE DEF T
  <2>1. T \in SUBSET Nat
    BY DEF T
  <2> QED BY <1>2, <1>3, <2>1, NatSetInduction
<1> QED BY <1>1, <1>4

LEMMA SumOfZeros ==
  ASSUME NEW F, NEW S, IsFiniteSet(S), \A x \in S : F[x] = 0
  PROVE  SumFunctionOnSet(F, S) = 0
<1> DEFINE T == {n \in Nat : \A s \in SUBSET S : Cardinality(s) = n => SumFunctionOnSet(F, s) = 0}
<1>1. \A s \in SUBSET S : IsFiniteSet(s) /\ Cardinality(s) \in Nat
  BY FS_Subset, FS_CardinalityType
<1>2. 0 \in T
  <2>1. \A s \in SUBSET S : Cardinality(s) = 0 => s = {}
    BY <1>1, FS_EmptySet
  <2>2. SumFunctionOnSet(F, {}) = 0
    BY SumStep, FS_EmptySet
  <2> QED BY <2>1, <2>2
<1>3. ASSUME NEW n \in T PROVE n + 1 \in T
  <2>1. ASSUME NEW s \in SUBSET S, Cardinality(s) = n + 1 PROVE SumFunctionOnSet(F, s) = 0
    <3>1. s # {} /\ Pick(s) \in s
      BY <1>1, <2>1, FS_EmptySet, PickIn
    <3>2. Cardinality(s \ {Pick(s)}) = n /\ s \ {Pick(s)} \in SUBSET S
      BY <1>1, <2>1, <3>1, Smaller
    <3>3. SumFunctionOnSet(F, s \ {Pick(s)}) = 0 /\ F[Pick(s)] = 0
      BY <3>1, <3>2
    <3> QED BY <1>1, <3>1, <3>3, SumStep
  <2> QED BY <2>1
<1>4. T = Nat
  <2> HIDE DEF T
  <2>1. T \in SUBSET Nat
    BY DEF T
  <2> QED BY <1>2, <1>3, <2>1, NatSetInduction
<1> QED BY <1>1, <1>4

-----------------------------------------------------------------------------
(* The columns add up. *)

Outcomes == {"ok", "failed", "canceled"}
Counts == {"requests", "succeeded", "failed", "canceled"}

\* What a finished request adds to a column.
Weight(c, result) ==
  IF \/ c = "requests"
     \/ c = "succeeded" /\ result = "ok"
     \/ c = "failed" /\ result = "failed"
     \/ c = "canceled" /\ result = "canceled"
  THEN 1 ELSE 0

ModelsTyped ==
  /\ models = [e \in Endpoints |-> models[e]]
  /\ \A e \in Endpoints :
       /\ IsFiniteSet(DOMAIN models[e])
       /\ models[e] = [m \in DOMAIN models[e] |-> models[e][m]]
       /\ \A m \in DOMAIN models[e] : models[e][m] \in Aggregates

LEMMA ColumnTypes ==
  ASSUME NEW a \in Aggregates
  PROVE  /\ a["attempts"] \in Int /\ a["inFlight"] \in Int
         /\ \A c \in Counts : c \in Columns /\ a[c] \in Int
  BY DEF Aggregates, Columns, Counts

LEMMA AddedColumns ==
  ASSUME NEW a \in Aggregates, NEW result \in Outcomes
  PROVE  /\ Added(a, result) \in Aggregates
         /\ Added(a, result)["attempts"] = a["attempts"]
         /\ \A c \in Counts : Added(a, result)[c] = a[c] + Weight(c, result)
  BY DEF Added, Aggregates, Columns, Counts, Weight, Outcomes

\* The end of a request on an aggregate: its gauge goes down.
Ended(a, result) == [Added(a, result) EXCEPT !["inFlight"] = @ - 1]

LEMMA EndedColumns ==
  ASSUME NEW a \in Aggregates, NEW result \in Outcomes
  PROVE  /\ Ended(a, result) \in Aggregates
         /\ Ended(a, result)["attempts"] = a["attempts"]
         /\ \A c \in Counts : Ended(a, result)[c] = a[c] + Weight(c, result)
<1> PICK b : b = Ended(a, result)
  OBVIOUS
<1>1. PICK d : d = Added(a, result)
  OBVIOUS
<1>2. d \in Aggregates /\ d["inFlight"] \in Int
  BY <1>1, AddedColumns, ColumnTypes
<1>3. b = [d EXCEPT !["inFlight"] = d["inFlight"] - 1] /\ d["inFlight"] - 1 \in Int
  BY <1>1, <1>2 DEF Aggregates, Ended
<1>4. b \in Aggregates /\ b["attempts"] = d["attempts"] /\ \A c \in Counts : b[c] = d[c]
  BY <1>2, <1>3 DEF Aggregates, Columns, Counts
<1> QED BY <1>1, <1>4, AddedColumns

\* A sum moves by what one of its terms moves, a new term counting as nothing before.
LEMMA SumMoves ==
  ASSUME NEW f, NEW g, NEW x, NEW d \in Int,
         IsFiniteSet(DOMAIN f), \A y \in DOMAIN f : f[y] \in Int,
         DOMAIN g = DOMAIN f \cup {x},
         \A y \in DOMAIN f \ {x} : g[y] = f[y],
         g[x] = (IF x \in DOMAIN f THEN f[x] ELSE 0) + d
  PROVE  SumFunction(g) = SumFunction(f) + d
<1> DEFINE D == DOMAIN f  E == DOMAIN g  rest == SumFunctionOnSet(f, D \ {x})
<1>1. IsFiniteSet(E) /\ IsFiniteSet(D \ {x}) /\ E \ {x} = D \ {x} /\ x \in E
  BY FS_AddElement, FS_RemoveElement
<1>2. \A y \in E : g[y] \in Int
  OBVIOUS
<1>3. SumFunction(g) = g[x] + SumFunctionOnSet(g, D \ {x})
  BY <1>1, <1>2, SumRemove DEF SumFunction
<1>4. SumFunctionOnSet(g, D \ {x}) = rest
  BY <1>1, SumSame
<1>5. rest \in Int
  BY SumType
<1>6. SumFunction(f) = (IF x \in D THEN f[x] ELSE 0) + rest
  <2>1. CASE x \in D
    BY <2>1, SumRemove DEF SumFunction
  <2>2. CASE x \notin D
    <3>1. D \ {x} = D
      BY <2>2
    <3> QED BY <1>5, <2>2, <3>1 DEF SumFunction
  <2> QED BY <2>1, <2>2
<1> HIDE DEF rest
<1>7. (IF x \in D THEN f[x] ELSE 0) \in Int
  OBVIOUS
<1> QED BY <1>3, <1>4, <1>5, <1>6, <1>7

LEMMA NothingColumns == Nothing \in Aggregates /\ \A c \in Counts : Nothing[c] = 0
  BY DEF Nothing, Aggregates, Columns, Counts

LEMMA ResultKnown ==
  ASSUME NEW result \in {"", "ok", "failed", "canceled"}, NEW status, NEW canceled, NEW writeFailed
  PROVE  FinalResult(result, status, canceled, writeFailed) \in Outcomes
  BY DEF FinalResult, Outcomes

\* ColumnsAddUp, endpoint by endpoint.
Adding(e) ==
  /\ total[e]["requests"] = total[e]["succeeded"] + total[e]["failed"] + total[e]["canceled"]
  /\ \A c \in Counts : OverModels(e, c) = total[e][c]
  /\ OverKeys(e, "attempts") = total[e]["attempts"]

LEMMA AddingMeans == ColumnsAddUp <=> \A e \in Endpoints : Adding(e)
  BY DEF ColumnsAddUp, Adding, Counts

LEMMA AddingInit == Init => ModelsTyped /\ ColumnsAddUp
<1> SUFFICES ASSUME Init PROVE ModelsTyped /\ ColumnsAddUp
  OBVIOUS
<1>1. ModelsTyped
  BY FS_EmptySet DEF Init, ModelsTyped
<1>2. ASSUME NEW e \in Endpoints PROVE Adding(e)
  <2>1. total[e] = Nothing /\ DOMAIN models[e] = {} /\ \A k \in Keys : keys[e][k] = Nothing
    BY DEF Init
  <2>2. \A c \in Counts : OverModels(e, c) = 0
    <3> TAKE c \in Counts
    <3> DEFINE f == [m \in DOMAIN models[e] |-> models[e][m][c]]
    <3>1. DOMAIN f = {}
      BY <2>1
    <3> HIDE DEF f
    <3>2. SumFunction(f) = 0
      BY <3>1, SumStep, FS_EmptySet DEF SumFunction
    <3> QED BY <3>2 DEF OverModels, f
  <2>3. OverKeys(e, "attempts") = 0
    <3> DEFINE f == [k \in Keys |-> keys[e][k]["attempts"]]
    <3>1. DOMAIN f = Keys /\ \A k \in Keys : f[k] = 0
      BY <2>1 DEF Nothing, Columns
    <3> HIDE DEF f
    <3>2. SumFunction(f) = 0
      BY <3>1, FiniteAssumption, SumOfZeros DEF SumFunction
    <3> QED BY <3>2 DEF OverKeys, f
  <2>4. total[e]["attempts"] = 0 /\ \A c \in Counts : total[e][c] = 0
    BY <2>1 DEF Nothing, Columns, Counts
  <2> QED BY <2>2, <2>3, <2>4 DEF Adding, Counts
<1> QED BY <1>1, <1>2, AddingMeans

\* Books that a step leaves alone go on adding up.
LEMMA AddingKept ==
  ASSUME NEW e \in Endpoints, Adding(e), total'[e] = total[e], models'[e] = models[e],
         \A k \in Keys : keys'[e][k]["attempts"] = keys[e][k]["attempts"]
  PROVE  Adding(e)'
<1>1. \A c \in Counts : OverModels(e, c)' = OverModels(e, c)
  BY DEF OverModels
<1>2. [k \in Keys |-> keys'[e][k]["attempts"]] = [k \in Keys |-> keys[e][k]["attempts"]]
  OBVIOUS
<1>3. OverKeys(e, "attempts")' = OverKeys(e, "attempts")
  BY <1>2 DEF OverKeys
<1> QED BY <1>1, <1>3 DEF Adding

\* An attempt is added to the total and to its key.
LEMMA AddingSelect ==
  ASSUME IInv, ModelsTyped, ColumnsAddUp, NEW r \in Requests, NEW k \in Keys, SelectKey(r, k)
  PROVE  ModelsTyped' /\ ColumnsAddUp'
<1> PICK e \in Endpoints : e = At(r)
  BY AtEndpoint DEF IInv
<1> PICK old : old = record[r].key
  OBVIOUS
<1>1. /\ keys' = [keys EXCEPT ![e] = Lease(keys[e], old, k)]
      /\ total' = [total EXCEPT ![e]["attempts"] = @ + 1]
      /\ models' = models
  BY DEF SelectKey
<1>2. ModelsTyped'
  BY <1>1 DEF ModelsTyped
<1>3. /\ total'[e]["attempts"] = total[e]["attempts"] + 1
      /\ \A c \in Counts : total'[e][c] = total[e][c]
  <2>1. total[e] \in Aggregates /\ total'[e] = [total[e] EXCEPT !["attempts"] = @ + 1]
    BY <1>1 DEF IInv, Typed
  <2> QED BY <2>1, ColumnTypes DEF Aggregates, Columns, Counts
<1>4. \A j \in Keys : keys'[e][j]["attempts"] = keys[e][j]["attempts"] + (IF j = k THEN 1 ELSE 0)
  <2> TAKE j \in Keys
  <2>1. keys'[e][j] = Lease(keys[e], old, k)[j] /\ keys[e][j] \in Aggregates
    BY <1>1 DEF IInv, Typed
  <2>2. Lease(keys[e], old, k)[j]["attempts"] = keys[e][j]["attempts"] + (IF j = k THEN 1 ELSE 0)
    BY <2>1 DEF Lease, Aggregates, Columns
  <2> QED BY <2>1, <2>2
<1>5. OverKeys(e, "attempts")' = OverKeys(e, "attempts") + 1
  <2> DEFINE f == [j \in Keys |-> keys[e][j]["attempts"]]
             g == [j \in Keys |-> keys'[e][j]["attempts"]]
  <2>1. /\ DOMAIN f = Keys /\ DOMAIN g = DOMAIN f \cup {k}
        /\ \A j \in Keys : f[j] \in Int /\ g[j] = f[j] + (IF j = k THEN 1 ELSE 0)
    BY <1>4, BooksTyped
  <2>2. OverKeys(e, "attempts") = SumFunction(f) /\ OverKeys(e, "attempts")' = SumFunction(g)
    BY DEF OverKeys
  <2> HIDE DEF f, g
  <2>3. SumFunction(g) = SumFunction(f) + 1
    <3>1. /\ IsFiniteSet(DOMAIN f) /\ \A j \in DOMAIN f : f[j] \in Int
          /\ \A j \in DOMAIN f \ {k} : g[j] = f[j]
          /\ g[k] = (IF k \in DOMAIN f THEN f[k] ELSE 0) + 1
      BY <2>1, FiniteAssumption
    <3> QED BY <2>1, <3>1, SumMoves
  <2> QED BY <2>2, <2>3
<1>6. \A c \in Counts : OverModels(e, c)' = OverModels(e, c)
  BY <1>1 DEF OverModels
<1>7. Adding(e) /\ \A f \in Endpoints : Adding(f)
  BY AddingMeans
<1>8. Adding(e)'
  BY <1>3, <1>5, <1>6, <1>7 DEF Adding, Counts
<1>9. \A f \in Endpoints \ {e} : Adding(f)'
  <2> TAKE f \in Endpoints \ {e}
  <2>1. total'[f] = total[f] /\ models'[f] = models[f] /\ keys'[f] = keys[f]
    BY <1>1 DEF IInv, Typed
  <2> QED BY <1>7, <2>1, AddingKept
<1>10. ColumnsAddUp'
  BY <1>8, <1>9 DEF ColumnsAddUp, Adding, Counts
<1> QED BY <1>2, <1>10

\* The end of a request is added to the total, to its model and to its key.
LEMMA AddingFinish ==
  ASSUME IInv, ModelsTyped, ColumnsAddUp, NEW r \in Requests,
         NEW status, NEW canceled, NEW writeFailed, Finish(r, status, canceled, writeFailed)
  PROVE  ModelsTyped' /\ ColumnsAddUp'
<1> PICK e \in Endpoints : e = At(r)
  BY AtEndpoint DEF IInv
<1> PICK key \in Keys \cup {NoKey} : key = record[r].key
  BY DEF IInv, Typed, Records
<1> PICK result \in Outcomes : result = FinalResult(record[r].result, status, canceled, writeFailed)
  <2>1. record[r].result \in {"", "ok", "failed", "canceled"}
    BY DEF IInv, Typed, Records
  <2> QED  BY <2>1, ResultKnown
<1> PICK model : model = ModelName(e, record[r].model)
  OBVIOUS
<1> PICK held : held = models[e]
  OBVIOUS
<1> DEFINE End(a) == Ended(a, result)
           was == IF model \in DOMAIN held THEN held[model] ELSE Nothing
           now == [m \in DOMAIN held \cup {model} |->
                     IF m # model THEN held[m] ELSE Added(was, result)]
<1>1. /\ total' = [total EXCEPT ![e] = End(total[e])]
      /\ keys' = IF key = NoKey THEN keys ELSE [keys EXCEPT ![e][key] = End(keys[e][key])]
      /\ models' = [models EXCEPT ![e] = now]
  BY DEF Finish, Ended
<1>2. \A a \in Aggregates :
        /\ End(a) \in Aggregates /\ End(a)["attempts"] = a["attempts"]
        /\ \A c \in Counts : End(a)[c] = a[c] + Weight(c, result)
  BY EndedColumns
<1> HIDE DEF End
<1>3. /\ IsFiniteSet(DOMAIN held) /\ \A m \in DOMAIN held : held[m] \in Aggregates
      /\ held = [m \in DOMAIN held |-> held[m]]
      /\ models = [f \in Endpoints |-> models[f]]
  BY DEF ModelsTyped
<1>4. was \in Aggregates
  BY <1>3, NothingColumns
<1>5. /\ models'[e] = now /\ models' = [f \in Endpoints |-> models'[f]]
      /\ \A f \in Endpoints \ {e} : models'[f] = models[f]
  BY <1>1, <1>3
<1>6. ModelsTyped'
  <2>1. /\ DOMAIN now = DOMAIN held \cup {model} /\ IsFiniteSet(DOMAIN held \cup {model})
        /\ now = [m \in DOMAIN now |-> now[m]]
        /\ \A m \in DOMAIN now : now[m] \in Aggregates
    BY <1>3, <1>4, AddedColumns, FS_AddElement
  <2> HIDE DEF now
  <2> QED  BY <1>5, <2>1 DEF ModelsTyped
<1>7. total'[e] = End(total[e]) /\ \A f \in Endpoints \ {e} : total'[f] = total[f]
  BY <1>1 DEF IInv, Typed
<1>8. \A f \in Endpoints, j \in Keys : keys'[f][j]["attempts"] = keys[f][j]["attempts"]
  <2> TAKE f \in Endpoints, j \in Keys
  <2>1. keys'[f][j] = IF f = e /\ j = key THEN End(keys[f][j]) ELSE keys[f][j]
    BY <1>1, NamesAssumption DEF IInv, Typed
  <2> QED  BY <1>2, <2>1, BooksTyped
<1>9. \A f \in Endpoints : Adding(f)
  BY AddingMeans
<1>10. \A f \in Endpoints \ {e} : Adding(f)'
  BY <1>5, <1>7, <1>8, <1>9, AddingKept
<1>11. ASSUME NEW c \in Counts PROVE OverModels(e, c)' = OverModels(e, c) + Weight(c, result)
  <2> DEFINE f == [m \in DOMAIN held |-> held[m][c]]
             g == [m \in DOMAIN now |-> now[m][c]]
  <2>1. OverModels(e, c) = SumFunction(f) /\ OverModels(e, c)' = SumFunction(g)
    BY <1>5 DEF OverModels
  <2>2. DOMAIN g = DOMAIN f \cup {model} /\ IsFiniteSet(DOMAIN f)
    BY <1>3
  <2>3. \A m \in DOMAIN f : f[m] \in Int
    BY <1>3, ColumnTypes
  <2>4. \A m \in DOMAIN f \ {model} : g[m] = f[m]
    OBVIOUS
  <2>5. g[model] = (IF model \in DOMAIN f THEN f[model] ELSE 0) + Weight(c, result)
    <3>1. g[model] = Added(was, result)[c]
      OBVIOUS
    <3>2. was[c] = IF model \in DOMAIN f THEN f[model] ELSE 0
      BY NothingColumns
    <3> HIDE DEF g, f, was
    <3> QED  BY <1>4, <3>1, <3>2, AddedColumns
  <2>6. Weight(c, result) \in Int
    BY DEF Weight
  <2> HIDE DEF f, g
  <2> QED  BY <2>1, <2>2, <2>3, <2>4, <2>5, <2>6, SumMoves
<1>12. Adding(e)'
  <2> DEFINE t == total[e]  u == total'[e]
  <2>1. t \in Aggregates /\ u["attempts"] = t["attempts"]
        /\ \A c \in Counts : u[c] = t[c] + Weight(c, result) /\ t[c] \in Int
    BY <1>2, <1>7, BooksTyped, ColumnTypes
  <2>2. t["requests"] = t["succeeded"] + t["failed"] + t["canceled"]
    BY <1>9 DEF Adding
  <2>3. Weight("requests", result)
          = Weight("succeeded", result) + Weight("failed", result) + Weight("canceled", result)
    BY DEF Weight, Outcomes
  <2>4. \A c \in Counts : Weight(c, result) \in Int
    BY DEF Weight
  <2>5. OverKeys(e, "attempts")' = OverKeys(e, "attempts")
    <3>1. [j \in Keys |-> keys'[e][j]["attempts"]] = [j \in Keys |-> keys[e][j]["attempts"]]
      BY <1>8
    <3> QED  BY <3>1 DEF OverKeys
  <2>6. \A c \in Counts : OverModels(e, c) = t[c]
    BY <1>9 DEF Adding
  <2>7. OverKeys(e, "attempts") = t["attempts"]
    BY <1>9 DEF Adding
  <2>8. {"requests", "succeeded", "failed", "canceled"} = Counts
    BY DEF Counts
  <2> HIDE DEF t, u
  <2>9. u["requests"] = u["succeeded"] + u["failed"] + u["canceled"]
    BY <2>1, <2>2, <2>3, <2>4, <2>8
  <2>10. \A c \in Counts : OverModels(e, c)' = u[c]
    BY <1>11, <2>1, <2>6
  <2> QED  BY <2>1, <2>5, <2>7, <2>9, <2>10 DEF Adding, u
<1>13. ColumnsAddUp'
  BY <1>10, <1>12 DEF ColumnsAddUp, Adding, Counts
<1> QED  BY <1>6, <1>13

\* A step that leaves the store's books alone, but for a gauge of the total.
LEMMA AddingUnmoved ==
  ASSUME ModelsTyped, ColumnsAddUp, UNCHANGED <<models, keys>>,
         \A e \in Endpoints : /\ total'[e]["attempts"] = total[e]["attempts"]
                              /\ \A c \in Counts : total'[e][c] = total[e][c]
  PROVE  ModelsTyped' /\ ColumnsAddUp'
<1>1. ModelsTyped'
  BY DEF ModelsTyped
<1>2. \A e \in Endpoints, c \in Counts : OverModels(e, c)' = OverModels(e, c)
  BY DEF OverModels
<1>3. \A e \in Endpoints : OverKeys(e, "attempts")' = OverKeys(e, "attempts")
  BY DEF OverKeys
<1>4. \A e \in Endpoints : Adding(e)
  BY AddingMeans
<1>5. \A e \in Endpoints : Adding(e)'
  BY <1>2, <1>3, <1>4 DEF Adding, Counts
<1> QED  BY <1>1, <1>5 DEF ColumnsAddUp, Adding, Counts

LEMMA AddingBegin ==
  ASSUME IInv, ModelsTyped, ColumnsAddUp, NEW r \in Requests, Begin(r)
  PROVE  ModelsTyped' /\ ColumnsAddUp'
<1> PICK e \in Endpoints : e = At(r)
  BY AtEndpoint DEF IInv
<1>1. total' = [total EXCEPT ![e]["inFlight"] = @ + 1] /\ UNCHANGED <<models, keys>>
  BY DEF Begin
<1>2. \A f \in Endpoints : /\ total'[f]["attempts"] = total[f]["attempts"]
                           /\ \A c \in Counts : total'[f][c] = total[f][c]
  <2> TAKE f \in Endpoints
  <2>1. total[f] \in Aggregates
    BY BooksTyped
  <2>2. total'[f] = IF f = e THEN [total[f] EXCEPT !["inFlight"] = @ + 1] ELSE total[f]
    BY <1>1 DEF IInv, Typed
  <2> QED  BY <2>1, <2>2 DEF Aggregates, Columns, Counts
<1> QED  BY <1>1, <1>2, AddingUnmoved

LEMMA AddingStep ==
  ASSUME IInv, ModelsTyped, ColumnsAddUp, [Next]_vars
  PROVE  ModelsTyped' /\ ColumnsAddUp'
<1>1. CASE \E r \in Requests : Begin(r)
  BY <1>1, AddingBegin
<1>2. CASE \E r \in Requests, k \in Keys : SelectKey(r, k)
  BY <1>2, AddingSelect
<1>3. CASE \E r \in Requests, result \in {"ok", "failed", "canceled"} : Count(r, result)
  <2>1. UNCHANGED <<total, keys, models>>
    BY <1>3 DEF Count
  <2> QED  BY <2>1, AddingUnmoved
<1>4. CASE \E r \in Requests : Time(r)
  <2>1. UNCHANGED <<total, keys, models>>
    BY <1>4 DEF Time
  <2> QED  BY <2>1, AddingUnmoved
<1>5. CASE \E r \in Requests : Served(r)
  BY <1>5, AddingFinish DEF Served
<1>6. CASE UNCHANGED vars
  <2>1. UNCHANGED <<total, keys, models>>
    BY <1>6 DEF vars
  <2> QED  BY <2>1, AddingUnmoved
<1> QED  BY <1>1, <1>2, <1>3, <1>4, <1>5, <1>6 DEF Next, Done

-----------------------------------------------------------------------------
(* The registry's labels. *)

Names == Models \cup {Other}

\* The requests counted under a label, and those of them that were timed.
Mine(l, r) == IF l = Other THEN record[r].model \notin labels
              ELSE l \in labels /\ record[r].model = l
Heard(l)   == {r \in Requests : record[r].result # "" /\ Mine(l, r)}
Clocked(l) == {r \in Heard(l) : pc[r] # "counted" /\ HasLatency(r)}

\* The registry's types; a request with a result has passed its counting, and the label
\* it was counted under is settled: its model has one, or there are none left.
Settled ==
  /\ labels \subseteq Models /\ IsFiniteSet(labels)
  /\ counted \in [Names -> Int] /\ timed \in [Names -> Int]
  /\ \A r \in Requests : record[r].result # "" =>
       /\ record[r].model \in Models /\ pc[r] \notin {"new", "open"}
       /\ record[r].model \in labels \/ Cardinality(labels) >= MaxLabels
  /\ \A r \in Requests : pc[r] \in {"counted", "timed"} => record[r].result # ""

LabelInv == Settled /\ LabelsAgree

LEMMA LabelsMean ==
  LabelsAgree <=> \A l \in Names : counted[l] = Cardinality(Heard(l))
                                   /\ timed[l] = Cardinality(Clocked(l))
  BY DEF LabelsAgree, Names, Heard, Clocked, Mine

LEMMA LabelsFinite ==
  ASSUME NEW l
  PROVE  IsFiniteSet(Heard(l)) /\ IsFiniteSet(Clocked(l))
<1>1. Heard(l) \subseteq Requests /\ Clocked(l) \subseteq Requests
  BY DEF Heard, Clocked
<1> QED  BY <1>1, FiniteAssumption, FS_Subset

\* A counter that moves by one.
LEMMA CounterMoves ==
  ASSUME NEW S, NEW f \in [S -> Int], NEW x \in S, NEW g, g = [f EXCEPT ![x] = @ + 1]
  PROVE  g \in [S -> Int] /\ \A y \in S : f[y] \in Int /\ g[y] = f[y] + (IF y = x THEN 1 ELSE 0)
  OBVIOUS

LEMMA LabelInit == Init => LabelInv
<1> SUFFICES ASSUME Init PROVE LabelInv
  OBVIOUS
<1>1. \A r \in Requests : record[r].result = "" /\ pc[r] = "new"
  BY DEF Init, Blank
<1>2. labels = {} /\ counted = [l \in Names |-> 0] /\ timed = [l \in Names |-> 0]
  BY DEF Init, Names
<1>3. Settled
  <2>1. labels \subseteq Models /\ IsFiniteSet(labels)
    BY <1>2, FS_EmptySet
  <2>2. counted \in [Names -> Int] /\ timed \in [Names -> Int]
    BY <1>2
  <2> QED  BY <1>1, <2>1, <2>2 DEF Settled
<1>4. \A l \in Names : Heard(l) = {} /\ Clocked(l) = {}
  BY <1>1 DEF Heard, Clocked
<1>5. LabelsAgree
  BY <1>2, <1>4, LabelsMean, FS_EmptySet
<1> QED  BY <1>3, <1>5 DEF LabelInv

\* A request is under its label once that is settled, and under no other.
LEMMA MineIsLabel ==
  ASSUME labels \subseteq Models, NEW r, NEW m \in Models, record[r].model = m,
         m \in labels \/ Cardinality(labels) >= MaxLabels
  PROVE  Label(m) \in Names /\ \A l \in Names : Mine(l, r) <=> l = Label(m)
  BY NamesAssumption DEF Label, Names, Mine

\* A step that tells no request anything and times none.
LEMMA LabelKept ==
  ASSUME LabelInv, UNCHANGED registry,
         \A r \in Requests :
           /\ record'[r].model = record[r].model /\ record'[r].result = record[r].result
           /\ record'[r].endpoint = record[r].endpoint
           /\ \/ pc'[r] = pc[r]
              \/ pc[r] = "new" /\ pc'[r] = "open"
              \/ pc[r] \in {"open", "timed"} /\ pc'[r] = "done"
              \/ pc[r] = "counted" /\ pc'[r] = "done" /\ ~HasLatency(r)
  PROVE  LabelInv'
<1>1. labels' = labels /\ counted' = counted /\ timed' = timed
  BY DEF registry
<1>2. Settled'
  BY <1>1 DEF LabelInv, Settled
<1>3. \A l \in Names : Heard(l)' = Heard(l)
  BY <1>1 DEF Heard, Mine
<1>4. \A r \in Requests : HasLatency(r)' <=> HasLatency(r)
  BY DEF HasLatency, At
<1>5. \A l \in Names : Clocked(l)' = Clocked(l)
  <2> TAKE l \in Names
  <2>1. \A r \in Heard(l) : r \in Requests /\ pc[r] \notin {"new", "open"}
    BY DEF LabelInv, Settled, Heard
  <2>2. \A r \in Heard(l) : (pc'[r] # "counted" /\ HasLatency(r)') <=> (pc[r] # "counted" /\ HasLatency(r))
    BY <1>4, <2>1
  <2> QED  BY <1>3, <2>2 DEF Clocked
<1>6. \A l \in Names : counted'[l] = Cardinality(Heard(l)') /\ timed'[l] = Cardinality(Clocked(l)')
  BY <1>1, <1>3, <1>5, LabelsMean DEF LabelInv
<1>7. LabelsAgree'
  BY <1>6 DEF LabelsAgree, Names, Heard, Clocked, Mine
<1> QED  BY <1>2, <1>7 DEF LabelInv

\* A result is counted under the request's label, which is settled from then on.
LEMMA LabelCount ==
  ASSUME IInv, LabelInv, NEW r \in Requests, NEW result \in {"ok", "failed", "canceled"}, Count(r, result)
  PROVE  LabelInv'
<1> PICK m \in Models : m = record[r].model
  BY DEF Count, IInv, Typed, Records
<1> PICK label : label = Label(m)
  OBVIOUS
<1>1. /\ pc[r] = "open" /\ pc' = [pc EXCEPT ![r] = "counted"]
      /\ record' = [record EXCEPT ![r] = Told(record[r], result)]
      /\ labels' = labels \cup ({label} \ {Other})
      /\ counted' = [counted EXCEPT ![label] = @ + 1] /\ timed' = timed
  BY DEF Count
<1>2. m # Other /\ labels \subseteq Models /\ IsFiniteSet(labels) /\ MaxLabels \in Nat
  BY NamesAssumption, BoundsAssumption DEF LabelInv, Settled
<1>3. label \in Names /\ labels' \subseteq Models /\ labels \subseteq labels' /\ IsFiniteSet(labels')
  <2>1. CASE label = Other
    BY <1>1, <1>2, <2>1 DEF Names
  <2>2. CASE label = m
    <3>1. labels' = labels \cup {m}
      BY <1>1, <1>2, <2>2
    <3> QED  BY <1>2, <2>2, <3>1, FS_AddElement DEF Names
  <2> QED  BY <2>1, <2>2 DEF Label
<1>4. /\ record'[r].model = m /\ record'[r].result = result /\ pc'[r] = "counted"
      /\ \A q \in Requests \ {r} : record'[q] = record[q] /\ pc'[q] = pc[q]
  BY <1>1 DEF IInv, Typed, Told
<1>5. record[r].result = ""
  BY <1>1 DEF LabelInv, Settled
<1>6. m \in labels' \/ Cardinality(labels') >= MaxLabels
  <2>1. CASE m \notin labels /\ Cardinality(labels) >= MaxLabels
    <3>1. labels' = labels
      BY <1>1, <2>1 DEF Label
    <3> QED  BY <2>1, <3>1
  <2>2. CASE ~(m \notin labels /\ Cardinality(labels) >= MaxLabels)
    BY <1>1, <1>2, <2>2 DEF Label
  <2> QED  BY <2>1, <2>2
<1>7. Cardinality(labels) \in Nat /\ Cardinality(labels') \in Nat
      /\ Cardinality(labels) <= Cardinality(labels')
  BY <1>2, <1>3, FS_CardinalityType, FS_Subset
<1>8. Settled'
  <2>1. counted' \in [Names -> Int] /\ timed' \in [Names -> Int]
    <3>1. counted \in [Names -> Int] /\ timed' \in [Names -> Int]
      BY <1>1 DEF LabelInv, Settled
    <3> QED  BY <1>1, <1>3, <3>1, CounterMoves
  <2>2. ASSUME NEW q \in Requests, record'[q].result # ""
        PROVE  /\ record'[q].model \in Models /\ pc'[q] \notin {"new", "open"}
               /\ record'[q].model \in labels' \/ Cardinality(labels') >= MaxLabels
    <3>1. CASE q = r
      BY <1>4, <1>6, <3>1
    <3>2. CASE q # r
      <4>1. /\ record[q].model \in Models /\ pc[q] \notin {"new", "open"}
            /\ record[q].model \in labels \/ Cardinality(labels) >= MaxLabels
        BY <1>4, <2>2, <3>2 DEF LabelInv, Settled
      <4> QED  BY <1>2, <1>3, <1>4, <1>7, <3>2, <4>1
    <3> QED  BY <3>1, <3>2
  <2>3. \A q \in Requests : pc'[q] \in {"counted", "timed"} => record'[q].result # ""
    BY <1>4 DEF LabelInv, Settled
  <2> QED  BY <1>3, <2>1, <2>2, <2>3 DEF Settled
\* Nobody who was told before is under a label that is new.
<1>9. ASSUME NEW q \in Requests \ {r}, record[q].result # "", NEW l \in Names
      PROVE  Mine(l, q)' <=> Mine(l, q)
  <2>1. record[q].model \in labels \/ labels' = labels
    <3>1. CASE Cardinality(labels) >= MaxLabels
      BY <1>1, <1>2, <3>1 DEF Label
    <3>2. CASE ~(Cardinality(labels) >= MaxLabels)
      BY <1>9, <3>2 DEF LabelInv, Settled
    <3> QED  BY <3>1, <3>2
  <2>2. record'[q].model = record[q].model
    BY <1>4
  <2> QED  BY <1>1, <1>2, <1>3, <2>1, <2>2 DEF Mine
<1>10. \A l \in Names : Mine(l, r)' <=> l = label
  <2>1. CASE m \notin labels /\ Cardinality(labels) >= MaxLabels
    <3>1. label = Other /\ labels' = labels
      BY <1>1, <2>1 DEF Label
    <3> QED  BY <1>4, <2>1, <3>1 DEF Mine
  <2>2. CASE ~(m \notin labels /\ Cardinality(labels) >= MaxLabels)
    <3>1. label = m /\ m \in labels'
      BY <1>1, <1>2, <2>2 DEF Label
    <3> QED  BY <1>2, <1>4, <3>1 DEF Mine
  <2> QED  BY <2>1, <2>2
<1>11. \A l \in Names : Heard(l)' = IF l = label THEN Heard(l) \cup {r} ELSE Heard(l)
  BY <1>4, <1>5, <1>9, <1>10 DEF Heard
<1>12. \A l \in Names : r \notin Heard(l)
  BY <1>5 DEF Heard
<1>13. \A l \in Names : Clocked(l)' = Clocked(l)
  <2> TAKE l \in Names
  <2>1. \A q \in Requests \ {r} : HasLatency(q)' <=> HasLatency(q)
    BY <1>4 DEF HasLatency, At
  <2>2. \A q \in Requests \ {r} : q \in Heard(l)' <=> q \in Heard(l)
    BY <1>11
  <2>3. Heard(l) \subseteq Requests /\ Heard(l)' \subseteq Requests
    BY DEF Heard
  <2>4. r \notin Clocked(l)' /\ r \notin Clocked(l)
    BY <1>4, <1>12 DEF Clocked
  <2>5. \A q \in Requests \ {r} : q \in Clocked(l)' <=> q \in Clocked(l)
    BY <1>4, <2>1, <2>2 DEF Clocked
  <2>6. Clocked(l) \subseteq Requests /\ Clocked(l)' \subseteq Requests
    BY <2>3 DEF Clocked
  <2> QED  BY <2>4, <2>5, <2>6
<1>14. \A l \in Names : counted'[l] = Cardinality(Heard(l)') /\ timed'[l] = Cardinality(Clocked(l)')
  <2> TAKE l \in Names
  <2>1. counted[l] = Cardinality(Heard(l)) /\ timed[l] = Cardinality(Clocked(l))
    BY LabelsMean DEF LabelInv
  <2>2. counted'[l] = counted[l] + (IF l = label THEN 1 ELSE 0) /\ counted[l] \in Int
    <3>1. counted \in [Names -> Int]
      BY DEF LabelInv, Settled
    <3> QED  BY <1>1, <1>3, <3>1, CounterMoves
  <2>3. Cardinality(Heard(l) \cup {r}) = Cardinality(Heard(l)) + 1
    BY <1>12, LabelsFinite, OneMore
  <2>4. timed'[l] = Cardinality(Clocked(l)')
    BY <1>1, <1>13, <2>1
  <2>5. CASE l = label
    BY <1>11, <2>1, <2>2, <2>3, <2>4, <2>5
  <2>6. CASE l # label
    BY <1>11, <2>1, <2>2, <2>4, <2>6
  <2> QED  BY <2>5, <2>6
<1>15. LabelsAgree'
  BY <1>14 DEF LabelsAgree, Names, Heard, Clocked, Mine
<1> QED  BY <1>8, <1>15 DEF LabelInv

\* A latency is added under the label the request was counted under.
LEMMA LabelTime ==
  ASSUME IInv, LabelInv, NEW r \in Requests, Time(r)
  PROVE  LabelInv'
<1> PICK m : m = record[r].model
  OBVIOUS
<1> PICK label : label = Label(m)
  OBVIOUS
<1>1. /\ pc[r] = "counted" /\ pc' = [pc EXCEPT ![r] = "timed"] /\ HasLatency(r)
      /\ labels' = labels \cup ({label} \ {Other})
      /\ timed' = [timed EXCEPT ![label] = @ + 1]
      /\ record' = record /\ counted' = counted
  BY DEF Time
<1>2. /\ record[r].result # "" /\ m \in Models
      /\ m \in labels \/ Cardinality(labels) >= MaxLabels
  BY <1>1 DEF LabelInv, Settled
<1>3. label \in Names /\ \A l \in Names : Mine(l, r) <=> l = label
  BY <1>2, MineIsLabel DEF LabelInv, Settled
<1>4. labels' = labels
  BY <1>1, <1>2 DEF Label
<1>5. pc'[r] = "timed" /\ \A q \in Requests \ {r} : pc'[q] = pc[q]
  BY <1>1 DEF IInv, Typed
<1>6. Settled'
  <2>1. timed' \in [Names -> Int]
    <3>1. timed \in [Names -> Int]
      BY DEF LabelInv, Settled
    <3> QED  BY <1>1, <1>3, <3>1, CounterMoves
  <2> QED  BY <1>1, <1>2, <1>4, <1>5, <2>1 DEF LabelInv, Settled
<1>7. \A l \in Names : Heard(l)' = Heard(l)
  BY <1>1, <1>4 DEF Heard, Mine
<1>8. \A l \in Names : Clocked(l)' = IF l = label THEN Clocked(l) \cup {r} ELSE Clocked(l)
  <2>1. \A q \in Requests : HasLatency(q)' <=> HasLatency(q)
    BY <1>1 DEF HasLatency, At
  <2>2. \A l \in Names : r \in Heard(l) <=> l = label
    BY <1>2, <1>3 DEF Heard
  <2> TAKE l \in Names
  <2>3. r \in Clocked(l)' <=> l = label
    BY <1>1, <1>5, <1>7, <2>1, <2>2 DEF Clocked
  <2>4. \A q \in Requests \ {r} : q \in Clocked(l)' <=> q \in Clocked(l)
    BY <1>5, <1>7, <2>1 DEF Clocked
  <2>5. Clocked(l) \subseteq Requests /\ Clocked(l)' \subseteq Requests
    BY <1>7 DEF Clocked, Heard
  <2>6. r \notin Clocked(l)
    BY <1>1 DEF Clocked
  <2> QED  BY <2>3, <2>4, <2>5, <2>6
<1>9. \A l \in Names : r \notin Clocked(l)
  BY <1>1 DEF Clocked
<1>10. \A l \in Names : counted'[l] = Cardinality(Heard(l)') /\ timed'[l] = Cardinality(Clocked(l)')
  <2> TAKE l \in Names
  <2>1. counted[l] = Cardinality(Heard(l)) /\ timed[l] = Cardinality(Clocked(l))
    BY LabelsMean DEF LabelInv
  <2>2. timed'[l] = timed[l] + (IF l = label THEN 1 ELSE 0) /\ timed[l] \in Int
    <3>1. timed \in [Names -> Int]
      BY DEF LabelInv, Settled
    <3> QED  BY <1>1, <1>3, <3>1, CounterMoves
  <2>3. Cardinality(Clocked(l) \cup {r}) = Cardinality(Clocked(l)) + 1
    BY <1>9, LabelsFinite, OneMore
  <2>4. counted'[l] = Cardinality(Heard(l)')
    BY <1>1, <1>7, <2>1
  <2>5. CASE l = label
    BY <1>8, <2>1, <2>2, <2>3, <2>4, <2>5
  <2>6. CASE l # label
    BY <1>8, <2>1, <2>2, <2>4, <2>6
  <2> QED  BY <2>5, <2>6
<1>11. LabelsAgree'
  BY <1>10 DEF LabelsAgree, Names, Heard, Clocked, Mine
<1> QED  BY <1>6, <1>11 DEF LabelInv

LEMMA LabelStep ==
  ASSUME IInv, LabelInv, [Next]_vars
  PROVE  LabelInv'
<1>1. CASE \E r \in Requests : Begin(r)
  <2> PICK r \in Requests : Begin(r)
    BY <1>1
  <2>1. pc[r] = "new" /\ pc' = [pc EXCEPT ![r] = "open"] /\ UNCHANGED <<record, registry>>
    BY DEF Begin
  <2> QED  BY <2>1, LabelKept DEF IInv, Typed
<1>2. CASE \E r \in Requests, k \in Keys : SelectKey(r, k)
  <2> PICK r \in Requests, k \in Keys : SelectKey(r, k)
    BY <1>2
  <2>1. UNCHANGED <<pc, registry>> /\ record' = [record EXCEPT ![r] = Sent(record[r], k)]
    BY DEF SelectKey
  <2>2. /\ Sent(record[r], k).model = record[r].model /\ Sent(record[r], k).result = record[r].result
        /\ Sent(record[r], k).endpoint = record[r].endpoint
    BY DEF Sent
  <2>3. \A q \in Requests : /\ record'[q].model = record[q].model
                            /\ record'[q].result = record[q].result
                            /\ record'[q].endpoint = record[q].endpoint
    BY <2>1, <2>2 DEF IInv, Typed
  <2> QED  BY <2>1, <2>3, LabelKept
<1>3. CASE \E r \in Requests, result \in {"ok", "failed", "canceled"} : Count(r, result)
  BY <1>3, LabelCount
<1>4. CASE \E r \in Requests : Time(r)
  BY <1>4, LabelTime
<1>5. CASE \E r \in Requests : Served(r)
  <2> PICK r \in Requests, status \in {"success", "error"}, canceled \in BOOLEAN, writeFailed \in BOOLEAN :
         Finish(r, status, canceled, writeFailed)
    BY <1>5 DEF Served
  <2>1. /\ pc[r] \in {"open", "counted", "timed"}
        /\ pc[r] = "counted" => ~HasLatency(r)
        /\ pc' = [pc EXCEPT ![r] = "done"] /\ UNCHANGED <<record, registry>>
    BY DEF Finish
  <2>2. pc'[r] = "done" /\ \A q \in Requests \ {r} : pc'[q] = pc[q]
    BY <2>1 DEF IInv, Typed
  <2>3. \A q \in Requests : \/ pc'[q] = pc[q]
                            \/ pc[q] \in {"open", "timed"} /\ pc'[q] = "done"
                            \/ pc[q] = "counted" /\ pc'[q] = "done" /\ ~HasLatency(q)
    BY <2>1, <2>2
  <2> QED  BY <2>1, <2>3, LabelKept
<1>6. CASE UNCHANGED vars
  <2>1. UNCHANGED <<record, pc, registry>>
    BY <1>6 DEF vars
  <2> QED  BY <2>1, LabelKept
<1> QED  BY <1>1, <1>2, <1>3, <1>4, <1>5, <1>6 DEF Next, Done

\* Both sets of books balance: every finished request is a success, a failure or a
\* cancellation, the models' books add up to the total and the keys' attempts to the
\* total's (Aggregate.add, bucket.model), and the registry counts and times a request
\* under one label, however its label table fills up in between (limitModel).
THEOREM BooksBalanceAlways == Spec => []BooksBalance
<1> DEFINE Inv == IInv /\ ModelsTyped /\ ColumnsAddUp /\ LabelInv
<1>1. Init => Inv
  BY InitInvariant, AddingInit, LabelInit
<1>2. Inv /\ [Next]_vars => Inv'
  BY NextInvariant, AddingStep, LabelStep
<1>3. Inv => BooksBalance
  BY DEF LabelInv, BooksBalance
<1> HIDE DEF Inv
<1> QED  BY <1>1, <1>2, <1>3, PTL DEF Spec

-----------------------------------------------------------------------------
(* The ring of recent requests. *)

\* The place i steps behind next.
Place(i) == IF i <= next THEN next - i ELSE (next - i) + Capacity

RingTyped ==
  /\ recent \in [0..(Capacity - 1) -> Requests \cup {NoRequest}]
  /\ next \in 0..(Capacity - 1) /\ size \in 0..Capacity
  /\ order \in Seq(Requests)

\* The place of the i-th latest request holds it.
RingInv ==
  /\ RingTyped
  /\ size = IF Len(order) < Capacity THEN Len(order) ELSE Capacity
  /\ \A i \in 1..size : recent[Place(i)] = order[(Len(order) + 1) - i]

LEMMA RingInit == Init => RingInv
<1> SUFFICES ASSUME Init PROVE RingInv
  OBVIOUS
<1>1. Capacity \in Nat \ {0}
  BY BoundsAssumption
<1> QED BY <1>1 DEF Init, RingInv, RingTyped

LEMMA RingFinish ==
  ASSUME RingInv, NEW r \in Requests,
         recent' = [recent EXCEPT ![next] = r], next' = (next + 1) % Capacity,
         size' = SizeAfter, order' = Append(order, r)
  PROVE  RingInv'
<1>1. Capacity \in Nat \ {0}
  BY BoundsAssumption
<1>2. /\ next \in Nat /\ next + 1 <= Capacity
      /\ next' = IF next + 1 = Capacity THEN 0 ELSE next + 1
  <2>1. next \in Nat /\ next + 1 <= Capacity
    BY <1>1 DEF RingInv, RingTyped
  <2>2. CASE next + 1 = Capacity
    BY <1>1, <2>1, <2>2
  <2>3. CASE next + 1 # Capacity
    <3>1. (next + 1) % Capacity = next + 1
      BY <1>1, <2>1, <2>3
    <3> QED BY <2>1, <2>3, <3>1
  <2> QED BY <2>2, <2>3
<1>3. RingTyped'
  BY <1>1, <1>2 DEF RingInv, RingTyped, SizeAfter
<1>4. /\ Len(order') = Len(order) + 1 /\ order'[Len(order) + 1] = r
      /\ \A j \in 1..Len(order) : order'[j] = order[j]
      /\ Len(order) \in Nat
  BY DEF RingInv, RingTyped
<1>5. size' = IF Len(order') < Capacity THEN Len(order') ELSE Capacity
  BY <1>1, <1>4 DEF RingInv, SizeAfter
<1>6. ASSUME NEW i \in 1..size' PROVE recent'[Place(i)'] = order'[(Len(order') + 1) - i]
  <2>1. i \in Nat /\ i >= 1 /\ i <= Capacity /\ i <= Len(order) + 1
    BY <1>1, <1>3, <1>4, <1>5 DEF RingTyped
  <2>2. CASE i = 1
    <3>1. Place(i)' = next
      BY <1>1, <1>2, <2>2 DEF Place, RingInv, RingTyped
    <3>2. (Len(order') + 1) - i = Len(order) + 1
      BY <1>4, <2>2
    <3> QED BY <1>4, <3>1, <3>2 DEF RingInv, RingTyped
  <2>3. CASE i # 1
    <3> DEFINE j == i - 1
    <3>1. j \in 1..size
      BY <1>1, <2>1, <2>3, <1>4 DEF RingInv
    <3>2. Place(i)' = Place(j) /\ Place(j) # next /\ Place(j) \in 0..(Capacity - 1)
      BY <1>1, <1>2, <2>1, <2>3 DEF Place
    <3>3. (Len(order') + 1) - i = (Len(order) + 1) - j /\ (Len(order) + 1) - j \in 1..Len(order)
      BY <1>4, <2>1, <2>3
    <3>4. recent[Place(j)] = order[(Len(order) + 1) - j]
      BY <3>1 DEF RingInv
    <3>5. recent'[Place(j)] = recent[Place(j)]
      BY <3>2 DEF RingInv, RingTyped
    <3> QED BY <1>4, <3>2, <3>3, <3>4, <3>5
  <2> QED BY <2>2, <2>3
<1> QED BY <1>3, <1>5, <1>6 DEF RingInv

LEMMA RingStep == RingInv /\ [Next]_vars => RingInv'
<1> SUFFICES ASSUME RingInv, [Next]_vars PROVE RingInv'
  OBVIOUS
<1>1. CASE UNCHANGED <<ring, order>>
  BY <1>1 DEF RingInv, RingTyped, Place, ring
<1>2. CASE \E r \in Requests : Served(r)
  <2> PICK r \in Requests : Served(r)
    BY <1>2
  <2>1. /\ recent' = [recent EXCEPT ![next] = r] /\ next' = (next + 1) % Capacity
        /\ size' = SizeAfter /\ order' = Append(order, r)
    BY DEF Served, Finish
  <2> QED BY <2>1, RingFinish
<1>3. UNCHANGED <<ring, order>> \/ \E r \in Requests : Served(r)
  BY DEF Next, Begin, SelectKey, Count, Time, Done, vars
<1> QED BY <1>1, <1>2, <1>3

LEMMA RingShown == RingInv => RecentIsLatest
<1> SUFFICES ASSUME RingInv, NEW e \in Endpoints
             PROVE  LET n == Len(order)
                        kept == IF n < Capacity THEN n ELSE Capacity
                        last == [i \in 1..kept |-> order[n + 1 - i]]
                    IN  Recent(e) = SelectSeq(last, LAMBDA r : At(r) = e)
  BY DEF RecentIsLatest
<1> DEFINE n == Len(order)
           kept == IF n < Capacity THEN n ELSE Capacity
           last == [i \in 1..kept |-> order[n + 1 - i]]
           newest == [i \in 1..size |-> recent[(next - i + Capacity) % Capacity]]
<1>1. Capacity \in Nat \ {0}
  BY BoundsAssumption
<1>2. \A i \in 1..size : (next - i + Capacity) % Capacity = Place(i)
  <2> TAKE i \in 1..size
  <2>1. i \in Nat /\ 1 <= i /\ i <= Capacity /\ next \in Nat /\ next < Capacity
    BY <1>1 DEF RingInv, RingTyped
  <2>2. CASE i <= next
    <3>1. (next - i + Capacity) % Capacity = next - i
      BY <1>1, <2>1, <2>2
    <3> QED BY <2>2, <3>1 DEF Place
  <2>3. CASE ~(i <= next)
    <3>1. (next - i + Capacity) % Capacity = next - i + Capacity
      BY <1>1, <2>1, <2>3
    <3> QED BY <2>3, <3>1 DEF Place
  <2> QED BY <2>2, <2>3
<1>3. newest = last
  BY <1>2 DEF RingInv
<1>4. Recent(e) = SelectSeq(newest, LAMBDA r : At(r) = e)
  BY Zenon DEF Recent, At
<1> HIDE DEF newest
<1>5. Recent(e) = SelectSeq(last, LAMBDA r : At(r) = e)
  BY <1>3, <1>4, Zenon
<1> QED BY <1>5

\* A snapshot lists the requests of an endpoint that finished last, the newest first,
\* however often the ring of all endpoints has wrapped (Store.finish, snapshot).
THEOREM RecentIsLatestAlways == Spec => []RecentIsLatest
  BY RingInit, RingStep, RingShown, PTL DEF Spec
=============================================================================
