------------------------------- MODULE Stats --------------------------------
(***************************************************************************)
(* The two sets of books on inference requests, stats.Store for the        *)
(* dashboard and metrics.Registry for Prometheus.  A request is observed   *)
(* from its arrival (Begin) to the end of its handler (Finish); on the way *)
(* the key pool notes each key it is sent with, and the handler its        *)
(* result, which it tells the registry, too: it counts the request, and    *)
(* afterwards adds its latency, each under a label of its own lookup.      *)
(* Begin, SelectKey and Finish lock the store, the registry has locks of   *)
(* its own, the rest touches the request's own record.  Finished records   *)
(* go to a ring that both endpoints share.                                 *)
(*                                                                         *)
(* Tokens and cost are left out: they are added up like the counts, cost   *)
(* after the latency and under its label.  A key the store does not know   *)
(* is never leased.                                                        *)
(***************************************************************************)
EXTENDS Naturals, Sequences, FiniteSets, Functions

CONSTANTS
  Requests,   \* the requests observed
  Endpoints,  \* "llm" and "jev"
  Keys,       \* Store.allowed
  Models,     \* the models clients ask for
  NoRequest,  \* an empty place in the ring
  NoKey,      \* the key of a request that was sent with none
  Unnamed,    \* the model of a request that named none
  Other,      \* "[other models]"
  MaxModels,  \* maxModels
  MaxLabels,  \* the models the registry keeps apart
  Capacity    \* len(Store.recent)

ASSUME BoundsAssumption == {MaxModels, MaxLabels, Capacity} \subseteq Nat \ {0}
ASSUME FiniteAssumption == IsFiniteSet(Requests) /\ IsFiniteSet(Keys)
ASSUME NamesAssumption == NoKey \notin Keys /\ Unnamed \notin Models /\ Other \notin Models

VARIABLES
  record,   \* the Record of each request
  pc,       \* whether it is new, open, counted or timed by the registry, or done
  total,    \* bucket.total of each endpoint
  keys,     \* bucket.keys
  models,   \* bucket.models, a function on the models it holds
  recent,   \* Store.recent
  next,     \* Store.next
  size,     \* Store.size
  labels,   \* Registry.models
  counted,  \* Registry.Requests, by label
  timed,    \* the count of Registry.LatencyMs, by label
  order     \* history: the requests in the order they finished

ring     == <<recent, next, size>>
registry == <<labels, counted, timed>>
vars     == <<record, pc, total, keys, models, ring, registry, order>>

Columns == {"requests", "succeeded", "failed", "canceled", "attempts", "inFlight"}

Nothing == [c \in Columns |-> 0]

(* The model a request names is its own affair until it finishes, so it is chosen    *)
(* with the request; one refused before SetModel is Unnamed.                         *)
Blank ==
  [endpoint : Endpoints, model : Models \cup {Unnamed}, key : {NoKey}, sent : {0}, result : {""}]

Init ==
  /\ record \in [Requests -> Blank]
  /\ pc = [r \in Requests |-> "new"]
  /\ total = [e \in Endpoints |-> Nothing]
  /\ keys = [e \in Endpoints |-> [k \in Keys |-> Nothing]]
  /\ models = [e \in Endpoints |-> [m \in {} |-> Nothing]]
  /\ recent = [i \in 0..(Capacity - 1) |-> NoRequest] /\ next = 0 /\ size = 0
  /\ labels = {}
  /\ counted = [l \in Models \cup {Other} |-> 0] /\ timed = counted
  /\ order = <<>>

-----------------------------------------------------------------------------
At(r) == record[r].endpoint

Begin(r) ==
  /\ pc[r] = "new"
  /\ pc' = [pc EXCEPT ![r] = "open"]
  /\ total' = [total EXCEPT ![At(r)]["inFlight"] = @ + 1]
  /\ UNCHANGED <<record, keys, models, ring, registry, order>>

\* Mutant: the key the request was sent with before keeps it in flight.
LeaseKeyOnly(b, old, new) ==
  [b EXCEPT ![new]["inFlight"] = @ + 1, ![new]["attempts"] = @ + 1]

\* The request moves from the key it was sent with before to the new one.
Lease(b, old, new) ==
  [k \in Keys |->
     [b[k] EXCEPT !["inFlight"] = (@ + (IF k = new THEN 1 ELSE 0)) - (IF k = old THEN 1 ELSE 0),
                  !["attempts"] = @ + (IF k = new THEN 1 ELSE 0)]]

\* The record of a request that is sent with k, and of one with a result.
Sent(x, k) ==
  [endpoint |-> x.endpoint, model |-> x.model, key |-> k, sent |-> x.sent + 1, result |-> x.result]
Told(x, result) ==
  [endpoint |-> x.endpoint, model |-> x.model, key |-> x.key, sent |-> x.sent, result |-> result]

\* The pool sends the request with a key; it takes each of them once at most, so a
\* request moves on to another.
SelectKey(r, k) ==
  /\ pc[r] = "open" /\ k # record[r].key
  /\ record[r].sent < Cardinality(Keys)
  /\ keys'   = [keys EXCEPT ![At(r)] = Lease(@, record[r].key, k)]
  /\ total'  = [total EXCEPT ![At(r)]["attempts"] = @ + 1]
  /\ record' = [record EXCEPT ![r] = Sent(@, k)]
  /\ UNCHANGED <<pc, models, ring, registry, order>>

-----------------------------------------------------------------------------
(* The handler's result, and the registry. *)

\* Mutant: once the labels are used up, even a known model has none.
LabelFullFirst(m) == IF Cardinality(labels) >= MaxLabels THEN Other ELSE m

\* limitModel: a model that is new when MaxLabels are known stays without one.
Label(m) == IF m \notin labels /\ Cardinality(labels) >= MaxLabels THEN Other ELSE m

\* recordSuccess or recordFailure, and their like in handleSystemOne, for a request
\* that named a model: the result is noted and the request counted.  It is "canceled"
\* if the client has left, and "failed" stands for every other failure.
Count(r, result) ==
  LET label == Label(record[r].model)
  IN /\ pc[r] = "open" /\ record[r].model # Unnamed
     /\ pc' = [pc EXCEPT ![r] = "counted"]
     /\ record'  = [record EXCEPT ![r] = Told(@, result)]
     /\ labels'  = labels \cup ({label} \ {Other})
     /\ counted' = [counted EXCEPT ![label] = @ + 1]
     /\ UNCHANGED <<total, keys, models, ring, timed, order>>

\* Of chat requests only a success has its latency observed.
HasLatency(r) == record[r].result = "ok" \/ At(r) = "jev"

\* ObserveLatency.
Time(r) ==
  LET label == Label(record[r].model)
  IN /\ pc[r] = "counted" /\ HasLatency(r)
     /\ pc' = [pc EXCEPT ![r] = "timed"]
     /\ labels' = labels \cup ({label} \ {Other})
     /\ timed' = [timed EXCEPT ![label] = @ + 1]
     /\ UNCHANGED <<record, total, keys, models, ring, counted, order>>

-----------------------------------------------------------------------------
(* Finish. *)

\* Aggregate.add.
Added(a, result) ==
  [a EXCEPT !["requests"]  = @ + 1,
            !["succeeded"] = @ + (IF result = "ok" THEN 1 ELSE 0),
            !["canceled"]  = @ + (IF result = "canceled" THEN 1 ELSE 0),
            !["failed"]    = @ + (IF result = "failed" THEN 1 ELSE 0)]

\* Mutant: a request nobody recorded a result for keeps none.
FinalResultRaw(result, status, canceled, writeFailed) ==
  IF canceled THEN "canceled" ELSE IF writeFailed THEN "failed" ELSE result

\* A client that left, then a write that failed, outrank what the handler recorded;
\* without a result the status decides.
FinalResult(result, status, canceled, writeFailed) ==
  CASE canceled                         -> "canceled"
    [] ~canceled /\ writeFailed         -> "failed"
    [] ~canceled /\ ~writeFailed /\ result # "" -> result
    [] OTHER                            -> IF status = "error" THEN "failed" ELSE "ok"

\* The name under which a model is counted: its own while the table has room.
ModelName(e, m) ==
  IF m \notin DOMAIN models[e] /\ Cardinality(DOMAIN models[e]) >= MaxModels THEN Other ELSE m

SizeAfter == IF size < Capacity THEN size + 1 ELSE size

Finish(r, status, canceled, writeFailed) ==
  LET e     == At(r)
      key   == record[r].key
      model == ModelName(e, record[r].model)
      Add(a) == Added(a, FinalResult(record[r].result, status, canceled, writeFailed))
      End(a) == [Add(a) EXCEPT !["inFlight"] = @ - 1]
  IN /\ pc[r] \in {"open", "counted", "timed"}
     /\ pc[r] = "counted" => ~HasLatency(r)
     /\ pc' = [pc EXCEPT ![r] = "done"]
     /\ total'  = [total EXCEPT ![e] = End(@)]
     /\ keys'   = IF key = NoKey THEN keys ELSE [keys EXCEPT ![e][key] = End(@)]
     /\ models' = [models EXCEPT ![e] =
          [m \in DOMAIN @ \cup {model} |->
             IF m # model THEN @[m] ELSE Add(IF m \in DOMAIN @ THEN @[m] ELSE Nothing)]]
     /\ recent' = [recent EXCEPT ![next] = r]
     /\ next'   = (next + 1) % Capacity
     /\ size'   = SizeAfter
     /\ order'  = Append(order, r)
     /\ UNCHANGED <<record, registry>>

\* observeInference's deferred call: the status and the write failure its observedWriter
\* saw, and whether the client had left by then, as it has if the handler saw it leave.
Served(r) ==
  \E status \in {"success", "error"}, canceled, writeFailed \in BOOLEAN :
    /\ record[r].result = "canceled" => canceled
    /\ Finish(r, status, canceled, writeFailed)

Done == (\A r \in Requests : pc[r] = "done") /\ UNCHANGED vars

Next ==
  \/ \E r \in Requests :
       \/ Begin(r)
       \/ \E k \in Keys : SelectKey(r, k)
       \/ \E result \in {"ok", "failed", "canceled"} : Count(r, result)
       \/ Time(r) \/ Served(r)
  \/ Done

Spec == Init /\ [][Next]_vars

-----------------------------------------------------------------------------
(* What a snapshot shows. *)

\* Mutant: the ring is read from its first place.
RecentUnwrapped(e) ==
  LET newest == [i \in 1..size |-> recent[size - i]]
  IN SelectSeq(newest, LAMBDA r : record[r].endpoint = e)

\* Snapshot's list of recent requests of an endpoint, the newest first.
Recent(e) ==
  LET newest == [i \in 1..size |-> recent[(next - i + Capacity) % Capacity]]
  IN SelectSeq(newest, LAMBDA r : record[r].endpoint = e)

-----------------------------------------------------------------------------
(* Properties. *)

Running(r) == pc[r] \in {"open", "counted", "timed"}

\* The requests shown in flight, per endpoint and per key, are those that are: a
\* retry with another key moves a request, and every end of a request ends it once.
InFlightIsExact ==
  \A e \in Endpoints :
    LET running == {r \in Requests : Running(r) /\ At(r) = e}
    IN /\ total[e]["inFlight"] = Cardinality(running)
       /\ \A k \in Keys :
            keys[e][k]["inFlight"] = Cardinality({r \in running : record[r].key = k})

\* A column's sum over the models counted, and over the keys.
OverModels(e, field) == SumFunction([m \in DOMAIN models[e] |-> models[e][m][field]])
OverKeys(e, field)   == SumFunction([k \in Keys |-> keys[e][k][field]])

\* The columns agree with each other: every request is a success, a failure or a
\* cancellation, the models add up to the total, and so do the keys' attempts.
ColumnsAddUp ==
  \A e \in Endpoints :
    LET t == total[e]
    IN /\ t["requests"] = t["succeeded"] + t["failed"] + t["canceled"]
       /\ \A field \in {"requests", "succeeded", "failed", "canceled"} :
            OverModels(e, field) = t[field]
       /\ OverKeys(e, "attempts") = t["attempts"]

\* A request is counted and timed under one label, its model's if that has one and
\* "[other models]" if not, however the label table fills up between the two.
LabelsAgree ==
  \A l \in Models \cup {Other} :
    LET mine(r) == IF l = Other THEN record[r].model \notin labels
                   ELSE l \in labels /\ record[r].model = l
        told == {r \in Requests : record[r].result # "" /\ mine(r)}
    IN /\ counted[l] = Cardinality(told)
       /\ timed[l] = Cardinality({r \in told : pc[r] # "counted" /\ HasLatency(r)})

\* Both sets of books balance.
BooksBalance == ColumnsAddUp /\ LabelsAgree

\* The recent requests shown are the last that finished, the newest first, less
\* those of the other endpoint.
RecentIsLatest ==
  LET n == Len(order)
      kept == IF n < Capacity THEN n ELSE Capacity
      last == [i \in 1..kept |-> order[n + 1 - i]]
  IN \A e \in Endpoints : Recent(e) = SelectSeq(last, LAMBDA r : At(r) = e)
=============================================================================
