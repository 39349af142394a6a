# Verification of commandcode-proxy

TLA+ models of `proxy/`, the Go proxy that offers an OpenAI-compatible API on top of the
Command Code service: what is modelled, what TLC checks on small instances, and what TLAPS
proves for every value of the constants.

## 1. The system

One process. `cmd/commandcode-proxy/main.go` reads the configuration, resolves a device
fingerprint, builds two key pools (chat and System One), the HTTP surface and its
background goroutines, and drains them on a signal. net/http runs one goroutine per request.

    client -> observeInference (stats) -> auth -> chat handler / System One handler
                                                     |  convert, Generate
                                                     v
                                                 key pool  --- one breaker per key
                                                     |  call(key)
                                                     v
                                             commandcode client -> upstream  <- version tracker
                                                     |  accepted
                                                     v
                                         fingerprint Reporter (queue, workers)
              NDJSON events <- stream reader <- idle watchdog <- response body
    /v1/models, /readyz, dashboard -> cachedFetch -> upstream lookups, usage queries

| component (under `proxy/internal/`) | state | operations | who else touches it | what is hard | what makes it correct |
|---|---|---|---|---|---|
| key pool, `keypool/` | per key: open-until time, probing flag, generation | acquire, success, failure, rotate | every request at once; the clock; cancellations | a lease outlives the breaker state that admitted it; a probe's caller vanishes | one probe; an open breaker is left alone; true retry advice; every request and every probe ends |
| error classification, `commandcode/client.go`, `stream/`, `keypool/keypool.go`, `server/errors.go`, `server/systemone.go` | none | five switches over one error, two ways to read it | pool, both handlers, in-stream events | several predicates hold of one error; the switches have different orders | the pool and the answers agree, in band and out of band |
| chat handler, `server/chat.go` | `streamState` of one response | absorb, show, finish, fail | upstream events, the client leaving | any event order; failure after the 200 | success means complete; told = recorded; the accounts are the last reported |
| idle watchdog, `server/chat_idle.go` | one timer, a deadline, a waiting flag, a context | begin, end, expire, close | timer callbacks in goroutines of their own | callbacks that run late | only real idleness cancels; every wait ends |
| stream reader, `stream/` | a buffered reader, a sticky error | Next | the handler | data and error in one read, half lines | events in order, blame where it belongs |
| request conversion, `convert/` | none | convertMessages, convertSystem, ConversationRoot | conversations that grow and are resent | reused call ids, nameless results, cache marks, injected system messages | no word is lost, results keep their call's name, the root stays |
| cachedFetch, `server/cache.go` | value, error, expiry, flight | get, refresh | callers; a detached refresh | callers that leave, a refresh landing in between | one flight, current answers, backoff, waiters return |
| model catalog, `server/models.go` | bounded map of caches with users | entry, release, list | callers of all accounts | eviction against detached fetches | bound, one fetch per account, held entries stay |
| usage queries, `commandcode/usage.go`, `server/dashboard.go` | slots; one cache per key | Usage | dashboard clients, other keys' queries | waiting for a slot under the query's own timeout; joined goroutines | an answer is of one piece; every query ends |
| Reporter, `fingerprint/report.go` | sessions per account, queue, workers | Use, finish, reportOnce, Close | requests, two workers, shutdown | session replaced while its job is queued | one report per session, nothing lost, Close ends |
| version tracker, start and shutdown, `version/`, `main.go` | the version; where main is | refresh; signal, drain, exit | requests that are being sent; the Reporter | a version that changes between sending and acceptance; a drain that times out | sessions carry the version that was sent; a graceful end cuts nothing off; the process ends |
| fingerprint resolution, `fingerprint/fingerprint.go` | the state file | Resolve | earlier and later runs of the program | a kill between truncate and write; a read that fails | a reported device is replayed |
| statistics and metrics, `stats/`, `metrics/`, `server/observability.go` | totals per endpoint, key and model; a ring; bounded labels | Begin, SelectKey, Finish, Snapshot; Request, Latency | requests, the pool | moves between keys; table, label and ring limits | gauges exact, books balance, the ring is the latest |
| System One, `server/systemone.go`, `commandcode/systemone.go` | none | parse, forward, decode, answer | the second pool | its own error switch and limits | an answer is whole; retry advice only when it helps |
| session identity, ids, logging, config, dashboard assets | no state others depend on | | | | not modelled (section 7) |

`PROJECT.json` lists every component with its status, and under `hazards` each place in
the code that a test would hardly reach, with the properties that cover it.

## 2. The modules

Every variable is commented with the field it stands for, and `PROJECT.json` (`map`) gives
the source lines of each definition. A definition whose comment begins with "Mutant" is a
plausible bug in the operator that follows it; no behaviour uses it.

State machines:

| module | models | proofs |
|---|---|---|
| `KeyPool` (extends `UpstreamError`) | `withKey` and the pool's locked operations. A request is a process with a `pc`; each lock region is one action, the upstream call between them is not | `KeyPoolProofs` |
| `Breaker` | abstract specification: what a circuit breaker promises, without clock or generations. `KeyPool!Promise` is the refinement mapping | in `KeyPoolProofs` |
| `CachedFetch` | `cachedFetch.get` and `refresh`; `serveStale` is chosen at the start | `CachedFetchProofs` |
| `ModelCatalog` | `modelCatalog.entry`, `release`, `list`; each entry's cache abstracted to what the catalog sees of it | `LookupProofs` |
| `SharedFetch` | abstract specification: what a cache of one lookup promises its callers, without clock, values or flights. `CachedFetch!Promise` is the mapping of the real cache, `ModelCatalog!Shared(e)` that of the entry `e`: the catalog relies on no more of its caches than the real one keeps | in `CachedFetchProofs`, `LookupProofs` |
| `ChatStream` | `handleChatCompletions`, `serveStream`, `serveNonStream` and the failure handlers, over a sequence of events | `ChatProofs` |
| `ChatIdle` | the watchdog and the runtime's timer | `ChatProofs` |
| `Reporter` | `Use` and the function it returns, the workers, `Close` | |
| `Lifecycle` (extends `Reporter`) | `main`, the version tracker, the requests with the version they were sent with, `Shutdown`; it drives every action of `Reporter` | `LifecycleProofs` |
| `UsageQuery` | `Client.Usage` per key under `usageSlots` and the fetch's timeout: each call goes out and returns by actions of its own | `LookupProofs` |
| `Stats` | `Begin`, `SelectKey`, `SetResult`, `Finish` as `observeInference` calls them, the counter and the latency of the metrics registry with their labels, the recent list of a snapshot | `StatsProofs` |
| `Fingerprint` | `Resolve`, `loadState`, `saveState` and main's use of the result, over many runs of the program | `FingerprintProofs` |
| `Translation` (extends the four modules below) | the inputs of the pure translations, one per state; bodies grow by lines and conversations by messages, as the upstream and the clients extend them | `TranslationProofs` |

Pure translations, as operators on their inputs and recursive functions over them:

| module | models |
|---|---|
| `UpstreamError` | `APIError`'s predicates, the two ways to read one (`parseAPIError` from an HTTP response, `Event.APIError` from an event), and the switches `PoolArm`, `ChatAnswer`, `SystemOneAnswer`, `EventFailure` and `InBandAnswer`, each an ordered list of arms as in the source |
| `StreamReader` | `Reader.Next` over a body of lines: what it delivers, and the one error it ends with |
| `Convert` | `convertMessages`, `convertSystem`, `ConversationRoot` |
| `SystemOne` | `ParseSystemOneRequest`, `decodeSystemOneResponse`, and `handleSystemOne` between them |

`MCKeyPool`, `MCStats`, `MCChatStream` and `MCTranslation` hold only the constants and symmetry of runs.

Where a module stops:

- `KeyPool`: a passthrough request (a key of the caller's own) is a request that touches no
  breaker. `Routing`, which only reads, is not an action.
- `UpstreamError`: texts are the recognised markers. A failure has at most two codes, since
  an `APIError` has two fields that can hold one; a code is a single name, and
  "authentication_error" stands for "invalid_api_key" too, which is asked for wherever it is. A
  code that is also a marker of streams (`MODEL_NOT_IN_PLAN`, `premium_credits_exhausted`) is both.
- `ChatStream`: rendering of chunks, rate and size limits are left out; a read is an event,
  an end or one of three errors, which is what `StreamReader` delivers. Writing to a client
  never fails: the handler does not look at the results of its writes.
- `ChatIdle`: the reader's results are chosen freely; the client may leave at any moment.
- `StreamReader`: JSON decoding is the kind of a line; sizes of lines are left out.
- `Convert`: a text is a sequence of words. Limits, tools and tool choice are left out.
- `SystemOne`: reading a body and rejecting an unknown model are one refusal.
- `Reporter`: the reports' content and outcome are left out, since the code only logs the outcome.
- `Lifecycle`: http.Server's drain is its documented promise (it returns when no request is
  left, or at its deadline). A pinned version is a behaviour without a refresh.
- `UsageQuery`: one query per key at a time, which is what `CachedFetch` keeps (`OneFlightAlways`);
  the truncation of long answers is left out.
- `Stats`: latency, tokens and cost are added up like the counts and are left out, and so is
  the list of attempts of a record.
- `Fingerprint`: a device is a number; hashing and collection are a fresh number. The state
  file path has a default that an empty variable does not override, so the branch of
  `Resolve` without a path cannot be taken by the program. One run at a time uses the volume.

## 3. The runs

| run | question | bounds, and why they are enough |
|---|---|---|
| `keypool_safety` | Do stale leases, probes and rotation keep the breakers right, and do they implement `Breaker`? | 2 keys, 3 requests, clock to 3, cooldowns of 1 and 2 ticks: one request can open a breaker, a second probe it and a third report a lease of an older generation; a second key gives rotation and mixed advice. Requests are symmetric. 421 thousand states |
| `keypool_liveness` | Does every request return and every probe end? | 2 requests, 2 keys, the System One variant of the switch |
| `translation` | Do the switches agree, does the reader deliver, does conversion keep words, names and roots, is a System One answer whole? | failures: 11 statuses, one of every range and every one the code names, with every payload and marker, with and without a retry time. Bodies: up to three lines and a tail of the seven kinds, both ends. Conversations: up to four messages, so that an id is used, answered, reused and answered again. Error events: the rest of the line with and without a marker. System One: names of criteria up to one over the limit. 372 thousand inputs; `CHECK_DEADLOCK FALSE` because inputs just stop growing |
| `cached_fetch` | Does the cache keep the promise of `SharedFetch`, are its answers current, is every waiter woken? | 2 callers, 3 flights, clock to 5: a success expires and a failure after it backs off before the third flight |
| `model_catalog` | Eviction against users and fetches; is each entry a `SharedFetch`? | 3 accounts on 2 slots, 2 requests: one more account than room, and requests that leave their fetch behind; 4 entries, so that two evicted ones may be referred to. 195 thousand states |
| `chat` | Is success complete and truly told, and are its accounts the last reported? | every sequence of up to 4 events, of the protocol or of the accounts (`OneFamily`; the two touch different fields): the longest minimal violation (input under two ids, a call for one, finish) has four. 1.55 million states |
| `chat_idle` | Does only a real idle wait expire, and does it always? | a window of 3 ticks, 3 callbacks in flight; time is relative, so behaviours have no end |
| `lifecycle` | One report per session, sent versions, the drain and the end | 2 accounts on a table of 1, a queue of 1, 2 versions, 2 requests, 2 workers, 2 sessions, clock to 1: every bound of the code is reached. 563 thousand states |
| `usage` | Are answers of one piece, and does every query end? | 2 keys on 1 slot: one query waits, with its timeout running, while another calls. 170 thousand states (3 keys on 2 slots add no new kind of waiting and do not fit the time) |
| `stats` | Exact gauges, balanced books, ring order | 3 requests, 2 keys, 2 endpoints, ring of 2 (wraps), a model table and a label table of 1 (both overflow); `Small` keeps two attempts among the three requests, one request to System One at most and one without a model at most. 590 thousand states |
| `device` | Is a reported device always replayed? | 4 runs: one damages the file or cannot read it, one repairs it, one replays, one more. 68 thousand states |
| `device_unsaved` | Does the fingerprint work when it cannot be saved? | as above; TLC finds the counterexample of section 6 |

Bounds that cut behaviours are `MaxTime`, `MaxFlights`, `MaxEntries`, `MaxEvents`,
`MaxCallbacks` and `MaxSessions`, each of which only disables the action that would pass it,
and the constraints `OneFamily` and `Small`. Every property of a passing run has a mutant in
`PROJECT.json` that breaks it.

What the properties say beyond their names: `UnavailableIsTrue` gives the advised wait exactly,
the end of the first cooldown, or the fallback where only probes stand in the way;
`ImplementsBreaker` lets an outcome count only if the breaker still hears its call, so a late
failure cannot reopen a breaker that a probe has closed since; `InBandAgrees` compares an error
event with the same error as an HTTP status: both are read as one failure, and the answers differ
only through the markers in the event's line (section 5); `RootIsStable` is an action property over
the growth of a conversation; `AnswersAreCurrent` puts together that nothing expired is given
and that stale serving does serve; `ImplementsSharedFetch` says of the flights themselves (not
of the field `flight`) that there is one at a time, that whoever waits has one made, and that a
landing, failed or not, puts off the next; `EntriesShareFetches` says so of every entry at every
step, and that one is replaced only when nobody uses it; `SuccessIsComplete` and
`AccountsForTheResponse` are stated over the history of events, not over the handler's own
flags; `BooksBalance` compares totals over keys, models, endpoints and the metrics' labels;
`ReportedIsReplayed` excepts only the devices that were in the file when a read of it failed.

### Fairness

- `KeyPool`: weak fairness on each request's own steps and on the end of its upstream call.
  The Go scheduler runs a goroutine that can run, and a call ends with an answer, a transport
  error or its context (chat calls are under the idle watchdog). None on new requests,
  cancellation or the clock.
- `CachedFetch`: a flight lands, because `refresh` gives its fetch a timeout; a closed
  channel wakes its waiters.
- `ChatIdle`: time passes, a due timer fires, its callback gets the lock, a read whose context
  has ended returns, the handler then calls `end`. Nothing is assumed of the upstream, which
  is the point of the property.
- `Lifecycle`: `Shutdown` returns, drained or at its deadline; `Close` goes on once the workers
  have stopped, and they step (their calls have a timeout); main then exits. Nothing is assumed
  of requests, which may hang, nor that a signal comes: `ShutdownEnds` starts from one.
- `UsageQuery`: the timeout passes, a call whose context has ended returns, the goroutines go
  on. Nothing is assumed of the upstream or of the order in which slots are given.

Liveness is checked by TLC only.

## 4. The proofs

TLAPS checks these for all values of the constants that satisfy the named assumptions of the
modules: positive durations and sizes; `Failures` a set of failures; sets of requests, keys,
accounts and `Runs` finite; the markers of absence outside the sets they mark; the blank line that
joins sections a text; messages, questions and answers of the shapes JSON decoding yields
(`InputsAssumption`). Every safety property, action property and refinement that a passing run
checks is a theorem.

- **`KeyPoolProofs`**: `TypeCorrect`, `OneProbeAlways`, `OpenHoldsAlways`,
  `UnavailableIsTrueAlways`, `PoolImplementsBreaker`. `TypeOK` already says that a lease's
  generation is one its key has reached. With it `OneProbe` is inductive, key by key
  (`KeyInv`): opening a breaker and admitting a probe both raise the generation, so the leases
  of the current generation (`Holders`) become empty, or the prober alone. An open breaker
  therefore has no holder and no outcome can change it (`OpenHolds`). The truth of the advice
  also needs that a request only returns to selection after a failure (`TriedFailed`). The
  refinement maps a breaker's state by its time and flag, and the calls it hears to its `Holders`
  (`HeardFacts`): opening deafens it to all of them, a probe makes the prober the only one, and the
  outcome of a call it does not hear is an `Ignore`, which changes nothing.
- **`CachedFetchProofs`**: `OneFlightAlways`, `AnswersAreCurrentAlways`, `BackoffAlways`,
  `CacheSharesFetches`. A new flight starts only when none is in the air, so the one in the air is
  the last (`FlightIsLast`); between flights the next refresh is the last landing plus its time to
  live (`Kept`); the cache holds the last success or the last outcome (`HoldsNewest`,
  `HoldsLatest`); a waiting caller has asked before its flight landed (`AskedInTime`). The
  refinement also needs that a refresh in the air is one whose time had come (`Due`): then the
  field `flight` and the flights agree (`AirIsFlight`) and an outcome is fresh exactly while it
  lasts (`LastingIsFresh`). One lemma per kind of step: callers, landings, the clock.
- **`LookupProofs`**, the usage queries: `AnswersAreWholeAlways`. At each place of a query the
  calls sent and their parameters are known (`Staged`), and only the query's own timeout cuts one
  off (`CutByTimeout`), which makes the outcome an error.
- **`LookupProofs`**, the model catalog: `OneFetchPerAccountAlways`, `HeldEntriesStayAlways`,
  `EntriesShareFetchesAlways`. `users` is exactly the number of requests that hold an entry
  (`Counted`), an entry in the map is its account's (`Owned`), and one that is held or fetched for
  is in the map (`InUse`): so the entry that `entry` evicts is held by nobody, and an account's
  fetch is always that of its one entry. The order of use is strict and total on the map
  (`Ordered`), so there is an oldest to evict. The refinement is shown for any one entry `e`: a
  step of the map, of a request or of time is a step of `e`'s cache, a drop or a stutter.
- **`ChatProofs`**, the watchdog: `WatchdogTyped`, `TimerFollowsWaitAlways`,
  `OnlyIdleWaitsExpireAlways`. The strengthening (`WaitMeasured`) is that while the handler waits
  the deadline is exactly what is left of the window.
- **`ChatProofs`**, the handler: `ToldAsRecordedAlways`, `DepartureIsNotFailureAlways`,
  `SuccessIsCompleteAlways`, `AccountsForTheResponseAlways`, for any set of events and responses
  of any length. Before the end nothing has been told or recorded, and the header is out exactly
  when something visible was streamed (`Undecided`). The other two relate the handler's flags to
  the history: `Folded` (what is sound, noted, and why a finish is open or closed) and `Ledger`
  (usage, captured count and cost), each as a place in the history that exists, which an
  appended event does not move or becomes.
- **`TranslationProofs`**: `ClientFaultsKeepKeysAlways`, `ChatAgreesWithPoolAlways`,
  `OutageIsSurfacedAlways`, `InBandAgreesAlways`, `EventsAreDeliveredAlways`,
  `SystemTextIsIdenticalAlways`, `ToolsStayPairedAlways`, `RootIsStableAlways`,
  `SystemOneIsWholeAlways`, for any failure, bodies and conversations of any length and any set
  of questions. The inductive invariant (`Inputs`) only says what the input of each translation
  is; the work is in the translations. The switches are unfolded arm by arm (`PoolArms`,
  `ChatArms`, `SystemOneArms`). An event of either form is read as the failure it carries
  (`WrappedReads`, `PlainReads`), and where markers are alone they name what its predicates find
  (`MarkersTell`, `InBandTells`). What a translation does over a sequence is shown by induction over
  its length (section 5): the reader has delivered exactly the events of the lines it has passed
  and blames the first fault (`ReadsOn`); the sections of a system prompt and the system's words
  tell the same text at every message (`MessageKeepsTell`); the converted turns hold the calls and
  results of the messages so far, each result under the name that the last call of its id had
  (`Holds`, `Agree`, `TurnKeeps`).
- **`FingerprintProofs`**: `ReportedIsReplayedAlways`, for any number of runs. One run is up at a
  time (`Alone`), a running run's device is in the file (`InFile`), and a run that makes a device
  has found no whole file it could read (`NothingToLose`, `Expendable`).
- **`LifecycleProofs`**: `TypeCorrect`, `OneReportPerSessionAlways`, `QueuedIsPendingAlways`,
  `UsedAsSentAlways`, `GracefulIsWholeAlways`, `BusySessionsStayAlways`. The invariant begins with
  types, exact in-flight counts and what was sent (`BaseInv`): the counts must be exact because a
  session that has left the table must stay dead. On it rest that a session has one job
  (`OneJob`), that it is used as it was sent (`UsedAsSent`), and what is left at each stage of the
  end (`Ending`).
- **`StatsProofs`**: `InFlightIsExactAlways`, `BooksBalanceAlways`, `RecentIsLatestAlways`. Types,
  and that a request that has not begun has no key (`Fresh`), make the gauges inductive; each step
  moves a request into or out of one set. The books are sums over finite sets: a sum exists, does
  not depend on the order it is taken in, and moves by what one member moves (`SumsExist`,
  `SumStep`, `SumRemove`), so a step that adds the same weight to one key, one model and the totals
  keeps them equal (`SumMoves`). For the labels, what a request was counted under stays
  its label (`Settled`). Of the ring: the place i steps behind `next` holds the i-th
  latest record (`RingInv`), from which the snapshot's order follows.

Only model-checked: liveness (`RequestsReturn`, `ProbesEnd`, `WaitersReturn`, `WaitsEnd`,
`ShutdownEnds`, `QueriesEnd`), since fairness and ENABLED are beyond the provers.

## 5. Notes from the modelling and the proofs

- The chat path and the System One path order their switches differently. A 413 that also
  names an account error is a request error to the pool and to chat, and is not one to
  `writeSystemOneError`, which has no arm for it; `ChatAgreesWithPool` is therefore stated for
  chat only.
- `expire`'s re-arming of an early callback repeats what `begin` has already armed; the
  property `TimerFollowsWait` holds because both agree on the deadline.
- A client's departure leaves a truncated or invalid stream unrecorded by the handler;
  `observeInference` still counts the request as canceled from its context.
- A request without `max_tokens` is sent with 64000 even where `MAX_TOKENS_CLAMP` is lower
  (`convert.go:151`): the clamp is for what clients ask.
- A read of the state file that fails is taken for a missing file: the run collects a device
  and saves it over the one it could not read, which is then never replayed although the
  package means to collect once and replay for ever (`fingerprint.go:8`). `ReportedIsReplayed`
  excepts the devices lost in this way and shows that it is the only way; without the exception
  (`\ misread`) TLC finds the loss in twelve steps.
- An error event comes after the pool has counted the request as a success, so no breaker
  opens for it. The client's answer can differ from that to the same error as an HTTP status:
  `TerminalError` looks for its markers before the switch of `classifyUpstreamError` and in the
  whole line, so that a code or a type that holds a marker counts like a message. An event
  `{"code":"MODEL_NOT_IN_PLAN","statusCode":429}` ends in 403 `plan_error`, which clients take as
  final; over HTTP the same object is a 429 `rate_limit_error`, with a time to retry. In the same
  way a marker in the line outranks a request that is too large, a missing zero-retention route
  and a spend cap. `InBandAgrees` shows that the markers are the only cause: without one the
  answers are the same, with one the answer is final, and markers that come alone, under the
  status they have over HTTP, are answered as there.
- A usage query may use up its timeout in the queue for a slot, and that outcome is kept for a
  minute like any failure although the upstream was not asked (`GiveUp`). Nothing in the
  repository promises otherwise; `QueriesEnd` and `AnswersAreWhole` say that such a query ends
  and is not taken for figures.
- A fetch of `CachedFetch` that fails counts as fresh for its own, shorter time: that is the
  backoff, and why `SharedFetch` speaks of fresh outcomes and not of fresh values.
- The library's induction rules take a predicate as a parameter, which the provers cannot
  instantiate. Induction is done with sets instead: `NatSetInduction` says of a set of naturals
  closed under successor that it is all of them, and follows from the well-foundedness of `<`
  through the least counterexample; the predicate becomes the set of the numbers it holds of.
  In the same way a recursive function is shown to exist before its equations are used
  (`LoopsExist`, `SumsExist`, `FlatsExist`), since a recursive definition is a CHOOSE. The proof
  modules that need it each prove `NatSetInduction`, to depend on no module but the one they are about.

## 6. Findings

`device_unsaved`: the comment in `fingerprint.Resolve` calls a failed save non-fatal ("fingerprint
still works, just won't survive restarts") and returns the fingerprint with an error. `main`
takes any error as a failed resolution and goes on without the fingerprint, so nothing is
reported in that run. What main does is also what makes `ReportedIsReplayed` true: its mutant,
which uses the unsaved device, reports one that the next run does not replay.

## 7. Not modelled

- Session identity, ids, logging and diagnostics: hashes, random names and log lines, with no
  state another part depends on.
- Configuration: read once; its limits are constants of the other modules.
- Dashboard assets: a page that polls the snapshot.
- Of `convert`, the fields that are copied one by one; of `stats` and `metrics`, the sums of
  tokens, latency and cost and the text format; of the servers, routing, authentication and
  the direct credits query.
- Two replicas on one volume: `Fingerprint` lets one run at a time use it, as a single replica
  with its own volume does.

Library code (net/http, timers, the runtime, the operating system) appears as external actions.

## 8. The plan

The order puts first what can fail through interleavings, then what can fail through order of
data, then the rest. Everything of section 2 is done, and every safety property of section 3 is
proved. What is left, in order:

1. An abstract specification of the Reporter (a session is reported once, by whoever finds it
   pending), implemented by `Lifecycle`, as `Breaker` and `SharedFetch` are by their modules.
2. `Fingerprint` with two runs up at once, for replicas that share a volume.
3. The remaining fields of `convert` (limits and tool choice) and the list of attempts of a
   statistics record.
