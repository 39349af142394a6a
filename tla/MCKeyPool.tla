----------------------------- MODULE MCKeyPool -----------------------------
(* Small instances of KeyPool for TLC. *)
EXTENDS KeyPool, TLC

Api(status, codes, text, retry) ==
  [kind |-> "api", status |-> status, codes |-> codes, text |-> text, retry |-> retry]

\* One failure for each thing the pool can do with a breaker: release, close and
\* stop, close and rotate, open for the default, the advised and the credits time.
MCFailures ==
  { [kind |-> "interrupted", status |-> 0, codes |-> {}, text |-> "none", retry |-> 0],
    Api(503, {}, "none", 0),
    Api(403, {}, "model_not_in_plan", 0),
    Api(429, {}, "none", 0),
    Api(429, {}, "none", 2),
    Api(403, {}, "none", 0) }

\* Enough for liveness: a probe may be released, fail or succeed.
LiveFailures ==
  { [kind |-> "interrupted", status |-> 0, codes |-> {}, text |-> "none", retry |-> 0],
    Api(429, {}, "none", 0),
    Api(403, {}, "model_not_in_plan", 0),
    Api(403, {}, "none", 0) }

Interchangeable == Permutations(Requests)
=============================================================================
