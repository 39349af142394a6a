------------------------------ MODULE MCStats -------------------------------
(* Symmetry and the bounds of the run. *)
EXTENDS Stats, TLC

Interchangeable == Permutations(Requests) \cup Permutations(Keys) \cup Permutations(Models)

\* One retry, or two requests sent once; one request to System One, and one without a model.
Small ==
  /\ SumFunction([r \in Requests |-> record[r].sent]) <= 2
  /\ Cardinality({r \in Requests : record[r].endpoint = "jev"}) <= 1
  /\ Cardinality({r \in Requests : record[r].model = Unnamed}) <= 1
=============================================================================
