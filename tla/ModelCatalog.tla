---------------------------- MODULE ModelCatalog ----------------------------
(***************************************************************************)
(* server.modelCatalog: a bounded map from accounts to cached model lists. *)
(* A request takes its account's entry under the catalog's mutex and is    *)
(* counted as its user until it has its answer; the entry's own cache      *)
(* (module CachedFetch) is used under another mutex, and a fetch it starts *)
(* outlives the request.  A full map drops the entry used least recently   *)
(* among those without users and without a fetch in the air.               *)
(*                                                                         *)
(* An entry is named by a number, taken up again when nothing refers to it *)
(* any more; of its cache only what the catalog can tell apart is kept:    *)
(* whether it holds a list, whether the last outcome is still fresh, and   *)
(* whether a fetch is in the air.  The policy is serveStale; time is the   *)
(* choice of Expire.                                                       *)
(***************************************************************************)
EXTENDS Naturals, FiniteSets

CONSTANTS
  Accounts,   \* the credentials requests come with
  Requests,   \* the requests for the catalog
  Capacity,   \* modelCatalogCapacity
  MaxEntries  \* bound on the entries in memory, those dropped from the map included

ASSUME CapacityAssumption == Capacity \in Nat \ {0} /\ MaxEntries \in Nat
ASSUME FiniteAssumption == IsFiniteSet(Accounts) /\ IsFiniteSet(Requests)

VARIABLES
  entries,  \* modelCatalog.entries: each account's entry, 0 when it has none
  older,    \* modelCatalogEntry.used: <<a, b>> if a's entry was used before b's
  owner,    \* the account each entry was made for
  users,    \* modelCatalogEntry.users
  cache,    \* modelCatalogEntry.cache
  pc,       \* where each request is in list
  holds     \* the entry it holds, 0 for none

catalog    == <<entries, older, owner, users>>
requests   == <<pc, holds>>
allCatalog == <<catalog, cache, requests>>

Entries == 1..MaxEntries

Cold == [has |-> FALSE, fresh |-> FALSE, flying |-> FALSE]

InitCatalog ==
  /\ entries = [a \in Accounts |-> 0] /\ older = {}
  /\ owner = [e \in Entries |-> CHOOSE a \in Accounts : TRUE]
  /\ users = [e \in Entries |-> 0]
  /\ cache = [e \in Entries |-> Cold]
  /\ pc = [r \in Requests |-> "idle"]
  /\ holds = [r \in Requests |-> 0]

-----------------------------------------------------------------------------
(* The map. *)

\* Mutants: a fetch in the air, or a user, does not keep an entry.
EvictableThoughFlying(a) == users[entries[a]] = 0
EvictableThoughUsed(a)   == ~cache[entries[a]].flying

Evictable(a) == users[entries[a]] = 0 /\ ~cache[entries[a]].flying

\* The accounts in the map, and those that could give up their entry.
Kept    == {a \in Accounts : entries[a] # 0}
Victims == {a \in Kept : Evictable(a)}

\* The least recently used of some accounts.
Oldest(S) == {a \in S : \A b \in S \ {a} : <<a, b>> \in older}

\* Mutant: the map grows past its capacity by one.
CrowdedLate == Cardinality(Kept) > Capacity

Crowded == Cardinality(Kept) >= Capacity

\* The order of use after a use of a, when the map keeps these accounts.
Used(a, kept) ==
  LET rest == kept \ {a} IN (older \cap (rest \X rest)) \cup (rest \X {a})

Take(r, e) ==
  /\ pc'    = [pc EXCEPT ![r] = "holding"]
  /\ holds' = [holds EXCEPT ![r] = e]

\* entry, when the account has one.
Find(r, a) ==
  LET e == entries[a]
  IN /\ pc[r] = "idle" /\ e # 0
     /\ users' = [users EXCEPT ![e] = @ + 1]
     /\ older' = Used(a, Kept)
     /\ Take(r, e)
     /\ UNCHANGED <<entries, owner, cache>>

\* Entries that nothing refers to.
Free ==
  {e \in Entries : /\ \A a \in Accounts : entries[a] # e
                   /\ \A r \in Requests : holds[r] # e
                   /\ ~cache[e].flying}

\* entry, when it makes one, in the place of a victim if the map is full.
Create(r, a) ==
  LET e == CHOOSE e \in Free : TRUE
      victims == IF Crowded THEN Oldest(Victims) ELSE {}
  IN /\ pc[r] = "idle" /\ entries[a] = 0 /\ Free # {}
     /\ Crowded => Victims # {}
     /\ entries' = [b \in Accounts |->
          IF b = a THEN e ELSE IF b \in victims THEN 0 ELSE entries[b]]
     /\ older' = Used(a, Kept \ victims)
     /\ owner' = [owner EXCEPT ![e] = a]
     /\ users' = [users EXCEPT ![e] = 1]
     /\ cache' = [f \in Entries |-> IF f \in Free THEN Cold ELSE cache[f]]
     /\ Take(r, e)

Answer(r) == pc' = [pc EXCEPT ![r] = "answered"]

\* entry, when the map is full of entries in use: the static list is served.
NoRoom(r, a) ==
  /\ pc[r] = "idle" /\ entries[a] = 0
  /\ Crowded /\ Victims = {}
  /\ Answer(r)
  /\ UNCHANGED <<catalog, cache, holds>>

\* release, deferred to the end of list.
Release(r) ==
  /\ pc[r] = "answered"
  /\ pc' = [pc EXCEPT ![r] = "idle"]
  /\ holds' = [holds EXCEPT ![r] = 0]
  /\ users' = IF holds[r] = 0 THEN users ELSE [users EXCEPT ![holds[r]] = @ - 1]
  /\ UNCHANGED <<entries, older, owner, cache>>

-----------------------------------------------------------------------------
(* The entry's cache, see CachedFetch. *)

\* get: a fresh outcome, or a stale list while a fetch runs, answers at once; a
\* cold entry makes the request wait for the one fetch.
Get(r) ==
  LET e == holds[r]
  IN /\ pc[r] = "holding"
     /\ cache' = [cache EXCEPT ![e].flying = @ \/ ~cache[e].fresh]
     /\ IF cache[e].fresh \/ cache[e].has
        THEN Answer(r)
        ELSE pc' = [pc EXCEPT ![r] = "waiting"]
     /\ UNCHANGED <<catalog, holds>>

\* Mutant: the fetch is made under the context of the client that started it.
LeaveStops(r) ==
  /\ pc[r] \in {"holding", "waiting"}
  /\ Answer(r)
  /\ cache' = [cache EXCEPT ![holds[r]].flying = FALSE]
  /\ UNCHANGED <<catalog, holds>>

\* The client leaves before the lookup or while it waits: the static list is
\* returned to nobody.
Leave(r) ==
  /\ pc[r] \in {"holding", "waiting"}
  /\ Answer(r)
  /\ UNCHANGED <<catalog, cache, holds>>

Waiters(e) == {r \in Requests : pc[r] = "waiting" /\ holds[r] = e}

\* A fetch ends: its waiters get its outcome; a failure keeps the list there was.
Land(e, ok) ==
  /\ cache[e].flying
  /\ cache' = [cache EXCEPT ![e] = [has |-> ok \/ @.has, fresh |-> TRUE, flying |-> FALSE]]
  /\ pc' = [r \in Requests |-> IF r \in Waiters(e) THEN "answered" ELSE pc[r]]
  /\ UNCHANGED <<catalog, holds>>

\* The outcome's time to live is over.
Expire(e) ==
  /\ cache[e].fresh
  /\ cache' = [cache EXCEPT ![e].fresh = FALSE]
  /\ UNCHANGED <<catalog, requests>>

NextCatalog ==
  \/ \E r \in Requests :
       \/ Get(r) \/ Leave(r) \/ Release(r)
       \/ \E a \in Accounts : Find(r, a) \/ Create(r, a) \/ NoRoom(r, a)
  \/ \E e \in Entries : Expire(e) \/ \E ok \in BOOLEAN : Land(e, ok)

SpecCatalog == InitCatalog /\ [][NextCatalog]_allCatalog

-----------------------------------------------------------------------------
(* Properties. *)

\* One fetch per account: no eviction leads to a second fetch for an account while
\* one is in the air, abandoned by its clients or not.
OneFetchPerAccount ==
  \A a \in Accounts : Cardinality({e \in Entries : owner[e] = a /\ cache[e].flying}) <= 1

\* The map keeps within its capacity, and yet never loses an entry that a request
\* holds; it knows exactly how many requests hold each, so none is kept for good by a
\* user that has gone, and of any entries it has it can name the one to give up.
HeldEntriesStay ==
  /\ Cardinality(Kept) <= Capacity
  /\ \A S \in SUBSET Kept : S # {} => \E a \in S : Oldest(S) = {a}
  /\ \A e \in Entries :
       LET H == {r \in Requests : holds[r] = e}
       IN users[e] = Cardinality(H) /\ (H # {} => entries[owner[e]] = e)

\* What a request has of the entry it holds.
Place(r, e) ==
  CASE holds[r] # e \/ pc[r] = "holding" -> "away"
    [] holds[r] = e /\ pc[r] = "waiting" -> "waiting"
    [] OTHER -> "over"

Shared(e) == INSTANCE SharedFetch WITH
  Callers  <- Requests,
  stale    <- TRUE,
  has      <- cache[e].has,
  fresh    <- cache[e].fresh,
  fetching <- cache[e].flying,
  at       <- [r \in Requests |-> Place(r, e)]

\* Whoever holds it, and whatever the map drops or makes anew, each entry's cache lives
\* as a cache that keeps the promise of SharedFetch may: the catalog never takes a cache
\* from under a request or a fetch.
EntriesShareFetches ==
  /\ \A e \in Entries : Shared(e)!Init
  /\ [][\A e \in Entries : [Shared(e)!Next \/ Shared(e)!Drop]_(Shared(e)!vars)]_allCatalog
=============================================================================
