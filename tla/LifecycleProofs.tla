--------------------------- MODULE LifecycleProofs --------------------------
(***************************************************************************)
(* Proofs about the Reporter as main runs it, for any sets of accounts,    *)
(* versions, requests and workers, any sizes of the queue and the table,   *)
(* and behaviours of any length.                                           *)
(***************************************************************************)
EXTENDS Lifecycle, FiniteSetTheorems, SequenceTheorems, TLAPS

(* Use, in plain terms: a request opens a session, or joins the one it finds. *)

Opens(r, k, v, q) ==
  /\ uses[r] = Unused /\ ~ended /\ Len(sessions) + 1 <= MaxSessions
  /\ active[k] # 0 \/ ~Full(Swept(k))
  /\ sessions' = Append(sessions, [key |-> k, version |-> v, last |-> now, inflight |-> 1,
                                   queued |-> q, attempted |-> FALSE])
  /\ reports' = Append(reports, 0)
  /\ active' = [Swept(k) EXCEPT ![k] = Len(sessions) + 1]
  /\ uses' = [uses EXCEPT ![r] = Len(sessions) + 1]
  /\ queue' = IF q THEN Append(queue, Len(sessions) + 1) ELSE queue
  /\ UNCHANGED <<now, ended, worker, closing>>

Joins(r, k, v, q) ==
  /\ uses[r] = Unused /\ ~ended
  /\ active[k] \in Created /\ sessions[active[k]].version = v /\ ~Expired(active[k])
  /\ q => ~sessions[active[k]].queued /\ ~sessions[active[k]].attempted
  /\ sessions' = [sessions EXCEPT ![active[k]] =
                      Touched(sessions[active[k]], sessions[active[k]].inflight + 1,
                              sessions[active[k]].queued \/ q)]
  /\ uses' = [uses EXCEPT ![r] = active[k]]
  /\ queue' = IF q THEN Append(queue, active[k]) ELSE queue
  /\ UNCHANGED <<now, ended, active, worker, closing, reports>>

\* What Swept keeps, it keeps as it was; a key it drops had an expired session.
LEMMA SweptFacts ==
  ASSUME TypeOK, NEW k \in Keys
  PROVE  /\ Swept(k) \in [Keys -> Nat]
         /\ \A j \in Keys : \/ Swept(k)[j] = active[j]
                            \/ active[j] # 0 /\ Expired(active[j]) /\ Swept(k)[j] = 0
         /\ active[k] # 0 => Swept(k) = active
  BY DEF Swept, TypeOK

\* A session that a field of the state refers to is a record of the right type.
LEMMA SessionType ==
  ASSUME TypeOK, NEW a \in Created
  PROVE  sessions[a] \in Session /\ a \in DOMAIN sessions
  BY DEF TypeOK, Created

LEMMA UseCases ==
  ASSUME TypeOK, NEW r \in Requests, NEW k \in Keys, NEW v \in Versions, Use(r, k, v)
  PROVE  \E q \in BOOLEAN : Opens(r, k, v, q) \/ Joins(r, k, v, q)
<1> DEFINE fresh  == NeedsSession(k, v)
           a      == IF fresh THEN Len(sessions) + 1 ELSE active[k]
           s      == IF fresh THEN NewSession(k, v) ELSE sessions[a]
           q      == Enqueues(s)
           t      == Touched(s, s.inflight + 1, s.queued \/ q)
<1>1. /\ uses[r] = Unused /\ ~ended
      /\ active[k] # 0 \/ ~Full(Swept(k))
      /\ a <= MaxSessions
      /\ sessions' = IF fresh THEN Append(sessions, t) ELSE [sessions EXCEPT ![a] = t]
      /\ reports' = IF fresh THEN Append(reports, 0) ELSE reports
      /\ active' = [Swept(k) EXCEPT ![k] = a]
      /\ uses' = [uses EXCEPT ![r] = a]
      /\ queue' = IF q THEN Append(queue, a) ELSE queue
      /\ UNCHANGED <<now, ended, worker, closing>>
  BY DEF Use
<1>2. q \in BOOLEAN
  BY DEF Enqueues
<1>3. CASE fresh
  <2>1. s = NewSession(k, v) /\ a = Len(sessions) + 1
    BY <1>3
  <2>2. t = [key |-> k, version |-> v, last |-> now, inflight |-> 1, queued |-> q,
             attempted |-> FALSE]
    <3> HIDE DEF q, s, a
    <3>1. /\ s.key = k /\ s.version = v /\ s.inflight + 1 = 1
          /\ s.queued = FALSE /\ s.attempted = FALSE
      BY <2>1 DEF NewSession
    <3>2. (s.queued \/ q) = q
      BY <3>1, <1>2
    <3>3. t = Touched(s, 1, q)
      BY <3>1, <3>2
    <3> QED BY <3>1, <3>3 DEF Touched
  <2>3. Opens(r, k, v, q)
    <3> HIDE DEF q, t, s, a
    <3> QED BY <1>1, <1>3, <2>1, <2>2 DEF Opens
  <2> QED BY <2>3, <1>2
<1>4. CASE ~fresh
  <2>1. /\ active[k] # 0 /\ sessions[active[k]].version = v /\ ~Expired(active[k])
        /\ a = active[k] /\ s = sessions[active[k]]
    BY <1>4 DEF NeedsSession
  <2>2. active[k] \in Created /\ sessions[active[k]] \in Session
    BY <2>1, SessionType DEF TypeOK
  <2>4. active' = active
    <3>1. Swept(k) = active
      BY <2>1, SweptFacts
    <3> QED BY <3>1, <1>1, <2>1 DEF TypeOK
  <2>5. q => ~sessions[active[k]].queued /\ ~sessions[active[k]].attempted
    BY <2>1 DEF Enqueues
  <2>6. Joins(r, k, v, q)
    <3> HIDE DEF q
    <3> QED BY <1>1, <1>4, <2>1, <2>2, <2>4, <2>5 DEF Joins
  <2> QED BY <2>6, <1>2
<1> QED BY <1>3, <1>4

-----------------------------------------------------------------------------
(* Types, and the count of a session's requests, which the type of inflight needs. *)

Users(a) == {r \in Requests : uses[r] = a}

\* A session's count is the number of the requests that use it.
Counted == \A a \in Created : sessions[a].inflight = Cardinality(Users(a))

Sent ==
  /\ version \in Versions
  /\ carried \in [Requests -> Versions \cup {NotSent}]
  /\ \A r \in Requests : carried[r] = NotSent => uses[r] = Unused

\* One session changes.
LEMMA Changed ==
  ASSUME TypeOK, NEW a \in Created, NEW s \in Session,
         sessions' = [sessions EXCEPT ![a] = s]
  PROVE  /\ sessions' \in Seq(Session) /\ Len(sessions') = Len(sessions) /\ Created' = Created
         /\ sessions'[a] = s /\ \A b \in Created : b # a => sessions'[b] = sessions[b]
<1>1. a \in 1..Len(sessions) /\ sessions \in Seq(Session)
  BY DEF TypeOK, Created
<1> QED BY <1>1, ExceptSeq DEF Created

\* A session is added.
LEMMA Added ==
  ASSUME TypeOK, NEW s \in Session, sessions' = Append(sessions, s)
  PROVE  /\ sessions' \in Seq(Session) /\ Len(sessions') = Len(sessions) + 1
         /\ Len(sessions) \in Nat
         /\ Created' = Created \cup {Len(sessions) + 1} /\ Len(sessions) + 1 \notin Created
         /\ sessions'[Len(sessions) + 1] = s /\ \A b \in Created : sessions'[b] = sessions[b]
<1>1. sessions \in Seq(Session) /\ Len(sessions) \in Nat
  BY DEF TypeOK
<1>2. /\ sessions' \in Seq(Session) /\ Len(sessions') = Len(sessions) + 1
      /\ sessions'[Len(sessions) + 1] = s /\ \A b \in 1..Len(sessions) : sessions'[b] = sessions[b]
  BY <1>1, AppendProperties
<1> QED BY <1>1, <1>2 DEF Created

\* The queue only ever gains or loses sessions that exist.
LEMMA Queued ==
  ASSUME TypeOK, NEW a \in Nat, NEW q \in BOOLEAN,
         queue' = IF q THEN Append(queue, a) ELSE queue
  PROVE  /\ queue' \in Seq(Nat)
         /\ \A i \in DOMAIN queue' : \/ i \in DOMAIN queue /\ queue'[i] = queue[i]
                                     \/ q /\ i = Len(queue) + 1 /\ i \notin DOMAIN queue
                                        /\ queue'[i] = a
         /\ \A i \in DOMAIN queue : i \in DOMAIN queue' /\ queue'[i] = queue[i]
         /\ q => Len(queue) + 1 \in DOMAIN queue' /\ queue'[Len(queue) + 1] = a
<1>1. queue \in Seq(Nat) /\ Len(queue) \in Nat /\ DOMAIN queue = 1..Len(queue)
  BY DEF TypeOK
<1>2. CASE q
  <2>1. /\ queue' \in Seq(Nat) /\ Len(queue') = Len(queue) + 1
        /\ queue'[Len(queue) + 1] = a /\ \A i \in 1..Len(queue) : queue'[i] = queue[i]
    BY <1>1, <1>2, AppendProperties
  <2>2. DOMAIN queue' = 1..(Len(queue) + 1)
    BY <2>1
  <2> QED BY <1>1, <1>2, <2>1, <2>2
<1>3. CASE ~q
  BY <1>1, <1>3
<1> QED BY <1>2, <1>3

LEMMA Taken ==
  ASSUME TypeOK, queue # <<>>, queue' = Tail(queue)
  PROVE  /\ queue' \in Seq(Nat) /\ 1 \in DOMAIN queue /\ Head(queue) = queue[1]
         /\ \A i \in DOMAIN queue' : i # 0 /\ i + 1 \in DOMAIN queue /\ queue'[i] = queue[i + 1]
         /\ \A i \in DOMAIN queue : i # 1 => i - 1 \in DOMAIN queue' /\ queue[i] = queue'[i - 1]
<1>1. queue \in Seq(Nat) /\ Len(queue) \in Nat \ {0} /\ DOMAIN queue = 1..Len(queue)
  BY EmptySeq DEF TypeOK
<1>2. /\ queue' \in Seq(Nat) /\ Len(queue') = Len(queue) - 1 /\ Head(queue) = queue[1]
      /\ \A i \in 1..Len(queue') : queue'[i] = queue[i + 1]
  BY <1>1, HeadTailProperties
<1>3. DOMAIN queue' = 1..(Len(queue) - 1)
  BY <1>2
<1> QED BY <1>1, <1>2, <1>3

\* The requests of other sessions stay where they are; a request joins or leaves one.
LEMMA Entered ==
  ASSUME TypeOK, NEW r \in Requests, NEW a \in 1..MaxSessions,
         uses[r] \notin 1..MaxSessions, uses' = [uses EXCEPT ![r] = a]
  PROVE  /\ \A b \in Nat : b # a /\ b # uses[r] => Users(b)' = Users(b)
         /\ Users(a)' = Users(a) \cup {r} /\ r \notin Users(a)
         /\ Cardinality(Users(a)') = Cardinality(Users(a)) + 1
<1>1. /\ \A b \in Nat : b # a /\ b # uses[r] => Users(b)' = Users(b)
      /\ Users(a)' = Users(a) \cup {r} /\ r \notin Users(a)
  BY DEF Users, TypeOK
<1>2. IsFiniteSet(Users(a))
  BY FiniteAssumption, FS_Subset DEF Users
<1> QED BY <1>1, <1>2, FS_AddElement

LEMMA Left ==
  ASSUME TypeOK, NEW r \in Requests, NEW a \in 1..MaxSessions, uses[r] = a,
         uses' = [uses EXCEPT ![r] = Over]
  PROVE  /\ \A b \in 1..MaxSessions : b # a => Users(b)' = Users(b)
         /\ Cardinality(Users(a)) \in Nat \ {0}
         /\ Cardinality(Users(a)') = Cardinality(Users(a)) - 1
<1>1. /\ \A b \in 1..MaxSessions : b # a => Users(b)' = Users(b)
      /\ Users(a)' = Users(a) \ {r} /\ r \in Users(a)
  BY SizesAssumption DEF Users, TypeOK, Over
<1>2. IsFiniteSet(Users(a))
  BY FiniteAssumption, FS_Subset DEF Users
<1>3. Cardinality(Users(a)') = Cardinality(Users(a)) - 1
  BY <1>1, <1>2, FS_RemoveElement
<1>4. Cardinality(Users(a)) \in Nat /\ Cardinality(Users(a)) # 0
  BY <1>1, <1>2, FS_CardinalityType, FS_EmptySet
<1> QED BY <1>1, <1>3, <1>4

LEMMA OpensCorrect ==
  ASSUME TypeOK, Counted, NEW r \in Requests, NEW k \in Keys, NEW v \in Versions,
         NEW q \in BOOLEAN, Opens(r, k, v, q)
  PROVE  TypeOK' /\ Counted'
<1>a. PICK a : a = Len(sessions) + 1
  OBVIOUS
<1> DEFINE s == [key |-> k, version |-> v, last |-> now, inflight |-> 1,
                 queued |-> q, attempted |-> FALSE]
<1>1. s \in Session /\ s.key = k /\ s.inflight = 1
  BY DEF Session, TypeOK
<1>2. sessions' = Append(sessions, s) /\ a <= MaxSessions
  BY <1>a DEF Opens
<1> HIDE DEF s
<1>3. /\ sessions' \in Seq(Session) /\ Len(sessions') = a /\ a \in Nat
      /\ Created' = Created \cup {a} /\ a \notin Created
      /\ sessions'[a] = s /\ \A b \in Created : sessions'[b] = sessions[b]
  <2>1. /\ sessions' \in Seq(Session) /\ Len(sessions') = Len(sessions) + 1
        /\ Len(sessions) \in Nat
        /\ Created' = Created \cup {Len(sessions) + 1} /\ Len(sessions) + 1 \notin Created
        /\ sessions'[Len(sessions) + 1] = s /\ \A b \in Created : sessions'[b] = sessions[b]
    BY <1>1, <1>2, Added
  <2> QED BY <2>1, <1>a
<1>4. /\ a \in 1..MaxSessions /\ uses[r] \notin 1..MaxSessions
      /\ \A b \in Created : b \in 1..MaxSessions
  BY <1>2, <1>3, SizesAssumption DEF Opens, Unused, Created, TypeOK
<1>5. TypeOK'
  <2>1. /\ queue' \in Seq(Nat) /\ \A i \in DOMAIN queue' : queue'[i] \in Created'
    <3>1. queue' = IF q THEN Append(queue, a) ELSE queue
      BY <1>a DEF Opens
    <3>2. /\ queue' \in Seq(Nat)
          /\ \A i \in DOMAIN queue' : (i \in DOMAIN queue /\ queue'[i] = queue[i]) \/ queue'[i] = a
      BY <1>3, <3>1, Queued
    <3> QED BY <3>2, <1>3 DEF TypeOK
  <2>2. /\ active' \in [Keys -> Nat]
        /\ \A j \in Keys : active'[j] # 0 => active'[j] \in Created' /\ sessions'[active'[j]].key = j
    <3>1. active' = [Swept(k) EXCEPT ![k] = a]
      BY <1>a DEF Opens
    <3>2. active' \in [Keys -> Nat] /\ active'[k] = a
          /\ \A j \in Keys : j # k => active'[j] \in {active[j], 0}
      BY <3>1, <1>3, SweptFacts
    <3>3. \A j \in Keys : active[j] # 0 =>
             active[j] \in Created' /\ sessions'[active[j]].key = j
      BY <1>3 DEF TypeOK
    <3>4. a \in Created' /\ sessions'[a].key = k
      BY <1>1, <1>3
    <3> QED BY <3>2, <3>3, <3>4
  <2>3. /\ uses' \in [Requests -> Nat]
        /\ \A u \in Requests : uses'[u] \in Created' \cup {Unused, None, Over}
    BY <1>a, <1>3 DEF Opens, TypeOK
  <2>4. reports' \in Seq(Nat) /\ Len(reports') = Len(sessions')
    <3>1. reports' = Append(reports, 0) /\ reports \in Seq(Nat) /\ Len(reports) = Len(sessions)
      BY DEF Opens, TypeOK
    <3>2. reports' \in Seq(Nat) /\ Len(reports') = Len(reports) + 1
      BY <3>1, AppendProperties
    <3> QED BY <3>1, <3>2, <1>a, <1>3
  <2>5. \A w \in Workers : worker[w].at \notin {"idle", "stopped"} => worker[w].on \in Created'
    BY <1>3 DEF TypeOK
  <2>6. UNCHANGED <<now, ended, worker, closing>>
    BY <1>a DEF Opens
  <2> QED BY <2>1, <2>2, <2>3, <2>4, <2>5, <2>6, <1>2, <1>3 DEF TypeOK
<1>6. Counted'
  <2>1. uses[r] = Unused /\ uses' = [uses EXCEPT ![r] = a]
    BY <1>a DEF Opens
  <2>2. /\ \A b \in Nat : b # a /\ b # uses[r] => Users(b)' = Users(b)
        /\ Cardinality(Users(a)') = Cardinality(Users(a)) + 1
    BY <1>4, <2>1, Entered
  <2>3. Users(a) = {}
    <3>1. \A u \in Requests : uses[u] \in Created \cup {Unused, None, Over}
      BY DEF TypeOK
    <3>2. a \notin Created \cup {Unused, None, Over}
      BY <1>3, <1>4, SizesAssumption DEF Unused, None, Over
    <3> QED BY <3>1, <3>2 DEF Users
  <2>4. Cardinality(Users(a)') = sessions'[a].inflight
    BY <2>2, <2>3, <1>1, <1>3, FS_EmptySet
  <2>5. \A b \in Created : b # a /\ b # uses[r] /\ b \in Nat
    BY <1>3, <2>1 DEF Created, Unused
  <2>6. \A b \in Created : sessions'[b].inflight = Cardinality(Users(b)')
    BY <2>2, <2>5, <1>3 DEF Counted
  <2> QED BY <2>4, <2>6, <1>3 DEF Counted
<1> QED BY <1>5, <1>6

LEMMA JoinsCorrect ==
  ASSUME TypeOK, Counted, NEW r \in Requests, NEW k \in Keys, NEW v \in Versions,
         NEW q \in BOOLEAN, Joins(r, k, v, q)
  PROVE  TypeOK' /\ Counted'
<1>a. PICK a : a = active[k]
  OBVIOUS
<1> DEFINE s == Touched(sessions[a], sessions[a].inflight + 1, sessions[a].queued \/ q)
<1>1. a \in Created /\ sessions[a] \in Session /\ sessions' = [sessions EXCEPT ![a] = s]
  BY <1>a, SessionType DEF Joins
<1>2. s \in Session /\ s.key = sessions[a].key /\ s.inflight = sessions[a].inflight + 1
  <2>1. (sessions[a].queued \/ q) \in BOOLEAN
    OBVIOUS
  <2>2. now \in Nat
    BY DEF TypeOK
  <2> QED BY <1>1, <2>1, <2>2 DEF Session, Touched
<1> HIDE DEF s
<1>3. /\ sessions' \in Seq(Session) /\ Len(sessions') = Len(sessions) /\ Created' = Created
      /\ sessions'[a] = s /\ \A b \in Created : b # a => sessions'[b] = sessions[b]
  BY <1>1, <1>2, Changed
<1>4. \A b \in Created : sessions'[b].key = sessions[b].key
  BY <1>2, <1>3
<1>5. TypeOK'
  <2>1. /\ queue' \in Seq(Nat) /\ \A i \in DOMAIN queue' : queue'[i] \in Created'
    <3>1. queue' = (IF q THEN Append(queue, a) ELSE queue) /\ a \in Nat
      BY <1>a, <1>1 DEF Joins, Created
    <3>2. /\ queue' \in Seq(Nat)
          /\ \A i \in DOMAIN queue' : (i \in DOMAIN queue /\ queue'[i] = queue[i]) \/ queue'[i] = a
      BY <3>1, Queued
    <3> QED BY <3>2, <1>1, <1>3 DEF TypeOK
  <2>2. /\ active' \in [Keys -> Nat]
        /\ \A j \in Keys : active'[j] # 0 => active'[j] \in Created' /\ sessions'[active'[j]].key = j
    BY <1>3, <1>4 DEF Joins, TypeOK
  <2>3. /\ uses' \in [Requests -> Nat]
        /\ \A u \in Requests : uses'[u] \in Created' \cup {Unused, None, Over}
    BY <1>a, <1>1, <1>3 DEF Joins, TypeOK
  <2>4. UNCHANGED <<now, ended, worker, closing, reports>>
    BY <1>a DEF Joins
  <2> QED BY <2>1, <2>2, <2>3, <2>4, <1>3 DEF TypeOK
<1>6. Counted'
  <2>1. uses[r] = Unused /\ uses' = [uses EXCEPT ![r] = a]
    BY <1>a DEF Joins
  <2>2. a \in 1..MaxSessions /\ uses[r] \notin 1..MaxSessions
    BY <1>1, <2>1, SizesAssumption DEF Created, TypeOK, Unused
  <2>3. /\ \A b \in Nat : b # a /\ b # uses[r] => Users(b)' = Users(b)
        /\ Cardinality(Users(a)') = Cardinality(Users(a)) + 1
    BY <2>1, <2>2, Entered
  <2>4. \A b \in Created : b \in Nat /\ b # uses[r]
    BY <2>1 DEF Created, Unused
  <2>5. \A b \in Created : b # a => sessions'[b].inflight = Cardinality(Users(b)')
    BY <2>3, <2>4, <1>3 DEF Counted
  <2>6. sessions'[a].inflight = Cardinality(Users(a)')
    BY <2>3, <1>1, <1>2, <1>3 DEF Counted
  <2> QED BY <2>5, <2>6, <1>3 DEF Counted
<1> QED BY <1>5, <1>6

LEMMA FinishCorrect ==
  ASSUME TypeOK, Counted, NEW r \in Requests, Finish(r)
  PROVE  /\ TypeOK' /\ Counted' /\ uses[r] \in Created /\ sessions[uses[r]].inflight # 0
         /\ \A b \in Created : /\ sessions'[b].key = sessions[b].key
                               /\ sessions'[b].version = sessions[b].version
                               /\ sessions'[b].queued = sessions[b].queued
                               /\ sessions'[b].attempted = sessions[b].attempted
                               /\ b # uses[r] => sessions'[b] = sessions[b]
<1>a. PICK a : a = uses[r]
  OBVIOUS
<1> DEFINE s == Touched(sessions[a], sessions[a].inflight - 1, sessions[a].queued)
<1>1. a \in Created /\ sessions[a] \in Session /\ sessions' = [sessions EXCEPT ![a] = s]
  BY <1>a, SessionType DEF Finish, Created
<1>2. a \in 1..MaxSessions /\ uses' = [uses EXCEPT ![r] = Over]
  BY <1>a, <1>1, SizesAssumption DEF Finish, Created, TypeOK
<1>3. /\ \A b \in 1..MaxSessions : b # a => Users(b)' = Users(b)
      /\ Cardinality(Users(a)) \in Nat \ {0}
      /\ Cardinality(Users(a)') = Cardinality(Users(a)) - 1
  BY <1>a, <1>2, Left
<1>4. sessions[a].inflight \in Nat \ {0} /\ now \in Nat
  BY <1>1, <1>3 DEF Counted, TypeOK
<1>5. /\ s \in Session /\ s.key = sessions[a].key /\ s.version = sessions[a].version
      /\ s.queued = sessions[a].queued /\ s.attempted = sessions[a].attempted
      /\ s.inflight = sessions[a].inflight - 1
  BY <1>1, <1>4 DEF Session, Touched
<1> HIDE DEF s
<1>6. /\ sessions' \in Seq(Session) /\ Len(sessions') = Len(sessions) /\ Created' = Created
      /\ sessions'[a] = s /\ \A b \in Created : b # a => sessions'[b] = sessions[b]
  BY <1>1, <1>5, Changed
<1>7. \A b \in Created : /\ sessions'[b].key = sessions[b].key
                         /\ sessions'[b].version = sessions[b].version
                         /\ sessions'[b].queued = sessions[b].queued
                         /\ sessions'[b].attempted = sessions[b].attempted
                         /\ b # a => sessions'[b] = sessions[b]
  BY <1>5, <1>6
<1>8. TypeOK'
  <2>1. UNCHANGED <<now, ended, active, queue, worker, closing, reports>>
    BY DEF Finish
  <2>2. uses' \in [Requests -> Nat]
        /\ \A u \in Requests : uses'[u] \in Created' \cup {Unused, None, Over}
    BY <1>a, <1>2, <1>6, SizesAssumption DEF TypeOK, Over
  <2>3. \A j \in Keys : active[j] # 0 => active[j] \in Created /\ sessions'[active[j]].key = j
    BY <1>7 DEF TypeOK
  <2> QED BY <2>1, <2>2, <2>3, <1>6 DEF TypeOK
<1>9. Counted'
  <2>1. \A b \in Created : b # a => sessions'[b].inflight = Cardinality(Users(b)')
    <3>1. \A b \in Created : b \in 1..MaxSessions
      BY SizesAssumption DEF Created, TypeOK
    <3> QED BY <3>1, <1>3, <1>6 DEF Counted
  <2>2. sessions'[a].inflight = Cardinality(Users(a)')
    BY <1>1, <1>3, <1>5, <1>6 DEF Counted
  <2> QED BY <2>1, <2>2, <1>6 DEF Counted
<1> QED BY <1>a, <1>1, <1>4, <1>7, <1>8, <1>9

\* Use returns nothing: the sweep may have made room for another request.
LEMMA NothingCorrect ==
  ASSUME TypeOK, Counted, NEW r \in Requests, NEW k \in Keys, UseNothing(r, k)
  PROVE  /\ TypeOK' /\ Counted'
         /\ UNCHANGED <<now, ended, sessions, queue, worker, closing, reports>>
         /\ active' = active \/ (active' = Swept(k) /\ active[k] = 0)
         /\ uses[r] = Unused /\ uses' = [uses EXCEPT ![r] = None]
<1>1. /\ UNCHANGED <<now, ended, sessions, queue, worker, closing, reports>>
      /\ active' = active \/ (active' = Swept(k) /\ active[k] = 0)
      /\ uses[r] = Unused /\ uses' = [uses EXCEPT ![r] = None]
  BY DEF UseNothing
<1>2. Created' = Created /\ Created \subseteq 1..MaxSessions
  BY <1>1, SizesAssumption DEF Created, TypeOK
<1>3. /\ active' \in [Keys -> Nat]
      /\ \A j \in Keys : active'[j] # 0 => active'[j] \in Created /\ sessions[active'[j]].key = j
  BY <1>1, SweptFacts DEF TypeOK
<1>4. uses' \in [Requests -> Nat] /\ \A u \in Requests : uses'[u] \in Created \cup {Unused, None, Over}
  BY <1>1, SizesAssumption DEF TypeOK, None
<1>5. TypeOK'
  BY <1>1, <1>2, <1>3, <1>4 DEF TypeOK
<1>6. \A b \in Created : Users(b)' = Users(b)
  <2>1. \A b \in Created : b # Unused /\ b # None
    BY <1>2, SizesAssumption DEF Unused, None
  <2> QED BY <1>1, <2>1 DEF Users, TypeOK
<1>7. Counted'
  BY <1>1, <1>2, <1>6 DEF Counted
<1> QED BY <1>1, <1>5, <1>7

\* A request that uses no session ends.
LEMMA ReturnCorrect ==
  ASSUME TypeOK, Counted, NEW r \in Requests, uses[r] \in {Unused, None}, Return(r),
         UNCHANGED <<now, ended, active, sessions, queue, worker, closing, reports>>
  PROVE  TypeOK' /\ Counted'
<1>1. uses' = [uses EXCEPT ![r] = Over]
  BY DEF Return
<1>2. Created' = Created /\ Created \subseteq 1..MaxSessions
  BY SizesAssumption DEF Created, TypeOK
<1>3. uses' \in [Requests -> Nat] /\ \A u \in Requests : uses'[u] \in Created \cup {Unused, None, Over}
  BY <1>1, SizesAssumption DEF TypeOK, Over
<1>4. TypeOK'
  BY <1>2, <1>3 DEF TypeOK
<1>5. \A b \in Created : Users(b)' = Users(b)
  <2>1. \A b \in Created : b # Unused /\ b # None /\ b # Over
    BY <1>2, SizesAssumption DEF Unused, None, Over
  <2> QED BY <1>1, <2>1 DEF Users, TypeOK
<1> QED BY <1>2, <1>4, <1>5 DEF Counted

\* What a worker's step may do: take the first job, or start a report, or neither.
LEMMA WorkerCases ==
  ASSUME TypeOK, NEW w \in Workers, WorkerSteps(w)
  PROVE  /\ UNCHANGED <<now, ended, active, uses, closing>>
         /\ \/ Take(w) \/ Check(w) \/ Report(w)
            \/ /\ UNCHANGED <<sessions, queue, reports>>
               /\ worker[w].at \notin {"taken", "checked"}
               /\ \E at \in Places \ {"taken", "checked"}, on \in Nat :
                    /\ worker' = [worker EXCEPT ![w] = [at |-> at, on |-> on]]
                    /\ at \notin {"idle", "stopped"} => on \in Created
                    /\ worker[w].at # "stopped"
<1>1. UNCHANGED <<now, ended, active, uses, closing>>
  BY DEF WorkerSteps, Take, Stop, Check, Report, Reported, Announced, WorkerOnly
<1>2. worker[w].on \in Nat /\ (worker[w].at \notin {"idle", "stopped"} => worker[w].on \in Created)
  BY DEF TypeOK
<1>3. CASE Take(w) \/ Check(w) \/ Report(w)
  BY <1>1, <1>3
<1>4. CASE Stop(w)
  BY <1>1, <1>4 DEF Stop, Goto, Places
<1>5. CASE Reported(w)
  BY <1>1, <1>2, <1>5 DEF Reported, Goto, Places, Idling
<1>6. CASE Announced(w)
  BY <1>1, <1>6 DEF Announced, Places, Idling
<1> QED BY <1>3, <1>4, <1>5, <1>6 DEF WorkerSteps

\* A report marks its session and changes nothing else of it.
LEMMA ReportMarks ==
  ASSUME TypeOK, NEW w \in Workers, Report(w)
  PROVE  /\ sessions' \in Seq(Session) /\ Len(sessions') = Len(sessions) /\ Created' = Created
         /\ worker[w].on \in Created
         /\ sessions'[worker[w].on].attempted = TRUE
         /\ \A b \in Created : /\ sessions'[b].key = sessions[b].key
                               /\ sessions'[b].version = sessions[b].version
                               /\ sessions'[b].queued = sessions[b].queued
                               /\ sessions'[b].last = sessions[b].last
                               /\ sessions'[b].inflight = sessions[b].inflight
                               /\ b # worker[w].on => sessions'[b] = sessions[b]
         /\ reports' \in Seq(Nat) /\ Len(reports') = Len(reports)
         /\ reports'[worker[w].on] = reports[worker[w].on] + 1
         /\ \A b \in Created : b # worker[w].on => reports'[b] = reports[b]
<1>a. PICK a : a = worker[w].on
  OBVIOUS
<1> DEFINE s == Attempted(sessions[a])
<1>1. a \in Created /\ worker[w].at = "checked"
  BY <1>a DEF Report, TypeOK
<1>2. sessions[a] \in Session
  BY <1>1, SessionType
<1>3. /\ s \in Session /\ s.key = sessions[a].key /\ s.version = sessions[a].version
      /\ s.queued = sessions[a].queued /\ s.last = sessions[a].last
      /\ s.inflight = sessions[a].inflight /\ s.attempted = TRUE
  BY <1>2 DEF Session, Attempted
<1>4. sessions' = [sessions EXCEPT ![a] = s]
  BY <1>a DEF Report
<1> HIDE DEF s
<1>5. /\ sessions' \in Seq(Session) /\ Len(sessions') = Len(sessions) /\ Created' = Created
      /\ sessions'[a] = s /\ \A b \in Created : b # a => sessions'[b] = sessions[b]
  BY <1>1, <1>3, <1>4, Changed
<1>6. /\ reports \in Seq(Nat) /\ a \in 1..Len(reports) /\ reports[a] + 1 \in Nat
      /\ reports' = [reports EXCEPT ![a] = reports[a] + 1] /\ Created = 1..Len(reports)
  BY <1>a, <1>1 DEF Report, TypeOK, Created
<1>7. /\ reports' \in Seq(Nat) /\ Len(reports') = Len(reports)
      /\ reports'[a] = reports[a] + 1
      /\ \A b \in Created : b # a => reports'[b] = reports[b]
  BY <1>6, ExceptSeq
<1> QED BY <1>a, <1>1, <1>3, <1>5, <1>7

LEMMA WorkersCorrect ==
  ASSUME TypeOK, Counted, NEW w \in Workers, WorkerSteps(w)
  PROVE  TypeOK' /\ Counted' /\ Created' = Created
<1>1. UNCHANGED <<now, ended, active, uses, closing>>
  BY WorkerCases
<1>2. \A b : Users(b)' = Users(b)
  BY <1>1 DEF Users
<1>3. worker[w].on \in Nat /\ (worker[w].at \notin {"idle", "stopped"} => worker[w].on \in Created)
  BY DEF TypeOK
<1>4. CASE Take(w)
  <2>1. /\ queue' \in Seq(Nat) /\ Head(queue) \in Created /\ Head(queue) \in Nat
        /\ \A i \in DOMAIN queue' : queue'[i] \in Created
    BY <1>4, Taken DEF Take, TypeOK, Created
  <2>2. UNCHANGED <<sessions, reports>> /\ Created' = Created
    BY <1>4 DEF Take, Created
  <2>3. \E at \in Places, on \in Nat : /\ worker' = [worker EXCEPT ![w] = [at |-> at, on |-> on]]
                                       /\ at \notin {"idle", "stopped"} => on \in Created
    BY <1>4, <2>1 DEF Take, Goto, Places
  <2>4. /\ worker' \in [Workers -> [at : Places, on : Nat]]
        /\ \A x \in Workers : worker'[x].at \notin {"idle", "stopped"} => worker'[x].on \in Created
    BY <2>3 DEF TypeOK
  <2>5. TypeOK'
    BY <1>1, <2>1, <2>2, <2>4 DEF TypeOK
  <2> QED BY <1>2, <2>2, <2>5 DEF Counted
<1>5. CASE Check(w)
  <2>1. UNCHANGED <<sessions, queue, reports>> /\ Created' = Created
    BY <1>5 DEF Check, Created
  <2>2. \E at \in Places, on \in Nat : /\ worker' = [worker EXCEPT ![w] = [at |-> at, on |-> on]]
                                       /\ at \notin {"idle", "stopped"} => on \in Created
    BY <1>3, <1>5 DEF Check, Goto, Places, Idling
  <2>3. /\ worker' \in [Workers -> [at : Places, on : Nat]]
        /\ \A x \in Workers : worker'[x].at \notin {"idle", "stopped"} => worker'[x].on \in Created
    BY <2>2 DEF TypeOK
  <2>4. TypeOK'
    BY <1>1, <2>1, <2>3 DEF TypeOK
  <2> QED BY <1>2, <2>1, <2>4 DEF Counted
<1>6. CASE Report(w)
  <2>1. /\ sessions' \in Seq(Session) /\ Len(sessions') = Len(sessions) /\ Created' = Created
        /\ \A b \in Created : /\ sessions'[b].key = sessions[b].key
                              /\ sessions'[b].inflight = sessions[b].inflight
        /\ reports' \in Seq(Nat) /\ Len(reports') = Len(reports) /\ worker[w].on \in Created
    BY <1>6, ReportMarks
  <2>2. queue' = queue /\ worker' = [worker EXCEPT ![w] = [at |-> "reporting", on |-> worker[w].on]]
    BY <1>6 DEF Report, Goto
  <2>3. /\ worker' \in [Workers -> [at : Places, on : Nat]]
        /\ \A x \in Workers : worker'[x].at \notin {"idle", "stopped"} => worker'[x].on \in Created
    BY <2>1, <2>2, <1>3 DEF TypeOK, Places
  <2>4. \A j \in Keys : active[j] # 0 => active[j] \in Created' /\ sessions'[active[j]].key = j
    BY <2>1 DEF TypeOK
  <2>5. TypeOK'
    BY <1>1, <2>1, <2>2, <2>3, <2>4 DEF TypeOK
  <2> QED BY <1>2, <2>1, <2>5 DEF Counted
<1>7. CASE /\ UNCHANGED <<sessions, queue, reports>>
           /\ \E at \in Places, on \in Nat :
                /\ worker' = [worker EXCEPT ![w] = [at |-> at, on |-> on]]
                /\ at \notin {"idle", "stopped"} => on \in Created
  <2>1. Created' = Created
    BY <1>7 DEF Created
  <2>2. /\ worker' \in [Workers -> [at : Places, on : Nat]]
        /\ \A x \in Workers : worker'[x].at \notin {"idle", "stopped"} => worker'[x].on \in Created
    BY <1>7 DEF TypeOK
  <2>3. TypeOK'
    BY <1>1, <1>7, <2>1, <2>2 DEF TypeOK
  <2> QED BY <1>2, <1>7, <2>1, <2>3 DEF Counted
<1> QED BY <1>4, <1>5, <1>6, <1>7, WorkerCases

-----------------------------------------------------------------------------
(* The steps of the program, and the types. *)

Enters(r, k, q) ==
  /\ carried[r] \in Versions
  /\ Opens(r, k, carried[r], q) \/ Joins(r, k, carried[r], q)

Misses(r, k) == carried[r] # NotSent /\ UseNothing(r, k)

Returns(r) ==
  /\ uses[r] \in {Unused, None} /\ carried[r] # NotSent /\ Return(r)
  /\ UNCHANGED <<now, ended, active, sessions, queue, worker, closing, reports>>

\* The version changes, a request is sent, or main goes from one place to another.
Outside == Refresh \/ (\E r \in Requests : Arrive(r) \/ Resend(r))
           \/ Signal \/ ListenerFails \/ Drained \/ DrainTimesOut \/ Exit \/ Gone

BaseInv == TypeOK /\ Counted /\ Sent

LEMMA StepCases ==
  ASSUME BaseInv, NextLifecycle
  PROVE  \/ /\ UNCHANGED lifecycle
            /\ \/ \E r \in Requests, k \in Keys, q \in BOOLEAN : Enters(r, k, q)
               \/ \E r \in Requests, k \in Keys : Misses(r, k)
               \/ \E r \in Requests : Finish(r)
               \/ \E r \in Requests : Returns(r)
               \/ \E w \in Workers : WorkerSteps(w)
               \/ Tick
               \/ main = "closing" /\ (Cancel \/ Drain)
         \/ UNCHANGED vars /\ Outside
<1>1. ASSUME NEW r \in Requests, NEW k \in Keys, Accept(r, k)
      PROVE  /\ UNCHANGED lifecycle
             /\ Misses(r, k) \/ \E q \in BOOLEAN : Enters(r, k, q)
  <2>1. carried[r] \in Versions /\ carried[r] # NotSent /\ (Use(r, k, carried[r]) \/ UseNothing(r, k)) /\ UNCHANGED lifecycle
    BY <1>1 DEF Accept, Waiting, BaseInv, Sent
  <2>a. PICK v : v = carried[r]
    OBVIOUS
  <2>2. Use(r, k, carried[r]) => \E q \in BOOLEAN : Opens(r, k, v, q) \/ Joins(r, k, v, q)
    BY <2>1, <2>a, UseCases DEF BaseInv
  <2> QED BY <2>1, <2>2, <2>a DEF Enters, Misses
<1>2. ASSUME NEW r \in Requests, Refused(r) \/ Served(r)
      PROVE  UNCHANGED lifecycle /\ (Finish(r) \/ Returns(r))
  <2>1. uses[r] = None => carried[r] # NotSent
    BY SizesAssumption DEF BaseInv, Sent, None, Unused
  <2> QED BY <1>2, <2>1 DEF Refused, Served, Returns, Waiting, lifecycle
<1>3. ASSUME Outside
      PROVE  UNCHANGED vars
  BY <1>3 DEF Outside, Refresh, Arrive, Resend, Signal, ListenerFails, Drained, DrainTimesOut, Exit,
     Gone, Goes, ProcessOnly, allVars
<1> QED BY <1>1, <1>2, <1>3 DEF NextLifecycle, Outside, CloseReporter

\* Nothing that the parts of a state of the Reporter are made of changes.
LEMMA SameState ==
  ASSUME UNCHANGED vars
  PROVE  /\ TypeOK' = TypeOK /\ Counted' = Counted /\ Created' = Created
         /\ now' = now /\ ended' = ended /\ active' = active /\ sessions' = sessions
         /\ queue' = queue /\ uses' = uses /\ worker' = worker /\ closing' = closing
         /\ reports' = reports
  BY DEF vars, TypeOK, Counted, Created, Users

LEMMA ClockOrClose ==
  ASSUME TypeOK, Counted, Tick \/ Cancel \/ Drain
  PROVE  /\ TypeOK' /\ Counted' /\ Created' = Created
         /\ UNCHANGED <<active, sessions, uses, worker, reports>>
<1>1. UNCHANGED <<active, sessions, uses, worker, reports>>
  BY DEF Tick, Cancel, Drain
<1>2. ended' \in BOOLEAN /\ closing' \in {"open", "waiting", "closed"}
  BY DEF Tick, Cancel, Drain, TypeOK
<1>n. now' \in Nat
  BY DEF Tick, Cancel, Drain, TypeOK
<1>3. queue' \in Seq(Nat) /\ \A i \in DOMAIN queue' : queue'[i] \in Created
  <2>1. CASE queue' = queue
    BY <2>1 DEF TypeOK
  <2>2. CASE queue' = <<>>
    <3>1. DOMAIN queue' = {} /\ queue' \in Seq(Nat)
      BY <2>2
    <3> QED BY <3>1
  <2> QED BY <2>1, <2>2 DEF Tick, Cancel, Drain
<1>4. Created' = Created
  BY <1>1 DEF Created
<1>5. TypeOK'
  BY <1>1, <1>2, <1>n, <1>3, <1>4 DEF TypeOK
<1> QED BY <1>1, <1>4, <1>5 DEF Counted, Users

LEMMA BaseStep ==
  ASSUME BaseInv, NextLifecycle
  PROVE  BaseInv'
<1>1. TypeOK /\ Counted /\ Sent
  BY DEF BaseInv
<1>2. TypeOK' /\ Counted'
  <2>1. ASSUME NEW r \in Requests, NEW k \in Keys, NEW q \in BOOLEAN, Enters(r, k, q)
        PROVE  TypeOK' /\ Counted'
    <3>1. PICK v : v = carried[r]
      OBVIOUS
    <3> QED BY <3>1, <2>1, <1>1, OpensCorrect, JoinsCorrect DEF Enters
  <2>2. ASSUME NEW r \in Requests, Returns(r)
        PROVE  TypeOK' /\ Counted'
    BY <2>2, <1>1, ReturnCorrect DEF Returns
  <2>3. ASSUME NEW r \in Requests, NEW k \in Keys, Misses(r, k)
        PROVE  TypeOK' /\ Counted'
    BY <2>3, <1>1, NothingCorrect DEF Misses
  <2> QED BY <1>1, <2>1, <2>2, <2>3, FinishCorrect, WorkersCorrect, ClockOrClose,
             SameState, StepCases
<1>3. Sent'
  <2>1. version' \in Versions /\ carried' \in [Requests -> Versions \cup {NotSent}]
    BY <1>1, StepCases DEF Outside, lifecycle, Sent, Refresh, Arrive, Resend, Signal, ListenerFails,
       Drained, DrainTimesOut, Exit, Gone, Goes, ProcessOnly, allVars
  <2>2. ASSUME NEW u \in Requests, carried'[u] = NotSent
        PROVE  uses'[u] = Unused
    <3>1. carried[u] = NotSent /\ uses[u] = Unused
      BY <2>2, <1>1, StepCases, NotSentAssumption DEF Outside, lifecycle, Sent, Refresh, Arrive,
         Resend, Signal, ListenerFails, Drained, DrainTimesOut, Exit, Gone, Goes, ProcessOnly, allVars
    <3>2. \/ uses' = uses
          \/ \E r \in Requests : carried[r] # NotSent /\ \E a : uses' = [uses EXCEPT ![r] = a]
      <4>1. ASSUME NEW r \in Requests, Finish(r)
            PROVE  carried[r] # NotSent
        <5>1. uses[r] # Unused
          BY <4>1 DEF Finish, Unused
        <5> QED BY <5>1, <1>1 DEF Sent
      <4>2. ASSUME NEW w \in Workers, WorkerSteps(w)
            PROVE  uses' = uses
        BY <4>2, <1>1, WorkerCases
      <4>3. UNCHANGED vars => uses' = uses
        BY DEF vars
      <4>4. ASSUME NEW r \in Requests, NEW k \in Keys, NEW q \in BOOLEAN, Enters(r, k, q)
            PROVE  carried[r] # NotSent /\ \E a : uses' = [uses EXCEPT ![r] = a]
        BY <4>4, NotSentAssumption DEF Enters, Opens, Joins
      <4>5. ASSUME NEW r \in Requests, NEW k \in Keys, Misses(r, k)
            PROVE  carried[r] # NotSent /\ \E a : uses' = [uses EXCEPT ![r] = a]
        BY <4>5 DEF Misses, UseNothing
      <4>6. ASSUME NEW r \in Requests, Finish(r) \/ Returns(r)
            PROVE  carried[r] # NotSent /\ \E a : uses' = [uses EXCEPT ![r] = a]
        BY <4>1, <4>6 DEF Finish, Returns, Return
      <4>7. Tick \/ Cancel \/ Drain => uses' = uses
        BY DEF Tick, Cancel, Drain
      <4> QED BY <4>2, <4>3, <4>4, <4>5, <4>6, <4>7, StepCases
    <3> QED BY <3>1, <3>2, <1>1 DEF TypeOK
  <2> QED BY <2>1, <2>2 DEF Sent
<1> QED BY <1>2, <1>3 DEF BaseInv

-----------------------------------------------------------------------------
(* One report per session.  Its job is in one place at most, and only while the  *)
(* session has been queued and not yet attempted.                                *)

HasJob(w) == worker[w].at \in {"taken", "checked"}

Promised(a) == sessions[a].queued /\ ~sessions[a].attempted

OneJob ==
  /\ \A i, j \in DOMAIN queue : queue[i] = queue[j] => i = j
  /\ \A i \in DOMAIN queue, w \in Workers : HasJob(w) => worker[w].on # queue[i]
  /\ \A w, x \in Workers : HasJob(w) /\ HasJob(x) /\ worker[w].on = worker[x].on => w = x
  /\ \A i \in DOMAIN queue : Promised(queue[i])
  /\ \A w \in Workers : HasJob(w) => Promised(worker[w].on)
  /\ \A a \in Created : reports[a] <= 1 /\ (~sessions[a].attempted => reports[a] = 0)

\* What a request changes for jobs: at most one job is added to the queue, that of a
\* session that has none.
LEMMA EntersJobs ==
  ASSUME TypeOK, Counted, OneJob, NEW r \in Requests, NEW k \in Keys, NEW q \in BOOLEAN,
         Enters(r, k, q)
  PROVE  OneJob'
<1>1. UNCHANGED worker
  BY DEF Enters, Opens, Joins
<1>2. \E a \in Nat :
        /\ queue' = IF q THEN Append(queue, a) ELSE queue
        /\ Created' = Created \cup {a}
        /\ \A b \in Created : /\ reports'[b] = reports[b]
                              /\ sessions'[b].attempted = sessions[b].attempted
                              /\ b # a => sessions'[b].queued = sessions[b].queued
        /\ a \notin Created => reports'[a] = 0
        /\ a \in Created => (Promised(a) => Promised(a)')
        /\ q => Promised(a)' /\ (a \in Created => ~Promised(a))
  <2>1. CASE Opens(r, k, carried[r], q)
    <3> DEFINE s == [key |-> k, version |-> carried[r], last |-> now, inflight |-> 1,
                     queued |-> q, attempted |-> FALSE]
    <3>1. PICK a : a = Len(sessions) + 1
      OBVIOUS
    <3>2. carried[r] \in Versions /\ now \in Nat
      BY DEF Enters, TypeOK
    <3>3. s \in Session /\ s.queued = q /\ s.attempted = FALSE
      BY <3>2 DEF Session
    <3>4. sessions' = Append(sessions, s) /\ reports' = Append(reports, 0)
          /\ queue' = IF q THEN Append(queue, a) ELSE queue
      BY <2>1, <3>1 DEF Opens
    <3> HIDE DEF s
    <3>5. /\ sessions' \in Seq(Session) /\ Len(sessions') = Len(sessions) + 1
          /\ Len(sessions) \in Nat
          /\ Created' = Created \cup {Len(sessions) + 1} /\ Len(sessions) + 1 \notin Created
          /\ sessions'[Len(sessions) + 1] = s /\ \A b \in Created : sessions'[b] = sessions[b]
      BY <3>3, <3>4, Added
    <3>6. reports'[a] = 0 /\ \A b \in Created : reports'[b] = reports[b]
      <4>1. reports \in Seq(Nat) /\ Len(reports) = Len(sessions)
        BY DEF TypeOK
      <4>2. reports'[Len(reports) + 1] = 0 /\ \A b \in 1..Len(reports) : reports'[b] = reports[b]
        BY <4>1, <3>4, AppendProperties
      <4> QED BY <4>1, <4>2, <3>1 DEF Created
    <3>7. q => Promised(a)'
      BY <3>1, <3>3, <3>5 DEF Promised
    <3>8. a \in Nat /\ a \notin Created /\ Created' = Created \cup {a}
      BY <3>1, <3>5
    <3>9. \A b \in Created : /\ reports'[b] = reports[b]
                             /\ sessions'[b].attempted = sessions[b].attempted
                             /\ sessions'[b].queued = sessions[b].queued
      BY <3>5, <3>6
    <3> QED BY <3>4, <3>6, <3>7, <3>8, <3>9
  <2>2. CASE Joins(r, k, carried[r], q)
    <3>1. PICK a : a = active[k]
      OBVIOUS
    <3> DEFINE s == Touched(sessions[a], sessions[a].inflight + 1, sessions[a].queued \/ q)
    <3>2. a \in Created /\ sessions[a] \in Session /\ sessions' = [sessions EXCEPT ![a] = s]
      BY <2>2, <3>1, SessionType DEF Joins
    <3>3. s \in Session /\ s.attempted = sessions[a].attempted /\ (s.queued <=> sessions[a].queued \/ q)
      <4>1. (sessions[a].queued \/ q) \in BOOLEAN
        OBVIOUS
      <4>2. now \in Nat
        BY DEF TypeOK
      <4> QED BY <3>2, <4>1, <4>2 DEF Session, Touched
    <3>4. /\ queue' = IF q THEN Append(queue, a) ELSE queue
          /\ reports' = reports
          /\ q => ~sessions[a].queued /\ ~sessions[a].attempted
      BY <2>2, <3>1 DEF Joins
    <3> HIDE DEF s
    <3>5. /\ Created' = Created
          /\ sessions'[a] = s /\ \A b \in Created : b # a => sessions'[b] = sessions[b]
      BY <3>2, <3>3, Changed
    <3>6. (Promised(a) => Promised(a)') /\ (q => Promised(a)' /\ ~Promised(a))
      BY <3>3, <3>4, <3>5 DEF Promised
    <3>7. a \in Nat
      BY <3>2 DEF Created
    <3> QED BY <3>2, <3>3, <3>4, <3>5, <3>6, <3>7
  <2> QED BY <2>1, <2>2 DEF Enters
<1>3. PICK a \in Nat :
        /\ queue' = IF q THEN Append(queue, a) ELSE queue
        /\ Created' = Created \cup {a}
        /\ \A b \in Created : /\ reports'[b] = reports[b]
                              /\ sessions'[b].attempted = sessions[b].attempted
                              /\ b # a => sessions'[b].queued = sessions[b].queued
        /\ a \notin Created => reports'[a] = 0
        /\ a \in Created => (Promised(a) => Promised(a)')
        /\ q => Promised(a)' /\ (a \in Created => ~Promised(a))
  BY <1>2
<1>4. /\ \A i \in DOMAIN queue' : \/ i \in DOMAIN queue /\ queue'[i] = queue[i]
                                  \/ q /\ i = Len(queue) + 1 /\ i \notin DOMAIN queue
                                     /\ queue'[i] = a
  BY <1>3, Queued
<1>5. \A b \in Created : Promised(b) => Promised(b)'
  BY <1>3 DEF Promised
<1>6. \A i \in DOMAIN queue : queue[i] \in Created /\ (q => queue[i] # a)
  BY <1>3 DEF OneJob, TypeOK
<1>7. \A w \in Workers : HasJob(w) => worker[w].on \in Created /\ (q => worker[w].on # a)
  BY <1>3 DEF OneJob, TypeOK, HasJob
<1>8. \A w \in Workers : HasJob(w)' = HasJob(w)
  BY <1>1 DEF HasJob
<1>9. \A i, j \in DOMAIN queue' : queue'[i] = queue'[j] => i = j
  BY <1>4, <1>6 DEF OneJob
<1>10. \A i \in DOMAIN queue', w \in Workers : HasJob(w)' => worker'[w].on # queue'[i]
  BY <1>1, <1>4, <1>7, <1>8 DEF OneJob
<1>11. \A w, x \in Workers : HasJob(w)' /\ HasJob(x)' /\ worker'[w].on = worker'[x].on => w = x
  BY <1>1, <1>8 DEF OneJob
<1>13. ASSUME NEW i \in DOMAIN queue'
       PROVE  sessions'[queue'[i]].queued /\ ~sessions'[queue'[i]].attempted
  BY <1>3, <1>4, <1>5, <1>6 DEF OneJob, Promised
<1>14. ASSUME NEW w \in Workers, HasJob(w)
       PROVE  sessions'[worker'[w].on].queued /\ ~sessions'[worker'[w].on].attempted
  BY <1>1, <1>5, <1>7, <1>14 DEF OneJob, Promised
<1>15. \A b \in Created' : reports'[b] <= 1 /\ (~sessions'[b].attempted => reports'[b] = 0)
  BY <1>3 DEF OneJob
<1> QED BY <1>8, <1>9, <1>10, <1>11, <1>13, <1>14, <1>15 DEF OneJob, Promised

LEMMA WorkersJobs ==
  ASSUME TypeOK, OneJob, NEW w \in Workers, WorkerSteps(w)
  PROVE  OneJob'
<1>1. CASE Take(w)
  <2>1. /\ worker[w].at = "idle" /\ queue # <<>> /\ queue' = Tail(queue)
        /\ UNCHANGED <<sessions, reports>>
    BY <1>1 DEF Take
  <2>2. /\ queue' \in Seq(Nat) /\ 1 \in DOMAIN queue /\ Head(queue) = queue[1]
        /\ \A i \in DOMAIN queue' : i # 0 /\ i + 1 \in DOMAIN queue /\ queue'[i] = queue[i + 1]
    BY <2>1, Taken
  <2>3. DOMAIN queue' \subseteq Nat /\ DOMAIN queue \subseteq Nat
    BY <2>2 DEF TypeOK
  <2>4. /\ \A x \in Workers : x # w => worker'[x] = worker[x]
        /\ HasJob(w)' => worker'[w].on = queue[1]
    BY <1>1, <2>2 DEF Take, Goto, HasJob, TypeOK
  <2>5. Created' = Created /\ \A a : Promised(a)' = Promised(a)
    BY <2>1 DEF Created, Promised
  <2>6. \A i, j \in DOMAIN queue' : queue'[i] = queue'[j] => i = j
    <3> SUFFICES ASSUME NEW i \in DOMAIN queue', NEW j \in DOMAIN queue', queue'[i] = queue'[j]
                 PROVE  i = j
      OBVIOUS
    <3>1. i + 1 = j + 1
      BY <2>2 DEF OneJob
    <3> QED BY <3>1, <2>3
  <2>7. \A i \in DOMAIN queue' : queue'[i] # queue[1]
    <3> SUFFICES ASSUME NEW i \in DOMAIN queue' PROVE queue[i + 1] # queue[1]
      BY <2>2
    <3>1. i + 1 # 1 /\ i + 1 \in DOMAIN queue
      BY <2>2, <2>3
    <3> QED BY <3>1, <2>2 DEF OneJob
  <2>8. \A i \in DOMAIN queue', x \in Workers : HasJob(x)' => worker'[x].on # queue'[i]
    BY <2>2, <2>4, <2>7 DEF OneJob, HasJob
  <2>9. \A y, x \in Workers : HasJob(y)' /\ HasJob(x)' /\ worker'[y].on = worker'[x].on => y = x
    BY <2>2, <2>4 DEF OneJob, HasJob
  <2>10. \A i \in DOMAIN queue' : Promised(queue'[i])
    BY <2>2 DEF OneJob
  <2>11. \A x \in Workers : HasJob(x)' => Promised(worker'[x].on)
    BY <2>2, <2>4 DEF OneJob, HasJob
  <2> QED BY <2>1, <2>5, <2>6, <2>8, <2>9, <2>10, <2>11 DEF OneJob, Promised
<1>2. CASE Report(w)
  <2>1. /\ worker[w].at = "checked" /\ HasJob(w) /\ queue' = queue
        /\ \A x \in Workers : x # w => worker'[x] = worker[x]
        /\ worker'[w].at = "reporting" /\ ~HasJob(w)'
    BY <1>2 DEF Report, Goto, HasJob, TypeOK
  <2>2. PICK a : a = worker[w].on
    OBVIOUS
  <2>3. /\ Created' = Created /\ a \in Created /\ sessions'[a].attempted = TRUE
        /\ \A b \in Created : b # a => sessions'[b] = sessions[b] /\ reports'[b] = reports[b]
        /\ reports'[a] = reports[a] + 1
    BY <1>2, <2>2, ReportMarks
  <2>4. \A i \in DOMAIN queue : queue[i] \in Created /\ queue[i] # a
    BY <2>1, <2>2 DEF OneJob, TypeOK
  <2>5. \A x \in Workers : x # w /\ HasJob(x) => worker[x].on \in Created /\ worker[x].on # a
    BY <2>1, <2>2 DEF OneJob, TypeOK, HasJob
  <2>6. \A i \in DOMAIN queue : sessions'[queue[i]].queued /\ ~sessions'[queue[i]].attempted
    BY <2>3, <2>4 DEF OneJob, Promised
  <2>7. \A x \in Workers : HasJob(x)' => x # w /\ HasJob(x) /\ worker'[x] = worker[x]
    BY <2>1 DEF HasJob
  <2>8. \A x \in Workers : HasJob(x)' => sessions'[worker'[x].on].queued
                                         /\ ~sessions'[worker'[x].on].attempted
    BY <2>3, <2>5, <2>7 DEF OneJob, Promised
  <2>9. \A b \in Created : reports'[b] <= 1 /\ (~sessions'[b].attempted => reports'[b] = 0)
    <3>1. ~sessions[a].attempted
      BY <2>1, <2>2 DEF OneJob, Promised
    <3>2. reports[a] = 0
      BY <2>3, <3>1 DEF OneJob
    <3> QED BY <2>3, <3>2 DEF OneJob
  <2>10. \A i \in DOMAIN queue, x \in Workers : HasJob(x)' => worker'[x].on # queue[i]
    BY <2>7 DEF OneJob
  <2>11. \A y, x \in Workers : HasJob(y)' /\ HasJob(x)' /\ worker'[y].on = worker'[x].on => y = x
    BY <2>7 DEF OneJob
  <2> QED BY <2>1, <2>3, <2>6, <2>8, <2>9, <2>10, <2>11 DEF OneJob, Promised
<1>3. CASE ~Take(w) /\ ~Report(w)
  <2>1. /\ UNCHANGED <<sessions, queue, reports>>
        /\ \A x \in Workers : HasJob(x)' => HasJob(x) /\ worker'[x].on = worker[x].on
    <3>1. CASE Check(w)
      <4>1. /\ worker[w].at = "taken" /\ UNCHANGED <<sessions, queue, reports>>
            /\ \/ worker' = [worker EXCEPT ![w] = [at |-> "checked", on |-> worker[w].on]]
               \/ worker' = [worker EXCEPT ![w] = [at |-> "idle", on |-> 0]]
        BY <3>1 DEF Check, Goto, Idling
      <4>2. \A x \in Workers : x # w => worker'[x] = worker[x]
        BY <4>1 DEF TypeOK
      <4>3. \/ worker'[w].at = "checked" /\ worker'[w].on = worker[w].on
            \/ worker'[w].at = "idle"
        BY <4>1 DEF TypeOK
      <4> QED BY <4>1, <4>2, <4>3 DEF HasJob
    <3>2. CASE ~Check(w)
      <4>1. /\ UNCHANGED <<sessions, queue, reports>>
            /\ \E at \in Places \ {"taken", "checked"}, on \in Nat :
                 worker' = [worker EXCEPT ![w] = [at |-> at, on |-> on]]
        BY <1>3, <3>2, WorkerCases
      <4> QED BY <4>1 DEF HasJob, TypeOK
    <3> QED BY <3>1, <3>2
  <2>2. Created' = Created /\ \A a : Promised(a)' = Promised(a)
    BY <2>1 DEF Created, Promised
  <2>3. \A i \in DOMAIN queue, x \in Workers : HasJob(x)' => worker'[x].on # queue[i]
    BY <2>1 DEF OneJob
  <2>4. \A y, x \in Workers : HasJob(y)' /\ HasJob(x)' /\ worker'[y].on = worker'[x].on => y = x
    BY <2>1 DEF OneJob
  <2>5. \A x \in Workers : HasJob(x)' => Promised(worker'[x].on)
    BY <2>1 DEF OneJob
  <2> QED BY <2>1, <2>2, <2>3, <2>4, <2>5 DEF OneJob, Promised
<1> QED BY <1>1, <1>2, <1>3

LEMMA OneJobStep ==
  ASSUME BaseInv, OneJob, NextLifecycle
  PROVE  OneJob'
<1>1. TypeOK /\ Counted
  BY DEF BaseInv
<1>2. ASSUME NEW r \in Requests, Finish(r)
      PROVE  OneJob'
  <2>1. Created' = Created
    <3>1. uses[r] \in Created /\ sessions[uses[r]] \in Session
      BY <1>1, <1>2, SessionType, FinishCorrect
    <3>2. Len(sessions') = Len(sessions)
      BY <1>1, <1>2 DEF Finish, TypeOK
    <3> QED BY <3>2 DEF Created
  <2>2. UNCHANGED <<queue, worker, reports>>
    BY <1>2 DEF Finish
  <2>3. \A b \in Created : /\ sessions'[b].queued = sessions[b].queued
                           /\ sessions'[b].attempted = sessions[b].attempted
    BY <1>1, <1>2, FinishCorrect
  <2>4. /\ \A i \in DOMAIN queue : queue[i] \in Created
        /\ \A w \in Workers : HasJob(w) => worker[w].on \in Created
    BY <1>1 DEF TypeOK, HasJob
  <2>5. \A w \in Workers : HasJob(w)' = HasJob(w)
    BY <2>2 DEF HasJob
  <2> QED BY <2>1, <2>2, <2>3, <2>4, <2>5 DEF OneJob, Promised
<1>3. ASSUME UNCHANGED <<sessions, queue, worker, reports>>
      PROVE  OneJob'
  BY <1>3 DEF OneJob, Promised, HasJob, Created
<1>4. ASSUME Drain
      PROVE  OneJob'
  <2>1. UNCHANGED <<sessions, worker, reports>> /\ queue' = <<>>
    BY <1>4 DEF Drain
  <2>2. DOMAIN queue' = {}
    BY <2>1
  <2>3. /\ Created' = Created /\ \A a : Promised(a)' = Promised(a)
        /\ \A w \in Workers : HasJob(w)' = HasJob(w)
    BY <2>1 DEF Created, Promised, HasJob
  <2> QED BY <2>1, <2>2, <2>3 DEF OneJob, Promised
<1>5. ASSUME NEW r \in Requests, NEW k \in Keys, Misses(r, k)
      PROVE  OneJob'
  BY <1>1, <1>3, <1>5, NothingCorrect DEF Misses
<1>6. ASSUME (\E r \in Requests : Returns(r)) \/ Tick \/ Cancel \/ UNCHANGED vars
      PROVE  OneJob'
  BY <1>3, <1>6 DEF Returns, Tick, Cancel, vars
<1> QED BY <1>1, <1>2, <1>4, <1>5, <1>6, EntersJobs, WorkersJobs, StepCases

-----------------------------------------------------------------------------
(* The version a session is entered with. *)

\* A session keeps its version, and no session is lost.
LEMMA VersionStays ==
  ASSUME BaseInv, NextLifecycle
  PROVE  \A b \in Created : b \in Created' /\ sessions'[b].version = sessions[b].version
<1>1. TypeOK /\ Counted
  BY DEF BaseInv
<1>2. ASSUME NEW r \in Requests, NEW k \in Keys, NEW q \in BOOLEAN, Enters(r, k, q)
      PROVE  \A b \in Created : b \in Created' /\ sessions'[b].version = sessions[b].version
  <2>1. CASE Opens(r, k, carried[r], q)
    <3>1. PICK s : sessions' = Append(sessions, s) /\ s = [key |-> k, version |-> carried[r],
                     last |-> now, inflight |-> 1, queued |-> q, attempted |-> FALSE]
      BY <2>1 DEF Opens
    <3>2. s \in Session
      BY <1>1, <1>2, <3>1 DEF Enters, Session, TypeOK
    <3> QED BY <1>1, <3>1, <3>2, Added
  <2>2. CASE Joins(r, k, carried[r], q)
    <3>1. PICK a : a = active[k]
      OBVIOUS
    <3>2. PICK s : s = Touched(sessions[a], sessions[a].inflight + 1, sessions[a].queued \/ q)
      OBVIOUS
    <3>3. a \in Created /\ sessions[a] \in Session /\ sessions' = [sessions EXCEPT ![a] = s]
      BY <1>1, <2>2, <3>1, <3>2, SessionType DEF Joins
    <3>4. s \in Session /\ s.version = sessions[a].version
      <4>1. (sessions[a].queued \/ q) \in BOOLEAN /\ now \in Nat
        BY <1>1 DEF TypeOK
      <4> QED BY <3>2, <3>3, <4>1 DEF Session, Touched
    <3> QED BY <1>1, <3>3, <3>4, Changed
  <2> QED BY <1>2, <2>1, <2>2 DEF Enters
<1>3. ASSUME NEW r \in Requests, Finish(r)
      PROVE  \A b \in Created : b \in Created' /\ sessions'[b].version = sessions[b].version
  <2>1. Len(sessions') = Len(sessions)
    BY <1>1, <1>3 DEF Finish, TypeOK
  <2> QED BY <1>1, <1>3, <2>1, FinishCorrect DEF Created
<1>4. ASSUME NEW w \in Workers, WorkerSteps(w)
      PROVE  \A b \in Created : b \in Created' /\ sessions'[b].version = sessions[b].version
  <2>1. CASE Report(w)
    BY <1>1, <2>1, ReportMarks
  <2>2. CASE ~Report(w)
    <3>1. sessions' = sessions
      BY <1>1, <1>4, <2>2, WorkerCases DEF Take, Check
    <3> QED BY <3>1 DEF Created
  <2> QED BY <2>1, <2>2
<1>5. ASSUME sessions' = sessions
      PROVE  \A b \in Created : b \in Created' /\ sessions'[b].version = sessions[b].version
  BY <1>5 DEF Created
<1>6. ASSUME NEW r \in Requests, NEW k \in Keys, Misses(r, k)
      PROVE  sessions' = sessions
  BY <1>6 DEF Misses, UseNothing
<1>7. (\E r \in Requests : Returns(r)) \/ Tick \/ Cancel \/ Drain \/ UNCHANGED vars
        => sessions' = sessions
  BY DEF Returns, Tick, Cancel, Drain, vars
<1> QED BY <1>2, <1>3, <1>4, <1>5, <1>6, <1>7, StepCases

LEMMA UsedAsSentStep ==
  ASSUME BaseInv, UsedAsSent, NextLifecycle
  PROVE  UsedAsSent'
<1>1. TypeOK /\ Counted /\ Sent
  BY DEF BaseInv
<1>2. Created \subseteq 1..MaxSessions /\ Created' \subseteq 1..MaxSessions
  <2>1. TypeOK'
    BY BaseStep DEF BaseInv
  <2> QED BY <1>1, <2>1, SizesAssumption DEF TypeOK, Created
<1>3. Unused \notin Created' /\ None \notin Created' /\ Over \notin Created'
  BY <1>2, SizesAssumption DEF Unused, None, Over
<1>4. ASSUME NEW u \in Requests, uses'[u] \in Created', uses'[u] = uses[u], carried'[u] = carried[u]
      PROVE  sessions'[uses'[u]].version = carried'[u]
  <2>1. uses[u] \in Created
    BY <1>1, <1>3, <1>4 DEF TypeOK
  <2> QED BY <1>4, <2>1, VersionStays DEF UsedAsSent
<1>5. ASSUME NEW r \in Requests, NEW k \in Keys, NEW q \in BOOLEAN, Enters(r, k, q)
      PROVE  /\ \A u \in Requests : u # r => uses'[u] = uses[u]
             /\ sessions'[uses'[r]].version = carried[r]
  <2>1. CASE Opens(r, k, carried[r], q)
    <3>1. PICK s : sessions' = Append(sessions, s) /\ s = [key |-> k, version |-> carried[r],
                     last |-> now, inflight |-> 1, queued |-> q, attempted |-> FALSE]
      BY <2>1 DEF Opens
    <3>2. s \in Session /\ s.version = carried[r]
      BY <1>1, <1>5, <3>1 DEF Enters, Session, TypeOK
    <3>3. sessions'[Len(sessions) + 1] = s
      BY <1>1, <3>1, <3>2, Added
    <3>4. uses' = [uses EXCEPT ![r] = Len(sessions) + 1]
      BY <2>1 DEF Opens
    <3> QED BY <1>1, <3>2, <3>3, <3>4 DEF TypeOK
  <2>2. CASE Joins(r, k, carried[r], q)
    <3>1. /\ uses' = [uses EXCEPT ![r] = active[k]] /\ active[k] \in Created
          /\ sessions[active[k]].version = carried[r]
      BY <2>2 DEF Joins
    <3> QED BY <1>1, <3>1, VersionStays DEF TypeOK
  <2> QED BY <1>5, <2>1, <2>2 DEF Enters
<1>6. ASSUME NEW r \in Requests, NEW a \in {None, Over}, uses' = [uses EXCEPT ![r] = a],
             UNCHANGED lifecycle
      PROVE  UsedAsSent'
  BY <1>1, <1>3, <1>4, <1>6 DEF UsedAsSent, TypeOK, lifecycle
<1>7. ASSUME uses' = uses, UNCHANGED lifecycle
      PROVE  UsedAsSent'
  BY <1>4, <1>7 DEF UsedAsSent, lifecycle
<1>8. ASSUME UNCHANGED vars, Outside
      PROVE  UsedAsSent'
  <2>1. \A u \in Requests : carried'[u] = carried[u] \/ uses[u] = Unused
    BY <1>1, <1>8 DEF Outside, Sent, Refresh, Arrive, Resend, Waiting, Signal, ListenerFails, Drained,
       DrainTimesOut, Exit, Gone, Goes, ProcessOnly, allVars, lifecycle
  <2>2. uses' = uses
    BY <1>8 DEF vars
  <2> QED BY <1>3, <1>4, <2>1, <2>2 DEF UsedAsSent
<1>9. ASSUME NEW r \in Requests, NEW k \in Keys, NEW q \in BOOLEAN, Enters(r, k, q),
             UNCHANGED lifecycle
      PROVE  UsedAsSent'
  BY <1>4, <1>5, <1>9 DEF UsedAsSent, lifecycle
<1>10. /\ \A r \in Requests, k \in Keys : Misses(r, k) => uses' = [uses EXCEPT ![r] = None]
       /\ \A r \in Requests : Finish(r) \/ Returns(r) => uses' = [uses EXCEPT ![r] = Over]
  BY DEF Misses, UseNothing, Finish, Returns, Return
<1>11. /\ \A w \in Workers : WorkerSteps(w) => uses' = uses
       /\ Tick \/ Cancel \/ Drain => uses' = uses
  BY <1>1, WorkerCases DEF Tick, Cancel, Drain
<1> QED BY <1>6, <1>7, <1>8, <1>9, <1>10, <1>11, StepCases

-----------------------------------------------------------------------------
(* The end of the process.  Main closes the Reporter only when the requests it *)
(* waits for are over, and a request that is over stays over.                  *)

Ending ==
  /\ closing # "open" => ended /\ main \in {"closing", "exit 0"}
  /\ main \in {"closing", "exit 0"} => \A r \in tracked : uses[r] = Over
  /\ closing = "closed" => queue = <<>> /\ \A w \in Workers : worker[w].at = "stopped"
  /\ tracked \subseteq Requests

LEMMA EndingStep ==
  ASSUME BaseInv, Ending, NextLifecycle
  PROVE  Ending'
<1>1. TypeOK /\ Counted /\ Sent
  BY DEF BaseInv
<1>2. Unused # Over /\ None # Over /\ Over \notin Created
  BY <1>1, SizesAssumption DEF Unused, None, Over, Created, TypeOK
<1>3. \A r \in Requests : uses[r] = Over => uses'[r] = Over
  <2>1. /\ \A r \in Requests, k \in Keys, q \in BOOLEAN : Enters(r, k, q) =>
             uses[r] = Unused /\ \E a : uses' = [uses EXCEPT ![r] = a]
        /\ \A r \in Requests, k \in Keys : Misses(r, k) =>
             uses[r] = Unused /\ \E a : uses' = [uses EXCEPT ![r] = a]
        /\ \A r \in Requests : Finish(r) => uses' = [uses EXCEPT ![r] = Over]
        /\ \A r \in Requests : Returns(r) => uses' = [uses EXCEPT ![r] = Over]
    BY DEF Enters, Opens, Joins, Misses, UseNothing, Finish, Returns, Return
  <2>2. /\ \A w \in Workers : WorkerSteps(w) => uses' = uses
        /\ Tick \/ Cancel \/ Drain \/ UNCHANGED vars => uses' = uses
    BY <1>1, WorkerCases DEF Tick, Cancel, Drain, vars
  <2> QED BY <1>1, <1>2, <2>1, <2>2, StepCases DEF TypeOK
<1>4. tracked' \subseteq Requests
  BY StepCases DEF Ending, lifecycle, Outside, Refresh, Arrive, Resend, Signal, ListenerFails, Drained,
     DrainTimesOut, Exit, Gone, Goes, ProcessOnly, allVars
<1>5. main' \in {"closing", "exit 0"} => \A r \in tracked' : uses'[r] = Over
  BY <1>3, StepCases DEF Ending, lifecycle, Outside, Refresh, Arrive, Resend, Signal, ListenerFails,
     Drained, DrainTimesOut, Exit, Gone, Goes, ProcessOnly, allVars
<1>6. closing' # "open" => closing # "open" \/ (Cancel /\ main = "closing" /\ main' = main)
  <2>1. /\ \A r \in Requests, k \in Keys, q \in BOOLEAN : Enters(r, k, q) => closing' = closing
        /\ \A r \in Requests, k \in Keys : Misses(r, k) => closing' = closing
        /\ \A r \in Requests : Finish(r) \/ Returns(r) => closing' = closing
    BY DEF Enters, Opens, Joins, Misses, UseNothing, Finish, Returns
  <2>2. /\ \A w \in Workers : WorkerSteps(w) => closing' = closing
        /\ Tick \/ UNCHANGED vars => closing' = closing
        /\ Drain => closing # "open"
    BY <1>1, WorkerCases DEF Tick, Drain, vars
  <2> QED BY <2>1, <2>2, StepCases DEF lifecycle
<1>7. ended => ended'
  <2>1. /\ \A r \in Requests, k \in Keys, q \in BOOLEAN : Enters(r, k, q) => ended' = ended
        /\ \A r \in Requests, k \in Keys : Misses(r, k) => ended' = ended
        /\ \A r \in Requests : Finish(r) \/ Returns(r) => ended' = ended
    BY DEF Enters, Opens, Joins, Misses, UseNothing, Finish, Returns
  <2>2. /\ \A w \in Workers : WorkerSteps(w) => ended' = ended
        /\ Tick \/ Drain \/ UNCHANGED vars => ended' = ended
        /\ Cancel => ended'
    BY <1>1, WorkerCases DEF Tick, Drain, Cancel, vars
  <2> QED BY <2>1, <2>2, StepCases
<1>8. main \in {"closing", "exit 0"} => main' \in {"closing", "exit 0"}
  BY StepCases DEF lifecycle, Outside, Refresh, Arrive, Resend, Signal, ListenerFails, Drained,
     DrainTimesOut, Exit, Gone, Goes, ProcessOnly, allVars
<1>9. closing' # "open" => ended' /\ main' \in {"closing", "exit 0"}
  BY <1>6, <1>7, <1>8 DEF Ending, Cancel
<1>10. closing' = "closed" => queue' = <<>> /\ \A w \in Workers : worker'[w].at = "stopped"
  <2>1. CASE closing = "closed"
    <3>1. ended /\ queue = <<>> /\ \A w \in Workers : worker[w].at = "stopped"
      BY <2>1 DEF Ending
    <3>2. /\ \A r \in Requests, k \in Keys, q \in BOOLEAN : ~Enters(r, k, q)
          /\ \A r \in Requests, k \in Keys : Misses(r, k) => UNCHANGED <<queue, worker>>
          /\ \A r \in Requests : Finish(r) \/ Returns(r) => UNCHANGED <<queue, worker>>
          /\ \A w \in Workers : ~WorkerSteps(w)
          /\ Tick \/ UNCHANGED vars => UNCHANGED <<queue, worker>>
          /\ ~Cancel /\ ~Drain
      BY <2>1, <3>1 DEF Enters, Opens, Joins, Misses, UseNothing, Finish, Returns, WorkerSteps,
         Take, Stop, Check, Report, Reported, Announced, Tick, vars, Cancel, Drain
    <3>3. UNCHANGED <<queue, worker>>
      BY <3>2, StepCases
    <3> QED BY <3>1, <3>3
  <2>2. CASE closing # "closed"
    <3>1. /\ \A r \in Requests, k \in Keys, q \in BOOLEAN : Enters(r, k, q) => closing' = closing
          /\ \A r \in Requests, k \in Keys : Misses(r, k) => closing' = closing
          /\ \A r \in Requests : Finish(r) \/ Returns(r) => closing' = closing
          /\ \A w \in Workers : WorkerSteps(w) => closing' = closing
          /\ Tick \/ UNCHANGED vars => closing' = closing
          /\ Cancel => closing' = "waiting"
          /\ Drain => queue' = <<>> /\ worker' = worker
                      /\ \A w \in Workers : worker[w].at = "stopped"
      BY <1>1, WorkerCases DEF Enters, Opens, Joins, Misses, UseNothing, Finish, Returns, Tick, vars,
         Cancel, Drain
    <3> QED BY <2>2, <3>1, StepCases
  <2> QED BY <2>1, <2>2
<1> QED BY <1>4, <1>5, <1>9, <1>10 DEF Ending

-----------------------------------------------------------------------------
(* A promised report is not forgotten.  A session that has expired stays so: only a *)
(* request that uses it could touch it, and then its count is not zero.             *)

Live(a) == ~ended /\ active[sessions[a].key] = a /\ ~Expired(a) /\ sessions[a].queued

Pending(a) ==
  \/ sessions[a].attempted
  \/ \E i \in DOMAIN queue : queue[i] = a
  \/ \E w \in Workers : worker[w].on = a /\ HasJob(w)

LEMMA PendingMeans ==
  /\ QueuedIsPending <=> \A a \in Created : Live(a) => Pending(a)
  /\ QueuedIsPending' <=> \A a \in Created' : Live(a)' => Pending(a)'
BY DEF QueuedIsPending, Live, Pending, Holding, HasJob

LEMMA EntersPending ==
  ASSUME TypeOK, Counted, QueuedIsPending, NEW r \in Requests, NEW k \in Keys, NEW q \in BOOLEAN,
         Enters(r, k, q)
  PROVE  QueuedIsPending'
<1>1. now' = now /\ worker' = worker /\ ended' = ended
  BY DEF Enters, Opens, Joins
<1>2. \A b \in Created : Live(b) => Pending(b)
  BY PendingMeans
<1>3. CASE Opens(r, k, carried[r], q)
  <2>1. PICK s : sessions' = Append(sessions, s) /\ s = [key |-> k, version |-> carried[r],
                   last |-> now, inflight |-> 1, queued |-> q, attempted |-> FALSE]
    BY <1>3 DEF Opens
  <2>2. s \in Session /\ s.queued = q
    BY <2>1 DEF Enters, Session, TypeOK
  <2>3. PICK a : a = Len(sessions) + 1
    OBVIOUS
  <2>4. /\ Created' = Created \cup {a} /\ a \notin Created /\ a \in Nat
        /\ sessions'[a] = s /\ \A b \in Created : sessions'[b] = sessions[b]
    <3>1. /\ Len(sessions) \in Nat
          /\ Created' = Created \cup {Len(sessions) + 1} /\ Len(sessions) + 1 \notin Created
          /\ sessions'[Len(sessions) + 1] = s /\ \A b \in Created : sessions'[b] = sessions[b]
      BY <2>1, <2>2, Added
    <3> QED BY <2>3, <3>1
  <2>5. queue' = IF q THEN Append(queue, a) ELSE queue
    BY <1>3, <2>3 DEF Opens
  <2>6. /\ \A i \in DOMAIN queue : i \in DOMAIN queue' /\ queue'[i] = queue[i]
        /\ q => \E j \in DOMAIN queue' : queue'[j] = a
    BY <2>4, <2>5, Queued
  <2>7. \A b \in Created : \A j \in Keys : active'[j] = b => active[j] = b
    <3>1. active' = [Swept(k) EXCEPT ![k] = a]
      BY <1>3, <2>3 DEF Opens
    <3>2. \A b \in Created : b # 0
      BY DEF Created
    <3> QED BY <2>4, <3>1, <3>2, SweptFacts
  <2>8. ASSUME NEW b \in Created, Live(b)'
        PROVE  Pending(b)'
    <3>1. sessions[b].key \in Keys /\ sessions'[b] = sessions[b]
      BY <2>4, SessionType DEF Session
    <3>2. Live(b)
      BY <1>1, <2>7, <2>8, <3>1 DEF Live, Expired
    <3> QED BY <1>1, <1>2, <2>6, <3>1, <3>2 DEF Pending, HasJob
  <2>9. Live(a)' => Pending(a)'
    BY <2>2, <2>4, <2>6 DEF Live, Pending
  <2> QED BY <2>4, <2>8, <2>9, PendingMeans
<1>4. CASE Joins(r, k, carried[r], q)
  <2>1. PICK a : a = active[k]
    OBVIOUS
  <2>2. PICK s : s = Touched(sessions[a], sessions[a].inflight + 1, sessions[a].queued \/ q)
    OBVIOUS
  <2>3. /\ a \in Created /\ sessions[a] \in Session /\ sessions' = [sessions EXCEPT ![a] = s]
        /\ ~Expired(a) /\ ~ended /\ active' = active /\ sessions[a].key = k
    BY <1>4, <2>1, <2>2, SessionType DEF Joins, TypeOK, Created
  <2>4. /\ s \in Session /\ s.attempted = sessions[a].attempted
        /\ s.queued <=> sessions[a].queued \/ q
    <3>1. (sessions[a].queued \/ q) \in BOOLEAN /\ now \in Nat
      BY DEF TypeOK
    <3> QED BY <2>2, <2>3, <3>1 DEF Session, Touched
  <2>5. Created' = Created /\ sessions'[a] = s /\ \A b \in Created : b # a => sessions'[b] = sessions[b]
    BY <2>3, <2>4, Changed
  <2>6. queue' = (IF q THEN Append(queue, a) ELSE queue) /\ a \in Nat
    BY <1>4, <2>1, <2>3 DEF Joins, Created
  <2>7. /\ \A i \in DOMAIN queue : i \in DOMAIN queue' /\ queue'[i] = queue[i]
        /\ q => \E j \in DOMAIN queue' : queue'[j] = a
    BY <2>6, Queued
  <2>8. ASSUME NEW b \in Created, b # a, Live(b)'
        PROVE  Pending(b)'
    <3>1. Live(b)
      BY <1>1, <2>3, <2>5, <2>8 DEF Live, Expired
    <3> QED BY <1>1, <1>2, <2>5, <2>7, <2>8, <3>1 DEF Pending, HasJob
  <2>9. Live(a)' => Pending(a)'
    <3>1. CASE q
      BY <2>7, <3>1 DEF Pending
    <3>2. CASE ~q
      <4>1. sessions[a].queued => Live(a)
        BY <2>1, <2>3 DEF Live
      <4>2. Live(a)' => sessions[a].queued
        BY <2>4, <2>5, <3>2 DEF Live
      <4> QED BY <1>1, <1>2, <2>3, <2>4, <2>5, <2>7, <4>1, <4>2 DEF Pending, HasJob
    <3> QED BY <3>1, <3>2
  <2> QED BY <2>5, <2>8, <2>9, PendingMeans
<1> QED BY <1>3, <1>4 DEF Enters

LEMMA WorkersPending ==
  ASSUME TypeOK, QueuedIsPending, NEW w \in Workers, WorkerSteps(w)
  PROVE  QueuedIsPending'
<1>1. now' = now /\ active' = active /\ ended' = ended
  BY WorkerCases
<1>2. \A b \in Created : Live(b) => Pending(b)
  BY PendingMeans
<1>3. CASE Take(w)
  <2>1. /\ worker[w].at = "idle" /\ queue # <<>> /\ queue' = Tail(queue)
        /\ UNCHANGED <<sessions, reports>>
    BY <1>3 DEF Take
  <2>2. /\ \A i \in DOMAIN queue : i # 1 => i - 1 \in DOMAIN queue' /\ queue[i] = queue'[i - 1]
        /\ Head(queue) = queue[1]
    BY <2>1, Taken
  <2>3. /\ \A x \in Workers : x # w => worker'[x] = worker[x]
        /\ ~ended => worker'[w].at = "taken" /\ worker'[w].on = queue[1]
    BY <1>3, <2>2 DEF Take, Goto, TypeOK
  <2>4. Created' = Created /\ \A b : Live(b)' => Live(b) /\ ~ended
    BY <1>1, <2>1 DEF Created, Live, Expired
  <2>5. ASSUME NEW b \in Created, Live(b)'
        PROVE  Pending(b)'
    <3>1. Pending(b) /\ ~ended
      BY <1>2, <2>4, <2>5
    <3>2. \A x \in Workers : HasJob(x) => HasJob(x)' /\ worker'[x] = worker[x]
      BY <2>1, <2>3 DEF HasJob
    <3>3. HasJob(w)' /\ worker'[w].on = queue[1]
      BY <2>3, <3>1 DEF HasJob
    <3> QED BY <2>1, <2>2, <3>1, <3>2, <3>3 DEF Pending
  <2> QED BY <2>4, <2>5, PendingMeans
<1>4. CASE Report(w)
  <2>1. PICK a : a = worker[w].on
    OBVIOUS
  <2>2. /\ queue' = queue /\ \A x \in Workers : x # w => worker'[x] = worker[x]
    BY <1>4 DEF Report, Goto, TypeOK
  <2>3. /\ Created' = Created /\ sessions'[a].attempted = TRUE
        /\ \A b \in Created : b # a => sessions'[b] = sessions[b]
    BY <1>4, <2>1, ReportMarks
  <2>4. ASSUME NEW b \in Created, Live(b)'
        PROVE  Pending(b)'
    <3>1. CASE b = a
      BY <2>3, <3>1 DEF Pending
    <3>2. CASE b # a
      <4>1. Live(b) /\ sessions'[b] = sessions[b]
        BY <1>1, <2>3, <2>4, <3>2 DEF Live, Expired
      <4>2. Pending(b)
        BY <1>2, <4>1
      <4>3. \A x \in Workers : worker[x].on = b /\ HasJob(x) => worker'[x].on = b /\ HasJob(x)'
        BY <2>1, <2>2, <3>2 DEF HasJob
      <4> QED BY <2>2, <4>1, <4>2, <4>3 DEF Pending
    <3> QED BY <3>1, <3>2
  <2> QED BY <2>3, <2>4, PendingMeans
<1>5. CASE ~Take(w) /\ ~Report(w)
  <2>1. UNCHANGED <<sessions, queue>> /\ \A x \in Workers : x # w => worker'[x] = worker[x]
    BY <1>5, WorkerCases DEF Check, Goto, Idling, TypeOK
  <2>2. /\ Created' = Created /\ \A b \in Created : Live(b)' => Live(b)
        /\ \A b \in Created : Live(b) => Eligible(b)
    BY <1>1, <2>1 DEF Created, Live, Expired, Eligible
  <2>3. \A b \in Created : worker[w].on = b /\ HasJob(w) /\ Eligible(b)
                             => worker'[w].on = b /\ HasJob(w)'
    <3>1. CASE Check(w)
      <4>1. Eligible(worker[w].on) =>
               worker' = [worker EXCEPT ![w] = [at |-> "checked", on |-> worker[w].on]]
        BY <3>1 DEF Check, Goto
      <4>2. Eligible(worker[w].on) => worker'[w].at = "checked" /\ worker'[w].on = worker[w].on
        BY <4>1 DEF TypeOK
      <4> QED BY <4>2 DEF HasJob
    <3>2. CASE ~Check(w)
      BY <1>5, <3>2, WorkerCases DEF HasJob
    <3> QED BY <3>1, <3>2
  <2>4. ASSUME NEW b \in Created, Live(b)'
        PROVE  Pending(b)'
    <3>1. Pending(b) /\ Eligible(b)
      BY <1>2, <2>2, <2>4
    <3>2. \A x \in Workers : worker[x].on = b /\ HasJob(x) => worker'[x].on = b /\ HasJob(x)'
      BY <2>1, <2>3, <3>1 DEF HasJob
    <3> QED BY <2>1, <3>1, <3>2 DEF Pending
  <2> QED BY <2>2, <2>4, PendingMeans
<1> QED BY <1>3, <1>4, <1>5

LEMMA PendingStep ==
  ASSUME BaseInv, Ending, QueuedIsPending, NextLifecycle
  PROVE  QueuedIsPending'
<1>1. TypeOK /\ Counted
  BY DEF BaseInv
<1>2. \A b \in Created : Live(b) => Pending(b)
  BY PendingMeans
<1>3. ASSUME NEW r \in Requests, Finish(r)
      PROVE  QueuedIsPending'
  <2>1. PICK a : a = uses[r]
    OBVIOUS
  <2>2. /\ a \in Created /\ sessions[a].inflight # 0
        /\ \A b \in Created : /\ sessions'[b].key = sessions[b].key
                              /\ sessions'[b].queued = sessions[b].queued
                              /\ sessions'[b].attempted = sessions[b].attempted
                              /\ b # a => sessions'[b] = sessions[b]
    BY <1>1, <1>3, <2>1, FinishCorrect
  <2>3. /\ Len(sessions') = Len(sessions)
        /\ UNCHANGED <<now, ended, active, queue, worker>>
    BY <1>1, <1>3 DEF Finish, TypeOK
  <2>4. ASSUME NEW b \in Created, Live(b)'
        PROVE  Live(b)
    BY <2>2, <2>3, <2>4 DEF Live, Expired
  <2>5. \A b \in Created : Pending(b) => Pending(b)'
    BY <2>2, <2>3 DEF Pending, HasJob
  <2> QED BY <1>2, <2>3, <2>4, <2>5, PendingMeans DEF Created
<1>4. ASSUME NEW r \in Requests, NEW k \in Keys, Misses(r, k)
      PROVE  QueuedIsPending'
  <2>1. /\ UNCHANGED <<now, ended, sessions, queue, worker>>
        /\ active' = active \/ active' = Swept(k)
    BY <1>1, <1>4, NothingCorrect DEF Misses
  <2>2. Created' = Created /\ \A b \in Created : b # 0 /\ sessions[b].key \in Keys
    BY <1>1, <2>1, SessionType DEF Created, Session
  <2>3. \A b \in Created : Live(b)' => Live(b)
    BY <1>1, <2>1, <2>2, SweptFacts DEF Live, Expired
  <2>4. \A b : Pending(b)' = Pending(b)
    BY <2>1 DEF Pending, HasJob
  <2> QED BY <1>2, <2>2, <2>3, <2>4, PendingMeans
<1>5. ASSUME UNCHANGED <<now, ended, active, sessions, queue, worker>>
      PROVE  QueuedIsPending'
  BY <1>5 DEF QueuedIsPending, Created, Expired, Holding
<1>6. ASSUME Tick
      PROVE  QueuedIsPending'
  <2>1. UNCHANGED <<ended, active, sessions, queue, worker>> /\ now' = now + 1
    BY <1>6 DEF Tick
  <2>2. \A b \in Created : sessions[b].last \in Nat /\ now \in Nat
    BY <1>1, SessionType DEF Session, TypeOK
  <2>3. Created' = Created /\ \A b \in Created : Expired(b) => Expired(b)'
    BY <2>1, <2>2, SizesAssumption DEF Expired, Created
  <2>4. \A b \in Created : (Live(b)' => Live(b)) /\ Pending(b)' = Pending(b)
    BY <2>1, <2>3 DEF Live, Pending, HasJob
  <2> QED BY <1>2, <2>3, <2>4, PendingMeans
<1>7. ASSUME Cancel \/ Drain
      PROVE  QueuedIsPending'
  <2>1. ended'
    BY <1>7 DEF Cancel, Drain, Ending
  <2> QED BY <2>1 DEF QueuedIsPending
<1>8. ASSUME (\E r \in Requests : Returns(r)) \/ UNCHANGED vars
      PROVE  QueuedIsPending'
  BY <1>5, <1>8 DEF Returns, vars
<1> QED BY <1>1, <1>3, <1>4, <1>6, <1>7, <1>8, EntersPending, WorkersPending, StepCases

-----------------------------------------------------------------------------
(* The table.  What the sweep drops has expired: its count is zero, and no request *)
(* uses it.                                                                        *)

Bounded == Cardinality(Held) <= Capacity

\* Whoever the sweep forgets is not in use.
LEMMA SweptAreIdle ==
  ASSUME TypeOK, Counted, NEW k \in Keys, NEW j \in Keys, active[j] # 0, Swept(k)[j] = 0
  PROVE  /\ \A r \in Requests : uses[r] # active[j]
         /\ now - sessions[active[j]].last >= Idle
<1>1. PICK a : a = active[j]
  OBVIOUS
<1>2. a \in Created /\ Expired(a)
  BY <1>1, SweptFacts DEF TypeOK
<1>3. Cardinality(Users(a)) = 0
  BY <1>2 DEF Expired, Counted
<1>4. IsFiniteSet(Users(a))
  BY FiniteAssumption, FS_Subset DEF Users
<1>5. Users(a) = {}
  BY <1>3, <1>4, FS_EmptySet
<1>6. \A r \in Requests : uses[r] # a
  BY <1>5 DEF Users
<1> QED BY <1>1, <1>2, <1>6 DEF Expired

\* A sweep makes the table no larger.
LEMMA SweptIsSmaller ==
  ASSUME TypeOK, NEW k \in Keys
  PROVE  /\ IsFiniteSet(Held) /\ {j \in Keys : Swept(k)[j] # 0} \subseteq Held
         /\ Cardinality({j \in Keys : Swept(k)[j] # 0}) <= Cardinality(Held)
         /\ Cardinality(Held) \in Nat /\ Cardinality({j \in Keys : Swept(k)[j] # 0}) \in Nat
<1>1. IsFiniteSet(Held)
  BY FiniteAssumption, FS_Subset DEF Held
<1>2. {j \in Keys : Swept(k)[j] # 0} \subseteq Held
  BY SweptFacts DEF Held
<1> QED BY <1>1, <1>2, FS_Subset, FS_CardinalityType

LEMMA OpensBounded ==
  ASSUME TypeOK, Counted, Bounded, NEW r \in Requests, NEW k \in Keys, NEW v, NEW q,
         Opens(r, k, v, q)
  PROVE  /\ Bounded'
         /\ \A j \in Keys : active[j] # 0 /\ active'[j] = 0 => Swept(k)[j] = 0
<1>1. PICK a : a = Len(sessions) + 1
  OBVIOUS
<1>2. a # 0
  BY <1>1 DEF TypeOK
<1>3. active' = [Swept(k) EXCEPT ![k] = a] /\ (active[k] # 0 \/ ~Full(Swept(k)))
  BY <1>1 DEF Opens
<1> DEFINE T == {j \in Keys : Swept(k)[j] # 0}
<1>4. Held' = T \cup {k}
  BY <1>2, <1>3, SweptFacts DEF Held
<1>5. Cardinality(T \cup {k}) <= Capacity
  <2>1. IsFiniteSet(T) /\ Cardinality(T) \in Nat
    BY SweptIsSmaller, FS_Subset
  <2>2. CASE active[k] # 0
    <3>1. T = Held /\ k \in T
      BY <2>2, SweptFacts DEF Held
    <3>2. T \cup {k} = Held
      BY <3>1
    <3> QED BY <3>2 DEF Bounded
  <2>3. CASE ~Full(Swept(k))
    <3>1. Cardinality(T) < Capacity
      BY <2>1, <2>3, SizesAssumption DEF Full
    <3> HIDE DEF T
    <3>2. Cardinality(T \cup {k}) = IF k \in T THEN Cardinality(T) ELSE Cardinality(T) + 1
      BY <2>1, FS_AddElement
    <3> QED BY <2>1, <3>1, <3>2, SizesAssumption
  <2> QED BY <1>3, <2>2, <2>3
<1>6. \A j \in Keys : active[j] # 0 /\ active'[j] = 0 => Swept(k)[j] = 0
  BY <1>2, <1>3, SweptFacts
<1> QED BY <1>4, <1>5, <1>6 DEF Bounded

\* The table keeps its bound, and a step that empties a slot swept an expired session.
LEMMA BoundedStep ==
  ASSUME BaseInv, Bounded, NextLifecycle
  PROVE  /\ Bounded'
         /\ \A j \in Keys : active[j] # 0 /\ active'[j] = 0 =>
              \E k \in Keys : Swept(k)[j] = 0
<1>1. TypeOK /\ Counted
  BY DEF BaseInv
<1>2. ASSUME active' = active
      PROVE  Bounded' /\ \A j \in Keys : active[j] # 0 => active'[j] # 0
  BY <1>2 DEF Bounded, Held
<1>3. ASSUME NEW r \in Requests, NEW k \in Keys, Misses(r, k)
      PROVE  /\ Bounded'
             /\ \A j \in Keys : active[j] # 0 /\ active'[j] = 0 => Swept(k)[j] = 0
  <2>1. active' = active \/ active' = Swept(k)
    BY <1>1, <1>3, NothingCorrect DEF Misses
  <2>2. CASE active' = Swept(k)
    <3>1. Held' = {j \in Keys : Swept(k)[j] # 0}
      BY <2>2 DEF Held
    <3>2. Bounded'
      BY <1>1, <3>1, SweptIsSmaller, SizesAssumption DEF Bounded
    <3> QED BY <2>2, <3>2
  <2> QED BY <1>2, <2>1, <2>2
<1>4. ASSUME NEW r \in Requests, NEW k \in Keys, NEW q \in BOOLEAN, Enters(r, k, q)
      PROVE  /\ Bounded'
             /\ \A j \in Keys : active[j] # 0 /\ active'[j] = 0 => Swept(k)[j] = 0
  <2>1. PICK v : v = carried[r]
    OBVIOUS
  <2>2. CASE Opens(r, k, v, q)
    BY <1>1, <2>2, OpensBounded
  <2>3. CASE Joins(r, k, v, q)
    BY <1>2, <2>3 DEF Joins
  <2> QED BY <1>4, <2>1, <2>2, <2>3 DEF Enters
<1>5. /\ \A r \in Requests : Finish(r) \/ Returns(r) => active' = active
      /\ \A w \in Workers : WorkerSteps(w) => active' = active
      /\ Tick \/ Cancel \/ Drain \/ UNCHANGED vars => active' = active
  BY <1>1, WorkerCases DEF Finish, Returns, Tick, Cancel, Drain, vars
<1> QED BY <1>2, <1>3, <1>4, <1>5, StepCases

-----------------------------------------------------------------------------
(* Theorems. *)

Inv ==
  /\ BaseInv /\ OneJob /\ UsedAsSent /\ Ending /\ QueuedIsPending /\ Bounded

LEMMA InitCorrect ==
  ASSUME InitLifecycle
  PROVE  Inv
<1>1. /\ sessions = <<>> /\ queue = <<>> /\ reports = <<>> /\ Len(sessions) = 0
      /\ DOMAIN queue = {} /\ Created = {}
  BY DEF InitLifecycle, Init, Created
<1>2. TypeOK
  <2>1. /\ now \in Nat /\ sessions \in Seq(Session) /\ Len(sessions) <= MaxSessions
        /\ queue \in Seq(Nat) /\ reports \in Seq(Nat) /\ Len(reports) = Len(sessions)
    BY <1>1, SizesAssumption DEF InitLifecycle, Init
  <2>2. ended \in BOOLEAN /\ closing \in {"open", "waiting", "closed"}
    BY DEF InitLifecycle, Init
  <2>3. /\ active \in [Keys -> Nat] /\ \A k \in Keys : active[k] = 0
        /\ uses \in [Requests -> Nat] /\ \A r \in Requests : uses[r] = Unused
    BY DEF InitLifecycle, Init, Unused
  <2>4. /\ worker \in [Workers -> [at : Places, on : Nat]]
        /\ \A w \in Workers : worker[w].at = "idle"
    BY DEF InitLifecycle, Init, Idling, Places
  <2> QED BY <1>1, <2>1, <2>2, <2>3, <2>4 DEF TypeOK
<1>3. Counted /\ Sent
  BY <1>1 DEF Counted, Sent, InitLifecycle, Init
<1>4. \A w \in Workers : ~HasJob(w)
  BY DEF InitLifecycle, Init, Idling, HasJob
<1>5. OneJob /\ UsedAsSent /\ QueuedIsPending
  BY <1>1, <1>4 DEF OneJob, UsedAsSent, QueuedIsPending
<1>6. Ending
  BY DEF InitLifecycle, Init, Ending
<1>7. Bounded
  <2>1. Held = {}
    BY DEF InitLifecycle, Init, Held
  <2> QED BY <2>1, FS_EmptySet, SizesAssumption DEF Bounded
<1> QED BY <1>2, <1>3, <1>5, <1>6, <1>7 DEF Inv, BaseInv

LEMMA InvStep ==
  ASSUME Inv, [NextLifecycle]_allVars
  PROVE  Inv'
<1>1. CASE NextLifecycle
  BY <1>1, BaseStep, OneJobStep, UsedAsSentStep, EndingStep, PendingStep, BoundedStep DEF Inv
<1>2. CASE UNCHANGED allVars
  <2>1. UNCHANGED vars /\ UNCHANGED lifecycle
    BY <1>2 DEF allVars
  <2>2. BaseInv'
    BY <2>1, SameState DEF Inv, BaseInv, Sent, lifecycle
  <2>3. OneJob' /\ QueuedIsPending'
    BY <2>1, SameState DEF Inv, OneJob, HasJob, Promised, QueuedIsPending, Expired, Holding
  <2>4. UsedAsSent' /\ Ending' /\ Bounded'
    BY <2>1, SameState DEF Inv, UsedAsSent, Ending, Bounded, Held, lifecycle
  <2> QED BY <2>2, <2>3, <2>4 DEF Inv
<1> QED BY <1>1, <1>2

\* The inductive invariant holds in every reachable state of the process.
THEOREM InvAlways == SpecLifecycle => []Inv
<1>1. InitLifecycle => Inv
  BY InitCorrect
<1>2. Inv /\ [NextLifecycle]_allVars => Inv'
  BY InvStep
<1> QED BY <1>1, <1>2, PTL DEF SpecLifecycle

\* Every reference to a session is to one that exists, and the counts have their types.
THEOREM TypeCorrect == SpecLifecycle => []TypeOK
<1>1. Inv => TypeOK
  BY DEF Inv, BaseInv
<1> QED BY <1>1, InvAlways, PTL

\* A logical session is reported at most once (reportOnce), whatever the requests, the
\* queue and the workers do.
THEOREM OneReportPerSessionAlways == SpecLifecycle => []OneReportPerSession
<1>1. Inv => OneReportPerSession
  BY DEF Inv, OneJob, OneReportPerSession
<1> QED BY <1>1, InvAlways, PTL

\* A live session whose report was queued (Use) has it reported, queued or in a
\* worker's hands: eligible never drops the job of a session that is still in use.
THEOREM QueuedIsPendingAlways == SpecLifecycle => []QueuedIsPending
<1>1. Inv => QueuedIsPending
  BY DEF Inv
<1> QED BY <1>1, InvAlways, PTL

\* A request enters a session of the version the upstream saw in its headers
\* (doInference), however the tracker refreshes and the pool retries meanwhile.
THEOREM UsedAsSentAlways == SpecLifecycle => []UsedAsSent
<1>1. Inv => UsedAsSent
  BY DEF Inv
<1> QED BY <1>1, InvAlways, PTL

\* Once Close has returned, the requests Shutdown waited for are over, the workers
\* have stopped and the queue is empty (main, Reporter.Close).
THEOREM GracefulIsWholeAlways == SpecLifecycle => []GracefulIsWhole
<1>1. Inv => GracefulIsWhole
  BY DEF Inv, Ending, GracefulIsWhole
<1> QED BY <1>1, InvAlways, PTL

\* The session table keeps its bound, and a session leaves it only when it is swept:
\* unused, and idle for the whole time (Use).
THEOREM BusySessionsStayAlways == SpecLifecycle => BusySessionsStay
<1> DEFINE A == /\ Cardinality(Held') <= Capacity
                /\ \A k \in Keys : active[k] # 0 /\ active'[k] = 0 =>
                     /\ \A r \in Requests : uses[r] # active[k]
                     /\ now - sessions[active[k]].last >= Idle
<1>1. ASSUME Inv, Inv', [NextLifecycle]_allVars
      PROVE  [A]_vars
  <2>1. CASE NextLifecycle
    <3>1. Cardinality(Held') <= Capacity
      BY <1>1 DEF Inv, Bounded
    <3>2. ASSUME NEW j \in Keys, active[j] # 0, active'[j] = 0
          PROVE  /\ \A r \in Requests : uses[r] # active[j]
                 /\ now - sessions[active[j]].last >= Idle
      <4>1. PICK k \in Keys : Swept(k)[j] = 0
        BY <1>1, <2>1, <3>2, BoundedStep DEF Inv
      <4> QED BY <1>1, <3>2, <4>1, SweptAreIdle DEF Inv, BaseInv
    <3> QED BY <3>1, <3>2
  <2>2. CASE UNCHANGED allVars
    BY <2>2 DEF allVars
  <2> QED BY <1>1, <2>1, <2>2
<1> QED BY <1>1, InvAlways, PTL DEF SpecLifecycle, BusySessionsStay
=============================================================================
