-------------------------- MODULE ControllerProofs --------------------------
(***************************************************************************)
(* The tables of the controller of a process.  First the invariants of     *)
(* WorkQueue, for any number of requests, identifiers and workers, and     *)
(* whatever identifiers senders choose.  Then those of Mailbox, for any    *)
(* sets of names, processes, workers and payloads: some whatever names     *)
(* functions use, the others when messages, state and invocations have     *)
(* names of their own.                                                     *)
(***************************************************************************)
EXTENDS WorkQueue, Mailbox, FiniteSetTheorems, TLAPS

\* Marking a worker of a finite pool busy or idle changes the number of idle
\* workers by one: what submit and finish do to _idle_workers.
LEMMA IdleCount ==
  ASSUME WorkQueueAssumption, busy \in [Workers -> BOOLEAN], NEW w \in Workers
  PROVE  /\ IsFiniteSet(IdleWorkers)
         /\ Cardinality(IdleWorkers) \in 0..Cardinality(Workers)
         /\ busy[w] /\ busy' = [busy EXCEPT ![w] = FALSE]
              => Cardinality(IdleWorkers') = Cardinality(IdleWorkers) + 1
         /\ ~busy[w] /\ busy' = [busy EXCEPT ![w] = TRUE]
              => Cardinality(IdleWorkers') = Cardinality(IdleWorkers) - 1
<1>1. IdleWorkers \subseteq Workers
  BY DEF IdleWorkers
<1>2. IsFiniteSet(Workers)
  BY DEF WorkQueueAssumption
<1>3. IsFiniteSet(IdleWorkers) /\ Cardinality(IdleWorkers) \in 0..Cardinality(Workers)
  BY <1>1, <1>2, FS_Subset, FS_CardinalityType, SMT
<1>4. ASSUME busy[w], busy' = [busy EXCEPT ![w] = FALSE]
      PROVE  Cardinality(IdleWorkers') = Cardinality(IdleWorkers) + 1
  <2>1. IdleWorkers' = IdleWorkers \cup {w} /\ w \notin IdleWorkers
    BY <1>4 DEF IdleWorkers
  <2> QED
    BY <2>1, <1>3, FS_AddElement
<1>5. ASSUME ~busy[w], busy' = [busy EXCEPT ![w] = TRUE]
      PROVE  Cardinality(IdleWorkers') = Cardinality(IdleWorkers) - 1
  <2>1. IdleWorkers' = IdleWorkers \ {w} /\ w \in IdleWorkers
    BY <1>5 DEF IdleWorkers
  <2> QED
    BY <2>1, <1>3, FS_RemoveElement
<1> QED
  BY <1>3, <1>4, <1>5

\* Nothing is queued, running or asked for at the start, and all workers idle.
LEMMA InitConsistent ==
  ASSUME WorkQueueAssumption, Init
  PROVE  Consistent
<1> USE DEF Init, Absent
<1>1. IdleWorkers = Workers
  BY DEF IdleWorkers
<1>2. Cardinality(Workers) \in Nat
  BY FS_CardinalityType DEF WorkQueueAssumption
<1>3. TypeOK
  BY <1>2 DEF TypeOK, WorkQueueAssumption
<1>4. IdleExact
  BY <1>1 DEF IdleExact
<1>5. OnePlace
  BY DEF OnePlace, Pending, Active, WorkQueueAssumption
<1>6. AnsweredOnce
  BY DEF AnsweredOnce, WorkQueueAssumption
<1>7. Bookkeeping
  BY DEF Bookkeeping
<1> QED
  BY <1>3, <1>4, <1>5, <1>6, <1>7 DEF Consistent

\* An index of a list that grew by one is an old one or the last.
LEMMA IndexSplit ==
  ASSUME NEW n \in Nat, NEW i \in 1..(n + 1)
  PROVE  i \in 1..n \/ i = n + 1
OBVIOUS

\* add_payload keeps every invocation in one place: what it adds is queued, not
\* running, and carries the request as its source.
LEMMA AddPayloadPlaces ==
  ASSUME WorkQueueAssumption, Consistent, NEW r \in Requests, NEW k \in Keys,
         NEW known \in BOOLEAN, AddPayload(r, k, known), UNCHANGED running
  PROVE  /\ invocs' \in [Keys -> [source : Requests \cup {None}, active : BOOLEAN]]
         /\ queue' \in Seq(Keys)
         /\ OnePlace'
         /\ \A j \in Keys : invocs'[j] # invocs[j] =>
              j = k /\ invocs'[j].source = r /\ ~Refused(k, known)
<1> USE DEF Consistent, TypeOK, Absent
<1>1. CASE Pending(k) \/ Refused(k, known)
  <2>1. invocs' = invocs /\ queue' = queue
    BY <1>1 DEF AddPayload
  <2>2. OnePlace'
    BY <2>1 DEF OnePlace, Pending, Active
  <2> QED
    BY <2>1, <2>2
<1>2. CASE ~(Pending(k) \/ Refused(k, known))
  <2>1. invocs[k] = Absent
    BY <1>2 DEF Pending, Refused, Active
  <2>2. /\ invocs' = [invocs EXCEPT ![k] = [source |-> r, active |-> FALSE]]
        /\ queue' = Append(queue, k)
    BY <1>2 DEF AddPayload
  <2>3. r # None
    BY DEF WorkQueueAssumption
  <2>4. \A i \in 1..Len(queue) : queue[i] # k
    BY <2>1 DEF OnePlace, Pending
  <2>5. \A w \in Workers : running[w] # k
    BY <2>1 DEF OnePlace, Active
  <2>6. /\ Len(queue) \in Nat /\ Len(queue') = Len(queue) + 1
        /\ \A i \in 1..Len(queue) : queue'[i] = queue[i]
        /\ queue'[Len(queue) + 1] = k
    BY <2>2
  <2>7. \A i, j \in 1..Len(queue') : queue'[i] = queue'[j] => i = j
    <3> SUFFICES ASSUME NEW i \in 1..Len(queue'), NEW j \in 1..Len(queue'), queue'[i] = queue'[j]
                 PROVE  i = j
      OBVIOUS
    <3>1. i \in 1..Len(queue) \/ i = Len(queue) + 1
      BY <2>6, IndexSplit, Zenon
    <3>2. j \in 1..Len(queue) \/ j = Len(queue) + 1
      BY <2>6, IndexSplit, Zenon
    <3>3. \A a, b \in 1..Len(queue) : queue[a] = queue[b] => a = b
      BY DEF OnePlace
    <3>4. CASE i \in 1..Len(queue) /\ j \in 1..Len(queue)
      BY <3>3, <3>4, <2>6
    <3>5. CASE i = Len(queue) + 1 \/ j = Len(queue) + 1
      BY <3>1, <3>2, <3>5, <2>4, <2>6
    <3> QED
      BY <3>1, <3>2, <3>4, <3>5
  <2>8. \A j \in Keys : Pending(j)' <=> \E i \in 1..Len(queue') : queue'[i] = j
    <3> TAKE j \in Keys
    <3>1. CASE j = k
      BY <3>1, <2>2, <2>3, <2>6 DEF Pending
    <3>2. CASE j # k
      BY <3>2, <2>2, <2>6 DEF Pending, OnePlace
    <3> QED BY <3>1, <3>2
  <2>9. \A j \in Keys : Active(j)' <=> \E w \in Workers : running'[w] = j
    BY <2>2, <2>5 DEF Active, OnePlace
  <2>10. OnePlace'
    BY <2>7, <2>8, <2>9 DEF OnePlace
  <2>11. [source |-> r, active |-> FALSE] \in [source : Requests \cup {None}, active : BOOLEAN]
    OBVIOUS
  <2>12. invocs' \in [Keys -> [source : Requests \cup {None}, active : BOOLEAN]]
    BY <2>2, <2>11
  <2>13. queue' \in Seq(Keys)
    BY <2>2
  <2>14. \A j \in Keys : invocs'[j] # invocs[j] => j = k /\ invocs'[j].source = r
    BY <2>2
  <2> QED
    BY <1>2, <2>10, <2>12, <2>13, <2>14
<1> QED
  BY <1>1, <1>2

\* Answering the workers that wait under an identifier releases each of them and
\* counts each of their requests once.
LEMMA AnswerLocalOnce ==
  ASSUME NEW k \in Keys, NEW inv \in [Workers -> LocalReqs \cup {None}], NEW keys,
         LocalReqs \subseteq Requests, None \notin Requests,
         answers \in [Requests -> Nat],
         \A v, w \in Workers : inv[v] # None /\ inv[v] = inv[w] => v = w,
         \A w \in Workers : inv[w] # None => answers[inv[w]] = 0,
         \A q \in Requests : answers[q] <= 1,
         AnswerLocal(k, inv, keys)
  PROVE  /\ answers' \in [Requests -> Nat]
         /\ invoking' \in [Workers -> LocalReqs \cup {None}]
         /\ \A q \in Requests : answers'[q] <= 1
         /\ \A q \in Requests : answers'[q] # answers[q] =>
              q \in LocalReqs /\ \E w \in Workers : inv[w] = q
         /\ \A w \in Workers : invoking'[w] # None =>
              invoking'[w] = inv[w] /\ answers'[inv[w]] = 0
  BY DEF AnswerLocal, WaitingFor

\* An external request preserves the invariant.
LEMMA ExternalRequestPreserves ==
  ASSUME WorkQueueAssumption, Consistent, NEW r \in Requests, NEW k \in Keys,
         NEW known \in BOOLEAN, ExternalRequest(r, k, known)
  PROVE  Consistent'
<1> USE DEF WorkQueueAssumption
<1>1. /\ AddPayload(r, k, known) /\ r \notin LocalReqs /\ key[r] = None
      /\ key' = [key EXCEPT ![r] = k]
      /\ UNCHANGED <<running, busy, idle, invoking, phase>>
      /\ arrived' = Append(arrived, r) /\ started' = started
      /\ IF Refused(k, known) THEN answers' = [answers EXCEPT ![r] = @ + 1]
         ELSE answers' = answers
  BY DEF ExternalRequest, Fresh, AnswerRemote, workerVars
<1>2. /\ invocs' \in [Keys -> [source : Requests \cup {None}, active : BOOLEAN]]
      /\ queue' \in Seq(Keys)
      /\ OnePlace'
      /\ \A j \in Keys : invocs'[j] # invocs[j] =>
           j = k /\ invocs'[j].source = r /\ ~Refused(k, known)
  BY <1>1, AddPayloadPlaces
<1>3. answers[r] = 0
  BY <1>1 DEF Consistent, Bookkeeping
<1>4. \A w \in Workers : invoking[w] # None => invoking[w] # r
  BY <1>1 DEF Consistent, TypeOK
<1>5. TypeOK' /\ \A q \in Requests : answers'[q] <= 1
  <2>1. answers \in [Requests -> Nat] /\ \A q \in Requests : answers[q] <= 1
    BY DEF Consistent, TypeOK, AnsweredOnce
  <2>2. CASE Refused(k, known)
    <3>1. answers' = [answers EXCEPT ![r] = answers[r] + 1]
      BY <2>2, <1>1
    <3>2. answers' \in [Requests -> Nat] /\ \A q \in Requests : answers'[q] <= 1
      BY <2>1, <3>1, <1>3
    <3> QED
      BY <3>2, <1>1, <1>2 DEF Consistent, TypeOK
  <2>3. CASE ~Refused(k, known)
    BY <2>1, <2>3, <1>1, <1>2 DEF Consistent, TypeOK
  <2> QED BY <2>2, <2>3
<1>6. IdleExact'
  BY <1>1 DEF Consistent, IdleExact, IdleWorkers
<1>7. AnsweredOnce'
  <2>2. ASSUME NEW j \in Keys, invocs'[j] # Absent, invocs'[j].source \notin LocalReqs
        PROVE  key'[invocs'[j].source] = j /\ answers'[invocs'[j].source] = 0
    <3>1. CASE invocs'[j] # invocs[j]
      BY <3>1, <1>1, <1>2, <1>3 DEF Consistent, TypeOK
    <3>2. CASE invocs'[j] = invocs[j]
      <4>1. key[invocs[j].source] = j /\ answers[invocs[j].source] = 0
        BY <3>2, <2>2 DEF Consistent, AnsweredOnce
      <4>2. invocs[j].source \in Requests
        BY <3>2, <2>2 DEF Consistent, TypeOK, Bookkeeping
      <4> QED
        BY <3>2, <4>1, <4>2, <1>1 DEF Consistent, TypeOK
    <3> QED BY <3>1, <3>2
  <2>3. \A w \in Workers : invoking'[w] # None => answers'[invoking'[w]] = 0
    BY <1>1, <1>4 DEF Consistent, TypeOK, AnsweredOnce
  <2> QED
    BY <1>5, <2>2, <2>3 DEF AnsweredOnce, Absent
<1>8. Bookkeeping'
  BY <1>1, <1>2, <1>3, <1>4 DEF Consistent, TypeOK, Bookkeeping, Absent
<1> QED
  BY <1>2, <1>5, <1>6, <1>7, <1>8 DEF Consistent

\* A local request preserves the invariant.
LEMMA LocalRequestPreserves ==
  ASSUME WorkQueueAssumption, Consistent, NEW w \in Workers, NEW r \in Requests,
         NEW k \in Keys, NEW known \in BOOLEAN, LocalRequest(w, r, k, known)
  PROVE  Consistent'
<1> USE DEF WorkQueueAssumption
<1> DEFINE inv == [invoking EXCEPT ![w] = r]
<1>1. /\ AddPayload(r, k, known) /\ r \in LocalReqs /\ key[r] = None
      /\ running[w] # None /\ invoking[w] = None
      /\ key' = [key EXCEPT ![r] = k]
      /\ UNCHANGED <<running, busy, idle, phase>>
      /\ arrived' = Append(arrived, r) /\ started' = started
      /\ IF Refused(k, known) THEN AnswerLocal(k, inv, key')
         ELSE invoking' = inv /\ answers' = answers
  BY DEF LocalRequest, Fresh, workerVars
<1>2. /\ invocs' \in [Keys -> [source : Requests \cup {None}, active : BOOLEAN]]
      /\ queue' \in Seq(Keys)
      /\ OnePlace'
      /\ \A j \in Keys : invocs'[j] # invocs[j] =>
           j = k /\ invocs'[j].source = r /\ ~Refused(k, known)
  BY <1>1, AddPayloadPlaces
<1>3. answers[r] = 0
  BY <1>1 DEF Consistent, Bookkeeping
<1>4. \A v \in Workers : invoking[v] # r
  BY <1>1 DEF Consistent, Bookkeeping, TypeOK
<1>5. /\ inv \in [Workers -> LocalReqs \cup {None}]
      /\ \A u, v \in Workers : inv[u] # None /\ inv[u] = inv[v] => u = v
      /\ \A v \in Workers : inv[v] # None => answers[inv[v]] = 0
      /\ \A v \in Workers : inv[v] # None => v = w \/ inv[v] = invoking[v]
  BY <1>1, <1>3, <1>4 DEF Consistent, TypeOK, Bookkeeping, AnsweredOnce
<1>6. /\ answers' \in [Requests -> Nat]
      /\ invoking' \in [Workers -> LocalReqs \cup {None}]
      /\ \A q \in Requests : answers'[q] <= 1
      /\ \A q \in Requests : answers'[q] # answers[q] =>
           q \in LocalReqs /\ \E v \in Workers : inv[v] = q
      /\ \A v \in Workers : invoking'[v] # None =>
           invoking'[v] = inv[v] /\ answers'[inv[v]] = 0
  <2>0. answers \in [Requests -> Nat] /\ \A q \in Requests : answers[q] <= 1
    BY DEF Consistent, TypeOK, AnsweredOnce
  <2>1. CASE Refused(k, known)
    <3> HIDE DEF inv
    <3> QED BY <2>0, <2>1, <1>1, <1>5, AnswerLocalOnce
  <2>2. CASE ~Refused(k, known)
    BY <2>0, <2>2, <1>1, <1>5
  <2> QED BY <2>1, <2>2
<1>7. TypeOK'
  <2>1. arrived' \in Seq(Requests) /\ started' \in Seq(Requests)
    BY <1>1 DEF Consistent, TypeOK
  <2> HIDE DEF inv
  <2> QED
    BY <1>1, <1>2, <1>6, <2>1 DEF Consistent, TypeOK
<1>8. IdleExact'
  <2>1. \A v \in Workers : invoking'[v] # None => busy[v]
    <3> HIDE DEF inv
    <3> QED BY <1>1, <1>5, <1>6 DEF Consistent, IdleExact
  <2> QED
    BY <1>1, <2>1 DEF Consistent, IdleExact, IdleWorkers
<1>9. AnsweredOnce'
  <2> HIDE DEF inv
  <2>1. ASSUME NEW j \in Keys, invocs'[j] # Absent, invocs'[j].source \notin LocalReqs
        PROVE  key'[invocs'[j].source] = j /\ answers'[invocs'[j].source] = 0
    <3>1. invocs'[j] = invocs[j]
      BY <2>1, <1>1, <1>2
    <3>2. key[invocs[j].source] = j /\ answers[invocs[j].source] = 0
      BY <3>1, <2>1 DEF Consistent, AnsweredOnce
    <3>3. invocs[j].source \in Requests
      BY <3>1, <2>1 DEF Consistent, TypeOK, Bookkeeping
    <3> QED
      BY <3>1, <3>2, <3>3, <2>1, <1>1, <1>6 DEF Consistent, TypeOK
  <2> QED
    BY <1>6, <2>1 DEF AnsweredOnce, Absent
<1>10. Bookkeeping'
  <2>1. \A j \in Keys : invocs'[j] # Absent => invocs'[j].source # None
    BY <1>2 DEF Consistent, Bookkeeping, Absent
  <2>2. \A q \in Requests : key'[q] = None => answers'[q] = 0
    <3> SUFFICES ASSUME NEW q \in Requests, key'[q] = None
                 PROVE  answers'[q] = 0
      OBVIOUS
    <3>1. q # r /\ key[q] = None
      BY <1>1 DEF Consistent, TypeOK
    <3>2. \A v \in Workers : inv[v] # q
      BY <3>1 DEF Consistent, Bookkeeping, TypeOK
    <3> QED
      BY <3>1, <3>2, <1>6 DEF Consistent, Bookkeeping
  <2>3. \A v \in Workers : invoking'[v] # None => key'[invoking'[v]] # None
    BY <1>1, <1>5, <1>6 DEF Consistent, Bookkeeping, TypeOK
  <2>4. \A u, v \in Workers : invoking'[u] # None /\ invoking'[u] = invoking'[v] => u = v
    <3> HIDE DEF inv
    <3> QED BY <1>5, <1>6
  <2> QED
    BY <2>1, <2>2, <2>3, <2>4 DEF Bookkeeping, Absent
<1> QED
  BY <1>2, <1>7, <1>8, <1>9, <1>10 DEF Consistent

\* The result of a worker preserves the invariant.
LEMMA ResultPreserves ==
  ASSUME WorkQueueAssumption, Consistent, NEW w \in Workers, Result(w)
  PROVE  Consistent'
<1> USE DEF WorkQueueAssumption
<1> DEFINE k == running[w]
<1>1. /\ running[w] # None /\ invoking[w] = None
      /\ running' = [running EXCEPT ![w] = None]
      /\ FinishInvocation(k)
      /\ busy' = [busy EXCEPT ![w] = FALSE] /\ idle' = idle + 1
      /\ UNCHANGED <<queue, phase, key, arrived, started>>
  BY DEF Result, FinishWorker, orderVars
<1>2. k \in Keys /\ Active(k) /\ busy[w]
  BY <1>1 DEF Consistent, TypeOK, OnePlace, IdleExact
<1>3. invocs[k].source \in Requests
  BY <1>2 DEF Consistent, TypeOK, Bookkeeping, Active
<1>4. /\ invocs' = [invocs EXCEPT ![k] = Absent]
      /\ IF invocs[k].source \in LocalReqs THEN AnswerLocal(k, invoking, key)
         ELSE answers' = [answers EXCEPT ![invocs[k].source] = @ + 1] /\ invoking' = invoking
  BY <1>1, <1>2 DEF FinishInvocation, AnswerRemote
<1> HIDE DEF k
<1>5. /\ answers' \in [Requests -> Nat]
      /\ invoking' \in [Workers -> LocalReqs \cup {None}]
      /\ \A q \in Requests : answers'[q] <= 1
      /\ \A q \in Requests : answers'[q] # answers[q] =>
           \/ q = invocs[k].source /\ q \notin LocalReqs
           \/ q \in LocalReqs /\ \E v \in Workers : invoking[v] = q
      /\ \A v \in Workers : invoking'[v] # None =>
           invoking'[v] = invoking[v] /\ answers'[invoking[v]] = 0
  <2>0. /\ answers \in [Requests -> Nat] /\ \A q \in Requests : answers[q] <= 1
        /\ invoking \in [Workers -> LocalReqs \cup {None}]
        /\ \A v \in Workers : invoking[v] # None => answers[invoking[v]] = 0
        /\ \A u, v \in Workers : invoking[u] # None /\ invoking[u] = invoking[v] => u = v
    BY DEF Consistent, TypeOK, AnsweredOnce, Bookkeeping
  <2>1. CASE invocs[k].source \in LocalReqs
    BY <2>0, <2>1, <1>2, <1>4, AnswerLocalOnce
  <2>2. CASE invocs[k].source \notin LocalReqs
    <3>1. answers[invocs[k].source] = 0
      BY <2>2, <1>2 DEF Consistent, AnsweredOnce, Active
    <3> QED
      BY <2>0, <2>2, <3>1, <1>3, <1>4
  <2> QED BY <2>1, <2>2
<1>6. /\ invocs' \in [Keys -> [source : Requests \cup {None}, active : BOOLEAN]]
      /\ \A j \in Keys : invocs'[j] # Absent => j # k /\ invocs'[j] = invocs[j]
  BY <1>2, <1>4 DEF Consistent, TypeOK, Absent
<1>7. IdleExact' /\ idle' \in 0..Cardinality(Workers)
  <2>1. Cardinality(IdleWorkers') = Cardinality(IdleWorkers) + 1
    BY <1>1, <1>2, IdleCount DEF Consistent, TypeOK
  <2>2. busy' \in [Workers -> BOOLEAN]
    BY <1>1 DEF Consistent, TypeOK
  <2>3. Cardinality(IdleWorkers') \in 0..Cardinality(Workers)
    <3>1. IdleWorkers' \subseteq Workers
      BY DEF IdleWorkers
    <3> QED
      BY <3>1, FS_Subset, FS_CardinalityType, SMT
  <2>4. idle' = Cardinality(IdleWorkers')
    BY <1>1, <2>1 DEF Consistent, IdleExact
  <2>5. \A v \in Workers : busy'[v] <=> running'[v] # None
    BY <1>1 DEF Consistent, IdleExact, TypeOK
  <2>6. \A v \in Workers : invoking'[v] # None => busy'[v]
    BY <1>1, <1>5 DEF Consistent, IdleExact, TypeOK
  <2> QED
    BY <2>3, <2>4, <2>5, <2>6 DEF IdleExact
<1>8. TypeOK'
  BY <1>1, <1>5, <1>6, <1>7 DEF Consistent, TypeOK
<1>9. OnePlace'
  <2>1. \A u, v \in Workers : running'[u] # None /\ running'[u] = running'[v] => u = v
    BY <1>1 DEF Consistent, OnePlace, TypeOK
  <2>2. \A j \in Keys : Pending(j)' <=> \E i \in 1..Len(queue') : queue'[i] = j
    <3> TAKE j \in Keys
    <3>1. Pending(j)' <=> Pending(j)
      BY <1>2, <1>4 DEF Pending, Active, Consistent, TypeOK, Absent
    <3> QED
      BY <3>1, <1>1 DEF Consistent, OnePlace
  <2>3. \A j \in Keys : Active(j)' <=> \E v \in Workers : running'[v] = j
    <3> TAKE j \in Keys
    <3>1. Active(j)' <=> Active(j) /\ j # k
      BY <1>2, <1>4 DEF Active, Consistent, TypeOK, Absent
    <3>2. (\E v \in Workers : running'[v] = j) <=> (\E v \in Workers : running[v] = j) /\ j # k
      BY <1>1 DEF Consistent, OnePlace, TypeOK, k
    <3> QED
      BY <3>1, <3>2 DEF Consistent, OnePlace
  <2> QED
    BY <1>1, <2>1, <2>2, <2>3 DEF Consistent, OnePlace
<1>10. AnsweredOnce'
  <2>1. ASSUME NEW j \in Keys, invocs'[j] # Absent, invocs'[j].source \notin LocalReqs
        PROVE  key'[invocs'[j].source] = j /\ answers'[invocs'[j].source] = 0
    <3>1. j # k /\ invocs'[j] = invocs[j]
      BY <2>1, <1>6
    <3>2. key[invocs[j].source] = j /\ answers[invocs[j].source] = 0
      BY <3>1, <2>1 DEF Consistent, AnsweredOnce
    <3>3. invocs[j].source \in Requests
      BY <3>1, <2>1 DEF Consistent, TypeOK, Bookkeeping
    <3>4. invocs[j].source # invocs[k].source
      BY <3>1, <3>2, <2>1, <1>2 DEF Consistent, AnsweredOnce, Active
    <3> QED
      BY <3>1, <3>2, <3>3, <3>4, <2>1, <1>1, <1>5
  <2> QED
    BY <1>5, <2>1 DEF AnsweredOnce, Absent
<1>11. Bookkeeping'
  <2>1. \A q \in Requests : key'[q] = None => answers'[q] = 0
    <3> SUFFICES ASSUME NEW q \in Requests, key'[q] = None
                 PROVE  answers'[q] = 0
      OBVIOUS
    <3>1. key[q] = None /\ answers[q] = 0
      BY <1>1 DEF Consistent, Bookkeeping
    <3>2. \A v \in Workers : invoking[v] # q
      BY <3>1 DEF Consistent, Bookkeeping
    <3>3. q = invocs[k].source => q \in LocalReqs
      BY <3>1, <1>2 DEF Consistent, AnsweredOnce, Active
    <3> QED
      BY <3>1, <3>2, <3>3, <1>5
  <2> QED
    BY <2>1, <1>1, <1>5, <1>6 DEF Consistent, Bookkeeping, Absent
<1> QED
  BY <1>7, <1>8, <1>9, <1>10, <1>11 DEF Consistent

\* What the assignment of an invocation's active flag leaves of its record.
LEMMA ActiveUpdate ==
  ASSUME NEW S, NEW e \in [source : S, active : BOOLEAN]
  PROVE  /\ [e EXCEPT !.active = TRUE] \in [source : S, active : BOOLEAN]
         /\ [e EXCEPT !.active = TRUE].source = e.source
         /\ [e EXCEPT !.active = TRUE].active = TRUE
<1>1. [e EXCEPT !.active = TRUE] \in [source : S, active : BOOLEAN]
  OBVIOUS
<1>2. [e EXCEPT !.active = TRUE].source = e.source
  OBVIOUS
<1>3. [e EXCEPT !.active = TRUE].active = TRUE
  OBVIOUS
<1> QED
  BY <1>1, <1>2, <1>3

\* Handing the oldest invocation to an idle worker preserves the invariant.
LEMMA SubmitPreserves ==
  ASSUME WorkQueueAssumption, Consistent, NEW w \in Workers, Submit(w)
  PROVE  Consistent'
<1> USE DEF WorkQueueAssumption
<1> DEFINE k == Head(queue)
<1>1. /\ queue # <<>> /\ ~busy[w] /\ queue' = Tail(queue)
      /\ running' = [running EXCEPT ![w] = k]
      /\ busy' = [busy EXCEPT ![w] = TRUE]
      /\ invocs' = [invocs EXCEPT ![k].active = TRUE]
      /\ idle' = idle - 1
      /\ UNCHANGED <<invoking, phase, key, answers, arrived>>
      /\ started' = Append(started, invocs[k].source)
  BY DEF Submit, IdleWorkers
<1>2. /\ k = queue[1] /\ k \in Keys /\ queue' \in Seq(Keys)
      /\ Len(queue) \in Nat \ {0} /\ Len(queue') = Len(queue) - 1
      /\ \A i \in 1..Len(queue') : queue'[i] = queue[i + 1]
  BY <1>1 DEF Consistent, TypeOK
<1> HIDE DEF k
<1>3. Pending(k) /\ k # None
  BY <1>2 DEF Consistent, OnePlace
<1>4. running[w] = None
  BY <1>1 DEF Consistent, IdleExact
<1>5. /\ invocs' \in [Keys -> [source : Requests \cup {None}, active : BOOLEAN]]
      /\ \A j \in Keys : invocs'[j].source = invocs[j].source
      /\ \A j \in Keys : invocs'[j].active <=> invocs[j].active \/ j = k
      /\ \A j \in Keys : invocs'[j] # Absent <=> invocs[j] # Absent
  <2>1. invocs \in [Keys -> [source : Requests \cup {None}, active : BOOLEAN]]
    BY DEF Consistent, TypeOK
  <2>2. invocs' = [invocs EXCEPT ![k] = [invocs[k] EXCEPT !.active = TRUE]]
    BY <1>1
  <2>3. /\ invocs'[k] = [invocs[k] EXCEPT !.active = TRUE]
        /\ \A j \in Keys : j # k => invocs'[j] = invocs[j]
    BY <2>1, <2>2, <1>2
  <2>4. /\ invocs'[k] \in [source : Requests \cup {None}, active : BOOLEAN]
        /\ invocs'[k].source = invocs[k].source
        /\ invocs'[k].active = TRUE
    <3>1. invocs[k] \in [source : Requests \cup {None}, active : BOOLEAN]
      BY <2>1, <1>2
    <3> QED
      BY <2>3, <3>1, ActiveUpdate
  <2>5. invocs' \in [Keys -> [source : Requests \cup {None}, active : BOOLEAN]]
    BY <2>1, <2>2, <2>3, <2>4, <1>2
  <2>6. invocs'[k] # Absent
    BY <2>4 DEF Absent
  <2>7. invocs[k] # Absent
    BY <1>3 DEF Pending
  <2> QED
    BY <2>3, <2>4, <2>5, <2>6, <2>7
<1>6. IdleExact' /\ idle' \in 0..Cardinality(Workers)
  <2>1. Cardinality(IdleWorkers') = Cardinality(IdleWorkers) - 1
    BY <1>1, IdleCount DEF Consistent, TypeOK
  <2>2. Cardinality(IdleWorkers') \in 0..Cardinality(Workers)
    <3>1. IdleWorkers' \subseteq Workers
      BY DEF IdleWorkers
    <3> QED
      BY <3>1, FS_Subset, FS_CardinalityType, SMT
  <2>3. idle' = Cardinality(IdleWorkers')
    BY <1>1, <2>1 DEF Consistent, IdleExact
  <2>4. \A v \in Workers : busy'[v] <=> running'[v] # None
    BY <1>1, <1>3 DEF Consistent, IdleExact, TypeOK
  <2>5. \A v \in Workers : invoking'[v] # None => busy'[v]
    BY <1>1 DEF Consistent, IdleExact, TypeOK
  <2> QED
    BY <2>2, <2>3, <2>4, <2>5 DEF IdleExact
<1>7. TypeOK'
  <2>1. invocs[k].source \in Requests
    BY <1>2, <1>3 DEF Consistent, TypeOK, Bookkeeping, Pending
  <2>2. started' \in Seq(Requests) /\ arrived' \in Seq(Requests)
    BY <1>1, <2>1 DEF Consistent, TypeOK
  <2> QED
    BY <1>1, <1>2, <1>5, <1>6, <2>2 DEF Consistent, TypeOK
<1>8. OnePlace'
  <2>1. \A i, j \in 1..Len(queue') : queue'[i] = queue'[j] => i = j
    <3> SUFFICES ASSUME NEW i \in 1..Len(queue'), NEW j \in 1..Len(queue'), queue'[i] = queue'[j]
                 PROVE  i = j
      OBVIOUS
    <3>1. i + 1 \in 1..Len(queue) /\ j + 1 \in 1..Len(queue) /\ queue[i + 1] = queue[j + 1]
      BY <1>2
    <3>2. i + 1 = j + 1
      BY <3>1 DEF Consistent, OnePlace
    <3> QED BY <3>2
  <2>2. \A v \in Workers : running[v] # k
    BY <1>2, <1>3 DEF Consistent, OnePlace, Pending, Active
  <2>3. \A u, v \in Workers : running'[u] # None /\ running'[u] = running'[v] => u = v
    BY <1>1, <2>2 DEF Consistent, OnePlace, TypeOK
  <2>4. \A j \in Keys : Pending(j)' <=> \E i \in 1..Len(queue') : queue'[i] = j
    <3> TAKE j \in Keys
    <3>1. Pending(j)' <=> Pending(j) /\ j # k
      BY <1>5 DEF Pending, Absent
    <3>2. (\E i \in 1..Len(queue') : queue'[i] = j)
            <=> (\E i \in 1..Len(queue) : queue[i] = j) /\ j # k
      <4>1. ASSUME NEW i \in 1..Len(queue'), queue'[i] = j
            PROVE  (\E m \in 1..Len(queue) : queue[m] = j) /\ j # k
        <5>1. i + 1 \in 1..Len(queue) /\ queue[i + 1] = j /\ i + 1 # 1 /\ 1 \in 1..Len(queue)
          BY <4>1, <1>2 DEF Consistent, TypeOK
        <5> QED
          BY <5>1, <1>2 DEF Consistent, OnePlace
      <4>2. ASSUME NEW i \in 1..Len(queue), queue[i] = j, j # k
            PROVE  \E m \in 1..Len(queue') : queue'[m] = j
        <5>1. i # 1
          BY <4>2, <1>2
        <5>2. i - 1 \in 1..Len(queue') /\ queue'[i - 1] = j
          BY <4>2, <5>1, <1>2 DEF Consistent, TypeOK
        <5> QED BY <5>2
      <4> QED BY <4>1, <4>2
    <3> QED
      BY <3>1, <3>2 DEF Consistent, OnePlace
  <2>5. \A j \in Keys : Active(j)' <=> \E v \in Workers : running'[v] = j
    <3> TAKE j \in Keys
    <3>1. Active(j)' <=> Active(j) \/ j = k
      BY <1>3, <1>5 DEF Active, Pending, Absent
    <3>2. (\E v \in Workers : running'[v] = j) <=> (\E v \in Workers : running[v] = j) \/ j = k
      BY <1>1, <1>4 DEF Consistent, TypeOK
    <3> QED
      BY <3>1, <3>2 DEF Consistent, OnePlace
  <2> QED
    BY <2>1, <2>3, <2>4, <2>5 DEF OnePlace
<1>9. AnsweredOnce'
  <2>1. \A j \in Keys : invocs'[j] # Absent => invocs[j] # Absent /\ invocs'[j].source = invocs[j].source
    BY <1>3, <1>5 DEF Pending, Absent
  <2>2. UNCHANGED <<answers, key, invoking>>
    BY <1>1
  <2>3. AnsweredOnce
    BY DEF Consistent
  <2> QED
    BY <2>1, <2>2, <2>3 DEF AnsweredOnce
<1>10. Bookkeeping'
  BY <1>1, <1>5, ZenonT(60) DEF Consistent, Bookkeeping, Absent
<1> QED
  BY <1>6, <1>7, <1>8, <1>9, <1>10 DEF Consistent

\* Every step of the controller preserves the invariant.
LEMMA NextConsistent ==
  ASSUME WorkQueueAssumption, Consistent, [Next]_vars
  PROVE  Consistent'
<1>1. CASE \E r \in Requests, k \in Keys, known \in BOOLEAN : ExternalRequest(r, k, known)
  BY <1>1, ExternalRequestPreserves
<1>2. CASE \E r \in Requests, k \in Keys, known \in BOOLEAN, w \in Workers :
             LocalRequest(w, r, k, known)
  BY <1>2, LocalRequestPreserves
<1>3. CASE \E w \in Workers : Result(w)
  BY <1>3, ResultPreserves
<1>4. CASE \E w \in Workers : Submit(w)
  BY <1>4, SubmitPreserves
<1>5. CASE EventsDone \/ ScheduleDone \/ UNCHANGED vars
  <2>1. /\ UNCHANGED <<invocs, queue, running, busy, idle, invoking, key, answers>>
        /\ UNCHANGED <<arrived, started>>
        /\ phase' \in {"events", "schedule"}
    BY <1>5 DEF EventsDone, ScheduleDone, vars, workerVars, orderVars, Consistent, TypeOK
  <2> QED
    BY <2>1 DEF Consistent, TypeOK, IdleExact, IdleWorkers, OnePlace, Pending, Active,
                AnsweredOnce, Bookkeeping
<1> QED
  BY <1>1, <1>2, <1>3, <1>4, <1>5 DEF Next

\* Invocations, queue, workers and answers agree in every reachable state.
THEOREM ConsistentAlways == Spec => []Consistent
<1>1. Init => Consistent
  BY InitConsistent, WorkQueueAssumption
<1>2. Consistent /\ [Next]_vars => Consistent'
  BY NextConsistent, WorkQueueAssumption
<1> QED
  BY <1>1, <1>2, PTL DEF Spec

\* The variables of the work queue keep their types; _idle_workers never leaves
\* the range from zero to the number of workers.
THEOREM TypeCorrect == Spec => []TypeOK
<1>1. Consistent => TypeOK
  BY DEF Consistent
<1> QED
  BY <1>1, ConsistentAlways, PTL

\* has_idle_workers and _get_idle_worker always agree: submit has a worker.
THEOREM IdleExactAlways == Spec => []IdleExact
<1>1. Consistent => IdleExact
  BY DEF Consistent
<1> QED
  BY <1>1, ConsistentAlways, PTL

\* Every invocation is queued once or running on one worker, whatever
\* identifiers senders choose.
THEOREM OnePlaceAlways == Spec => []OnePlace
<1>1. Consistent => OnePlace
  BY DEF Consistent
<1> QED
  BY <1>1, ConsistentAlways, PTL

\* No request is answered twice, whatever identifiers senders choose.
THEOREM AnsweredOnceAlways == Spec => []AnsweredOnce
<1>1. Consistent => AnsweredOnce
  BY DEF Consistent
<1> QED
  BY <1>1, ConsistentAlways, PTL

-----------------------------------------------------------------------------
(* Invocations start in the order of arrival.                               *)

\* A request has arrived.
Arrived(r) == \E i \in 1..Len(arrived) : arrived[i] = r

\* The sources of the queue, in its order, arrived in that order.
QueueSorted ==
  \A i, j \in 1..Len(queue) : i < j => Before(invocs[queue[i]].source, invocs[queue[j]].source)

\* What was started arrived before everything that is in the queue.
StartedFirst ==
  \A i \in 1..Len(started), j \in 1..Len(queue) : Before(started[i], invocs[queue[j]].source)

\* What was started was started in the order of arrival.
StartedSorted == \A i, j \in 1..Len(started) : i < j => Before(started[i], started[j])

\* Nothing is in the queue or started that did not arrive.
AllArrived ==
  /\ \A i \in 1..Len(queue) : Arrived(invocs[queue[i]].source)
  /\ \A i \in 1..Len(started) : Arrived(started[i])

\* A request arrives once, so that Before is an order.
ArrivedOnce ==
  /\ \A i, j \in 1..Len(arrived) : arrived[i] = arrived[j] => i = j
  /\ \A i \in 1..Len(arrived) : key[arrived[i]] # None

\* What makes StartInOrder inductive.
OrderInv ==
  /\ Consistent /\ QueueSorted /\ StartedFirst /\ StartedSorted /\ AllArrived /\ ArrivedOnce

\* The history of arrivals only grows: what arrived before stays before, and
\* the newest request arrived after all others.
LEMMA ArrivalGrows ==
  ASSUME arrived \in Seq(Requests), NEW r \in Requests, arrived' = Append(arrived, r)
  PROVE  /\ \A p, q : Before(p, q) => Before(p, q)'
         /\ \A q : Arrived(q) => Arrived(q)' /\ Before(q, r)'
         /\ Arrived(r)'
<1>1. /\ Len(arrived) \in Nat /\ Len(arrived') = Len(arrived) + 1
      /\ \A i \in 1..Len(arrived) : arrived'[i] = arrived[i]
      /\ arrived'[Len(arrived) + 1] = r
  OBVIOUS
<1>2. ASSUME NEW p, NEW q, Before(p, q)
      PROVE  Before(p, q)'
  <2>1. PICK i, j \in 1..Len(arrived) : i < j /\ arrived[i] = p /\ arrived[j] = q
    BY <1>2 DEF Before
  <2>2. i \in 1..Len(arrived') /\ j \in 1..Len(arrived') /\ arrived'[i] = p /\ arrived'[j] = q
    BY <1>1, <2>1
  <2> QED
    BY <2>1, <2>2 DEF Before
<1>3. ASSUME NEW q, Arrived(q)
      PROVE  Arrived(q)' /\ Before(q, r)'
  <2>1. PICK i \in 1..Len(arrived) : arrived[i] = q
    BY <1>3 DEF Arrived
  <2>2. /\ i \in 1..Len(arrived') /\ arrived'[i] = q /\ i < Len(arrived')
        /\ Len(arrived') \in 1..Len(arrived') /\ arrived'[Len(arrived')] = r
    BY <1>1, <2>1
  <2> QED
    BY <2>2 DEF Arrived, Before
<1>4. Arrived(r)'
  BY <1>1 DEF Arrived
<1> QED
  BY <1>2, <1>3, <1>4

\* A request joins the queue behind all that arrived before it.
LEMMA RequestInOrder ==
  ASSUME WorkQueueAssumption, OrderInv, Consistent', NEW r \in Requests, NEW k \in Keys,
         NEW known \in BOOLEAN, AddPayload(r, k, known), key[r] = None,
         key' = [key EXCEPT ![r] = k], arrived' = Append(arrived, r), started' = started
  PROVE  OrderInv'
<1> USE DEF OrderInv
<1>0. arrived \in Seq(Requests) /\ queue \in Seq(Keys) /\ Len(queue) \in Nat /\ Len(arrived) \in Nat
  BY DEF Consistent, TypeOK
<1>1. /\ \A p, q : Before(p, q) => Before(p, q)'
      /\ \A q : Arrived(q) => Arrived(q)' /\ Before(q, r)'
      /\ Arrived(r)'
  BY <1>0, ArrivalGrows
<1>2. ArrivedOnce'
  <2>1. /\ Len(arrived') = Len(arrived) + 1
        /\ \A i \in 1..Len(arrived) : arrived'[i] = arrived[i] /\ arrived[i] \in Requests
        /\ arrived'[Len(arrived) + 1] = r
    BY <1>0
  <2>2. \A i \in 1..Len(arrived) : arrived[i] # r
    BY DEF ArrivedOnce
  <2>3. \A i \in 1..Len(arrived') : i \in 1..Len(arrived) \/ i = Len(arrived) + 1
    BY <1>0, <2>1, IndexSplit, Zenon
  <2>4. \A i, j \in 1..Len(arrived') : arrived'[i] = arrived'[j] => i = j
    BY <2>1, <2>2, <2>3 DEF ArrivedOnce
  <2>5. \A i \in 1..Len(arrived') : key'[arrived'[i]] # None
    BY <2>1, <2>2, <2>3 DEF ArrivedOnce, Consistent, TypeOK, WorkQueueAssumption
  <2> QED
    BY <2>4, <2>5 DEF ArrivedOnce
<1>3. StartedSorted'
  BY <1>1 DEF StartedSorted
<1>4. CASE Pending(k) \/ Refused(k, known)
  <2>1. invocs' = invocs /\ queue' = queue
    BY <1>4 DEF AddPayload
  <2> QED
    BY <1>1, <1>2, <1>3, <2>1 DEF QueueSorted, StartedFirst, AllArrived
<1>5. CASE ~(Pending(k) \/ Refused(k, known))
  <2>1. /\ invocs' = [invocs EXCEPT ![k] = [source |-> r, active |-> FALSE]]
        /\ queue' = Append(queue, k)
    BY <1>5 DEF AddPayload
  <2>2. ~Pending(k)
    BY <1>5
  <2>3. \A i \in 1..Len(queue) : queue[i] # k /\ queue[i] \in Keys
    BY <2>2, <1>0 DEF Consistent, OnePlace
  <2>4. /\ Len(queue') = Len(queue) + 1
        /\ \A i \in 1..Len(queue) : queue'[i] = queue[i]
        /\ queue'[Len(queue) + 1] = k
    BY <1>0, <2>1
  <2>5. /\ \A i \in 1..Len(queue) : invocs'[queue'[i]].source = invocs[queue[i]].source
        /\ invocs'[queue'[Len(queue) + 1]].source = r
    BY <2>1, <2>3, <2>4 DEF Consistent, TypeOK
  <2>6. \A i \in 1..Len(queue') : i \in 1..Len(queue) \/ i = Len(queue) + 1
    BY <1>0, <2>4, IndexSplit, Zenon
  <2>7. QueueSorted'
    <3> SUFFICES ASSUME NEW i \in 1..Len(queue'), NEW j \in 1..Len(queue'), i < j
                 PROVE  Before(invocs[queue[i]].source, invocs[queue[j]].source)'
      BY DEF QueueSorted
    <3>1. i \in 1..Len(queue) /\ (j \in 1..Len(queue) \/ j = Len(queue) + 1)
      BY <1>0, <2>4
    <3>2. CASE j \in 1..Len(queue)
      BY <3>1, <3>2, <2>5, <1>1 DEF QueueSorted
    <3>3. CASE j = Len(queue) + 1
      BY <3>1, <3>3, <2>5, <1>1 DEF AllArrived
    <3> QED
      BY <3>1, <3>2, <3>3
  <2>8. StartedFirst'
    <3> SUFFICES ASSUME NEW i \in 1..Len(started), NEW j \in 1..Len(queue')
                 PROVE  Before(started[i], invocs[queue[j]].source)'
      BY DEF StartedFirst
    <3>1. CASE j \in 1..Len(queue)
      BY <3>1, <2>5, <1>1 DEF StartedFirst
    <3>2. CASE j = Len(queue) + 1
      BY <3>2, <2>5, <1>1 DEF AllArrived
    <3> QED
      BY <3>1, <3>2, <2>6
  <2>9. AllArrived'
    BY <2>5, <2>6, <1>1 DEF AllArrived
  <2> QED
    BY <1>2, <1>3, <2>7, <2>8, <2>9
<1> QED
  BY <1>4, <1>5

\* The oldest invocation of the queue is started behind those started before.
LEMMA SubmitInOrder ==
  ASSUME WorkQueueAssumption, OrderInv, Consistent', NEW w \in Workers, Submit(w)
  PROVE  OrderInv'
<1> USE DEF OrderInv
<1> DEFINE k == Head(queue)
           s == invocs[k].source
<1>1. /\ queue # <<>> /\ queue' = Tail(queue)
      /\ invocs' = [invocs EXCEPT ![k] = [invocs[k] EXCEPT !.active = TRUE]]
      /\ started' = Append(started, s)
      /\ UNCHANGED <<key, arrived>>
  BY DEF Submit
<1>2. /\ k = queue[1] /\ k \in Keys /\ Len(queue) \in Nat \ {0}
      /\ Len(queue') = Len(queue) - 1
      /\ \A i \in 1..Len(queue') : queue'[i] = queue[i + 1] /\ queue[i + 1] \in Keys
  BY <1>1 DEF Consistent, TypeOK
<1>3. \A j \in Keys : invocs'[j].source = invocs[j].source
  <2>1. invocs \in [Keys -> [source : Requests \cup {None}, active : BOOLEAN]]
    BY DEF Consistent, TypeOK
  <2>2. [invocs[k] EXCEPT !.active = TRUE].source = invocs[k].source
    BY <1>2, <2>1, ActiveUpdate
  <2> QED
    BY <1>1, <1>2, <2>1, <2>2
<1>4. s \in Requests
  BY <1>2 DEF Consistent, TypeOK, OnePlace, Pending, Bookkeeping
<1>5. Arrived(s)
  BY <1>2 DEF AllArrived
<1>6. \A i \in 1..Len(queue') : Before(s, invocs[queue[i + 1]].source)
  BY <1>2 DEF QueueSorted
<1>7. \A i \in 1..Len(started) : Before(started[i], s)
  BY <1>2 DEF StartedFirst
<1> HIDE DEF k, s
<1>8. /\ Len(started) \in Nat /\ Len(started') = Len(started) + 1
      /\ \A i \in 1..Len(started) : started'[i] = started[i]
      /\ started'[Len(started) + 1] = s
  BY <1>1, <1>4 DEF Consistent, TypeOK
<1>9. \A i \in 1..Len(started') : i \in 1..Len(started) \/ i = Len(started) + 1
  BY <1>8, IndexSplit, Zenon
<1>10. /\ \A p, q : Before(p, q)' <=> Before(p, q)
       /\ \A q : Arrived(q)' <=> Arrived(q)
  BY <1>1 DEF Before, Arrived
<1>11. \A i \in 1..Len(queue') : /\ invocs'[queue'[i]].source = invocs[queue[i + 1]].source
                                 /\ i + 1 \in 1..Len(queue)
  BY <1>2, <1>3
<1>12. QueueSorted'
  <2> SUFFICES ASSUME NEW i \in 1..Len(queue'), NEW j \in 1..Len(queue'), i < j
               PROVE  Before(invocs[queue[i + 1]].source, invocs[queue[j + 1]].source)
    BY <1>10, <1>11 DEF QueueSorted
  <2>1. i + 1 < j + 1 /\ i + 1 \in 1..Len(queue) /\ j + 1 \in 1..Len(queue)
    BY <1>2
  <2> QED
    BY <2>1 DEF QueueSorted
<1>13. StartedFirst'
  <2> SUFFICES ASSUME NEW i \in 1..Len(started'), NEW j \in 1..Len(queue')
               PROVE  Before(started'[i], invocs[queue[j + 1]].source)
    BY <1>10, <1>11 DEF StartedFirst
  <2>1. CASE i \in 1..Len(started)
    BY <2>1, <1>8, <1>11 DEF StartedFirst
  <2>2. CASE i = Len(started) + 1
    BY <2>2, <1>8, <1>6
  <2> QED
    BY <2>1, <2>2, <1>9
<1>14. StartedSorted'
  <2> SUFFICES ASSUME NEW i \in 1..Len(started'), NEW j \in 1..Len(started'), i < j
               PROVE  Before(started'[i], started'[j])
    BY <1>10 DEF StartedSorted
  <2>1. i \in 1..Len(started) /\ (j \in 1..Len(started) \/ j = Len(started) + 1)
    BY <1>8
  <2>2. CASE j \in 1..Len(started)
    BY <2>1, <2>2, <1>8 DEF StartedSorted
  <2>3. CASE j = Len(started) + 1
    BY <2>1, <2>3, <1>7, <1>8
  <2> QED
    BY <2>1, <2>2, <2>3
<1>15. AllArrived'
  <2>1. \A i \in 1..Len(queue') : Arrived(invocs[queue[i + 1]].source)
    BY <1>11 DEF AllArrived
  <2>2. \A i \in 1..Len(started') : Arrived(started'[i])
    BY <1>5, <1>8, <1>9 DEF AllArrived
  <2> QED
    BY <2>1, <2>2, <1>10, <1>11 DEF AllArrived
<1>16. ArrivedOnce'
  BY <1>1 DEF ArrivedOnce
<1> QED
  BY <1>12, <1>13, <1>14, <1>15, <1>16

\* Every step of the controller keeps the order of arrival.
LEMMA NextInOrder ==
  ASSUME WorkQueueAssumption, OrderInv, [Next]_vars
  PROVE  OrderInv'
<1>0. Consistent'
  BY NextConsistent DEF OrderInv
<1>1. ASSUME NEW r \in Requests, NEW k \in Keys, NEW known \in BOOLEAN,
             ExternalRequest(r, k, known) \/ \E w \in Workers : LocalRequest(w, r, k, known)
      PROVE  OrderInv'
  <2>1. /\ AddPayload(r, k, known) /\ key[r] = None /\ key' = [key EXCEPT ![r] = k]
        /\ arrived' = Append(arrived, r) /\ started' = started
    BY <1>1 DEF ExternalRequest, LocalRequest, Fresh
  <2> QED
    BY <1>0, <2>1, RequestInOrder
<1>2. ASSUME NEW w \in Workers, Result(w)
      PROVE  OrderInv'
  <2>1. PICK k : k = running[w]
    OBVIOUS
  <2>2. k \in Keys /\ Active(k) /\ UNCHANGED <<queue, key, arrived, started>>
    BY <1>2, <2>1 DEF OrderInv, Consistent, TypeOK, OnePlace, Result, orderVars
  <2>3. invocs' = [invocs EXCEPT ![k] = Absent]
    BY <1>2, <2>1, <2>2 DEF Result, FinishInvocation
  <2>4. \A i \in 1..Len(queue) : queue[i] \in Keys /\ queue[i] # k
    BY <2>2 DEF OrderInv, Consistent, TypeOK, OnePlace, Pending, Active
  <2>5. \A i \in 1..Len(queue) : invocs'[queue[i]] = invocs[queue[i]]
    BY <2>2, <2>3, <2>4 DEF OrderInv, Consistent, TypeOK
  <2>6. (\A p, q : Before(p, q)' <=> Before(p, q)) /\ \A q : Arrived(q)' <=> Arrived(q)
    BY <2>2 DEF Before, Arrived
  <2> QED
    BY <1>0, <2>2, <2>5, <2>6 DEF OrderInv, QueueSorted, StartedFirst, StartedSorted, AllArrived, ArrivedOnce
<1>3. ASSUME NEW w \in Workers, Submit(w)
      PROVE  OrderInv'
  BY <1>0, <1>3, SubmitInOrder
<1>4. CASE EventsDone \/ ScheduleDone \/ UNCHANGED vars
  <2>1. UNCHANGED <<invocs, queue, key, arrived, started>>
    BY <1>4 DEF EventsDone, ScheduleDone, vars, orderVars
  <2>2. (\A p, q : Before(p, q)' <=> Before(p, q)) /\ \A q : Arrived(q)' <=> Arrived(q)
    BY <2>1 DEF Before, Arrived
  <2> QED
    BY <1>0, <2>1, <2>2 DEF OrderInv, QueueSorted, StartedFirst, StartedSorted, AllArrived, ArrivedOnce
<1> QED
  BY <1>1, <1>2, <1>3, <1>4 DEF Next

\* No invocation overtakes one whose request arrived earlier, for any number of
\* requests, identifiers and workers and whatever identifiers senders choose.
THEOREM StartInOrderAlways == Spec => []StartInOrder
<1>1. Init => OrderInv
  <2>1. Init => Consistent
    BY InitConsistent, WorkQueueAssumption
  <2>2. ASSUME Init
        PROVE  QueueSorted /\ StartedFirst /\ StartedSorted /\ AllArrived /\ ArrivedOnce
    <3>1. queue = <<>> /\ started = <<>> /\ arrived = <<>>
      BY <2>2 DEF Init
    <3> QED
      BY <3>1 DEF QueueSorted, StartedFirst, StartedSorted, AllArrived, ArrivedOnce
  <2> QED
    BY <2>1, <2>2 DEF OrderInv
<1>2. OrderInv /\ [Next]_vars => OrderInv'
  BY NextInOrder, WorkQueueAssumption
<1>3. OrderInv => StartInOrder
  <2> SUFFICES ASSUME OrderInv
               PROVE  StartInOrder
    OBVIOUS
  <2>1. ASSUME NEW i \in 1..Len(started), NEW k \in Keys, Pending(k)
        PROVE  Before(started[i], invocs[k].source)
    <3>1. PICK j \in 1..Len(queue) : queue[j] = k
      BY <2>1 DEF OrderInv, Consistent, OnePlace
    <3> QED
      BY <3>1 DEF OrderInv, StartedFirst
  <2> QED
    BY <2>1 DEF OrderInv, StartedSorted, StartInOrder
<1> QED
  BY <1>1, <1>2, <1>3, PTL DEF Spec

-----------------------------------------------------------------------------
(* The worker that asked for an invocation is still on the list.            *)

\* The source of an invocation asked for it under the invocation's identifier:
\* answering the workers of another identifier does not release this one.
Caller == \A k \in Keys : invocs[k] # Absent => key[invocs[k].source] = k

\* What makes CallerStillWaits inductive.
CallerInv == Consistent /\ Caller /\ CallerStillWaits

\* The history of a request that arrives under identifier k.
Asked(r, k) == key[r] = None /\ key' = [key EXCEPT ![r] = k]

\* A request leaves the identifiers of the invocations that are there as they
\* are, and what add_payload adds carries the identifier of its request.
LEMMA RequestKeepsCaller ==
  ASSUME WorkQueueAssumption, CallerInv, NEW r \in Requests, NEW k \in Keys,
         NEW known \in BOOLEAN, AddPayload(r, k, known), UNCHANGED running,
         Asked(r, k)
  PROVE  /\ Caller'
         /\ \A j \in Keys : invocs'[j] # invocs[j] =>
              j = k /\ invocs'[j].source = r /\ ~Refused(k, known)
<1>1. \A j \in Keys : invocs'[j] # invocs[j] =>
        j = k /\ invocs'[j].source = r /\ ~Refused(k, known)
  BY AddPayloadPlaces DEF CallerInv
<1>2. ASSUME NEW j \in Keys, invocs'[j] # Absent
      PROVE  key'[invocs'[j].source] = j
  <2>1. CASE invocs'[j] # invocs[j]
    BY <2>1, <1>1 DEF Asked, CallerInv, Consistent, TypeOK
  <2>2. CASE invocs'[j] = invocs[j]
    <3>1. key[invocs[j].source] = j /\ invocs[j].source \in Requests
      BY <1>2, <2>2 DEF CallerInv, Caller, Consistent, TypeOK, Bookkeeping
    <3>2. invocs[j].source # r
      BY <3>1 DEF Asked, WorkQueueAssumption
    <3> QED
      BY <2>2, <3>1, <3>2 DEF Asked, CallerInv, Consistent, TypeOK
  <2> QED
    BY <2>1, <2>2
<1> QED
  BY <1>1, <1>2 DEF Caller, Absent

\* A local source of an invocation is the request of a worker, and was asked
\* under the invocation's identifier.
LEMMA WaitsUnder ==
  ASSUME WorkQueueAssumption, CallerInv, NEW j \in Keys \ SharedKeys,
         invocs[j].source \in LocalReqs
  PROVE  \E v \in Workers : /\ invoking[v] = invocs[j].source /\ invoking[v] # None
                            /\ key[invoking[v]] = j
<1>1. invocs[j] # Absent /\ invocs[j].source # None
  BY DEF Absent, WorkQueueAssumption
<1>2. PICK v \in Workers : invoking[v] = invocs[j].source
  BY DEF CallerInv, CallerStillWaits, Waits
<1> QED
  BY <1>1, <1>2 DEF CallerInv, Caller

\* The invariant holds as long as the controller runs.
LEMMA NextCaller ==
  ASSUME WorkQueueAssumption, CallerInv, [Next]_vars
  PROVE  CallerInv'
<1>0. Consistent'
  BY NextConsistent DEF CallerInv
<1>1. ASSUME NEW r \in Requests, NEW k \in Keys, NEW known \in BOOLEAN,
             ExternalRequest(r, k, known)
      PROVE  Caller' /\ CallerStillWaits'
  <2>1. /\ AddPayload(r, k, known) /\ r \notin LocalReqs /\ key[r] = None
        /\ key' = [key EXCEPT ![r] = k] /\ UNCHANGED <<running, invoking>>
    BY <1>1 DEF ExternalRequest, Fresh, workerVars
  <2>2. /\ Caller'
        /\ \A j \in Keys : invocs'[j] # invocs[j] => invocs'[j].source = r
    <3>1. AddPayload(r, k, known) /\ UNCHANGED running /\ Asked(r, k)
      BY <2>1 DEF Asked
    <3> QED
      BY <3>1, RequestKeepsCaller
  <2>3. CallerStillWaits'
    BY <2>1, <2>2 DEF CallerInv, CallerStillWaits, Waits
  <2> QED
    BY <2>2, <2>3
<1>2. ASSUME NEW w \in Workers, NEW r \in Requests, NEW k \in Keys, NEW known \in BOOLEAN,
             LocalRequest(w, r, k, known)
      PROVE  Caller' /\ CallerStillWaits'
  <2> DEFINE inv == [invoking EXCEPT ![w] = r]
  <2>1. /\ AddPayload(r, k, known) /\ r \in LocalReqs /\ invoking[w] = None
        /\ Fresh(r, k) /\ key[r] = None
        /\ key' = [key EXCEPT ![r] = k] /\ UNCHANGED running
        /\ IF Refused(k, known) THEN AnswerLocal(k, inv, key') ELSE invoking' = inv
    BY <1>2 DEF LocalRequest, Fresh, workerVars
  <2>2. /\ Caller'
        /\ \A j \in Keys : invocs'[j] # invocs[j] =>
             j = k /\ invocs'[j].source = r /\ ~Refused(k, known)
    <3>1. AddPayload(r, k, known) /\ UNCHANGED running /\ Asked(r, k)
      BY <2>1 DEF Asked
    <3> QED
      BY <3>1, RequestKeepsCaller
  <2>3. ASSUME NEW j \in Keys \ SharedKeys, invocs'[j].source \in LocalReqs
        PROVE  \E v \in Workers : invoking'[v] = invocs'[j].source
    <3>1. CASE invocs'[j] # invocs[j]
      BY <3>1, <2>1, <2>2 DEF CallerInv, Consistent, TypeOK
    <3>2. CASE invocs'[j] = invocs[j]
      <4>1. PICK v \in Workers : /\ invoking[v] = invocs[j].source /\ invoking[v] # None
                                 /\ key[invoking[v]] = j
        BY <3>2, <2>3, WaitsUnder
      <4>2. j # k
        BY <2>1, <3>2, <2>3 DEF Fresh, Absent, WorkQueueAssumption
      <4>3. inv[v] = invoking[v]
        BY <4>1, <2>1 DEF CallerInv, Consistent, TypeOK
      <4>4. key'[inv[v]] = j
        BY <4>1, <4>3, <2>1 DEF CallerInv, Consistent, TypeOK, WorkQueueAssumption
      <4>5. invoking'[v] = inv[v]
        <5> HIDE DEF inv
        <5>1. inv[v] # None /\ key'[inv[v]] # k
          BY <4>1, <4>2, <4>3, <4>4
        <5>2. CASE Refused(k, known)
          <6>1. AnswerLocal(k, inv, key')
            BY <2>1, <5>2
          <6> QED
            BY <6>1, <5>1 DEF AnswerLocal, WaitingFor
        <5>3. CASE ~Refused(k, known)
          BY <2>1, <5>3
        <5> QED
          BY <5>2, <5>3
      <4> QED
        BY <3>2, <4>1, <4>3, <4>5
    <3> QED
      BY <3>1, <3>2
  <2>4. CallerStillWaits'
    BY <2>3 DEF CallerStillWaits, Waits
  <2> QED
    BY <2>2, <2>4
<1>3. ASSUME NEW w \in Workers, Result(w)
      PROVE  Caller' /\ CallerStillWaits'
  <2>1. PICK k : k = running[w]
    OBVIOUS
  <2>2. k \in Keys /\ Active(k) /\ key' = key
    BY <1>3, <2>1 DEF CallerInv, Consistent, TypeOK, OnePlace, Result
  <2>3. /\ invocs' = [invocs EXCEPT ![k] = Absent]
        /\ AnswerLocal(k, invoking, key) \/ invoking' = invoking
    BY <1>3, <2>1, <2>2 DEF Result, FinishInvocation
  <2>4. \A j \in Keys : invocs'[j] = Absent \/ (j # k /\ invocs'[j] = invocs[j])
    BY <2>2, <2>3 DEF CallerInv, Consistent, TypeOK
  <2>5. Caller'
    BY <2>2, <2>4 DEF CallerInv, Caller, Absent
  <2>6. ASSUME NEW j \in Keys \ SharedKeys, invocs'[j].source \in LocalReqs
        PROVE  \E v \in Workers : invoking'[v] = invocs'[j].source
    <3>1. j # k /\ invocs'[j] = invocs[j]
      BY <2>4, <2>6 DEF Absent, WorkQueueAssumption
    <3>2. PICK v \in Workers : /\ invoking[v] = invocs[j].source /\ invoking[v] # None
                               /\ key[invoking[v]] = j
      BY <3>1, <2>6, WaitsUnder
    <3>3. invoking'[v] = invoking[v]
      BY <2>3, <3>1, <3>2 DEF AnswerLocal, WaitingFor
    <3> QED
      BY <3>1, <3>2, <3>3
  <2>7. CallerStillWaits'
    BY <2>6 DEF CallerStillWaits, Waits
  <2> QED
    BY <2>5, <2>7
<1>4. ASSUME NEW w \in Workers, Submit(w)
      PROVE  Caller' /\ CallerStillWaits'
  <2>1. PICK k : k = Head(queue)
    OBVIOUS
  <2>2. k \in Keys /\ Pending(k)
    <3>1. queue # <<>> /\ queue \in Seq(Keys)
      BY <1>4 DEF Submit, CallerInv, Consistent, TypeOK
    <3>2. k = queue[1] /\ 1 \in 1..Len(queue) /\ k \in Keys
      BY <2>1, <3>1
    <3> QED
      BY <3>2 DEF CallerInv, Consistent, OnePlace
  <2>3. /\ invocs' = [invocs EXCEPT ![k] = [invocs[k] EXCEPT !.active = TRUE]]
        /\ UNCHANGED <<key, invoking>>
    BY <1>4, <2>1 DEF Submit
  <2>4. invocs \in [Keys -> [source : Requests \cup {None}, active : BOOLEAN]]
    BY DEF CallerInv, Consistent, TypeOK
  <2>5. [invocs[k] EXCEPT !.active = TRUE].source = invocs[k].source
    BY <2>2, <2>4, ActiveUpdate
  <2>6. \A j \in Keys : /\ invocs'[j].source = invocs[j].source
                        /\ invocs'[j] # Absent => invocs[j] # Absent
    BY <2>2, <2>3, <2>4, <2>5 DEF Pending
  <2>7. Caller'
    BY <2>3, <2>6 DEF CallerInv, Caller, Absent
  <2>8. CallerStillWaits'
    BY <2>3, <2>6 DEF CallerInv, CallerStillWaits, Waits
  <2> QED
    BY <2>7, <2>8
<1>5. CASE EventsDone \/ ScheduleDone \/ UNCHANGED vars
  <2>1. UNCHANGED <<invocs, invoking, key>>
    BY <1>5 DEF EventsDone, ScheduleDone, vars
  <2> QED
    BY <2>1, <1>0 DEF CallerInv, Caller, CallerStillWaits, Waits
<1> QED
  BY <1>0, <1>1, <1>2, <1>3, <1>4, <1>5 DEF Next, CallerInv

\* As long as an invocation that a function asked for is queued or running, its
\* worker is found by find_invocation, for every identifier that senders keep
\* apart and whatever they do with the others.
THEOREM CallerStillWaitsAlways == Spec => []CallerStillWaits
<1>1. Init => CallerInv
  <2>1. Init => Consistent
    BY InitConsistent, WorkQueueAssumption
  <2>2. Init => Caller /\ CallerStillWaits
    BY WorkQueueAssumption DEF Init, Caller, CallerStillWaits, Waits, Absent, WorkQueueAssumption
  <2> QED
    BY <2>1, <2>2 DEF CallerInv
<1>2. CallerInv /\ [Next]_vars => CallerInv'
  BY NextCaller, WorkQueueAssumption
<1>3. CallerInv => CallerStillWaits
  BY DEF CallerInv
<1> QED
  BY <1>1, <1>2, <1>3, PTL DEF Spec

-----------------------------------------------------------------------------
(* The mailbox.                                                             *)


\* The three kinds of table entries are told apart by their source.
LEMMA EntryKinds ==
  ASSUME MailboxAssumption
  PROVE  /\ Empty # StateEntry /\ Empty \notin Stored /\ StateEntry \notin Stored
         /\ Empty.data \notin Payloads /\ StateEntry.data \notin Payloads
         /\ Empty.source = None /\ StateEntry.source = Local
         /\ \A e \in Stored : e.data \in Payloads /\ e.source \in Sources
         /\ \A s \in Sources, m \in Payloads :
              /\ [source |-> s, data |-> m] \in Stored
              /\ [source |-> s, data |-> m].source = s
              /\ [source |-> s, data |-> m].data = m
<1> USE DEF MailboxAssumption
<1>1. /\ Empty.source = None /\ StateEntry.source = Local
      /\ Empty.data = None /\ StateEntry.data = None
  BY DEF Empty, StateEntry
<1>2. \A e \in Stored : e.data \in Payloads /\ e.source \in Sources
  BY DEF Stored
<1>3. \A s \in Sources, m \in Payloads :
        /\ [source |-> s, data |-> m] \in Stored
        /\ [source |-> s, data |-> m].source = s
        /\ [source |-> s, data |-> m].data = m
  BY DEF Stored
<1> QED
  BY <1>1, <1>2, <1>3

\* What a table entry can be.
LEMMA Entries ==
  ASSUME MailboxTypeOK, NEW k \in Names
  PROVE  msgs[k] \in Stored \/ msgs[k] = StateEntry \/ msgs[k] = Empty
  BY DEF MailboxTypeOK

-----------------------------------------------------------------------------
(* Whatever names functions use.                                            *)

\* A message that arrives is matched, stored or dropped.
LEMMA PutMessageSafe ==
  ASSUME MailboxAssumption, Safe, NEW k \in MsgNames, NEW src \in Sources,
         NEW m \in Payloads, PutMessage(k, src, m)
  PROVE  Safe'
<1> DEFINE new == [source |-> src, data |-> m]
<1>0. k \in Names
  BY DEF Names
<1>1. put' = put \cup {m} /\ stateKeys' = stateKeys /\ fault' = fault
  BY DEF PutMessage
<1>2. new \in Stored /\ new.source = src /\ new.data = m
  BY EntryKinds
<1> HIDE DEF new
<1>3. CASE \E e \in FindGet(k, src) :
             /\ waiting' = waiting \ {e}
             /\ delivered' = delivered \cup {<<m, e.worker>>}
             /\ UNCHANGED <<msgs, dropped>>
  <2>1. PICK e \in FindGet(k, src) :
             /\ waiting' = waiting \ {e}
             /\ delivered' = delivered \cup {<<m, e.worker>>}
             /\ UNCHANGED <<msgs, dropped>>
    BY <1>3
  <2>2. e.worker \in Workers
    BY DEF FindGet, Safe, MailboxTypeOK, Waiter
  <2>3. MailboxTypeOK'
    BY <1>1, <2>1, <2>2 DEF Safe, MailboxTypeOK
  <2>4. StoredWasPut' /\ NoMissedMatch'
    BY <1>1, <2>1 DEF Safe, StoredWasPut, NoMissedMatch
  <2> QED
    BY <2>3, <2>4 DEF Safe
<1>4. CASE /\ FindGet(k, src) = {} /\ msgs[k] = Empty
           /\ msgs' = [msgs EXCEPT ![k] = new]
           /\ UNCHANGED <<dropped, waiting, delivered>>
  <2>1. MailboxTypeOK'
    BY <1>0, <1>1, <1>2, <1>4 DEF Safe, MailboxTypeOK
  <2>2. msgs'[k] = new /\ \A j \in Names : j # k => msgs'[j] = msgs[j]
    BY <1>0, <1>4 DEF Safe, MailboxTypeOK
  <2>3. StoredWasPut'
    BY <1>1, <1>2, <2>2 DEF Safe, StoredWasPut
  <2>4. ASSUME NEW e \in waiting, e.type = "GET", msgs'[e.key] \in Stored
        PROVE  e.source \notin {AnyProcess, msgs'[e.key].source}
    <3>1. e.key \in Names
      BY DEF Safe, MailboxTypeOK, Waiter
    <3>2. CASE e.key = k
      BY <1>2, <1>4, <2>2, <2>4, <3>2 DEF FindGet
    <3>3. CASE e.key # k
      BY <2>2, <2>4, <3>1, <3>3 DEF Safe, NoMissedMatch
    <3> QED BY <3>2, <3>3
  <2>5. NoMissedMatch'
    BY <1>4, <2>4 DEF NoMissedMatch
  <2> QED
    BY <2>1, <2>3, <2>5 DEF Safe
<1>5. CASE /\ dropped' = dropped \cup {m}
           /\ UNCHANGED <<msgs, waiting, delivered>>
  <2>1. MailboxTypeOK'
    BY <1>1, <1>5 DEF Safe, MailboxTypeOK
  <2> QED
    BY <2>1, <1>1, <1>5 DEF Safe, StoredWasPut, NoMissedMatch
<1> QED
  BY <1>3, <1>4, <1>5 DEF PutMessage, new

\* A request is answered from the store or put on the list.
LEMMA GetMessageSafe ==
  ASSUME MailboxAssumption, Safe, NEW w \in Workers, NEW k \in MsgNames,
         NEW src \in Sources \cup {AnyProcess}, GetMessage(w, k, src)
  PROVE  Safe'
<1>0. k \in Names
  BY DEF Names
<1>1. UNCHANGED <<stateKeys, put, dropped, fault>>
  BY DEF GetMessage
<1>2. CASE TryGet(k, src)
  <2>1. /\ msgs' = [msgs EXCEPT ![k] = Empty]
        /\ delivered' = IF msgs[k] = StateEntry THEN delivered
                        ELSE delivered \cup {<<msgs[k].data, w>>}
        /\ waiting' = waiting
    BY <1>2 DEF GetMessage
  <2>2. msgs[k] # StateEntry => msgs[k] \in Stored /\ msgs[k].data \in put
    BY <1>0, <1>2, Entries DEF TryGet, Safe, StoredWasPut
  <2>3. msgs'[k] = Empty /\ \A j \in Names : j # k => msgs'[j] = msgs[j]
    BY <1>0, <2>1 DEF Safe, MailboxTypeOK
  <2>4. delivered' \subseteq put' \X Workers
    BY <1>1, <2>1, <2>2 DEF Safe, MailboxTypeOK
  <2>5. MailboxTypeOK'
    BY <1>0, <1>1, <2>1, <2>4 DEF Safe, MailboxTypeOK
  <2>6. Empty \notin Stored
    BY EntryKinds
  <2>7. StoredWasPut'
    BY <1>1, <2>3, <2>6 DEF Safe, StoredWasPut
  <2>8. \A e \in waiting : e.key \in Names
    BY DEF Safe, MailboxTypeOK, Waiter
  <2>9. NoMissedMatch'
    BY <2>1, <2>3, <2>6, <2>8 DEF Safe, NoMissedMatch
  <2> QED
    BY <2>5, <2>7, <2>9 DEF Safe
<1>3. CASE ~TryGet(k, src)
  <2> DEFINE e == [key |-> k, type |-> "GET", source |-> src, worker |-> w]
  <2>1. waiting' = waiting \cup {e} /\ msgs' = msgs /\ delivered' = delivered
    BY <1>3 DEF GetMessage
  <2>2. e \in Waiter
    BY <1>0 DEF Waiter
  <2>3. MailboxTypeOK'
    BY <1>1, <2>1, <2>2 DEF Safe, MailboxTypeOK
  <2>4. msgs[k] \in Stored => src \notin {AnyProcess, msgs[k].source}
    BY <1>3, EntryKinds DEF TryGet
  <2>5. NoMissedMatch'
    BY <2>1, <2>4 DEF Safe, NoMissedMatch
  <2>6. StoredWasPut'
    BY <1>1, <2>1 DEF Safe, StoredWasPut
  <2> QED
    BY <2>3, <2>5, <2>6 DEF Safe
<1> QED
  BY <1>2, <1>3

\* State replaces whatever has its name; nothing a worker waits for appears.
LEMMA WriteStateSafe ==
  ASSUME MailboxAssumption, Safe, NEW k \in StateNames, WriteState(k)
  PROVE  Safe'
<1>0. k \in Names
  BY DEF Names
<1>1. /\ msgs' = [msgs EXCEPT ![k] = StateEntry]
      /\ UNCHANGED <<waiting, put, dropped, delivered>>
  BY DEF WriteState
<1>2. stateKeys' \in Seq(Names) /\ fault' \in BOOLEAN
  <2>1. CASE msgs[k] = Empty
    BY <2>1, <1>0 DEF WriteState, Safe, MailboxTypeOK
  <2>2. CASE msgs[k] # Empty
    BY <2>2 DEF WriteState, Safe, MailboxTypeOK
  <2> QED BY <2>1, <2>2
<1>3. msgs'[k] = StateEntry /\ \A j \in Names : j # k => msgs'[j] = msgs[j]
  BY <1>0, <1>1 DEF Safe, MailboxTypeOK
<1>4. MailboxTypeOK'
  BY <1>0, <1>1, <1>2 DEF Safe, MailboxTypeOK
<1>5. StateEntry \notin Stored
  BY EntryKinds
<1>6. StoredWasPut'
  BY <1>1, <1>3, <1>5 DEF Safe, StoredWasPut
<1>7. \A e \in waiting : e.key \in Names
  BY DEF Safe, MailboxTypeOK, Waiter
<1>8. NoMissedMatch'
  BY <1>1, <1>3, <1>5, <1>7 DEF Safe, NoMissedMatch
<1> QED
  BY <1>4, <1>6, <1>8 DEF Safe

\* Invocations only touch the list of waiting workers.
LEMMA InvocationSafe ==
  ASSUME Safe, NEW k \in InvIds,
         \/ \E w \in Workers : InvokeFunction(w, k)
         \/ InvocationResult(k)
  PROVE  Safe'
<1>0. k \in Names
  BY DEF Names
<1>1. UNCHANGED <<msgs, stateKeys, put, dropped, delivered, fault>>
  BY DEF InvokeFunction, InvocationResult
<1>2. waiting' \subseteq Waiter /\ \A e \in waiting' : e.type = "GET" => e \in waiting
  <2>1. ASSUME NEW w \in Workers, InvokeFunction(w, k)
        PROVE  waiting' \subseteq Waiter /\ \A e \in waiting' : e.type = "GET" => e \in waiting
    <3> DEFINE new == [key |-> k, type |-> "INVOCATION", source |-> Local, worker |-> w]
    <3>1. new \in Waiter /\ new.type # "GET"
      BY <1>0 DEF Waiter
    <3>2. waiting' = waiting \cup {new}
      BY <2>1 DEF InvokeFunction
    <3> QED
      BY <3>1, <3>2 DEF Safe, MailboxTypeOK
  <2>2. ASSUME InvocationResult(k)
        PROVE  waiting' \subseteq Waiter /\ \A e \in waiting' : e.type = "GET" => e \in waiting
    BY <2>2 DEF InvocationResult, Safe, MailboxTypeOK
  <2> QED BY <2>1, <2>2
<1>3. MailboxTypeOK'
  BY <1>1, <1>2 DEF Safe, MailboxTypeOK
<1>4. StoredWasPut' /\ NoMissedMatch'
  BY <1>1, <1>2 DEF Safe, StoredWasPut, NoMissedMatch
<1> QED
  BY <1>3, <1>4 DEF Safe

\* The part of the invariant that needs nothing of the names.
LEMMA SafeInductive ==
  ASSUME MailboxAssumption
  PROVE  (MailboxInit => Safe) /\ (Safe /\ [MailboxNext]_mailboxVars => Safe')
<1>1. ASSUME MailboxInit
      PROVE  Safe
  <2>1. MailboxTypeOK
    <3>0. stateKeys = <<>> /\ <<>> \in Seq(Names)
      <4>1. stateKeys = <<>>
        BY <1>1 DEF MailboxInit
      <4>2. <<>> \in Seq(Names)
        OBVIOUS
      <4> QED BY <4>1, <4>2
    <3>1. stateKeys \in Seq(Names) /\ fault \in BOOLEAN
      BY <1>1, <3>0, Zenon DEF MailboxInit
    <3>2. msgs \in [Names -> Stored \cup {StateEntry, Empty}]
      BY <1>1, Zenon DEF MailboxInit
    <3> QED
      BY <1>1, <3>1, <3>2, Zenon DEF MailboxInit, MailboxTypeOK
  <2>2. \A k \in Names : msgs[k] \notin Stored
    BY <1>1, EntryKinds DEF MailboxInit
  <2> QED
    BY <1>1, <2>1, <2>2 DEF MailboxInit, Safe, StoredWasPut, NoMissedMatch
<1>2. ASSUME Safe, MailboxNext
      PROVE  Safe'
  BY <1>2, PutMessageSafe, GetMessageSafe, WriteStateSafe, InvocationSafe DEF MailboxNext
<1>3. ASSUME Safe, UNCHANGED mailboxVars
      PROVE  Safe'
  BY <1>3 DEF mailboxVars, Safe, MailboxTypeOK, StoredWasPut, NoMissedMatch
<1> QED
  BY <1>1, <1>2, <1>3

\* The inductive invariant of the mailbox for arbitrary names.
THEOREM SafeAlways == MailboxSpec => []Safe
<1>1. (MailboxInit => Safe) /\ (Safe /\ [MailboxNext]_mailboxVars => Safe')
  BY SafeInductive, MailboxAssumption
<1> QED
  BY <1>1, PTL DEF MailboxSpec

\* The tables keep their types, and only messages that were put are delivered.
THEOREM MailboxTypeCorrect == MailboxSpec => []MailboxTypeOK
<1>1. Safe => MailboxTypeOK
  BY DEF Safe
<1> QED
  BY <1>1, SafeAlways, PTL

\* No worker ever waits for a message that is in the store, whatever names
\* functions choose and however puts, gets and results interleave.
THEOREM NoMissedMatchAlways == MailboxSpec => []NoMissedMatch
<1>1. Safe => NoMissedMatch
  BY DEF Safe
<1> QED
  BY <1>1, SafeAlways, PTL

-----------------------------------------------------------------------------
(* When messages, state and invocations have names of their own.            *)

\* An entry that holds a payload is a message.
LEMMA DataIsStored ==
  ASSUME MailboxAssumption, MailboxTypeOK, NEW k \in Names, msgs[k].data \in Payloads
  PROVE  msgs[k] \in Stored
  BY Entries, EntryKinds

\* Under a message name the table has a message or nothing, under a state name
\* state or nothing.
LEMMA SeparateEntries ==
  ASSUME MailboxAssumption, DisjointNames, Safe, Separate
  PROVE  /\ \A k \in MsgNames : msgs[k] \in Stored \/ msgs[k] = Empty
         /\ \A k \in StateNames : msgs[k] = StateEntry \/ msgs[k] = Empty
<1>1. \A k \in Names : msgs[k] \in Stored \/ msgs[k] = StateEntry \/ msgs[k] = Empty
  BY Entries DEF Safe
<1> QED
  BY <1>1 DEF DisjointNames, Separate, Names

\* Entries stay under their kind of name.
LEMMA SeparateStep ==
  ASSUME MailboxAssumption, DisjointNames, Exact, MailboxNext
  PROVE  Separate'
<1> USE DEF Exact
<1>0. /\ \A k \in Names : msgs[k] \in Stored => k \in MsgNames
      /\ \A k \in Names : msgs[k] = StateEntry => k \in StateNames
      /\ \A e \in waiting : e.type = "GET" => e.key \in MsgNames
  BY DEF Separate
<1>1. ASSUME NEW k \in MsgNames, NEW src \in Sources, NEW m \in Payloads, PutMessage(k, src, m)
      PROVE  Separate'
  <2>1. waiting' \subseteq waiting
    BY <1>1 DEF PutMessage
  <2>2. msgs' = msgs \/ msgs' = [msgs EXCEPT ![k] = [source |-> src, data |-> m]]
    BY <1>1 DEF PutMessage
  <2>3. [source |-> src, data |-> m] # StateEntry
    BY EntryKinds
  <2>4. \A j \in Names : msgs'[j] = msgs[j] \/ (j = k /\ msgs'[j] # StateEntry)
    <3> DEFINE new == [source |-> src, data |-> m]
    <3> HIDE DEF new
    <3> QED BY <2>2, <2>3 DEF Safe, MailboxTypeOK, new
  <2> QED
    BY <1>0, <2>1, <2>4 DEF Separate
<1>2. ASSUME NEW w \in Workers, NEW k \in MsgNames, NEW src \in Sources \cup {AnyProcess},
             GetMessage(w, k, src)
      PROVE  Separate'
  <2>1. waiting' \subseteq waiting
          \cup {[key |-> k, type |-> "GET", source |-> src, worker |-> w]}
    BY <1>2 DEF GetMessage
  <2>2. msgs' = msgs \/ msgs' = [msgs EXCEPT ![k] = Empty]
    BY <1>2 DEF GetMessage
  <2>3. \A j \in Names : msgs'[j] = msgs[j] \/ msgs'[j] = Empty
    BY <2>2 DEF Safe, MailboxTypeOK
  <2>4. \A e \in waiting' : e.type = "GET" => e.key \in MsgNames
    BY <1>0, <2>1
  <2>5. Empty # StateEntry /\ Empty \notin Stored
    BY EntryKinds
  <2> QED
    BY <1>0, <2>3, <2>4, <2>5 DEF Separate
<1>3. ASSUME NEW k \in StateNames, WriteState(k)
      PROVE  Separate'
  <2>1. msgs' = [msgs EXCEPT ![k] = StateEntry] /\ waiting' = waiting
    BY <1>3 DEF WriteState
  <2>2. \A j \in Names : msgs'[j] = msgs[j] \/ (j = k /\ msgs'[j] = StateEntry)
    BY <2>1 DEF Safe, MailboxTypeOK
  <2>3. StateEntry \notin Stored
    BY EntryKinds
  <2> QED
    BY <1>0, <2>1, <2>2, <2>3 DEF Separate
<1>4. ASSUME NEW w \in Workers, NEW k \in InvIds, InvokeFunction(w, k)
      PROVE  Separate'
  BY <1>0, <1>4 DEF InvokeFunction, Separate
<1>5. ASSUME NEW k \in InvIds, InvocationResult(k)
      PROVE  Separate'
  BY <1>0, <1>5 DEF InvocationResult, Separate
<1> QED
  BY <1>1, <1>2, <1>3, <1>4, <1>5 DEF MailboxNext

\* A message is stored and delivered at most once in all.
LEMMA ExactlyOnceStep ==
  ASSUME MailboxAssumption, DisjointNames, Exact, MailboxNext
  PROVE  ExactlyOnce'
<1> USE DEF Exact
<1> DEFINE InStore(m) == \E k \in Names : msgs[k].data = m /\ \A j \in Names : msgs[j].data = m => j = k
           OnWorker(m) == \E w \in Workers : <<m, w>> \in delivered
                             /\ \A v \in Workers : <<m, v>> \in delivered => v = w
           NotStored(m) == \A k \in Names : msgs[k].data # m
           NotSent(m) == \A w \in Workers : <<m, w>> \notin delivered
<1>0. \A m \in put \ dropped : (InStore(m) /\ NotSent(m)) \/ (OnWorker(m) /\ NotStored(m))
  BY DEF ExactlyOnce
<1>1. ASSUME NEW k \in MsgNames, NEW src \in Sources, NEW m \in Payloads, PutMessage(k, src, m)
      PROVE  ExactlyOnce'
  <2>0. k \in Names /\ put' = put \cup {m} /\ m \notin put
    BY <1>1 DEF PutMessage, Names
  <2>1. NotSent(m)
    BY <2>0 DEF Safe, MailboxTypeOK
  <2>2. NotStored(m)
    BY <2>0, DataIsStored DEF Safe, StoredWasPut
  <2>3. CASE \E e \in FindGet(k, src) : delivered' = delivered \cup {<<m, e.worker>>}
                                        /\ msgs' = msgs /\ dropped' = dropped
    <3>1. PICK e \in FindGet(k, src) : delivered' = delivered \cup {<<m, e.worker>>}
                                       /\ msgs' = msgs /\ dropped' = dropped
      BY <2>3
    <3>2. e.worker \in Workers
      BY DEF FindGet, Safe, MailboxTypeOK, Waiter
    <3>3. OnWorker(m)' /\ NotStored(m)'
      BY <3>1, <3>2, <2>1, <2>2
    <3>4. \A n \in put \ dropped : (InStore(n)' /\ NotSent(n)') \/ (OnWorker(n)' /\ NotStored(n)')
      BY <1>0, <2>0, <3>1
    <3> QED
      BY <2>0, <3>1, <3>3, <3>4 DEF ExactlyOnce
  <2>4. CASE msgs[k] = Empty /\ msgs' = [msgs EXCEPT ![k] = [source |-> src, data |-> m]]
             /\ dropped' = dropped /\ delivered' = delivered
    <3>1. /\ msgs'[k].data = m /\ msgs[k].data \notin Payloads
          /\ \A j \in Names : j # k => msgs'[j] = msgs[j]
      BY <2>0, <2>4, EntryKinds DEF Safe, MailboxTypeOK
    <3>2. InStore(m)' /\ NotSent(m)'
      BY <2>0, <2>1, <2>2, <2>4, <3>1
    <3>3. ASSUME NEW n \in put \ dropped
          PROVE  (InStore(n)' /\ NotSent(n)') \/ (OnWorker(n)' /\ NotStored(n)')
      <4>1. n # m /\ n \in Payloads
        BY <2>0 DEF Safe, MailboxTypeOK
      <4>2. \A j \in Names : msgs'[j].data = n <=> msgs[j].data = n
        BY <3>1, <4>1
      <4>3. CASE InStore(n) /\ NotSent(n)
        <5>1. InStore(n)'
          BY <4>2, <4>3
        <5> QED BY <2>4, <4>3, <5>1
      <4>4. CASE OnWorker(n) /\ NotStored(n)
        <5>1. NotStored(n)'
          BY <4>2, <4>4
        <5>2. OnWorker(n)'
          BY <2>4, <4>4
        <5> QED BY <5>1, <5>2
      <4> QED BY <1>0, <4>3, <4>4
    <3>4. \A n \in put' \ dropped' :
            (InStore(n)' /\ NotSent(n)') \/ (OnWorker(n)' /\ NotStored(n)')
      <4> SUFFICES ASSUME NEW n \in put' \ dropped'
                   PROVE  (InStore(n)' /\ NotSent(n)') \/ (OnWorker(n)' /\ NotStored(n)')
        OBVIOUS
      <4>1. CASE n = m
        BY <3>2, <4>1
      <4>2. CASE n # m
        <5>1. n \in put \ dropped
          BY <2>0, <2>4, <4>2
        <5> QED
          BY <3>3, <5>1
      <4> QED BY <4>1, <4>2
    <3> QED
      BY <3>4 DEF ExactlyOnce
  <2>5. CASE dropped' = dropped \cup {m} /\ msgs' = msgs /\ delivered' = delivered
    BY <1>0, <2>0, <2>5 DEF ExactlyOnce
  <2> QED
    BY <1>1, <2>3, <2>4, <2>5 DEF PutMessage
<1>2. ASSUME NEW w \in Workers, NEW k \in MsgNames, NEW src \in Sources \cup {AnyProcess},
             GetMessage(w, k, src)
      PROVE  ExactlyOnce'
  <2>0. k \in Names /\ put' = put /\ dropped' = dropped
    BY <1>2 DEF GetMessage, Names
  <2>1. CASE TryGet(k, src)
    <3>1. msgs[k] \in Stored /\ msgs[k] # StateEntry
      BY <2>1, SeparateEntries, EntryKinds DEF TryGet
    <3>0. PICK m \in Payloads : m = msgs[k].data
      BY <3>1, EntryKinds
    <3>2. /\ msgs' = [msgs EXCEPT ![k] = Empty]
          /\ delivered' = delivered \cup {<<m, w>>}
      BY <1>2, <2>1, <3>0, <3>1 DEF GetMessage
    <3>3. /\ msgs'[k].data \notin Payloads
          /\ \A j \in Names : j # k => msgs'[j] = msgs[j]
      BY <2>0, <3>1, <3>2, EntryKinds DEF Safe, MailboxTypeOK
    <3>5. ASSUME NEW n \in put \ dropped
          PROVE  (InStore(n)' /\ NotSent(n)') \/ (OnWorker(n)' /\ NotStored(n)')
      <4>0. n \in Payloads
        BY DEF Safe, MailboxTypeOK
      <4>1. CASE n = m
        <5>1. InStore(m) /\ NotSent(m)
          BY <1>0, <2>0, <3>0, <4>1
        <5>2. \A j \in Names : j # k => msgs[j].data # m
          BY <2>0, <3>0, <5>1
        <5>3. NotStored(m)'
          BY <3>3, <5>2
        <5>4. OnWorker(m)'
          BY <3>2, <5>1
        <5> QED BY <4>1, <5>3, <5>4
      <4>2. CASE n # m
        <5>1. \A j \in Names : msgs'[j].data = n <=> msgs[j].data = n
          BY <2>0, <3>0, <3>3, <4>0, <4>2
        <5>2. \A v \in Workers : <<n, v>> \in delivered' <=> <<n, v>> \in delivered
          BY <3>2, <4>2
        <5> QED
          BY <1>0, <5>1, <5>2, ZenonT(60)
      <4> QED BY <4>1, <4>2
    <3> QED
      BY <2>0, <3>5 DEF ExactlyOnce
  <2>2. CASE ~TryGet(k, src)
    <3>1. msgs' = msgs /\ delivered' = delivered
      BY <1>2, <2>2 DEF GetMessage
    <3> QED
      BY <2>0, <3>1 DEF ExactlyOnce
  <2> QED BY <2>1, <2>2
<1>3. ASSUME NEW k \in StateNames, WriteState(k)
      PROVE  ExactlyOnce'
  <2>1. /\ k \in Names /\ msgs' = [msgs EXCEPT ![k] = StateEntry]
        /\ UNCHANGED <<put, dropped, delivered>>
    BY <1>3 DEF WriteState, Names
  <2>2. msgs[k].data \notin Payloads /\ StateEntry.data \notin Payloads
    BY SeparateEntries, EntryKinds
  <2>3. \A j \in Names, m \in Payloads : msgs'[j].data = m <=> msgs[j].data = m
    BY <2>1, <2>2 DEF Safe, MailboxTypeOK
  <2>4. put \subseteq Payloads
    BY DEF Safe, MailboxTypeOK
  <2>5. ASSUME NEW n \in put \ dropped
        PROVE  (InStore(n)' /\ NotSent(n)') \/ (OnWorker(n)' /\ NotStored(n)')
    <3>1. \A j \in Names : msgs'[j].data = n <=> msgs[j].data = n
      BY <2>3, <2>4
    <3>2. CASE InStore(n) /\ NotSent(n)
      <4>1. InStore(n)'
        BY <3>1, <3>2
      <4> QED BY <2>1, <3>2, <4>1
    <3>3. CASE OnWorker(n) /\ NotStored(n)
      <4>1. NotStored(n)'
        BY <3>1, <3>3
      <4>2. OnWorker(n)'
        BY <2>1, <3>3
      <4> QED BY <4>1, <4>2
    <3> QED BY <1>0, <3>2, <3>3
  <2> QED
    BY <2>1, <2>5 DEF ExactlyOnce
<1>4. ASSUME NEW k \in InvIds, InvocationResult(k) \/ \E w \in Workers : InvokeFunction(w, k)
      PROVE  ExactlyOnce'
  BY <1>4 DEF InvokeFunction, InvocationResult, ExactlyOnce
<1> QED
  BY <1>1, <1>2, <1>3, <1>4 DEF MailboxNext

\* The list of state keys follows the table, and MessageStore::state finds the
\* key it looks for.
LEMMA StateKeysStep ==
  ASSUME MailboxAssumption, DisjointNames, Exact, MailboxNext
  PROVE  StateKeysExact' /\ NoFault'
<1> USE DEF Exact
<1>1. ASSUME NEW k \in MsgNames, UNCHANGED <<stateKeys, fault>>,
             \/ msgs' = msgs
             \/ msgs' = [msgs EXCEPT ![k] = Empty]
             \/ \E src \in Sources, m \in Payloads :
                  msgs' = [msgs EXCEPT ![k] = [source |-> src, data |-> m]]
      PROVE  StateKeysExact' /\ NoFault'
  <2>1. k \in Names /\ msgs[k] # StateEntry
    BY SeparateEntries, EntryKinds DEF Names
  <2>2. \A j \in Names : msgs'[j] = StateEntry <=> msgs[j] = StateEntry
    <3>1. CASE msgs' = msgs
      BY <3>1
    <3>2. CASE msgs' = [msgs EXCEPT ![k] = Empty]
      BY <2>1, <3>2, EntryKinds DEF Safe, MailboxTypeOK
    <3>3. ASSUME NEW src \in Sources, NEW m \in Payloads,
                 msgs' = [msgs EXCEPT ![k] = [source |-> src, data |-> m]]
          PROVE  \A j \in Names : msgs'[j] = StateEntry <=> msgs[j] = StateEntry
      <4> DEFINE new == [source |-> src, data |-> m]
      <4>1. new # StateEntry
        BY EntryKinds
      <4> HIDE DEF new
      <4> QED BY <2>1, <3>3, <4>1 DEF Safe, MailboxTypeOK, new
    <3> QED BY <1>1, <3>1, <3>2, <3>3
  <2> QED
    BY <1>1, <2>2 DEF StateKeysExact, NoFault
<1>2. ASSUME NEW k \in StateNames, WriteState(k)
      PROVE  StateKeysExact' /\ NoFault'
  <2>0. k \in Names /\ msgs' = [msgs EXCEPT ![k] = StateEntry]
    BY <1>2 DEF WriteState, Names
  <2>1. msgs'[k] = StateEntry /\ \A j \in Names : j # k => msgs'[j] = msgs[j]
    BY <2>0 DEF Safe, MailboxTypeOK
  <2>2. CASE msgs[k] = Empty
    <3>1. stateKeys' = Append(stateKeys, k) /\ fault' = fault
      BY <1>2, <2>2 DEF WriteState
    <3>2. /\ Len(stateKeys) \in Nat /\ Len(stateKeys') = Len(stateKeys) + 1
          /\ \A i \in 1..Len(stateKeys) : stateKeys'[i] = stateKeys[i]
          /\ stateKeys'[Len(stateKeys) + 1] = k
      BY <3>1 DEF Safe, MailboxTypeOK
    <3>3. \A i \in 1..Len(stateKeys) : stateKeys[i] # k
      BY <2>0, <2>2, EntryKinds DEF StateKeysExact
    <3>4. ASSUME NEW i \in 1..Len(stateKeys'), NEW j \in 1..Len(stateKeys'),
                 stateKeys'[i] = stateKeys'[j]
          PROVE  i = j
      <4>1. i \in 1..Len(stateKeys) \/ i = Len(stateKeys) + 1
        BY <3>2
      <4>2. j \in 1..Len(stateKeys) \/ j = Len(stateKeys) + 1
        BY <3>2
      <4>3. CASE i \in 1..Len(stateKeys) /\ j \in 1..Len(stateKeys)
        BY <3>2, <3>4, <4>3 DEF StateKeysExact
      <4>4. CASE i = Len(stateKeys) + 1 \/ j = Len(stateKeys) + 1
        BY <3>2, <3>3, <3>4, <4>1, <4>2, <4>4
      <4> QED BY <4>1, <4>2, <4>3, <4>4
    <3>5. ASSUME NEW j \in Names
          PROVE  msgs'[j] = StateEntry <=> \E i \in 1..Len(stateKeys') : stateKeys'[i] = j
      <4>1. (\E i \in 1..Len(stateKeys') : stateKeys'[i] = j)
              <=> (\E i \in 1..Len(stateKeys) : stateKeys[i] = j) \/ j = k
        BY <3>2
      <4> QED
        BY <2>1, <4>1 DEF StateKeysExact
    <3> QED
      BY <3>1, <3>4, <3>5 DEF StateKeysExact, NoFault
  <2>3. CASE msgs[k] # Empty
    <3>1. msgs[k] = StateEntry
      BY <2>3, SeparateEntries
    <3>2. ~(\A i \in 1..Len(stateKeys) : stateKeys[i] # k)
      BY <2>0, <3>1 DEF StateKeysExact
    <3>3. stateKeys' = stateKeys /\ fault' = FALSE
      BY <1>2, <2>3, <3>2 DEF WriteState
    <3>4. \A j \in Names : msgs'[j] = StateEntry <=> msgs[j] = StateEntry
      BY <2>1, <3>1
    <3> QED
      BY <3>3, <3>4 DEF StateKeysExact, NoFault
  <2> QED BY <2>2, <2>3
<1>3. ASSUME NEW k \in InvIds, InvocationResult(k) \/ \E w \in Workers : InvokeFunction(w, k)
      PROVE  StateKeysExact' /\ NoFault'
  BY <1>3 DEF InvokeFunction, InvocationResult, StateKeysExact, NoFault
<1>4. ASSUME NEW k \in MsgNames, NEW src \in Sources, NEW m \in Payloads, PutMessage(k, src, m)
      PROVE  StateKeysExact' /\ NoFault'
  <2>1. UNCHANGED <<stateKeys, fault>>
    BY <1>4 DEF PutMessage
  <2>2. msgs' = msgs \/ msgs' = [msgs EXCEPT ![k] = [source |-> src, data |-> m]]
    BY <1>4 DEF PutMessage
  <2> QED BY <1>1, <2>1, <2>2
<1>5. ASSUME NEW w \in Workers, NEW k \in MsgNames, NEW src \in Sources \cup {AnyProcess},
             GetMessage(w, k, src)
      PROVE  StateKeysExact' /\ NoFault'
  <2>1. UNCHANGED <<stateKeys, fault>>
    BY <1>5 DEF GetMessage
  <2>2. msgs' = msgs \/ msgs' = [msgs EXCEPT ![k] = Empty]
    BY <1>5 DEF GetMessage
  <2> QED BY <1>1, <2>1, <2>2
<1> QED
  BY <1>2, <1>3, <1>4, <1>5 DEF MailboxNext

\* The inductive invariant of the mailbox when names are disjoint.
LEMMA ExactInductive ==
  ASSUME MailboxAssumption, DisjointNames
  PROVE  (MailboxInit => Exact) /\ (Exact /\ [MailboxNext]_mailboxVars => Exact')
<1>1. ASSUME MailboxInit
      PROVE  Exact
  <2>1. Safe
    BY <1>1, SafeInductive
  <2>2. \A k \in Names : msgs[k] \notin Stored /\ msgs[k] # StateEntry
    BY <1>1, EntryKinds DEF MailboxInit
  <2>3. stateKeys = <<>> /\ waiting = {} /\ put = {} /\ fault = FALSE
    BY <1>1 DEF MailboxInit
  <2> QED
    BY <2>1, <2>2, <2>3 DEF Exact, Separate, ExactlyOnce, StateKeysExact, NoFault
<1>2. ASSUME Exact, MailboxNext
      PROVE  Exact'
  BY <1>2, SafeInductive, SeparateStep, ExactlyOnceStep, StateKeysStep DEF Exact
<1>3. ASSUME Exact, UNCHANGED mailboxVars
      PROVE  Exact'
  <2>1. Safe'
    BY <1>3, SafeInductive DEF Exact
  <2> QED
    <3>1. UNCHANGED <<msgs, stateKeys, waiting, put, dropped, delivered, fault>>
      BY <1>3 DEF mailboxVars
    <3>2. Separate' /\ NoFault'
      BY <1>3, <3>1 DEF Exact, Separate, NoFault
    <3>3. ExactlyOnce'
      BY <1>3, <3>1 DEF Exact, ExactlyOnce
    <3>4. StateKeysExact'
      BY <1>3, <3>1 DEF Exact, StateKeysExact
    <3> QED
      BY <2>1, <3>2, <3>3, <3>4 DEF Exact
<1> QED
  BY <1>1, <1>2, <1>3

\* The inductive invariant holds of every behaviour with disjoint names.
THEOREM ExactAlways == DisjointNames => (MailboxSpec => []Exact)
<1> SUFFICES ASSUME DisjointNames PROVE MailboxSpec => []Exact
  OBVIOUS
<1>1. (MailboxInit => Exact) /\ (Exact /\ [MailboxNext]_mailboxVars => Exact')
  BY ExactInductive, MailboxAssumption
<1> QED
  BY <1>1, PTL DEF MailboxSpec

\* A message that was accepted is stored under one name or was sent to one
\* worker, never both, never twice, never lost.
THEOREM ExactlyOnceAlways == DisjointNames => (MailboxSpec => []ExactlyOnce)
<1> SUFFICES ASSUME DisjointNames PROVE MailboxSpec => []ExactlyOnce
  OBVIOUS
<1>1. Exact => ExactlyOnce
  BY DEF Exact
<1>2. MailboxSpec => []Exact
  BY ExactAlways
<1> QED
  BY <1>1, <1>2, PTL

\* state_keys reports exactly the names state is kept under.
THEOREM StateKeysExactAlways == DisjointNames => (MailboxSpec => []StateKeysExact)
<1> SUFFICES ASSUME DisjointNames PROVE MailboxSpec => []StateKeysExact
  OBVIOUS
<1>1. Exact => StateKeysExact
  BY DEF Exact
<1>2. MailboxSpec => []Exact
  BY ExactAlways
<1> QED
  BY <1>1, <1>2, PTL

\* A worker that waits for a message is only released by being sent one.
THEOREM GetReleasedByPutAlways == DisjointNames => (MailboxSpec => GetReleasedByPut)
<1> SUFFICES ASSUME DisjointNames PROVE MailboxSpec => GetReleasedByPut
  OBVIOUS
<1> DEFINE Released == \A e \in waiting : e.type = "GET" /\ e \notin waiting' =>
                         \E m \in put' \ put : <<m, e.worker>> \in delivered'
<1>1. ASSUME Exact, MailboxNext
      PROVE  Released
  <2> SUFFICES ASSUME NEW e \in waiting, e.type = "GET", e \notin waiting'
               PROVE  \E m \in put' \ put : <<m, e.worker>> \in delivered'
    OBVIOUS
  <2>1. ASSUME NEW k \in MsgNames, NEW src \in Sources, NEW m \in Payloads, PutMessage(k, src, m)
        PROVE  \E n \in put' \ put : <<n, e.worker>> \in delivered'
    <3>1. m \in put' \ put
      BY <2>1 DEF PutMessage
    <3>2. <<m, e.worker>> \in delivered'
      BY <2>1 DEF PutMessage
    <3> QED BY <3>1, <3>2
  <2>2. ASSUME NEW w \in Workers, NEW k \in MsgNames, NEW src \in Sources \cup {AnyProcess},
               GetMessage(w, k, src)
        PROVE  FALSE
    BY <2>2 DEF GetMessage
  <2>3. ASSUME NEW k \in StateNames, WriteState(k)
        PROVE  FALSE
    BY <2>3 DEF WriteState
  <2>4. ASSUME NEW w \in Workers, NEW k \in InvIds, InvokeFunction(w, k)
        PROVE  FALSE
    BY <2>4 DEF InvokeFunction
  <2>5. ASSUME NEW k \in InvIds, InvocationResult(k)
        PROVE  FALSE
    <3>1. e.key = k
      BY <2>5 DEF InvocationResult, FindInvocation
    <3>2. e.key \in MsgNames
      BY <1>1 DEF Exact, Separate
    <3> QED
      BY <3>1, <3>2 DEF DisjointNames
  <2> QED
    BY <1>1, <2>1, <2>2, <2>3, <2>4, <2>5 DEF MailboxNext
<1>2. Exact /\ [MailboxNext]_mailboxVars => [Released]_mailboxVars
  BY <1>1
<1>3. MailboxSpec => []Exact
  BY ExactAlways
<1> QED
  BY <1>2, <1>3, PTL DEF MailboxSpec, GetReleasedByPut
=============================================================================
