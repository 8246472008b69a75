-------------------------- MODULE InvocationsProofs --------------------------
(***************************************************************************)
(* KeptOrAnswered and CountExact hold for any requests, any processes and   *)
(* every Env: requests that overlap, backend and container answering at the *)
(* same time, refusals and crashes.  They are stated with cardinalities;    *)
(* the inductive invariant Inv says the same of each request and of each    *)
(* process, with the links it needs.                                        *)
(*                                                                         *)
(* NoneLeftBehind and SentOnce hold for every Env as well, with the         *)
(* exception they name: the invocations of a list that two threads worked   *)
(* on at the same time.  Sending is what is inductive beside Inv: a thread  *)
(* between its two looks at a list is alone with it, or everything in it is *)
(* excepted.                                                                *)
(***************************************************************************)
EXTENDS Invocations, FiniteSetTheorems, WellFoundedInduction, TLAPS

-----------------------------------------------------------------------------
(* The inductive invariant.                                                 *)

\* The points at which each kind of thread can be, and what it works on: the
\* worker on a process of the list, the backend's thread on the process it
\* answers for, an I/O thread on the process its connection is registered for.
Threaded ==
  /\ pc[Worker] \in {"idle", "create", "add"}
  /\ pc[Worker] = "create" => req[Worker] \in Reqs
  /\ pc[Worker] = "add" => on[Worker] \in Procs
  /\ \A p \in Procs :
       /\ pc[Backend(p)] \in {"idle", "check", "call", "add", "clear", "emplace"}
       /\ pc[Backend(p)] # "idle" => on[Backend(p)] = p /\ backend[p] = "answered"
       /\ pc[Io(p)] \in {"idle", "scan", "check", "call", "add", "clear", "erase", "dangling"}
       /\ pc[Io(p)] # "idle" => on[Io(p)] = context[p] /\ context[p] # None
       /\ pc[Io(p)] \in {"erase", "dangling"} => req[Io(p)] \in Reqs

\* What the TCP server waits for: each process once, in the queue of the
\* acceptor loop or under its number, still being allocated and without a
\* connection.
Queued(p) == \E i \in 1..Len(loopTasks) : loopTasks[i] = p
Waiting ==
  /\ \A i, j \in 1..Len(loopTasks) : loopTasks[i] = loopTasks[j] => i = j
  /\ \A n \in Numbers, p \in Procs : pending[n] = p =>
       number[p] = n /\ ~Queued(p) /\ status[p] = "ALLOCATING"
  /\ \A p \in Procs : Queued(p) => status[p] = "ALLOCATING"

\* A process and its connection point to each other.
Linked(c) ==
  /\ context[c] # None =>
       /\ container[c] \in {"registered", "gone"}
       /\ status[context[c]] \in {"ALLOCATED", "FAILURE"}
       /\ connection[context[c]] = c
  /\ connection[c] # None => context[connection[c]] = c
  /\ status[c] = "ALLOCATED" => connection[c] # None
  /\ \A r \in Reqs : inbox[c][r] > 0 => context[c] # None

\* A process enters the list of the application once, after the backend has
\* answered for it; an object that was not created yet has no traces.
Listed ==
  /\ \A i, j \in 1..Len(controlplane) : controlplane[i] = controlplane[j] => i = j
  /\ \A i \in 1..Len(controlplane) :
       backend[controlplane[i]] = "answered" /\ pc[Backend(controlplane[i])] = "idle"
  /\ \A p \in Procs : status[p] = "unused" => backend[p] = "none" /\ creation[p].req = None
  /\ \A p \in Procs : creation[p].state = "set" <=> creation[p].req # None

\* A thread that has called the creation callback of p has taken the request out.
Moved(p) ==
  /\ pc[Backend(p)] \in {"add", "clear"} => creation[p].req = None
  /\ \A c \in Procs : context[c] = p /\ pc[Io(c)] \in {"add", "clear"} => creation[p].req = None

\* The three kinds of places a request can be in.
InWorker(r) == pc[Worker] = "create" /\ req[Worker] = r
InCallback(p, r) == creation[p].req = r
InList(p, r) == \E i \in 1..Len(invocations[p]) : invocations[p][i] = r

\* The list of p has r at no two positions.
Once(p, r) ==
  \A i, j \in 1..Len(invocations[p]) : invocations[p][i] = r /\ invocations[p][j] = r => i = j

\* The I/O thread of connection c has answered an invocation and not erased it.
Erases(c) == pc[Io(c)] \in {"erase", "dangling"}
Answers(c, r) == Erases(c) /\ req[Io(c)] = r

\* A request is in at most one place.
InOnePlace(r) ==
  /\ InWorker(r) => \A p \in Procs : ~InCallback(p, r) /\ ~InList(p, r)
  /\ \A p, q \in Procs : InCallback(p, r) => ~InList(q, r)
  /\ \A p, q \in Procs : InCallback(p, r) /\ InCallback(q, r) => p = q
  /\ \A p, q \in Procs : InList(p, r) /\ InList(q, r) => p = q
  /\ \A p \in Procs : Once(p, r)

\* It is answered when it leaves its place, or just before that.
Answered(r) ==
  /\ r \notin asked => replies[r] = 0
  /\ InWorker(r) => r \in asked /\ replies[r] = 0
  /\ \A p \in Procs : InCallback(p, r) => r \in asked /\ replies[r] = 0
  /\ \A p \in Procs : InList(p, r) =>
       /\ r \in asked
       /\ replies[r] = 0 \/ \E c \in Procs : Answers(c, r)
  /\ \A c, p \in Procs : Answers(c, r) /\ context[c] = p =>
       InList(p, r) /\ replies[r] = 1
  /\ r \in asked => \/ replies[r] = 1
                    \/ replies[r] = 0 /\ \/ InWorker(r)
                                         \/ \E p \in Procs : InCallback(p, r) \/ InList(p, r)

\* The counter of a process is the length of its list, without the invocation
\* that the thread of its connection is erasing.
Counted(p) ==
  /\ \A c \in Procs : context[c] = p /\ Erases(c) =>
       activeInvocations[p] = Len(invocations[p]) - 1
  /\ (\A c \in Procs : context[c] = p => ~Erases(c)) =>
       activeInvocations[p] = Len(invocations[p])

\* The threads, the links between the parts of the control plane, and the fate of
\* every request: the inductive strengthening of KeptOrAnswered and CountExact.
Inv ==
  /\ TypeOK
  /\ Threaded
  /\ Waiting
  /\ \A c \in Procs : Linked(c)
  /\ Listed
  /\ \A r \in Reqs : InOnePlace(r) /\ Answered(r)
  /\ \A p \in Procs : Moved(p) /\ Counted(p)

-----------------------------------------------------------------------------
(* Threads, sequences, least elements.                                      *)

\* The threads are distinct, and there are no others.
LEMMA ThreadFacts ==
  /\ Worker \in Threads
  /\ \A p \in Procs : Backend(p) \in Threads /\ Io(p) \in Threads
  /\ \A p \in Procs : Worker # Backend(p) /\ Worker # Io(p)
  /\ \A p, q \in Procs : Backend(p) # Io(q)
  /\ \A p, q \in Procs : Backend(p) = Backend(q) => p = q
  /\ \A p, q \in Procs : Io(p) = Io(q) => p = q
  /\ \A t \in Threads : t = Worker \/ \E p \in Procs : t = Backend(p) \/ t = Io(p)
  /\ \A p \in Procs : Backend(p)[1] = "backend" /\ Io(p)[1] # "backend"
  /\ Worker[1] # "backend"
BY DEF Worker, Backend, Io, Threads

\* A set of natural numbers that is not empty has a least element.
LEMMA LeastExists ==
  ASSUME NEW T \in SUBSET Nat, T # {}
  PROVE  \E i \in T : \A j \in T : i <= j
<1>1. PICK x \in T : \A y \in T : ~(<<y, x>> \in OpToRel(<, Nat))
  BY WFMin, NatLessThanWellFounded
<1>2. \A y \in T : ~(y < x)
  BY <1>1 DEF OpToRel
<1>3. x \in Nat /\ \A y \in T : y \in Nat
  BY <1>1
<1>4. \A y \in T : x <= y
  BY <1>2, <1>3
<1> QED BY <1>4

\* What Append does, index by index.
LEMMA AppendFacts ==
  ASSUME NEW Q, NEW s \in Seq(Q), NEW e \in Q
  PROVE  /\ Append(s, e) \in Seq(Q)
         /\ Len(Append(s, e)) = Len(s) + 1
         /\ Append(s, e)[Len(s) + 1] = e
         /\ \A i \in 1..Len(s) : Append(s, e)[i] = s[i]
OBVIOUS

\* RemoveFirst takes out the only occurrence of an element and nothing else.
LEMMA RemoveFirstFacts ==
  ASSUME NEW Q, NEW s \in Seq(Q), NEW e, NEW k \in 1..Len(s), s[k] = e,
         \A j \in 1..Len(s) : s[j] = e => j = k
  PROVE  /\ RemoveFirst(s, e) \in Seq(Q)
         /\ Len(RemoveFirst(s, e)) = Len(s) - 1
         /\ \A i \in 1..Len(s) - 1 :
              RemoveFirst(s, e)[i] = IF i < k THEN s[i] ELSE s[i + 1]
<1> DEFINE I == {i \in 1..Len(s) : s[i] = e}
<1>1. I = {k}
  OBVIOUS
<1>2. Min({k}) = k
  BY DEF Min
<1>3. SelectInSeq(s, LAMBDA v : v = e) = k
  BY <1>1, <1>2 DEF SelectInSeq
<1> DEFINE a == SubSeq(s, 1, k - 1)
           b == SubSeq(s, k + 1, Len(s))
<1>4. RemoveFirst(s, e) = a \o b
  BY <1>3 DEF RemoveFirst, RemoveAt
<1>5. /\ a \in Seq(Q) /\ Len(a) = k - 1
      /\ \A i \in 1..k - 1 : a[i] = s[i]
  OBVIOUS
<1>6. /\ b \in Seq(Q) /\ Len(b) = Len(s) - k
      /\ \A i \in 1..Len(s) - k : b[i] = s[i + k]
  OBVIOUS
<1> HIDE DEF a, b
<1>7. /\ a \o b \in Seq(Q)
      /\ Len(a \o b) = Len(s) - 1
  BY <1>5, <1>6
<1>8. \A i \in 1..Len(s) - 1 : (a \o b)[i] = IF i < k THEN a[i] ELSE b[i - (k - 1)]
  BY <1>5, <1>6
<1>9. \A i \in 1..Len(s) - 1 : (a \o b)[i] = IF i < k THEN s[i] ELSE s[i + 1]
  <2> SUFFICES ASSUME NEW i \in 1..Len(s) - 1
               PROVE  (a \o b)[i] = IF i < k THEN s[i] ELSE s[i + 1]
    OBVIOUS
  <2>1. CASE i < k
    BY <1>5, <1>8, <2>1
  <2>2. CASE ~(i < k)
    <3>1. i - (k - 1) \in 1..Len(s) - k /\ i - (k - 1) + k = i + 1
      BY <2>2
    <3> QED BY <1>6, <1>8, <2>2, <3>1
  <2> QED BY <2>1, <2>2
<1> QED BY <1>4, <1>7, <1>9

-----------------------------------------------------------------------------
(* The lists of invocations.                                                *)

\* An invocation that no list has is appended to one.
LEMMA ListAppended ==
  ASSUME TypeOK, NEW p \in Procs, NEW r \in Reqs, ~InList(p, r),
         invocations' = [invocations EXCEPT ![p] = Append(@, r)]
  PROVE  /\ invocations' \in [Procs -> Seq(Reqs)]
         /\ Len(invocations'[p]) = Len(invocations[p]) + 1
         /\ \A q \in Procs : q # p => invocations'[q] = invocations[q]
         /\ \A q \in Procs, s \in Reqs : InList(q, s)' <=> InList(q, s) \/ (q = p /\ s = r)
         /\ \A q \in Procs, s \in Reqs : Once(q, s) => Once(q, s)'
<1> DEFINE l == invocations[p]
<1>1. l \in Seq(Reqs) /\ invocations'[p] = Append(l, r) /\ Len(l) \in Nat
  BY DEF TypeOK
<1>2. /\ Append(l, r) \in Seq(Reqs)
      /\ Len(Append(l, r)) = Len(l) + 1
      /\ Append(l, r)[Len(l) + 1] = r
      /\ \A i \in 1..Len(l) : Append(l, r)[i] = l[i]
  BY <1>1, AppendFacts
<1>3. /\ invocations' \in [Procs -> Seq(Reqs)]
      /\ \A q \in Procs : q # p => invocations'[q] = invocations[q]
  BY <1>1, <1>2 DEF TypeOK
<1>4. \A q \in Procs, s \in Reqs : q # p =>
        (InList(q, s)' <=> InList(q, s)) /\ (Once(q, s) => Once(q, s)')
  BY <1>3 DEF InList, Once
<1>5. \A s \in Reqs : InList(p, s)' <=> InList(p, s) \/ s = r
  <2> SUFFICES ASSUME NEW s \in Reqs
               PROVE  (\E i \in 1..Len(l) + 1 : Append(l, r)[i] = s)
                        <=> (\E i \in 1..Len(l) : l[i] = s) \/ s = r
    BY <1>1, <1>2 DEF InList
  <2>1. \A i \in 1..Len(l) + 1 : i \in 1..Len(l) \/ i = Len(l) + 1
    BY <1>1
  <2>2. \A i \in 1..Len(l) : i \in 1..Len(l) + 1
    BY <1>1
  <2>3. Len(l) + 1 \in 1..Len(l) + 1
    BY <1>1
  <2> QED BY <1>2, <2>1, <2>2, <2>3
<1>6. \A s \in Reqs : Once(p, s) => Once(p, s)'
  <2> SUFFICES ASSUME NEW s \in Reqs, Once(p, s),
                      NEW i \in 1..Len(l) + 1, NEW j \in 1..Len(l) + 1,
                      Append(l, r)[i] = s, Append(l, r)[j] = s
               PROVE  i = j
    BY <1>1, <1>2 DEF Once
  <2>1. (i \in 1..Len(l) \/ i = Len(l) + 1) /\ (j \in 1..Len(l) \/ j = Len(l) + 1)
    BY <1>1
  <2>2. \A m \in 1..Len(l) : l[m] # r
    BY DEF InList
  <2> QED BY <1>2, <2>1, <2>2 DEF Once
<1> HIDE DEF l
<1> QED BY <1>1, <1>2, <1>3, <1>4, <1>5, <1>6 DEF l

\* An invocation leaves the list that has it once.
LEMMA ListErased ==
  ASSUME TypeOK, NEW p \in Procs, NEW r \in Reqs, InList(p, r), Once(p, r),
         invocations' = [invocations EXCEPT ![p] = RemoveFirst(@, r)]
  PROVE  /\ invocations' \in [Procs -> Seq(Reqs)]
         /\ Len(invocations'[p]) = Len(invocations[p]) - 1
         /\ \A q \in Procs : q # p => invocations'[q] = invocations[q]
         /\ \A q \in Procs, s \in Reqs : InList(q, s)' <=> InList(q, s) /\ ~(q = p /\ s = r)
         /\ \A q \in Procs, s \in Reqs : Once(q, s) => Once(q, s)'
<1> DEFINE l == invocations[p]
           m == RemoveFirst(l, r)
<1>1. l \in Seq(Reqs) /\ invocations'[p] = m /\ Len(l) \in Nat
  BY DEF TypeOK
<1>2. PICK k \in 1..Len(l) : l[k] = r
  BY DEF InList
<1>3. \A j \in 1..Len(l) : l[j] = r => j = k
  BY <1>2 DEF Once
<1>4. /\ m \in Seq(Reqs)
      /\ Len(m) = Len(l) - 1
      /\ \A i \in 1..Len(l) - 1 : m[i] = IF i < k THEN l[i] ELSE l[i + 1]
  <2>1. l \in Seq(Reqs) /\ k \in 1..Len(l) /\ l[k] = r /\ \A j \in 1..Len(l) : l[j] = r => j = k
    BY <1>1, <1>2, <1>3
  <2> HIDE DEF l
  <2> QED BY <2>1, RemoveFirstFacts
<1>5. /\ invocations' \in [Procs -> Seq(Reqs)]
      /\ \A q \in Procs : q # p => invocations'[q] = invocations[q]
  BY <1>1, <1>4 DEF TypeOK
<1>6. \A q \in Procs, s \in Reqs : q # p =>
        (InList(q, s)' <=> InList(q, s)) /\ (Once(q, s) => Once(q, s)')
  BY <1>5 DEF InList, Once
<1> HIDE DEF l, m
<1>7. \A s \in Reqs : (\E i \in 1..Len(m) : m[i] = s) <=> (\E i \in 1..Len(l) : l[i] = s) /\ s # r
  <2> TAKE s \in Reqs
  <2>1. ASSUME NEW i \in 1..Len(m), m[i] = s
        PROVE  (\E j \in 1..Len(l) : l[j] = s) /\ s # r
    <3>1. i \in 1..Len(l) - 1
      BY <1>1, <1>4
    <3>2. CASE i < k
      <4>1. i \in 1..Len(l) /\ l[i] = s /\ i # k
        BY <1>1, <1>4, <2>1, <3>1, <3>2
      <4> QED BY <4>1, <1>3
    <3>3. CASE ~(i < k)
      <4>1. i + 1 \in 1..Len(l) /\ l[i + 1] = s /\ i + 1 # k
        BY <1>1, <1>4, <2>1, <3>1, <3>3
      <4> QED BY <4>1, <1>3
    <3> QED BY <3>2, <3>3
  <2>2. ASSUME NEW i \in 1..Len(l), l[i] = s, s # r
        PROVE  \E j \in 1..Len(m) : m[j] = s
    <3>1. CASE i < k
      <4>1. i \in 1..Len(m) /\ i \in 1..Len(l) - 1
        BY <1>1, <1>2, <1>4, <3>1
      <4>2. m[i] = s
        BY <4>1, <1>4, <2>2, <3>1
      <4> QED BY <4>1, <4>2
    <3>2. CASE i > k
      <4>1. i - 1 \in 1..Len(m) /\ i - 1 \in 1..Len(l) - 1 /\ ~(i - 1 < k) /\ (i - 1) + 1 = i
        BY <1>1, <1>2, <1>4, <3>2
      <4>2. m[i - 1] = s
        BY <4>1, <1>4, <2>2
      <4> QED BY <4>1, <4>2
    <3>3. CASE i = k
      BY <3>3, <1>2, <2>2
    <3> QED BY <3>1, <3>2, <3>3, <1>2
  <2> QED BY <2>1, <2>2
<1>8. \A s \in Reqs : (\A i, j \in 1..Len(l) : l[i] = s /\ l[j] = s => i = j)
                        => \A i, j \in 1..Len(m) : m[i] = s /\ m[j] = s => i = j
  <2> SUFFICES ASSUME NEW s \in Reqs, \A i, j \in 1..Len(l) : l[i] = s /\ l[j] = s => i = j,
                      NEW i \in 1..Len(m), NEW j \in 1..Len(m), m[i] = s, m[j] = s
               PROVE  i = j
    OBVIOUS
  <2>0. i \in 1..Len(l) - 1 /\ j \in 1..Len(l) - 1
    BY <1>1, <1>4
  <2>1. PICK a \in 1..Len(l) : l[a] = s /\ ((i < k /\ a = i) \/ (~(i < k) /\ a = i + 1))
    BY <2>0, <1>1, <1>4
  <2>2. PICK b \in 1..Len(l) : l[b] = s /\ ((j < k /\ b = j) \/ (~(j < k) /\ b = j + 1))
    BY <2>0, <1>1, <1>4
  <2>3. a = b
    BY <2>1, <2>2
  <2> QED BY <2>1, <2>2, <2>3, <1>2
<1>9. \A s \in Reqs : /\ InList(p, s)' <=> InList(p, s) /\ s # r
                      /\ Once(p, s) => Once(p, s)'
  BY <1>1, <1>7, <1>8, SMTT(30) DEF InList, Once, l
<1> QED BY <1>1, <1>4, <1>5, <1>6, <1>9 DEF l

-----------------------------------------------------------------------------
(* Steps that move no request.                                              *)

\* Requests and counters stay as they are; a connection that is erasing keeps
\* its process.
PlacesKept ==
  /\ \A r \in Reqs : InWorker(r)' <=> InWorker(r)
  /\ \A p \in Procs, r \in Reqs :
       /\ InCallback(p, r)' <=> InCallback(p, r)
       /\ InList(p, r)' <=> InList(p, r)
       /\ Once(p, r)' <=> Once(p, r)
  /\ \A c \in Procs :
       /\ Erases(c)' <=> Erases(c)
       /\ Erases(c) => req'[Io(c)] = req[Io(c)] /\ context'[c] = context[c]
  /\ UNCHANGED <<asked, replies>>

\* Then every request is where it was.
LEMMA KeepPlaces ==
  ASSUME Inv, PlacesKept
  PROVE  \A r \in Reqs : InOnePlace(r)' /\ Answered(r)'
<1> SUFFICES ASSUME NEW r \in Reqs PROVE InOnePlace(r)' /\ Answered(r)'
  OBVIOUS
<1>1. InOnePlace(r) /\ Answered(r)
  BY DEF Inv
<1>2. InOnePlace(r)'
  BY <1>1 DEF InOnePlace, PlacesKept
<1>3. Answered(r)'
  BY <1>1 DEF Answered, Answers, PlacesKept
<1> QED BY <1>2, <1>3

\* And the counters stay exact.
LEMMA KeepCounts ==
  ASSUME Inv, PlacesKept, UNCHANGED <<invocations, activeInvocations>>
  PROVE  \A p \in Procs : Counted(p)'
<1> SUFFICES ASSUME NEW p \in Procs PROVE Counted(p)'
  OBVIOUS
<1>1. Counted(p)
  BY DEF Inv
<1> QED BY <1>1 DEF Counted, PlacesKept

\* A thread that is inside an operation on a process has one.
LEMMA OnProcess ==
  ASSUME Inv, NEW t \in Threads, pc[t] \notin {"idle", "create"}
  PROVE  /\ on[t] \in Procs
         /\ t = Worker => pc[t] = "add"
         /\ \A p \in Procs : t = Backend(p) => on[t] = p
         /\ \A c \in Procs : t = Io(c) => on[t] = context[c]
<1>1. CASE t = Worker
  BY <1>1, ThreadFacts DEF Inv, Threaded
<1>2. ASSUME NEW p \in Procs, t = Backend(p)
      PROVE  on[t] = p
  BY <1>2 DEF Inv, Threaded
<1>3. ASSUME NEW c \in Procs, t = Io(c)
      PROVE  on[t] = context[c] /\ context[c] \in Procs
  BY <1>3 DEF Inv, Threaded, TypeOK
<1> QED BY <1>1, <1>2, <1>3, ThreadFacts

\* The elements of a list.
LEMMA ListAsSet ==
  ASSUME Inv, NEW p \in Procs
  PROVE  /\ ToSet(invocations[p]) \in SUBSET Reqs
         /\ \A r : r \in ToSet(invocations[p]) <=> InList(p, r)
<1> DEFINE l == invocations[p]
<1>1. l \in Seq(Reqs) /\ DOMAIN l = 1..Len(l) /\ \A i \in 1..Len(l) : l[i] \in Reqs
  BY DEF Inv, TypeOK
<1> HIDE DEF l
<1>2. \A r : r \in ToSet(l) <=> \E i \in 1..Len(l) : l[i] = r
  BY <1>1 DEF ToSet
<1>3. ToSet(l) \in SUBSET Reqs
  BY <1>1, <1>2
<1> QED BY <1>2, <1>3 DEF l, InList

\* What is sent reaches at most the container of the process.
LEMMA SendFacts ==
  ASSUME TypeOK, NEW p \in Procs, connection[p] \in Procs, NEW rs \in SUBSET Reqs, Send(p, rs)
  PROVE  /\ submitted' \subseteq Reqs
         /\ sent' \in [Reqs -> Nat]
         /\ inbox' \in [Procs -> [Reqs -> Nat]]
         /\ \A c \in Procs : c # connection[p] => inbox'[c] = inbox[c]
<1>1. submitted' \subseteq Reqs /\ sent' \in [Reqs -> Nat]
  <2>1. submitted' \subseteq Reqs
    BY DEF Send, TypeOK
  <2>2. \A r \in Reqs : sent[r] \in Nat /\ sent[r] + 1 \in Nat
    BY DEF TypeOK
  <2>3. sent' = [r \in Reqs |-> IF r \in rs THEN sent[r] + 1 ELSE sent[r]]
    BY DEF Send
  <2> QED BY <2>1, <2>2, <2>3
<1> DEFINE k == connection[p]
           more == [r \in Reqs |-> IF r \in rs THEN inbox[k][r] + 1 ELSE inbox[k][r]]
<1>2. inbox[k] \in [Reqs -> Nat] /\ more \in [Reqs -> Nat]
  BY DEF TypeOK
<1>3. inbox' = [inbox EXCEPT ![k] = IF container[k] = "registered" THEN more ELSE inbox[k]]
  BY DEF Send
<1> HIDE DEF more, k
<1>4. k \in Procs
  BY DEF k
<1> QED BY <1>1, <1>2, <1>3, <1>4 DEF TypeOK, k

\* The types of what belongs to threads.
ThreadTypes ==
  /\ pc \in [Threads -> {"idle", "create", "add", "scan", "check", "call", "clear",
                         "emplace", "erase", "dangling"}]
  /\ on \in [Threads -> Procs \cup {None}]
  /\ req \in [Threads -> Reqs \cup {None}]

\* The other threads stay where they are.
OthersStay(t) ==
  \A u \in Threads : u # t => pc'[u] = pc[u] /\ on'[u] = on[u] /\ req'[u] = req[u]

\* A thread that goes on keeps its process and its request.
LEMMA GotoFacts ==
  ASSUME ThreadTypes, NEW t \in Threads,
         Goto(t, "check") \/ Goto(t, "call") \/ Goto(t, "clear") \/ Goto(t, "emplace")
  PROVE  /\ ThreadTypes' /\ OthersStay(t)
         /\ on'[t] = on[t] /\ req'[t] = req[t]
         /\ Goto(t, "check") => pc'[t] = "check"
         /\ Goto(t, "call") => pc'[t] = "call"
         /\ Goto(t, "clear") => pc'[t] = "clear"
         /\ Goto(t, "emplace") => pc'[t] = "emplace"
BY DEF ThreadTypes, OthersStay, Goto

\* A thread that is done has neither.
LEMMA DoneFacts ==
  ASSUME ThreadTypes, NEW t \in Threads, Done(t)
  PROVE  ThreadTypes' /\ OthersStay(t) /\ pc'[t] = "idle" /\ on'[t] = None /\ req'[t] = None
BY DEF ThreadTypes, OthersStay, Done

\* The container is not registered yet, whether it was reported or not.
LEMMA ContainerStartPreserves ==
  ASSUME Inv, NEW p \in Procs, ContainerStart(p) \/ LateStart(p)
  PROVE  Inv'
<1> USE ThreadFacts, InvocationsAssumption DEF procVars, tcpVars, threadVars, histVars
<1>1. /\ container[p] = "none" /\ container' = [container EXCEPT ![p] = "running"]
      /\ UNCHANGED <<procVars, controlplane, tcpVars, backend, inbox, threadVars, histVars, fault>>
  BY DEF ContainerStart, LateStart
<1>2. TypeOK'
  BY <1>1 DEF Inv, TypeOK
<1>3. Threaded' /\ Waiting' /\ Listed'
  BY <1>1 DEF Inv, Threaded, Waiting, Queued, Listed
<1>4. \A d \in Procs : Linked(d)'
  BY <1>1 DEF Inv, TypeOK, Linked
<1>5. \A q \in Procs : Moved(q)'
  BY <1>1 DEF Inv, Moved
<1>6. PlacesKept
  BY <1>1 DEF PlacesKept, InWorker, InCallback, InList, Once, Erases
<1> QED BY <1>1, <1>2, <1>3, <1>4, <1>5, <1>6, KeepPlaces, KeepCounts DEF Inv

\* The thread of the backend starts on the process it answers for.
LEMMA BackendCreatedPreserves ==
  ASSUME Inv, NEW p \in Procs, BackendCreated(p)
  PROVE  Inv'
<1> USE ThreadFacts, InvocationsAssumption DEF BackendCreated, tcpVars, histVars
<1>1. TypeOK'
  BY DEF Inv, TypeOK
<1>2. Threaded'
  BY DEF Inv, TypeOK, Threaded
<1>3. Waiting' /\ \A d \in Procs : Linked(d)'
  BY DEF Inv, Waiting, Queued, Linked
<1>4. Listed'
  BY SMTT(30) DEF Inv, TypeOK, Listed, Threaded
<1>5. \A q \in Procs : Moved(q)'
  BY DEF Inv, TypeOK, Moved
<1>6. PlacesKept
  BY DEF Inv, TypeOK, PlacesKept, InWorker, InCallback, InList, Once, Erases
<1> QED BY <1>1, <1>2, <1>3, <1>4, <1>5, <1>6, KeepPlaces, KeepCounts DEF Inv

\* The process enters the list: the backend answered once.
LEMMA EmplaceProcessPreserves ==
  ASSUME Inv, NEW p \in Procs, EmplaceProcess(p)
  PROVE  Inv'
<1> USE ThreadFacts, InvocationsAssumption
    DEF EmplaceProcess, Done, procVars, tcpVars, envVars, threadVars, histVars
<1>0. /\ controlplane' \in Seq(Procs)
      /\ Len(controlplane') = Len(controlplane) + 1
      /\ controlplane'[Len(controlplane) + 1] = p
      /\ \A i \in 1..Len(controlplane) : controlplane'[i] = controlplane[i]
      /\ Len(controlplane) \in Nat
  BY AppendFacts DEF Inv, TypeOK
<1>1. TypeOK'
  BY <1>0 DEF Inv, TypeOK
<1>2. Threaded'
  BY DEF Inv, TypeOK, Threaded
<1>3. Waiting'
  BY DEF Inv, Waiting, Queued
<1>4. \A d \in Procs : Linked(d)'
  BY DEF Inv, Linked
<1>5. Listed'
  <2> DEFINE s == controlplane
             n == Len(controlplane)
  <2>1. Listed /\ pc[Backend(p)] = "emplace" /\ backend[p] = "answered"
    BY DEF Inv, Threaded
  <2>2. /\ pc'[Backend(p)] = "idle"
        /\ \A q \in Procs : q # p => pc'[Backend(q)] = pc[Backend(q)]
    BY DEF Inv, TypeOK
  <2> HIDE DEF n
  <2>3. \A i \in 1..n + 1 : i \in 1..n \/ i = n + 1
    BY <1>0 DEF n
  <2>4. \A i \in 1..n : s[i] # p /\ s[i] \in Procs
    BY <2>1, SMTT(30) DEF n, Listed, Inv, TypeOK
  <2>5. \A i, j \in 1..n + 1 : controlplane'[i] = controlplane'[j] => i = j
    BY <1>0, <2>1, <2>3, <2>4, SMTT(30) DEF n, Listed
  <2>6. \A i \in 1..n + 1 : backend[controlplane'[i]] = "answered" /\ pc'[Backend(controlplane'[i])] = "idle"
    BY <1>0, <2>1, <2>2, <2>3, <2>4 DEF n, Listed
  <2> QED BY <1>0, <2>1, <2>5, <2>6 DEF n, Listed
<1>6. \A q \in Procs : Moved(q)'
  BY DEF Inv, TypeOK, Moved
<1>7. PlacesKept
  BY DEF Inv, TypeOK, PlacesKept, InWorker, InCallback, InList, Once, Erases
<1> QED BY <1>1, <1>2, <1>3, <1>4, <1>5, <1>6, <1>7, KeepPlaces, KeepCounts DEF Inv

\* A process goes from the queue into the map of pending processes.
LEMMA PollerAddProcessPreserves ==
  ASSUME Inv, PollerAddProcess
  PROVE  Inv'
<1> USE ThreadFacts, InvocationsAssumption
    DEF PollerAddProcess, procVars, tcpVars, envVars, threadVars, histVars
<1>0. PICK p \in Procs : p = Head(loopTasks)
  BY DEF Inv, TypeOK
<1>1. /\ number[p] \in Numbers
      /\ loopTasks' \in Seq(Procs)
      /\ Len(loopTasks') = Len(loopTasks) - 1
      /\ Len(loopTasks) \in Nat
      /\ \A i \in 1..Len(loopTasks) - 1 :
           loopTasks'[i] = loopTasks[i + 1] /\ i + 1 \in 1..Len(loopTasks)
      /\ 1 \in 1..Len(loopTasks) /\ loopTasks[1] = p
  BY <1>0 DEF Inv, TypeOK
<1>2. \/ pending' = [pending EXCEPT ![number[p]] = p] /\ fault' = fault
      \/ pending' = pending /\ fault' = "exception"
  BY <1>0
<1>3. TypeOK'
  <2>1. pending' \in [Numbers -> Procs \cup {None}] /\ fault' \in {"none", "exception", "undefined"}
    BY <1>1, <1>2, ZenonT(60) DEF Inv, TypeOK
  <2> QED BY <1>1, <2>1 DEF Inv, TypeOK
<1>4. Threaded'
  BY DEF Inv, Threaded
<1>5. Waiting'
  <2>1. Queued(p) /\ status[p] = "ALLOCATING"
    BY <1>1 DEF Inv, Waiting, Queued
  <2>2. \A q \in Procs : Queued(q)' => Queued(q) /\ q # p
    <3> SUFFICES ASSUME NEW q \in Procs, NEW i \in 1..Len(loopTasks) - 1, loopTasks[i + 1] = q
                 PROVE  Queued(q) /\ q # p
      BY <1>1 DEF Queued
    <3>1. i + 1 \in 1..Len(loopTasks) /\ i + 1 # 1
      BY <1>1
    <3> QED BY <1>1, <3>1 DEF Inv, Waiting, Queued
  <2>3. \A i, j \in 1..Len(loopTasks') : loopTasks'[i] = loopTasks'[j] => i = j
    <3> SUFFICES ASSUME NEW i \in 1..Len(loopTasks) - 1, NEW j \in 1..Len(loopTasks) - 1,
                        loopTasks[i + 1] = loopTasks[j + 1]
                 PROVE  i = j
      BY <1>1
    <3>1. i + 1 = j + 1
      BY <1>1 DEF Inv, Waiting
    <3> QED BY <3>1
  <2>4. \A n \in Numbers, q \in Procs : pending'[n] = q =>
          pending[n] = q \/ (n = number[p] /\ q = p)
    BY <1>1, <1>2 DEF Inv, TypeOK
  <2>5. ASSUME NEW n \in Numbers, NEW q \in Procs, pending'[n] = q
        PROVE  number[q] = n /\ ~Queued(q)' /\ status[q] = "ALLOCATING"
    BY <2>1, <2>2, <2>4, <2>5 DEF Inv, Waiting
  <2>6. \A q \in Procs : Queued(q)' => status[q] = "ALLOCATING"
    BY <2>2 DEF Inv, Waiting
  <2>7. number' = number /\ status' = status
    OBVIOUS
  <2> QED BY <2>3, <2>5, <2>6, <2>7 DEF Waiting
<1>6. \A d \in Procs : Linked(d)'
  BY DEF Inv, Linked
<1>7. Listed'
  BY DEF Inv, Listed
<1>8. \A q \in Procs : Moved(q)'
  BY DEF Inv, Moved
<1>9. PlacesKept
  BY DEF PlacesKept, InWorker, InCallback, InList, Once, Erases
<1> QED BY <1>3, <1>4, <1>5, <1>6, <1>7, <1>8, <1>9, KeepPlaces, KeepCounts DEF Inv

\* The connection and the process find each other; what waits is ALLOCATING, so
\* Process::connect does not throw.
LEMMA HandleConnectionPreserves ==
  ASSUME Inv, NEW c \in Procs, HandleConnection(c)
  PROVE  Inv'
<1> USE ThreadFacts, InvocationsAssumption DEF procVars, tcpVars, envVars, threadVars, histVars
<1>0. /\ number[c] \in Numbers
      /\ pending[number[c]] \in Procs \cup {None}
      /\ container[c] = "running"
      /\ context[c] = None
      /\ pc[Io(c)] = "idle"
  <2>1. number[c] \in Numbers /\ pending[number[c]] \in Procs \cup {None}
    BY DEF Inv, TypeOK
  <2>2. container[c] = "running"
    BY DEF HandleConnection
  <2>3. context[c] = None
    BY <2>2 DEF Inv, Linked
  <2> QED BY <2>1, <2>2, <2>3 DEF Inv, Threaded
<1>1. CASE pending[number[c]] = None
  <2>1. /\ container' = [container EXCEPT ![c] = "ignored"]
        /\ UNCHANGED <<procVars, pc, on, fault, tcpVars, controlplane, backend, inbox, req,
                        histVars>>
    BY <1>1 DEF HandleConnection
  <2>2. TypeOK'
    BY <2>1 DEF Inv, TypeOK
  <2>3. Threaded' /\ Waiting' /\ Listed'
    BY <2>1 DEF Inv, Threaded, Waiting, Queued, Listed
  <2>4. \A d \in Procs : Linked(d)'
    BY <1>0, <2>1 DEF Inv, TypeOK, Linked
  <2>5. \A q \in Procs : Moved(q)'
    BY <2>1 DEF Inv, Moved
  <2>6. PlacesKept
    BY <2>1 DEF PlacesKept, InWorker, InCallback, InList, Once, Erases
  <2> QED BY <2>1, <2>2, <2>3, <2>4, <2>5, <2>6, KeepPlaces, KeepCounts DEF Inv
<1>2. CASE pending[number[c]] # None
  <2>0. PICK q \in Procs : pending[number[c]] = q
    BY <1>0, <1>2
  <2>1. status[q] = "ALLOCATING" /\ number[q] = number[c] /\ ~Queued(q)
    BY <1>0, <2>0 DEF Inv, Waiting
  <2>2. /\ pending' = [pending EXCEPT ![number[c]] = None]
        /\ context' = [context EXCEPT ![c] = q]
        /\ container' = [container EXCEPT ![c] = "registered"]
        /\ status' = [status EXCEPT ![q] = "ALLOCATED"]
        /\ connection' = [connection EXCEPT ![q] = c]
        /\ pc' = [pc EXCEPT ![Io(c)] = "scan"]
        /\ on' = [on EXCEPT ![Io(c)] = q]
        /\ UNCHANGED <<number, handle, creation, invocations, submitted, activeInvocations,
                       controlplane, loopTasks, backend, inbox, req, sent, replies, asked, fault>>
        /\ raced' \in {raced, raced \cup ToSet(invocations[q])}
    BY <1>2, <2>0, <2>1 DEF HandleConnection
  <2>3. \A d \in Procs : context[d] # q
    BY <2>1 DEF Inv, Linked
  <2>4. connection[q] = None
    BY <2>1, <2>3 DEF Inv, Linked, TypeOK
  <2>5. TypeOK'
    <3>1. /\ pc' \in [Threads -> {"idle", "create", "add", "scan", "check", "call", "clear",
                         "emplace", "erase", "dangling"}]
          /\ on' \in [Threads -> Procs \cup {None}]
      BY <2>2 DEF Inv, TypeOK
    <3>2. /\ status' \in [Procs -> {"unused", "ALLOCATING", "ALLOCATED", "FAILURE"}]
          /\ connection' \in [Procs -> Procs \cup {None}]
          /\ pending' \in [Numbers -> Procs \cup {None}]
          /\ context' \in [Procs -> Procs \cup {None}]
          /\ container' \in [Procs -> {"none", "running", "registered", "ignored", "gone"}]
      BY <2>2 DEF Inv, TypeOK
    <3>3. raced' \subseteq Reqs
      <4>1. raced \subseteq Reqs /\ ToSet(invocations[q]) \subseteq Reqs
        BY ListAsSet DEF Inv, TypeOK
      <4> QED BY <2>2, <4>1
    <3> QED BY <2>2, <3>1, <3>2, <3>3 DEF Inv, TypeOK
  <2>6. Threaded'
    <3>1. \A t \in Threads : t # Io(c) => pc'[t] = pc[t] /\ on'[t] = on[t] /\ req'[t] = req[t]
      BY <2>2 DEF Inv, TypeOK
    <3>2. pc'[Io(c)] = "scan" /\ on'[Io(c)] = q /\ context'[c] = q
      BY <2>2 DEF Inv, TypeOK
    <3>3. \A d \in Procs : d # c => context'[d] = context[d]
      BY <2>2 DEF Inv, TypeOK
    <3>4. backend' = backend
      BY <2>2
    <3> QED BY <3>1, <3>2, <3>3, <3>4 DEF Inv, Threaded
  <2>7. Waiting'
    <3>1. \A p \in Procs : Queued(p)' <=> Queued(p)
      BY <2>2 DEF Queued
    <3>2. \A n \in Numbers, p \in Procs : pending'[n] = p => pending[n] = p /\ n # number[c]
      BY <2>2 DEF Inv, TypeOK
    <3>3. \A p \in Procs : p # q => status'[p] = status[p]
      BY <2>2 DEF Inv, TypeOK
    <3>4. \A n \in Numbers, p \in Procs : pending'[n] = p =>
             number'[p] = n /\ ~Queued(p)' /\ status'[p] = "ALLOCATING"
      BY <2>1, <2>2, <3>1, <3>2, <3>3 DEF Inv, Waiting
    <3>5. \A p \in Procs : Queued(p)' => status'[p] = "ALLOCATING"
      BY <3>1, <3>3, <2>1 DEF Inv, Waiting
    <3>6. loopTasks' = loopTasks
      BY <2>2
    <3> QED BY <3>4, <3>5, <3>6 DEF Inv, Waiting
  <2>8. \A d \in Procs : Linked(d)'
    BY <1>0, <2>1, <2>2, <2>3, <2>4, SMTT(30) DEF Inv, TypeOK, Linked
  <2>9. Listed'
    <3>1. \A p \in Procs : status'[p] = "unused" => status[p] = "unused"
      BY <2>2 DEF Inv, TypeOK
    <3>2. \A p \in Procs : pc'[Backend(p)] = pc[Backend(p)]
      BY <2>2 DEF Inv, TypeOK
    <3>3. UNCHANGED <<controlplane, backend, creation>>
      BY <2>2
    <3>4. \A i \in 1..Len(controlplane) : controlplane[i] \in Procs
      BY DEF Inv, TypeOK
    <3> QED BY <3>1, <3>2, <3>3, <3>4 DEF Inv, Listed
  <2>10. \A p \in Procs : Moved(p)'
    <3>1. \A p \in Procs : pc'[Backend(p)] = pc[Backend(p)]
      BY <2>2 DEF Inv, TypeOK
    <3>2. \A d \in Procs : d # c => context'[d] = context[d] /\ pc'[Io(d)] = pc[Io(d)]
      BY <2>2 DEF Inv, TypeOK
    <3>3. pc'[Io(c)] = "scan" /\ creation' = creation
      BY <2>2 DEF Inv, TypeOK
    <3> QED BY <3>1, <3>2, <3>3 DEF Inv, Moved
  <2>11. PlacesKept
    <3>1. \A d \in Procs : d # c => context'[d] = context[d] /\ pc'[Io(d)] = pc[Io(d)]
      BY <2>2 DEF Inv, TypeOK
    <3>2. pc'[Io(c)] = "scan" /\ pc'[Worker] = pc[Worker]
      BY <2>2 DEF Inv, TypeOK
    <3>3. UNCHANGED <<creation, invocations, req, asked, replies>>
      BY <2>2
    <3> QED BY <1>0, <3>1, <3>2, <3>3 DEF PlacesKept, InWorker, InCallback, InList, Once, Erases
  <2> QED BY <2>2, <2>5, <2>6, <2>7, <2>8, <2>9, <2>10, <2>11, KeepPlaces, KeepCounts DEF Inv
<1> QED BY <1>1, <1>2

\* The process of an I/O thread is the one of its connection, and has it.
LEMMA IoProcess ==
  ASSUME Inv, NEW c \in Procs, pc[Io(c)] # "idle"
  PROVE  on[Io(c)] \in Procs /\ on[Io(c)] = context[c] /\ connection[on[Io(c)]] = c
BY DEF Inv, Threaded, TypeOK, Linked

\* connect sends what it finds and goes on.
LEMMA SendInvocationsPreserves ==
  ASSUME Inv, NEW c \in Procs, SendInvocations(c)
  PROVE  Inv'
<1> USE ThreadFacts, InvocationsAssumption DEF tcpVars, histVars
<1>1. PICK p \in Procs : p = on[Io(c)] /\ p = context[c] /\ connection[p] = c
  BY IoProcess DEF SendInvocations
<1>2. ToSet(invocations[p]) \ submitted \in SUBSET Reqs
  BY DEF Inv, TypeOK, ToSet
<1>3. Send(p, ToSet(invocations[p]) \ submitted)
  BY <1>1 DEF SendInvocations
<1>4. /\ submitted' \subseteq Reqs
      /\ sent' \in [Reqs -> Nat]
      /\ inbox' \in [Procs -> [Reqs -> Nat]]
      /\ \A d \in Procs : d # c => inbox'[d] = inbox[d]
  BY <1>1, <1>2, <1>3, SendFacts DEF Inv
<1>5. /\ pc[Io(c)] = "scan" /\ pc' = [pc EXCEPT ![Io(c)] = "check"]
      /\ UNCHANGED <<on, req, status, number, handle, creation, invocations, activeInvocations,
                     connection, controlplane, tcpVars, backend, container, replies, asked, raced,
                     fault>>
  BY DEF SendInvocations, Goto
<1>6. TypeOK'
  BY <1>4, <1>5 DEF Inv, TypeOK
<1>7. Threaded'
  BY <1>5 DEF Inv, TypeOK, Threaded
<1>8. Waiting'
  BY <1>5 DEF Inv, Waiting, Queued
<1>9. \A d \in Procs : Linked(d)'
  BY <1>1, <1>4, <1>5 DEF Inv, Linked
<1>10. Listed'
  BY <1>5, SMTT(30) DEF Inv, TypeOK, Listed
<1>11. \A q \in Procs : Moved(q)'
  BY <1>5 DEF Inv, TypeOK, Moved
<1>12. PlacesKept
  BY <1>5 DEF Inv, TypeOK, PlacesKept, InWorker, InCallback, InList, Once, Erases
<1> QED BY <1>5, <1>6, <1>7, <1>8, <1>9, <1>10, <1>11, <1>12, KeepPlaces, KeepCounts DEF Inv

\* The container is gone, and what it was sent with it.
LEMMA DisconnectPreserves ==
  ASSUME Inv, NEW c \in Procs, Disconnect(c)
  PROVE  Inv'
<1> USE ThreadFacts, InvocationsAssumption DEF Disconnect, tcpVars, threadVars, histVars
<1>1. TypeOK'
  BY DEF Inv, TypeOK
<1>2. \A p \in Procs : status'[p] = status[p] \/ (status'[p] = "FAILURE" /\ context[c] = p)
  BY DEF Inv, TypeOK
<1>3. Threaded'
  BY DEF Inv, Threaded
<1>4. Waiting'
  <2>1. \A p \in Procs : status[p] = "ALLOCATING" => status'[p] = "ALLOCATING"
    BY <1>2 DEF Inv, Linked
  <2>2. number' = number /\ pending' = pending /\ loopTasks' = loopTasks
    OBVIOUS
  <2> QED BY <2>1, <2>2 DEF Inv, Waiting, Queued
<1>5. \A d \in Procs : Linked(d)'
  BY <1>2 DEF Inv, TypeOK, Linked
<1>6. Listed'
  <2>1. \A p \in Procs : status'[p] = "unused" => status[p] = "unused"
    BY <1>2
  <2> QED BY <2>1 DEF Inv, Listed
<1>7. \A q \in Procs : Moved(q)'
  BY DEF Inv, Moved
<1>8. PlacesKept
  BY DEF PlacesKept, InWorker, InCallback, InList, Once, Erases
<1> QED BY <1>1, <1>3, <1>4, <1>5, <1>6, <1>7, <1>8, KeepPlaces, KeepCounts DEF Inv

\* add_invocation sends the last invocation; the process stays as it is.
LEMMA SendLastPreserves ==
  ASSUME Inv, NEW t \in Threads, SendLast(t)
  PROVE  Inv'
<1> USE ThreadFacts, InvocationsAssumption DEF tcpVars, histVars
<1>1. pc[t] = "add" /\ on[t] \in Procs
  BY OnProcess DEF SendLast
<1>2. PICK p \in Procs : p = on[t]
  BY <1>1
<1>3. /\ UNCHANGED <<status, number, handle, creation, invocations, activeInvocations, connection,
                     controlplane, tcpVars, backend, container, replies, asked, raced>>
      /\ fault' \in {fault, "undefined"}
  BY DEF SendLast
<1>4. \/ UNCHANGED <<submitted, sent, inbox>>
      \/ status[p] = "ALLOCATED" /\ invocations[p] # <<>> /\ Send(p, {Last(invocations[p])})
  BY <1>2 DEF SendLast
<1>5. /\ submitted' \subseteq Reqs
      /\ sent' \in [Reqs -> Nat]
      /\ inbox' \in [Procs -> [Reqs -> Nat]]
      /\ \A d \in Procs : inbox'[d] = inbox[d] \/ (connection[p] = d /\ connection[p] # None)
  <2>1. CASE UNCHANGED <<submitted, sent, inbox>>
    BY <2>1 DEF Inv, TypeOK
  <2>2. CASE status[p] = "ALLOCATED" /\ invocations[p] # <<>> /\ Send(p, {Last(invocations[p])})
    <3>1. connection[p] \in Procs
      BY <2>2 DEF Inv, TypeOK, Linked
    <3>2. {Last(invocations[p])} \in SUBSET Reqs
      BY <2>2 DEF Inv, TypeOK, Last
    <3> QED BY <2>2, <3>1, <3>2, SendFacts DEF Inv
  <2> QED BY <1>4, <2>1, <2>2
<1>6. (t = Worker => Done(t)) /\ (t # Worker => Goto(t, "clear"))
  BY DEF SendLast
<1>7. /\ ThreadTypes' /\ OthersStay(t)
      /\ t = Worker => pc'[t] = "idle"
      /\ t # Worker => pc'[t] = "clear" /\ on'[t] = on[t] /\ req'[t] = req[t]
  <2>1. ThreadTypes
    BY DEF Inv, TypeOK, ThreadTypes
  <2> QED BY <1>6, <2>1, GotoFacts, DoneFacts
<1>8. TypeOK'
  BY <1>3, <1>5, <1>7 DEF Inv, TypeOK, ThreadTypes
<1>9. Threaded'
  BY <1>1, <1>3, <1>7 DEF Inv, Threaded, OthersStay
<1>10. Waiting'
  BY <1>3 DEF Inv, Waiting, Queued
<1>11. \A d \in Procs : Linked(d)'
  BY <1>3, <1>5 DEF Inv, Linked
<1>12. Listed'
  <2>1. \A i \in 1..Len(controlplane) : controlplane[i] \in Procs
    BY DEF Inv, TypeOK
  <2>2. \A q \in Procs : pc[Backend(q)] = "idle" => pc'[Backend(q)] = "idle"
    BY <1>1, <1>7 DEF OthersStay
  <2> QED BY <1>3, <2>1, <2>2 DEF Inv, Listed
<1>13. \A q \in Procs : Moved(q)'
  BY <1>1, <1>3, <1>7 DEF Inv, Moved, OthersStay
<1>14. PlacesKept
  BY <1>1, <1>3, <1>7 DEF OthersStay, PlacesKept, InWorker, InCallback, InList, Once, Erases
<1> QED BY <1>3, <1>8, <1>9, <1>10, <1>11, <1>12, <1>13, <1>14, KeepPlaces, KeepCounts DEF Inv

\* created_callback looks at the process.
LEMMA CheckCreatedPreserves ==
  ASSUME Inv, NEW t \in Threads, CheckCreated(t)
  PROVE  Inv'
<1> USE ThreadFacts, InvocationsAssumption DEF procVars, tcpVars, envVars, histVars
<1>1. pc[t] = "check" /\ t # Worker
  BY OnProcess DEF CheckCreated
<1>2. UNCHANGED <<procVars, controlplane, tcpVars, envVars, histVars, fault>>
  BY DEF CheckCreated
<1>3. /\ ThreadTypes' /\ OthersStay(t)
      /\ \/ pc'[t] \in {"call", "emplace"} /\ on'[t] = on[t] /\ t[1] = "backend"
         \/ pc'[t] \in {"call", "idle"} /\ (pc'[t] = "call" => on'[t] = on[t]) /\ t[1] # "backend"
  <2>1. ThreadTypes
    BY DEF Inv, TypeOK, ThreadTypes
  <2>2. \/ Goto(t, "call")
        \/ t[1] = "backend" /\ Goto(t, "emplace")
        \/ t[1] # "backend" /\ Done(t)
    BY DEF CheckCreated, AfterCreated
  <2> QED BY <2>1, <2>2, GotoFacts, DoneFacts
<1>4. TypeOK'
  BY <1>2, <1>3 DEF Inv, TypeOK, ThreadTypes
<1>5. Threaded'
  BY <1>1, <1>2, <1>3 DEF Inv, Threaded, OthersStay
<1>6. Waiting' /\ \A d \in Procs : Linked(d)'
  BY <1>2 DEF Inv, Waiting, Queued, Linked
<1>7. Listed'
  <2>1. \A i \in 1..Len(controlplane) : controlplane[i] \in Procs
    BY DEF Inv, TypeOK
  <2>2. \A q \in Procs : pc[Backend(q)] = "idle" => pc'[Backend(q)] = "idle"
    BY <1>1, <1>3 DEF OthersStay
  <2> QED BY <1>2, <2>1, <2>2 DEF Inv, Listed
<1>8. \A q \in Procs : Moved(q)'
  BY <1>1, <1>2, <1>3 DEF Inv, Moved, OthersStay
<1>9. PlacesKept
  BY <1>1, <1>2, <1>3 DEF OthersStay, PlacesKept, InWorker, InCallback, InList, Once, Erases
<1> QED BY <1>2, <1>4, <1>5, <1>6, <1>7, <1>8, <1>9, KeepPlaces, KeepCounts DEF Inv

-----------------------------------------------------------------------------
(* Steps that move a request.                                               *)

\* Nothing happens to request s.
PlaceKept(s) ==
  /\ InWorker(s)' <=> InWorker(s)
  /\ \A p \in Procs :
       /\ InCallback(p, s)' <=> InCallback(p, s)
       /\ InList(p, s)' <=> InList(p, s)
       /\ Once(p, s) => Once(p, s)'
  /\ \A c \in Procs :
       /\ Answers(c, s)' <=> Answers(c, s)
       /\ Answers(c, s) => context'[c] = context[c]
  /\ s \in asked' <=> s \in asked
  /\ replies'[s] = replies[s]

\* Then it is where it was.
LEMMA KeepPlace ==
  ASSUME Inv, NEW s \in Reqs, PlaceKept(s)
  PROVE  InOnePlace(s)' /\ Answered(s)'
<1>1. InOnePlace(s) /\ Answered(s)
  BY DEF Inv
<1>2. InOnePlace(s)'
  BY <1>1 DEF InOnePlace, PlaceKept
<1>3. Answered(s)'
  BY <1>1 DEF Answered, PlaceKept
<1> QED BY <1>2, <1>3

\* One connection at most serves a process.
LEMMA OneConnection ==
  ASSUME Inv, NEW c \in Procs, NEW d \in Procs, context[c] = context[d], context[c] # None
  PROVE  c = d
<1>1. Linked(c) /\ Linked(d)
  BY DEF Inv
<1> QED BY <1>1 DEF Linked

\* The thread that answers a request is the one of the connection of the process
\* that has it, and there is one.
LEMMA OneAnswers ==
  ASSUME Inv, NEW r \in Reqs, NEW c \in Procs, Answers(c, r)
  PROVE  /\ context[c] \in Procs
         /\ InList(context[c], r)
         /\ replies[r] = 1
         /\ \A d \in Procs : Answers(d, r) => d = c
<1>1. \A d \in Procs : Answers(d, r) => context[d] \in Procs
  BY DEF Inv, TypeOK, Threaded, Answers, Erases
<1>2. \A d, p \in Procs : Answers(d, r) /\ context[d] = p => InList(p, r) /\ replies[r] = 1
  BY DEF Inv, Answered
<1>3. \A p, q \in Procs : InList(p, r) /\ InList(q, r) => p = q
  BY DEF Inv, InOnePlace
<1>4. PICK q \in Procs : q = context[c]
  BY <1>1
<1>5. \A d \in Procs : Answers(d, r) => context[d] = q
  BY <1>1, <1>2, <1>3, <1>4
<1>6. \A d \in Procs : Answers(d, r) => d = c
  BY <1>4, <1>5, OneConnection, InvocationsAssumption
<1> QED BY <1>2, <1>4, <1>6

\* An unanswered request that has arrived at nobody.
LEMMA NotAsked ==
  ASSUME Inv, NEW r \in Reqs, r \notin asked
  PROVE  /\ replies[r] = 0 /\ ~InWorker(r)
         /\ \A p \in Procs : ~InCallback(p, r) /\ ~InList(p, r)
         /\ \A c \in Procs : ~Answers(c, r)
<1>1. Answered(r)
  BY DEF Inv
<1>2. replies[r] = 0 /\ ~InWorker(r) /\ \A p \in Procs : ~InCallback(p, r) /\ ~InList(p, r)
  BY <1>1 DEF Answered
<1> QED BY <1>2, OneAnswers

\* The lists and the counters after r was appended to the list of p.
Added(p, r) ==
  /\ invocations' \in [Procs -> Seq(Reqs)]
  /\ Len(invocations'[p]) = Len(invocations[p]) + 1
  /\ \A q \in Procs : q # p => invocations'[q] = invocations[q]
  /\ \A q \in Procs, s \in Reqs : InList(q, s)' <=> InList(q, s) \/ (q = p /\ s = r)
  /\ \A q \in Procs, s \in Reqs : Once(q, s) => Once(q, s)'
  /\ activeInvocations' \in [Procs -> Nat]
  /\ activeInvocations'[p] = activeInvocations[p] + 1
  /\ \A q \in Procs : q # p => activeInvocations'[q] = activeInvocations[q]

\* The threads after t did so: an iterator may have become invalid.
AddedBy(t, p, r) ==
  /\ ThreadTypes'
  /\ raced' \subseteq Reqs
  /\ pc'[t] = "add" /\ on'[t] = p /\ req'[t] = r
  /\ \A u \in Threads : u # t =>
       /\ pc'[u] = pc[u] \/ (pc[u] = "erase" /\ pc'[u] = "dangling")
       /\ on'[u] = on[u] /\ req'[u] = req[u]

\* The first half of add_invocation.
LEMMA AddFacts ==
  ASSUME Inv, NEW t \in Threads, NEW p \in Procs, NEW r \in Reqs, ~InList(p, r),
         AddInvocation(t, p, r)
  PROVE  Added(p, r) /\ AddedBy(t, p, r)
<1>1. PICK reallocated \in BOOLEAN :
        pc' = [u \in Threads |->
                IF u = t THEN "add"
                ELSE IF reallocated /\ pc[u] = "erase" /\ on[u] = p THEN "dangling" ELSE pc[u]]
  BY DEF AddInvocation
<1>2. /\ invocations' = [invocations EXCEPT ![p] = Append(@, r)]
      /\ activeInvocations' = [activeInvocations EXCEPT ![p] = @ + 1]
      /\ on' = [on EXCEPT ![t] = p]
      /\ req' = [req EXCEPT ![t] = r]
  BY DEF AddInvocation
<1>3. /\ invocations' \in [Procs -> Seq(Reqs)]
      /\ Len(invocations'[p]) = Len(invocations[p]) + 1
      /\ \A q \in Procs : q # p => invocations'[q] = invocations[q]
      /\ \A q \in Procs, s \in Reqs : InList(q, s)' <=> InList(q, s) \/ (q = p /\ s = r)
      /\ \A q \in Procs, s \in Reqs : Once(q, s) => Once(q, s)'
  BY <1>2, ListAppended DEF Inv
<1>4. /\ activeInvocations' \in [Procs -> Nat]
      /\ activeInvocations'[p] = activeInvocations[p] + 1
      /\ \A q \in Procs : q # p => activeInvocations'[q] = activeInvocations[q]
  BY <1>2 DEF Inv, TypeOK
<1>5. /\ pc'[t] = "add"
      /\ \A u \in Threads : u # t => pc'[u] = pc[u] \/ (pc[u] = "erase" /\ pc'[u] = "dangling")
  BY <1>1
<1>6. /\ on'[t] = p /\ req'[t] = r
      /\ \A u \in Threads : u # t => on'[u] = on[u] /\ req'[u] = req[u]
  BY <1>2 DEF Inv, TypeOK
<1>7. pc' \in [Threads -> {"idle", "create", "add", "scan", "check", "call", "clear",
                           "emplace", "erase", "dangling"}]
  <2>1. \A u \in Threads : pc'[u] \in {"idle", "create", "add", "scan", "check", "call", "clear",
                           "emplace", "erase", "dangling"}
    BY <1>5 DEF Inv, TypeOK
  <2>2. pc' = [u \in Threads |-> pc'[u]]
    BY <1>1
  <2> QED BY <2>1, <2>2
<1>8. ThreadTypes'
  BY <1>2, <1>7 DEF Inv, TypeOK, ThreadTypes
<1>9. raced' \subseteq Reqs
  <2>1. raced \subseteq Reqs /\ ToSet(invocations[p]) \subseteq Reqs
    BY ListAsSet DEF Inv, TypeOK
  <2>2. raced' \in {raced, raced \cup ToSet(invocations[p]) \cup {r}}
    BY DEF AddInvocation
  <2> QED BY <2>1, <2>2
<1> QED BY <1>3, <1>4, <1>5, <1>6, <1>8, <1>9 DEF Added, AddedBy

\* The counters follow.
LEMMA AddCounts ==
  ASSUME Inv, NEW p \in Procs, NEW r \in Reqs, UNCHANGED context,
         \A c \in Procs : Erases(c)' <=> Erases(c), Added(p, r)
  PROVE  \A q \in Procs : Counted(q)'
<1> SUFFICES ASSUME NEW q \in Procs PROVE Counted(q)'
  OBVIOUS
<1>1. Counted(q) /\ activeInvocations[q] \in Nat /\ Len(invocations[q]) \in Nat
  BY DEF Inv, TypeOK
<1>2. CASE q = p
  BY <1>1, <1>2 DEF Counted, Added
<1>3. CASE q # p
  BY <1>1, <1>3 DEF Counted, Added
<1> QED BY <1>2, <1>3

\* The application does not exist: the request is answered at once.
LEMMA UnknownApplicationPreserves ==
  ASSUME Inv, NEW r \in Reqs, UnknownApplication(r)
  PROVE  Inv'
<1> USE ThreadFacts, InvocationsAssumption
    DEF UnknownApplication, Arrive, procVars, tcpVars, envVars, threadVars
<1>1. TypeOK'
  BY DEF Inv, TypeOK
<1>2. Threaded' /\ Waiting' /\ Listed'
  BY DEF Inv, Threaded, Waiting, Queued, Listed
<1>3. \A d \in Procs : Linked(d)' /\ Moved(d)' /\ Counted(d)'
  BY DEF Inv, Linked, Moved, Counted, Erases
<1>4. \A s \in Reqs : s # r => PlaceKept(s)
  BY DEF Inv, TypeOK, PlaceKept, InWorker, InCallback, InList, Once, Answers, Erases
<1>5. InOnePlace(r)'
  BY DEF Inv, InOnePlace, InWorker, InCallback, InList, Once
<1>6. Answered(r)'
  <2>1. /\ replies[r] = 0 /\ ~InWorker(r)
        /\ \A p \in Procs : ~InCallback(p, r) /\ ~InList(p, r)
        /\ \A c \in Procs : ~Answers(c, r)
    BY NotAsked
  <2>2. /\ ~InWorker(r)' /\ \A p \in Procs : ~InCallback(p, r)' /\ ~InList(p, r)'
        /\ \A c \in Procs : ~Answers(c, r)'
    BY <2>1 DEF InWorker, InCallback, InList, Answers, Erases
  <2>3. replies'[r] = 1 /\ r \in asked'
    BY <2>1 DEF Inv, TypeOK
  <2> QED BY <2>2, <2>3 DEF Answered
<1> QED BY <1>1, <1>2, <1>3, <1>4, <1>5, <1>6, KeepPlace DEF Inv

\* The worker keeps the request while it creates a process.
LEMMA SelectNonePreserves ==
  ASSUME Inv, NEW r \in Reqs, SelectNone(r)
  PROVE  Inv'
<1> USE ThreadFacts, InvocationsAssumption DEF SelectNone, Arrive, procVars, tcpVars, envVars
<1>1. TypeOK'
  BY DEF Inv, TypeOK
<1>2. /\ pc'[Worker] = "create" /\ req'[Worker] = r
      /\ \A u \in Threads : u # Worker => pc'[u] = pc[u] /\ on'[u] = on[u] /\ req'[u] = req[u]
  BY DEF Inv, TypeOK
<1>3. Threaded'
  BY <1>2 DEF Inv, Threaded
<1>4. Waiting' /\ \A d \in Procs : Linked(d)'
  BY DEF Inv, Waiting, Queued, Linked
<1>5. Listed'
  BY <1>2, SMTT(30) DEF Inv, TypeOK, Listed
<1>6. \A d \in Procs : Moved(d)' /\ Counted(d)'
  BY <1>2 DEF Inv, Moved, Counted, Erases
<1>7. \A s \in Reqs : s # r => PlaceKept(s)
  BY <1>2 DEF PlaceKept, InWorker, InCallback, InList, Once, Answers, Erases
<1>8. /\ replies[r] = 0
      /\ \A p \in Procs : ~InCallback(p, r) /\ ~InList(p, r)
      /\ \A c \in Procs : ~Answers(c, r)
  BY NotAsked
<1>9. /\ InWorker(r)' /\ \A p \in Procs : ~InCallback(p, r)' /\ ~InList(p, r)' /\ Once(p, r)'
      /\ \A c \in Procs : ~Answers(c, r)'
  BY <1>2, <1>8 DEF InWorker, InCallback, InList, Once, Answers, Erases
<1>10. InOnePlace(r)' /\ Answered(r)'
  <2>1. replies' = replies /\ r \in asked'
    OBVIOUS
  <2> QED BY <1>8, <1>9, <2>1 DEF InOnePlace, Answered
<1> QED BY <1>1, <1>3, <1>4, <1>5, <1>6, <1>7, <1>10, KeepPlace DEF Inv

\* The worker finds a process in the list.
LEMMA SelectedIsListed ==
  ASSUME Inv, Spare # {}
  PROVE  controlplane[FirstSpare] \in Procs
<1>1. Spare \in SUBSET Nat
  BY DEF Spare
<1>2. \E i \in Spare : \A j \in Spare : i <= j
  BY <1>1, LeastExists
<1>3. FirstSpare \in Spare
  BY <1>2 DEF FirstSpare
<1> QED BY <1>3 DEF Spare, Inv, TypeOK

\* A process with spare capacity gets the request.
LEMMA SelectProcessPreserves ==
  ASSUME Inv, NEW r \in Reqs, SelectProcess(r)
  PROVE  Inv'
<1> USE ThreadFacts, InvocationsAssumption DEF tcpVars, envVars
<1>1. PICK p \in Procs : p = controlplane[FirstSpare]
  BY SelectedIsListed DEF SelectProcess
<1>2. /\ pc[Worker] = "idle" /\ r \notin asked /\ asked' = asked \cup {r}
      /\ AddInvocation(Worker, p, r)
      /\ UNCHANGED <<status, number, handle, creation, submitted, connection, controlplane, tcpVars,
                     envVars, sent, replies, fault>>
  BY <1>1 DEF SelectProcess, Arrive
<1>3. /\ replies[r] = 0 /\ ~InWorker(r)
      /\ \A q \in Procs : ~InCallback(q, r) /\ ~InList(q, r)
      /\ \A c \in Procs : ~Answers(c, r)
  BY <1>2, NotAsked
<1>4. Added(p, r) /\ AddedBy(Worker, p, r)
  BY <1>2, <1>3, AddFacts
<1>5. /\ invocations' \in [Procs -> Seq(Reqs)] /\ activeInvocations' \in [Procs -> Nat]
      /\ ThreadTypes' /\ raced' \subseteq Reqs
  BY <1>4 DEF Added, AddedBy
<1>6. TypeOK'
  BY <1>2, <1>5 DEF Inv, TypeOK, ThreadTypes
<1>7. /\ pc'[Worker] = "add" /\ on'[Worker] = p
      /\ \A q \in Procs : /\ pc'[Backend(q)] = pc[Backend(q)]
                          /\ on'[Backend(q)] = on[Backend(q)]
  <2>1. \A q \in Procs : pc[Backend(q)] # "erase"
    BY DEF Inv, Threaded
  <2> QED BY <1>4, <2>1 DEF AddedBy
<1>8. \A c \in Procs :
        /\ pc'[Io(c)] = pc[Io(c)] \/ (pc[Io(c)] = "erase" /\ pc'[Io(c)] = "dangling")
        /\ on'[Io(c)] = on[Io(c)] /\ req'[Io(c)] = req[Io(c)]
  BY <1>4 DEF AddedBy
<1>9. UNCHANGED <<status, number, creation, connection, controlplane, loopTasks, pending, context,
                  backend, container, inbox, replies>>
  BY <1>2
<1>10. Threaded'
  BY <1>7, <1>8, <1>9 DEF Inv, Threaded
<1>11. Waiting' /\ \A d \in Procs : Linked(d)'
  BY <1>9 DEF Inv, Waiting, Queued, Linked
<1>12. Listed'
  <2>1. \A i \in 1..Len(controlplane) : controlplane[i] \in Procs
    BY DEF Inv, TypeOK
  <2> QED BY <1>7, <1>9, <2>1 DEF Inv, Listed
<1>13. \A d \in Procs : Moved(d)'
  BY <1>7, <1>8, <1>9 DEF Inv, Moved
<1>14. \A c \in Procs : Erases(c)' <=> Erases(c)
  BY <1>8 DEF Erases
<1>15. \A q \in Procs : Counted(q)'
  BY <1>4, <1>9, <1>14, AddCounts
<1>16. \A c \in Procs, s \in Reqs : Answers(c, s)' <=> Answers(c, s)
  BY <1>8, <1>14 DEF Answers
<1>17. \A s \in Reqs : ~InWorker(s) /\ ~InWorker(s)'
  BY <1>2, <1>7 DEF InWorker
<1>18. \A q \in Procs, s \in Reqs : InCallback(q, s)' <=> InCallback(q, s)
  BY <1>9 DEF InCallback
<1>19. \A s \in Reqs : s # r => PlaceKept(s)
  BY <1>2, <1>4, <1>9, <1>16, <1>17, <1>18 DEF PlaceKept, Added
<1>20. InOnePlace(r)' /\ Answered(r)'
  <2>1. \A q \in Procs : Once(q, r)
    BY DEF Inv, InOnePlace
  <2>2. replies' = replies /\ r \in asked'
    BY <1>2
  <2> QED BY <1>3, <1>4, <1>16, <1>17, <1>18, <2>1, <2>2 DEF InOnePlace, Answered, Added
<1> QED BY <1>6, <1>10, <1>11, <1>12, <1>13, <1>15, <1>19, <1>20, KeepPlace DEF Inv

\* The creation callback hands its request to the list, once: a second call is a
\* fault and moves nothing.
LEMMA CallCreatedPreserves ==
  ASSUME Inv, NEW t \in Threads, CallCreated(t)
  PROVE  Inv'
<1> USE ThreadFacts, InvocationsAssumption DEF tcpVars, envVars, histVars
<1>1. pc[t] = "call" /\ t # Worker
  BY OnProcess DEF CallCreated
<1>2. PICK p \in Procs : /\ p = on[t]
                         /\ \A q \in Procs : t = Backend(q) => q = p
                         /\ \A c \in Procs : t = Io(c) => context[c] = p
  BY <1>1, OnProcess
<1>3. CASE creation[p].state # "set"
  <2>1. /\ UNCHANGED <<status, number, handle, creation, invocations, submitted,
                       activeInvocations, connection, controlplane, tcpVars, envVars, threadVars,
                       histVars>>
        /\ fault' \in {"exception", "undefined"}
    BY <1>2, <1>3 DEF CallCreated
  <2> USE DEF threadVars
  <2>2. TypeOK'
    BY <2>1 DEF Inv, TypeOK
  <2>3. Threaded' /\ Waiting' /\ Listed'
    BY <2>1 DEF Inv, Threaded, Waiting, Queued, Listed
  <2>4. \A d \in Procs : Linked(d)' /\ Moved(d)'
    BY <2>1 DEF Inv, Linked, Moved
  <2>5. PlacesKept
    BY <2>1 DEF PlacesKept, InWorker, InCallback, InList, Once, Erases
  <2> QED BY <2>1, <2>2, <2>3, <2>4, <2>5, KeepPlaces, KeepCounts DEF Inv
<1>4. CASE creation[p].state = "set"
  <2>1. PICK r \in Reqs : r = creation[p].req
    BY <1>4 DEF Inv, TypeOK, Listed
  <2>2. InCallback(p, r)
    BY <2>1 DEF InCallback
  <2>3. /\ ~InWorker(r)
        /\ \A q \in Procs : ~InList(q, r) /\ (InCallback(q, r) => q = p) /\ Once(q, r)
        /\ r \in asked /\ replies[r] = 0
        /\ \A c \in Procs : ~Answers(c, r)
    BY <2>2, OneAnswers DEF Inv, InOnePlace, Answered
  <2>4. /\ AddInvocation(t, p, r)
        /\ creation' = [creation EXCEPT ![p] = [state |-> "moved", req |-> None]]
        /\ UNCHANGED <<status, number, handle, submitted, connection, controlplane, tcpVars,
                       envVars, sent, replies, asked, fault>>
    BY <1>2, <1>4, <2>1 DEF CallCreated
  <2>5. Added(p, r) /\ AddedBy(t, p, r)
    BY <2>3, <2>4, AddFacts
  <2>6. /\ creation' \in [Procs -> [state : {"none", "set", "moved"}, req : Reqs \cup {None}]]
        /\ creation'[p].req = None /\ creation'[p].state = "moved"
        /\ \A q \in Procs : q # p => creation'[q] = creation[q]
    BY <2>4 DEF Inv, TypeOK
  <2>7. UNCHANGED <<status, number, connection, controlplane, loopTasks, pending, context,
                    backend, container, inbox, replies, asked>>
    BY <2>4
  <2>8. TypeOK'
    <3>1. /\ invocations' \in [Procs -> Seq(Reqs)] /\ activeInvocations' \in [Procs -> Nat]
          /\ ThreadTypes' /\ raced' \subseteq Reqs
      BY <2>5 DEF Added, AddedBy
    <3> QED BY <2>4, <2>6, <3>1 DEF Inv, TypeOK, ThreadTypes
  <2>9. /\ pc'[t] = "add" /\ on'[t] = on[t]
        /\ pc'[Worker] = pc[Worker] /\ on'[Worker] = on[Worker] /\ req'[Worker] = req[Worker]
    <3>1. pc[Worker] # "erase"
      BY DEF Inv, Threaded
    <3> QED BY <1>1, <1>2, <2>5, <3>1 DEF AddedBy
  <2>10. \A q \in Procs : t # Backend(q) => /\ pc'[Backend(q)] = pc[Backend(q)]
                                            /\ on'[Backend(q)] = on[Backend(q)]
    <3>1. \A q \in Procs : pc[Backend(q)] # "erase"
      BY DEF Inv, Threaded
    <3> QED BY <2>5, <3>1 DEF AddedBy
  <2>11. \A c \in Procs : t # Io(c) =>
           /\ pc'[Io(c)] = pc[Io(c)] \/ (pc[Io(c)] = "erase" /\ pc'[Io(c)] = "dangling")
           /\ on'[Io(c)] = on[Io(c)] /\ req'[Io(c)] = req[Io(c)]
    BY <2>5 DEF AddedBy
  <2>12. Threaded'
    BY <1>1, <2>7, <2>9, <2>10, <2>11 DEF Inv, Threaded
  <2>13. Waiting' /\ \A d \in Procs : Linked(d)'
    BY <2>7 DEF Inv, Waiting, Queued, Linked
  <2>14. Listed'
    <3>1. \A i \in 1..Len(controlplane) : controlplane[i] \in Procs
      BY DEF Inv, TypeOK
    <3>2. \A q \in Procs : pc[Backend(q)] = "idle" => pc'[Backend(q)] = "idle"
      BY <1>1, <2>10
    <3>3. \A q \in Procs : creation'[q].req = None \/ creation'[q] = creation[q]
      BY <2>6
    <3>4. \A q \in Procs : creation'[q].state = "set" <=> creation'[q].req # None
      BY <2>6 DEF Inv, Listed
    <3> QED BY <2>7, <3>1, <3>2, <3>3, <3>4 DEF Inv, Listed
  <2>15. \A d \in Procs : Moved(d)'
    <3> SUFFICES ASSUME NEW d \in Procs PROVE Moved(d)'
      OBVIOUS
    <3>1. CASE d = p
      BY <2>6, <3>1 DEF Moved
    <3>2. CASE d # p
      BY <1>2, <2>6, <2>7, <2>10, <2>11, <3>2 DEF Inv, Moved
    <3> QED BY <3>1, <3>2
  <2>16. \A c \in Procs : Erases(c)' <=> Erases(c)
    BY <1>1, <2>9, <2>11 DEF Erases
  <2>17. \A q \in Procs : Counted(q)'
    BY <2>5, <2>7, <2>16, AddCounts
  <2>18. \A c \in Procs, s \in Reqs : Answers(c, s)' <=> Answers(c, s)
    BY <1>1, <2>9, <2>11 DEF Answers, Erases
  <2>19. \A s \in Reqs : InWorker(s)' <=> InWorker(s)
    BY <2>9 DEF InWorker
  <2>20. \A q \in Procs, s \in Reqs : InCallback(q, s)' <=> InCallback(q, s) /\ ~(q = p /\ s = r)
    BY <2>1, <2>6 DEF InCallback
  <2>21. \A s \in Reqs : s # r => PlaceKept(s)
    BY <2>5, <2>7, <2>18, <2>19, <2>20 DEF PlaceKept, Added
  <2>22. InOnePlace(r)' /\ Answered(r)'
    <3>1. \A q \in Procs : ~InCallback(q, r)'
      BY <2>3, <2>20
    <3>2. \A q \in Procs : (InList(q, r)' <=> q = p) /\ Once(q, r)'
      BY <2>3, <2>5 DEF Added
    <3> QED BY <2>3, <2>7, <2>18, <2>19, <3>1, <3>2 DEF InOnePlace, Answered
  <2> QED BY <2>8, <2>12, <2>13, <2>14, <2>15, <2>17, <2>21, <2>22, KeepPlace DEF Inv
<1> QED BY <1>3, <1>4

\* The callback that is cleared has no request any more.
LEMMA ClearCreatedPreserves ==
  ASSUME Inv, NEW t \in Threads, ClearCreated(t)
  PROVE  Inv'
<1> USE ThreadFacts, InvocationsAssumption DEF tcpVars, envVars, histVars
<1>1. pc[t] = "clear" /\ t # Worker
  BY OnProcess DEF ClearCreated
<1>2. PICK p \in Procs : /\ p = on[t]
                         /\ \A q \in Procs : t = Backend(q) => q = p
                         /\ \A c \in Procs : t = Io(c) => context[c] = p
  BY <1>1, OnProcess
<1>3. creation[p].req = None
  <2>1. Moved(p)
    BY DEF Inv
  <2> QED BY <1>1, <1>2, <2>1 DEF Moved
<1>4. /\ creation' = [creation EXCEPT ![p] = NoCallback]
      /\ UNCHANGED <<status, number, handle, invocations, submitted, activeInvocations, connection,
                     controlplane, tcpVars, envVars, histVars, fault>>
  BY <1>2 DEF ClearCreated
<1>5. /\ creation' \in [Procs -> [state : {"none", "set", "moved"}, req : Reqs \cup {None}]]
      /\ creation'[p].req = None /\ creation'[p].state = "none"
      /\ \A q \in Procs : q # p => creation'[q] = creation[q]
  BY <1>4 DEF Inv, TypeOK, NoCallback
<1>6. /\ ThreadTypes' /\ OthersStay(t)
      /\ \/ pc'[t] = "emplace" /\ on'[t] = on[t] /\ t[1] = "backend"
         \/ pc'[t] = "idle" /\ t[1] # "backend"
  <2>1. ThreadTypes
    BY DEF Inv, TypeOK, ThreadTypes
  <2>2. \/ t[1] = "backend" /\ Goto(t, "emplace")
        \/ t[1] # "backend" /\ Done(t)
    BY DEF ClearCreated, AfterCreated
  <2> QED BY <2>1, <2>2, GotoFacts, DoneFacts
<1>7. TypeOK'
  BY <1>4, <1>5, <1>6 DEF Inv, TypeOK, ThreadTypes
<1>8. Threaded'
  BY <1>1, <1>4, <1>6 DEF Inv, Threaded, OthersStay
<1>9. Waiting' /\ \A d \in Procs : Linked(d)'
  BY <1>4 DEF Inv, Waiting, Queued, Linked
<1>10. Listed'
  <2>1. \A i \in 1..Len(controlplane) : controlplane[i] \in Procs
    BY DEF Inv, TypeOK
  <2>2. \A q \in Procs : pc[Backend(q)] = "idle" => pc'[Backend(q)] = "idle"
    BY <1>1, <1>6 DEF OthersStay
  <2>3. \A q \in Procs : creation'[q].req = creation[q].req
    BY <1>3, <1>5
  <2>4. \A q \in Procs : creation'[q].state = "set" <=> creation'[q].req # None
    BY <1>5 DEF Inv, Listed
  <2>5. UNCHANGED <<controlplane, backend, status>>
    BY <1>4
  <2> QED BY <2>1, <2>2, <2>3, <2>4, <2>5 DEF Inv, Listed
<1>11. \A q \in Procs : Moved(q)'
  <2>1. \A q \in Procs : creation'[q].req = creation[q].req
    BY <1>3, <1>5
  <2> QED BY <1>1, <1>4, <1>6, <2>1 DEF Inv, Moved, OthersStay
<1>12. PlacesKept
  <2>1. \A q \in Procs : creation'[q].req = creation[q].req
    BY <1>3, <1>5
  <2> QED BY <1>1, <1>4, <1>6, <2>1
    DEF OthersStay, PlacesKept, InWorker, InCallback, InList, Once, Erases
<1> QED BY <1>4, <1>7, <1>8, <1>9, <1>10, <1>11, <1>12, KeepPlaces, KeepCounts DEF Inv

\* The failure goes to the client whose request the callback has.
LEMMA BackendFailedPreserves ==
  ASSUME Inv, NEW p \in Procs, BackendFailed(p)
  PROVE  Inv'
<1> USE ThreadFacts, InvocationsAssumption DEF tcpVars, threadVars
<1>1. /\ backend[p] = "asked" /\ backend' = [backend EXCEPT ![p] = "answered"]
      /\ creation' = [creation EXCEPT ![p] = NoCallback]
      /\ replies' = IF creation[p].state = "none" THEN replies
                    ELSE [replies EXCEPT ![creation[p].req] = @ + 1]
      /\ UNCHANGED <<status, number, handle, invocations, submitted, activeInvocations, connection,
                     controlplane, tcpVars, container, inbox, threadVars, sent, asked, raced, fault>>
  BY DEF BackendFailed
<1>2. /\ creation' \in [Procs -> [state : {"none", "set", "moved"}, req : Reqs \cup {None}]]
      /\ creation'[p].req = None /\ creation'[p].state = "none"
      /\ \A q \in Procs : q # p => creation'[q] = creation[q]
  BY <1>1 DEF Inv, TypeOK, NoCallback
<1>3. /\ replies' \in [Reqs -> Nat]
      /\ \A s \in Reqs : s # creation[p].req => replies'[s] = replies[s]
      /\ \A s \in Reqs : s = creation[p].req => replies'[s] = replies[s] + 1
  <2>1. replies \in [Reqs -> Nat] /\ creation[p].req \in Reqs \cup {None}
    BY DEF Inv, TypeOK
  <2>2. CASE creation[p].req \in Reqs
    <3>1. creation[p].state = "set"
      BY <2>2 DEF Inv, Listed
    <3>2. replies' = [replies EXCEPT ![creation[p].req] = @ + 1]
      BY <1>1, <3>1
    <3> QED BY <2>1, <2>2, <3>2
  <2>3. CASE creation[p].req = None
    <3>1. replies' = replies \/ replies' = [replies EXCEPT ![None] = @ + 1]
      BY <1>1, <2>3
    <3>2. replies' = replies
      BY <2>1, <3>1
    <3> QED BY <2>1, <2>3, <3>2
  <2> QED BY <2>1, <2>2, <2>3
<1>4. TypeOK'
  BY <1>1, <1>2, <1>3 DEF Inv, TypeOK
<1>5. Threaded'
  BY <1>1 DEF Inv, TypeOK, Threaded
<1>6. Waiting' /\ \A d \in Procs : Linked(d)'
  BY <1>1 DEF Inv, Waiting, Queued, Linked
<1>7. Listed'
  <2>1. \A i \in 1..Len(controlplane) : controlplane[i] \in Procs
    BY DEF Inv, TypeOK
  <2>2. \A q \in Procs : creation'[q].req = None \/ creation'[q] = creation[q]
    BY <1>2
  <2>3. \A q \in Procs : creation'[q].state = "set" <=> creation'[q].req # None
    BY <1>2 DEF Inv, Listed
  <2>4. status[p] # "unused" /\ UNCHANGED <<controlplane, pc, status>>
    BY <1>1 DEF Inv, Listed
  <2>5. \A q \in Procs : q # p => backend'[q] = backend[q]
    BY <1>1 DEF Inv, TypeOK
  <2>6. backend'[p] = "answered"
    BY <1>1 DEF Inv, TypeOK
  <2> QED BY <2>1, <2>2, <2>3, <2>4, <2>5, <2>6 DEF Inv, Listed
<1>8. \A q \in Procs : Moved(q)'
  <2>1. \A q \in Procs : creation'[q].req = None \/ creation'[q] = creation[q]
    BY <1>2
  <2> QED BY <1>1, <2>1 DEF Inv, Moved
<1>9. \A q \in Procs : Counted(q)'
  BY <1>1 DEF Inv, Counted, Erases
<1>10. /\ \A s \in Reqs : InWorker(s)' <=> InWorker(s)
       /\ \A q \in Procs, s \in Reqs :
            (InList(q, s)' <=> InList(q, s)) /\ (Once(q, s)' <=> Once(q, s))
       /\ \A c \in Procs, s \in Reqs : Answers(c, s)' <=> Answers(c, s)
  BY <1>1 DEF InWorker, InList, Once, Answers, Erases
<1>11. \A q \in Procs, s \in Reqs : InCallback(q, s)' <=> InCallback(q, s) /\ q # p
  BY <1>2 DEF InCallback
<1>12. ASSUME NEW s \in Reqs PROVE InOnePlace(s)' /\ Answered(s)'
  <2>1. CASE creation[p].req # s
    <3>1. PlaceKept(s)
      BY <1>1, <1>3, <1>10, <1>11, <2>1 DEF PlaceKept, InCallback
    <3> QED BY <3>1, KeepPlace
  <2>2. CASE creation[p].req = s
    <3>1. InCallback(p, s)
      BY <2>2 DEF InCallback
    <3>2. /\ ~InWorker(s)
          /\ \A q \in Procs : ~InList(q, s) /\ (InCallback(q, s) => q = p) /\ Once(q, s)
          /\ s \in asked /\ replies[s] = 0
          /\ \A c \in Procs : ~Answers(c, s)
      BY <3>1, OneAnswers DEF Inv, InOnePlace, Answered
    <3>3. replies'[s] = 1 /\ s \in asked'
      BY <1>1, <1>3, <2>2, <3>2
    <3>4. \A q \in Procs : ~InCallback(q, s)'
      BY <1>11, <3>2
    <3> QED BY <1>10, <3>2, <3>3, <3>4 DEF InOnePlace, Answered
  <2> QED BY <2>1, <2>2
<1> QED BY <1>4, <1>5, <1>6, <1>7, <1>8, <1>9, <1>12 DEF Inv

\* Members of the list are distinct processes, so it is not longer than there are
\* processes: the number in the name of the next one is in range.
LEMMA ListShort ==
  ASSUME Inv
  PROVE  Len(controlplane) \in Numbers
<1>1. controlplane \in Seq(Procs) /\ Len(controlplane) \in Nat
  BY DEF Inv, TypeOK
<1>2. controlplane \in [1..Len(controlplane) -> Procs]
  BY <1>1
<1>3. controlplane \in Injection(1..Len(controlplane), Procs)
  BY <1>2 DEF Injection, IsInjective, Inv, Listed
<1>4. Cardinality(1..Len(controlplane)) <= Cardinality(Procs) /\ Cardinality(Procs) \in Nat
  BY <1>3, FS_Injection, FS_CardinalityType, InvocationsAssumption
<1>5. Cardinality(1..Len(controlplane)) = Len(controlplane)
  <2> DEFINE n == Len(controlplane)
  <2> SUFFICES Cardinality(1..n) = n
    OBVIOUS
  <2>1. n \in Int /\ 1 \in Int /\ n - 1 + 1 = n /\ (1 > n => n = 0)
    BY <1>1
  <2> HIDE DEF n
  <2>2. Cardinality(1..n) = IF 1 > n THEN 0 ELSE n - 1 + 1
    BY <2>1, FS_Interval
  <2> QED BY <2>1, <2>2
<1> QED BY <1>1, <1>4, <1>5 DEF Numbers

\* The request goes from the worker into the callback of a new process, whose name
\* is one the acceptor loop can wait for.
LEMMA CreateProcessPreserves ==
  ASSUME Inv, NEW p \in Procs, CreateProcess(p)
  PROVE  Inv'
<1> USE ThreadFacts, InvocationsAssumption DEF histVars
<1>1. PICK r \in Reqs : r = req[Worker]
  BY DEF CreateProcess, Inv, Threaded
<1>2. /\ pc[Worker] = "create" /\ status[p] = "unused"
      /\ status' = [status EXCEPT ![p] = "ALLOCATING"]
      /\ number' = [number EXCEPT ![p] = Len(controlplane)]
      /\ creation' = [creation EXCEPT ![p] = Callback(r)]
      /\ loopTasks' = Append(loopTasks, p)
      /\ backend' = [backend EXCEPT ![p] = "asked"]
      /\ Done(Worker)
      /\ UNCHANGED <<handle, invocations, submitted, activeInvocations, connection, controlplane,
                     pending, context, container, inbox, histVars, fault>>
  BY <1>1 DEF CreateProcess
<1>3. ThreadTypes' /\ OthersStay(Worker) /\ pc'[Worker] = "idle"
  <2>1. ThreadTypes
    BY DEF Inv, TypeOK, ThreadTypes
  <2> QED BY <1>2, <2>1, DoneFacts
<1>4. /\ loopTasks' \in Seq(Procs)
      /\ Len(loopTasks') = Len(loopTasks) + 1
      /\ loopTasks'[Len(loopTasks) + 1] = p
      /\ \A i \in 1..Len(loopTasks) : loopTasks'[i] = loopTasks[i]
      /\ Len(loopTasks) \in Nat
  BY <1>2, AppendFacts DEF Inv, TypeOK
<1>5. /\ backend[p] = "none" /\ creation[p].req = None
      /\ pc[Backend(p)] = "idle"
      /\ \A c \in Procs : context[c] # p
      /\ ~Queued(p) /\ \A n \in Numbers : pending[n] # p
  BY <1>2, SMTT(30) DEF Inv, Listed, Threaded, Linked, Waiting
<1>6. /\ status' \in [Procs -> {"unused", "ALLOCATING", "ALLOCATED", "FAILURE"}]
      /\ status'[p] = "ALLOCATING"
      /\ \A q \in Procs : q # p => status'[q] = status[q]
      /\ number' \in [Procs -> Numbers]
      /\ \A q \in Procs : q # p => number'[q] = number[q]
      /\ backend' \in [Procs -> {"none", "asked", "answered"}]
      /\ backend'[p] = "asked"
      /\ \A q \in Procs : q # p => backend'[q] = backend[q]
  BY <1>2, ListShort, SMTT(30) DEF Inv, TypeOK
<1>7. /\ creation' \in [Procs -> [state : {"none", "set", "moved"}, req : Reqs \cup {None}]]
      /\ creation'[p].req = r /\ creation'[p].state = "set"
      /\ \A q \in Procs : q # p => creation'[q] = creation[q]
  BY <1>2 DEF Inv, TypeOK, Callback
<1>8. TypeOK'
  BY <1>2, <1>3, <1>4, <1>6, <1>7 DEF Inv, TypeOK, ThreadTypes
<1>9. Threaded'
  BY <1>2, <1>3, <1>5, <1>6 DEF Inv, Threaded, OthersStay
<1>10. Waiting'
  <2>1. \A q \in Procs : Queued(q)' => Queued(q) \/ q = p
    <3>1. \A i \in 1..Len(loopTasks) + 1 : i \in 1..Len(loopTasks) \/ i = Len(loopTasks) + 1
      BY <1>4
    <3> QED BY <1>4, <3>1 DEF Queued
  <2>2. \A i, j \in 1..Len(loopTasks') : loopTasks'[i] = loopTasks'[j] => i = j
    <3> SUFFICES ASSUME NEW i \in 1..Len(loopTasks) + 1, NEW j \in 1..Len(loopTasks) + 1,
                        loopTasks'[i] = loopTasks'[j]
                 PROVE  i = j
      BY <1>4
    <3>1. (i \in 1..Len(loopTasks) \/ i = Len(loopTasks) + 1)
          /\ (j \in 1..Len(loopTasks) \/ j = Len(loopTasks) + 1)
      BY <1>4
    <3>2. \A k \in 1..Len(loopTasks) : loopTasks[k] # p
      BY <1>5 DEF Queued
    <3> QED BY <1>4, <3>1, <3>2 DEF Inv, Waiting
  <2>3. \A n \in Numbers, q \in Procs : pending'[n] = q =>
          number'[q] = n /\ ~Queued(q)' /\ status'[q] = "ALLOCATING"
    <3> SUFFICES ASSUME NEW n \in Numbers, NEW q \in Procs, pending[n] = q
                 PROVE  number'[q] = n /\ ~Queued(q)' /\ status'[q] = "ALLOCATING"
      BY <1>2
    <3>1. q # p /\ number[q] = n /\ ~Queued(q) /\ status[q] = "ALLOCATING"
      BY <1>5 DEF Inv, Waiting
    <3> QED BY <1>6, <2>1, <3>1
  <2>4. \A q \in Procs : Queued(q)' => status'[q] = "ALLOCATING"
    BY <1>6, <2>1 DEF Inv, Waiting
  <2> QED BY <2>2, <2>3, <2>4 DEF Waiting
<1>11. \A d \in Procs : Linked(d)'
  BY <1>2, <1>5, <1>6 DEF Inv, TypeOK, Linked
<1>12. Listed'
  <2>1. \A i \in 1..Len(controlplane) : controlplane[i] \in Procs /\ controlplane[i] # p
    <3>1. \A i \in 1..Len(controlplane) : controlplane[i] \in Procs
      BY DEF Inv, TypeOK
    <3>2. \A i \in 1..Len(controlplane) : backend[controlplane[i]] = "answered"
      BY DEF Inv, Listed
    <3>3. backend[p] # "answered"
      BY <1>5 DEF Inv, Listed
    <3> QED BY <3>1, <3>2, <3>3
  <2>2. \A q \in Procs : pc'[Backend(q)] = pc[Backend(q)]
    BY <1>3 DEF OthersStay
  <2>3. controlplane' = controlplane
    BY <1>2
  <2>4. \A q \in Procs : status'[q] = "unused" => backend'[q] = "none" /\ creation'[q].req = None
    BY <1>6, <1>7 DEF Inv, Listed
  <2>5. \A q \in Procs : creation'[q].state = "set" <=> creation'[q].req # None
    BY <1>7 DEF Inv, Listed
  <2>6. \A i \in 1..Len(controlplane) :
          backend'[controlplane[i]] = "answered" /\ pc'[Backend(controlplane[i])] = "idle"
    BY <1>6, <2>1, <2>2 DEF Inv, Listed
  <2> QED BY <2>3, <2>4, <2>5, <2>6 DEF Inv, Listed
<1>13. \A q \in Procs : Moved(q)'
  <2> SUFFICES ASSUME NEW q \in Procs PROVE Moved(q)'
    OBVIOUS
  <2>1. /\ \A c \in Procs : pc'[Io(c)] = pc[Io(c)] /\ pc'[Backend(c)] = pc[Backend(c)]
        /\ context' = context
    BY <1>2, <1>3 DEF OthersStay
  <2>2. CASE q = p
    BY <1>5, <2>1, <2>2 DEF Moved
  <2>3. CASE q # p
    BY <1>7, <2>1, <2>3 DEF Inv, Moved
  <2> QED BY <2>2, <2>3
<1>14. \A q \in Procs : Counted(q)'
  BY <1>2, <1>3 DEF Inv, Counted, Erases, OthersStay
<1>15. InWorker(r)
  BY <1>1, <1>2 DEF InWorker
<1>16. /\ \A q \in Procs : ~InList(q, r) /\ ~InCallback(q, r) /\ Once(q, r)
       /\ r \in asked /\ replies[r] = 0
       /\ \A c \in Procs : ~Answers(c, r)
  BY <1>15, OneAnswers DEF Inv, InOnePlace, Answered
<1>17. /\ \A q \in Procs, s \in Reqs :
            (InList(q, s)' <=> InList(q, s)) /\ (Once(q, s)' <=> Once(q, s))
       /\ \A c \in Procs, s \in Reqs : Answers(c, s)' <=> Answers(c, s)
  BY <1>2, <1>3 DEF InList, Once, Answers, Erases, OthersStay
<1>18. \A q \in Procs, s \in Reqs : InCallback(q, s)' <=> InCallback(q, s) \/ (q = p /\ s = r)
  BY <1>5, <1>7 DEF InCallback
<1>19. \A s \in Reqs : ~InWorker(s)' /\ (InWorker(s) => s = r)
  BY <1>1, <1>3 DEF InWorker
<1>20. \A s \in Reqs : s # r => PlaceKept(s)
  BY <1>2, <1>17, <1>18, <1>19 DEF PlaceKept
<1>21. InOnePlace(r)' /\ Answered(r)'
  <2>1. UNCHANGED <<asked, replies>>
    BY <1>2
  <2>2. \A q \in Procs : InCallback(q, r)' <=> q = p
    BY <1>16, <1>18
  <2> QED BY <1>16, <1>17, <1>19, <2>1, <2>2 DEF InOnePlace, Answered
<1> QED BY <1>8, <1>9, <1>10, <1>11, <1>12, <1>13, <1>14, <1>20, <1>21, KeepPlace DEF Inv

\* The first result of an invocation answers it; a later one finds nothing.
LEMMA FinishInvocationPreserves ==
  ASSUME Inv, NEW c \in Procs, NEW r \in Reqs, FinishInvocation(c, r)
  PROVE  Inv'
<1> USE ThreadFacts, InvocationsAssumption DEF tcpVars
<1>1. PICK q \in Procs : q = context[c]
  BY DEF FinishInvocation, Inv, TypeOK, Linked
<1>2. /\ inbox[c][r] > 0 /\ pc[Io(c)] = "idle"
      /\ inbox' = [inbox EXCEPT ![c][r] = @ - 1]
      /\ UNCHANGED <<status, number, handle, creation, invocations, submitted, connection,
                     controlplane, tcpVars, backend, container, sent, asked, raced, fault>>
  BY DEF FinishInvocation
<1>3. /\ inbox' \in [Procs -> [Reqs -> Nat]]
      /\ \A d \in Procs, s \in Reqs : inbox'[d][s] > 0 => inbox[d][s] > 0
  <2> DEFINE row == [inbox[c] EXCEPT ![r] = @ - 1]
  <2>1. inbox \in [Procs -> [Reqs -> Nat]] /\ inbox[c] \in [Reqs -> Nat]
    BY DEF Inv, TypeOK
  <2>2. inbox[c][r] - 1 \in Nat
    BY <1>2, <2>1
  <2>3. row \in [Reqs -> Nat] /\ \A s \in Reqs : row[s] > 0 => inbox[c][s] > 0
    BY <1>2, <2>1, <2>2
  <2>4. inbox' = [inbox EXCEPT ![c] = row]
    BY <1>2, <2>1
  <2> HIDE DEF row
  <2> QED BY <2>1, <2>3, <2>4
<1>4. Waiting' /\ \A d \in Procs : Linked(d)'
  <2>1. Waiting'
    BY <1>2 DEF Inv, Waiting, Queued
  <2>2. \A d \in Procs : Linked(d)'
    BY <1>2, <1>3 DEF Inv, Linked
  <2> QED BY <2>1, <2>2
<1>5. \A p \in Procs, s \in Reqs : /\ InList(p, s)' <=> InList(p, s)
                                   /\ Once(p, s)' <=> Once(p, s)
                                   /\ InCallback(p, s)' <=> InCallback(p, s)
  BY <1>2 DEF InList, Once, InCallback
<1>6. CASE ~InList(q, r)
  <2>1. UNCHANGED <<activeInvocations, replies, threadVars>>
    BY <1>1, <1>6 DEF FinishInvocation, Contains, InList
  <2> USE DEF threadVars
  <2>2. TypeOK'
    BY <1>2, <1>3, <2>1 DEF Inv, TypeOK
  <2>3. Threaded' /\ Listed'
    BY <1>2, <2>1 DEF Inv, Threaded, Listed
  <2>4. \A d \in Procs : Moved(d)'
    BY <1>2, <2>1 DEF Inv, Moved
  <2>5. PlacesKept
    BY <1>2, <1>5, <2>1 DEF PlacesKept, InWorker, Erases
  <2> QED BY <1>2, <1>4, <2>1, <2>2, <2>3, <2>4, <2>5, KeepPlaces, KeepCounts DEF Inv
<1>7. CASE InList(q, r)
  <2>1. /\ activeInvocations' = [activeInvocations EXCEPT ![q] = @ - 1]
        /\ replies' = [replies EXCEPT ![r] = @ + 1]
        /\ pc' = [pc EXCEPT ![Io(c)] = "erase"]
        /\ on' = [on EXCEPT ![Io(c)] = q]
        /\ req' = [req EXCEPT ![Io(c)] = r]
    BY <1>1, <1>7 DEF FinishInvocation, Contains, InList
  <2>2. /\ ThreadTypes' /\ OthersStay(Io(c))
        /\ pc'[Io(c)] = "erase" /\ on'[Io(c)] = q /\ req'[Io(c)] = r
    BY <2>1 DEF Inv, TypeOK, ThreadTypes, OthersStay
  <2>3. \A d \in Procs : context[d] = q => d = c
    BY <1>1, OneConnection
  <2>4. activeInvocations[q] = Len(invocations[q]) /\ Len(invocations[q]) \in Nat \ {0}
    <3>1. ~Erases(c)
      BY <1>2 DEF Erases
    <3>2. \A d \in Procs : context[d] = q => ~Erases(d)
      BY <2>3, <3>1
    <3>3. Len(invocations[q]) \in Nat \ {0}
      BY <1>7 DEF InList, Inv, TypeOK
    <3> QED BY <3>2, <3>3 DEF Inv, Counted
  <2>5. /\ activeInvocations' \in [Procs -> Nat]
        /\ activeInvocations'[q] = Len(invocations[q]) - 1
        /\ \A p \in Procs : p # q => activeInvocations'[p] = activeInvocations[p]
    <3>1. activeInvocations \in [Procs -> Nat]
      BY DEF Inv, TypeOK
    <3>2. activeInvocations[q] - 1 \in Nat
      BY <2>4
    <3> QED BY <2>1, <2>4, <3>1, <3>2
  <2>6. \A d \in Procs : ~Answers(d, r)
    <3>1. ~Answers(c, r)
      BY <1>2 DEF Answers, Erases
    <3>2. ASSUME NEW d \in Procs, Answers(d, r) PROVE FALSE
      <4>1. context[d] \in Procs /\ InList(context[d], r)
        BY <3>2, OneAnswers
      <4>2. PICK p \in Procs : p = context[d]
        BY <4>1
      <4>3. InList(p, r)
        BY <4>1, <4>2
      <4>4. p = q
        BY <1>7, <4>3 DEF Inv, InOnePlace
      <4> QED BY <2>3, <3>1, <3>2, <4>2, <4>4
    <3> QED BY <3>2
  <2>7. /\ replies[r] = 0 /\ r \in asked /\ ~InWorker(r)
        /\ \A p \in Procs : ~InCallback(p, r) /\ (InList(p, r) => p = q) /\ Once(p, r)
    BY <1>7, <2>6 DEF Inv, InOnePlace, Answered
  <2>8. /\ replies' \in [Reqs -> Nat] /\ replies'[r] = 1
        /\ \A s \in Reqs : s # r => replies'[s] = replies[s]
    BY <2>1, <2>7 DEF Inv, TypeOK
  <2>9. TypeOK'
    BY <1>2, <1>3, <2>2, <2>5, <2>8 DEF Inv, TypeOK, ThreadTypes
  <2>10. Threaded'
    BY <1>1, <1>2, <2>2 DEF Inv, Threaded, OthersStay
  <2>11. Listed'
    <3>1. \A i \in 1..Len(controlplane) : controlplane[i] \in Procs
      BY DEF Inv, TypeOK
    <3>2. \A p \in Procs : pc'[Backend(p)] = pc[Backend(p)]
      BY <2>2 DEF OthersStay
    <3> QED BY <1>2, <3>1, <3>2 DEF Inv, Listed
  <2>12. \A p \in Procs : Moved(p)'
    BY <1>2, <2>2 DEF Inv, Moved, OthersStay
  <2>13. /\ Erases(c)' /\ \A d \in Procs : d # c => (Erases(d)' <=> Erases(d))
         /\ \A s \in Reqs : InWorker(s)' <=> InWorker(s)
         /\ \A s \in Reqs : Answers(c, s)' <=> s = r
         /\ \A d \in Procs, s \in Reqs : d # c => (Answers(d, s)' <=> Answers(d, s))
    BY <2>2 DEF OthersStay, Erases, InWorker, Answers
  <2>14. \A p \in Procs : Counted(p)'
    <3> SUFFICES ASSUME NEW p \in Procs PROVE Counted(p)'
      OBVIOUS
    <3>1. invocations' = invocations /\ context' = context
      BY <1>2
    <3>2. CASE p = q
      BY <1>1, <2>5, <2>13, <3>1, <3>2 DEF Counted
    <3>3. CASE p # q
      BY <1>1, <2>5, <2>13, <3>1, <3>3 DEF Inv, Counted
    <3> QED BY <3>2, <3>3
  <2>15. \A s \in Reqs : s # r => PlaceKept(s)
    <3>1. \A s \in Reqs : ~Answers(c, s)
      BY <1>2 DEF Answers, Erases
    <3>2. UNCHANGED <<asked, context>>
      BY <1>2
    <3> QED BY <1>5, <2>8, <2>13, <3>1, <3>2 DEF PlaceKept
  <2>16. InOnePlace(r)' /\ Answered(r)'
    <3>1. asked' = asked /\ context' = context
      BY <1>2
    <3>2. \A d \in Procs : Answers(d, r)' <=> d = c
      BY <2>6, <2>13
    <3>3. ~InWorker(r)' /\ \A p \in Procs :
            ~InCallback(p, r)' /\ (InList(p, r)' <=> p = q) /\ Once(p, r)'
      BY <1>5, <1>7, <2>7, <2>13
    <3> QED BY <1>1, <2>7, <2>8, <3>1, <3>2, <3>3 DEF InOnePlace, Answered
  <2> QED BY <1>4, <2>9, <2>10, <2>11, <2>12, <2>14, <2>15, <2>16, KeepPlace DEF Inv
<1> QED BY <1>6, <1>7

\* The answered invocation leaves the list; an invalid iterator is a fault.
LEMMA EraseInvocationPreserves ==
  ASSUME Inv, NEW c \in Procs, EraseInvocation(c)
  PROVE  Inv'
<1> USE ThreadFacts, InvocationsAssumption DEF tcpVars, envVars, histVars
<1>1. /\ pc[Io(c)] \in {"erase", "dangling"}
      /\ UNCHANGED <<status, number, handle, creation, submitted, activeInvocations, connection,
                     controlplane, tcpVars, envVars, histVars>>
  BY DEF EraseInvocation
<1>2. PICK q \in Procs : q = on[Io(c)] /\ q = context[c]
  BY <1>1, IoProcess
<1>3. PICK r \in Reqs : r = req[Io(c)]
  BY <1>1 DEF Inv, Threaded
<1>4. Answers(c, r) /\ Erases(c)
  BY <1>1, <1>3 DEF Answers, Erases
<1>5. /\ InList(q, r) /\ replies[r] = 1 /\ \A d \in Procs : Answers(d, r) => d = c
      /\ Once(q, r)
  <2>1. context[c] \in Procs /\ InList(context[c], r) /\ replies[r] = 1
        /\ \A d \in Procs : Answers(d, r) => d = c
    BY <1>4, OneAnswers
  <2> QED BY <1>2, <2>1 DEF Inv, InOnePlace
<1>6. CASE pc[Io(c)] = "dangling"
  <2>1. UNCHANGED <<invocations, threadVars>> /\ fault' = "undefined"
    BY <1>6 DEF EraseInvocation
  <2> USE DEF threadVars
  <2>2. TypeOK'
    BY <1>1, <2>1 DEF Inv, TypeOK
  <2>3. Threaded' /\ Waiting' /\ Listed'
    BY <1>1, <2>1 DEF Inv, Threaded, Waiting, Queued, Listed
  <2>4. \A d \in Procs : Linked(d)' /\ Moved(d)'
    BY <1>1, <2>1 DEF Inv, Linked, Moved
  <2>5. PlacesKept
    BY <1>1, <2>1 DEF PlacesKept, InWorker, InCallback, InList, Once, Erases
  <2> QED BY <1>1, <2>1, <2>2, <2>3, <2>4, <2>5, KeepPlaces, KeepCounts DEF Inv
<1>7. CASE pc[Io(c)] = "erase"
  <2>1. /\ invocations' = [invocations EXCEPT ![q] = RemoveFirst(@, r)]
        /\ Done(Io(c)) /\ fault' = fault
    BY <1>2, <1>3, <1>7 DEF EraseInvocation
  <2>2. /\ invocations' \in [Procs -> Seq(Reqs)]
        /\ Len(invocations'[q]) = Len(invocations[q]) - 1
        /\ \A p \in Procs : p # q => invocations'[p] = invocations[p]
        /\ \A p \in Procs, s \in Reqs : InList(p, s)' <=> InList(p, s) /\ ~(p = q /\ s = r)
        /\ \A p \in Procs, s \in Reqs : Once(p, s) => Once(p, s)'
    BY <1>5, <2>1, ListErased DEF Inv
  <2>3. ThreadTypes' /\ OthersStay(Io(c)) /\ pc'[Io(c)] = "idle"
    <3>1. ThreadTypes
      BY DEF Inv, TypeOK, ThreadTypes
    <3> QED BY <2>1, <3>1, DoneFacts
  <2>4. TypeOK'
    BY <1>1, <2>1, <2>2, <2>3 DEF Inv, TypeOK, ThreadTypes
  <2>5. Threaded'
    BY <1>1, <2>3 DEF Inv, Threaded, OthersStay
  <2>6. Waiting' /\ \A d \in Procs : Linked(d)'
    BY <1>1 DEF Inv, Waiting, Queued, Linked
  <2>7. Listed'
    <3>1. \A i \in 1..Len(controlplane) : controlplane[i] \in Procs
      BY DEF Inv, TypeOK
    <3>2. \A p \in Procs : pc'[Backend(p)] = pc[Backend(p)]
      BY <2>3 DEF OthersStay
    <3> QED BY <1>1, <3>1, <3>2 DEF Inv, Listed
  <2>8. \A p \in Procs : Moved(p)'
    BY <1>1, <2>3 DEF Inv, Moved, OthersStay
  <2>9. /\ ~Erases(c)' /\ \A d \in Procs : d # c => (Erases(d)' <=> Erases(d))
        /\ \A s \in Reqs : InWorker(s)' <=> InWorker(s)
        /\ \A s \in Reqs : ~Answers(c, s)'
        /\ \A d \in Procs, s \in Reqs : d # c => (Answers(d, s)' <=> Answers(d, s))
    BY <2>3 DEF OthersStay, Erases, InWorker, Answers
  <2>10. \A p \in Procs : Counted(p)'
    <3> SUFFICES ASSUME NEW p \in Procs PROVE Counted(p)'
      OBVIOUS
    <3>1. activeInvocations' = activeInvocations /\ context' = context
      BY <1>1
    <3>2. Counted(p) /\ Counted(q)
      BY DEF Inv
    <3>3. CASE p = q
      <4>1. activeInvocations[q] = Len(invocations[q]) - 1
        BY <1>2, <1>4, <3>2 DEF Counted
      <4>2. \A d \in Procs : context[d] = q => d = c
        BY <1>2, OneConnection
      <4> QED BY <2>2, <2>9, <3>1, <3>3, <4>1, <4>2 DEF Counted
    <3>4. CASE p # q
      BY <1>2, <2>2, <2>9, <3>1, <3>2, <3>4 DEF Counted
    <3> QED BY <3>3, <3>4
  <2>11. \A p \in Procs, s \in Reqs : InCallback(p, s)' <=> InCallback(p, s)
    BY <1>1 DEF InCallback
  <2>12. \A s \in Reqs : s # r => PlaceKept(s)
    <3>1. \A s \in Reqs : s # r => ~Answers(c, s)
      BY <1>3 DEF Answers
    <3>2. UNCHANGED <<asked, replies, context>>
      BY <1>1
    <3> QED BY <2>2, <2>9, <2>11, <3>1, <3>2 DEF PlaceKept
  <2>13. InOnePlace(r)' /\ Answered(r)'
    <3>1. UNCHANGED <<asked, replies, context>>
      BY <1>1
    <3>2. /\ ~InWorker(r) /\ r \in asked
          /\ \A p \in Procs : ~InCallback(p, r) /\ (InList(p, r) => p = q) /\ Once(p, r)
      BY <1>5 DEF Inv, InOnePlace, Answered
    <3>3. /\ ~InWorker(r)'
          /\ \A p \in Procs : ~InCallback(p, r)' /\ ~InList(p, r)' /\ Once(p, r)'
      BY <2>2, <2>9, <2>11, <3>2
    <3>4. \A d \in Procs : ~Answers(d, r)'
      BY <1>5, <2>9
    <3> QED BY <1>5, <3>1, <3>2, <3>3, <3>4 DEF InOnePlace, Answered
  <2> QED BY <2>4, <2>5, <2>6, <2>7, <2>8, <2>10, <2>12, <2>13, KeepPlace DEF Inv
<1> QED BY <1>1, <1>6, <1>7

-----------------------------------------------------------------------------
\* Nothing exists in the initial state.
LEMMA InitInv == Init => Inv
<1> SUFFICES ASSUME Init PROVE Inv
  OBVIOUS
<1> USE ThreadFacts, InvocationsAssumption DEF Init, NoCallback
<1>1. 0 \in Numbers
  BY FS_CardinalityType DEF Numbers
<1>2. TypeOK
  BY <1>1 DEF TypeOK
<1>3. Threaded /\ Waiting /\ Listed
  BY DEF Threaded, Waiting, Queued, Listed
<1>4. \A p \in Procs : Linked(p) /\ Moved(p) /\ Counted(p)
  BY DEF Linked, Moved, Counted, Erases
<1>5. \A r \in Reqs : InOnePlace(r) /\ Answered(r)
  BY DEF InOnePlace, Answered, InWorker, InCallback, InList, Once, Answers, Erases
<1> QED BY <1>2, <1>3, <1>4, <1>5 DEF Inv

\* Every step of every thread keeps the invariant.
LEMMA NextInv == Inv /\ [Next]_vars => Inv'
<1> SUFFICES ASSUME Inv, [Next]_vars PROVE Inv'
  OBVIOUS
<1>1. ASSUME NEW r \in Reqs, HandleInvocation(r) PROVE Inv'
  BY <1>1, UnknownApplicationPreserves, SelectProcessPreserves, SelectNonePreserves
     DEF HandleInvocation
<1>2. ASSUME NEW t \in Threads, ThreadStep(t) PROVE Inv'
  BY <1>2, SendLastPreserves, CheckCreatedPreserves, CallCreatedPreserves,
     ClearCreatedPreserves DEF ThreadStep
<1>3. CASE WorkerStep
  BY <1>3, SendLastPreserves, CreateProcessPreserves, ThreadFacts DEF WorkerStep
<1>4. CASE PollerAddProcess
  BY <1>4, PollerAddProcessPreserves
<1>5. ASSUME NEW p \in Procs,
             \/ ContainerStart(p) \/ LateStart(p) \/ BackendCreated(p) \/ BackendFailed(p)
             \/ BackendStep(p)
      PROVE  Inv'
  BY <1>2, <1>5, ThreadFacts, ContainerStartPreserves, BackendCreatedPreserves,
     BackendFailedPreserves, EmplaceProcessPreserves DEF BackendStep
<1>6. ASSUME NEW p \in Procs, HandleConnection(p) \/ Disconnect(p) \/ IoStep(p)
      PROVE  Inv'
  BY <1>2, <1>6, ThreadFacts, HandleConnectionPreserves, DisconnectPreserves,
     SendInvocationsPreserves, EraseInvocationPreserves DEF IoStep
<1>7. ASSUME NEW p \in Procs, NEW r \in Reqs, FinishInvocation(p, r) PROVE Inv'
  BY <1>7, FinishInvocationPreserves
<1>8. CASE UNCHANGED vars
  <2> USE <1>8 DEF vars, procVars, tcpVars, envVars, threadVars, histVars
  <2>1. TypeOK'
    BY DEF Inv, TypeOK
  <2>2. Threaded' /\ Waiting' /\ Listed'
    BY DEF Inv, Threaded, Waiting, Queued, Listed
  <2>3. \A p \in Procs : Linked(p)' /\ Moved(p)'
    BY DEF Inv, Linked, Moved
  <2>4. PlacesKept
    BY DEF PlacesKept, InWorker, InCallback, InList, Once, Erases
  <2> QED BY <2>1, <2>2, <2>3, <2>4, KeepPlaces, KeepCounts DEF Inv
<1> QED BY <1>1, <1>3, <1>4, <1>5, <1>6, <1>7, <1>8 DEF Next

\* Threads, links, places of requests and counters agree in every state, whatever
\* overlaps, fails or crashes.
THEOREM InvAlways == Spec => []Inv
BY InitInv, NextInv, PTL DEF Spec

\* The places of a request, as a set.
LEMMA HoldersOf ==
  ASSUME Inv, NEW r \in Reqs
  PROVE  /\ InWorker(r) => Holders(r) = {Worker}
         /\ \A p \in Procs : InCallback(p, r) => Holders(r) = {<<"callback", p>>}
         /\ \A p \in Procs : InList(p, r) => \E i \in Nat : Holders(r) = {<<p, i>>}
         /\ (~InWorker(r) /\ \A p \in Procs : ~InCallback(p, r) /\ ~InList(p, r)) => Holders(r) = {}
<1> DEFINE A == {t \in {Worker} : pc[t] = "create" /\ req[t] = r}
           B == {<<"callback", p>> : p \in {q \in Procs : creation[q].req = r}}
           C == UNION {{<<p, i>> : i \in {j \in 1..Len(invocations[p]) : invocations[p][j] = r}} :
                         p \in Procs}
<1>1. Holders(r) = A \cup B \cup C
  BY DEF Holders
<1>2. (InWorker(r) => A = {Worker}) /\ (~InWorker(r) => A = {})
  BY DEF InWorker
<1>3. \A x : x \in B <=> \E p \in Procs : InCallback(p, r) /\ x = <<"callback", p>>
  BY DEF InCallback
<1>4. \A x : x \in C <=> \E p \in Procs : \E i \in 1..Len(invocations[p]) :
                           invocations[p][i] = r /\ x = <<p, i>>
  OBVIOUS
<1>5. (\A p \in Procs : ~InCallback(p, r)) => B = {}
  BY <1>3
<1>6. (\A p \in Procs : ~InList(p, r)) => C = {}
  BY <1>4 DEF InList
<1> HIDE DEF A, B, C
<1>7. InOnePlace(r)
  BY DEF Inv
<1>8. InWorker(r) => Holders(r) = {Worker}
  BY <1>1, <1>2, <1>5, <1>6, <1>7 DEF InOnePlace
<1>9. ASSUME NEW p \in Procs, InCallback(p, r)
      PROVE  Holders(r) = {<<"callback", p>>}
  <2>1. ~InWorker(r) /\ \A q \in Procs : ~InList(q, r) /\ (InCallback(q, r) => q = p)
    BY <1>7, <1>9 DEF InOnePlace
  <2>2. B = {<<"callback", p>>}
    BY <1>3, <1>9, <2>1
  <2> QED BY <1>1, <1>2, <1>6, <2>1, <2>2
<1>10. ASSUME NEW p \in Procs, InList(p, r)
       PROVE  \E i \in Nat : Holders(r) = {<<p, i>>}
  <2>1. ~InWorker(r) /\ \A q \in Procs : ~InCallback(q, r) /\ (InList(q, r) => q = p)
    BY <1>7, <1>10 DEF InOnePlace
  <2>2. PICK i \in 1..Len(invocations[p]) : invocations[p][i] = r
    BY <1>10 DEF InList
  <2>3. \A q \in Procs : \A j \in 1..Len(invocations[q]) : invocations[q][j] = r => q = p /\ j = i
    BY <1>7, <2>1, <2>2 DEF InOnePlace, Once, InList
  <2>4. C = {<<p, i>>}
    BY <1>4, <2>2, <2>3
  <2>5. i \in Nat
    OBVIOUS
  <2> QED BY <1>1, <1>2, <1>5, <2>1, <2>4, <2>5
<1> QED BY <1>1, <1>2, <1>5, <1>6, <1>8, <1>9, <1>10

\* A thread erases r from the list of p exactly when the thread of the connection
\* of p answers it.
LEMMA ErasingIs ==
  ASSUME Inv, NEW p \in Procs, NEW r \in Reqs
  PROVE  Erasing(p, r) <=> \E c \in Procs : Answers(c, r) /\ context[c] = p
BY DEF Erasing, Answers, Erases, Inv, Threaded

\* Each request is in one place until it is answered, and is answered once.
THEOREM KeptOrAnsweredAlways == Spec => []KeptOrAnswered
<1>1. Inv => KeptOrAnswered
  <2> SUFFICES ASSUME Inv, NEW r \in asked
               PROVE  Cardinality(Holders(r)) + replies[r] =
                        IF \E p \in Procs : Erasing(p, r) THEN 2 ELSE 1
    BY DEF KeptOrAnswered, Inv
  <2>1. r \in Reqs /\ replies[r] \in Nat
    BY DEF Inv, TypeOK
  <2>2. Answered(r) /\ InOnePlace(r)
    BY <2>1 DEF Inv
  <2>3. (\E p \in Procs : Erasing(p, r)) <=> \E c \in Procs : Answers(c, r)
    BY <2>1, ErasingIs, OneAnswers
  <2>4. CASE InWorker(r)
    <3>0. \E x : Holders(r) = {x}
      BY <2>1, <2>4, HoldersOf
    <3>1. Cardinality(Holders(r)) = 1
      BY <3>0, FS_Singleton
    <3>2. replies[r] = 0 /\ ~\E c \in Procs : Answers(c, r)
      BY <2>1, <2>2, <2>4, OneAnswers DEF Answered
    <3> QED BY <2>3, <3>1, <3>2
  <2>5. ASSUME NEW p \in Procs, InCallback(p, r)
        PROVE  Cardinality(Holders(r)) + replies[r] =
                 IF \E q \in Procs : Erasing(q, r) THEN 2 ELSE 1
    <3>0. \E x : Holders(r) = {x}
      BY <2>1, <2>5, HoldersOf
    <3>1. Cardinality(Holders(r)) = 1
      BY <3>0, FS_Singleton
    <3>2. replies[r] = 0 /\ ~\E c \in Procs : Answers(c, r)
      BY <2>1, <2>2, <2>5, OneAnswers DEF Answered
    <3> QED BY <2>3, <3>1, <3>2
  <2>6. ASSUME NEW p \in Procs, InList(p, r)
        PROVE  Cardinality(Holders(r)) + replies[r] =
                 IF \E q \in Procs : Erasing(q, r) THEN 2 ELSE 1
    <3>0. \E x : Holders(r) = {x}
      BY <2>1, <2>6, HoldersOf
    <3>1. Cardinality(Holders(r)) = 1
      BY <3>0, FS_Singleton
    <3>2. \/ replies[r] = 0 /\ ~\E c \in Procs : Answers(c, r)
          \/ replies[r] = 1 /\ \E c \in Procs : Answers(c, r)
      BY <2>1, <2>2, <2>6, OneAnswers DEF Answered
    <3> QED BY <2>3, <3>1, <3>2
  <2>7. CASE ~InWorker(r) /\ \A p \in Procs : ~InCallback(p, r) /\ ~InList(p, r)
    <3>1. Cardinality(Holders(r)) = 0
      BY <2>1, <2>7, HoldersOf, FS_EmptySet
    <3>2. replies[r] = 1 /\ ~\E c \in Procs : Answers(c, r)
      BY <2>1, <2>2, <2>7, OneAnswers DEF Answered
    <3> QED BY <2>3, <3>1, <3>2
  <2> QED BY <2>4, <2>5, <2>6, <2>7
<1> QED BY <1>1, InvAlways, PTL

\* The number by which a process is selected is the number of its invocations.
THEOREM CountExactAlways == Spec => []CountExact
<1>1. Inv => CountExact
  <2> SUFFICES ASSUME Inv, NEW p \in Procs
               PROVE  activeInvocations[p] =
                        Len(invocations[p]) - Cardinality({r \in Reqs : Erasing(p, r)})
    BY DEF CountExact
  <2>1. Counted(p) /\ activeInvocations[p] \in Nat /\ Len(invocations[p]) \in Nat
    BY DEF Inv, TypeOK
  <2>2. ASSUME NEW c \in Procs, context[c] = p, Erases(c)
        PROVE  activeInvocations[p] =
                 Len(invocations[p]) - Cardinality({r \in Reqs : Erasing(p, r)})
    <3>1. PICK s \in Reqs : s = req[Io(c)]
      BY <2>2 DEF Erases, Inv, Threaded
    <3>2. \A d \in Procs : context[d] = p => d = c
      BY <2>2, OneConnection, InvocationsAssumption
    <3>3. \A r \in Reqs : Erasing(p, r) <=> r = s
      BY <2>2, <3>1, <3>2, ErasingIs DEF Answers
    <3>4. {r \in Reqs : Erasing(p, r)} = {s}
      BY <3>3
    <3> QED BY <2>1, <2>2, <3>4, FS_Singleton DEF Counted
  <2>3. CASE \A c \in Procs : context[c] = p => ~Erases(c)
    <3>1. \A r \in Reqs : ~Erasing(p, r)
      BY <2>3, ErasingIs DEF Answers
    <3>2. {r \in Reqs : Erasing(p, r)} = {}
      BY <3>1
    <3>3. Cardinality({r \in Reqs : Erasing(p, r)}) = 0
      BY <3>2, FS_EmptySet
    <3>4. activeInvocations[p] = Len(invocations[p])
      BY <2>1, <2>3 DEF Counted
    <3> QED BY <2>1, <3>3, <3>4
  <2> QED BY <2>2, <2>3
<1> QED BY <1>1, InvAlways, PTL
-----------------------------------------------------------------------------
(* Who sends what.                                                          *)

\* The thread t has appended its invocation and not looked at the status yet.
\* Either its list is one that two threads worked on, and holds nothing else; or
\* no other thread is at work on it, and what t will send is still the last of
\* the list, and was not sent.
LastIs(p, r) == Len(invocations[p]) > 0 /\ invocations[p][Len(invocations[p])] = r
ListRaced(p) == \A r \in Reqs : InList(p, r) => r \in raced
AddsAlone(t) ==
  /\ req[t] \in Reqs /\ LastIs(on[t], req[t]) /\ req[t] \notin submitted
  /\ \A u \in Threads : u # t /\ on[u] = on[t] => pc[u] \notin {"add", "scan"}
Adding(t) == pc[t] = "add" => ListRaced(on[t]) \/ AddsAlone(t)

\* An invocation is sent after it has left the worker and the callback, and
\* before its result comes; it is sent once, if its list was not raced for.
SentInTime(r) ==
  /\ r \notin asked => r \notin submitted
  /\ InWorker(r) => r \notin submitted
  /\ \A p \in Procs : InCallback(p, r) => r \notin submitted
  /\ \A c \in Procs : Answers(c, r) => r \in submitted
  /\ \A c \in Procs : inbox[c][r] > 0 => r \in submitted
  /\ r \notin raced => sent[r] = IF r \in submitted THEN 1 ELSE 0

\* What a connected process has not sent, somebody is about to send.
SomeoneSends(p, r) ==
  \E t \in Threads : on[t] = p /\ (pc[t] = "scan" \/ (pc[t] = "add" /\ req[t] = r))
Cared(p) == status[p] = "ALLOCATED" =>
  \A r \in Reqs : InList(p, r) /\ r \notin submitted /\ r \notin raced => SomeoneSends(p, r)

\* The inductive strengthening of SentOnce and NoneLeftBehind, beside Inv.
Sending ==
  /\ \A t \in Threads : Adding(t)
  /\ \A r \in Reqs : SentInTime(r)
  /\ \A p \in Procs : Cared(p)

\* Who adds to a list alone has its invocation in it.
LEMMA AddedIsListed ==
  ASSUME Inv, NEW t \in Threads, pc[t] = "add", AddsAlone(t)
  PROVE  on[t] \in Procs /\ req[t] \in Reqs /\ req[t] \notin submitted /\ InList(on[t], req[t])
<1>1. on[t] \in Procs
  BY OnProcess
<1>2. Len(invocations[on[t]]) \in Nat
  BY <1>1 DEF Inv, TypeOK
<1>3. Len(invocations[on[t]]) \in 1..Len(invocations[on[t]])
  BY <1>2 DEF AddsAlone, LastIs
<1> QED BY <1>1, <1>3 DEF AddsAlone, LastIs, InList

-----------------------------------------------------------------------------
(* What most steps leave alone.                                             *)

\* Nothing is added or sent, and requests move on as they may.
SendingKept ==
  /\ UNCHANGED <<invocations, submitted, sent, raced>>
  /\ \A t \in Threads :
       pc[t] \in {"add", "scan"} \/ pc'[t] \in {"add", "scan"} =>
         pc'[t] = pc[t] /\ on'[t] = on[t] /\ req'[t] = req[t]
  /\ \A p \in Procs : status'[p] = "ALLOCATED" => status[p] = "ALLOCATED"
  /\ \A r \in Reqs :
       /\ r \in asked => r \in asked'
       /\ InWorker(r)' => InWorker(r) \/ r \notin asked
       /\ \A p \in Procs : InCallback(p, r)' => InCallback(p, r) \/ InWorker(r)
       /\ \A c \in Procs : /\ Answers(c, r)' => Answers(c, r) \/ inbox[c][r] > 0
                           /\ inbox'[c][r] > 0 => inbox[c][r] > 0

\* A thread that adds still does, and no other came to its list.
LEMMA KeepAdding ==
  ASSUME NEW t \in Threads, pc[t] = "add", Adding(t),
         on'[t] = on[t], req'[t] = req[t],
         UNCHANGED submitted, raced \subseteq raced',
         invocations'[on[t]] = invocations[on[t]],
         \A u \in Threads : on'[u] = on[t] /\ pc'[u] \in {"add", "scan"} =>
           on[u] = on[t] /\ pc[u] \in {"add", "scan"}
  PROVE  Adding(t)'
<1>1. CASE ListRaced(on[t])
  BY <1>1 DEF Adding, ListRaced, InList
<1>2. CASE AddsAlone(t)
  <2>1. req'[t] \in Reqs /\ LastIs(on[t], req[t])' /\ req'[t] \notin submitted'
    BY <1>2 DEF AddsAlone, LastIs
  <2>2. \A u \in Threads : u # t /\ on'[u] = on'[t] => pc'[u] \notin {"add", "scan"}
    BY <1>2 DEF AddsAlone
  <2> QED BY <2>1, <2>2 DEF Adding, AddsAlone, LastIs
<1> QED BY <1>1, <1>2 DEF Adding

\* Then whoever was to send still is.
LEMMA KeepSending ==
  ASSUME Sending, SendingKept
  PROVE  Sending'
<1>1. \A t \in Threads : Adding(t)'
  <2> SUFFICES ASSUME NEW t \in Threads, pc'[t] = "add"
               PROVE  Adding(t)'
    BY DEF Adding
  <2>1. pc[t] = "add" /\ on'[t] = on[t] /\ req'[t] = req[t]
    BY DEF SendingKept
  <2>2. \A u \in Threads : on'[u] = on[t] /\ pc'[u] \in {"add", "scan"} =>
           on[u] = on[t] /\ pc[u] \in {"add", "scan"}
    BY DEF SendingKept
  <2>3. Adding(t) /\ UNCHANGED <<submitted, invocations, raced>>
    BY DEF Sending, SendingKept
  <2> QED BY <2>1, <2>2, <2>3, KeepAdding
<1>2. \A r \in Reqs : SentInTime(r)'
  BY DEF Sending, SendingKept, SentInTime
<1>3. \A p \in Procs : Cared(p)'
  <2> SUFFICES ASSUME NEW p \in Procs, status[p] = "ALLOCATED", NEW r \in Reqs,
                      InList(p, r), r \notin submitted, r \notin raced
               PROVE  SomeoneSends(p, r)'
    BY DEF Cared, SendingKept, InList
  <2>1. PICK t \in Threads : on[t] = p /\ (pc[t] = "scan" \/ (pc[t] = "add" /\ req[t] = r))
    BY DEF Sending, Cared, SomeoneSends
  <2> QED BY <2>1 DEF SomeoneSends, SendingKept
<1> QED BY <1>1, <1>2, <1>3 DEF Sending

-----------------------------------------------------------------------------
(* The steps that send nothing.                                             *)

\* A request for an application that does not exist goes nowhere.
LEMMA UnknownApplicationSending ==
  ASSUME Inv, Sending, NEW r \in Reqs, UnknownApplication(r)
  PROVE  Sending'
<1> USE DEF UnknownApplication, Arrive, procVars, tcpVars, envVars, threadVars
<1>1. SendingKept
  BY DEF SendingKept, InWorker, InCallback, Answers, Erases
<1> QED BY <1>1, KeepSending

\* The request was not asked before, so it was not sent.
LEMMA SelectNoneSending ==
  ASSUME Inv, Sending, NEW r \in Reqs, SelectNone(r)
  PROVE  Sending'
<1> USE ThreadFacts DEF procVars, tcpVars, envVars
<1>1. /\ pc[Worker] = "idle" /\ r \notin asked
      /\ asked' = asked \cup {r}
      /\ UNCHANGED <<procVars, tcpVars, envVars, sent, raced>>
  BY DEF SelectNone, Arrive
<1>2. /\ OthersStay(Worker)
      /\ pc'[Worker] = "create" /\ req'[Worker] = r
  BY DEF SelectNone, Inv, TypeOK, OthersStay
<1>3. SendingKept
  BY <1>1, <1>2 DEF SendingKept, InWorker, InCallback, Answers, Erases, OthersStay
<1> QED BY <1>3, KeepSending

\* The request moves from the worker to the callback.
LEMMA CreateProcessSending ==
  ASSUME Inv, Sending, NEW p \in Procs, CreateProcess(p)
  PROVE  Sending'
<1> USE ThreadFacts, InvocationsAssumption DEF histVars
<1>1. /\ pc[Worker] = "create" /\ status[p] = "unused" /\ req[Worker] \in Reqs
      /\ status' = [status EXCEPT ![p] = "ALLOCATING"]
      /\ creation' = [creation EXCEPT ![p] = Callback(req[Worker])]
      /\ UNCHANGED <<invocations, submitted, context, inbox, histVars>>
  BY DEF CreateProcess, Inv, Threaded
<1>2. ThreadTypes' /\ OthersStay(Worker) /\ pc'[Worker] = "idle"
  BY DoneFacts DEF CreateProcess, Inv, TypeOK, ThreadTypes
<1>3. \A q \in Procs : status'[q] = "ALLOCATED" => status[q] = "ALLOCATED"
  BY <1>1 DEF Inv, TypeOK
<1>4. \A q \in Procs, r \in Reqs : InCallback(q, r)' => InCallback(q, r) \/ InWorker(r)
  BY <1>1 DEF InCallback, InWorker, Callback, Inv, TypeOK
<1>5. SendingKept
  BY <1>1, <1>2, <1>3, <1>4 DEF SendingKept, InWorker, Answers, Erases, OthersStay
<1> QED BY <1>5, KeepSending

\* The backend's thread or an I/O thread takes a step in created_callback that
\* leaves lists and requests alone.
LEMMA CreationStepSending ==
  ASSUME Inv, Sending, NEW t \in Threads, pc[t] \in {"check", "clear", "emplace"},
         OthersStay(t), pc'[t] \in {"call", "emplace", "idle"},
         UNCHANGED <<invocations, submitted, status, context, inbox, histVars>>,
         \A p \in Procs, r \in Reqs : InCallback(p, r)' => InCallback(p, r)
  PROVE  Sending'
<1> USE ThreadFacts DEF histVars
<1>1. t # Worker
  BY DEF Inv, Threaded
<1>2. \A r \in Reqs : InWorker(r)' => InWorker(r)
  BY <1>1 DEF InWorker, OthersStay
<1>3. \A c \in Procs : Erases(c)' => Erases(c) /\ req'[Io(c)] = req[Io(c)]
  BY DEF OthersStay, Erases
<1>4. SendingKept
  BY <1>2, <1>3 DEF SendingKept, Answers, OthersStay
<1> QED BY <1>4, KeepSending

\* created_callback looks at what there is.
LEMMA CheckCreatedSending ==
  ASSUME Inv, Sending, NEW t \in Threads, CheckCreated(t)
  PROVE  Sending'
<1> USE DEF procVars, tcpVars, envVars
<1>1. /\ pc[t] = "check"
      /\ Goto(t, "call") \/ Goto(t, "emplace") \/ Done(t)
      /\ UNCHANGED <<procVars, tcpVars, envVars, histVars>>
  BY DEF CheckCreated, AfterCreated
<1>2. OthersStay(t) /\ pc'[t] \in {"call", "emplace", "idle"}
  BY <1>1, GotoFacts, DoneFacts DEF Inv, TypeOK, ThreadTypes
<1> QED BY <1>1, <1>2, CreationStepSending DEF InCallback

\* created_callback clears the callback.
LEMMA ClearCreatedSending ==
  ASSUME Inv, Sending, NEW t \in Threads, ClearCreated(t)
  PROVE  Sending'
<1> USE InvocationsAssumption DEF tcpVars, envVars
<1>1. /\ pc[t] = "clear"
      /\ Goto(t, "emplace") \/ Done(t)
      /\ creation' = [creation EXCEPT ![on[t]] = NoCallback]
      /\ UNCHANGED <<invocations, submitted, status, tcpVars, envVars, histVars>>
  BY DEF ClearCreated, AfterCreated
<1>2. OthersStay(t) /\ pc'[t] \in {"call", "emplace", "idle"}
  BY <1>1, GotoFacts, DoneFacts DEF Inv, TypeOK, ThreadTypes
<1>3. \A p \in Procs, r \in Reqs : InCallback(p, r)' => InCallback(p, r)
  BY <1>1 DEF InCallback, NoCallback, Inv, TypeOK
<1> QED BY <1>1, <1>2, <1>3, CreationStepSending

\* The backend's thread extends the list of processes.
LEMMA EmplaceProcessSending ==
  ASSUME Inv, Sending, NEW p \in Procs, EmplaceProcess(p)
  PROVE  Sending'
<1> USE ThreadFacts DEF procVars, tcpVars, envVars
<1>1. /\ pc[Backend(p)] = "emplace" /\ Done(Backend(p))
      /\ UNCHANGED <<procVars, tcpVars, envVars, histVars>>
  BY DEF EmplaceProcess
<1>2. OthersStay(Backend(p)) /\ pc'[Backend(p)] = "idle"
  BY <1>1, DoneFacts DEF Inv, TypeOK, ThreadTypes
<1> QED BY <1>1, <1>2, CreationStepSending DEF InCallback

\* A container that starts has done nothing yet.
LEMMA ContainerStartSending ==
  ASSUME Sending, NEW p \in Procs, ContainerStart(p) \/ LateStart(p)
  PROVE  Sending'
<1> USE DEF procVars, tcpVars, threadVars, histVars
<1>1. UNCHANGED <<procVars, tcpVars, inbox, threadVars, histVars>>
  BY DEF ContainerStart, LateStart
<1>2. SendingKept
  BY <1>1 DEF SendingKept, InWorker, InCallback, Answers, Erases
<1> QED BY <1>2, KeepSending

\* The thread of the backend begins with a look at the process.
LEMMA BackendCreatedSending ==
  ASSUME Inv, Sending, NEW p \in Procs, BackendCreated(p)
  PROVE  Sending'
<1> USE ThreadFacts DEF tcpVars, histVars
<1>1. /\ backend[p] = "asked"
      /\ UNCHANGED <<status, creation, invocations, submitted, tcpVars, inbox, req, histVars>>
  BY DEF BackendCreated
<1>2. OthersStay(Backend(p)) /\ pc'[Backend(p)] = "check"
  BY DEF BackendCreated, Inv, TypeOK, OthersStay
<1>3. pc[Backend(p)] = "idle"
  BY <1>1 DEF Inv, Threaded
<1>4. SendingKept
  BY <1>1, <1>2, <1>3 DEF SendingKept, InWorker, InCallback, Answers, Erases, OthersStay
<1> QED BY <1>4, KeepSending

\* A refusal clears the callback.
LEMMA BackendFailedSending ==
  ASSUME Inv, Sending, NEW p \in Procs, BackendFailed(p)
  PROVE  Sending'
<1> USE InvocationsAssumption DEF tcpVars, threadVars
<1>1. /\ creation' = [creation EXCEPT ![p] = NoCallback]
      /\ UNCHANGED <<status, invocations, submitted, tcpVars, inbox, threadVars, sent, asked, raced>>
  BY DEF BackendFailed
<1>2. \A q \in Procs, r \in Reqs : InCallback(q, r)' => InCallback(q, r)
  BY <1>1 DEF InCallback, NoCallback, Inv, TypeOK
<1>3. SendingKept
  BY <1>1, <1>2 DEF SendingKept, InWorker, Answers, Erases
<1> QED BY <1>3, KeepSending

\* The acceptor loop touches no list of invocations.
LEMMA PollerAddProcessSending ==
  ASSUME Inv, Sending, PollerAddProcess
  PROVE  Sending'
<1> USE DEF PollerAddProcess, procVars, envVars, threadVars, histVars
<1>1. SendingKept
  BY DEF SendingKept, InWorker, InCallback, Answers, Erases
<1> QED BY <1>1, KeepSending

\* A container ends; what it was sent is gone.
LEMMA DisconnectSending ==
  ASSUME Inv, Sending, NEW c \in Procs, Disconnect(c)
  PROVE  Sending'
<1> USE DEF tcpVars, threadVars, histVars
<1>1. /\ inbox' = [inbox EXCEPT ![c] = [r \in Reqs |-> 0]]
      /\ status' = IF context[c] = None THEN status ELSE [status EXCEPT ![context[c]] = "FAILURE"]
      /\ UNCHANGED <<creation, invocations, submitted, tcpVars, threadVars, histVars>>
  BY DEF Disconnect
<1>2. \A p \in Procs : status'[p] = "ALLOCATED" => status[p] = "ALLOCATED"
  BY <1>1 DEF Inv, TypeOK
<1>3. \A d \in Procs, r \in Reqs : inbox'[d][r] > 0 => inbox[d][r] > 0
  BY <1>1 DEF Inv, TypeOK
<1>4. SendingKept
  BY <1>1, <1>2, <1>3 DEF SendingKept, InWorker, InCallback, Answers, Erases
<1> QED BY <1>4, KeepSending

\* A result comes for an invocation that was sent.
LEMMA FinishInvocationSending ==
  ASSUME Inv, Sending, NEW c \in Procs, NEW r \in Reqs, FinishInvocation(c, r)
  PROVE  Sending'
<1> USE ThreadFacts DEF tcpVars, threadVars
<1>1. /\ inbox[c][r] > 0 /\ pc[Io(c)] = "idle"
      /\ inbox' = [inbox EXCEPT ![c][r] = @ - 1]
      /\ UNCHANGED <<status, creation, invocations, submitted, tcpVars, sent, asked, raced>>
  BY DEF FinishInvocation
<1>2. \A d \in Procs, s \in Reqs : inbox'[d][s] > 0 => inbox[d][s] > 0
  <2>1. inbox \in [Procs -> [Reqs -> Nat]] /\ inbox[c] \in [Reqs -> Nat]
    BY DEF Inv, TypeOK
  <2>2. \A s \in Reqs : inbox'[c][s] = IF s = r THEN inbox[c][r] - 1 ELSE inbox[c][s]
    BY <1>1, <2>1
  <2>3. \A d \in Procs : d # c => inbox'[d] = inbox[d]
    BY <1>1, <2>1
  <2> QED BY <1>1, <2>1, <2>2, <2>3
<1>3. OthersStay(Io(c)) /\ \/ pc'[Io(c)] = "erase" /\ req'[Io(c)] = r
                           \/ pc'[Io(c)] = "idle" /\ UNCHANGED threadVars
  BY <1>1 DEF FinishInvocation, Inv, TypeOK, OthersStay
<1>4. \A d \in Procs, s \in Reqs : Answers(d, s)' => Answers(d, s) \/ inbox[d][s] > 0
  BY <1>1, <1>3 DEF Answers, Erases, OthersStay
<1>5. SendingKept
  BY <1>1, <1>2, <1>3, <1>4 DEF SendingKept, InWorker, InCallback, OthersStay
<1> QED BY <1>5, KeepSending
-----------------------------------------------------------------------------
(* The steps that add or send.                                              *)

\* Adding to a list: when another thread is at work on it, everything in it is
\* raced for; otherwise t is alone with it.
LEMMA AddSending ==
  ASSUME Inv, Sending, NEW t \in Threads, NEW p \in Procs, NEW r \in Reqs,
         ~InList(p, r), r \notin submitted, AddInvocation(t, p, r),
         pc[t] \notin {"add", "scan"},
         \A s \in Reqs : (s \in asked => s \in asked') /\ (InWorker(s)' => InWorker(s)),
         \A q \in Procs, s \in Reqs : InCallback(q, s)' => InCallback(q, s),
         UNCHANGED <<status, submitted, sent, inbox>>
  PROVE  Sending'
<1>1. Added(p, r) /\ AddedBy(t, p, r)
  BY AddFacts
<1>2. LastIs(p, r)'
  <2>1. invocations[p] \in Seq(Reqs) /\ Len(invocations[p]) \in Nat
    BY DEF Inv, TypeOK
  <2>2. invocations'[p] = Append(invocations[p], r)
    BY DEF AddInvocation, Inv, TypeOK
  <2> QED BY <2>1, <2>2, AppendFacts DEF LastIs
<1>3. /\ raced \subseteq raced'
      /\ Meets(t, p) => ListRaced(p)'
  <2>1. raced' = IF Meets(t, p) THEN raced \cup ToSet(invocations[p]) \cup {r} ELSE raced
    BY DEF AddInvocation
  <2>2. \A s \in Reqs : InList(p, s)' => s \in ToSet(invocations[p]) \cup {r}
    BY <1>1, ListAsSet DEF Added
  <2> QED BY <2>1, <2>2 DEF ListRaced
<1>4. \A u \in Threads : Adding(u)'
  <2> SUFFICES ASSUME NEW u \in Threads, pc'[u] = "add"
               PROVE  Adding(u)'
    BY DEF Adding
  <2>1. CASE on'[u] = p /\ Meets(t, p)
    BY <1>3, <2>1 DEF Adding, ListRaced, InList
  <2>2. CASE u = t /\ ~Meets(t, p)
    <3>1. on'[t] = p /\ req'[t] = r
      BY <1>1 DEF AddedBy
    <3>2. \A v \in Threads : v # t /\ on'[v] = p => pc'[v] \notin {"add", "scan"}
      BY <1>1, <2>2 DEF AddedBy, Meets
    <3> QED BY <1>2, <2>2, <3>1, <3>2 DEF Adding, AddsAlone, LastIs
  <2>3. CASE u # t /\ on'[u] # p
    <3>1. pc[u] = "add" /\ on'[u] = on[u] /\ req'[u] = req[u]
      BY <1>1, <2>3 DEF AddedBy
    <3>2. on[u] \in Procs /\ on[u] # p
      BY <2>3, <3>1, OnProcess
    <3>3. invocations'[on[u]] = invocations[on[u]]
      BY <1>1, <3>2 DEF Added
    <3>4. \A v \in Threads : on'[v] = on[u] /\ pc'[v] \in {"add", "scan"} =>
             on[v] = on[u] /\ pc[v] \in {"add", "scan"}
      BY <1>1, <3>2 DEF AddedBy
    <3>5. Adding(u)
      BY DEF Sending
    <3> QED BY <1>3, <3>1, <3>3, <3>4, <3>5, KeepAdding
  <2>4. CASE u # t /\ on'[u] = p
    <3>1. pc[u] = "add" /\ on[u] = p
      BY <1>1, <2>4 DEF AddedBy
    <3>2. Meets(t, p)
      BY <2>4, <3>1 DEF Meets
    <3> QED BY <2>1, <2>4, <3>2
  <2>5. CASE u = t /\ Meets(t, p)
    BY <1>1, <2>1, <2>5 DEF AddedBy
  <2> QED BY <2>2, <2>3, <2>4, <2>5
<1>5. \A s \in Reqs : SentInTime(s)'
  <2>1. \A c \in Procs, s \in Reqs : Answers(c, s)' => Answers(c, s)
    BY <1>1, ThreadFacts DEF Answers, Erases, AddedBy
  <2> QED BY <1>3, <2>1 DEF Sending, SentInTime
<1>6. \A q \in Procs : Cared(q)'
  <2> SUFFICES ASSUME NEW q \in Procs, status[q] = "ALLOCATED", NEW s \in Reqs,
                      InList(q, s)', s \notin submitted, s \notin raced
               PROVE  SomeoneSends(q, s)'
    BY <1>3 DEF Cared
  <2>1. CASE q = p /\ s = r
    BY <1>1, <2>1 DEF SomeoneSends, AddedBy
  <2>2. CASE ~(q = p /\ s = r)
    <3>1. InList(q, s)
      BY <1>1, <2>2 DEF Added
    <3>2. PICK u \in Threads : on[u] = q /\ (pc[u] = "scan" \/ (pc[u] = "add" /\ req[u] = s))
      BY <3>1 DEF Sending, Cared, SomeoneSends
    <3>3. pc'[u] = pc[u] /\ on'[u] = on[u] /\ req'[u] = req[u]
      BY <1>1, <3>2 DEF AddedBy
    <3> QED BY <3>2, <3>3 DEF SomeoneSends
  <2> QED BY <2>1, <2>2
<1> QED BY <1>4, <1>5, <1>6 DEF Sending

\* The worker adds to a process of the list, whoever else does.
LEMMA SelectProcessSending ==
  ASSUME Inv, Sending, NEW r \in Reqs, SelectProcess(r)
  PROVE  Sending'
<1> USE ThreadFacts DEF tcpVars, envVars
<1>1. PICK p \in Procs : p = controlplane[FirstSpare]
  BY SelectedIsListed DEF SelectProcess
<1>2. /\ pc[Worker] = "idle" /\ r \notin asked /\ asked' = asked \cup {r}
      /\ AddInvocation(Worker, p, r)
      /\ UNCHANGED <<status, creation, submitted, tcpVars, envVars, sent>>
  BY <1>1 DEF SelectProcess, Arrive
<1>3. ~InList(p, r) /\ r \notin submitted
  BY <1>2, NotAsked DEF Sending, SentInTime
<1>4. AddedBy(Worker, p, r)
  BY <1>2, <1>3, AddFacts
<1>5. \A s \in Reqs : (s \in asked => s \in asked') /\ (InWorker(s)' => InWorker(s))
  BY <1>2, <1>4 DEF InWorker, AddedBy
<1>6. \A q \in Procs, s \in Reqs : InCallback(q, s)' => InCallback(q, s)
  BY <1>2 DEF InCallback
<1> QED BY <1>2, <1>3, <1>5, <1>6, AddSending

\* The callback adds what was not in any list.
LEMMA CallCreatedSending ==
  ASSUME Inv, Sending, NEW t \in Threads, CallCreated(t)
  PROVE  Sending'
<1> USE ThreadFacts, InvocationsAssumption DEF tcpVars, envVars
<1>1. /\ pc[t] = "call" /\ t # Worker
      /\ UNCHANGED <<status, submitted, tcpVars, envVars, sent, asked>>
  BY DEF CallCreated, Inv, Threaded
<1>2. PICK p \in Procs : p = on[t]
  BY <1>1, OnProcess
<1>3. CASE creation[p].state # "set"
  <2>1. UNCHANGED <<creation, invocations, threadVars, raced>>
    BY <1>2, <1>3 DEF CallCreated
  <2> USE DEF threadVars
  <2>2. SendingKept
    BY <1>1, <2>1 DEF SendingKept, InWorker, InCallback, Answers, Erases
  <2> QED BY <2>2, KeepSending
<1>4. CASE creation[p].state = "set"
  <2>1. PICK r \in Reqs : r = creation[p].req
    BY <1>4 DEF Inv, TypeOK, Listed
  <2>2. /\ AddInvocation(t, p, r)
        /\ creation' = [creation EXCEPT ![p] = [state |-> "moved", req |-> None]]
    BY <1>2, <1>4, <2>1 DEF CallCreated
  <2>3. ~InList(p, r) /\ r \notin submitted
    <3>1. InCallback(p, r)
      BY <2>1 DEF InCallback
    <3> QED BY <3>1 DEF Inv, InOnePlace, Sending, SentInTime
  <2>4. AddedBy(t, p, r)
    BY <2>2, <2>3, AddFacts
  <2>5. \A s \in Reqs : (s \in asked => s \in asked') /\ (InWorker(s)' => InWorker(s))
    BY <1>1, <2>4 DEF InWorker, AddedBy
  <2>6. \A q \in Procs, s \in Reqs : InCallback(q, s)' => InCallback(q, s)
    BY <2>2 DEF InCallback, Inv, TypeOK
  <2> QED BY <1>1, <2>2, <2>3, <2>5, <2>6, AddSending
<1> QED BY <1>3, <1>4

\* What Send records.
LEMMA SendRecords ==
  ASSUME TypeOK, NEW p \in Procs, connection[p] \in Procs, NEW rs \in SUBSET Reqs, Send(p, rs)
  PROVE  /\ submitted' = submitted \cup rs
         /\ \A r \in Reqs : sent'[r] = IF r \in rs THEN sent[r] + 1 ELSE sent[r]
         /\ \A c \in Procs, r \in Reqs : inbox'[c][r] > 0 => inbox[c][r] > 0 \/ r \in rs
<1>1. /\ submitted' = submitted \cup rs
      /\ \A r \in Reqs : sent'[r] = IF r \in rs THEN sent[r] + 1 ELSE sent[r]
  BY DEF Send
<1> DEFINE k == connection[p]
           more == [r \in Reqs |-> IF r \in rs THEN inbox[k][r] + 1 ELSE inbox[k][r]]
<1>2. inbox' = [inbox EXCEPT ![k] = IF container[k] = "registered" THEN more ELSE inbox[k]]
  BY DEF Send
<1>3. \A r \in Reqs : more[r] > 0 => inbox[k][r] > 0 \/ r \in rs
  OBVIOUS
<1> HIDE DEF more
<1> QED BY <1>1, <1>2, <1>3 DEF TypeOK

\* The thread t sends what it is there to send and goes on.
LEMMA SendSending ==
  ASSUME Inv, Sending, NEW t \in Threads, NEW p \in Procs, NEW rs \in SUBSET Reqs,
         on[t] = p, pc[t] \in {"add", "scan"},
         connection[p] \in Procs, Send(p, rs), OthersStay(t),
         \A r \in rs : InList(p, r) /\ (r \in submitted => r \in raced),
         \A r \in Reqs : InList(p, r) /\ (pc[t] = "scan" \/ req[t] = r) =>
           r \in submitted \/ r \in raced \/ r \in rs,
         pc'[t] \in {"idle", "clear", "check"},
         UNCHANGED <<status, creation, invocations, asked, raced>>
  PROVE  Sending'
<1>1. /\ submitted' = submitted \cup rs
      /\ \A r \in Reqs : sent'[r] = IF r \in rs THEN sent[r] + 1 ELSE sent[r]
      /\ \A c \in Procs, r \in Reqs : inbox'[c][r] > 0 => inbox[c][r] > 0 \/ r \in rs
  BY SendRecords DEF Inv
<1>2. \A u \in Threads : Adding(u)'
  <2> SUFFICES ASSUME NEW u \in Threads, pc'[u] = "add"
               PROVE  Adding(u)'
    BY DEF Adding
  <2>1. u # t /\ pc[u] = "add" /\ on'[u] = on[u] /\ req'[u] = req[u]
    BY DEF OthersStay
  <2>2. Adding(u)
    BY DEF Sending
  <2>3. CASE ListRaced(on[u])
    BY <2>1, <2>3 DEF Adding, ListRaced, InList
  <2>4. CASE AddsAlone(u)
    <3>1. on[u] # p
      BY <2>1, <2>4 DEF AddsAlone
    <3>2. on[u] \in Procs /\ req[u] \in Reqs /\ InList(on[u], req[u])
      BY <2>1, <2>4, AddedIsListed
    <3>3. req[u] \notin rs
      BY <3>1, <3>2 DEF Inv, InOnePlace
    <3>4. req'[u] \in Reqs /\ LastIs(on[u], req[u])' /\ req'[u] \notin submitted'
      BY <1>1, <2>1, <2>4, <3>3 DEF AddsAlone, LastIs
    <3>5. \A v \in Threads : v # u /\ on'[v] = on'[u] => pc'[v] \notin {"add", "scan"}
      BY <2>1, <2>4 DEF AddsAlone, OthersStay
    <3> QED BY <2>1, <3>4, <3>5 DEF Adding, AddsAlone, LastIs
  <2> QED BY <2>1, <2>2, <2>3, <2>4 DEF Adding
<1>3. \A r \in Reqs : SentInTime(r)'
  <2> SUFFICES ASSUME NEW r \in Reqs PROVE SentInTime(r)'
    OBVIOUS
  <2>1. /\ InWorker(r)' => InWorker(r)
        /\ \A q \in Procs : InCallback(q, r)' <=> InCallback(q, r)
        /\ \A c \in Procs : Answers(c, r)' => Answers(c, r)
    BY ThreadFacts DEF InWorker, InCallback, Answers, Erases, OthersStay
  <2>2. SentInTime(r)
    BY DEF Sending
  <2>3. CASE r \in rs
    <3>1. InList(p, r) /\ (r \in submitted => r \in raced)
      BY <2>3
    <3>2. r \in asked /\ ~InWorker(r) /\ \A q \in Procs : ~InCallback(q, r)
      BY <3>1 DEF Inv, InOnePlace, Answered
    <3>3. (r \notin raced => sent'[r] = 1) /\ r \in submitted'
      BY <1>1, <2>2, <2>3, <3>1 DEF SentInTime
    <3> QED BY <2>1, <3>2, <3>3 DEF SentInTime
  <2>4. CASE r \notin rs
    BY <1>1, <2>1, <2>2, <2>4 DEF SentInTime
  <2> QED BY <2>3, <2>4
<1>4. \A q \in Procs : Cared(q)'
  <2> SUFFICES ASSUME NEW q \in Procs, status[q] = "ALLOCATED", NEW r \in Reqs,
                      InList(q, r), r \notin submitted, r \notin rs, r \notin raced
               PROVE  SomeoneSends(q, r)'
    BY <1>1 DEF Cared, InList
  <2>1. PICK u \in Threads : on[u] = q /\ (pc[u] = "scan" \/ (pc[u] = "add" /\ req[u] = r))
    BY DEF Sending, Cared, SomeoneSends
  <2>2. u # t
    BY <2>1
  <2> QED BY <2>1, <2>2 DEF SomeoneSends, OthersStay
<1> QED BY <1>2, <1>3, <1>4 DEF Sending

\* The second half of add_invocation.
LEMMA SendLastSending ==
  ASSUME Inv, Sending, NEW t \in Threads, SendLast(t)
  PROVE  Sending'
<1> USE ThreadFacts DEF tcpVars
<1>1. /\ pc[t] = "add"
      /\ UNCHANGED <<status, creation, invocations, connection, tcpVars, asked, raced>>
  BY DEF SendLast
<1>2. PICK p \in Procs : p = on[t]
  BY <1>1, OnProcess
<1>3. OthersStay(t) /\ pc'[t] \in {"idle", "clear"}
  <2>1. ThreadTypes
    BY DEF Inv, TypeOK, ThreadTypes
  <2>2. CASE t = Worker
    BY <2>1, <2>2, DoneFacts DEF SendLast
  <2>3. CASE t # Worker
    BY <2>1, <2>3, GotoFacts DEF SendLast
  <2> QED BY <2>2, <2>3
<1>4. Adding(t) /\ invocations[p] \in Seq(Reqs)
  BY DEF Sending, Inv, TypeOK
<1>5. CASE status[p] = "ALLOCATED" /\ invocations[p] # <<>>
  <2>1. PICK l \in Reqs : l = Last(invocations[p]) /\ InList(p, l)
    <3>1. Len(invocations[p]) \in 1..Len(invocations[p])
      BY <1>4, <1>5
    <3> QED BY <1>4, <3>1 DEF Last, InList
  <2>2. Send(p, {l})
    BY <1>2, <1>5, <2>1 DEF SendLast
  <2>3. connection[p] \in Procs
    BY <1>5 DEF Inv, TypeOK, Linked
  <2>4. l \in submitted => l \in raced
    BY <1>1, <1>2, <1>4, <2>1 DEF Adding, ListRaced, AddsAlone, LastIs, Last
  <2>5. \A r \in Reqs : InList(p, r) /\ req[t] = r => r \in submitted \/ r \in raced \/ r \in {l}
    BY <1>1, <1>2, <1>4, <2>1 DEF Adding, ListRaced, AddsAlone, LastIs, Last
  <2> QED BY <1>1, <1>2, <1>3, <2>1, <2>2, <2>3, <2>4, <2>5, SendSending
<1>6. CASE ~(status[p] = "ALLOCATED" /\ invocations[p] # <<>>)
  <2>1. UNCHANGED <<submitted, sent, inbox>>
    BY <1>2, <1>6 DEF SendLast
  <2>2. \A u \in Threads : Adding(u)'
    <3> SUFFICES ASSUME NEW u \in Threads, pc'[u] = "add"
                 PROVE  Adding(u)'
      BY DEF Adding
    <3>1. pc[u] = "add" /\ on'[u] = on[u] /\ req'[u] = req[u] /\ Adding(u)
      BY <1>3 DEF OthersStay, Sending
    <3>2. \A v \in Threads : on'[v] = on[u] /\ pc'[v] \in {"add", "scan"} =>
             on[v] = on[u] /\ pc[v] \in {"add", "scan"}
      BY <1>3 DEF OthersStay
    <3> QED BY <1>1, <2>1, <3>1, <3>2, KeepAdding
  <2>3. \A r \in Reqs : SentInTime(r)'
    <3>1. \A r \in Reqs : /\ InWorker(r)' => InWorker(r)
                          /\ \A q \in Procs : InCallback(q, r)' <=> InCallback(q, r)
                          /\ \A c \in Procs : Answers(c, r)' => Answers(c, r)
      BY <1>1, <1>3 DEF InWorker, InCallback, Answers, Erases, OthersStay
    <3> QED BY <1>1, <2>1, <3>1 DEF Sending, SentInTime
  <2>4. \A q \in Procs : Cared(q)'
    <3> SUFFICES ASSUME NEW q \in Procs, status[q] = "ALLOCATED", NEW r \in Reqs,
                        InList(q, r), r \notin submitted, r \notin raced
                 PROVE  SomeoneSends(q, r)'
      BY <1>1, <2>1 DEF Cared, InList
    <3>1. PICK u \in Threads : on[u] = q /\ (pc[u] = "scan" \/ (pc[u] = "add" /\ req[u] = r))
      BY DEF Sending, Cared, SomeoneSends
    <3>2. u # t
      <4>1. on[u] # p
        <5>1. CASE status[p] # "ALLOCATED"
          BY <3>1, <5>1
        <5>2. CASE invocations[p] = <<>>
          BY <3>1, <5>2 DEF InList
        <5> QED BY <1>6, <5>1, <5>2
      <4> QED BY <1>2, <4>1
    <3> QED BY <1>3, <3>1, <3>2 DEF SomeoneSends, OthersStay
  <2> QED BY <2>2, <2>3, <2>4 DEF Sending
<1> QED BY <1>5, <1>6

\* connect sends what it finds.
LEMMA SendInvocationsSending ==
  ASSUME Inv, Sending, NEW c \in Procs, SendInvocations(c)
  PROVE  Sending'
<1> USE ThreadFacts DEF tcpVars
<1>1. PICK p \in Procs : p = on[Io(c)] /\ connection[p] = c
  BY IoProcess DEF SendInvocations
<1> DEFINE rs == ToSet(invocations[p]) \ submitted
<1>2. /\ pc[Io(c)] = "scan" /\ Goto(Io(c), "check") /\ Send(p, rs)
      /\ UNCHANGED <<status, creation, invocations, tcpVars, asked, raced>>
  BY <1>1 DEF SendInvocations
<1>3. OthersStay(Io(c)) /\ pc'[Io(c)] = "check"
  BY <1>2, GotoFacts DEF Inv, TypeOK, ThreadTypes
<1>4. ToSet(invocations[p]) \in SUBSET Reqs /\ \A r : r \in ToSet(invocations[p]) <=> InList(p, r)
  BY ListAsSet
<1>5. rs \in SUBSET Reqs /\ \A r \in rs : InList(p, r) /\ r \notin submitted
  BY <1>4
<1>6. \A r \in Reqs : InList(p, r) => r \in submitted \/ r \in rs
  BY <1>4
<1> HIDE DEF rs
<1> QED BY <1>1, <1>2, <1>3, <1>5, <1>6, SendSending

\* Whoever adds to the list of the process that gets its connection is in a race
\* with connect.
LEMMA HandleConnectionSending ==
  ASSUME Inv, Sending, NEW c \in Procs, HandleConnection(c)
  PROVE  Sending'
<1> USE ThreadFacts, InvocationsAssumption DEF tcpVars
<1>1. /\ container[c] = "running" /\ number[c] \in Numbers
      /\ UNCHANGED <<creation, invocations, submitted, inbox, req, sent, asked>>
  BY DEF HandleConnection, Inv, TypeOK
<1>2. pc[Io(c)] = "idle"
  BY <1>1 DEF Inv, Linked, Threaded
<1>3. CASE pending[number[c]] = None
  <2>1. UNCHANGED <<context, status, pc, on, raced>>
    BY <1>3 DEF HandleConnection
  <2>2. SendingKept
    BY <1>1, <2>1 DEF SendingKept, InWorker, InCallback, Answers, Erases
  <2> QED BY <2>2, KeepSending
<1>4. CASE pending[number[c]] # None
  <2>1. PICK q \in Procs : q = pending[number[c]] /\ status[q] = "ALLOCATING"
    BY <1>1, <1>4 DEF Inv, TypeOK, Waiting
  <2>2. /\ status' = [status EXCEPT ![q] = "ALLOCATED"]
        /\ pc' = [pc EXCEPT ![Io(c)] = "scan"]
        /\ on' = [on EXCEPT ![Io(c)] = q]
        /\ raced' = IF Meets(Io(c), q) THEN raced \cup ToSet(invocations[q]) ELSE raced
    BY <1>4, <2>1 DEF HandleConnection
  <2>3. raced \subseteq raced' /\ (Meets(Io(c), q) => ListRaced(q)')
    BY <1>1, <2>2, ListAsSet DEF ListRaced, InList
  <2>4. OthersStay(Io(c)) /\ pc'[Io(c)] = "scan" /\ on'[Io(c)] = q
    BY <1>1, <2>2 DEF OthersStay, Inv, TypeOK
  <2>5. \A u \in Threads : Adding(u)'
    <3> SUFFICES ASSUME NEW u \in Threads, pc'[u] = "add"
                 PROVE  Adding(u)'
      BY DEF Adding
    <3>1. u # Io(c) /\ pc[u] = "add" /\ on'[u] = on[u] /\ req'[u] = req[u] /\ Adding(u)
      BY <2>4 DEF OthersStay, Sending
    <3>2. CASE on[u] = q
      <4>1. Meets(Io(c), q)
        BY <3>1, <3>2 DEF Meets
      <4> QED BY <2>3, <3>1, <3>2, <4>1 DEF Adding, ListRaced, InList
    <3>3. CASE on[u] # q
      <4>1. \A v \in Threads : on'[v] = on[u] /\ pc'[v] \in {"add", "scan"} =>
               on[v] = on[u] /\ pc[v] \in {"add", "scan"}
        BY <2>4, <3>3 DEF OthersStay
      <4> QED BY <1>1, <2>3, <3>1, <4>1, KeepAdding
    <3> QED BY <3>2, <3>3
  <2>6. \A r \in Reqs : SentInTime(r)'
    <3>1. \A r \in Reqs : /\ InWorker(r)' => InWorker(r)
                          /\ \A p \in Procs : InCallback(p, r)' <=> InCallback(p, r)
                          /\ \A d \in Procs : Answers(d, r)' => Answers(d, r)
      BY <1>1, <2>4 DEF InWorker, InCallback, Answers, Erases, OthersStay
    <3> QED BY <1>1, <2>3, <3>1 DEF Sending, SentInTime
  <2>7. \A p \in Procs : Cared(p)'
    <3> SUFFICES ASSUME NEW p \in Procs, status'[p] = "ALLOCATED", NEW r \in Reqs,
                        InList(p, r), r \notin submitted, r \notin raced
                 PROVE  SomeoneSends(p, r)'
      BY <1>1, <2>3 DEF Cared, InList
    <3>1. CASE p = q
      BY <2>4, <3>1 DEF SomeoneSends
    <3>2. CASE p # q
      <4>1. status[p] = "ALLOCATED"
        BY <2>2, <3>2 DEF Inv, TypeOK
      <4>2. PICK u \in Threads : on[u] = p /\ (pc[u] = "scan" \/ (pc[u] = "add" /\ req[u] = r))
        BY <4>1 DEF Sending, Cared, SomeoneSends
      <4>3. u # Io(c)
        BY <1>2, <4>2
      <4> QED BY <2>4, <4>2, <4>3 DEF SomeoneSends, OthersStay
    <3> QED BY <3>1, <3>2
  <2> QED BY <2>5, <2>6, <2>7 DEF Sending
<1> QED BY <1>3, <1>4

\* What is erased was sent, so it is not what somebody adds alone.
LEMMA EraseInvocationSending ==
  ASSUME Inv, Sending, NEW c \in Procs, EraseInvocation(c)
  PROVE  Sending'
<1> USE ThreadFacts, InvocationsAssumption DEF tcpVars, envVars, histVars
<1>1. /\ pc[Io(c)] \in {"erase", "dangling"}
      /\ UNCHANGED <<status, creation, submitted, tcpVars, envVars, histVars>>
  BY DEF EraseInvocation
<1>2. PICK q \in Procs : q = on[Io(c)] /\ q = context[c]
  BY <1>1, IoProcess
<1>3. PICK r \in Reqs : r = req[Io(c)]
  BY <1>1 DEF Inv, Threaded
<1>4. Answers(c, r) /\ r \in submitted
  BY <1>1, <1>3 DEF Answers, Erases, Sending, SentInTime
<1>5. InList(q, r) /\ Once(q, r)
  BY <1>2, <1>4, OneAnswers DEF Inv, InOnePlace
<1>6. CASE pc[Io(c)] = "dangling"
  <2>1. UNCHANGED <<invocations, threadVars>>
    BY <1>6 DEF EraseInvocation
  <2> USE DEF threadVars
  <2>2. SendingKept
    BY <1>1, <2>1 DEF SendingKept, InWorker, InCallback, Answers, Erases
  <2> QED BY <2>2, KeepSending
<1>7. CASE pc[Io(c)] = "erase"
  <2>1. /\ invocations' = [invocations EXCEPT ![q] = RemoveFirst(@, r)]
        /\ Done(Io(c))
    BY <1>2, <1>3, <1>7 DEF EraseInvocation
  <2>2. /\ \A p \in Procs : p # q => invocations'[p] = invocations[p]
        /\ \A p \in Procs, s \in Reqs : InList(p, s)' => InList(p, s)
    BY <1>5, <2>1, ListErased DEF Inv
  <2>3. OthersStay(Io(c)) /\ pc'[Io(c)] = "idle"
    BY <2>1, DoneFacts DEF Inv, TypeOK, ThreadTypes
  <2>4. \A s \in Reqs : LastIs(q, s) /\ s # r => LastIs(q, s)'
    <3> DEFINE l == invocations[q]
    <3>1. l \in Seq(Reqs) /\ Len(l) \in Nat /\ invocations'[q] = RemoveFirst(l, r)
      BY <2>1 DEF Inv, TypeOK
    <3>2. PICK k \in 1..Len(l) : l[k] = r
      BY <1>5 DEF InList
    <3>3. \A j \in 1..Len(l) : l[j] = r => j = k
      BY <1>5, <3>2 DEF Once
    <3> HIDE DEF l
    <3>4. /\ Len(RemoveFirst(l, r)) = Len(l) - 1
          /\ \A i \in 1..Len(l) - 1 :
               RemoveFirst(l, r)[i] = IF i < k THEN l[i] ELSE l[i + 1]
      BY <3>1, <3>2, <3>3, RemoveFirstFacts, SMTT(30)
    <3> SUFFICES ASSUME NEW s \in Reqs, Len(l) > 0, l[Len(l)] = s, s # r
                 PROVE  /\ Len(RemoveFirst(l, r)) > 0
                        /\ RemoveFirst(l, r)[Len(RemoveFirst(l, r))] = s
      BY <3>1 DEF LastIs, l
    <3>5. k # Len(l)
      BY <3>2
    <3>6. Len(l) - 1 \in 1..Len(l) - 1 /\ ~(Len(l) - 1 < k) /\ Len(l) - 1 + 1 = Len(l)
      BY <3>1, <3>2, <3>5
    <3>7. RemoveFirst(l, r)[Len(l) - 1] = l[Len(l)]
      BY <3>4, <3>6
    <3> QED BY <3>1, <3>4, <3>6, <3>7
  <2>5. \A u \in Threads : Adding(u)'
    <3> SUFFICES ASSUME NEW u \in Threads, pc'[u] = "add"
                 PROVE  Adding(u)'
      BY DEF Adding
    <3>1. pc[u] = "add" /\ on'[u] = on[u] /\ req'[u] = req[u] /\ Adding(u)
      BY <2>3 DEF OthersStay, Sending
    <3>2. on[u] \in Procs
      BY <3>1, OnProcess
    <3>3. CASE ListRaced(on[u])
      BY <1>1, <2>2, <3>1, <3>2, <3>3 DEF Adding, ListRaced, InList
    <3>4. CASE AddsAlone(u)
      <4>1. LastIs(on[u], req[u])'
        <5>1. req[u] # r /\ req[u] \in Reqs /\ LastIs(on[u], req[u])
          BY <1>4, <3>4 DEF AddsAlone
        <5>2. CASE on[u] = q
          BY <2>4, <3>1, <5>1, <5>2 DEF LastIs
        <5>3. CASE on[u] # q
          BY <2>2, <3>1, <3>2, <5>1, <5>3 DEF LastIs
        <5> QED BY <5>2, <5>3
      <4>2. \A v \in Threads : v # u /\ on'[v] = on'[u] => pc'[v] \notin {"add", "scan"}
        BY <2>3, <3>1, <3>4 DEF AddsAlone, OthersStay
      <4> QED BY <1>1, <3>1, <3>4, <4>1, <4>2 DEF Adding, AddsAlone, LastIs
    <3> QED BY <3>1, <3>3, <3>4 DEF Adding
  <2>6. \A s \in Reqs : SentInTime(s)'
    <3>1. \A s \in Reqs : /\ InWorker(s)' => InWorker(s)
                          /\ \A p \in Procs : InCallback(p, s)' <=> InCallback(p, s)
                          /\ \A d \in Procs : Answers(d, s)' => Answers(d, s)
      BY <1>1, <2>3 DEF InWorker, InCallback, Answers, Erases, OthersStay
    <3> QED BY <1>1, <3>1 DEF Sending, SentInTime
  <2>7. \A p \in Procs : Cared(p)'
    <3> SUFFICES ASSUME NEW p \in Procs, status[p] = "ALLOCATED", NEW s \in Reqs,
                        InList(p, s), s \notin submitted, s \notin raced
                 PROVE  SomeoneSends(p, s)'
      BY <1>1, <2>2 DEF Cared
    <3>1. PICK u \in Threads : on[u] = p /\ (pc[u] = "scan" \/ (pc[u] = "add" /\ req[u] = s))
      BY DEF Sending, Cared, SomeoneSends
    <3>2. u # Io(c)
      BY <1>1, <3>1
    <3> QED BY <2>3, <3>1, <3>2 DEF SomeoneSends, OthersStay
  <2> QED BY <2>5, <2>6, <2>7 DEF Sending
<1> QED BY <1>1, <1>6, <1>7

-----------------------------------------------------------------------------
\* Nothing was sent in the initial state.
LEMMA InitSending == Init => Sending
<1> SUFFICES ASSUME Init PROVE Sending
  OBVIOUS
<1> USE ThreadFacts, InvocationsAssumption DEF Init, NoCallback
<1>1. \A t \in Threads : Adding(t)
  BY DEF Adding
<1>2. \A r \in Reqs : SentInTime(r)
  BY DEF SentInTime, InWorker, InCallback, Answers, Erases
<1>3. \A p \in Procs : Cared(p)
  BY DEF Cared
<1> QED BY <1>1, <1>2, <1>3 DEF Sending

\* Every step of every thread keeps it.
LEMMA NextSending == Inv /\ Sending /\ [Next]_vars => Sending'
<1> SUFFICES ASSUME Inv, Sending, [Next]_vars PROVE Sending'
  OBVIOUS
<1>1. ASSUME NEW r \in Reqs, HandleInvocation(r) PROVE Sending'
  BY <1>1, UnknownApplicationSending, SelectProcessSending, SelectNoneSending
     DEF HandleInvocation
<1>2. ASSUME NEW t \in Threads, ThreadStep(t) PROVE Sending'
  BY <1>2, SendLastSending, CheckCreatedSending, CallCreatedSending, ClearCreatedSending
     DEF ThreadStep
<1>3. CASE WorkerStep
  BY <1>3, SendLastSending, CreateProcessSending, ThreadFacts DEF WorkerStep
<1>4. CASE PollerAddProcess
  BY <1>4, PollerAddProcessSending
<1>5. ASSUME NEW p \in Procs,
             \/ ContainerStart(p) \/ LateStart(p) \/ BackendCreated(p) \/ BackendFailed(p)
             \/ BackendStep(p)
      PROVE  Sending'
  BY <1>2, <1>5, ContainerStartSending, BackendCreatedSending, BackendFailedSending,
     EmplaceProcessSending, ThreadFacts DEF BackendStep
<1>6. ASSUME NEW c \in Procs, HandleConnection(c) \/ Disconnect(c) \/ IoStep(c)
      PROVE  Sending'
  BY <1>2, <1>6, HandleConnectionSending, DisconnectSending, SendInvocationsSending,
     EraseInvocationSending, ThreadFacts DEF IoStep
<1>7. ASSUME NEW c \in Procs, NEW r \in Reqs, FinishInvocation(c, r) PROVE Sending'
  BY <1>7, FinishInvocationSending
<1>8. CASE UNCHANGED vars
  <2> USE <1>8 DEF vars, procVars, tcpVars, envVars, threadVars, histVars
  <2>1. SendingKept
    BY DEF SendingKept, InWorker, InCallback, Answers, Erases
  <2> QED BY <2>1, KeepSending
<1> QED BY <1>1, <1>3, <1>4, <1>5, <1>6, <1>7, <1>8 DEF Next

\* Whatever overlaps, comes at the same time, fails or crashes: what is not in a
\* list that two threads worked on is sent once, by the thread that owes it.
THEOREM SendingAlways == Spec => []Sending
BY InitSending, NextSending, InvAlways, PTL DEF Spec

\* connect and add_invocation leave no invocation to each other, except in a list
\* that both worked on (worker.cpp:46, process.cpp:85-88).
THEOREM NoneLeftBehindAlways == Spec => []NoneLeftBehind
<1>1. Inv /\ Sending => NoneLeftBehind
  <2> SUFFICES ASSUME Inv, Sending, NEW p \in Procs, status[p] = "ALLOCATED",
                      \A t \in Threads : on[t] = p => pc[t] \notin {"add", "scan"},
                      NEW r, r \in ToSet(invocations[p]), r \notin raced
               PROVE  r \in submitted
    BY DEF NoneLeftBehind
  <2>1. r \in Reqs /\ InList(p, r)
    BY ListAsSet
  <2>2. ~SomeoneSends(p, r)
    BY DEF SomeoneSends
  <2> QED BY <2>1, <2>2 DEF Sending, Cared
<1> QED BY <1>1, InvAlways, SendingAlways, PTL

\* And they never both send one, with the same exception.
THEOREM SentOnceAlways == Spec => []SentOnce
<1>1. Sending => SentOnce
  BY DEF Sending, SentInTime, SentOnce
<1> QED BY <1>1, SendingAlways, PTL
=============================================================================
