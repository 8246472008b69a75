----------------------------- MODULE WorkQueue -----------------------------
(***************************************************************************)
(* How the controller of a process runs invocations on its function        *)
(* workers (workers.cpp: WorkQueue and Workers; controller.cpp: poll,      *)
(* _process_invocation and _process_invocation_result).                    *)
(*                                                                         *)
(* The controller is one thread.  Each round of poll() handles the events  *)
(* that are ready (phase "events": requests that arrived, results workers  *)
(* sent) and then hands queued invocations to idle workers as long as it   *)
(* can (phase "schedule").                                                 *)
(*                                                                         *)
(* A request is one invocation request.  A remote one comes from the       *)
(* control plane, a client or another process, and its answer goes to the  *)
(* source stored in the invocation object.  A local one is made by a       *)
(* function that calls invoke on its own process; its worker blocks, and   *)
(* its answer goes to every worker that waits under the same identifier    *)
(* (PendingMessages, of which this module keeps these entries only).       *)
(***************************************************************************)
EXTENDS Integers, Sequences, FiniteSets, Controller

CONSTANTS Requests,   \* requests that are ever made
          LocalReqs,  \* those among them that functions of this process make
          Keys,       \* invocation identifiers, chosen by the sender
          SharedKeys  \* identifiers that senders use although they are in use

ASSUME WorkQueueAssumption ==
  /\ LocalReqs \subseteq Requests
  /\ None \notin Keys \cup Requests
  /\ IsFiniteSet(Workers)
  /\ SharedKeys \subseteq Keys

VARIABLES
  invocs,   \* _active_invocations: key -> source and active flag, or nothing
  queue,    \* _pending_invocations, as keys
  running,  \* the invocation each worker was sent and has not answered
  invoking, \* the local request each worker is blocked in
  busy,     \* FunctionWorker::_busy
  idle,     \* Workers::_idle_workers
  phase,    \* the part of poll() the controller is in
  key,      \* history: the identifier of each request that arrived
  answers,  \* history: how often each request was answered
  arrived,  \* history: the requests in the order of their arrival
  started   \* history: the sources of invocations in the order of their start

workerVars == <<running, busy, idle>>
orderVars == <<arrived, started>>
vars == <<invocs, queue, workerVars, invoking, phase, key, answers, orderVars>>

Absent == [source |-> None, active |-> FALSE]

TypeOK ==
  /\ invocs \in [Keys -> [source : Requests \cup {None}, active : BOOLEAN]]
  /\ queue \in Seq(Keys)
  /\ running \in [Workers -> Keys \cup {None}]
  /\ invoking \in [Workers -> LocalReqs \cup {None}]
  /\ busy \in [Workers -> BOOLEAN]
  /\ idle \in 0..Cardinality(Workers)
  /\ phase \in {"events", "schedule"}
  /\ key \in [Requests -> Keys \cup {None}]
  /\ answers \in [Requests -> Nat]
  /\ arrived \in Seq(Requests)
  /\ started \in Seq(Requests)

Init ==
  /\ invocs = [k \in Keys |-> Absent]
  /\ queue = <<>>
  /\ running = [w \in Workers |-> None]
  /\ invoking = [w \in Workers |-> None]
  /\ busy = [w \in Workers |-> FALSE]
  /\ idle = Cardinality(Workers)
  /\ phase = "events"
  /\ key = [r \in Requests |-> None]
  /\ answers = [r \in Requests |-> 0]
  /\ arrived = <<>>
  /\ started = <<>>

-----------------------------------------------------------------------------
(* Answers.                                                                 *)

\* Mutated WaitingFor: every worker that is blocked, whatever the identifier.
WaitingForAnything(k, inv, keys) == {w \in Workers : inv[w] # None}

\* The workers that find_invocation finds under an identifier.
WaitingFor(k, inv, keys) == {w \in Workers : inv[w] # None /\ keys[inv[w]] = k}

\* _process_invocation_result for a local source: every worker that waits under
\* the identifier is answered and goes on.  inv is who waits at that moment.
AnswerLocal(k, inv, keys) ==
  LET ws == WaitingFor(k, inv, keys)
  IN /\ answers' = [r \in Requests |-> IF \E w \in ws : inv[w] = r
                                       THEN answers[r] + 1 ELSE answers[r]]
     /\ invoking' = [w \in Workers |-> IF w \in ws THEN None ELSE inv[w]]

\* _process_invocation_result for a remote source.
AnswerRemote(r) == answers' = [answers EXCEPT ![r] = @ + 1]

-----------------------------------------------------------------------------
(* Requests.                                                                *)

\* add_payload extends a pending invocation of the same key, whatever its
\* function and whoever sent it; it refuses a key that is running, and a
\* function the process does not have.
Pending(k) == invocs[k] # Absent /\ ~invocs[k].active
Active(k) == invocs[k] # Absent /\ invocs[k].active
Refused(k, known) == ~Pending(k) /\ (Active(k) \/ ~known)

\* add_payload for request r: the payload joins a pending invocation, which
\* forgets who sent it, or a new invocation is queued, or nothing changes.
AddPayload(r, k, known) ==
  IF Pending(k) \/ Refused(k, known)
  THEN UNCHANGED <<invocs, queue>>
  ELSE /\ invocs' = [invocs EXCEPT ![k] = [source |-> r, active |-> FALSE]]
       /\ queue' = Append(queue, k)

\* What senders do: each request once, under an identifier of their choice.
Fresh(r, k) ==
  /\ key[r] = None
  /\ k \in SharedKeys \/ (invocs[k] = Absent /\ WaitingFor(k, invoking, key) = {})

\* Mutated ExternalRequest: a refusal is logged and not answered.
ExternalRequestSilent(r, k, known) ==
  /\ phase = "events"
  /\ r \notin LocalReqs
  /\ Fresh(r, k)
  /\ key' = [key EXCEPT ![r] = k]
  /\ arrived' = Append(arrived, r)
  /\ AddPayload(r, k, known)
  /\ UNCHANGED <<answers, workerVars, invoking, phase, started>>

\* An InvocationRequest message of a remote sender; a refusal is answered.
ExternalRequest(r, k, known) ==
  /\ phase = "events"
  /\ r \notin LocalReqs
  /\ Fresh(r, k)
  /\ key' = [key EXCEPT ![r] = k]
  /\ arrived' = Append(arrived, r)
  /\ AddPayload(r, k, known)
  /\ IF Refused(k, known) THEN AnswerRemote(r) ELSE UNCHANGED answers
  /\ UNCHANGED <<workerVars, invoking, phase, started>>

\* _process_invocation with this process as the target: the worker is put on
\* the list of those that wait before the payload is added; a refusal is
\* answered to everyone on it.
LocalRequest(w, r, k, known) ==
  /\ phase = "events"
  /\ r \in LocalReqs
  /\ running[w] # None /\ invoking[w] = None
  /\ Fresh(r, k)
  /\ key' = [key EXCEPT ![r] = k]
  /\ arrived' = Append(arrived, r)
  /\ AddPayload(r, k, known)
  /\ LET inv == [invoking EXCEPT ![w] = r]
     IN IF Refused(k, known) THEN AnswerLocal(k, inv, key')
        ELSE invoking' = inv /\ UNCHANGED answers
  /\ UNCHANGED <<workerVars, phase, started>>

-----------------------------------------------------------------------------
(* Results.                                                                 *)

\* Mutated FinishInvocation: the invocation is answered but not taken out.
FinishInvocationKeeps(k) ==
  IF Active(k)
  THEN /\ UNCHANGED invocs
       /\ IF invocs[k].source \in LocalReqs THEN AnswerLocal(k, invoking, key)
          ELSE AnswerRemote(invocs[k].source) /\ UNCHANGED invoking
  ELSE UNCHANGED <<answers, invocs, invoking>>

\* WorkQueue::finish: the invocation of this key, if there is one and it runs,
\* is taken out and its source answered.
FinishInvocation(k) ==
  IF Active(k)
  THEN /\ invocs' = [invocs EXCEPT ![k] = Absent]
       /\ IF invocs[k].source \in LocalReqs THEN AnswerLocal(k, invoking, key)
          ELSE AnswerRemote(invocs[k].source) /\ UNCHANGED invoking
  ELSE UNCHANGED <<answers, invocs, invoking>>

\* Mutated FinishWorker: the counter goes up without the flag going down.
FinishWorkerStaysBusy(w) == idle' = idle + 1 /\ UNCHANGED busy

\* Workers::finish.
FinishWorker(w) ==
  /\ busy' = [busy EXCEPT ![w] = FALSE]
  /\ idle' = idle + 1

\* A worker returns the result of the invocation it was sent; it is idle
\* whether or not the invocation was found.
Result(w) ==
  /\ phase = "events"
  /\ running[w] # None /\ invoking[w] = None
  /\ running' = [running EXCEPT ![w] = None]
  /\ FinishInvocation(running[w])
  /\ FinishWorker(w)
  /\ UNCHANGED <<queue, phase, key, orderVars>>

\* The events of this round are handled.
EventsDone ==
  /\ phase = "events"
  /\ phase' = "schedule"
  /\ UNCHANGED <<invocs, queue, workerVars, invoking, key, answers, orderVars>>

-----------------------------------------------------------------------------
(* Scheduling.                                                              *)

\* _get_idle_worker: some worker that is not busy, in the order of the vector.
\* submit does not check that there is one.
IdleWorkers == {w \in Workers : ~busy[w]}

\* Mutated Submit: the invocation is not marked active.
SubmitInactive(w) ==
  /\ phase = "schedule"
  /\ idle > 0
  /\ queue # <<>>
  /\ w \in IdleWorkers
  /\ queue' = Tail(queue)
  /\ running' = [running EXCEPT ![w] = Head(queue)]
  /\ busy' = [busy EXCEPT ![w] = TRUE]
  /\ idle' = idle - 1
  /\ started' = Append(started, invocs[Head(queue)].source)
  /\ UNCHANGED <<invocs, invoking, phase, key, answers, arrived>>

\* Mutated Submit: the newest invocation goes first.
SubmitNewest(w) ==
  /\ phase = "schedule"
  /\ idle > 0
  /\ queue # <<>>
  /\ w \in IdleWorkers
  /\ queue' = SubSeq(queue, 1, Len(queue) - 1)
  /\ running' = [running EXCEPT ![w] = queue[Len(queue)]]
  /\ busy' = [busy EXCEPT ![w] = TRUE]
  /\ invocs' = [invocs EXCEPT ![queue[Len(queue)]].active = TRUE]
  /\ idle' = idle - 1
  /\ started' = Append(started, invocs[queue[Len(queue)]].source)
  /\ UNCHANGED <<invoking, phase, key, answers, arrived>>

\* next and submit: the oldest invocation (direct triggers are always ready)
\* goes to an idle worker.
Submit(w) ==
  /\ phase = "schedule"
  /\ idle > 0
  /\ queue # <<>>
  /\ w \in IdleWorkers
  /\ queue' = Tail(queue)
  /\ running' = [running EXCEPT ![w] = Head(queue)]
  /\ busy' = [busy EXCEPT ![w] = TRUE]
  /\ invocs' = [invocs EXCEPT ![Head(queue)].active = TRUE]
  /\ idle' = idle - 1
  /\ started' = Append(started, invocs[Head(queue)].source)
  /\ UNCHANGED <<invoking, phase, key, answers, arrived>>

\* No idle worker, or nothing in the queue: the next round.
ScheduleDone ==
  /\ phase = "schedule"
  /\ idle <= 0 \/ queue = <<>>
  /\ phase' = "events"
  /\ UNCHANGED <<invocs, queue, workerVars, invoking, key, answers, orderVars>>

-----------------------------------------------------------------------------
Next ==
  \/ \E r \in Requests, k \in Keys, known \in BOOLEAN :
       \/ ExternalRequest(r, k, known)
       \/ \E w \in Workers : LocalRequest(w, r, k, known)
  \/ \E w \in Workers : Result(w) \/ Submit(w)
  \/ EventsDone
  \/ ScheduleDone

Spec == Init /\ [][Next]_vars

\* The controller thread keeps going round poll(), and a function that is not
\* blocked in invoke returns: its result reaches the controller in some round
\* (the controller has no way to go on without it).
Fairness ==
  /\ WF_vars(EventsDone)
  /\ WF_vars(ScheduleDone)
  /\ WF_vars(\E w \in Workers : Submit(w))
  /\ \A w \in Workers : SF_vars(Result(w))

FairSpec == Spec /\ Fairness

-----------------------------------------------------------------------------
(* Properties.                                                              *)

\* The counter of idle workers is what the busy flags say, and a worker is busy
\* while it has an invocation: has_idle_workers and _get_idle_worker agree, so
\* submit never uses a null worker ("Should never happen"), and a worker that
\* is blocked in invoke is never given more work.
IdleExact ==
  /\ idle = Cardinality(IdleWorkers)
  /\ \A w \in Workers : busy[w] <=> running[w] # None
  /\ \A w \in Workers : invoking[w] # None => busy[w]

\* Every invocation is in one place: queued once and not active, or active and
\* on one worker.
OnePlace ==
  /\ \A i, j \in 1..Len(queue) : queue[i] = queue[j] => i = j
  /\ \A v, w \in Workers : running[v] # None /\ running[v] = running[w] => v = w
  /\ \A k \in Keys :
       /\ Pending(k) <=> \E i \in 1..Len(queue) : queue[i] = k
       /\ Active(k) <=> \E w \in Workers : running[w] = k

\* No request is answered twice, whatever identifiers senders use: the remote
\* source of an invocation that is still there, and a worker that is still
\* blocked, have not been answered.
AnsweredOnce ==
  /\ \A r \in Requests : answers[r] <= 1
  /\ \A k \in Keys : invocs[k] # Absent /\ invocs[k].source \notin LocalReqs =>
       key[invocs[k].source] = k /\ answers[invocs[k].source] = 0
  /\ \A w \in Workers : invoking[w] # None => answers[invoking[w]] = 0

\* One request arrived before another.
Before(q, r) == \E i, j \in 1..Len(arrived) : i < j /\ arrived[i] = q /\ arrived[j] = r

\* No invocation overtakes an older one: invocations are started in the order in
\* which their requests arrived, and what is still queued arrived after all that
\* was started, through any number of rounds, refusals, merged payloads and
\* identifiers that are used again.  Functions rely on it where one request
\* prepares what a later one reads.
StartInOrder ==
  /\ \A i, j \in 1..Len(started) : i < j => Before(started[i], started[j])
  /\ \A i \in 1..Len(started), k \in Keys : Pending(k) => Before(started[i], invocs[k].source)

\* The worker that asked for an invocation is blocked in that request.
Waits(k) == invocs[k].source \in LocalReqs => \E w \in Workers : invoking[w] = invocs[k].source

\* As long as an invocation that a function asked for is queued or running,
\* the worker that asked for it is on the list of those that wait: the result
\* finds it.  Misuse of some identifiers does not disturb the others.
CallerStillWaits == \A k \in Keys \ SharedKeys : Waits(k)

\* A function is blocked in a call that it made under a shared identifier.
Misused(w) == invoking[w] # None /\ key[invoking[w]] \in SharedKeys

\* Every worker is blocked in a call of its own process: none is left to run
\* what they wait for, and the process stands still for ever
\* (controller.cpp:513: the worker of the caller stays busy).
AllBlocked == \A w \in Workers : invoking[w] # None

\* Every request under an identifier that is kept apart is answered, by its
\* result or at once by a refusal, whatever happens under the others, unless
\* as many functions invoke functions of their own process at the same time as
\* there are workers, or some function stays for ever in a call that it made
\* under a shared identifier.
EveryRequestAnswered ==
  (\A w \in Workers : []<>~Misused(w)) =>
    \A r \in Requests : key[r] \in Keys \ SharedKeys ~> answers[r] > 0 \/ AllBlocked

-----------------------------------------------------------------------------
(* The inductive invariant behind IdleExact, OnePlace and AnsweredOnce.     *)

\* Who asked for what: an invocation has a source, a request is answered only
\* after it arrived, and no two workers are blocked in the same request.
Bookkeeping ==
  /\ \A k \in Keys : invocs[k] # Absent => invocs[k].source # None
  /\ \A r \in Requests : key[r] = None => answers[r] = 0
  /\ \A w \in Workers : invoking[w] # None => key[invoking[w]] # None
  /\ \A v, w \in Workers : invoking[v] # None /\ invoking[v] = invoking[w] => v = w

\* Invocations, queue, workers and answers agree with each other.
Consistent ==
  /\ TypeOK
  /\ IdleExact
  /\ OnePlace
  /\ AnsweredOnce
  /\ Bookkeeping
=============================================================================
