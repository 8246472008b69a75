---------------------------- MODULE Invocations ----------------------------
(***************************************************************************)
(* Invocations that clients send to the control plane over HTTP:           *)
(* Workers::handle_invocation (worker.cpp), the processes an application   *)
(* allocates for them (Application::get_controlplane_process), and the     *)
(* list of invocations, the creation callback and the connection of each   *)
(* of these processes (process.cpp, tcpserver.cpp).                        *)
(*                                                                         *)
(* Three kinds of threads work on a process:                               *)
(*   - the worker inside the application, one at a time (it holds the      *)
(*     exclusive accessor of the application);                             *)
(*   - the thread on which the backend answers allocate_process;           *)
(*   - the I/O thread of the connection of its container.                  *)
(* All of them write `process->write_lock();` as a statement, which locks  *)
(* and unlocks at once: nothing keeps them apart, and the steps below are  *)
(* as large as what one thread does between two looks at shared state.     *)
(*                                                                         *)
(* Process objects never leave this life for another: they are not in the  *)
(* maps of active and swapped processes, so they are neither swapped nor   *)
(* deleted.  The backend is DockerBackend, whose instances are connected   *)
(* as soon as they exist.                                                  *)
(***************************************************************************)
EXTENDS Integers, Sequences, FiniteSets, SequencesExt

CONSTANTS Reqs,   \* invocations, each an HTTP request and its callback
          Procs,  \* process objects, and the containers launched for them
          None,   \* no process, no request
          Env     \* what the world around may do

\* What happens besides the expected:
\*  "overlap"      a request comes while a process is still being allocated;
\*  "simultaneous" the backend answers while the container registers;
\*  "early"        a container registers before the acceptor loop knows of it;
\*  "refused"      the backend reports a failure before the container runs;
\*  "late"         the container of a reported failure runs all the same;
\*  "crash"        a container ends.
Conditions == {"overlap", "simultaneous", "early", "refused", "late", "crash"}

ASSUME InvocationsAssumption ==
  /\ None \notin Reqs \cup Procs
  /\ IsFiniteSet(Procs)
  /\ Env \subseteq Conditions

VARIABLES
  status,            \* Process::_status
  number,            \* the number in its name, controlplane-<number>
  handle,            \* whether Process::_handle is set
  creation,          \* Process::_creation_callback
  invocations,       \* Process::_invocations, as requests
  submitted,         \* requests with Invocation::submitted
  activeInvocations, \* Process::_active_invocations
  connection,        \* Process::_connection, the container at its other end
  controlplane,      \* Application::_controlplane_processes
  loopTasks,         \* add_process closures queued in the acceptor loop
  pending,           \* TCPServer::_pending_processes: number -> process
  context,           \* ConnectionData::process of a container's connection
  backend,           \* what the backend was asked for and has answered
  container,         \* the container launched for a process
  inbox,             \* how often a container was sent each request
  pc, on, req,       \* what each thread does, with which process and request
  sent, replies,     \* history: how often a request was sent and answered
  asked,             \* history: requests that arrived
  raced,             \* history: requests in a list that two threads worked on
  fault              \* why the control plane is gone: none, exception, undefined

procVars == <<status, number, handle, creation, invocations, submitted,
              activeInvocations, connection>>
tcpVars == <<loopTasks, pending, context>>
envVars == <<backend, container, inbox>>
threadVars == <<pc, on, req>>
histVars == <<sent, replies, asked, raced>>
vars == <<procVars, controlplane, tcpVars, envVars, threadVars, histVars, fault>>

Worker == <<"worker", None>>
Backend(p) == <<"backend", p>>
Io(c) == <<"io", c>>
Threads == {Worker} \cup {Backend(p) : p \in Procs} \cup {Io(c) : c \in Procs}

\* The creation callback holds the request of the invocation that needed the
\* process; a call moves the request out of it.
NoCallback == [state |-> "none", req |-> None]
Callback(r) == [state |-> "set", req |-> r]

MaxFuncsPerProcess == 1

Numbers == 0..Cardinality(Procs)

TypeOK ==
  /\ status \in [Procs -> {"unused", "ALLOCATING", "ALLOCATED", "FAILURE"}]
  /\ number \in [Procs -> Numbers]
  /\ handle \in [Procs -> BOOLEAN]
  /\ creation \in [Procs -> [state : {"none", "set", "moved"}, req : Reqs \cup {None}]]
  /\ invocations \in [Procs -> Seq(Reqs)]
  /\ submitted \subseteq Reqs
  /\ activeInvocations \in [Procs -> Nat]
  /\ connection \in [Procs -> Procs \cup {None}]
  /\ controlplane \in Seq(Procs)
  /\ loopTasks \in Seq(Procs)
  /\ pending \in [Numbers -> Procs \cup {None}]
  /\ context \in [Procs -> Procs \cup {None}]
  /\ backend \in [Procs -> {"none", "asked", "answered"}]
  /\ container \in [Procs -> {"none", "running", "registered", "ignored", "gone"}]
  /\ inbox \in [Procs -> [Reqs -> Nat]]
  /\ pc \in [Threads -> {"idle", "create", "add", "scan", "check", "call", "clear",
                         "emplace", "erase", "dangling"}]
  /\ on \in [Threads -> Procs \cup {None}]
  /\ req \in [Threads -> Reqs \cup {None}]
  /\ sent \in [Reqs -> Nat]
  /\ replies \in [Reqs -> Nat]
  /\ asked \subseteq Reqs
  /\ raced \subseteq Reqs
  /\ fault \in {"none", "exception", "undefined"}

Init ==
  /\ status = [p \in Procs |-> "unused"]
  /\ number = [p \in Procs |-> 0]
  /\ handle = [p \in Procs |-> FALSE]
  /\ creation = [p \in Procs |-> NoCallback]
  /\ invocations = [p \in Procs |-> <<>>]
  /\ submitted = {}
  /\ activeInvocations = [p \in Procs |-> 0]
  /\ connection = [p \in Procs |-> None]
  /\ controlplane = <<>>
  /\ loopTasks = <<>>
  /\ pending = [n \in Numbers |-> None]
  /\ context = [p \in Procs |-> None]
  /\ backend = [p \in Procs |-> "none"]
  /\ container = [p \in Procs |-> "none"]
  /\ inbox = [c \in Procs |-> [r \in Reqs |-> 0]]
  /\ pc = [t \in Threads |-> "idle"]
  /\ on = [t \in Threads |-> None]
  /\ req = [t \in Threads |-> None]
  /\ sent = [r \in Reqs |-> 0]
  /\ replies = [r \in Reqs |-> 0]
  /\ asked = {}
  /\ raced = {}
  /\ fault = "none"

-----------------------------------------------------------------------------
(* The list of invocations of a process.                                    *)

\* A thread goes on to its next point, or is done with the process.
Goto(t, point) == pc' = [pc EXCEPT ![t] = point] /\ UNCHANGED <<on, req>>
Done(t) ==
  /\ pc' = [pc EXCEPT ![t] = "idle"]
  /\ on' = [on EXCEPT ![t] = None]
  /\ req' = [req EXCEPT ![t] = None]

\* What follows created_callback: the backend's thread has the list of
\* processes to extend.
AfterCreated(t) == IF t[1] = "backend" THEN Goto(t, "emplace") ELSE Done(t)

\* A thread other than t is between two looks at the list of p: it has appended
\* and not sent yet, or it has the connection and not sent what it found.
Meets(t, p) == \E u \in Threads \ {t} : on[u] = p /\ pc[u] \in {"add", "scan"}

\* The first half of add_invocation, on thread t: the invocation is appended
\* and counted.  An I/O thread that is between finding an invocation of this
\* process and erasing it holds an iterator that a reallocation invalidates.
AddInvocation(t, p, r) ==
  \E reallocated \in BOOLEAN :
    /\ invocations' = [invocations EXCEPT ![p] = Append(@, r)]
    /\ raced' = IF Meets(t, p) THEN raced \cup ToSet(invocations[p]) \cup {r} ELSE raced
    /\ activeInvocations' = [activeInvocations EXCEPT ![p] = @ + 1]
    /\ pc' = [u \in Threads |->
                IF u = t THEN "add"
                ELSE IF reallocated /\ pc[u] = "erase" /\ on[u] = p THEN "dangling" ELSE pc[u]]
    /\ on' = [on EXCEPT ![t] = p]
    /\ req' = [req EXCEPT ![t] = r]

\* _send_invocation for each of some requests of process p; what is written to
\* a connection that is closed is dropped.
Send(p, rs) ==
  /\ submitted' = submitted \cup rs
  /\ sent' = [r \in Reqs |-> IF r \in rs THEN sent[r] + 1 ELSE sent[r]]
  /\ inbox' = [inbox EXCEPT ![connection[p]] =
                 IF container[connection[p]] = "registered"
                 THEN [r \in Reqs |-> IF r \in rs THEN @[r] + 1 ELSE @[r]] ELSE @]

\* Mutated SendLast: the first invocation of the list is sent, not the last.
SendFirst(t) ==
  LET p == on[t]
  IN /\ pc[t] = "add"
     /\ IF status[p] = "ALLOCATED" /\ invocations[p] # <<>> THEN Send(p, {Head(invocations[p])})
        ELSE UNCHANGED <<submitted, sent, inbox>>
     /\ IF t = Worker THEN Done(t) ELSE Goto(t, "clear")
     /\ UNCHANGED <<status, number, handle, creation, invocations, activeInvocations, connection,
                    controlplane, tcpVars, backend, container, replies, asked, raced, fault>>

\* The second half of add_invocation: the last invocation of the list is sent
\* if the process is connected; it is sent again if it was sent already.
SendLast(t) ==
  LET p == on[t]
  IN /\ pc[t] = "add"
     /\ IF status[p] = "ALLOCATED" /\ invocations[p] = <<>>
        THEN fault' = "undefined" /\ UNCHANGED <<submitted, sent, inbox>>
        ELSE /\ IF status[p] = "ALLOCATED" THEN Send(p, {Last(invocations[p])})
                ELSE UNCHANGED <<submitted, sent, inbox>>
             /\ UNCHANGED fault
     /\ IF t = Worker THEN Done(t) ELSE Goto(t, "clear")
     /\ UNCHANGED <<status, number, handle, creation, invocations, activeInvocations, connection,
                    controlplane, tcpVars, backend, container, replies, asked, raced>>

-----------------------------------------------------------------------------
(* The worker: handle_invocation and get_controlplane_process.              *)

\* No process is being allocated, or its container is gone: what clients wait
\* for without "overlap".
Settled ==
  /\ \A p \in Procs : /\ creation[p] = NoCallback \/ container[p] \in {"ignored", "gone"}
                      /\ backend[p] # "asked" /\ pc[Backend(p)] = "idle"
  /\ \A c \in Procs : pc[Io(c)] \in {"idle", "erase", "dangling"} /\ container[c] # "running"

\* The position of the first process with spare capacity, whatever its status.
Spare == {i \in 1..Len(controlplane) : activeInvocations[controlplane[i]] < MaxFuncsPerProcess}
FirstSpare == CHOOSE i \in Spare : \A j \in Spare : i <= j

Arrive(r) ==
  /\ pc[Worker] = "idle"
  /\ r \notin asked
  /\ "overlap" \in Env \/ Settled
  /\ asked' = asked \cup {r}

\* The application does not exist.
UnknownApplication(r) ==
  /\ Arrive(r)
  /\ replies' = [replies EXCEPT ![r] = @ + 1]
  /\ UNCHANGED <<procVars, controlplane, tcpVars, envVars, threadVars, sent, raced, fault>>

\* A process with spare capacity gets the invocation at once.
SelectProcess(r) ==
  /\ Arrive(r)
  /\ Spare # {}
  /\ AddInvocation(Worker, controlplane[FirstSpare], r)
  /\ UNCHANGED <<status, number, handle, creation, submitted, connection, controlplane, tcpVars,
                 envVars, sent, replies, fault>>

\* There is none; the lock on the list is released.
SelectNone(r) ==
  /\ Arrive(r)
  /\ Spare = {}
  /\ pc' = [pc EXCEPT ![Worker] = "create"]
  /\ req' = [req EXCEPT ![Worker] = r]
  /\ UNCHANGED <<on, procVars, controlplane, tcpVars, envVars, sent, replies, raced, fault>>

\* A process is created, announced to the acceptor loop and allocated; its name
\* is taken from the length the list has now.
CreateProcess(p) ==
  /\ pc[Worker] = "create"
  /\ status[p] = "unused"
  /\ status' = [status EXCEPT ![p] = "ALLOCATING"]
  /\ number' = [number EXCEPT ![p] = Len(controlplane)]
  /\ creation' = [creation EXCEPT ![p] = Callback(req[Worker])]
  /\ loopTasks' = Append(loopTasks, p)
  /\ backend' = [backend EXCEPT ![p] = "asked"]
  /\ Done(Worker)
  /\ UNCHANGED <<handle, invocations, submitted, activeInvocations, connection, controlplane,
                 pending, context, container, inbox, histVars, fault>>

-----------------------------------------------------------------------------
(* created_callback, on the backend's thread or on an I/O thread.           *)

\* Success is reported when there is a callback, a handle and a connection.
CheckCreated(t) ==
  LET p == on[t]
  IN /\ pc[t] = "check"
     /\ IF creation[p].state # "none" /\ handle[p] /\ status[p] = "ALLOCATED"
        THEN Goto(t, "call") ELSE AfterCreated(t)
     /\ UNCHANGED <<procVars, controlplane, tcpVars, envVars, histVars, fault>>

\* The callback adds the invocation.  An empty std::function throws when it is
\* called; one that was called before has lost its request.
CallCreated(t) ==
  LET p == on[t]
  IN /\ pc[t] = "call"
     /\ IF creation[p].state = "set"
        THEN /\ AddInvocation(t, p, creation[p].req)
             /\ creation' = [creation EXCEPT ![p] = [state |-> "moved", req |-> None]]
             /\ UNCHANGED fault
        ELSE /\ fault' = IF creation[p].state = "none" THEN "exception" ELSE "undefined"
             /\ UNCHANGED <<creation, invocations, activeInvocations, threadVars, raced>>
     /\ UNCHANGED <<status, number, handle, submitted, connection, controlplane, tcpVars, envVars,
                    sent, replies, asked>>

ClearCreated(t) ==
  /\ pc[t] = "clear"
  /\ creation' = [creation EXCEPT ![on[t]] = NoCallback]
  /\ AfterCreated(t)
  /\ UNCHANGED <<status, number, handle, invocations, submitted, activeInvocations, connection,
                 controlplane, tcpVars, envVars, histVars, fault>>

-----------------------------------------------------------------------------
(* The backend.                                                             *)

\* The container of a process that was asked for starts (external).
ContainerStart(p) ==
  /\ backend[p] = "asked"
  /\ container[p] = "none"
  /\ container' = [container EXCEPT ![p] = "running"]
  /\ UNCHANGED <<procVars, controlplane, tcpVars, backend, inbox, threadVars, histVars, fault>>

\* The container of a process whose creation was reported as failed starts
\* (external): the request of the backend ran into its timeout, say.
LateStart(p) ==
  /\ "late" \in Env
  /\ backend[p] = "answered" /\ ~handle[p]
  /\ container[p] = "none"
  /\ container' = [container EXCEPT ![p] = "running"]
  /\ UNCHANGED <<procVars, controlplane, tcpVars, backend, inbox, threadVars, histVars, fault>>

\* The backend returns the instance.
BackendCreated(p) ==
  /\ backend[p] = "asked"
  /\ container[p] # "none"
  /\ "simultaneous" \in Env \/ \A c \in Procs : on[Io(c)] # p
  /\ backend' = [backend EXCEPT ![p] = "answered"]
  /\ handle' = [handle EXCEPT ![p] = TRUE]
  /\ pc' = [pc EXCEPT ![Backend(p)] = "check"]
  /\ on' = [on EXCEPT ![Backend(p)] = p]
  /\ UNCHANGED <<status, number, creation, invocations, submitted, activeInvocations, connection,
                 controlplane, tcpVars, container, inbox, req, histVars, fault>>

\* Mutated BackendFailed: the callback is called but not cleared.
BackendFailedKeepsCallback(p) ==
  /\ "refused" \in Env
  /\ backend[p] = "asked"
  /\ container[p] = "none"
  /\ backend' = [backend EXCEPT ![p] = "answered"]
  /\ replies' = IF creation[p].state = "none" THEN replies
                ELSE [replies EXCEPT ![creation[p].req] = @ + 1]
  /\ UNCHANGED <<procVars, controlplane, tcpVars, container, inbox, threadVars, sent, asked, raced,
                 fault>>

\* The backend reports a failure: it is passed to the client; the acceptor loop
\* is not told.
BackendFailed(p) ==
  /\ "refused" \in Env
  /\ backend[p] = "asked"
  /\ container[p] = "none"
  /\ backend' = [backend EXCEPT ![p] = "answered"]
  /\ creation' = [creation EXCEPT ![p] = NoCallback]
  /\ replies' = IF creation[p].state = "none" THEN replies
                ELSE [replies EXCEPT ![creation[p].req] = @ + 1]
  /\ UNCHANGED <<status, number, handle, invocations, submitted, activeInvocations, connection,
                 controlplane, tcpVars, container, inbox, threadVars, sent, asked, raced,
                 fault>>

\* The process can be selected from now on.  The worker holds the mutex of the
\* list while it adds an invocation to a process of the list.
EmplaceProcess(p) ==
  /\ pc[Backend(p)] = "emplace"
  /\ pc[Worker] # "add"
  /\ controlplane' = Append(controlplane, p)
  /\ Done(Backend(p))
  /\ UNCHANGED <<procVars, tcpVars, envVars, histVars, fault>>

-----------------------------------------------------------------------------
(* The TCP server.                                                          *)

\* The acceptor loop runs a task that TCPServer::add_process queued.
PollerAddProcess ==
  /\ loopTasks # <<>>
  /\ LET p == Head(loopTasks)
     IN IF pending[number[p]] = None
        THEN pending' = [pending EXCEPT ![number[p]] = p] /\ UNCHANGED fault
        ELSE fault' = "exception" /\ UNCHANGED pending
  /\ loopTasks' = Tail(loopTasks)
  /\ UNCHANGED <<procVars, controlplane, context, envVars, threadVars, histVars>>

\* A container announces the name it was started with, and Process::connect
\* takes the connection; an unknown name is logged.
HandleConnection(c) ==
  LET q == pending[number[c]]
  IN /\ container[c] = "running"
     /\ "early" \in Env \/ ~Contains(loopTasks, c)
     /\ "simultaneous" \in Env \/ \A p \in Procs : on[Backend(p)] # q \/ q = None
     /\ IF q = None
        THEN /\ container' = [container EXCEPT ![c] = "ignored"]
             /\ UNCHANGED <<pending, context, status, connection, pc, on, raced, fault>>
        ELSE /\ pending' = [pending EXCEPT ![number[c]] = None]
             /\ context' = [context EXCEPT ![c] = q]
             /\ container' = [container EXCEPT ![c] = "registered"]
             /\ IF status[q] = "ALLOCATING"
                THEN /\ status' = [status EXCEPT ![q] = "ALLOCATED"]
                     /\ connection' = [connection EXCEPT ![q] = c]
                     /\ pc' = [pc EXCEPT ![Io(c)] = "scan"]
                     /\ on' = [on EXCEPT ![Io(c)] = q]
                     /\ raced' = IF Meets(Io(c), q) THEN raced \cup ToSet(invocations[q]) ELSE raced
                     /\ UNCHANGED fault
                ELSE fault' = "exception" /\ UNCHANGED <<status, connection, pc, on, raced>>
     /\ UNCHANGED <<number, handle, creation, invocations, submitted, activeInvocations,
                    controlplane, loopTasks, backend, inbox, req, sent, replies, asked>>

\* Mutated SendInvocations: connect does not go on to created_callback.
SendInvocationsOnly(c) ==
  /\ pc[Io(c)] = "scan"
  /\ Send(on[Io(c)], ToSet(invocations[on[Io(c)]]) \ submitted)
  /\ Done(Io(c))
  /\ UNCHANGED <<status, number, handle, creation, invocations, activeInvocations, connection,
                 controlplane, tcpVars, backend, container, replies, asked, raced, fault>>

\* Mutated SendInvocations: what was added before is not sent.
SendInvocationsNone(c) ==
  /\ pc[Io(c)] = "scan"
  /\ Goto(Io(c), "check")
  /\ UNCHANGED <<procVars, controlplane, tcpVars, envVars, histVars, fault>>

\* send_invocations: what was added before the process was connected.
SendInvocations(c) ==
  /\ pc[Io(c)] = "scan"
  /\ Send(on[Io(c)], ToSet(invocations[on[Io(c)]]) \ submitted)
  /\ Goto(Io(c), "check")
  /\ UNCHANGED <<status, number, handle, creation, invocations, activeInvocations, connection,
                 controlplane, tcpVars, backend, container, replies, asked, raced, fault>>

\* Mutated FinishInvocation: every result is counted, also one nobody waits for.
FinishInvocationAlwaysCounts(c, r) ==
  LET q == context[c]
  IN /\ inbox[c][r] > 0
     /\ pc[Io(c)] = "idle"
     /\ inbox' = [inbox EXCEPT ![c][r] = @ - 1]
     /\ activeInvocations' = [activeInvocations EXCEPT ![q] = @ - 1]
     /\ IF Contains(invocations[q], r)
        THEN /\ replies' = [replies EXCEPT ![r] = @ + 1]
             /\ pc' = [pc EXCEPT ![Io(c)] = "erase"]
             /\ on' = [on EXCEPT ![Io(c)] = q]
             /\ req' = [req EXCEPT ![Io(c)] = r]
        ELSE UNCHANGED <<replies, threadVars>>
     /\ UNCHANGED <<status, number, handle, creation, invocations, submitted, connection,
                    controlplane, tcpVars, backend, container, sent, asked, raced, fault>>

\* handle_invocation_result and finish_invocation up to the reply: an
\* invocation that is not in the list is ignored.
FinishInvocation(c, r) ==
  LET q == context[c]
  IN /\ inbox[c][r] > 0
     /\ pc[Io(c)] = "idle"
     /\ inbox' = [inbox EXCEPT ![c][r] = @ - 1]
     /\ IF Contains(invocations[q], r)
        THEN /\ activeInvocations' = [activeInvocations EXCEPT ![q] = @ - 1]
             /\ replies' = [replies EXCEPT ![r] = @ + 1]
             /\ pc' = [pc EXCEPT ![Io(c)] = "erase"]
             /\ on' = [on EXCEPT ![Io(c)] = q]
             /\ req' = [req EXCEPT ![Io(c)] = r]
        ELSE UNCHANGED <<activeInvocations, replies, threadVars>>
     /\ UNCHANGED <<status, number, handle, creation, invocations, submitted, connection,
                    controlplane, tcpVars, backend, container, sent, asked, raced, fault>>

\* The end of finish_invocation: the invocation is erased through the iterator.
EraseInvocation(c) ==
  LET q == on[Io(c)]
  IN /\ pc[Io(c)] \in {"erase", "dangling"}
     /\ IF pc[Io(c)] = "dangling" THEN fault' = "undefined" /\ UNCHANGED <<invocations, threadVars>>
        ELSE /\ invocations' = [invocations EXCEPT ![q] = RemoveFirst(@, req[Io(c)])]
             /\ Done(Io(c))
             /\ UNCHANGED fault
     /\ UNCHANGED <<status, number, handle, creation, submitted, activeInvocations, connection,
                    controlplane, tcpVars, envVars, histVars>>

\* A container ends.  closed_process marks the process it was registered for
\* and finds it in neither map of the application.
Disconnect(c) ==
  /\ "crash" \in Env
  /\ container[c] \in {"running", "registered", "ignored"}
  /\ pc[Io(c)] = "idle"
  /\ container' = [container EXCEPT ![c] = "gone"]
  /\ inbox' = [inbox EXCEPT ![c] = [r \in Reqs |-> 0]]
  /\ status' = IF context[c] = None THEN status ELSE [status EXCEPT ![context[c]] = "FAILURE"]
  /\ UNCHANGED <<number, handle, creation, invocations, submitted, activeInvocations, connection,
                 controlplane, tcpVars, backend, threadVars, histVars, fault>>

-----------------------------------------------------------------------------
ThreadStep(t) == SendLast(t) \/ CheckCreated(t) \/ CallCreated(t) \/ ClearCreated(t)

IoStep(c) == ThreadStep(Io(c)) \/ SendInvocations(c) \/ EraseInvocation(c)

BackendStep(p) == ThreadStep(Backend(p)) \/ EmplaceProcess(p)

WorkerStep == SendLast(Worker) \/ \E p \in Procs : CreateProcess(p)

HandleInvocation(r) == UnknownApplication(r) \/ SelectProcess(r) \/ SelectNone(r)

Next ==
  /\ fault = "none"
  /\ \/ \E r \in Reqs : HandleInvocation(r)
     \/ WorkerStep
     \/ PollerAddProcess
     \/ \E p \in Procs :
          \/ ContainerStart(p) \/ LateStart(p) \/ BackendCreated(p) \/ BackendFailed(p)
          \/ BackendStep(p)
          \/ HandleConnection(p) \/ Disconnect(p) \/ IoStep(p)
          \/ \E r \in Reqs : FinishInvocation(p, r)

Spec == Init /\ [][Next]_vars

\* Threads and the acceptor loop are scheduled, the backend answers, containers
\* start and register, and functions return: the control plane has no timeout,
\* so an invocation waits for exactly these.
Fairness ==
  /\ WF_vars(fault = "none" /\ WorkerStep)
  /\ WF_vars(fault = "none" /\ PollerAddProcess)
  /\ \A p \in Procs :
       /\ WF_vars(fault = "none" /\ ContainerStart(p))
       /\ WF_vars(fault = "none" /\ BackendCreated(p))
       /\ WF_vars(fault = "none" /\ BackendStep(p))
       /\ WF_vars(fault = "none" /\ HandleConnection(p))
       /\ WF_vars(fault = "none" /\ IoStep(p))
       /\ \A r \in Reqs : WF_vars(fault = "none" /\ FinishInvocation(p, r))

FairSpec == Spec /\ Fairness

-----------------------------------------------------------------------------
(* Properties.                                                              *)

\* Who has a request that arrived: the worker that creates a process for it, a
\* creation callback, or the list of a process.
Holders(r) ==
  {t \in {Worker} : pc[t] = "create" /\ req[t] = r}
  \cup {<<"callback", p>> : p \in {q \in Procs : creation[q].req = r}}
  \cup UNION {{<<p, i>> : i \in {j \in 1..Len(invocations[p]) : invocations[p][j] = r}} :
               p \in Procs}

Erasing(p, r) == \E c \in Procs :
  pc[Io(c)] \in {"erase", "dangling"} /\ on[Io(c)] = p /\ req[Io(c)] = r

\* However the threads interleave, a request is in one place until it is
\* answered, and it is answered once: the creation callback is not kept beside
\* the list, no list has it twice, and a result that comes again finds nothing.
KeptOrAnswered ==
  /\ TypeOK
  /\ \A r \in asked : Cardinality(Holders(r)) + replies[r] =
       IF \E p \in Procs : Erasing(p, r) THEN 2 ELSE 1

\* _active_invocations, by which processes are selected, is the length of the
\* list, without the invocation that was answered and is not erased yet.
CountExact ==
  \A p \in Procs : activeInvocations[p] =
    Len(invocations[p]) - Cardinality({r \in Reqs : Erasing(p, r)})

\* "No invocation should be lost" (process.cpp:88): once a process is connected
\* and nobody is in the middle of adding or sending, every invocation in its
\* list was sent, by connect if it was added before the connection, by
\* add_invocation if after.  The lock that the comment relies on is not held:
\* the property fails for the invocations of a list at a moment when two threads
\* were at work on it, and for no others.
NoneLeftBehind ==
  \A p \in Procs :
    status[p] = "ALLOCATED" /\ (\A t \in Threads : on[t] = p => pc[t] \notin {"add", "scan"})
      => ToSet(invocations[p]) \ raced \subseteq submitted

\* An invocation is executed once: connect and add_invocation never both send
\* it, with the same exception.
SentOnce == \A r \in Reqs \ raced : sent[r] <= 1

\* Where a request can still be lost: its container ended, or the control plane
\* executed something undefined.
Lost(r) ==
  \/ fault = "undefined"
  \/ \E p \in Procs : /\ creation[p].req = r \/ Contains(invocations[p], r)
                      /\ container[p] = "gone"

\* Every invocation is answered: the acceptor loop, the backend's thread, the
\* worker and the I/O thread never leave one to each other.
EveryInvocationAnswered ==
  \A r \in Reqs : r \in asked ~> replies[r] > 0 \/ Lost(r)
=============================================================================
