-------------------------------- MODULE Rest --------------------------------
(***************************************************************************)
(* The requests of the control plane's HTTP interface other than           *)
(* invocations: applications and processes are created, processes are      *)
(* deleted, swapped and listed.  A handler (http.cpp) queues a task, a     *)
(* thread of the pool runs it (worker.cpp, resources.cpp), and the client  *)
(* is answered by the task, or, for a new process, by the creation         *)
(* callback (process.cpp, backend.cpp).                                    *)
(*                                                                         *)
(* A task holds the accessor of its application, exclusively or, for a     *)
(* listing, shared with other listings; I/O threads take no accessor.      *)
(* Inside the application, a swap shares the mutex of the first map while  *)
(* it waits for the lock of the process, and an I/O thread that closes a   *)
(* connection holds the lock of the process while it waits for that mutex; *)
(* every other step that takes the mutex, for itself or shared, releases   *)
(* it before it waits for anything.  Requests are about one application; a *)
(* create request names the process object it made.  The pool is as large  *)
(* as the number of requests, and a task that throws ends the control      *)
(* plane (BS::thread_pool catches nothing).                                *)
(***************************************************************************)
EXTENDS Naturals, Sequences, FiniteSets

CONSTANTS Requests,
          MaxCreates, \* requests that create a process
          Names,    \* processes
          Backends, \* "docker", "fargate"
          None,
          Env       \* "fails": calls of the cloud report errors;
                    \* "crash": a connection may end

ASSUME RestAssumption ==
  /\ MaxCreates \in Nat
  /\ Names # {} /\ Backends # {} /\ Backends \subseteq {"docker", "fargate"}
  /\ None \notin Requests
  /\ Env \subseteq {"fails", "crash"}

VARIABLES
  backend,
  exists,   \* the application is in Resources::_applications
  req,      \* kind of each request, its process, its arguments
  pc,       \* new, queued, listing, swapping, creating, done
  answers,  \* what the client was told
  active,   \* Application::_active_processes
  swapped,  \* Application::_swapped_processes
  status,   \* Process::_status
  moving,   \* the process an I/O thread has taken out of one map, not yet put into the other
  closing,  \* processes an I/O thread has locked to close them, not yet taken out of the map
  handle,   \* Process::_handle is set
  address,  \* the backend has reported ProcessInstance::ip_address, which may be empty
  callback, \* Process::_creation_callback is set
  cb,       \* where a call of created_callback is, by object and thread
  list,     \* what a listing has read
  fault,    \* why the control plane ended
  raced,    \* history: objects for which created_callback began in two threads at a time
  disturbed \* history: processes an I/O thread moved during a listing

vars == <<backend, exists, req, pc, answers, active, swapped, status, moving, closing, handle,
          address, callback, cb, list, fault, raced, disturbed>>

Kinds == {"app", "create", "delete", "swap", "list"}
Threads == {"backend", "io"}
Phases == {"new", "queued", "listing", "swapping", "creating", "done"}
Stages == {"none", "check", "task", "eni", "call", "fail", "clear"}
NoList == [active |-> {}, swapped |-> {}]

Init ==
  /\ backend \in Backends
  /\ exists \in BOOLEAN
  /\ req = [r \in Requests |-> [kind |-> "none", name |-> None, args |-> "none"]]
  /\ pc = [r \in Requests |-> "new"]
  /\ answers = [r \in Requests |-> <<>>]
  /\ active = [n \in Names |-> None]
  /\ swapped = [n \in Names |-> None]
  /\ status = [r \in Requests |-> "none"]
  /\ moving = None
  /\ closing = {}
  /\ handle = [r \in Requests |-> FALSE]
  /\ address = [r \in Requests |-> FALSE]
  /\ callback = [r \in Requests |-> FALSE]
  /\ cb = [r \in Requests |-> [t \in Threads |-> "none"]]
  /\ list = [r \in Requests |-> NoList]
  /\ fault = "none"
  /\ raced = {}
  /\ disturbed = [r \in Requests |-> {}]

Up == fault = "none"
creation == <<handle, address, callback, cb, raced>>
maps == <<active, swapped, status, moving, closing>>

Answer(r, a) ==
  /\ answers' = [answers EXCEPT ![r] = Append(@, a)]
  /\ pc' = [pc EXCEPT ![r] = "done"]

-----------------------------------------------------------------------------
(* HTTP threads.                                                            *)

\* Which request comes next is the same.
Arrives(r, kind, n, args) ==
  /\ Up /\ pc[r] = "new" /\ r = CHOOSE q \in Requests : pc[q] = "new"
  /\ req' = [req EXCEPT ![r] = [kind |-> kind, name |-> n, args |-> args]]
  /\ UNCHANGED <<backend, exists, maps, creation, list, fault, disturbed>>

\* create_app: missing arguments are answered for.
CreateApp(r, args) ==
  /\ Arrives(r, "app", None, args)
  /\ IF args = "missing" THEN Answer(r, 500)
     ELSE pc' = [pc EXCEPT ![r] = "queued"] /\ UNCHANGED answers

\* create_process: they are answered for, and the task is queued.
CreateProcess(r, n, args) ==
  /\ Cardinality({q \in Requests : req[q].kind = "create"}) < MaxCreates
  /\ Arrives(r, "create", n, args)
  /\ pc' = [pc EXCEPT ![r] = "queued"]
  /\ answers' = IF args = "missing" THEN [answers EXCEPT ![r] = Append(@, 500)] ELSE answers

\* delete_process, swap_process, list_processes.
Other(r, kind, n) ==
  /\ Arrives(r, kind, n, "given")
  /\ pc' = [pc EXCEPT ![r] = "queued"]
  /\ UNCHANGED answers

-----------------------------------------------------------------------------
(* Tasks.                                                                   *)

\* Mutated Exclusive: a listing does not hold the accessor.
ExclusiveUnlocked(r, kind) == Up /\ pc[r] = "queued" /\ req[r].kind = kind

\* A task with the exclusive accessor waits for listings and for a swap.
Exclusive(r, kind) ==
  /\ Up /\ pc[r] = "queued" /\ req[r].kind = kind
  /\ \A q \in Requests : pc[q] \notin {"listing", "swapping"}

\* A swap shares the mutex of the first map.
Reader == \E r \in Requests : pc[r] = "swapping"

\* Workers::create_application, Resources::add_application.
RunCreateApp(r) ==
  /\ Exclusive(r, "app")
  /\ exists' = TRUE
  /\ Answer(r, IF exists THEN 500 ELSE 200)
  /\ UNCHANGED <<backend, req, maps, creation, list, fault, disturbed>>

\* Workers::create_process: nobody is told that the application is unknown.
RunCreateUnknown(r) ==
  /\ Exclusive(r, "create")
  /\ ~exists
  /\ pc' = [pc EXCEPT ![r] = "done"]
  /\ UNCHANGED <<backend, exists, req, answers, maps, creation, list, fault, disturbed>>

\* Application::add_process: resources that are missing, or too large, and a
\* name that is active, are exceptions.
RunCreateThrows(r) ==
  /\ Exclusive(r, "create")
  /\ exists
  /\ req[r].args # "given" \/ active[req[r].name] # None
  /\ fault' = "task"
  /\ UNCHANGED <<backend, exists, req, pc, answers, maps, creation, list, disturbed>>

RunCreate(r) ==
  /\ Exclusive(r, "create")
  /\ exists
  /\ req[r].args = "given" /\ active[req[r].name] = None
  /\ active' = [active EXCEPT ![req[r].name] = r]
  /\ status' = [status EXCEPT ![r] = "ALLOCATING"]
  /\ callback' = [callback EXCEPT ![r] = TRUE]
  /\ pc' = [pc EXCEPT ![r] = "creating"]
  /\ UNCHANGED <<backend, exists, req, answers, swapped, moving, closing, handle, address, cb, list,
                 fault, raced, disturbed>>

\* Workers::delete_process.
RunDelete(r) ==
  LET n == req[r].name IN
  /\ Exclusive(r, "delete")
  /\ IF ~exists \/ swapped[n] = None THEN Answer(r, 400) /\ UNCHANGED swapped
     ELSE Answer(r, 200) /\ swapped' = [swapped EXCEPT ![n] = None]
  /\ UNCHANGED <<backend, exists, req, active, status, moving, closing, creation, list, fault, disturbed>>

\* Workers::swap_process: a process that is found is locked next, and the task
\* keeps what it holds until then.
RunSwap(r) ==
  /\ Exclusive(r, "swap")
  /\ IF ~exists \/ active[req[r].name] = None THEN Answer(r, 400)
     ELSE pc' = [pc EXCEPT ![r] = "swapping"] /\ UNCHANGED answers
  /\ UNCHANGED <<backend, exists, req, maps, creation, list, fault, disturbed>>

\* Only processes that are connected can be swapped.
SwapLocked(r) ==
  LET p == active[req[r].name] IN
  /\ Up /\ pc[r] = "swapping"
  /\ p \notin closing
  /\ IF status[p] # "ALLOCATED" THEN Answer(r, 400) /\ UNCHANGED status
     ELSE Answer(r, 200) /\ status' = [status EXCEPT ![p] = "SWAPPING_OUT"]
  /\ UNCHANGED <<backend, exists, req, active, swapped, moving, closing, creation, list, fault,
                 disturbed>>

\* Workers::list_processes for an application that is unknown: its handler
\* answers, and goes on to answer with empty lists.
ListUnknown(r) ==
  /\ Up /\ pc[r] = "queued" /\ req[r].kind = "list"
  /\ ~exists
  /\ answers' = [answers EXCEPT ![r] = @ \o <<400, 200>>]
  /\ pc' = [pc EXCEPT ![r] = "done"]
  /\ UNCHANGED <<backend, exists, req, maps, creation, list, fault, disturbed>>

\* get_processes, under the mutex of the first map ...
ListActive(r) ==
  /\ Up /\ pc[r] = "queued" /\ req[r].kind = "list"
  /\ \A q \in Requests : pc[q] # "swapping"
  /\ exists
  /\ list' = [list EXCEPT ![r].active = {n \in Names : active[n] # None}]
  /\ disturbed' = [disturbed EXCEPT ![r] = IF moving = None THEN {} ELSE {req[moving].name}]
  /\ pc' = [pc EXCEPT ![r] = "listing"]
  /\ UNCHANGED <<backend, exists, req, answers, maps, creation, fault>>

\* ... then get_swapped_processes, under that of the second.
ListSwapped(r) ==
  /\ Up /\ pc[r] = "listing"
  /\ list' = [list EXCEPT ![r].swapped = {n \in Names : swapped[n] # None}]
  /\ Answer(r, 200)
  /\ UNCHANGED <<backend, exists, req, maps, creation, fault, disturbed>>

-----------------------------------------------------------------------------
(* The backend, the cloud, and the I/O threads.                             *)

\* A call of created_callback begins.
Open(r, t) ==
  /\ cb' = [cb EXCEPT ![r][t] = "check"]
  /\ raced' = IF \E s \in Threads \ {t} : cb[r][s] = "check" THEN raced \cup {r} ELSE raced

\* allocate_process succeeds: Process::set_handle.  Docker tells the address.
Allocated(r) ==
  /\ Up /\ status[r] # "none" /\ ~handle[r] /\ status[r] # "FAILED"
  /\ handle' = [handle EXCEPT ![r] = TRUE]
  /\ address' = [address EXCEPT ![r] = backend = "docker"]
  /\ Open(r, "backend")
  /\ UNCHANGED <<backend, exists, req, pc, answers, maps, callback, list, fault, disturbed>>

\* It fails, and no container is started.
NotAllocated(r) ==
  /\ "fails" \in Env
  /\ Up /\ status[r] = "ALLOCATING" /\ ~handle[r]
  /\ ~Reader
  /\ active' = [active EXCEPT ![req[r].name] = None]
  /\ status' = [status EXCEPT ![r] = "FAILED"]
  /\ callback' = [callback EXCEPT ![r] = FALSE]
  /\ Answer(r, 500)
  /\ UNCHANGED <<backend, exists, req, swapped, moving, closing, handle, address, cb, list, fault,
                 raced, disturbed>>

\* Process::connect, when the container has registered.
Connected(r) ==
  /\ Up /\ status[r] = "ALLOCATING"
  /\ status' = [status EXCEPT ![r] = "ALLOCATED"]
  /\ Open(r, "io")
  /\ UNCHANGED <<backend, exists, req, pc, answers, active, swapped, moving, closing, handle,
                 address, callback, list, fault, disturbed>>

\* Mutated Check: the backend need not have answered.
CheckNoHandle(r, t) ==
  /\ Up /\ cb[r][t] = "check"
  /\ cb' = [cb EXCEPT ![r][t] =
              IF ~callback[r] \/ status[r] = "ALLOCATING" THEN "none"
              ELSE IF backend = "docker" THEN "call" ELSE "task"]
  /\ UNCHANGED <<backend, exists, req, pc, answers, maps, handle, address, callback, list, fault,
                 raced, disturbed>>

\* Mutated Check: the process need not be connected.
CheckNoStatus(r, t) ==
  /\ Up /\ cb[r][t] = "check"
  /\ cb' = [cb EXCEPT ![r][t] =
              IF ~callback[r] \/ ~handle[r] THEN "none"
              ELSE IF backend = "docker" THEN "call" ELSE "task"]
  /\ UNCHANGED <<backend, exists, req, pc, answers, maps, handle, address, callback, list, fault,
                 raced, disturbed>>

\* created_callback: both the backend's answer and the connection must be there.
Check(r, t) ==
  /\ Up /\ cb[r][t] = "check"
  /\ cb' = [cb EXCEPT ![r][t] =
              IF ~callback[r] \/ ~handle[r] \/ status[r] # "ALLOCATED" THEN "none"
              ELSE IF backend = "docker" THEN "call" ELSE "task"]
  /\ UNCHANGED <<backend, exists, req, pc, answers, maps, handle, address, callback, list, fault,
                 raced, disturbed>>

\* Mutated DescribeTask: a task without an interface is not reported.
DescribeTaskSilent(r, t) ==
  /\ Up /\ cb[r][t] = "task"
  /\ \/ cb' = [cb EXCEPT ![r][t] = "eni"]
     \/ "fails" \in Env /\ cb' = [cb EXCEPT ![r][t] = "none"]
  /\ UNCHANGED <<backend, exists, req, pc, answers, maps, handle, address, callback, list, fault,
                 raced, disturbed>>

\* FargateInstance::connect asks for the interface of the task ...
DescribeTask(r, t) ==
  /\ Up /\ cb[r][t] = "task"
  /\ \/ cb' = [cb EXCEPT ![r][t] = "eni"]
     \/ "fails" \in Env /\ cb' = [cb EXCEPT ![r][t] = "fail"]
  /\ UNCHANGED <<backend, exists, req, pc, answers, maps, handle, address, callback, list, fault,
                 raced, disturbed>>

\* ... and for the address of the interface.  An interface without a public one
\* reports an empty address, which is not an error.
DescribeEni(r, t) ==
  /\ Up /\ cb[r][t] = "eni"
  /\ \/ cb' = [cb EXCEPT ![r][t] = "call"] /\ address' = [address EXCEPT ![r] = TRUE]
     \/ "fails" \in Env /\ cb' = [cb EXCEPT ![r][t] = "fail"] /\ UNCHANGED address
  /\ UNCHANGED <<backend, exists, req, pc, answers, maps, handle, callback, list, fault, raced,
                 disturbed>>

\* The creation callback answers the client ...
CallBack(r, t) ==
  /\ Up /\ cb[r][t] \in {"call", "fail"}
  /\ IF callback[r]
     THEN /\ Answer(r, IF cb[r][t] = "call" THEN 200 ELSE 500)
          /\ cb' = [cb EXCEPT ![r][t] = "clear"]
          /\ UNCHANGED fault
     ELSE fault' = "callback" /\ UNCHANGED <<pc, answers, cb>>
  /\ UNCHANGED <<backend, exists, req, maps, handle, address, callback, list, raced, disturbed>>

\* ... and is removed.
Clear(r, t) ==
  /\ Up /\ cb[r][t] = "clear"
  /\ callback' = [callback EXCEPT ![r] = FALSE]
  /\ cb' = [cb EXCEPT ![r][t] = "none"]
  /\ UNCHANGED <<backend, exists, req, pc, answers, maps, handle, address, list, fault, raced,
                 disturbed>>

Disturb(n) ==
  disturbed' = [r \in Requests |-> IF pc[r] = "listing" THEN disturbed[r] \cup {n} ELSE disturbed[r]]

\* swapped_process: the process leaves the first map ...
SwapConfirmed(n) ==
  /\ Up /\ moving = None /\ active[n] # None
  /\ status[active[n]] = "SWAPPING_OUT"
  /\ ~Reader
  /\ moving' = active[n]
  /\ active' = [active EXCEPT ![n] = None]
  /\ status' = [status EXCEPT ![active[n]] = "SWAPPED_OUT"]
  /\ Disturb(n)
  /\ UNCHANGED <<backend, exists, req, pc, answers, swapped, closing, creation, list, fault>>

\* ... and enters the second, unless the name is there.
SwapStored ==
  /\ Up /\ moving # None
  /\ LET n == req[moving].name IN
     /\ swapped' = [swapped EXCEPT ![n] = IF @ = None THEN moving ELSE @]
     /\ Disturb(n)
  /\ moving' = None
  /\ UNCHANGED <<backend, exists, req, pc, answers, active, status, closing, creation, list, fault>>

\* closed_process locks the process ...
ConnectionEnds(n) ==
  /\ "crash" \in Env
  /\ Up /\ active[n] # None
  /\ status[active[n]] \in {"ALLOCATED", "SWAPPING_OUT"}
  /\ status' = [status EXCEPT ![active[n]] = "CLOSED"]
  /\ closing' = closing \cup {active[n]}
  /\ UNCHANGED <<backend, exists, req, pc, answers, active, swapped, moving, creation, list, fault,
                 disturbed>>

\* ... then takes the mutex of the first map, and takes out what has its name.
ClosedErase(p) ==
  LET n == req[p].name IN
  /\ Up /\ p \in closing
  /\ ~Reader
  /\ closing' = closing \ {p}
  /\ IF active[n] # None
     THEN active' = [active EXCEPT ![n] = None] /\ UNCHANGED swapped
     ELSE swapped' = [swapped EXCEPT ![n] = None] /\ UNCHANGED active
  /\ UNCHANGED <<backend, exists, req, pc, answers, status, moving, creation, list, fault, disturbed>>

Run(r) ==
  \/ RunCreateApp(r) \/ RunCreateUnknown(r) \/ RunCreateThrows(r) \/ RunCreate(r)
  \/ RunDelete(r) \/ RunSwap(r) \/ SwapLocked(r) \/ ListUnknown(r) \/ ListActive(r) \/ ListSwapped(r)

Created(r, t) == Check(r, t) \/ DescribeTask(r, t) \/ DescribeEni(r, t) \/ CallBack(r, t) \/ Clear(r, t)

Next ==
  \/ \E r \in Requests :
       \/ \E args \in {"given", "missing"} : CreateApp(r, args)
       \/ \E n \in Names : \/ \E args \in {"given", "missing"} : CreateProcess(r, n, args)
                           \/ \E kind \in {"delete", "swap"} : Other(r, kind, n)
       \/ Other(r, "list", None)
       \/ Run(r)
       \/ Allocated(r) \/ NotAllocated(r) \/ Connected(r) \/ ClosedErase(r)
       \/ \E t \in Threads : Created(r, t)
  \/ \E n \in Names : SwapConfirmed(n) \/ ConnectionEnds(n)
  \/ SwapStored

Spec == Init /\ [][Next]_vars

\* Threads run, the cloud answers, and containers that were started connect.
Fairness ==
  \A r \in Requests :
    /\ WF_vars(Run(r))
    /\ WF_vars(Allocated(r) \/ NotAllocated(r))
    /\ WF_vars(Connected(r))
    /\ \A t \in Threads : WF_vars(Created(r, t))

FairSpec == Spec /\ Fairness

-----------------------------------------------------------------------------
(* Properties.                                                              *)

\* Maps refer to process objects of their names.
TypeOK ==
  /\ \A n \in Names : /\ active[n] # None => req[active[n]].name = n
                      /\ swapped[n] # None => status[swapped[n]] = "SWAPPED_OUT"
  /\ \A r \in Requests : /\ \A t \in Threads : cb[r][t] \in Stages
                         /\ pc[r] \in Phases
                         /\ status[r] # "none" => req[r].kind = "create"
                         /\ r \in closing => status[r] = "CLOSED"
  /\ fault \in {"none", "task", "callback"}

\* A client is answered once, and the creation callback is there when it is
\* called, however long the queries of Fargate take; except that the listing of
\* an application that is not there is answered twice, and that created_callback
\* of one process may begin in two threads at a time (http.cpp:189,
\* process.cpp:236-257).
AnsweredOnce ==
  /\ TypeOK
  /\ \A r \in Requests : Len(answers[r]) > 1 =>
       \/ answers[r] = <<400, 200>> /\ req[r].kind = "list"
       \/ r \in raced
  /\ fault = "callback" => raced # {}

\* A client that is told of a new process gets the address that the backend has
\* reported: Fargate has been asked for it and has answered (process.cpp:241,
\* backend.cpp:240).  Nobody checks that it is not empty (backend.cpp:228).
ProcessHasAddress ==
  \A r \in Requests : (req[r].kind = "create" /\ 200 \in {answers[r][i] : i \in DOMAIN answers[r]}) =>
    address[r] /\ status[r] # "ALLOCATING"

\* A listing shows a process where it is, once, unless an I/O thread moves it
\* from one map to the other at that time: no request that changes the maps
\* runs during a listing (worker.cpp:131-137).
ListExact ==
  [][\A r \in Requests : (pc[r] = "listing" /\ pc'[r] = "done") =>
       \A n \in Names \ disturbed[r] :
         /\ active[n] # None => n \in list'[r].active
         /\ n \in list'[r].active =>
              \/ active[n] # None
              \/ \E q \in Requests : req[q].name = n /\ status[q] \in {"CLOSED", "FAILED"}]_vars

\* The deadlock of a swap and the end of its process's connection: the
\* swap has the mutex of the first map and waits for the process
\* (application.cpp:214), the closing has the process and waits for the mutex
\* (application.cpp:272).
Deadlocked == \E r \in Requests : pc[r] = "swapping" /\ active[req[r].name] \in closing

\* Every request is answered, unless it asks for a process of an application
\* that is not there, its process is swapped or ends before the backend has
\* answered, or the control plane ends (worker.cpp:79, process.cpp:245).  A swap
\* promises an "error message if operation failed; empty optional otherwise"
\* (worker.hpp:116), but it takes its locks in the opposite order of a closing:
\* once the two wait for each other, neither that request nor any other one about
\* the application need be answered.  Nothing else makes a client wait for ever.
EveryRequestAnswered ==
  \A r \in Requests :
    pc[r] = "queued" ~>
      \/ Len(answers[r]) > 0
      \/ ~Up
      \/ req[r].kind = "create" /\ pc[r] = "done"
      \/ status[r] \notin {"ALLOCATING", "ALLOCATED"} /\ pc[r] = "creating"
      \/ Deadlocked
=============================================================================
