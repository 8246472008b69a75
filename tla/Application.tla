---------------------------- MODULE Application ----------------------------
(***************************************************************************)
(* The control plane's book-keeping of the processes of one application:   *)
(* Application (application.cpp) together with the parts of Process and    *)
(* TCPServer it cannot be separated from.                                  *)
(*                                                                         *)
(* A process OBJECT (std::shared_ptr<Process>) is a member of Procs, the   *)
(* NAME it was created under a member of Names: several objects may carry  *)
(* one name over time, and most of the code looks objects up by name.      *)
(*                                                                         *)
(* Three kinds of threads run here.                                        *)
(*   - HTTP workers.  Every operation of Workers on an application holds   *)
(*     the exclusive accessor of Resources, so one worker is inside the    *)
(*     application at a time: wPc, wProc are its program counter and the   *)
(*     process it works on.                                                *)
(*   - I/O threads of the TCP server.  Connection c is the one opened by   *)
(*     the container launched for process c; it is served by thread c      *)
(*     (ioPc[c], ioProc[c]), the largest concurrency io_threads allows.    *)
(*   - The acceptor loop, which runs queued tasks, and the backend's HTTP  *)
(*     client, whose callbacks are single steps.                           *)
(* Steps are as large as the locks make them.  A lock is held exactly at   *)
(* some program points, so the locks are state functions of the counters.  *)
(***************************************************************************)
EXTENDS Integers, Sequences, FiniteSets

CONSTANTS Procs,    \* process objects
          Names,    \* process names
          NoProc,   \* null pointer, end() of a map, no name yet
          Env       \* what the world outside the control plane may do

\* What containers and the cloud backend may do besides working as expected:
\*  "refused" the backend reports a failure and the container never runs;
\*  "late"    the backend reports a failure although the container runs (the
\*            serving layer fails to inspect it, the HTTP request times out);
\*  "crash"   a connection ends although the process was not swapped out;
\*  "closure" the process announces its end with a ProcessClosure message.
Misbehaviours == {"refused", "late", "crash", "closure"}

ASSUME ApplicationAssumption ==
  /\ NoProc \notin Procs \cup Names
  /\ Env \subseteq Misbehaviours

VARIABLES
  name,         \* Process::_name, a name once the object exists
  status,       \* Process::_status
  swapLoc,      \* whether Process::_state.swap is set
  connection,   \* Process::_connection
  active,       \* Application::_active_processes
  swapped,      \* Application::_swapped_processes
  loopTasks,    \* add_process closures queued in the acceptor loop
  pendingProcs, \* TCPServer::_pending_processes
  context,      \* the connection's context: ConnectionData::process
  numConnected, \* TCPServer::_num_connected_processes
  numRegistered,\* TCPServer::_num_registered_processes
  answer,       \* the backend's answer to allocate_process
  peer,         \* the container and its TCP connection
  swapAsked,    \* connections whose peer got a SwapRequest it did not answer
  wPc, wProc,   \* the worker inside the application
  ioPc, ioProc, \* the I/O thread of each connection
  fault         \* why the control plane is gone: none, exception, undefined

procVars == <<name, status, swapLoc, connection>>
appVars == <<active, swapped>>
tcpVars == <<loopTasks, pendingProcs, context, numConnected, numRegistered>>
envVars == <<answer, peer, swapAsked>>
wVars == <<wPc, wProc>>
ioVars == <<ioPc, ioProc>>
vars == <<procVars, appVars, tcpVars, envVars, wVars, ioVars, fault>>

Status == {"ALLOCATING", "ALLOCATED", "SWAPPED_OUT", "SWAPPING_OUT", "CLOSED",
           "FAILURE"}

\* Worker: swap_lock is swap_process between its two lock acquisitions,
\* swap_set the part after it gave up the lock of the collection.
WorkerPc == {"idle", "swap_lock", "swap_set"}

\* I/O thread: swapped_* are in swapped_process, closed_* in closed_process.
IoPc == {"idle", "swapped_lock", "swapped_insert", "closed_lock", "closed_erase"}

\* The life of a container: requested from the backend, running, connected,
\* its name sent (announced), its end announced (closing), connection closed.
PeerState == {"none", "requested", "running", "connected", "announced",
              "closing", "gone"}

PtrOf(S) == S \cup {NoProc}

TypeOK ==
  /\ name \in [Procs -> PtrOf(Names)]
  /\ status \in [Procs -> Status \cup {"unused"}]
  /\ swapLoc \in [Procs -> BOOLEAN]
  /\ connection \in [Procs -> PtrOf(Procs)]
  /\ active \in [Names -> PtrOf(Procs)]
  /\ swapped \in [Names -> PtrOf(Procs)]
  /\ loopTasks \in Seq(Procs)
  /\ pendingProcs \in [Names -> PtrOf(Procs)]
  /\ context \in [Procs -> PtrOf(Procs)]
  /\ numConnected \in Int
  /\ numRegistered \in Int
  /\ answer \in [Procs -> {"none", "waiting", "created", "failed"}]
  /\ peer \in [Procs -> PeerState]
  /\ swapAsked \subseteq Procs
  /\ wPc \in WorkerPc
  /\ wProc \in PtrOf(Procs)
  /\ ioPc \in [Procs -> IoPc]
  /\ ioProc \in [Procs -> PtrOf(Procs)]
  /\ fault \in {"none", "exception", "undefined"}

Init ==
  /\ name = [p \in Procs |-> NoProc]
  /\ status = [p \in Procs |-> "unused"]
  /\ swapLoc = [p \in Procs |-> FALSE]
  /\ connection = [p \in Procs |-> NoProc]
  /\ active = [n \in Names |-> NoProc]
  /\ swapped = [n \in Names |-> NoProc]
  /\ loopTasks = <<>>
  /\ pendingProcs = [n \in Names |-> NoProc]
  /\ context = [c \in Procs |-> NoProc]
  /\ numConnected = 0
  /\ numRegistered = 0
  /\ answer = [p \in Procs |-> "none"]
  /\ peer = [c \in Procs |-> "none"]
  /\ swapAsked = {}
  /\ wPc = "idle"
  /\ wProc = NoProc
  /\ ioPc = [c \in Procs |-> "idle"]
  /\ ioProc = [c \in Procs |-> NoProc]
  /\ fault = "none"

-----------------------------------------------------------------------------
(* Locks.  _active_mutex and Process::_mutex are std::shared_mutex; the     *)
(* swapped collection's lock is never kept across two steps.                *)

ActiveReader == wPc = "swap_lock"
ActiveWriter == \E c \in Procs : ioPc[c] = "swapped_lock"

\* A write lock on _active_mutex can be taken.
ActiveFree == ~ActiveReader /\ ~ActiveWriter

\* Mutated ProcLocked: write_lock() is called and its result discarded, so the
\* lock is gone at the end of the statement.
ProcLockDiscarded(p) == FALSE

\* The mutex of process p is held.
ProcLocked(p) ==
  \/ wPc = "swap_set" /\ wProc = p
  \/ \E c \in Procs :
        ioPc[c] \in {"swapped_insert", "closed_erase"} /\ ioProc[c] = p

\* Control returns to the event loop, or to the caller of the worker.
IoDone(c) ==
  /\ ioPc' = [ioPc EXCEPT ![c] = "idle"]
  /\ ioProc' = [ioProc EXCEPT ![c] = NoProc]

IoAt(c, pc, p) ==
  /\ ioPc' = [ioPc EXCEPT ![c] = pc]
  /\ ioProc' = [ioProc EXCEPT ![c] = p]

WorkerDone == wPc' = "idle" /\ wProc' = NoProc

-----------------------------------------------------------------------------
(* Creation of a process: add_process, the poller, the backend.             *)

\* The new object goes into the collection of active processes, the closure
\* that makes it known to the TCP server into the acceptor loop's queue, and
\* the request to the backend.  A name that is in use among the ACTIVE
\* processes is refused; the swapped ones are not consulted.
AddProcess(n, p) ==
  /\ wPc = "idle"
  /\ ActiveFree
  /\ status[p] = "unused"
  /\ active[n] = NoProc
  /\ name' = [name EXCEPT ![p] = n]
  /\ status' = [status EXCEPT ![p] = "ALLOCATING"]
  /\ active' = [active EXCEPT ![n] = p]
  /\ loopTasks' = Append(loopTasks, p)
  /\ answer' = [answer EXCEPT ![p] = "waiting"]
  /\ peer' = [peer EXCEPT ![p] = "requested"]
  /\ UNCHANGED <<swapLoc, connection, swapped, pendingProcs, context,
                 numConnected, numRegistered, swapAsked, wVars, ioVars, fault>>

\* TCPServer::add_process, run by the acceptor loop: an exception that leaves
\* a task ends the loop, its thread, and with it the program.
PollerAddProcess ==
  /\ loopTasks # <<>>
  /\ LET p == Head(loopTasks)
     IN IF pendingProcs[name[p]] = NoProc
        THEN /\ pendingProcs' = [pendingProcs EXCEPT ![name[p]] = p]
             /\ UNCHANGED fault
        ELSE /\ fault' = "exception"
             /\ UNCHANGED pendingProcs
  /\ loopTasks' = Tail(loopTasks)
  /\ UNCHANGED <<procVars, appVars, context, numConnected, numRegistered,
                 envVars, wVars, ioVars>>

\* The callback of allocate_process with an instance.
BackendCreated(p) ==
  /\ answer[p] = "waiting"
  /\ peer[p] # "requested"
  /\ answer' = [answer EXCEPT ![p] = "created"]
  /\ UNCHANGED <<procVars, appVars, tcpVars, peer, swapAsked, wVars, ioVars, fault>>

\* _active_processes.erase(iter) with the iterator stored by add_process:
\* undefined once the entry has left the collection.
EraseStored(p) ==
  IF active[name[p]] = p
  THEN active' = [active EXCEPT ![name[p]] = NoProc] /\ UNCHANGED fault
  ELSE fault' = "undefined" /\ UNCHANGED active

\* The callback of allocate_process with an error.  remove_process of the TCP
\* server is not implemented, so the pending entry stays; the process mutex is
\* not taken.
BackendFailed(p) ==
  /\ answer[p] = "waiting"
  /\ ActiveFree
  /\ \/ /\ "refused" \in Env
        /\ peer[p] = "requested"
        /\ peer' = [peer EXCEPT ![p] = "gone"]
     \/ /\ "late" \in Env
        /\ UNCHANGED peer
  /\ answer' = [answer EXCEPT ![p] = "failed"]
  /\ EraseStored(p)
  /\ UNCHANGED <<procVars, swapped, tcpVars, swapAsked, wVars, ioVars>>

-----------------------------------------------------------------------------
(* Connections.                                                             *)

\* The backend runs the container.
ContainerStart(c) ==
  /\ peer[c] = "requested"
  /\ peer' = [peer EXCEPT ![c] = "running"]
  /\ UNCHANGED <<procVars, appVars, tcpVars, answer, swapAsked, wVars, ioVars, fault>>

\* The container connects to the TCP server.
Accept(c) ==
  /\ peer[c] = "running"
  /\ peer' = [peer EXCEPT ![c] = "connected"]
  /\ numConnected' = numConnected + 1
  /\ UNCHANGED <<procVars, appVars, loopTasks, pendingProcs, context,
                 numRegistered, answer, swapAsked, wVars, ioVars, fault>>

\* Process::connect, called without the process mutex (the lock that
\* handle_connection takes is released at the end of the same statement).
Connect(p, c) ==
  IF status[p] = "ALLOCATING"
  THEN /\ connection' = [connection EXCEPT ![p] = c]
       /\ status' = [status EXCEPT ![p] = "ALLOCATED"]
       /\ numRegistered' = numRegistered + 1
       /\ UNCHANGED fault
  ELSE /\ fault' = "exception"
       /\ UNCHANGED <<connection, status, numRegistered>>

\* Mutated HandleConnection: the entry stays among the pending processes.
HandleConnectionKeepsPending(c) ==
  /\ peer[c] = "connected"
  /\ ioPc[c] = "idle"
  /\ peer' = [peer EXCEPT ![c] = "announced"]
  /\ LET p == pendingProcs[name[c]]
     IN IF p = NoProc
        THEN UNCHANGED <<context, connection, status, numRegistered, fault>>
        ELSE /\ ~ProcLocked(p)
             /\ context' = [context EXCEPT ![c] = p]
             /\ Connect(p, c)
  /\ UNCHANGED <<name, swapLoc, appVars, loopTasks, pendingProcs, numConnected,
                 answer, swapAsked, wVars, ioVars>>

\* The ProcessConnection message: the peer is linked with the pending process
\* of the name it sends.  An unknown name is logged and the connection stays
\* without a context.
HandleConnection(c) ==
  /\ peer[c] = "connected"
  /\ ioPc[c] = "idle"
  /\ peer' = [peer EXCEPT ![c] = "announced"]
  /\ LET p == pendingProcs[name[c]]
     IN IF p = NoProc
        THEN UNCHANGED <<pendingProcs, context, connection, status, numRegistered, fault>>
        ELSE /\ ~ProcLocked(p)
             /\ pendingProcs' = [pendingProcs EXCEPT ![name[c]] = NoProc]
             /\ context' = [context EXCEPT ![c] = p]
             /\ Connect(p, c)
  /\ UNCHANGED <<name, swapLoc, appVars, loopTasks, numConnected, answer,
                 swapAsked, wVars, ioVars>>

\* Mutated HandleDisconnection: both counters go down before the context of the
\* connection is looked at.
HandleDisconnectionUnconditional(c) ==
  /\ numConnected' = numConnected - 1
  /\ numRegistered' = numRegistered - 1
  /\ IF context[c] = NoProc THEN UNCHANGED ioVars
     ELSE IoAt(c, "closed_lock", context[c])

\* handle_disconnection up to the call of closed_process.
HandleDisconnection(c) ==
  /\ numConnected' = numConnected - 1
  /\ IF context[c] = NoProc
     THEN UNCHANGED <<numRegistered, ioVars>>
     ELSE /\ numRegistered' = numRegistered - 1
          /\ IoAt(c, "closed_lock", context[c])

\* The peer closes the connection: after a crash, after it was told to, or
\* because it was swapped out.
Disconnect(c) ==
  /\ peer[c] \in {"connected", "announced", "closing"}
  /\ ioPc[c] = "idle"
  /\ \/ "crash" \in Env
     \/ peer[c] = "closing"
     \/ context[c] # NoProc /\ status[context[c]] = "SWAPPED_OUT"
  /\ peer' = [peer EXCEPT ![c] = "gone"]
  /\ HandleDisconnection(c)
  /\ UNCHANGED <<procVars, appVars, loopTasks, pendingProcs, context, answer,
                 swapAsked, wVars, fault>>

\* The ProcessClosure message: the connection is treated as closed, then shut
\* down, which makes it close once more when the peer follows.
HandleClosure(c) ==
  /\ "closure" \in Env
  /\ peer[c] = "announced"
  /\ ioPc[c] = "idle"
  /\ context[c] # NoProc
  /\ peer' = [peer EXCEPT ![c] = "closing"]
  /\ HandleDisconnection(c)
  /\ UNCHANGED <<procVars, appVars, loopTasks, pendingProcs, context, answer,
                 swapAsked, wVars, fault>>

\* Mutated ClosedLock: a process that was swapped out is treated like any other.
ClosedLockAlwaysFails(c) ==
  /\ ioPc[c] = "closed_lock"
  /\ ~ProcLocked(ioProc[c])
  /\ status' = [status EXCEPT ![ioProc[c]] = "FAILURE"]
  /\ IoAt(c, "closed_erase", ioProc[c])
  /\ UNCHANGED <<name, swapLoc, connection, appVars, tcpVars, envVars, wVars, fault>>

\* closed_process: first the process mutex.
ClosedLock(c) ==
  /\ ioPc[c] = "closed_lock"
  /\ LET p == ioProc[c]
     IN /\ ~ProcLocked(p)
        /\ IF status[p] = "SWAPPED_OUT"
           THEN /\ status' = [status EXCEPT ![p] = "CLOSED"]
                /\ connection' = [connection EXCEPT ![p] = NoProc]
                /\ IoDone(c)
           ELSE /\ status' = [status EXCEPT ![p] = "FAILURE"]
                /\ IoAt(c, "closed_erase", p)
                /\ UNCHANGED connection
  /\ UNCHANGED <<name, swapLoc, appVars, tcpVars, envVars, wVars, fault>>

\* closed_process: then the mutex of the collection.  The entry of this NAME
\* is erased, among the active processes or else among the swapped ones.
ClosedErase(c) ==
  /\ ioPc[c] = "closed_erase"
  /\ ActiveFree
  /\ LET n == name[ioProc[c]]
     IN IF active[n] # NoProc
        THEN active' = [active EXCEPT ![n] = NoProc] /\ UNCHANGED swapped
        ELSE swapped' = [swapped EXCEPT ![n] = NoProc] /\ UNCHANGED active
  /\ IoDone(c)
  /\ UNCHANGED <<procVars, tcpVars, envVars, wVars, fault>>

-----------------------------------------------------------------------------
(* Swapping out, and deletion of what was swapped.                          *)

\* swap_process: shared lock of the collection, look the name up.
SwapFind(n) ==
  /\ wPc = "idle"
  /\ ~ActiveWriter
  /\ active[n] # NoProc
  /\ wPc' = "swap_lock"
  /\ wProc' = active[n]
  /\ UNCHANGED <<procVars, appVars, tcpVars, envVars, ioVars, fault>>

\* Mutated SwapCheck: the status of the process is not checked.
SwapCheckAnyStatus ==
  /\ wPc = "swap_lock"
  /\ ~ProcLocked(wProc)
  /\ wPc' = "swap_set"
  /\ UNCHANGED <<wProc, procVars, appVars, tcpVars, envVars, ioVars, fault>>

\* Mutated SwapCheck: the collection is locked for writing before the shared
\* lock is given up.
SwapCheckUpgradesLock ==
  /\ wPc = "swap_lock"
  /\ ~ProcLocked(wProc)
  /\ ActiveFree
  /\ wPc' = "swap_set"
  /\ UNCHANGED <<wProc, procVars, appVars, tcpVars, envVars, ioVars, fault>>

\* swap_process: the process mutex, the check, the collection is unlocked.
SwapCheck ==
  /\ wPc = "swap_lock"
  /\ ~ProcLocked(wProc)
  /\ IF status[wProc] = "ALLOCATED"
     THEN wPc' = "swap_set" /\ UNCHANGED wProc
     ELSE WorkerDone
  /\ UNCHANGED <<procVars, appVars, tcpVars, envVars, ioVars, fault>>

\* Mutated SwapSet: the swap location is not stored in the process.
SwapSetNoLocation ==
  /\ wPc = "swap_set"
  /\ status' = [status EXCEPT ![wProc] = "SWAPPING_OUT"]
  /\ swapAsked' = swapAsked \cup {c \in Procs : c = connection[wProc] /\ peer[c] = "announced"}
  /\ WorkerDone
  /\ UNCHANGED <<name, swapLoc, connection, appVars, tcpVars, answer, peer, ioVars, fault>>

\* swap_process: the new status and the swap location; Process::swap sends the
\* SwapRequest, which a connection that is gone drops.
SwapSet ==
  /\ wPc = "swap_set"
  /\ status' = [status EXCEPT ![wProc] = "SWAPPING_OUT"]
  /\ swapLoc' = [swapLoc EXCEPT ![wProc] = TRUE]
  /\ swapAsked' = swapAsked \cup {c \in Procs : c = connection[wProc] /\ peer[c] = "announced"}
  /\ WorkerDone
  /\ UNCHANGED <<name, connection, appVars, tcpVars, answer, peer, ioVars, fault>>

\* The SwapConfirmation message, swapped_process: exclusive lock of the
\* collection, look the name up.  Nothing catches the exception.
HandleSwap(c) ==
  /\ c \in swapAsked
  /\ peer[c] = "announced"
  /\ ioPc[c] = "idle"
  /\ ActiveFree
  /\ swapAsked' = swapAsked \ {c}
  /\ LET p == active[name[context[c]]]
     IN IF p = NoProc
        THEN fault' = "exception" /\ UNCHANGED ioVars
        ELSE IoAt(c, "swapped_lock", p) /\ UNCHANGED fault
  /\ UNCHANGED <<procVars, appVars, tcpVars, answer, peer, wVars>>

\* Mutated SwappedCheck: the entry is copied instead of extracted.
SwappedCheckCopies(c) ==
  /\ ioPc[c] = "swapped_lock"
  /\ ~ProcLocked(ioProc[c])
  /\ status[ioProc[c]] = "SWAPPING_OUT"
  /\ status' = [status EXCEPT ![ioProc[c]] = "SWAPPED_OUT"]
  /\ IoAt(c, "swapped_insert", ioProc[c])
  /\ UNCHANGED <<name, swapLoc, connection, appVars, tcpVars, envVars, wVars, fault>>

\* swapped_process: the process mutex, the check; the entry is extracted and
\* the collection unlocked.
SwappedCheck(c) ==
  /\ ioPc[c] = "swapped_lock"
  /\ LET p == ioProc[c]
     IN /\ ~ProcLocked(p)
        /\ IF status[p] = "SWAPPING_OUT"
           THEN /\ active' = [active EXCEPT ![name[p]] = NoProc]
                /\ status' = [status EXCEPT ![p] = "SWAPPED_OUT"]
                /\ IoAt(c, "swapped_insert", p)
                /\ UNCHANGED fault
           ELSE /\ fault' = "exception"
                /\ UNCHANGED <<active, status, ioVars>>
  /\ UNCHANGED <<name, swapLoc, connection, swapped, tcpVars, envVars, wVars>>

\* swapped_process: insert the node; a name that is already there keeps its
\* old value and the node is dropped.
SwappedInsert(c) ==
  /\ ioPc[c] = "swapped_insert"
  /\ LET n == name[ioProc[c]]
     IN swapped' = [swapped EXCEPT ![n] = IF @ = NoProc THEN ioProc[c] ELSE @]
  /\ IoDone(c)
  /\ UNCHANGED <<procVars, active, tcpVars, envVars, wVars, fault>>

\* delete_process: dereferences the swap location of the process it found.
DeleteProcess(n) ==
  /\ wPc = "idle"
  /\ swapped[n] # NoProc
  /\ fault' = IF swapLoc[swapped[n]] THEN fault ELSE "undefined"
  /\ swapped' = [swapped EXCEPT ![n] = NoProc]
  /\ UNCHANGED <<procVars, active, tcpVars, envVars, wVars, ioVars>>

-----------------------------------------------------------------------------
WorkerStep == SwapCheck \/ SwapSet

IoStep(c) ==
  \/ ClosedLock(c)
  \/ ClosedErase(c)
  \/ SwappedCheck(c)
  \/ SwappedInsert(c)

Request ==
  \E n \in Names :
    \/ \E p \in Procs : AddProcess(n, p)
    \/ SwapFind(n)
    \/ DeleteProcess(n)

Event(c) ==
  \/ ContainerStart(c)
  \/ Accept(c)
  \/ BackendCreated(c)
  \/ BackendFailed(c)
  \/ HandleConnection(c)
  \/ Disconnect(c)
  \/ HandleClosure(c)
  \/ HandleSwap(c)

Next ==
  /\ fault = "none"
  /\ \/ Request
     \/ WorkerStep
     \/ PollerAddProcess
     \/ \E c \in Procs : Event(c) \/ IoStep(c)

Spec == Init /\ [][Next]_vars

\* A thread that is inside an operation is scheduled: worker and I/O threads
\* are operating-system threads, and std::shared_mutex is the only thing they
\* wait for.  A lock that becomes free again and again is eventually granted
\* (strong fairness).  Nothing is assumed of clients, containers or the backend.
Fairness ==
  /\ SF_vars(fault = "none" /\ WorkerStep)
  /\ \A c \in Procs : SF_vars(fault = "none" /\ IoStep(c))

FairSpec == Spec /\ Fairness

-----------------------------------------------------------------------------
(* Properties.                                                              *)

\* delete_process dereferences the swap location of what it finds in the
\* swapped collection without a check: every entry has one, under its own name,
\* and the same object is not still among the active processes.
SwappedHasLocation ==
  \A n \in Names : swapped[n] # NoProc =>
    /\ swapLoc[swapped[n]]
    /\ name[swapped[n]] = n
    /\ active[n] # swapped[n]

\* Process::connect throws inside the event loop unless the process is
\* ALLOCATING: whatever waits for a connection, queued for the acceptor loop or
\* already pending, is, and no connection has registered it yet.
PendingIsFresh ==
  \A p \in Procs :
    (\E n \in Names : pendingProcs[n] = p) \/ (\E i \in 1..Len(loopTasks) : loopTasks[i] = p) =>
      /\ status[p] = "ALLOCATING"
      /\ \A c \in Procs : context[c] # p

\* A process object is the context of at most one connection, so the messages
\* of two containers never act on one object.
OneConnection ==
  \A c, d \in Procs : context[c] # NoProc /\ context[c] = context[d] => c = d

\* No two threads are in the critical section of one process, and swap_process
\* does not hold the collection for reading while swapped_process holds it for
\* writing.
LocksExclude ==
  /\ \A c, d \in Procs : c # d /\ ioPc[c] \in {"swapped_insert", "closed_erase"}
                            /\ ioPc[d] \in {"swapped_insert", "closed_erase"}
                          => ioProc[c] # ioProc[d]
  /\ \A c \in Procs : wPc = "swap_set" /\ ioPc[c] \in {"swapped_insert", "closed_erase"}
                          => ioProc[c] # wProc
  /\ \A c, d \in Procs : ioPc[c] = "swapped_lock" /\ ioPc[d] = "swapped_lock" => c = d
  /\ ~(ActiveReader /\ ActiveWriter)

\* An entry of the active collection is usable: its object is being allocated,
\* allocated or swapping, or it failed and the thread that set FAILURE in
\* closed_process is about to erase it.
ActiveIsUsable ==
  \A n \in Names : active[n] # NoProc =>
    /\ name[active[n]] = n
    /\ \/ status[active[n]] \in {"ALLOCATING", "ALLOCATED", "SWAPPING_OUT"}
       \/ /\ status[active[n]] = "FAILURE"
          /\ \E c \in Procs : ioPc[c] = "closed_erase" /\ ioProc[c] = active[n]

\* A process that is connected and not swapped out can be found by its name
\* among the active processes: it can be swapped, listed, and is not replaced.
LiveIsActive ==
  \A p \in Procs : status[p] \in {"ALLOCATED", "SWAPPING_OUT"} => active[name[p]] = p

\* closed_process erases by name; the entry it removes is the process whose
\* connection was closed, never a successor with the same name.
ClosedRemovesItself ==
  [][\A c \in Procs, n \in Names :
       ioPc[c] = "closed_erase" /\ ioPc'[c] = "idle" =>
         /\ active'[n] # active[n] => active[n] = ioProc[c]
         /\ swapped'[n] # swapped[n] => swapped[n] = ioProc[c]]_vars

\* No exception leaves an event loop and no undefined operation is executed,
\* whatever clients ask for and whenever processes connect, swap or crash.
NoFault == fault = "none"

\* The counters of the TCP server are the connections that are open, and those
\* among them that a process was registered with.
CountersExact ==
  LET open == {c \in Procs : peer[c] \in {"connected", "announced", "closing"}}
  IN /\ numConnected = Cardinality(open)
     /\ fault = "none" => numRegistered = Cardinality({c \in open : context[c] # NoProc})

\* closed_process takes the mutex of a process and then that of the collection;
\* swap_process, and swapped_process of a container that is gone from the
\* collection, take them the other way round: each holds what the other needs.
Crossed ==
  \E c \in Procs :
    /\ ioPc[c] = "closed_erase"
    /\ \/ wPc = "swap_lock" /\ ioProc[c] = wProc
       \/ \E d \in Procs : ioPc[d] = "swapped_lock" /\ ioProc[d] = ioProc[c]

\* Every operation that a worker or an I/O thread has started comes to its end,
\* and the event loop gets its thread back, unless a connection ended in the
\* middle of a swap of the same process, or an exception ended the control
\* plane: no other way to wait for ever exists.
OperationsFinish ==
  LET Stopped == Crossed \/ fault # "none"
  IN /\ wPc # "idle" ~> wPc = "idle" \/ Stopped
     /\ \A c \in Procs : ioPc[c] # "idle" ~> ioPc[c] = "idle" \/ Stopped

-----------------------------------------------------------------------------
(* The inductive invariant behind SwappedHasLocation, PendingIsFresh,       *)
(* OneConnection and LocksExclude, whatever Env allows.                     *)

\* An object has a name from the moment it exists, and so does its container.
Named ==
  \A p \in Procs :
    /\ status[p] = "unused" <=> name[p] = NoProc
    /\ peer[p] # "none" \/ answer[p] # "none" => name[p] # NoProc

\* What the TCP server waits for: each object once, in the queue or pending.
WaitingOnce ==
  /\ \A i, j \in 1..Len(loopTasks) : loopTasks[i] = loopTasks[j] => i = j
  /\ \A n \in Names : pendingProcs[n] # NoProc =>
       /\ name[pendingProcs[n]] = n
       /\ \A i \in 1..Len(loopTasks) : loopTasks[i] # pendingProcs[n]

\* The links between processes, connections and collections.
Linked ==
  /\ \A n \in Names : active[n] # NoProc => name[active[n]] = n
  /\ \A c \in Procs : context[c] # NoProc =>
       name[context[c]] # NoProc /\ peer[c] \in {"announced", "closing", "gone"}
  /\ \A p \in Procs : connection[p] # NoProc => context[connection[p]] = p
  /\ \A c \in swapAsked : context[c] # NoProc
  /\ \A p \in Procs : status[p] = "SWAPPING_OUT" => swapLoc[p]

\* What a thread may rely on at each of its program points.
ThreadsAgree ==
  /\ wPc # "idle" => wProc # NoProc /\ name[wProc] # NoProc
  /\ wPc = "swap_set" => status[wProc] = "ALLOCATED"
  /\ \A c \in Procs :
       /\ ioPc[c] # "idle" => ioProc[c] # NoProc /\ name[ioProc[c]] # NoProc
       /\ ioPc[c] \in {"closed_lock", "closed_erase"} => ioProc[c] = context[c]
       /\ ioPc[c] = "swapped_lock" => active[name[ioProc[c]]] = ioProc[c]
       /\ ioPc[c] = "swapped_insert" =>
            swapLoc[ioProc[c]] /\ \A n \in Names : active[n] # ioProc[c]

\* The collections, the server's waiting list and the threads agree with each
\* other in every reachable state: the inductive strengthening.
Consistent ==
  /\ TypeOK
  /\ Named
  /\ WaitingOnce
  /\ Linked
  /\ ThreadsAgree
  /\ SwappedHasLocation
  /\ PendingIsFresh
  /\ OneConnection
  /\ LocksExclude
=============================================================================
