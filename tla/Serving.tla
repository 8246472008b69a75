------------------------------ MODULE Serving ------------------------------
(***************************************************************************)
(* The serving layer for Docker (serving/src): an HTTP server that starts  *)
(* and stops the containers of processes through the Docker daemon, and    *)
(* keeps a table of those it started.  A request goes through one, two or  *)
(* three calls of the daemon; their answers are handled one after the      *)
(* other in the loop of the HTTP client, requests in the threads of the    *)
(* server, so requests for one process overlap.                            *)
(*                                                                         *)
(* The container that a create request made carries the name of the        *)
(* request.  An exception nothing catches, or a missing entry that is      *)
(* used, ends the server.                                                  *)
(***************************************************************************)
EXTENDS Naturals, Sequences, FiniteSets

CONSTANTS Names,    \* processes
          Requests,
          Env       \* "ends": containers end by themselves;
                    \* "fails": the daemon reports errors;
                    \* "unreachable": calls of the daemon get no answer

ASSUME ServingAssumption ==
  /\ Names # {} /\ Env \subseteq {"ends", "fails", "unreachable"}
  /\ "none" \notin Names /\ Requests \cap {"none", "moved"} = {}

VARIABLES
  req,       \* kind of each request, its process, its container
  pc,        \* where it is: the call of the daemon that is open
  code,      \* the answer of the daemon to that call
  answers,   \* what the client was told
  cont,      \* containers, at the daemon
  image,     \* whether the daemon has the image
  table,     \* HttpServer::_processes
  phase,     \* up, stopping, stopped
  killing,   \* containers _kill_all waits for
  fault,     \* what ended the server, and for which process
  ended,     \* history: processes whose container ended by itself
  overlap,   \* history: processes with a kill and another request at once
  failed,    \* history: processes for which the daemon reported an error
  late       \* history: processes being created when the server was stopped

vars == <<req, pc, code, answers, cont, image, table, phase, killing, fault, ended, overlap,
          failed, late>>
history == <<ended, overlap, failed, late>>

Kinds == {"create", "kill", "cache"}
Calls == {"create", "start", "inspect", "stop", "pull"}
None == "none"
Moved == "moved"   \* an entry whose process get_all took

NoPort == 1        \* the status is 200, and the answer names no port

Up == phase # "stopped" /\ fault = {}

Init ==
  /\ req = [r \in Requests |-> [kind |-> None, name |-> None, container |-> None]]
  /\ pc = [r \in Requests |-> "new"]
  /\ code = [r \in Requests |-> 0]
  /\ answers = [r \in Requests |-> <<>>]
  /\ cont = [r \in Requests |-> None]
  /\ image \in BOOLEAN
  /\ table = [n \in Names |-> None]
  /\ phase = "up"
  /\ killing = {}
  /\ fault = {}
  /\ ended = {} /\ overlap = {} /\ failed = {} /\ late = {}

-----------------------------------------------------------------------------
(* The Docker daemon.                                                       *)

\* A container keeps its name until it is removed.
Taken(n) == \E r \in Requests : req[r].name = n /\ cont[r] \in {"created", "running"}

\* Containers are started with AutoRemove.
DaemonCreate(r) ==
  /\ pc[r] = "create" /\ code[r] = 0
  /\ IF ~image THEN code' = [code EXCEPT ![r] = 404] /\ UNCHANGED cont
     ELSE IF Taken(req[r].name) THEN code' = [code EXCEPT ![r] = 409] /\ UNCHANGED cont
     ELSE code' = [code EXCEPT ![r] = 201] /\ cont' = [cont EXCEPT ![r] = "created"]
  /\ UNCHANGED <<req, pc, answers, image, table, phase, killing, fault, history>>

DaemonStart(r) ==
  /\ pc[r] = "start" /\ code[r] = 0
  /\ code' = [code EXCEPT ![r] = 204]
  /\ cont' = [cont EXCEPT ![r] = "running"]
  /\ UNCHANGED <<req, pc, answers, image, table, phase, killing, fault, history>>

\* A container that has exited has no ports until it is removed.
DaemonInspect(r) ==
  /\ pc[r] = "inspect" /\ code[r] = 0
  /\ \E x \in IF cont[r] = "running" THEN {200} ELSE {NoPort, 404} : code' = [code EXCEPT ![r] = x]
  /\ UNCHANGED <<req, pc, answers, cont, image, table, phase, killing, fault, history>>

\* Two calls that wait for the end of one container both get 204.
DaemonStop(r) ==
  LET c == req[r].container IN
  /\ pc[r] = "stop" /\ code[r] = 0
  /\ IF cont[c] = "running"
     THEN /\ cont' = [cont EXCEPT ![c] = "gone"]
          /\ code' = [q \in Requests |-> IF pc[q] = "stop" /\ code[q] = 0 /\ req[q].container = c
                                         THEN 204 ELSE code[q]]
     ELSE code' = [code EXCEPT ![r] = 404] /\ UNCHANGED cont
  /\ UNCHANGED <<req, pc, answers, image, table, phase, killing, fault, history>>

\* The image is there (200), is downloaded (201), or is not known (404).
DaemonPull(r) ==
  /\ pc[r] = "pull" /\ code[r] = 0
  /\ \/ image /\ code' = [code EXCEPT ![r] = 200] /\ UNCHANGED image
     \/ ~image /\ code' = [code EXCEPT ![r] = 201] /\ image' = TRUE
     \/ ~image /\ code' = [code EXCEPT ![r] = 404] /\ UNCHANGED image
  /\ UNCHANGED <<req, pc, answers, cont, table, phase, killing, fault, history>>

DaemonFails(r) ==
  /\ "fails" \in Env
  /\ pc[r] \in Calls /\ code[r] = 0
  /\ code' = [code EXCEPT ![r] = 500]
  /\ failed' = failed \cup {req[r].name}
  /\ UNCHANGED <<req, pc, answers, cont, image, table, phase, killing, fault, ended, overlap, late>>

\* A process that is swapped out, or crashes; the container is removed.
ContainerEnds(c) ==
  /\ "ends" \in Env
  /\ cont[c] = "running"
  /\ cont' = [cont EXCEPT ![c] = "gone"]
  /\ ended' = ended \cup {req[c].name}
  /\ UNCHANGED <<req, pc, code, answers, image, table, phase, killing, fault, overlap, failed, late>>

-----------------------------------------------------------------------------
(* The server.                                                              *)

\* A request arrives; which of those that have not is the same.
Arrives(r) == phase = "up" /\ Up /\ pc[r] = "new" /\ r = CHOOSE q \in Requests : pc[q] = "new"

Open(n) == {r \in Requests : req[r].name = n /\ pc[r] \in Calls}

NoteOverlap(r, kind, n) ==
  overlap' = IF \E q \in Open(n) : "kill" \in {kind, req[q].kind} THEN overlap \cup {n} ELSE overlap

Answer(r, a) ==
  /\ answers' = [answers EXCEPT ![r] = Append(@, a)]
  /\ pc' = [pc EXCEPT ![r] = "done"]
  /\ code' = [code EXCEPT ![r] = 0]

Call(r, call) ==
  /\ pc' = [pc EXCEPT ![r] = call]
  /\ code' = [code EXCEPT ![r] = 0]
  /\ UNCHANGED answers

\* HttpServer::create; arguments are missing, or the daemon is asked.
Create(r, n) ==
  /\ Arrives(r)
  /\ req' = [req EXCEPT ![r] = [kind |-> "create", name |-> n, container |-> r]]
  /\ \/ Answer(r, 500) /\ UNCHANGED overlap
     \/ Call(r, "create") /\ NoteOverlap(r, "create", n)
  /\ UNCHANGED <<cont, image, table, phase, killing, fault, ended, failed, late>>

\* Mutated Created: the container is not started.
CreatedNotStarted(r) ==
  /\ Up /\ pc[r] = "create" /\ code[r] # 0
  /\ Answer(r, IF code[r] = 201 THEN 200 ELSE 500)
  /\ UNCHANGED <<req, cont, image, table, phase, killing, fault, history>>

\* ... and the lambda that handles the answer.
Created(r) ==
  /\ Up /\ pc[r] = "create" /\ code[r] # 0
  /\ IF code[r] = 201 THEN Call(r, "start") ELSE Answer(r, 500)
  /\ UNCHANGED <<req, cont, image, table, phase, killing, fault, history>>

\* Processes::add.
Add(n, c) == table' = [table EXCEPT ![n] = c]

\* Mutated Started: the container is entered when it has been inspected.
StartedNotAdded(r) ==
  /\ Up /\ pc[r] = "start" /\ code[r] # 0
  /\ IF code[r] = 204 THEN Call(r, "inspect") ELSE Answer(r, 500)
  /\ UNCHANGED <<req, cont, image, table, phase, killing, fault, history>>

\* _start_container, the answer: add throws for a name it has.
Started(r) ==
  /\ Up /\ pc[r] = "start" /\ code[r] # 0
  /\ IF code[r] = 204
     THEN IF table[req[r].name] = None
          THEN Add(req[r].name, r) /\ Call(r, "inspect") /\ UNCHANGED fault
          ELSE /\ fault' = fault \cup {<<"exists", req[r].name>>}
               /\ UNCHANGED <<pc, code, answers, table>>
     ELSE Answer(r, 500) /\ UNCHANGED <<table, fault>>
  /\ UNCHANGED <<req, cont, image, phase, killing, history>>

\* Mutated Inspected: an error is not answered.
InspectedSilent(r) ==
  /\ Up /\ pc[r] = "inspect" /\ code[r] # 0
  /\ IF code[r] = 200 THEN Answer(r, 200)
     ELSE pc' = [pc EXCEPT ![r] = "done"] /\ UNCHANGED <<code, answers>>
  /\ UNCHANGED <<req, cont, image, table, phase, killing, fault, history>>

\* _inspect_container, the answer: stoi throws when there is no port.
Inspected(r) ==
  /\ Up /\ pc[r] = "inspect" /\ code[r] # 0
  /\ IF code[r] = NoPort
     THEN /\ fault' = fault \cup {<<"port", req[r].name>>}
          /\ UNCHANGED <<pc, code, answers>>
     ELSE Answer(r, IF code[r] = 200 THEN 200 ELSE 500) /\ UNCHANGED fault
  /\ UNCHANGED <<req, cont, image, table, phase, killing, history>>

\* HttpServer::kill: a process that is not there is answered for, and then
\* its entry is used.
Kill(r, n) ==
  /\ Arrives(r)
  /\ req' = [req EXCEPT ![r] = [kind |-> "kill", name |-> n, container |-> table[n]]]
  /\ NoteOverlap(r, "kill", n)
  /\ IF table[n] = None
     THEN /\ Answer(r, 404)
          /\ fault' = fault \cup {<<"missing", n>>}
     ELSE Call(r, "stop") /\ UNCHANGED fault
  /\ UNCHANGED <<cont, image, table, phase, killing, ended, failed, late>>

\* Mutated Killed: the entry stays.
KilledKeepsEntry(r) ==
  /\ Up /\ pc[r] = "stop" /\ code[r] # 0
  /\ Answer(r, IF code[r] = 204 THEN 200 ELSE 500)
  /\ UNCHANGED <<req, cont, image, table, phase, killing, fault, history>>

\* ... and the answer to the stop: the entry of that name goes.
Killed(r) ==
  /\ Up /\ pc[r] = "stop" /\ code[r] # 0
  /\ IF code[r] = 204
     THEN Answer(r, 200) /\ table' = [table EXCEPT ![req[r].name] = None]
     ELSE Answer(r, 500) /\ UNCHANGED table
  /\ UNCHANGED <<req, cont, image, phase, killing, fault, history>>

CacheImage(r) ==
  /\ Arrives(r)
  /\ req' = [req EXCEPT ![r] = [kind |-> "cache", name |-> None, container |-> None]]
  /\ Call(r, "pull")
  /\ UNCHANGED <<cont, image, table, phase, killing, fault, history>>

\* The connection to the daemon fails, before or after the daemon has worked:
\* every handler uses a response that is not there.
NoResponse(r) ==
  /\ "unreachable" \in Env
  /\ Up /\ pc[r] \in Calls
  /\ fault' = fault \cup {<<"response", req[r].name>>}
  /\ UNCHANGED <<req, pc, code, answers, cont, image, table, phase, killing, history>>

\* Only "Image is up to date" is a success: what is said of an image that has
\* just been downloaded, and an answer without JSON, are errors.
Cached(r) ==
  /\ Up /\ pc[r] = "pull" /\ code[r] # 0
  /\ Answer(r, IF code[r] \in {200, 404} THEN code[r] ELSE 500)
  /\ UNCHANGED <<req, cont, image, table, phase, killing, fault, history>>

\* Mutated Shutdown: the table is not read.
ShutdownForgets ==
  /\ phase = "up" /\ Up
  /\ phase' = "stopping"
  /\ late' = {n \in Names : \E r \in Open(n) : req[r].kind = "create"}
  /\ UNCHANGED <<req, pc, code, answers, cont, image, table, killing, fault, ended, overlap, failed>>

\* HttpServer::shutdown: no more requests; get_all takes what the table holds.
Shutdown ==
  /\ phase = "up" /\ Up
  /\ phase' = "stopping"
  /\ killing' = {table[n] : n \in Names} \ {None}
  /\ table' = [n \in Names |-> IF table[n] = None THEN None ELSE Moved]
  /\ late' = {n \in Names : \E r \in Open(n) : req[r].kind = "create"}
  /\ UNCHANGED <<req, pc, code, answers, cont, image, fault, ended, overlap, failed>>

\* _kill_all: a stop for each; any answer, and none, counts the latch down.
KillAll(c) ==
  /\ phase = "stopping" /\ Up
  /\ c \in killing
  /\ killing' = killing \ {c}
  /\ \/ /\ cont' = [cont EXCEPT ![c] = "gone"]
        /\ UNCHANGED failed
     \/ /\ Env \cap {"fails", "unreachable"} # {}
        /\ failed' = failed \cup {req[c].name}
        /\ UNCHANGED cont
  /\ UNCHANGED <<req, pc, code, answers, image, table, phase, fault, ended, overlap, late>>

Stopped ==
  /\ phase = "stopping" /\ Up
  /\ killing = {}
  /\ phase' = "stopped"
  /\ UNCHANGED <<req, pc, code, answers, cont, image, table, killing, fault, history>>

Daemon(r) ==
  DaemonCreate(r) \/ DaemonStart(r) \/ DaemonInspect(r) \/ DaemonStop(r) \/ DaemonPull(r)

Handle(r) == Created(r) \/ Started(r) \/ Inspected(r) \/ Killed(r) \/ Cached(r)

Next ==
  \/ \E r \in Requests :
       \/ \E n \in Names : Create(r, n) \/ Kill(r, n)
       \/ CacheImage(r)
       \/ Daemon(r) \/ DaemonFails(r) \/ NoResponse(r) \/ ContainerEnds(r)
       \/ Handle(r)
       \/ KillAll(r)
  \/ Shutdown \/ Stopped

Spec == Init /\ [][Next]_vars

\* The daemon answers, and the loop of the HTTP client runs.
FairSpec == Spec /\ \A r \in Requests : WF_vars(Daemon(r)) /\ WF_vars(Handle(r))

-----------------------------------------------------------------------------
(* Properties.                                                              *)

\* Requests and entries refer to containers, and a request whose call is open
\* has not been answered, any other at most once.
TypeOK ==
  /\ \A n \in Names : table[n] \in Requests \cup {None, Moved}
  /\ \A r \in Requests :
       /\ pc[r] \in Calls \cup {"new", "done"}
       /\ Len(answers[r]) <= (IF pc[r] = "done" THEN 1 ELSE 0)
       /\ cont[r] # None => req[r].kind = "create"
       /\ pc[r] = "stop" => req[r].container \in Requests
  /\ killing \subseteq Requests /\ phase \in {"up", "stopping", "stopped"}

\* Nothing unusual happened to a process: its container ended only when it was
\* killed, no request came while a kill was open, and the daemon did its work.
Orderly(n) == n \notin ended \cup overlap \cup failed

\* No container is left without being started, unless the daemon failed: its
\* name could never be used again (server.cpp:196).
NoneLeftCreated ==
  \A c \in Requests : (cont[c] = "created" /\ Up) =>
    pc[c] \in {"create", "start"} \/ req[c].name \in failed

\* The table is exact for such processes: a container that runs is entered,
\* or its start is being answered, and an entry is a container that runs, or
\* is being killed (server.cpp:115, 264).  Containers that were created are
\* started, and nobody is answered twice, whatever happened.
TableExact ==
  /\ TypeOK
  /\ NoneLeftCreated
  /\ \A n \in Names : (Orderly(n) /\ phase = "up") =>
       /\ \A c \in Requests : (req[c].name = n /\ cont[c] = "running") =>
            table[n] = c \/ pc[c] = "start"
       /\ table[n] # None =>
            cont[table[n]] = "running" \/ \E r \in Open(n) : req[r].kind = "kill"

\* The server ends for an entry that is already there (containers.cpp:15), and
\* for a container without a port (server.cpp:89), only after a container ended
\* by itself, or a kill, or the shutdown, overlapped with another request; and
\* for an entry that is missing only when no container runs whose creation was
\* confirmed (server.cpp:242).  A daemon that gives no answer ends it always.
FaultsExplained ==
  \A n \in Names : Orderly(n) =>
    /\ fault \cap {<<"exists", n>>, <<"port", n>>} # {} => n \in late
    /\ <<"missing", n>> \in fault =>
         ~\E c \in Requests : req[c].name = n /\ cont[c] = "running" /\ answers[c] = <<200>>

\* When the server has stopped no container runs, except for processes that
\* were being created, or to which something unusual had happened
\* (server.cpp:214).
ShutdownKillsAll ==
  phase = "stopped" =>
    \A c \in Requests : cont[c] = "running" => ~Orderly(req[c].name) \/ req[c].name \in late

\* Every request is answered unless the server ends (server.cpp:196-210).
EveryRequestAnswered ==
  \A r \in Requests : pc[r] \in Calls ~> Len(answers[r]) > 0 \/ ~Up
=============================================================================
