------------------------------ MODULE Channel ------------------------------
(***************************************************************************)
(* The message queues between the controller of a process and its workers  *)
(* (POSIXMQChannel in ipc.cpp), with the loops at both ends: the           *)
(* controller's poll (controller.cpp) and the invoker that runs functions  *)
(* (invoker.cpp, cli.cpp).  There are two queues per worker.  Each holds   *)
(* Capacity pieces; a message is its header and as many pieces as its      *)
(* payload needs.  The controller opens both queues without O_NONBLOCK, so *)
(* sending to a full queue and reading from an empty one block both ends.  *)
(*                                                                         *)
(* The controller is one thread: while a message of several pieces is      *)
(* being sent, or read, nothing else happens there.  A worker reads its    *)
(* queue only between functions and when its function waits in get or      *)
(* invoke.                                                                 *)
(***************************************************************************)
EXTENDS Naturals, SequencesExt

CONSTANTS NumWorkers, \* Workers::_workers.size()
          Capacity,   \* MAX_MSGS
          Lens,       \* payloads, in pieces
          Asks,       \* payloads of the request, if a call has an answer, for each call
          MaxInvocs,  \* invocations that are submitted
          MaxUpdates, \* changes of the application that are announced
          MaxCalls,   \* get and put calls of functions
          Procs,      \* other processes of the application
          Self,       \* this process
          None,
          Env         \* "missing": a worker may lack a function;
                      \* "crash": a function may end its worker

ASSUME ChannelAssumption ==
  /\ NumWorkers \in Nat \ {0}
  /\ Capacity \in Nat \ {0}
  /\ MaxInvocs \in Nat /\ MaxUpdates \in Nat /\ MaxCalls \in Nat
  /\ Lens \subseteq Nat
  /\ Asks \in [1..MaxCalls -> SUBSET (Lens \cup {0})]
  /\ Self \notin Procs

VARIABLES
  queue,    \* pieces in each queue
  partial,  \* pieces of the message that is being received from each
  sending,  \* pieces of the message that is being sent to each
  busy,     \* FunctionWorker::_busy
  asked,    \* get calls of each worker that have no answer yet
  view,     \* Controller::_application
  updating, \* the changes that are being announced, until they are in view
  telling,  \* those of them that not every worker has been sent yet
  turn,     \* the worker to whom the first of these is sent next
  phase,    \* what a worker does: poll, run, wait in get, dead
  running,  \* the invocation a worker runs
  waiting,  \* the get it waits in
  wview,    \* Invoker::_app_status
  invocs, updates, calls, \* how many there were
  sent, got,              \* history: messages handed to send, and received
  lacking,  \* history: workers that lacked the function they were sent
  missed,   \* history: workers that read a change of the application in get
  spoilt    \* history: workers that read anything but the answer in get

vars == <<queue, partial, sending, busy, asked, view, updating, telling, turn, phase, running, waiting,
          wview, invocs, updates, calls, sent, got, lacking, missed, spoilt>>

controller == <<busy, asked, view, updating, telling, turn, invocs, updates>>
worker == <<phase, running, waiting, wview, calls, lacking, missed, spoilt>>

Workers == 1..NumWorkers
In(w) == <<w, "in">>    \* read by the worker
Out(w) == <<w, "out">>  \* read by the controller
Queues == Workers \X {"in", "out"}

\* Every call of a function uses a name of its own.
Message(kind, id, len, data) == [kind |-> kind, id |-> id, len |-> len, data |-> data]
Changes == [process : Procs, status : {"ACTIVE", "SWAPPED"}]

\* What controller and workers send each other.
Messages ==
  {Message(kind, id, len, None) : kind \in {"invoke", "result"}, id \in 1..MaxInvocs, len \in Lens}
  \cup {Message(kind, id, len, None) : kind \in {"put", "reply"}, id \in 1..MaxCalls, len \in Lens}
  \cup {Message("get", id, len, None) : id \in 1..MaxCalls, len \in Lens \cup {0}}
  \cup {Message("update", id, 0, change) : id \in 1..MaxUpdates, change \in Changes}

\* send: the header, then the payload in pieces of the size of the queue.
Pieces(m) == [i \in 1..(1 + m.len) |-> [msg |-> m, no |-> i]]

\* Mutated Complete: the header counts as a piece of the payload.
CompleteEarly(s) == Len(s) = IF s[1].msg.len = 0 THEN 1 ELSE s[1].msg.len

\* receive: what is read first is the header, and tells how much follows.
Complete(s) == Len(s) = 1 + s[1].msg.len

\* The message that was read; none if pieces of several were put together.
Whole(s) == IF s = Pieces(s[1].msg) THEN s[1].msg ELSE None

\* Application::update.  A process that becomes active again stays in the list
\* of those that are swapped.
Updated(v, u) ==
  IF u.status = "ACTIVE" THEN [v EXCEPT !.active = Append(@, u.process)]
  ELSE IF u.process \in ToSet(v.active)
       THEN [active |-> RemoveFirst(v.active, u.process),
             swapped |-> Append(v.swapped, u.process)]
       ELSE v

Init ==
  /\ queue = [q \in Queues |-> <<>>]
  /\ partial = [q \in Queues |-> <<>>]
  /\ sending = [q \in Queues |-> <<>>]
  /\ busy = [w \in Workers |-> FALSE]
  /\ asked = [w \in Workers |-> {}]
  /\ view = [active |-> <<>>, swapped |-> <<>>]
  /\ updating = <<>> /\ telling = <<>> /\ turn = 1
  /\ phase = [w \in Workers |-> "poll"]
  /\ running = [w \in Workers |-> 0]
  /\ waiting = [w \in Workers |-> 0]
  /\ wview = [w \in Workers |-> [active |-> <<Self>>, swapped |-> <<>>]]
  /\ invocs = 0 /\ updates = 0 /\ calls = 0
  /\ sent = [q \in Queues |-> <<>>]
  /\ got = [q \in Queues |-> <<>>]
  /\ lacking = {} /\ missed = {} /\ spoilt = {}

\* POSIXMQChannel::send is called.
Start(q, m) ==
  /\ sending' = [sending EXCEPT ![q] = Pieces(m)]
  /\ sent' = [sent EXCEPT ![q] = Append(@, m)]
  /\ UNCHANGED <<queue, partial, got>>

\* mq_send waits for room.
PutPiece(q) ==
  /\ sending[q] # <<>>
  /\ Len(queue[q]) < Capacity
  /\ queue' = [queue EXCEPT ![q] = Append(@, Head(sending[q]))]
  /\ sending' = [sending EXCEPT ![q] = Tail(@)]
  /\ UNCHANGED <<partial, sent, got>>

\* What a reader has when it has taken the next piece.
Read(q) == Append(partial[q], Head(queue[q]))

\* mq_receive waits for a piece; the reader has s when it returns.
TakePiece(q, s) ==
  /\ queue[q] # <<>>
  /\ queue' = [queue EXCEPT ![q] = Tail(@)]
  /\ IF Complete(s)
     THEN /\ partial' = [partial EXCEPT ![q] = <<>>]
          /\ got' = [got EXCEPT ![q] = Append(@, Whole(s))]
     ELSE partial' = [partial EXCEPT ![q] = s] /\ UNCHANGED got
  /\ UNCHANGED <<sending, sent>>

-----------------------------------------------------------------------------
(* Controller.                                                              *)

\* It sends nothing.
Sent == \A w \in Workers : sending[In(w)] = <<>>

\* The thread is in epoll_wait: it is not sending, and not in the middle of a
\* message it receives.
AtPoll ==
  /\ Sent /\ updating = <<>>
  /\ \A w \in Workers : partial[Out(w)] = <<>>

\* Mutated Submit: a worker that is busy may get another invocation.
SubmitToBusy(w, len) ==
  /\ AtPoll
  /\ invocs < MaxInvocs
  /\ busy' = [busy EXCEPT ![w] = TRUE]
  /\ invocs' = invocs + 1
  /\ Start(In(w), Message("invoke", invocs + 1, len, None))
  /\ UNCHANGED <<asked, view, updating, telling, turn, updates, worker>>

\* Workers::submit, at the end of a round.
Submit(w, len) ==
  /\ AtPoll
  /\ invocs < MaxInvocs
  /\ ~busy[w]
  /\ busy' = [busy EXCEPT ![w] = TRUE]
  /\ invocs' = invocs + 1
  /\ Start(In(w), Message("invoke", invocs + 1, len, None))
  /\ UNCHANGED <<asked, view, updating, telling, turn, updates, worker>>

\* Mutated Reply: the call stays on the list.
ReplyAgain(w, id, len) ==
  /\ AtPoll
  /\ id \in asked[w]
  /\ Start(In(w), Message("reply", id, len, None))
  /\ UNCHANGED <<busy, asked, view, updating, telling, turn, invocs, updates, worker>>

\* The answer to a get: at once when the message is there, else when it comes.
Reply(w, id, len) ==
  /\ AtPoll
  /\ id \in asked[w]
  /\ asked' = [asked EXCEPT ![w] = @ \ {id}]
  /\ Start(In(w), Message("reply", id, len, None))
  /\ UNCHANGED <<busy, view, updating, telling, turn, invocs, updates, worker>>

\* Whoever announces changes (no code of the control plane does) tells what is
\* new: a process that is not active becomes active, one that is is swapped.
AreNews(us) ==
  \A i \in 1..Len(us) :
    LET v == FoldLeft(Updated, view, SubSeq(us, 1, i - 1))
    IN (us[i].status = "SWAPPED") = (us[i].process \in ToSet(v.active))

\* _process_application_updates is called with all the changes that came since
\* the last round.
ProcessUpdates(us) ==
  /\ AtPoll
  /\ AreNews(us)
  /\ updates' = updates + Len(us)
  /\ updating' = us
  /\ telling' = us
  /\ turn' = 1
  /\ UNCHANGED <<queue, partial, sending, sent, got, busy, asked, view, invocs, worker>>

\* The next of the changes and workers.
NextTurn ==
  /\ turn' = IF turn = NumWorkers THEN 1 ELSE turn + 1
  /\ telling' = IF turn = NumWorkers THEN Tail(telling) ELSE telling

\* Mutated TellWorker: only workers that are idle are told.
TellIdleWorker ==
  /\ telling # <<>> /\ Sent
  /\ IF busy[turn] THEN UNCHANGED <<queue, partial, sending, sent, got>>
     ELSE Start(In(turn), Message("update", updates - Len(telling) + 1, 0, Head(telling)))
  /\ NextTurn
  /\ UNCHANGED <<busy, asked, view, updating, invocs, updates, worker>>

\* Change by change, every worker is told, busy or not ...
TellWorker ==
  /\ telling # <<>> /\ Sent
  /\ Start(In(turn), Message("update", updates - Len(telling) + 1, 0, Head(telling)))
  /\ NextTurn
  /\ UNCHANGED <<busy, asked, view, updating, invocs, updates, worker>>

\* ... before the controller changes its own list.
ApplyUpdate ==
  /\ updating # <<>> /\ telling = <<>> /\ Sent
  /\ view' = Updated(view, Head(updating))
  /\ updating' = Tail(updating)
  /\ UNCHANGED <<queue, partial, sending, sent, got, busy, asked, telling, turn, invocs, updates, worker>>

\* _send of the controller.
ControllerSend(w) == PutPiece(In(w)) /\ UNCHANGED <<controller, worker>>

\* A message of a worker: the first piece after an event, the others at once.
ControllerReceive(w) ==
  LET s == Read(Out(w))
      m == s[1].msg IN
  /\ Sent /\ updating = <<>>
  /\ \A v \in Workers \ {w} : partial[Out(v)] = <<>>
  /\ TakePiece(Out(w), s)
  /\ busy' = IF Complete(s) /\ m.kind = "result" THEN [busy EXCEPT ![w] = FALSE] ELSE busy
  /\ asked' = IF Complete(s) /\ m.kind = "get" THEN [asked EXCEPT ![w] = @ \cup {m.id}] ELSE asked
  /\ UNCHANGED <<view, updating, telling, turn, invocs, updates, worker>>

-----------------------------------------------------------------------------
(* Workers.                                                                 *)

\* _send of a worker.
WorkerSend(w) ==
  /\ phase[w] # "dead"
  /\ PutPiece(Out(w))
  /\ UNCHANGED <<controller, worker>>

\* Part of a message.
ReadPart(w) ==
  LET s == Read(In(w)) IN
  /\ phase[w] \in {"poll", "wait"} /\ sending[Out(w)] = <<>>
  /\ TakePiece(In(w), s)
  /\ ~Complete(s)
  /\ UNCHANGED <<worker, controller>>

\* Invoker::poll has a message of this kind.
Polled(w, kind) ==
  LET s == Read(In(w)) IN
  /\ phase[w] = "poll" /\ sending[Out(w)] = <<>>
  /\ TakePiece(In(w), s)
  /\ Complete(s)
  /\ s[1].msg.kind = kind
  /\ UNCHANGED <<waiting, calls, missed, spoilt, controller>>

\* An invocation: the loop of the invoker calls the function ...
RunFunction(w) ==
  /\ Polled(w, "invoke")
  /\ phase' = [phase EXCEPT ![w] = "run"]
  /\ running' = [running EXCEPT ![w] = Read(In(w))[1].msg.id]
  /\ UNCHANGED <<wview, lacking>>

\* ... or, if the library has none of this name, polls again.
MissingFunction(w) ==
  /\ "missing" \in Env
  /\ Polled(w, "invoke")
  /\ lacking' = lacking \cup {w}
  /\ UNCHANGED <<phase, running, wview>>

\* A change of the application.
NoteUpdate(w) ==
  /\ Polled(w, "update")
  /\ wview' = [wview EXCEPT ![w] = Updated(@, Read(In(w))[1].msg.data)]
  /\ UNCHANGED <<phase, running, lacking>>

\* "Received unsupported message!"
IgnoreMessage(w) == Polled(w, "reply") /\ UNCHANGED <<phase, running, wview, lacking>>

PollMessage(w) == RunFunction(w) \/ MissingFunction(w) \/ NoteUpdate(w) \/ IgnoreMessage(w)

\* Invoker::get: whatever comes next is taken for the answer, and the call
\* fails if it is something else.
GetMessage(w) ==
  LET s == Read(In(w))
      m == s[1].msg IN
  /\ phase[w] = "wait" /\ sending[Out(w)] = <<>>
  /\ TakePiece(In(w), s)
  /\ Complete(s)
  /\ phase' = [phase EXCEPT ![w] = "run"]
  /\ waiting' = [waiting EXCEPT ![w] = 0]
  /\ missed' = IF m.kind = "update" THEN missed \cup {w} ELSE missed
  /\ spoilt' = IF m.kind = "reply" /\ m.id = waiting[w] THEN spoilt ELSE spoilt \cup {w}
  /\ UNCHANGED <<running, wview, calls, lacking, controller>>

\* Context::put, and Context::state with a value.
Put(w, len) ==
  /\ phase[w] = "run" /\ sending[Out(w)] = <<>>
  /\ calls < MaxCalls
  /\ calls' = calls + 1
  /\ Start(Out(w), Message("put", calls + 1, len, None))
  /\ UNCHANGED <<phase, running, waiting, wview, lacking, missed, spoilt, controller>>

\* Context::get, and the other calls that have an answer; invoke sends a payload
\* with its request.
Get(w) ==
  /\ phase[w] = "run" /\ sending[Out(w)] = <<>>
  /\ calls < MaxCalls
  /\ calls' = calls + 1
  /\ phase' = [phase EXCEPT ![w] = "wait"]
  /\ waiting' = [waiting EXCEPT ![w] = calls + 1]
  /\ \E len \in Asks[calls + 1] : Start(Out(w), Message("get", calls + 1, len, None))
  /\ UNCHANGED <<running, wview, lacking, missed, spoilt, controller>>

\* Mutated Finish: no result is sent.
FinishSilent(w, len) ==
  /\ phase[w] = "run" /\ sending[Out(w)] = <<>>
  /\ phase' = [phase EXCEPT ![w] = "poll"]
  /\ running' = [running EXCEPT ![w] = 0]
  /\ UNCHANGED <<queue, partial, sending, sent, got, waiting, wview, calls, lacking, missed, spoilt, controller>>

\* Invoker::finish: the result, then the next poll.
Finish(w, len) ==
  /\ phase[w] = "run" /\ sending[Out(w)] = <<>>
  /\ phase' = [phase EXCEPT ![w] = "poll"]
  /\ running' = [running EXCEPT ![w] = 0]
  /\ Start(Out(w), Message("result", running[w], len, None))
  /\ UNCHANGED <<waiting, wview, calls, lacking, missed, spoilt, controller>>

\* failure_handler, or an exception the function does not handle: the worker
\* is gone, and the controller does not learn of it.
Crash(w) ==
  /\ "crash" \in Env
  /\ phase[w] = "run"
  /\ phase' = [phase EXCEPT ![w] = "dead"]
  /\ sending' = [sending EXCEPT ![Out(w)] = <<>>]
  /\ UNCHANGED <<queue, partial, sent, got, running, waiting, wview, calls, lacking, missed, spoilt, controller>>

Next ==
  \/ \E n \in 1..(MaxUpdates - updates) : \E us \in [1..n -> Changes] : ProcessUpdates(us)
  \/ TellWorker \/ ApplyUpdate
  \/ \E w \in Workers :
       \/ \E len \in Lens : Submit(w, len) \/ Put(w, len) \/ Finish(w, len)
       \/ \E id \in asked[w], len \in Lens : Reply(w, id, len)
       \/ ControllerSend(w) \/ ControllerReceive(w)
       \/ WorkerSend(w) \/ ReadPart(w) \/ PollMessage(w) \/ GetMessage(w)
       \/ Get(w) \/ Crash(w)

Spec == Init /\ [][Next]_vars

\* The threads run, and functions end.  Nobody promises that the message a get
\* asks for is ever put.
Fairness ==
  /\ WF_vars(TellWorker) /\ WF_vars(ApplyUpdate)
  /\ \A w \in Workers :
       /\ WF_vars(ControllerSend(w)) /\ WF_vars(ControllerReceive(w))
       /\ WF_vars(WorkerSend(w))
       /\ WF_vars(ReadPart(w)) /\ WF_vars(PollMessage(w)) /\ WF_vars(GetMessage(w))
       /\ WF_vars(\E len \in Lens : Finish(w, len))

FairSpec == Spec /\ Fairness

-----------------------------------------------------------------------------
(* Properties.                                                              *)

\* Queues never hold more than they can, a worker that runs or waits is marked
\* busy, and only one that waits has a get of its own open (workers.cpp:275).
TypeOK ==
  /\ \A q \in Queues : Len(queue[q]) <= Capacity
  /\ \A w \in Workers :
       /\ phase[w] \in {"poll", "run", "wait", "dead"}
       /\ phase[w] \in {"run", "wait"} => busy[w]
       /\ (waiting[w] # 0) = (phase[w] = "wait")
       /\ asked[w] \subseteq 1..calls
  /\ lacking \subseteq Workers /\ spoilt \subseteq Workers
  /\ invocs \in 0..MaxInvocs /\ updates \in 0..MaxUpdates /\ calls \in 0..MaxCalls

\* The controller waits for room in the queue of a worker.
BlockedOn(w) ==
  /\ sending[In(w)] # <<>>
  /\ Len(queue[In(w)]) = Capacity

\* The controller never waits for a worker that is not reading because of an
\* invocation or an answer, however long: what such a worker has in its queue
\* are changes of the application, or answers to a get that one of them
\* spoilt (controller.cpp:249 sends them to busy workers).
BlockedOnlyByUpdates ==
  \A w \in Workers :
    (BlockedOn(w) /\ (phase[w] = "run" \/ sending[Out(w)] # <<>>)) =>
      \/ w \in missed
      \/ \A i \in 1..Capacity : queue[In(w)][i].msg.kind = "update"

\* A get reads anything but its answer only in a worker that read a change of
\* the application in a get, then or before (invoker.hpp:46).
SpoiltOnlyByUpdates == spoilt \subseteq missed

\* Were it not for changes of the application, the controller would never wait
\* for a worker that does not read, and every get would read its own answer.
OnlyUpdatesDisturb == TypeOK /\ BlockedOnlyByUpdates /\ SpoiltOnlyByUpdates

\* A worker that reads its queue and has nothing more to read sees the
\* processes the controller sees, unless a get took a change for its answer
\* (invoker.cpp:95, controller.cpp:254).
ViewsAgree ==
  \A w \in Workers :
    (/\ phase[w] = "poll" /\ w \notin missed
     /\ updating = <<>> /\ queue[In(w)] = <<>>) =>
      /\ wview[w].active = <<Self>> \o view.active
      /\ wview[w].swapped = view.swapped

\* The queues are pipes: messages come out complete, once and in order, however
\* their pieces interleave with those of other workers (ipc.cpp:117-306).
Stream == INSTANCE Pipe WITH Pipes <- Queues
ChannelsArePipes == Stream!Spec

\* For ever: the controller waits for a worker that is dead, or that waits for
\* the controller.
Stuck ==
  \E w \in Workers :
    \/ BlockedOn(w) /\ phase[w] = "dead"
    \/ BlockedOn(w) /\ sending[Out(w)] # <<>> /\ Len(queue[Out(w)]) = Capacity
    \/ partial[Out(w)] # <<>> /\ queue[Out(w)] = <<>> /\ phase[w] = "dead"

\* A worker that has an invocation becomes idle again, unless its function
\* waits for a message nobody sends, ended the worker, or was not found, or
\* the controller is stuck (cli.cpp:85-107, ipc.cpp:117).
WorkersComeBack ==
  \A w \in Workers :
    busy[w] ~> \/ ~busy[w]
               \/ phase[w] = "wait" /\ asked[w] # {}
               \/ phase[w] = "dead" \/ w \in lacking \/ Stuck
=============================================================================
