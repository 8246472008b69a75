------------------------------- MODULE Remote -------------------------------
(***************************************************************************)
(* The connections of a process to other processes, to clients and to the  *)
(* control plane (TCPServer in remote.cpp): who a message or a result is   *)
(* sent to, and when.  Framing shows how a connection is read; here a      *)
(* message is sent and received in one piece.                              *)
(*                                                                         *)
(* Three threads of the process meet in _connection_data: the controller,  *)
(* which sends (put_message, invocation_request, invocation_result); the   *)
(* I/O loop, which registers connections that others open; the main loop,  *)
(* which runs the callbacks of the connections the process opens itself.   *)
(* The first two hold _conn_mutex.  The connection callback does not: it   *)
(* is four steps, and put_message is two, its test and what follows.       *)
(***************************************************************************)
EXTENDS Naturals, SequencesExt

CONSTANTS Peers,      \* other processes; each registers under its own name
          Clients,    \* users of the SDK; all register as DATAPLANE
          MaxMsgs,    \* put messages and invocation requests to other processes
          Calls,      \* invocations that others request from this process
          MaxIncoming, \* connections that others open
          None,
          Env         \* "unreachable": an attempt to connect may fail;
                      \* "closed": connections may be closed

Correct == "CORRECT"
DataPlane == "DATAPLANE"
ControlPlane == "CONTROLPLANE"
Keys == Peers \cup {Correct, DataPlane, ControlPlane}

\* Messages and connections from others are numbered in the order in which they
\* appear.  A process has one connection to each other process at a time, of that
\* process's name: its entry never forgets it and an attempt that fails is never
\* repeated, but one that came and went during one call of put_message is opened
\* again.
Msgs == 1..MaxMsgs
Incoming == 1..MaxIncoming
Links == Peers \cup Incoming
ControlLink == 0

ASSUME RemoteAssumption ==
  /\ MaxMsgs \in Nat /\ MaxIncoming \in Nat
  /\ None \notin Links \cup Clients \cup Msgs \cup {ControlLink}
  /\ None \notin {Correct, DataPlane, ControlPlane, "conn", "flush", "clear", "in", "out"}
  /\ None \notin [msg : Msgs, direct : BOOLEAN]
  /\ Peers \cap (Clients \cup {Correct, DataPlane, ControlPlane}) = {}
  /\ Peers \cap (Incoming \cup {ControlLink}) = {}

VARIABLES
  entry,     \* _connection_data: status, connection, pending messages
  link,      \* TCP connections: whose, opened by whom, state, context
  out,       \* what was sent on each link, registrations aside
  callback,  \* the connection callback that runs, and what it does next
  putting,   \* the call of put_message that is past its test
  to,        \* history: the process each message was put to
  order,     \* history: messages in the order of the calls
  overlap,   \* history: messages whose call overlapped a connection callback
  dead,      \* history: messages sent on a connection that had ended
  call       \* history: who requested an invocation, under which key, and
             \* the link on which its result was sent

vars == <<entry, link, out, callback, putting, to, order, overlap, dead, call>>

Fresh == [status |-> "none", conn |-> None, pend |-> <<>>]
Free == [peer |-> None, dir |-> None, state |-> "free", ctx |-> None]
Idle == [link |-> None, next |-> None]

TypeOK ==
  /\ \A k \in Keys : /\ entry[k].status \in {"none", "DISCONNECTED", "CONNECTING", "CONNECTED"}
                     /\ entry[k].conn \in Links \cup {None}
                     /\ ToSet(entry[k].pend) \subseteq Msgs
                     /\ entry[k].status = "none" => entry[k].conn = None
  /\ \A l \in Links : /\ link[l].peer \in Peers \cup Clients \cup {None}
                      /\ link[l].dir \in {"in", "out", None}
                      /\ link[l].state \in {"free", "connecting", "open", "closed"}
                      /\ link[l].ctx \in Keys \cup {None}
  /\ callback.link \in Links \cup {None}
  /\ callback.next \in {"conn", "flush", "clear", None}
  /\ overlap \cup dead \subseteq ToSet(order)

\* poll has connected to the control plane, on a link of its own.
Init ==
  /\ entry = [k \in Keys |-> IF k = ControlPlane THEN [Fresh EXCEPT !.status = "CONNECTED"] ELSE Fresh]
  /\ link = [l \in Links |-> Free]
  /\ out = [l \in Links |-> <<>>]
  /\ callback = Idle
  /\ putting = None
  /\ to = [m \in Msgs |-> None]
  /\ order = <<>>
  /\ overlap = {}
  /\ dead = {}
  /\ call = [c \in Calls |-> [peer |-> None, key |-> None, done |-> FALSE, sent |-> None]]

NextMsg(m) == to[m] = None /\ \A i \in 1..(m - 1) : to[i] # None
NextIncoming(l) == link[l].state = "free" /\ \A i \in 1..(l - 1) : link[i].state # "free"

Known(k) == entry[k].status # "none"

\* _conn_mutex: put_message holds it between its two steps.
Mutex == putting = None

-----------------------------------------------------------------------------
(* I/O loop.                                                                *)

\* _handle_app_update: the control plane announces a process and its address.
HandleAppUpdate(q) ==
  /\ Mutex
  /\ ~Known(q)
  /\ entry' = [entry EXCEPT ![q].status = "DISCONNECTED"]
  /\ UNCHANGED <<link, out, callback, putting, to, order, overlap, dead, call>>

\* _handle_connection: the connection replaces the one its name had.
Registered(l, k) == entry' = [entry EXCEPT ![k].conn = l, ![k].status = "CONNECTED"]

\* A process or a client connects and registers.
HandleConnection(l, p) ==
  LET k == IF p \in Clients THEN DataPlane ELSE p IN
  /\ Mutex
  /\ NextIncoming(l)
  /\ link' = [link EXCEPT ![l] = [peer |-> p, dir |-> "in", state |-> "open", ctx |-> k]]
  /\ Registered(l, k)
  /\ UNCHANGED <<out, callback, putting, to, order, overlap, dead, call>>

-----------------------------------------------------------------------------
(* Main loop: connections the process opened.                               *)

\* The callback, part one: status and registration.
ConnectedStatus(l) ==
  /\ callback = Idle
  /\ link[l].state = "connecting"
  /\ link' = [link EXCEPT ![l].state = "open"]
  /\ entry' = [entry EXCEPT ![link[l].peer].status = "CONNECTED"]
  /\ callback' = [link |-> l, next |-> "conn"]
  /\ overlap' = overlap \cup (IF putting = None THEN {} ELSE {putting.msg})
  /\ UNCHANGED <<out, putting, to, order, dead, call>>

\* Part two: senders use the connection from now on.
ConnectedConn ==
  /\ callback.next = "conn"
  /\ entry' = [entry EXCEPT ![link[callback.link].peer].conn = callback.link]
  /\ callback' = [callback EXCEPT !.next = "flush"]
  /\ UNCHANGED <<link, out, putting, to, order, overlap, dead, call>>

\* Mutated ConnectedFlush: the newest message goes first.
ConnectedFlushReversed ==
  /\ callback.next = "flush"
  /\ out' = [out EXCEPT ![callback.link] = @ \o Reverse(entry[link[callback.link].peer].pend)]
  /\ callback' = [callback EXCEPT !.next = "clear"]
  /\ UNCHANGED <<entry, link, putting, to, order, overlap, dead, call>>

\* Part three: what waited is sent.
ConnectedFlush ==
  /\ callback.next = "flush"
  /\ out' = [out EXCEPT ![callback.link] = @ \o entry[link[callback.link].peer].pend]
  /\ callback' = [callback EXCEPT !.next = "clear"]
  /\ UNCHANGED <<entry, link, putting, to, order, overlap, dead, call>>

\* Part four.
ConnectedClear ==
  /\ callback.next = "clear"
  /\ entry' = [entry EXCEPT ![link[callback.link].peer].pend = <<>>]
  /\ callback' = Idle
  /\ UNCHANGED <<link, out, putting, to, order, overlap, dead, call>>

\* The answer of the peer, CORRECT, comes on a connection without context: it
\* is taken for a registration under that name.
Confirm(l) ==
  /\ Mutex
  /\ callback = Idle
  /\ link[l].state = "open"
  /\ link[l].dir = "out"
  /\ link[l].ctx = None
  /\ link' = [link EXCEPT ![l].ctx = Correct]
  /\ Registered(l, Correct)
  /\ UNCHANGED <<out, callback, putting, to, order, overlap, dead, call>>

\* An attempt to connect that fails calls nobody back.
ConnectFails(l) ==
  /\ "unreachable" \in Env
  /\ link[l].state = "connecting"
  /\ link' = [link EXCEPT ![l].state = "closed"]
  /\ UNCHANGED <<entry, out, callback, putting, to, order, overlap, dead, call>>

\* A connection ends.  The entry of one the process opened becomes
\* DISCONNECTED; none of them forgets its connection.
Disconnected(l) ==
  /\ "closed" \in Env
  /\ link[l].state = "open"
  /\ callback.link # l
  /\ link' = [link EXCEPT ![l].state = "closed"]
  /\ entry' = IF link[l].dir = "out" THEN [entry EXCEPT ![link[l].peer].status = "DISCONNECTED"] ELSE entry
  /\ UNCHANGED <<out, callback, putting, to, order, overlap, dead, call>>

\* The control plane is gone: _control_plane is reset.  Only a result that is
\* still to be sent to it can tell.
ControlPlaneGone ==
  /\ "closed" \in Env
  /\ entry[ControlPlane].status = "CONNECTED"
  /\ \E c \in Calls : call[c].key = ControlPlane /\ ~call[c].done
  /\ entry' = [entry EXCEPT ![ControlPlane].status = "DISCONNECTED"]
  /\ UNCHANGED <<link, out, callback, putting, to, order, overlap, dead, call>>

-----------------------------------------------------------------------------
(* Controller.                                                              *)

\* put_message and invocation_request: the process must be known, ...
PutUnknown(q, m) ==
  /\ Mutex
  /\ NextMsg(m)
  /\ ~Known(q)
  /\ to' = [to EXCEPT ![m] = q]
  /\ UNCHANGED <<entry, link, out, callback, putting, order, overlap, dead, call>>

\* ... and the test whether it has a connection decides.
PutTest(q, m) ==
  /\ Mutex
  /\ NextMsg(m)
  /\ Known(q)
  /\ to' = [to EXCEPT ![m] = q]
  /\ order' = Append(order, m)
  /\ putting' = [msg |-> m, direct |-> entry[q].conn # None]
  /\ overlap' = IF callback # Idle /\ link[callback.link].peer = q THEN overlap \cup {m} ELSE overlap
  /\ UNCHANGED <<entry, link, out, callback, dead, call>>

\* The message is sent, whatever has become of the connection.
PutSend ==
  LET l == entry[to[putting.msg]].conn IN
  /\ putting # None /\ putting.direct
  /\ IF link[l].state = "open"
     THEN out' = [out EXCEPT ![l] = Append(@, putting.msg)] /\ UNCHANGED dead
     ELSE dead' = dead \cup {putting.msg} /\ UNCHANGED out
  /\ putting' = None
  /\ UNCHANGED <<entry, link, callback, to, order, overlap, call>>

\* Mutated PutStore: the first message does not open a connection.
PutStoreWaits ==
  LET q == to[putting.msg] IN
  /\ putting # None /\ ~putting.direct
  /\ entry' = [entry EXCEPT ![q].pend = Append(@, putting.msg)]
  /\ UNCHANGED link
  /\ putting' = None
  /\ UNCHANGED <<out, callback, to, order, overlap, dead, call>>

\* The message is kept, and the first one opens a connection (_connect).
PutStore ==
  LET q == to[putting.msg] IN
  /\ putting # None /\ ~putting.direct
  /\ IF entry[q].status = "DISCONNECTED"
     THEN /\ link' = [link EXCEPT ![q] = [peer |-> q, dir |-> "out", state |-> "connecting", ctx |-> None]]
          /\ entry' = [entry EXCEPT ![q].pend = Append(@, putting.msg), ![q].status = "CONNECTING"]
     ELSE /\ entry' = [entry EXCEPT ![q].pend = Append(@, putting.msg)]
          /\ UNCHANGED link
  /\ putting' = None
  /\ UNCHANGED <<out, callback, to, order, overlap, dead, call>>

\* An invocation request arrives on a connection; its source is the name under
\* which the connection is registered.
RequestInvocation(c, p, k) ==
  /\ call[c].peer = None
  /\ \/ \E l \in Links : link[l].state = "open" /\ link[l].peer = p /\ link[l].ctx = k
     \/ p = ControlPlane /\ k = ControlPlane /\ entry[ControlPlane].status = "CONNECTED"
  /\ call' = [call EXCEPT ![c].peer = p, ![c].key = k]
  /\ UNCHANGED <<entry, link, out, callback, putting, to, order, overlap, dead>>

\* Mutated InvocationResult: a client, when there is one, gets all results.
InvocationResultToClient(c) ==
  LET k == call[c].key IN
  /\ Mutex
  /\ call[c].peer # None
  /\ ~call[c].done
  /\ call' = [call EXCEPT ![c].done = TRUE,
                          ![c].sent = IF Known(DataPlane) THEN entry[DataPlane].conn ELSE entry[k].conn]
  /\ UNCHANGED <<entry, link, out, callback, putting, to, order, overlap, dead>>

\* invocation_result: sent on the connection that this name has now, or
\* ignored when it has none.
InvocationResult(c) ==
  LET k == call[c].key IN
  /\ Mutex
  /\ call[c].peer # None
  /\ ~call[c].done
  /\ call' = [call EXCEPT ![c].done = TRUE,
                          ![c].sent = CASE k # ControlPlane -> entry[k].conn
                                        [] entry[k].status = "CONNECTED" -> ControlLink
                                        [] OTHER -> None]
  /\ UNCHANGED <<entry, link, out, callback, putting, to, order, overlap, dead>>

Put == PutSend \/ PutStore
Connected == (\E l \in Links : ConnectedStatus(l)) \/ ConnectedConn \/ ConnectedFlush \/ ConnectedClear

Next ==
  \/ \E q \in Peers : HandleAppUpdate(q) \/ \E m \in Msgs : PutUnknown(q, m) \/ PutTest(q, m)
  \/ \E l \in Incoming, p \in Peers \cup Clients : HandleConnection(l, p)
  \/ \E l \in Links : Confirm(l) \/ ConnectFails(l) \/ Disconnected(l)
  \/ Connected
  \/ ControlPlaneGone
  \/ Put
  \/ \E c \in Calls : \/ \E p \in Peers \cup Clients \cup {ControlPlane}, k \in Keys : RequestInvocation(c, p, k)
                      \/ InvocationResult(c)

Spec == Init /\ [][Next]_vars

\* The controller finishes what it began; TCP connects or fails; callbacks run.
Fairness ==
  /\ WF_vars(Put)
  /\ WF_vars(Connected)
  /\ \A c \in Calls : WF_vars(InvocationResult(c))

FairSpec == Spec /\ Fairness

-----------------------------------------------------------------------------
(* Properties.                                                              *)

\* The attempt to connect that the messages for q wait for.
Underway(q) == \E l \in Links : /\ link[l].peer = q
                                /\ link[l].state = "connecting" \/ callback.link = l

\* It failed, and nobody was told.
Failed(q) == \E l \in Links : link[l].peer = q /\ link[l].dir = "out" /\ link[l].state = "closed"

Sent(m) == {l \in Links : m \in ToSet(out[l])}

\* A message that put_message accepted has been sent, once and to the right
\* process, or it is kept and its connection is on the way.  What can go wrong
\* is exactly: its call overlapped the connection callback, which does not take
\* the lock; its connection had ended; the attempt to connect failed.
KeptOrSent ==
  /\ TypeOK
  /\ \A m \in ToSet(order) \ overlap :
       putting = None \/ putting.msg # m =>
         \/ \E l \in Links : /\ Sent(m) = {l}
                             /\ link[l].peer = to[m]
                             /\ \A i, j \in DOMAIN out[l] : out[l][i] = m /\ out[l][j] = m => i = j
         \/ m \in ToSet(entry[to[m]].pend) /\ (Underway(to[m]) \/ Failed(to[m]))
         \/ m \in dead

\* Messages to a process that travel on the same connection travel in the order
\* of the calls, unless a call overlapped the connection callback.
OrderKept ==
  \A i, j \in DOMAIN order :
    i < j /\ to[order[i]] = to[order[j]] /\ {order[i], order[j]} \cap overlap = {} =>
      \A l \in Sent(order[i]) \cap Sent(order[j]) :
        \A a, b \in DOMAIN out[l] : out[l][a] = order[i] /\ out[l][b] = order[j] => a < b

\* The result of an invocation goes to the one who requested it, unless another
\* one registered under the same name: clients all register as DATAPLANE, and
\* all connections the process opened are registered as CORRECT.
ResultToCaller ==
  \A c \in Calls :
    call[c].sent \in Links =>
      \/ link[call[c].sent].peer = call[c].peer
      \/ \E l \in Links : link[l].ctx = call[c].key /\ link[l].peer # call[c].peer

\* Every message that was accepted is sent in the end, or one of the three
\* things that can go wrong has happened.
EveryMessageSent ==
  \A m \in Msgs : (m \in ToSet(order)) ~> (Sent(m) # {} \/ m \in overlap \cup dead \/ Failed(to[m]))
=============================================================================
