------------------------------ MODULE Framing ------------------------------
(***************************************************************************)
(* How the two TCP servers cut the byte stream of a connection into        *)
(* messages: TCPServer::_handle_message of the process (remote.cpp) and    *)
(* TCPServer::handle_message of the control plane (tcpserver.cpp).  TCP    *)
(* keeps the order of bytes and nothing else: the callback runs whenever   *)
(* some bytes have come, with any part of any number of messages.          *)
(*                                                                         *)
(* The state between callbacks is kept in an object that is attached to    *)
(* the connection when it registers.  A process attaches one object, the   *)
(* one named CORRECT, to all connections it opened itself (shared).        *)
(*                                                                         *)
(* Bytes come in units: a header is Header units, a payload Size[m] units. *)
(* The recursion of the handler is a step per call; nothing else touches   *)
(* the buffers of a loop while one of its callbacks runs.                  *)
(***************************************************************************)
EXTENDS Naturals, SequencesExt

CONSTANTS Conns,    \* connections to one server
          Msgs,     \* messages peers send
          Size,     \* length of the payload of each
          Register, \* the message by which a connection is registered
          None

Header == 2

ASSUME FramingAssumption ==
  /\ Size \in [Msgs -> Nat]
  /\ Register \notin Msgs
  /\ None \notin Conns \cup Msgs

VARIABLES
  side,       \* whose server: "process" or "controlplane"
  shared,     \* all connections use one object
  sent,       \* messages sent on a connection once it registered
  unknown,    \* messages sent by a peer that had not registered
  asked,      \* the peer has sent its registration
  wire,       \* units on their way
  buf,        \* MsgBuffer of the connection
  running,    \* the connection whose callback runs
  registered, \* getContext(): the connection has an object
  toRead,     \* bytes_to_read of an object
  curMsg,     \* cur_msg of an object
  got,        \* messages given to the controller, with the payload they had
  resumed,    \* history: the last message was completed by a later callback
  fault       \* something that is not a header was parsed as one

vars == <<side, shared, sent, unknown, asked, wire, buf, running, registered, toRead, curMsg, got, resumed, fault>>

Payload(m) == IF m = Register THEN 0 ELSE Size[m]
Units(m) == [i \in 1..(Header + Payload(m)) |-> <<m, i>>]
Own(m) == SubSeq(Units(m), Header + 1, Header + Payload(m))

Object(c) == IF shared THEN CHOOSE d \in Conns : TRUE ELSE c

\* What is in buffers: a unit of a message, by its position in it.
Unit == (Msgs \cup {Register}) \X Nat

\* A connection with an object of its own is not given more than was sent on it.
TypeOK ==
  /\ side \in {"process", "controlplane"}
  /\ shared \in BOOLEAN
  /\ sent \in [Conns -> Seq(Msgs)]
  /\ unknown \subseteq Msgs
  /\ asked \in [Conns -> BOOLEAN]
  /\ wire \in [Conns -> Seq(Unit)]
  /\ buf \in [Conns -> Seq(Unit)]
  /\ running \in Conns \cup {None}
  /\ registered \in [Conns -> BOOLEAN]
  /\ toRead \in [Conns -> Nat]
  /\ curMsg \in [Conns -> Msgs \cup {None}]
  /\ got \in [Conns -> Seq([msg : Msgs \cup {None}, payload : Seq(Unit)])]
  /\ resumed \in [Conns -> BOOLEAN]
  /\ fault \in BOOLEAN
  /\ \A c \in Conns : ~shared => Len(got[c]) <= Len(sent[c])

Init ==
  /\ side \in {"process", "controlplane"}
  /\ shared \in (IF side = "process" THEN BOOLEAN ELSE {FALSE})
  /\ sent = [c \in Conns |-> <<>>]
  /\ unknown = {}
  /\ asked = [c \in Conns |-> FALSE]
  /\ wire = [c \in Conns |-> <<>>]
  /\ buf = [c \in Conns |-> <<>>]
  /\ running = None
  /\ registered = [c \in Conns |-> FALSE]
  /\ toRead = [c \in Conns |-> 0]
  /\ curMsg = [c \in Conns |-> None]
  /\ got = [c \in Conns |-> <<>>]
  /\ resumed = [c \in Conns |-> FALSE]
  /\ fault = FALSE

server == <<running, registered, toRead, curMsg, got, resumed, fault>>

Used(m) == m \in unknown \/ \E c \in Conns : m \in ToSet(sent[c])

-----------------------------------------------------------------------------
(* Peers and network.                                                       *)

SendRegister(c) ==
  /\ ~asked[c]
  /\ asked' = [asked EXCEPT ![c] = TRUE]
  /\ wire' = [wire EXCEPT ![c] = @ \o Units(Register)]
  /\ UNCHANGED <<side, shared, sent, unknown, buf, server>>

Send(c, m) ==
  /\ asked[c]
  /\ ~Used(m)
  /\ sent' = [sent EXCEPT ![c] = Append(@, m)]
  /\ wire' = [wire EXCEPT ![c] = @ \o Units(m)]
  /\ UNCHANGED <<side, shared, unknown, asked, buf, server>>

\* A peer that does not say who it is: its message is read and ignored.
SendUnknown(c, m) ==
  /\ ~asked[c]
  /\ wire[c] = <<>> /\ buf[c] = <<>>
  /\ Size[m] = 0
  /\ ~Used(m)
  /\ unknown' = unknown \cup {m}
  /\ wire' = [wire EXCEPT ![c] = Units(m)]
  /\ UNCHANGED <<side, shared, sent, asked, buf, server>>

\* Some bytes arrive; the event loop calls the message callback.
Arrive(c, k) ==
  /\ running = None
  /\ ~fault
  /\ k <= Len(wire[c])
  /\ wire' = [wire EXCEPT ![c] = SubSeq(@, k + 1, Len(@))]
  /\ buf' = [buf EXCEPT ![c] = @ \o SubSeq(wire[c], 1, k)]
  /\ running' = c
  /\ UNCHANGED <<side, shared, sent, unknown, asked, registered, toRead, curMsg, got, resumed, fault>>

-----------------------------------------------------------------------------
(* One call of the handler.                                                 *)

Drop(c, n) == SubSeq(buf[c], n + 1, Len(buf[c]))

\* The handler calls itself when it consumed a message and bytes are left.
CallAgain(c, consumed) == running' = IF consumed /\ buf'[c] # <<>> THEN c ELSE None

Return ==
  /\ running' = None
  /\ UNCHANGED <<buf, registered, toRead, curMsg, got, resumed, fault>>

\* Only a registration is accepted from a connection that has no object.
HandleUnregistered(c) ==
  /\ running = c
  /\ ~registered[c]
  /\ IF Len(buf[c]) < Header THEN Return
     ELSE /\ registered' = [registered EXCEPT ![c] = (buf[c][1][1] = Register)]
          /\ buf' = [buf EXCEPT ![c] = Drop(c, Header)]
          /\ CallAgain(c, TRUE)
          /\ UNCHANGED <<toRead, curMsg, got, resumed, fault>>
  /\ UNCHANGED <<side, shared, sent, unknown, asked, wire>>

Deliver(c, m, payload) ==
  /\ got' = [got EXCEPT ![c] = Append(@, [msg |-> m, payload |-> payload])]
  /\ toRead' = [toRead EXCEPT ![Object(c)] = 0]

\* Mutated HandlePayload: nobody looks at the rest, whichever the server.
HandlePayloadDropsFlag(c) ==
  LET n == toRead[Object(c)] IN
  /\ running = c
  /\ registered[c]
  /\ n > 0
  /\ IF Len(buf[c]) < n THEN Return
     ELSE /\ Deliver(c, curMsg[Object(c)], SubSeq(buf[c], 1, n))
          /\ buf' = [buf EXCEPT ![c] = Drop(c, n)]
          /\ resumed' = [resumed EXCEPT ![c] = TRUE]
          /\ CallAgain(c, FALSE)
          /\ UNCHANGED <<registered, curMsg, fault>>
  /\ UNCHANGED <<side, shared, sent, unknown, asked, wire>>

\* The payload of a message whose header came earlier.  The process does not
\* keep what the visitor returns: consumed stays false, and the bytes behind
\* the payload are left until more arrive.
HandlePayload(c) ==
  LET n == toRead[Object(c)] IN
  /\ running = c
  /\ registered[c]
  /\ n > 0
  /\ IF Len(buf[c]) < n THEN Return
     ELSE /\ Deliver(c, curMsg[Object(c)], SubSeq(buf[c], 1, n))
          /\ buf' = [buf EXCEPT ![c] = Drop(c, n)]
          /\ resumed' = [resumed EXCEPT ![c] = TRUE]
          /\ CallAgain(c, side = "controlplane")
          /\ UNCHANGED <<registered, curMsg, fault>>
  /\ UNCHANGED <<side, shared, sent, unknown, asked, wire>>

\* Mutated HandleHeader: a message without its whole payload is handed on with
\* what there is.
HandleHeaderImpatient(c) ==
  LET m == buf[c][1][1] IN
  /\ running = c
  /\ registered[c]
  /\ toRead[Object(c)] = 0
  /\ IF Len(buf[c]) < Header THEN Return
     ELSE IF SubSeq(buf[c], 1, Header) # SubSeq(Units(m), 1, Header)
     THEN /\ fault' = TRUE
          /\ running' = None
          /\ UNCHANGED <<buf, registered, toRead, curMsg, got, resumed>>
     ELSE /\ curMsg' = [curMsg EXCEPT ![Object(c)] = m]
          /\ Deliver(c, m, SubSeq(buf[c], Header + 1, Len(buf[c])))
          /\ buf' = [buf EXCEPT ![c] = Drop(c, Header + Payload(m))]
          /\ resumed' = [resumed EXCEPT ![c] = FALSE]
          /\ CallAgain(c, TRUE)
          /\ UNCHANGED <<registered, fault>>
  /\ UNCHANGED <<side, shared, sent, unknown, asked, wire>>

\* The header of a message, and its payload if that is there already.  What
\* is not a header cannot be parsed.
HandleHeader(c) ==
  LET m == buf[c][1][1] IN
  /\ running = c
  /\ registered[c]
  /\ toRead[Object(c)] = 0
  /\ IF Len(buf[c]) < Header THEN Return
     ELSE IF SubSeq(buf[c], 1, Header) # SubSeq(Units(m), 1, Header)
     THEN /\ fault' = TRUE
          /\ running' = None
          /\ UNCHANGED <<buf, registered, toRead, curMsg, got, resumed>>
     ELSE /\ curMsg' = [curMsg EXCEPT ![Object(c)] = m]
          /\ IF Len(buf[c]) >= Header + Payload(m)
             THEN /\ Deliver(c, m, SubSeq(buf[c], Header + 1, Header + Payload(m)))
                  /\ buf' = [buf EXCEPT ![c] = Drop(c, Header + Payload(m))]
                  /\ resumed' = [resumed EXCEPT ![c] = FALSE]
                  /\ CallAgain(c, TRUE)
             ELSE /\ toRead' = [toRead EXCEPT ![Object(c)] = Payload(m)]
                  /\ buf' = [buf EXCEPT ![c] = Drop(c, Header)]
                  /\ CallAgain(c, FALSE)
                  /\ UNCHANGED <<got, resumed>>
          /\ UNCHANGED <<registered, fault>>
  /\ UNCHANGED <<side, shared, sent, unknown, asked, wire>>

HandleMessage(c) == HandleUnregistered(c) \/ HandlePayload(c) \/ HandleHeader(c)

Next ==
  \E c \in Conns :
    \/ SendRegister(c)
    \/ \E m \in Msgs : Send(c, m) \/ SendUnknown(c, m)
    \/ \E k \in 1..Len(wire[c]) : Arrive(c, k)
    \/ HandleMessage(c)

Spec == Init /\ [][Next]_vars

\* TCP delivers what was sent, and the event loop runs its callbacks.
Fairness == \A c \in Conns : /\ WF_vars(\E k \in 1..Len(wire[c]) : Arrive(c, k))
                             /\ WF_vars(HandleMessage(c))

FairSpec == Spec /\ Fairness

-----------------------------------------------------------------------------
(* Properties.                                                              *)

\* What the controller was given, as the sender sees it: a message with a
\* payload that is not its own is another message.
Unframed(c) ==
  [i \in DOMAIN got[c] |-> IF got[c][i].payload = Own(got[c][i].msg) THEN got[c][i].msg ELSE None]

Stream ==
  INSTANCE Pipe WITH Pipes <- Conns, Messages <- Msgs,
                     sent <- [c \in Conns |-> IF shared THEN <<>> ELSE sent[c]],
                     got <- [c \in Conns |-> IF shared THEN <<>> ELSE Unframed(c)]

\* However the stream is cut, a connection with an object of its own gives the
\* controller the messages that were sent on it: complete, once, in order.
FramesAreMessages == Stream!Spec

\* A server that waits for bytes has handed on every message that is complete,
\* except that a process leaves what came together with the last piece of an
\* earlier message; only connections that share an object take part of a
\* payload for a header.
NothingLeft ==
  /\ TypeOK
  /\ \A c \in Conns : running = None /\ ~shared /\ registered[c] =>
      \/ Len(buf[c]) < (IF toRead[Object(c)] > 0 THEN toRead[Object(c)] ELSE Header)
      \/ side = "process" /\ resumed[c]
  /\ fault => shared

\* Every message is handed on in the end: always by the control plane; by a
\* process unless the message came with the last piece of an earlier one and
\* nothing follows it.
EverythingHandedOn ==
  \A c \in Conns, m \in Msgs :
    (m \in ToSet(sent[c]) /\ ~shared) ~>
      (m \in ToSet(Unframed(c)) \/ (side = "process" /\ resumed[c]))
=============================================================================
