-------------------------------- MODULE Wire --------------------------------
(***************************************************************************)
(* The messages of the system as bytes: the 70-byte headers that control   *)
(* plane, processes and clients exchange (common/messages.hpp) and the     *)
(* 128-byte headers between a process controller and its workers (ipc/     *)
(* messages.hpp, messages.cpp).  Every field has a place where its setter  *)
(* writes and a place where its getter reads; nothing but arithmetic on    *)
(* offsets keeps fields apart and makes the two places agree.              *)
(*                                                                         *)
(* One message is composed, then forwarded from component to component.    *)
(* A forwarding component builds a new message from views into the one it  *)
(* received; the views are not terminated, and strncpy reads the memory    *)
(* behind a view until a zero byte or the width of the target.             *)
(*                                                                         *)
(* A byte is a pair: the word it belongs to and its position there.        *)
(***************************************************************************)
EXTENDS Integers, SequencesExt

CONSTANTS Words,        \* contents of strings, and numbers components choose
          Numbers,      \* numbers that users choose
          Lengths,      \* lengths of the strings that users choose
          BufferCounts  \* numbers of input buffers of an invocation

ASSUME WireAssumption ==
  /\ Words \subseteq Nat \ {0}
  /\ Numbers \subseteq Int
  /\ Lengths \subseteq Nat
  /\ BufferCounts \subseteq Nat

\* MessageConfig and ipc::Message.
HEADER_OFFSET == 6
NAME_LENGTH == 32
ID_LENGTH == 16
MAX_BUFFERS == 16
CommonSize == 70
IpcSize == 128

-----------------------------------------------------------------------------
(* Fields: where they are, behind the header, and how long they may be.     *)

Str(at, max) == [kind |-> "str", at |-> HEADER_OFFSET + at, max |-> max]
Num(at, width) == [kind |-> "int", at |-> HEADER_OFFSET + at, max |-> width]
Nat32(at) == [kind |-> "nat", at |-> HEADER_OFFSET + at, max |-> 4]
List(at) == [kind |-> "list", at |-> HEADER_OFFSET + at, max |-> MAX_BUFFERS]

\* The header of every message: int16 type, then int32 total_length.
HeaderFields == [type |-> [kind |-> "type", at |-> 0, max |-> 2],
                 total_length |-> [kind |-> "int", at |-> 2, max |-> 4]]

WithHeader(fields) ==
  [f \in DOMAIN HeaderFields \cup DOMAIN fields |->
     IF f \in DOMAIN HeaderFields THEN HeaderFields[f] ELSE fields[f]]

Common(n, put, get) ==
  [type |-> n, size |-> CommonSize, put |-> WithHeader(put), get |-> WithHeader(get)]

Ipc(n, put, get) ==
  [type |-> n, size |-> IpcSize, put |-> WithHeader(put), get |-> WithHeader(get)]

NoFields == <<>>

(* Messages between control plane, processes and clients.                   *)

ProcessConnection ==
  LET fs == [process_name |-> Str(0, NAME_LENGTH)] IN Common(1, fs, fs)

\* The setter takes ID_LENGTH characters, the getter looks for NAME_LENGTH.
SwapRequest == Common(2, [path |-> Str(0, ID_LENGTH)], [path |-> Str(0, NAME_LENGTH)])

SwapConfirmation == LET fs == [swap_size |-> Num(0, 4)] IN Common(3, fs, fs)

\* Mutated InvocationRequest: the place of the identifier forgets the payload size.
InvocationRequestShifted ==
  LET fs == [payload_size |-> Nat32(0), function_name |-> Str(4, NAME_LENGTH),
             invocation_id |-> Str(NAME_LENGTH, ID_LENGTH)]
  IN Common(4, fs, fs)

InvocationRequest ==
  LET fs == [payload_size |-> Nat32(0), function_name |-> Str(4, NAME_LENGTH),
             invocation_id |-> Str(NAME_LENGTH + 4, ID_LENGTH)]
  IN Common(4, fs, fs)

InvocationResult ==
  LET fs == [return_code |-> Num(0, 4), invocation_id |-> Str(4, ID_LENGTH)] IN Common(5, fs, fs)

DataPlaneMetrics ==
  LET fs == [invocations |-> Nat32(0), computation_time |-> Nat32(4),
             last_invocation_timestamp |-> Num(8, 8)]
  IN Common(6, fs, fs)

ProcessClosure == Common(7, NoFields, NoFields)

ApplicationUpdate ==
  LET fs == [process_id |-> Str(0, NAME_LENGTH), ip_address |-> Str(NAME_LENGTH, ID_LENGTH),
             status_change |-> Num(NAME_LENGTH + ID_LENGTH, 4),
             port |-> Num(NAME_LENGTH + ID_LENGTH + 4, 4)]
  IN Common(8, fs, fs)

\* Mutated PutMessage: room for a length before each name.
PutMessageTooLong ==
  LET fs == [name |-> Str(4, NAME_LENGTH), process_id |-> Str(NAME_LENGTH + 4, NAME_LENGTH)]
  IN Common(9, fs, fs)

PutMessage ==
  LET fs == [name |-> Str(0, NAME_LENGTH), process_id |-> Str(NAME_LENGTH, NAME_LENGTH)]
  IN Common(9, fs, fs)

(* Messages between controller and workers: what the setters write, what    *)
(* the parsed views read.                                                   *)

GenericRequestSetters ==
  [data_len |-> Num(0, 4), process_id |-> Str(4, NAME_LENGTH),
   name |-> Str(4 + NAME_LENGTH, NAME_LENGTH), state |-> Num(NAME_LENGTH * 2 + 4, 1)]

GenericRequestParsed ==
  [data_len |-> Num(0, 4), process_id |-> Str(4, NAME_LENGTH),
   name |-> Str(NAME_LENGTH + 4, NAME_LENGTH), state |-> Num(NAME_LENGTH * 2 + 4, 1)]

GetRequest == Ipc(1, GenericRequestSetters, GenericRequestParsed)
PutRequest == Ipc(2, GenericRequestSetters, GenericRequestParsed)

IpcInvocationRequestSetters ==
  [invocation_id |-> Str(0, ID_LENGTH), function_name |-> Str(ID_LENGTH, NAME_LENGTH),
   process_id |-> Str(ID_LENGTH + NAME_LENGTH, ID_LENGTH),
   buffers |-> List(NAME_LENGTH + 2 * ID_LENGTH)]

IpcInvocationRequestParsed ==
  [invocation_id |-> Str(0, ID_LENGTH), function_name |-> Str(ID_LENGTH, NAME_LENGTH),
   process_id |-> Str(ID_LENGTH + NAME_LENGTH, ID_LENGTH),
   buffers |-> List(2 * ID_LENGTH + NAME_LENGTH)]

IpcInvocationRequest == Ipc(3, IpcInvocationRequestSetters, IpcInvocationRequestParsed)

\* Mutated IpcInvocationResultSetters: one character is left for a terminator.
IpcInvocationResultSettersTerminated ==
  [invocation_id |-> Str(0, ID_LENGTH - 1), buffer_length |-> Num(ID_LENGTH, 4),
   return_code |-> Num(ID_LENGTH + 4, 4)]

IpcInvocationResultSetters ==
  [invocation_id |-> Str(0, ID_LENGTH), buffer_length |-> Num(ID_LENGTH, 4),
   return_code |-> Num(ID_LENGTH + 4, 4)]

IpcInvocationResult == Ipc(4, IpcInvocationResultSetters, IpcInvocationResultSetters)

IpcApplicationUpdateSetters ==
  [process_id |-> Str(0, NAME_LENGTH), status_change |-> Num(NAME_LENGTH, 4)]

IpcApplicationUpdate == Ipc(5, IpcApplicationUpdateSetters, IpcApplicationUpdateSetters)

StateKeysRequest == Ipc(6, NoFields, NoFields)

StateKeysResult == LET fs == [buffer_length |-> Num(0, 4)] IN Ipc(7, fs, fs)

Layouts ==
  [ProcessConnection |-> ProcessConnection, SwapRequest |-> SwapRequest,
   SwapConfirmation |-> SwapConfirmation, InvocationRequest |-> InvocationRequest,
   InvocationResult |-> InvocationResult, DataPlaneMetrics |-> DataPlaneMetrics,
   ProcessClosure |-> ProcessClosure, ApplicationUpdate |-> ApplicationUpdate,
   PutMessage |-> PutMessage, GetRequest |-> GetRequest, PutRequest |-> PutRequest,
   IpcInvocationRequest |-> IpcInvocationRequest, IpcInvocationResult |-> IpcInvocationResult,
   IpcApplicationUpdate |-> IpcApplicationUpdate, StateKeysRequest |-> StateKeysRequest,
   StateKeysResult |-> StateKeysResult]

-----------------------------------------------------------------------------
(* Bytes and memory.                                                        *)

Zero == <<0, 0>>
Number(w, n) == [i \in 1..n |-> IF w = 0 THEN Zero ELSE <<w, i>>]
Text(w, n) == [i \in 1..n |-> <<w, i>>]
Buffers(n, w) == [i \in 1..4 * (n + 1) |->
                    IF i <= 4 THEN Number(n, 4)[i] ELSE <<w, ((i - 1) % 4) + 1>>]

\* A byte of a message, of the memory behind a view; a string ends with zero.
ByteAt(m, i) == IF i \in DOMAIN m THEN m[i] ELSE Zero

\* strnlen
StrLen(m, at, max) ==
  LET ends == {k \in 0..(max - 1) : ByteAt(m, at + k) = Zero}
  IN IF ends = {} THEN max ELSE Min(ends)

\* What strncpy writes: the memory at from up to a zero byte, then zeros.
Strncpy(m, from, max) ==
  [i \in 1..max |-> IF i <= StrLen(m, from, max) THEN m[from + i - 1] ELSE Zero]

Write(m, at, bytes) ==
  [i \in DOMAIN m |-> IF i \in at..(at + Len(bytes) - 1) THEN bytes[i - at + 1] ELSE m[i]]

Read(m, s) ==
  LET n == CASE s.kind = "str" -> StrLen(m, s.at, s.max)
             [] s.kind = "list" -> 4 * (ByteAt(m, s.at)[1] + 1)
             [] OTHER -> s.max
  IN [i \in 1..n |-> ByteAt(m, s.at + i - 1)]

\* What a field of a new message holds.
Default(l, f) ==
  CASE l.put[f].kind = "str" -> <<>>
    [] l.put[f].kind = "list" -> Number(0, 4)
    [] f = "type" -> Number(l.type, 2)
    [] OTHER -> Number(0, l.put[f].max)

\* A new message object: zeros and its type.
New(l) == Write([i \in 0..(l.size - 1) |-> Zero], 0, Number(l.type, 2))

\* The layouts of one size whose number the header holds.
Numbered(m, size) ==
  {t \in DOMAIN Layouts : /\ Layouts[t].size = size /\ DOMAIN m = 0..(size - 1)
                          /\ Read(m, HeaderFields.type) = Number(Layouts[t].type, 2)}

\* parse_message of the messages between processes, and of those to workers.
ParseMessage(m) == Numbered(m, CommonSize)
IpcParseMessage(m) == Numbered(m, IpcSize)

-----------------------------------------------------------------------------
VARIABLES
  layout,    \* the kind of the message in flight
  mem,       \* its bytes
  meaning,   \* history: what each field was set to by whoever chose it
  forwarded, \* the message was built, or was to be built, from another one
  refused,   \* the setter that threw, or nothing
  overrun    \* a setter wrote behind the end of the buffer

wireVars == <<layout, mem, meaning, forwarded, refused, overrun>>

WireTypeOK ==
  /\ layout \in DOMAIN Layouts
  /\ DOMAIN mem = 0..(Layouts[layout].size - 1)
  /\ DOMAIN meaning = DOMAIN Layouts[layout].put
  /\ forwarded \in BOOLEAN
  /\ refused \in {<<>>} \cup UNION {{<<t, f>> : f \in DOMAIN Layouts[t].put} : t \in DOMAIN Layouts}
  /\ overrun \in BOOLEAN

WireInit ==
  /\ layout \in DOMAIN Layouts
  /\ mem = New(Layouts[layout])
  /\ meaning = [f \in DOMAIN Layouts[layout].put |-> Default(Layouts[layout], f)]
  /\ forwarded = FALSE
  /\ refused = <<>>
  /\ overrun = FALSE

\* A setter that does not throw.
Store(s, f, bytes, value) ==
  /\ mem' = Write(mem, s.at, bytes)
  /\ overrun' = (overrun \/ s.at + Len(bytes) > Layouts[layout].size)
  /\ meaning' = [meaning EXCEPT ![f] = value]
  /\ UNCHANGED <<layout, forwarded, refused>>

\* A setter that throws: the message is never sent.
Refuse(t, f, forwarding) ==
  /\ refused' = <<t, f>>
  /\ forwarded' = forwarding
  /\ UNCHANGED <<layout, mem, meaning, overrun>>

Composing == ~forwarded /\ refused = <<>>

SetString(f, w, n) ==
  LET s == Layouts[layout].put[f] IN
  /\ Composing
  /\ s.kind = "str"
  /\ IF n > s.max THEN Refuse(layout, f, FALSE)
     ELSE Store(s, f, Strncpy([i \in 0..(n - 1) |-> <<w, i + 1>>], 0, s.max), Text(w, n))

\* Numbers are set by casts; some setters refuse negative ones.
SetNumber(f, w) ==
  LET s == Layouts[layout].put[f] IN
  /\ Composing
  /\ s.kind \in {"int", "nat"}
  /\ IF s.kind = "nat" /\ w < 0 THEN Refuse(layout, f, FALSE)
     ELSE Store(s, f, Number(w, s.max), Number(w, s.max))

\* buffers: the number of inputs, then the length of each.  The controller sets
\* them last, for as many messages as it has received: requests of one identifier
\* are merged while no worker is idle.  Nobody catches what the setter throws.
SetBuffers(f, n, w) ==
  LET s == Layouts[layout].put[f] IN
  /\ refused = <<>>
  /\ s.kind = "list"
  /\ IF n > s.max THEN Refuse(layout, f, forwarded) ELSE Store(s, f, Buffers(n, w), Buffers(n, w))

-----------------------------------------------------------------------------
(* Forwarding: which fields a component copies into the message it builds,  *)
(* always under the same name, and all that it sets, in this order.         *)

Route(from, to, carry, set) == [from |-> from, to |-> to, carry |-> carry, set |-> set]

\* A function invokes another process: controller to TCP server.
RemoteInvocation ==
  Route("IpcInvocationRequest", "InvocationRequest", {"invocation_id", "function_name"},
        <<"invocation_id", "function_name", "payload_size", "total_length">>)

\* A request from outside, and one of a function to its own process.
SubmitExternal ==
  Route("InvocationRequest", "IpcInvocationRequest", {"function_name", "invocation_id"},
        <<"function_name", "invocation_id", "buffers", "total_length">>)

SubmitInternal ==
  Route("IpcInvocationRequest", "IpcInvocationRequest", {"function_name", "invocation_id"},
        <<"function_name", "invocation_id", "buffers", "total_length">>)

Finish ==
  Route("IpcInvocationRequest", "IpcInvocationResult", {"invocation_id"},
        <<"return_code", "buffer_length", "invocation_id", "total_length">>)

LocalResult ==
  Route("IpcInvocationResult", "IpcInvocationResult", {"invocation_id", "return_code"},
        <<"invocation_id", "return_code", "buffer_length", "total_length">>)

RemoteResult ==
  Route("IpcInvocationResult", "InvocationResult", {"invocation_id", "return_code"},
        <<"invocation_id", "return_code", "total_length">>)

ExternalResult ==
  Route("InvocationResult", "IpcInvocationResult", {"invocation_id", "return_code"},
        <<"invocation_id", "return_code", "buffer_length", "total_length">>)

\* The receiver of a message learns who sent it, not to whom.
RemotePut == Route("PutRequest", "PutMessage", {"name"}, <<"name", "process_id", "total_length">>)

ExternalPut ==
  Route("PutMessage", "GetRequest", {"process_id", "name"},
        <<"process_id", "name", "total_length">>)

LocalPut == Route("PutRequest", "GetRequest", {"name"}, <<"process_id", "name", "total_length">>)

GetReply ==
  Route("GetRequest", "GetRequest", {"process_id", "name"},
        <<"process_id", "name", "total_length">>)

StateReply ==
  Route("GetRequest", "GetRequest", {"name", "state"}, <<"name", "state", "total_length">>)

Membership ==
  Route("ApplicationUpdate", "IpcApplicationUpdate", {"process_id", "status_change"},
        <<"process_id", "status_change", "total_length">>)

\* A function invokes, or sends to, a process it was told about.
InvokeMember ==
  Route("IpcApplicationUpdate", "IpcInvocationRequest", {"process_id"},
        <<"process_id", "function_name", "invocation_id", "buffers", "total_length">>)

PutToMember ==
  Route("IpcApplicationUpdate", "PutRequest", {"process_id"},
        <<"process_id", "name", "data_len", "total_length">>)

Routes == {RemoteInvocation, SubmitExternal, SubmitInternal, Finish, LocalResult, RemoteResult,
           ExternalResult, RemotePut, ExternalPut, LocalPut, GetReply, StateReply, Membership,
           InvokeMember, PutToMember}

\* The bytes a setter of the target writes when it is given a view of the field.
Copied(r, f) ==
  LET to == Layouts[r.to].put[f]
      from == Layouts[r.from].get[f]
  IN IF to.kind = "str" THEN Strncpy(mem, from.at, to.max) ELSE Read(mem, from)

\* A value the forwarding component chooses: its own name, a size, a code.
Chosen(r, f, w, n) ==
  LET s == Layouts[r.to].put[f] IN
  CASE s.kind = "str" -> Text(w, IF n > s.max THEN s.max ELSE n)
    [] s.kind = "list" -> Buffers(1, w)
    [] OTHER -> Number(w, s.max)

Padded(s, v) ==
  IF s.kind = "str" THEN Strncpy([i \in 0..(Len(v) - 1) |-> v[i + 1]], 0, s.max) ELSE v

\* The length checks of the setters; total_length is set by whoever sends.
TooLong(r) ==
  {f \in r.carry : /\ Layouts[r.to].put[f].kind = "str"
                   /\ Len(Read(mem, Layouts[r.from].get[f])) > Layouts[r.to].put[f].max}

\* How many bytes a setter writes; a component sets the length of one buffer.
Width(s) == IF s.kind = "list" THEN 4 * (1 + 1) ELSE s.max
Place(s) == s.at..(s.at + Width(s) - 1)

\* A message after setters have written bytes[f] for each of the fields fs in
\* turn: the last one that writes a byte wins.
Filled(l, fs, bytes) ==
  [i \in 0..(l.size - 1) |->
     LET setters == {k \in 1..Len(fs) : i \in Place(l.put[fs[k]])}
         f == fs[Max(setters)]
     IN IF setters = {} THEN New(l)[i] ELSE bytes[f][i - l.put[f].at + 1]]

Forward(r, w, n) ==
  LET to == Layouts[r.to]
      bytes == [f \in ToSet(r.set) |-> IF f \in r.carry THEN Copied(r, f)
                                       ELSE Padded(to.put[f], Chosen(r, f, w, n))]
  IN /\ refused = <<>>
     /\ r.from = layout
     /\ IF TooLong(r) # {} THEN \E f \in TooLong(r) : Refuse(r.to, f, TRUE)
        ELSE /\ layout' = r.to
             /\ mem' = Filled(to, r.set, bytes)
             /\ meaning' = [f \in DOMAIN to.put |->
                              CASE f \in r.carry -> meaning[f]
                                [] f \in ToSet(r.set) \ r.carry -> Chosen(r, f, w, n)
                                [] OTHER -> Default(to, f)]
             /\ forwarded' = TRUE
             /\ overrun' = (overrun \/ \E f \in ToSet(r.set) :
                                        to.put[f].at + Width(to.put[f]) > to.size)
             /\ UNCHANGED refused

WireNext ==
  \/ \E f \in DOMAIN meaning, w \in Words, n \in Lengths : SetString(f, w, n)
  \/ \E f \in DOMAIN meaning, w \in Numbers : SetNumber(f, w)
  \/ \E f \in DOMAIN meaning, n \in BufferCounts, w \in Words : SetBuffers(f, n, w)
  \/ \E r \in Routes, w \in Words, n \in Lengths : Forward(r, w, n)

WireSpec == WireInit /\ [][WireNext]_wireVars

-----------------------------------------------------------------------------
(* Properties.                                                              *)

\* However often fields are set, in whatever order, and however often the
\* message is taken apart and built again on its way, the receiver reads in
\* every field exactly what the component that chose the value had set, and
\* parses the message as the kind it is, in an object of its size.
FieldsIntact ==
  /\ WireTypeOK
  /\ ~overrun =>
       /\ layout \in ParseMessage(mem) \cup IpcParseMessage(mem)
       /\ \A f \in DOMAIN meaning : Read(mem, Layouts[layout].get[f]) = meaning[f]

\* Setters stay inside the buffer, up to 13 input buffers of an invocation:
\* MAX_BUFFERS is 16, but 6 + 68 + 4 * 14 bytes do not fit into 128.
OverrunOnlyByBuffers ==
  [][overrun' # overrun =>
       /\ layout = "IpcInvocationRequest"
       /\ Len(meaning'["buffers"]) > 4 * (1 + 13)]_wireVars

\* No component on the way refuses a value that the first one accepted, except
\* that a function cannot invoke a process whose name is longer than ID_LENGTH
\* although such a process can register and be announced to it, and that the
\* controller cannot hand on an invocation of more than MAX_BUFFERS requests of
\* one identifier, each of which it has accepted (workers.cpp:283,
\* messages.hpp:208).
RefusedOnlyAtOrigin ==
  forwarded => refused \in {<<>>, <<"IpcInvocationRequest", "process_id">>,
                            <<"IpcInvocationRequest", "buffers">>}
=============================================================================
