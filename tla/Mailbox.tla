------------------------------ MODULE Mailbox ------------------------------
(***************************************************************************)
(* The mailbox of a process (messages.cpp) as the process controller uses  *)
(* it: MessageStore, which keeps messages nobody asked for yet and the     *)
(* process state, and PendingMessages, which keeps the workers that asked  *)
(* for something that is not there yet.  The controller is one thread, so  *)
(* each of its handlers is one step.                                       *)
(*                                                                         *)
(* A worker is a function process that blocks in get or invoke until the   *)
(* controller answers, so it waits for one thing at a time.  The names of  *)
(* messages, of state entries and of invocations are strings chosen by     *)
(* functions; all three share one table, and nothing keeps them apart.     *)
(***************************************************************************)
EXTENDS Naturals, Sequences, Controller

CONSTANTS MsgNames,   \* names functions put and get messages under
          StateNames, \* names functions keep state under
          InvIds,     \* identifiers of invocations made by functions
          Sources,    \* process identifiers, this process among them
          Payloads,   \* identities of the messages that are ever put
          AnyProcess, \* ANY_PROCESS
          Local       \* the empty source of state entries

Names == MsgNames \cup StateNames \cup InvIds

ASSUME MailboxAssumption ==
  /\ AnyProcess \notin Sources
  /\ Local \notin Sources \cup {AnyProcess}
  /\ None \notin Payloads \cup Workers \cup Sources \cup {AnyProcess, Local}

VARIABLES
  msgs,      \* MessageStore::_msgs: key -> [source, data], or nothing
  stateKeys, \* MessageStore::_state_keys without the timestamps
  waiting,   \* PendingMessages::_msgs
  put,       \* history: payloads that were put
  dropped,   \* history: payloads that put refused, with an error in the log
  delivered, \* history: payloads that were sent to a worker, and to which
  fault      \* an iterator was dereferenced that points nowhere

mailboxVars == <<msgs, stateKeys, waiting, put, dropped, delivered, fault>>

\* An entry of the table that is not there, and the two kinds that are.
Empty == [source |-> None, data |-> None]
Stored == [source : Sources, data : Payloads]
StateEntry == [source |-> Local, data |-> None]

\* GET entries name the process the message must come from; INVOCATION entries
\* have an empty source.
Waiter == [key : Names, type : {"GET"}, source : Sources \cup {AnyProcess}, worker : Workers]
          \cup [key : Names, type : {"INVOCATION"}, source : {Local}, worker : Workers]

MailboxTypeOK ==
  /\ msgs \in [Names -> Stored \cup {StateEntry, Empty}]
  /\ stateKeys \in Seq(Names)
  /\ waiting \subseteq Waiter
  /\ put \subseteq Payloads
  /\ dropped \subseteq put
  /\ delivered \subseteq put \X Workers
  /\ fault \in BOOLEAN

MailboxInit ==
  /\ msgs = [k \in Names |-> Empty]
  /\ stateKeys = <<>>
  /\ waiting = {}
  /\ put = {}
  /\ dropped = {}
  /\ delivered = {}
  /\ fault = FALSE

Blocked(w) == \E e \in waiting : e.worker = w

-----------------------------------------------------------------------------
(* Operations of the two tables.                                            *)

\* find_get: the entries a message of this name and source satisfies; the code
\* takes the first in the unspecified order of a hash table.
FindGet(k, src) ==
  {e \in waiting : e.key = k /\ e.type = "GET" /\ e.source \in {AnyProcess, src}}

\* find_invocation: every entry of this key, whatever its type.
FindInvocation(k) == {e \in waiting : e.key = k}

\* Mutated TryGet: a request for any process only looks for that literal source.
TryGetExactSource(k, src) == msgs[k] # Empty /\ src = msgs[k].source

\* try_get: the entry of this name satisfies a request for this source.
TryGet(k, src) == msgs[k] # Empty /\ src \in {AnyProcess, msgs[k].source}

-----------------------------------------------------------------------------
(* Handlers of the controller.                                              *)

\* Mutated PutMessage: one worker is sent the message, and the entries of all
\* that wait for it are erased.
PutMessageForgetsOthers(k, src, m) ==
  /\ m \notin put
  /\ put' = put \cup {m}
  /\ \E e \in FindGet(k, src) :
       /\ waiting' = waiting \ FindGet(k, src)
       /\ delivered' = delivered \cup {<<m, e.worker>>}
  /\ UNCHANGED <<msgs, dropped, stateKeys, fault>>

\* A message from process src (possibly this one): answered to one worker that
\* waits for it, or stored, or dropped when the name is taken.
PutMessage(k, src, m) ==
  /\ m \notin put
  /\ put' = put \cup {m}
  /\ \/ \E e \in FindGet(k, src) :
          /\ waiting' = waiting \ {e}
          /\ delivered' = delivered \cup {<<m, e.worker>>}
          /\ UNCHANGED <<msgs, dropped>>
     \/ /\ FindGet(k, src) = {}
        /\ IF msgs[k] = Empty
           THEN /\ msgs' = [msgs EXCEPT ![k] = [source |-> src, data |-> m]]
                /\ UNCHANGED dropped
           ELSE /\ dropped' = dropped \cup {m}
                /\ UNCHANGED msgs
        /\ UNCHANGED <<waiting, delivered>>
  /\ UNCHANGED <<stateKeys, fault>>

\* Mutated GetMessage: the message is copied and stays in the store.
GetMessageCopies(w, k, src) ==
  /\ ~Blocked(w)
  /\ IF TryGet(k, src)
     THEN delivered' = delivered \cup {<<msgs[k].data, w>>} /\ UNCHANGED waiting
     ELSE /\ waiting' = waiting \cup {[key |-> k, type |-> "GET", source |-> src, worker |-> w]}
          /\ UNCHANGED delivered
  /\ UNCHANGED <<msgs, stateKeys, put, dropped, fault>>

\* A worker asks for a message: answered from the store, which gives it away,
\* or the worker is put on the list.
GetMessage(w, k, src) ==
  /\ ~Blocked(w)
  /\ IF TryGet(k, src)
     THEN /\ msgs' = [msgs EXCEPT ![k] = Empty]
          /\ delivered' = IF msgs[k] = StateEntry THEN delivered
                          ELSE delivered \cup {<<msgs[k].data, w>>}
          /\ UNCHANGED waiting
     ELSE /\ waiting' = waiting \cup {[key |-> k, type |-> "GET", source |-> src, worker |-> w]}
          /\ UNCHANGED <<msgs, delivered>>
  /\ UNCHANGED <<stateKeys, put, dropped, fault>>

\* Mutated WriteState: every write appends the name.
WriteStateAlwaysAppends(k) ==
  /\ msgs' = [msgs EXCEPT ![k] = StateEntry]
  /\ stateKeys' = Append(stateKeys, k)
  /\ UNCHANGED <<waiting, put, dropped, delivered, fault>>

\* A worker writes state: it overwrites whatever the table has under the name.
\* A name that is new to the table is appended to the list of state keys; one
\* that is not is looked up there without a check of the outcome.
WriteState(k) ==
  /\ msgs' = [msgs EXCEPT ![k] = StateEntry]
  /\ IF msgs[k] = Empty
     THEN /\ stateKeys' = Append(stateKeys, k)
          /\ UNCHANGED fault
     ELSE /\ fault' = (\A i \in 1..Len(stateKeys) : stateKeys[i] # k)
          /\ UNCHANGED stateKeys
  /\ UNCHANGED <<waiting, put, dropped, delivered>>

\* A worker invokes a function, here or elsewhere, and waits for its result.
InvokeFunction(w, k) ==
  /\ ~Blocked(w)
  /\ waiting' = waiting \cup {[key |-> k, type |-> "INVOCATION", source |-> Local, worker |-> w]}
  /\ UNCHANGED <<msgs, stateKeys, put, dropped, delivered, fault>>

\* The result of an invocation, from this process or another, goes to
\* everything that is found under its identifier.
InvocationResult(k) ==
  /\ FindInvocation(k) # {}
  /\ waiting' = waiting \ FindInvocation(k)
  /\ UNCHANGED <<msgs, stateKeys, put, dropped, delivered, fault>>

-----------------------------------------------------------------------------
MailboxNext ==
  /\ ~fault
  /\ \/ \E k \in MsgNames, src \in Sources, m \in Payloads : PutMessage(k, src, m)
     \/ \E w \in Workers, k \in MsgNames, src \in Sources \cup {AnyProcess} : GetMessage(w, k, src)
     \/ \E k \in StateNames : WriteState(k)
     \/ \E w \in Workers, k \in InvIds : InvokeFunction(w, k)
     \/ \E k \in InvIds : InvocationResult(k)

MailboxSpec == MailboxInit /\ [][MailboxNext]_mailboxVars

-----------------------------------------------------------------------------
(* Properties.                                                              *)

\* No worker waits for a message that is there: the store and the list of
\* waiting workers never both hold the two halves of a match.
NoMissedMatch ==
  \A e \in waiting :
    e.type = "GET" /\ msgs[e.key] \in Stored => e.source \notin {AnyProcess, msgs[e.key].source}

\* A message that was accepted is in exactly one place: stored under one name,
\* or sent to one worker.
ExactlyOnce ==
  \A m \in put \ dropped :
    \/ /\ \E k \in Names : msgs[k].data = m /\ \A j \in Names : msgs[j].data = m => j = k
       /\ \A w \in Workers : <<m, w>> \notin delivered
    \/ /\ \E w \in Workers : <<m, w>> \in delivered /\ \A v \in Workers : <<m, v>> \in delivered => v = w
       /\ \A k \in Names : msgs[k].data # m

\* state_keys lists exactly the names under which state is kept, each once.
StateKeysExact ==
  /\ \A i, j \in 1..Len(stateKeys) : stateKeys[i] = stateKeys[j] => i = j
  /\ \A k \in Names : msgs[k] = StateEntry <=> \E i \in 1..Len(stateKeys) : stateKeys[i] = k

\* MessageStore::state never dereferences the end of the list of state keys.
NoFault == ~fault

\* "Get request will be fulfilled once we process a corresponding PUT request":
\* a worker that waits for a message is released by being sent one.
GetReleasedByPut ==
  [][\A e \in waiting : e.type = "GET" /\ e \notin waiting' =>
       \E m \in put' \ put : <<m, e.worker>> \in delivered']_mailboxVars

-----------------------------------------------------------------------------
(* What the proofs rest on.                                                 *)

\* Functions use different names for messages, state and invocations.
DisjointNames == MsgNames \cap StateNames = {} /\ MsgNames \cap InvIds = {}

\* Only what was put is in the store.
StoredWasPut == \A k \in Names : msgs[k] \in Stored => msgs[k].data \in put

\* Holds whatever names functions use.
Safe == MailboxTypeOK /\ StoredWasPut /\ NoMissedMatch

\* Each kind of entry stays under its own kind of name.
Separate ==
  /\ \A k \in Names : msgs[k] \in Stored => k \in MsgNames
  /\ \A k \in Names : msgs[k] = StateEntry => k \in StateNames
  /\ \A e \in waiting : e.type = "GET" => e.key \in MsgNames

\* Holds when the names are disjoint.
Exact == Safe /\ Separate /\ ExactlyOnce /\ StateKeysExact /\ NoFault
=============================================================================
