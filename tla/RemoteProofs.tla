---------------------------- MODULE RemoteProofs ----------------------------
(***************************************************************************)
(* The connections of a process for any number of peers, clients, messages *)
(* and connections: whom results go to, and what becomes of a message that *)
(* put_message accepted.                                                   *)
(*                                                                         *)
(* A message is overlapped when its call overlapped a connection callback, *)
(* which does not take the lock.  For the others the proof follows the     *)
(* list of pending messages: it has none of them left once the process's   *)
(* own connection is the one that senders use.                             *)
(***************************************************************************)
EXTENDS Remote, TLAPS

Statuses == {"none", "DISCONNECTED", "CONNECTING", "CONNECTED"}
Entries == [status : Statuses, conn : Links \cup {None}, pend : Seq(Msgs)]
States == {"free", "connecting", "open", "closed"}
LinkRecords == [peer : Peers \cup Clients \cup {None}, dir : {"in", "out", None},
                state : States, ctx : Keys \cup {None}]
CallRecords == [peer : Peers \cup Clients \cup {ControlPlane, None}, key : Keys \cup {None},
                done : BOOLEAN, sent : Links \cup {ControlLink, None}]

Types ==
  /\ entry \in [Keys -> Entries]
  /\ link \in [Links -> LinkRecords]
  /\ out \in [Links -> Seq(Msgs)]
  /\ callback \in [link : Links \cup {None}, next : {"conn", "flush", "clear", None}]
  /\ putting \in [msg : Msgs, direct : BOOLEAN] \cup {None}
  /\ to \in [Msgs -> Peers \cup {None}]
  /\ order \in Seq(Msgs)
  /\ overlap \subseteq Msgs
  /\ dead \subseteq Msgs
  /\ call \in [Calls -> CallRecords]

\* What TCP connections there are: nobody has a free one, those that others
\* open are never attempts, and one to a process is opened by the process
\* itself, which knows that process.
LinkUse ==
  /\ \A l \in Links : link[l].state = "free" => link[l].peer = None /\ link[l].ctx = None
  /\ \A l \in Incoming : link[l].dir # "out" /\ link[l].state # "connecting"
  /\ \A q \in Peers : /\ link[q].peer \in {q, None}
                      /\ link[q].state # "free" => /\ link[q].peer = q
                                                   /\ link[q].dir = "out"
                                                   /\ Known(q)
  /\ \A l \in Links : /\ link[l].ctx # ControlPlane
                      /\ link[l].ctx \in Peers => link[l].peer = link[l].ctx

\* The callback that runs belongs to a connection to a process, and senders
\* have a connection from its second part on.
CallbackUse ==
  /\ callback.link = None <=> callback.next = None
  /\ callback.link # None => /\ callback.link \in Peers
                             /\ link[callback.link].state # "free"
  /\ callback.next \in {"flush", "clear"} => entry[callback.link].conn # None

\* Whose connection an entry holds.
EntryUse ==
  /\ \A k \in Keys : entry[k].status = "none" => entry[k].conn = None
  /\ entry[ControlPlane].conn = None
  /\ \A q \in Peers : entry[q].conn # None => link[entry[q].conn].peer = q
  /\ \A k \in {Correct, DataPlane} : entry[k].conn # None => link[entry[k].conn].ctx = k

\* What it means that a known process has no connection yet.
NoConnection ==
  \A q \in Peers : entry[q].conn = None =>
    /\ link[q].ctx = None
    /\ link[q].state = "open" => callback.link = q
    /\ Known(q) => \/ entry[q].status = "DISCONNECTED"
                   \/ link[q].state \in {"connecting", "closed"}
                   \/ callback.link = q

Connections == LinkUse /\ CallbackUse /\ EntryUse /\ NoConnection

\* Messages are numbered in the order of the calls; what is kept or sent was
\* accepted, and is kept or sent for the right process.
Numbered ==
  /\ \A m \in Msgs : to[m] # None => \A i \in 1..(m - 1) : to[i] # None
  /\ \A m \in ToSet(order) : to[m] # None
  /\ \A i, j \in DOMAIN order : i < j => order[i] < order[j]
  /\ \A k \in Keys : \A m \in ToSet(entry[k].pend) : m \in ToSet(order) /\ to[m] = k
  /\ \A l \in Links : \A m \in ToSet(out[l]) : m \in ToSet(order) /\ link[l].peer = to[m]
  /\ overlap \cup dead \subseteq ToSet(order)

\* put_message between its two steps: its message is the newest, it is nowhere
\* yet, and what the test found still holds unless a callback interfered.
Putting ==
  putting # None =>
    /\ putting.msg \in ToSet(order)
    /\ \A m \in ToSet(order) : m <= putting.msg
    /\ \A k \in Keys : putting.msg \notin ToSet(entry[k].pend)
    /\ \A l \in Links : putting.msg \notin ToSet(out[l])
    /\ Known(to[putting.msg])
    /\ putting.direct => entry[to[putting.msg]].conn # None
    /\ ~putting.direct => /\ link[to[putting.msg]].ctx = None
                          /\ entry[to[putting.msg]].conn # None => putting.msg \in overlap
    /\ callback.link = to[putting.msg] => putting.msg \in overlap

\* The messages of s outside ov appear in the order of their numbers, each once.
Sorted(s, ov) == \A a, b \in DOMAIN s : a < b /\ s[a] \notin ov /\ s[b] \notin ov => s[a] < s[b]

\* What the callback flushes follows what was sent before, and nothing twice.
InOrder ==
  /\ \A l \in Links : Sorted(out[l], overlap)
  /\ \A k \in Keys : Sorted(entry[k].pend, overlap)
  /\ \A l, j \in Links : \A m \in ToSet(out[l]) \cap ToSet(out[j]) : m \notin overlap => l = j

\* Messages that wait for the connection to q.
Waiting(q) == ToSet(entry[q].pend) \ overlap

\* A message waits as long as its connection is on the way, or for ever when
\* the attempt failed; it is not sent before the callback sends it, and nothing
\* is sent on that connection before.
Waits ==
  \A q \in Peers : \A m \in Waiting(q) :
    /\ link[q].peer = q /\ link[q].dir = "out"
    /\ link[q].state \in {"connecting", "closed"} \/ callback.link = q
    /\ \A l \in Links : m \in ToSet(out[l]) => callback.link = q /\ callback.next = "clear"
    /\ \A x \in ToSet(out[q]) : x \notin overlap => callback.link = q /\ callback.next = "clear"
    /\ entry[q].conn = q => callback.link = q /\ callback.next \in {"flush", "clear"}

\* Once something was sent on the connection to q, or the callback has flushed,
\* there is a connection to send on.
SentHasConn ==
  \A q \in Peers : \A x \in ToSet(out[q]) : x \notin overlap => entry[q].conn # None

\* After the flush, what waits has been sent on the callback's connection.
Flushed ==
  callback.next = "clear" =>
    \A m \in Waiting(callback.link) : m \in ToSet(out[callback.link])

\* Every accepted message is somewhere.
Somewhere ==
  \A m \in ToSet(order) \ overlap :
    \/ putting # None /\ putting.msg = m
    \/ \E l \in Links : m \in ToSet(out[l])
    \/ m \in Waiting(to[m])
    \/ m \in dead

Kept == InOrder /\ Waits /\ SentHasConn /\ Flushed /\ Somewhere

\* Whom results were sent to.
Results ==
  \A c \in Calls :
    /\ call[c].peer # None /\ call[c].key # ControlPlane =>
         \E l \in Links : link[l].peer = call[c].peer /\ link[l].ctx = call[c].key
    /\ call[c].sent \in Links =>
         \/ link[call[c].sent].peer = call[c].peer
         \/ \E l \in Links : link[l].ctx = call[c].key /\ link[l].peer # call[c].peer
    /\ call[c].peer = None => call[c].sent = None
    /\ call[c].peer # None => call[c].key # None

\* The inductive invariant.
Inv == Types /\ Connections /\ Numbered /\ Putting /\ Kept /\ Results

-----------------------------------------------------------------------------
(* Sequences of messages.                                                   *)

\* What a sequence gains when an element is appended.
LEMMA ToSetAppend ==
  ASSUME NEW S, NEW s \in Seq(S), NEW x \in S
  PROVE  ToSet(Append(s, x)) = ToSet(s) \cup {x}
<1>1. Len(Append(s, x)) = Len(s) + 1 /\ Len(s) \in Nat
  OBVIOUS
<1>2. \A i \in 1..Len(s) : Append(s, x)[i] = s[i]
  OBVIOUS
<1>3. Append(s, x)[Len(s) + 1] = x
  OBVIOUS
<1>4. ASSUME NEW y \in ToSet(Append(s, x))
      PROVE  y \in ToSet(s) \cup {x}
  BY <1>1, <1>2, <1>3 DEF ToSet
<1>5. ASSUME NEW y \in ToSet(s)
      PROVE  y \in ToSet(Append(s, x))
  <2>1. PICK i \in 1..Len(s) : s[i] = y
    BY DEF ToSet
  <2>2. i \in DOMAIN Append(s, x)
    BY <1>1
  <2> QED
    BY <2>1, <2>2, <1>2 DEF ToSet
<1>6. x \in ToSet(Append(s, x))
  <2>1. Len(s) + 1 \in DOMAIN Append(s, x)
    BY <1>1
  <2> QED
    BY <2>1, <1>3 DEF ToSet
<1> QED
  BY <1>4, <1>5, <1>6

\* What a sequence gains when another is put behind it.
LEMMA ToSetConcat ==
  ASSUME NEW S, NEW s \in Seq(S), NEW t \in Seq(S)
  PROVE  ToSet(s \o t) = ToSet(s) \cup ToSet(t)
<1>1. Len(s \o t) = Len(s) + Len(t) /\ Len(s) \in Nat /\ Len(t) \in Nat
  OBVIOUS
<1>2. \A i \in 1..Len(s) : (s \o t)[i] = s[i]
  OBVIOUS
<1>3. \A i \in 1..Len(t) : (s \o t)[Len(s) + i] = t[i]
  OBVIOUS
<1>4. ASSUME NEW y \in ToSet(s \o t)
      PROVE  y \in ToSet(s) \cup ToSet(t)
  <2>1. PICK i \in 1..(Len(s) + Len(t)) : (s \o t)[i] = y
    BY <1>1 DEF ToSet
  <2>2. CASE i \in 1..Len(s)
    BY <2>1, <2>2, <1>2 DEF ToSet
  <2>3. CASE i \notin 1..Len(s)
    <3>1. i - Len(s) \in 1..Len(t) /\ Len(s) + (i - Len(s)) = i
      BY <2>3, <1>1
    <3>2. t[i - Len(s)] = y
      BY <3>1, <2>1, <1>3
    <3> QED
      BY <3>1, <3>2 DEF ToSet
  <2> QED
    BY <2>2, <2>3
<1>5. ASSUME NEW y \in ToSet(s)
      PROVE  y \in ToSet(s \o t)
  <2>1. PICK i \in 1..Len(s) : s[i] = y
    BY DEF ToSet
  <2>2. i \in DOMAIN (s \o t)
    BY <1>1
  <2> QED
    BY <2>1, <2>2, <1>2 DEF ToSet
<1>6. ASSUME NEW y \in ToSet(t)
      PROVE  y \in ToSet(s \o t)
  <2>1. PICK i \in 1..Len(t) : t[i] = y
    BY DEF ToSet
  <2>2. Len(s) + i \in DOMAIN (s \o t)
    BY <1>1
  <2>3. (s \o t)[Len(s) + i] = y
    BY <2>1, <1>3
  <2> QED
    BY <2>2, <2>3 DEF ToSet
<1> QED
  BY <1>4, <1>5, <1>6

\* Nothing is in the empty sequence, and only elements of S in one over S.
LEMMA ToSetBounds ==
  /\ ToSet(<<>>) = {}
  /\ \A S : \A s \in Seq(S) : ToSet(s) \subseteq S
  BY DEF ToSet

\* A sequence stays sorted when the newest message is appended to it.
LEMMA SortedAppend ==
  ASSUME NEW s \in Seq(Msgs), NEW ov, NEW x \in Msgs, Sorted(s, ov),
         x \in ov \/ \A y \in ToSet(s) : y \notin ov => y < x
  PROVE  Sorted(Append(s, x), ov)
<1>1. Len(Append(s, x)) = Len(s) + 1 /\ Len(s) \in Nat
  OBVIOUS
<1>2. \A i \in 1..Len(s) : Append(s, x)[i] = s[i] /\ s[i] \in ToSet(s)
  BY DEF ToSet
<1>3. Append(s, x)[Len(s) + 1] = x
  OBVIOUS
<1> SUFFICES ASSUME NEW a \in 1..(Len(s) + 1), NEW b \in 1..(Len(s) + 1), a < b,
                    Append(s, x)[a] \notin ov, Append(s, x)[b] \notin ov
             PROVE  Append(s, x)[a] < Append(s, x)[b]
  BY <1>1 DEF Sorted
<1>4. a \in 1..Len(s)
  OBVIOUS
<1>5. CASE b \in 1..Len(s)
  BY <1>2, <1>4, <1>5 DEF Sorted
<1>6. CASE b = Len(s) + 1
  BY <1>2, <1>3, <1>4, <1>6
<1> QED
  BY <1>5, <1>6

\* One sorted sequence behind another is sorted when its messages are newer.
LEMMA SortedConcat ==
  ASSUME NEW s \in Seq(Msgs), NEW t \in Seq(Msgs), NEW ov, Sorted(s, ov), Sorted(t, ov),
         \A x \in ToSet(s), y \in ToSet(t) : x \notin ov /\ y \notin ov => x < y
  PROVE  Sorted(s \o t, ov)
<1>1. Len(s \o t) = Len(s) + Len(t) /\ Len(s) \in Nat /\ Len(t) \in Nat
  OBVIOUS
<1>2. \A i \in 1..Len(s) : (s \o t)[i] = s[i] /\ s[i] \in ToSet(s)
  BY DEF ToSet
<1>3. \A i \in 1..(Len(s) + Len(t)) : i > Len(s) =>
        i - Len(s) \in 1..Len(t) /\ (s \o t)[i] = t[i - Len(s)] /\ t[i - Len(s)] \in ToSet(t)
  <2> SUFFICES ASSUME NEW i \in 1..(Len(s) + Len(t)), i > Len(s)
               PROVE  /\ i - Len(s) \in 1..Len(t)
                      /\ (s \o t)[i] = t[i - Len(s)] /\ t[i - Len(s)] \in ToSet(t)
    OBVIOUS
  <2>1. i - Len(s) \in 1..Len(t)
    BY <1>1
  <2> QED
    BY <2>1, <1>1 DEF ToSet
<1> SUFFICES ASSUME NEW a \in 1..(Len(s) + Len(t)), NEW b \in 1..(Len(s) + Len(t)), a < b,
                    (s \o t)[a] \notin ov, (s \o t)[b] \notin ov
             PROVE  (s \o t)[a] < (s \o t)[b]
  BY <1>1 DEF Sorted
<1>4. CASE b <= Len(s)
  BY <1>1, <1>2, <1>4 DEF Sorted
<1>5. CASE a <= Len(s) /\ b > Len(s)
  BY <1>1, <1>2, <1>3, <1>5
<1>6. CASE a > Len(s)
  BY <1>1, <1>3, <1>6 DEF Sorted
<1> QED
  BY <1>1, <1>4, <1>5, <1>6

\* More overlapped messages leave fewer to be sorted.
LEMMA SortedMore ==
  ASSUME NEW s, NEW ov, NEW more, ov \subseteq more, Sorted(s, ov)
  PROVE  Sorted(s, more)
  BY DEF Sorted

-----------------------------------------------------------------------------
(* Frames.                                                                  *)

\* What the assumption says about names and numbers.
LEMMA Names ==
  ASSUME RemoteAssumption
  PROVE  /\ Peers \subseteq Links /\ Peers \subseteq Keys /\ Incoming \subseteq Links
         /\ None \notin Links /\ None \notin Keys /\ None \notin Msgs /\ None \notin Clients
         /\ ControlLink \notin Links /\ None # ControlLink
         /\ \A q \in Peers : /\ q \notin Incoming /\ q \notin Clients
                             /\ q # Correct /\ q # DataPlane /\ q # ControlPlane /\ q # None
         /\ Correct \in Keys /\ DataPlane \in Keys /\ ControlPlane \in Keys
         /\ Correct # ControlPlane /\ DataPlane # ControlPlane /\ Correct # DataPlane
         /\ None \notin {"conn", "flush", "clear", "in", "out"}
         /\ \A x \in [msg : Msgs, direct : BOOLEAN] : x # None
  BY DEF RemoteAssumption, Links, Keys, Incoming, ControlLink, Correct, DataPlane, ControlPlane

\* The status of an entry changes.
StatusSet(k, v) == entry' = [entry EXCEPT ![k].status = v]

\* What that leaves.
LEMMA StatusSetFields ==
  ASSUME entry \in [Keys -> Entries], NEW k \in Keys, NEW v \in Statuses, StatusSet(k, v)
  PROVE  /\ entry' \in [Keys -> Entries]
         /\ entry'[k].status = v
         /\ entry'[k].conn = entry[k].conn
         /\ entry'[k].pend = entry[k].pend
         /\ \A j \in Keys : j # k => entry'[j] = entry[j]
<1>1. PICK r : r = [entry[k] EXCEPT !.status = v]
  OBVIOUS
<1>2. entry[k] \in Entries
  OBVIOUS
<1>3. /\ r \in Entries
      /\ r.status = v
      /\ r.conn = entry[k].conn
      /\ r.pend = entry[k].pend
  BY <1>1, <1>2 DEF Entries
<1>4. entry' = [entry EXCEPT ![k] = r]
  BY <1>1 DEF StatusSet
<1>5. entry' \in [Keys -> Entries]
  BY <1>3, <1>4
<1>6. entry'[k] = r /\ \A j \in Keys : j # k => entry'[j] = entry[j]
  BY <1>4
<1> QED
  BY <1>3, <1>5, <1>6

\* What _handle_connection leaves.
LEMMA RegisteredFields ==
  ASSUME entry \in [Keys -> Entries], NEW k \in Keys, NEW l \in Links, Registered(l, k)
  PROVE  /\ entry' \in [Keys -> Entries]
         /\ entry'[k].status = "CONNECTED"
         /\ entry'[k].conn = l
         /\ entry'[k].pend = entry[k].pend
         /\ \A j \in Keys : j # k => entry'[j] = entry[j]
<1>1. PICK r : r = [entry[k] EXCEPT !.conn = l, !.status = "CONNECTED"]
  OBVIOUS
<1>2. entry[k] \in Entries
  OBVIOUS
<1>3. /\ r \in Entries
      /\ r.status = "CONNECTED"
      /\ r.conn = l
      /\ r.pend = entry[k].pend
  BY <1>1, <1>2 DEF Entries, Statuses
<1>4. entry' = [entry EXCEPT ![k] = r]
  BY <1>1 DEF Registered
<1>5. entry' \in [Keys -> Entries]
  BY <1>3, <1>4
<1>6. entry'[k] = r /\ \A j \in Keys : j # k => entry'[j] = entry[j]
  BY <1>4
<1> QED
  BY <1>3, <1>5, <1>6

\* The connection of an entry changes.
ConnSet(k, v) == entry' = [entry EXCEPT ![k].conn = v]

\* What that leaves.
LEMMA ConnSetFields ==
  ASSUME entry \in [Keys -> Entries], NEW k \in Keys, NEW v \in Links, ConnSet(k, v)
  PROVE  /\ entry' \in [Keys -> Entries]
         /\ entry'[k].status = entry[k].status
         /\ entry'[k].conn = v
         /\ entry'[k].pend = entry[k].pend
         /\ \A j \in Keys : j # k => entry'[j] = entry[j]
<1>1. PICK r : r = [entry[k] EXCEPT !.conn = v]
  OBVIOUS
<1>2. entry[k] \in Entries
  OBVIOUS
<1>3. /\ r \in Entries
      /\ r.status = entry[k].status
      /\ r.conn = v
      /\ r.pend = entry[k].pend
  BY <1>1, <1>2 DEF Entries
<1>4. entry' = [entry EXCEPT ![k] = r]
  BY <1>1 DEF ConnSet
<1>5. entry' \in [Keys -> Entries]
  BY <1>3, <1>4
<1>6. entry'[k] = r /\ \A j \in Keys : j # k => entry'[j] = entry[j]
  BY <1>4
<1> QED
  BY <1>3, <1>5, <1>6

\* The pending messages of an entry change.
PendSet(k, v) == entry' = [entry EXCEPT ![k].pend = v]

\* What that leaves.
LEMMA PendSetFields ==
  ASSUME entry \in [Keys -> Entries], NEW k \in Keys, NEW v \in Seq(Msgs), PendSet(k, v)
  PROVE  /\ entry' \in [Keys -> Entries]
         /\ entry'[k].status = entry[k].status
         /\ entry'[k].conn = entry[k].conn
         /\ entry'[k].pend = v
         /\ \A j \in Keys : j # k => entry'[j] = entry[j]
<1>1. PICK r : r = [entry[k] EXCEPT !.pend = v]
  OBVIOUS
<1>2. entry[k] \in Entries
  OBVIOUS
<1>3. /\ r \in Entries
      /\ r.status = entry[k].status
      /\ r.conn = entry[k].conn
      /\ r.pend = v
  BY <1>1, <1>2 DEF Entries
<1>4. entry' = [entry EXCEPT ![k] = r]
  BY <1>1 DEF PendSet
<1>5. entry' \in [Keys -> Entries]
  BY <1>3, <1>4
<1>6. entry'[k] = r /\ \A j \in Keys : j # k => entry'[j] = entry[j]
  BY <1>4
<1> QED
  BY <1>3, <1>5, <1>6

\* A first message is kept and opens a connection.
Opening(k, v) == entry' = [entry EXCEPT ![k].pend = v, ![k].status = "CONNECTING"]

\* What that leaves.
LEMMA OpeningFields ==
  ASSUME entry \in [Keys -> Entries], NEW k \in Keys, NEW v \in Seq(Msgs), Opening(k, v)
  PROVE  /\ entry' \in [Keys -> Entries]
         /\ entry'[k].status = "CONNECTING"
         /\ entry'[k].conn = entry[k].conn
         /\ entry'[k].pend = v
         /\ \A j \in Keys : j # k => entry'[j] = entry[j]
<1>1. PICK r : r = [entry[k] EXCEPT !.pend = v, !.status = "CONNECTING"]
  OBVIOUS
<1>2. entry[k] \in Entries
  OBVIOUS
<1>3. /\ r \in Entries
      /\ r.status = "CONNECTING"
      /\ r.conn = entry[k].conn
      /\ r.pend = v
  BY <1>1, <1>2 DEF Entries, Statuses
<1>4. entry' = [entry EXCEPT ![k] = r]
  BY <1>1 DEF Opening
<1>5. entry' \in [Keys -> Entries]
  BY <1>3, <1>4
<1>6. entry'[k] = r /\ \A j \in Keys : j # k => entry'[j] = entry[j]
  BY <1>4
<1> QED
  BY <1>3, <1>5, <1>6

\* The state of a connection changes.
StateSet(k, v) == link' = [link EXCEPT ![k].state = v]

\* What that leaves.
LEMMA StateSetFields ==
  ASSUME link \in [Links -> LinkRecords], NEW k \in Links, NEW v \in States, StateSet(k, v)
  PROVE  /\ link' \in [Links -> LinkRecords]
         /\ link'[k].peer = link[k].peer
         /\ link'[k].dir = link[k].dir
         /\ link'[k].state = v
         /\ link'[k].ctx = link[k].ctx
         /\ \A j \in Links : j # k => link'[j] = link[j]
<1>1. PICK r : r = [link[k] EXCEPT !.state = v]
  OBVIOUS
<1>2. link[k] \in LinkRecords
  OBVIOUS
<1>3. /\ r \in LinkRecords
      /\ r.peer = link[k].peer
      /\ r.dir = link[k].dir
      /\ r.state = v
      /\ r.ctx = link[k].ctx
  BY <1>1, <1>2 DEF LinkRecords
<1>4. link' = [link EXCEPT ![k] = r]
  BY <1>1 DEF StateSet
<1>5. link' \in [Links -> LinkRecords]
  BY <1>3, <1>4
<1>6. link'[k] = r /\ \A j \in Links : j # k => link'[j] = link[j]
  BY <1>4
<1> QED
  BY <1>3, <1>5, <1>6

\* A connection is registered.
CtxSet(k, v) == link' = [link EXCEPT ![k].ctx = v]

\* What that leaves.
LEMMA CtxSetFields ==
  ASSUME link \in [Links -> LinkRecords], NEW k \in Links, NEW v \in Keys, CtxSet(k, v)
  PROVE  /\ link' \in [Links -> LinkRecords]
         /\ link'[k].peer = link[k].peer
         /\ link'[k].dir = link[k].dir
         /\ link'[k].state = link[k].state
         /\ link'[k].ctx = v
         /\ \A j \in Links : j # k => link'[j] = link[j]
<1>1. PICK r : r = [link[k] EXCEPT !.ctx = v]
  OBVIOUS
<1>2. link[k] \in LinkRecords
  OBVIOUS
<1>3. /\ r \in LinkRecords
      /\ r.peer = link[k].peer
      /\ r.dir = link[k].dir
      /\ r.state = link[k].state
      /\ r.ctx = v
  BY <1>1, <1>2 DEF LinkRecords
<1>4. link' = [link EXCEPT ![k] = r]
  BY <1>1 DEF CtxSet
<1>5. link' \in [Links -> LinkRecords]
  BY <1>3, <1>4
<1>6. link'[k] = r /\ \A j \in Links : j # k => link'[j] = link[j]
  BY <1>4
<1> QED
  BY <1>3, <1>5, <1>6

\* A connection keeps its owner and the name it was registered under.
LinksKept ==
  \A l \in Links : /\ link[l].peer # None => link'[l].peer = link[l].peer
                   /\ link[l].ctx # None => /\ link'[l].ctx = link[l].ctx
                                            /\ link'[l].peer = link[l].peer

\* A step that neither sends nor keeps a message, nor takes part in the work of
\* put_message or of the connection callback.
Quiet ==
  /\ UNCHANGED <<out, callback, putting, to, order, overlap, dead, call>>
  /\ \A k \in Keys : entry'[k].pend = entry[k].pend
  /\ \A k \in Keys : entry[k].status # "none" => entry'[k].status # "none"
  /\ \A q \in Peers : /\ entry[q].conn # None => entry'[q].conn # None
                      /\ entry'[q].conn = q => entry[q].conn = q
                      /\ link[q].peer = q => link'[q].dir = link[q].dir
                      /\ link[q].state \in {"connecting", "closed"} =>
                           link'[q].state \in {"connecting", "closed"}
  /\ LinksKept
  /\ putting # None => \A q \in Peers : entry'[q].conn = entry[q].conn /\ link'[q].ctx = link[q].ctx

\* Results that were sent stay where they are.
LEMMA ResultsKept ==
  ASSUME RemoteAssumption, Inv, LinksKept, UNCHANGED call
  PROVE  Results'
<1>1. Results /\ \A c \in Calls : call[c] \in CallRecords
  BY DEF Inv, Types
<1>2. \A l \in Links : /\ link[l].peer # None => link'[l].peer = link[l].peer
                       /\ link[l].ctx # None => /\ link'[l].ctx = link[l].ctx
                                                /\ link'[l].peer = link[l].peer
  BY DEF LinksKept
<1> SUFFICES ASSUME NEW c \in Calls
             PROVE  /\ call[c].peer # None /\ call[c].key # ControlPlane =>
                         \E l \in Links : link'[l].peer = call[c].peer /\ link'[l].ctx = call[c].key
                    /\ call[c].sent \in Links =>
                         \/ link'[call[c].sent].peer = call[c].peer
                         \/ \E l \in Links : link'[l].ctx = call[c].key /\ link'[l].peer # call[c].peer
                    /\ call[c].peer = None => call[c].sent = None
                    /\ call[c].peer # None => call[c].key # None
  BY DEF Results
<1>3. /\ call[c].peer # None /\ call[c].key # ControlPlane =>
           \E l \in Links : link[l].peer = call[c].peer /\ link[l].ctx = call[c].key
      /\ call[c].sent \in Links =>
           \/ link[call[c].sent].peer = call[c].peer
           \/ \E l \in Links : link[l].ctx = call[c].key /\ link[l].peer # call[c].peer
      /\ call[c].peer = None => call[c].sent = None
      /\ call[c].peer # None => call[c].key # None
  BY <1>1 DEF Results
<1>4. call[c].sent \in Links => call[c].peer # None
  BY <1>3, Names
<1> QED
  BY <1>2, <1>3, <1>4

\* A quiet step disturbs neither messages nor results.
LEMMA QuietKeeps ==
  ASSUME RemoteAssumption, Inv, Quiet
  PROVE  Numbered' /\ Putting' /\ Kept' /\ Results'
<1> USE Names
<1>1. /\ Types /\ Connections /\ Numbered /\ Putting /\ Kept
      /\ to \in [Msgs -> Peers \cup {None}] /\ order \in Seq(Msgs) /\ ToSet(order) \subseteq Msgs
  BY ToSetBounds DEF Inv, Types
<1>2. /\ UNCHANGED <<out, callback, putting, to, order, overlap, dead, call>>
      /\ \A k \in Keys : entry'[k].pend = entry[k].pend
      /\ \A k \in Keys : entry[k].status # "none" => entry'[k].status # "none"
      /\ \A q \in Peers : /\ entry[q].conn # None => entry'[q].conn # None
                          /\ entry'[q].conn = q => entry[q].conn = q
                          /\ link[q].peer = q => link'[q].dir = link[q].dir
                          /\ link[q].state \in {"connecting", "closed"} =>
                               link'[q].state \in {"connecting", "closed"}
      /\ LinksKept
      /\ putting # None =>
           \A q \in Peers : entry'[q].conn = entry[q].conn /\ link'[q].ctx = link[q].ctx
  BY DEF Quiet
<1>3. \A l \in Links : link[l].peer # None => link'[l].peer = link[l].peer
  BY <1>2 DEF LinksKept
<1>4. Results'
  BY <1>2, ResultsKept
<1>5. Numbered'
  BY <1>1, <1>2, <1>3 DEF Numbered
<1>6. Putting'
  <2> SUFFICES ASSUME putting # None
               PROVE  Putting'
    BY <1>2 DEF Putting
  <2>1. to[putting.msg] \in Peers
    BY <1>1 DEF Putting, Numbered
  <2> QED
    BY <1>1, <1>2, <2>1 DEF Putting, Known
<1>7. InOrder'
  BY <1>1, <1>2 DEF Kept, InOrder
<1>8. \A q \in Peers : Waiting(q)' = Waiting(q)
  BY <1>2 DEF Waiting
<1>9. Waits'
  <2> SUFFICES ASSUME NEW q \in Peers, NEW m \in Waiting(q)
               PROVE  /\ link'[q].peer = q /\ link'[q].dir = "out"
                      /\ link'[q].state \in {"connecting", "closed"} \/ callback.link = q
                      /\ \A l \in Links : m \in ToSet(out[l]) => callback.link = q /\ callback.next = "clear"
                      /\ \A x \in ToSet(out[q]) : x \notin overlap => callback.link = q /\ callback.next = "clear"
                      /\ entry'[q].conn = q => callback.link = q /\ callback.next \in {"flush", "clear"}
    BY <1>2, <1>8 DEF Waits
  <2> QED
    BY <1>1, <1>2, <1>3 DEF Kept, Waits
<1>10. SentHasConn'
  BY <1>1, <1>2 DEF Kept, SentHasConn
<1>11. Flushed'
  <2>1. callback.next = "clear" => callback.link \in Peers
    BY <1>1 DEF Connections, CallbackUse
  <2> QED
    BY <1>1, <1>2, <1>8, <2>1 DEF Kept, Flushed
<1>12. Somewhere'
  <2>1. \A m \in ToSet(order) : to[m] \in Peers
    BY <1>1 DEF Numbered
  <2> QED
    BY <1>1, <1>2, <1>8, <2>1 DEF Kept, Somewhere
<1> QED
  BY <1>4, <1>5, <1>6, <1>7, <1>9, <1>10, <1>11, <1>12 DEF Kept

-----------------------------------------------------------------------------
(* Steps that are quiet.                                                    *)

\* The control plane announces a process.
LEMMA HandleAppUpdatePreserves ==
  ASSUME RemoteAssumption, Inv, NEW q \in Peers, HandleAppUpdate(q)
  PROVE  Inv'
<1> USE Names
<1>1. Types /\ Connections /\ Putting
  BY DEF Inv
<1>2. /\ putting = None /\ entry[q].status = "none"
      /\ entry' = [entry EXCEPT ![q].status = "DISCONNECTED"]
      /\ link' = link
      /\ UNCHANGED <<out, callback, putting, to, order, overlap, dead, call>>
  BY DEF HandleAppUpdate, Mutex, Known
<1>3. /\ entry' \in [Keys -> Entries]
      /\ entry'[q].status = "DISCONNECTED" /\ entry'[q].conn = entry[q].conn
      /\ entry'[q].pend = entry[q].pend
      /\ \A j \in Keys : j # q => entry'[j] = entry[j]
  <2>1. StatusSet(q, "DISCONNECTED") /\ "DISCONNECTED" \in Statuses
    BY <1>2 DEF StatusSet, Statuses
  <2>2. entry \in [Keys -> Entries]
    BY <1>1 DEF Types
  <2> QED
    BY <2>1, <2>2, StatusSetFields
<1>4. Types'
  BY <1>1, <1>2, <1>3 DEF Types
<1>5. Quiet
  BY <1>2, <1>3 DEF Quiet, LinksKept
<1>6. LinkUse' /\ CallbackUse' /\ EntryUse' /\ NoConnection'
  <2>1. LinkUse'
    BY <1>1, <1>2, <1>3 DEF Connections, LinkUse, Known
  <2>2. CallbackUse'
    BY <1>1, <1>2, <1>3 DEF Connections, CallbackUse, Types
  <2>3. EntryUse'
    BY <1>1, <1>2, <1>3 DEF Connections, EntryUse
  <2>4. NoConnection'
    BY <1>1, <1>2, <1>3 DEF Connections, NoConnection, Known
  <2> QED
    BY <2>1, <2>2, <2>3, <2>4
<1> QED
  BY <1>4, <1>5, <1>6, QuietKeeps DEF Inv, Connections

\* The control plane is gone.
LEMMA ControlPlaneGonePreserves ==
  ASSUME RemoteAssumption, Inv, ControlPlaneGone
  PROVE  Inv'
<1> USE Names
<1>1. Types /\ Connections /\ Putting
  BY DEF Inv
<1>2. /\ entry[ControlPlane].status = "CONNECTED"
      /\ entry' = [entry EXCEPT ![ControlPlane].status = "DISCONNECTED"]
      /\ link' = link
      /\ UNCHANGED <<out, callback, putting, to, order, overlap, dead, call>>
  BY DEF ControlPlaneGone
<1>3. /\ entry' \in [Keys -> Entries]
      /\ entry'[ControlPlane].status = "DISCONNECTED" /\ entry'[ControlPlane].conn = entry[ControlPlane].conn
      /\ entry'[ControlPlane].pend = entry[ControlPlane].pend
      /\ \A j \in Keys : j # ControlPlane => entry'[j] = entry[j]
  <2>1. StatusSet(ControlPlane, "DISCONNECTED") /\ "DISCONNECTED" \in Statuses
    BY <1>2 DEF StatusSet, Statuses
  <2>2. entry \in [Keys -> Entries]
    BY <1>1 DEF Types
  <2> QED
    BY <2>1, <2>2, StatusSetFields
<1>4. Types'
  BY <1>1, <1>2, <1>3 DEF Types
<1>5. Quiet
  BY <1>2, <1>3 DEF Quiet, LinksKept
<1>6. LinkUse' /\ CallbackUse' /\ EntryUse' /\ NoConnection'
  <2>1. LinkUse'
    BY <1>1, <1>2, <1>3 DEF Connections, LinkUse, Known
  <2>2. CallbackUse'
    BY <1>1, <1>2, <1>3 DEF Connections, CallbackUse, Types
  <2>3. EntryUse'
    BY <1>1, <1>2, <1>3 DEF Connections, EntryUse
  <2>4. NoConnection'
    BY <1>1, <1>2, <1>3 DEF Connections, NoConnection, Known
  <2> QED
    BY <2>1, <2>2, <2>3, <2>4
<1> QED
  BY <1>4, <1>5, <1>6, QuietKeeps DEF Inv, Connections

\* A process or a client connects and registers: the connection was nobody's.
LEMMA HandleConnectionPreserves ==
  ASSUME RemoteAssumption, Inv, NEW l \in Incoming, NEW p \in Peers \cup Clients,
         HandleConnection(l, p)
  PROVE  Inv'
<1> USE Names
<1>1. Types /\ Connections /\ Putting
  BY DEF Inv
<1>2. PICK k \in Keys : k = IF p \in Clients THEN DataPlane ELSE p
  OBVIOUS
<1>3. /\ putting = None /\ link[l].state = "free"
      /\ link' = [link EXCEPT ![l] = [peer |-> p, dir |-> "in", state |-> "open", ctx |-> k]]
      /\ Registered(l, k)
      /\ UNCHANGED <<out, callback, putting, to, order, overlap, dead, call>>
  BY <1>2 DEF HandleConnection, Mutex, NextIncoming
<1>4. /\ entry' \in [Keys -> Entries]
      /\ entry'[k].status = "CONNECTED" /\ entry'[k].conn = l
      /\ entry'[k].pend = entry[k].pend
      /\ \A j \in Keys : j # k => entry'[j] = entry[j]
  <2>1. entry \in [Keys -> Entries] /\ l \in Links
    BY <1>1 DEF Types
  <2> QED
    BY <1>3, <2>1, RegisteredFields
<1>5. /\ link' \in [Links -> LinkRecords]
      /\ \A j \in Links : j # l => link'[j] = link[j]
      /\ link'[l].peer = p /\ link'[l].dir = "in" /\ link'[l].state = "open" /\ link'[l].ctx = k
  BY <1>1, <1>3 DEF Types, LinkRecords, States
<1>6. link[l].peer = None /\ link[l].ctx = None /\ \A q \in Peers : q # l
  BY <1>1, <1>3 DEF Connections, LinkUse
<1>7. Types'
  BY <1>1, <1>3, <1>4, <1>5 DEF Types
<1>8. Quiet
  BY <1>3, <1>4, <1>5, <1>6 DEF Quiet, LinksKept
<1>9. LinkUse' /\ CallbackUse' /\ EntryUse' /\ NoConnection'
  <2>1. LinkUse'
    BY <1>1, <1>2, <1>4, <1>5, <1>6 DEF Connections, LinkUse, Known
  <2>2. CallbackUse'
    BY <1>1, <1>3, <1>4, <1>5, <1>6 DEF Connections, CallbackUse, Types
  <2>3. EntryUse'
    <3>1. \A j \in Keys : entry'[j].status = "none" => entry'[j].conn = None
      BY <1>1, <1>4 DEF Connections, EntryUse
    <3>2. entry'[ControlPlane].conn = None
      BY <1>1, <1>2, <1>4, <1>5, <1>6 DEF Connections, EntryUse
    <3>3. \A j \in Keys : entry[j].conn = None \/ entry[j].conn \in Links
      BY <1>1 DEF Types, Entries
    <3>4. ASSUME NEW q \in Peers, entry'[q].conn # None
          PROVE  link'[entry'[q].conn].peer = q
      BY <3>3, <3>4, <1>1, <1>2, <1>4, <1>5, <1>6 DEF Connections, EntryUse
    <3>5. ASSUME NEW j \in {Correct, DataPlane}, entry'[j].conn # None
          PROVE  link'[entry'[j].conn].ctx = j
      BY <3>3, <3>5, <1>1, <1>2, <1>4, <1>5, <1>6 DEF Connections, EntryUse
    <3> QED
      BY <3>1, <3>2, <3>4, <3>5 DEF EntryUse
  <2>4. NoConnection'
    BY <1>1, <1>3, <1>4, <1>5, <1>6 DEF Connections, NoConnection, Known
  <2> QED
    BY <2>1, <2>2, <2>3, <2>4
<1> QED
  BY <1>7, <1>8, <1>9, QuietKeeps DEF Inv, Connections

\* The answer CORRECT registers a connection that the callback is done with.
LEMMA ConfirmPreserves ==
  ASSUME RemoteAssumption, Inv, NEW l \in Links, Confirm(l)
  PROVE  Inv'
<1> USE Names
<1>1. Types /\ Connections /\ Putting
  BY DEF Inv
<1>2. /\ putting = None /\ callback.link = None
      /\ link[l].state = "open" /\ link[l].dir = "out" /\ link[l].ctx = None
      /\ link' = [link EXCEPT ![l].ctx = Correct]
      /\ Registered(l, Correct)
      /\ UNCHANGED <<out, callback, putting, to, order, overlap, dead, call>>
  BY DEF Confirm, Mutex, Idle
<1>3. /\ entry' \in [Keys -> Entries]
      /\ entry'[Correct].status = "CONNECTED" /\ entry'[Correct].conn = l
      /\ entry'[Correct].pend = entry[Correct].pend
      /\ \A j \in Keys : j # Correct => entry'[j] = entry[j]
  <2>1. entry \in [Keys -> Entries] /\ l \in Links
    BY <1>1 DEF Types
  <2> QED
    BY <1>2, <2>1, RegisteredFields
<1>4. /\ link' \in [Links -> LinkRecords]
      /\ link'[l].peer = link[l].peer /\ link'[l].dir = link[l].dir
      /\ link'[l].state = link[l].state /\ link'[l].ctx = Correct
      /\ \A j \in Links : j # l => link'[j] = link[j]
  <2>1. CtxSet(l, Correct) /\ link \in [Links -> LinkRecords]
    BY <1>1, <1>2 DEF CtxSet, Types
  <2> QED
    BY <2>1, CtxSetFields
<1>5. l \in Peers /\ l \notin Incoming /\ entry[l].conn # None
  <2>1. l \notin Incoming
    BY <1>1, <1>2 DEF Connections, LinkUse
  <2>2. l \in Peers
    BY <2>1 DEF Links
  <2> QED
    BY <1>1, <1>2, <2>1, <2>2 DEF Connections, NoConnection
<1>6. Types'
  BY <1>1, <1>2, <1>3, <1>4 DEF Types
<1>7. Quiet
  BY <1>2, <1>3, <1>4 DEF Quiet, LinksKept
<1>8. LinkUse' /\ CallbackUse' /\ EntryUse' /\ NoConnection'
  <2>1. LinkUse'
    BY <1>1, <1>2, <1>3, <1>4 DEF Connections, LinkUse, Known
  <2>2. CallbackUse'
    BY <1>1, <1>2, <1>3, <1>4 DEF Connections, CallbackUse, Types
  <2>3. EntryUse'
    <3>1. \A j \in Keys : entry'[j].status = "none" => entry'[j].conn = None
      BY <1>1, <1>3 DEF Connections, EntryUse
    <3>2. entry'[ControlPlane].conn = None
      BY <1>1, <1>2, <1>3, <1>4 DEF Connections, EntryUse
    <3>3. \A j \in Keys : entry[j].conn = None \/ entry[j].conn \in Links
      BY <1>1 DEF Types, Entries
    <3>4. ASSUME NEW q \in Peers, entry'[q].conn # None
          PROVE  link'[entry'[q].conn].peer = q
      BY <3>3, <3>4, <1>1, <1>2, <1>3, <1>4 DEF Connections, EntryUse
    <3>5. ASSUME NEW j \in {Correct, DataPlane}, entry'[j].conn # None
          PROVE  link'[entry'[j].conn].ctx = j
      BY <3>3, <3>5, <1>1, <1>2, <1>3, <1>4 DEF Connections, EntryUse
    <3> QED
      BY <3>1, <3>2, <3>4, <3>5 DEF EntryUse
  <2>4. NoConnection'
    BY <1>1, <1>2, <1>3, <1>4, <1>5 DEF Connections, NoConnection, Known
  <2> QED
    BY <2>1, <2>2, <2>3, <2>4
<1> QED
  BY <1>6, <1>7, <1>8, QuietKeeps DEF Inv, Connections

\* An attempt to connect fails.
LEMMA ConnectFailsPreserves ==
  ASSUME RemoteAssumption, Inv, NEW l \in Links, ConnectFails(l)
  PROVE  Inv'
<1> USE Names
<1>1. Types /\ Connections /\ Putting
  BY DEF Inv
<1>2. /\ link[l].state = "connecting"
      /\ link' = [link EXCEPT ![l].state = "closed"]
      /\ entry' = entry
      /\ UNCHANGED <<out, callback, putting, to, order, overlap, dead, call>>
  BY DEF ConnectFails
<1>3. /\ link' \in [Links -> LinkRecords]
      /\ link'[l].peer = link[l].peer /\ link'[l].dir = link[l].dir
      /\ link'[l].state = "closed" /\ link'[l].ctx = link[l].ctx
      /\ \A j \in Links : j # l => link'[j] = link[j]
  <2>1. StateSet(l, "closed") /\ "closed" \in States /\ link \in [Links -> LinkRecords]
    BY <1>1, <1>2 DEF StateSet, States, Types
  <2> QED
    BY <2>1, StateSetFields
<1>4. Types'
  BY <1>1, <1>2, <1>3 DEF Types
<1>5. Quiet
  BY <1>2, <1>3 DEF Quiet, LinksKept
<1>6. LinkUse' /\ CallbackUse' /\ EntryUse' /\ NoConnection'
  <2>1. LinkUse'
    BY <1>1, <1>2, <1>3 DEF Connections, LinkUse, Known
  <2>2. CallbackUse'
    BY <1>1, <1>2, <1>3 DEF Connections, CallbackUse, Types
  <2>3. EntryUse'
    BY <1>1, <1>2, <1>3 DEF Connections, EntryUse, Types, Entries
  <2>4. NoConnection'
    BY <1>1, <1>2, <1>3 DEF Connections, NoConnection, Known
  <2> QED
    BY <2>1, <2>2, <2>3, <2>4
<1> QED
  BY <1>4, <1>5, <1>6, QuietKeeps DEF Inv, Connections

\* A connection ends; its entry does not forget it.
LEMMA DisconnectedPreserves ==
  ASSUME RemoteAssumption, Inv, NEW l \in Links, Disconnected(l)
  PROVE  Inv'
<1> USE Names
<1>1. Types /\ Connections /\ Putting
  BY DEF Inv
<1>2. /\ link[l].state = "open" /\ callback.link # l
      /\ link' = [link EXCEPT ![l].state = "closed"]
      /\ entry' = IF link[l].dir = "out" THEN [entry EXCEPT ![link[l].peer].status = "DISCONNECTED"]
                  ELSE entry
      /\ UNCHANGED <<out, callback, putting, to, order, overlap, dead, call>>
  BY DEF Disconnected
<1>3. /\ link' \in [Links -> LinkRecords]
      /\ link'[l].peer = link[l].peer /\ link'[l].dir = link[l].dir
      /\ link'[l].state = "closed" /\ link'[l].ctx = link[l].ctx
      /\ \A j \in Links : j # l => link'[j] = link[j]
  <2>1. StateSet(l, "closed") /\ "closed" \in States /\ link \in [Links -> LinkRecords]
    BY <1>1, <1>2 DEF StateSet, States, Types
  <2> QED
    BY <2>1, StateSetFields
<1>4. /\ link[l].dir = "out" <=> l \in Peers
      /\ l \in Peers => link[l].peer = l
  BY <1>1, <1>2 DEF Connections, LinkUse, Links
<1>5. /\ entry' \in [Keys -> Entries]
      /\ \A k \in Keys : /\ entry'[k].conn = entry[k].conn /\ entry'[k].pend = entry[k].pend
                         /\ entry'[k].status = entry[k].status \/ entry'[k].status = "DISCONNECTED"
      /\ \A k \in Keys : k # l => entry'[k] = entry[k]
      /\ l \in Peers => entry'[l].status = "DISCONNECTED"
  <2>1. CASE l \in Peers
    <3>1. StatusSet(l, "DISCONNECTED") /\ "DISCONNECTED" \in Statuses
      BY <2>1, <1>2, <1>4 DEF StatusSet, Statuses
    <3>2. entry \in [Keys -> Entries] /\ l \in Keys
      BY <2>1, <1>1 DEF Types
    <3>3. /\ entry' \in [Keys -> Entries]
          /\ entry'[l].status = "DISCONNECTED" /\ entry'[l].conn = entry[l].conn
          /\ entry'[l].pend = entry[l].pend
          /\ \A j \in Keys : j # l => entry'[j] = entry[j]
      BY <3>1, <3>2, StatusSetFields
    <3> QED
      BY <2>1, <3>3
  <2>2. CASE l \notin Peers
    BY <2>2, <1>1, <1>2, <1>4 DEF Types
  <2> QED
    BY <2>1, <2>2
<1>6. Types'
  BY <1>1, <1>2, <1>3, <1>5 DEF Types
<1>7. Quiet
  BY <1>2, <1>3, <1>5 DEF Quiet, LinksKept
<1>8. LinkUse' /\ CallbackUse' /\ EntryUse' /\ NoConnection'
  <2>1. LinkUse'
    BY <1>1, <1>2, <1>3, <1>5 DEF Connections, LinkUse, Known
  <2>2. CallbackUse'
    BY <1>1, <1>2, <1>3, <1>5 DEF Connections, CallbackUse, Types
  <2>3. EntryUse'
    <3>1. \A k \in Keys : entry'[k].status = "none" => entry[k].status = "none"
      BY <1>5
    <3> QED
      BY <3>1, <1>1, <1>2, <1>3, <1>5, SMTT(30) DEF Connections, EntryUse, Types, Entries
  <2>4. NoConnection'
    BY <1>1, <1>2, <1>3, <1>5 DEF Connections, NoConnection, Known
  <2> QED
    BY <2>1, <2>2, <2>3, <2>4
<1> QED
  BY <1>6, <1>7, <1>8, QuietKeeps DEF Inv, Connections

-----------------------------------------------------------------------------
(* The connection callback.                                                 *)

\* What the invariant says about the callback that runs.
LEMMA CallbackFacts ==
  ASSUME RemoteAssumption, Inv, callback.next # None
  PROVE  /\ callback.link \in Peers /\ callback.link \in Links /\ callback.link \in Keys
         /\ link[callback.link].peer = callback.link
         /\ link[callback.link].state # "free" /\ Known(callback.link)
         /\ callback.next \in {"flush", "clear"} => entry[callback.link].conn # None
  BY Names DEF Inv, Connections, CallbackUse, LinkUse

\* Part one: status and registration.  The message that is being put, if there
\* is one, is overlapped from now on.
LEMMA ConnectedStatusPreserves ==
  ASSUME RemoteAssumption, Inv, NEW l \in Links, ConnectedStatus(l)
  PROVE  Inv'
<1> USE Names
<1>1. Types /\ Connections /\ Numbered /\ Putting /\ Kept
  BY DEF Inv
<1>2. /\ callback.link = None /\ callback.next = None /\ link[l].state = "connecting"
      /\ link' = [link EXCEPT ![l].state = "open"]
      /\ entry' = [entry EXCEPT ![link[l].peer].status = "CONNECTED"]
      /\ callback' = [link |-> l, next |-> "conn"]
      /\ overlap' = overlap \cup (IF putting = None THEN {} ELSE {putting.msg})
      /\ UNCHANGED <<out, putting, to, order, dead, call>>
  BY DEF ConnectedStatus, Idle
<1>3. l \in Peers /\ link[l].peer = l /\ entry[l].status # "none" /\ l \in Keys
  <2>1. l \in Peers
    BY <1>1, <1>2 DEF Connections, LinkUse, Links
  <2> QED
    BY <2>1, <1>1, <1>2 DEF Connections, LinkUse, Known
<1>4. /\ entry' \in [Keys -> Entries]
      /\ entry'[l].status = "CONNECTED" /\ entry'[l].conn = entry[l].conn
      /\ entry'[l].pend = entry[l].pend
      /\ \A j \in Keys : j # l => entry'[j] = entry[j]
  <2>1. StatusSet(l, "CONNECTED") /\ "CONNECTED" \in Statuses
    BY <1>2, <1>3 DEF StatusSet, Statuses
  <2>2. entry \in [Keys -> Entries]
    BY <1>1 DEF Types
  <2> QED
    BY <1>3, <2>1, <2>2, StatusSetFields
<1>5. /\ link' \in [Links -> LinkRecords]
      /\ link'[l].peer = link[l].peer /\ link'[l].dir = link[l].dir
      /\ link'[l].state = "open" /\ link'[l].ctx = link[l].ctx
      /\ \A j \in Links : j # l => link'[j] = link[j]
  <2>1. StateSet(l, "open") /\ "open" \in States /\ link \in [Links -> LinkRecords]
    BY <1>1, <1>2 DEF StateSet, States, Types
  <2> QED
    BY <2>1, StateSetFields
<1>6. /\ overlap \subseteq overlap' /\ overlap' \subseteq ToSet(order) /\ overlap' \subseteq Msgs
      /\ putting # None => putting.msg \in overlap'
  BY <1>1, <1>2 DEF Types, Numbered, Putting
<1>7. callback'.link = l /\ callback'.next = "conn"
  BY <1>2
<1>8. Types'
  <2>1. callback' \in [link : Links \cup {None}, next : {"conn", "flush", "clear", None}]
    BY <1>2
  <2> QED
    BY <1>1, <1>2, <1>4, <1>5, <1>6, <2>1 DEF Types
<1>9. \A k \in Keys : entry'[k].conn = entry[k].conn /\ entry'[k].pend = entry[k].pend
  BY <1>4
<1>10. \A j \in Links : /\ link'[j].peer = link[j].peer /\ link'[j].dir = link[j].dir
                       /\ link'[j].ctx = link[j].ctx
  BY <1>5
<1>11. LinkUse' /\ CallbackUse' /\ EntryUse' /\ NoConnection'
  <2>1. LinkUse'
    BY <1>1, <1>3, <1>4, <1>5 DEF Connections, LinkUse, Known
  <2>2. CallbackUse'
    BY <1>3, <1>5, <1>7 DEF CallbackUse
  <2>3. EntryUse'
    <3>1. \A j \in Keys : entry'[j].status = "none" => entry[j].status = "none"
      BY <1>3, <1>4
    <3>2. \A j \in Keys : entry[j].conn = None \/ entry[j].conn \in Links
      BY <1>1 DEF Types, Entries
    <3> QED
      BY <3>1, <3>2, <1>1, <1>9, <1>10 DEF Connections, EntryUse
  <2>4. NoConnection'
    <3> SUFFICES ASSUME NEW q \in Peers, entry'[q].conn = None
                 PROVE  /\ link'[q].ctx = None
                        /\ link'[q].state = "open" => callback'.link = q
                        /\ entry'[q].status # "none" => \/ entry'[q].status = "DISCONNECTED"
                                                       \/ link'[q].state \in {"connecting", "closed"}
                                                       \/ callback'.link = q
      BY DEF NoConnection, Known
    <3>1. CASE q = l
      BY <3>1, <1>1, <1>3, <1>4, <1>5, <1>7 DEF Connections, NoConnection
    <3>2. CASE q # l
      <4>1. link'[q] = link[q] /\ entry'[q] = entry[q] /\ q # None /\ entry[q].conn = None
        BY <3>2, <1>4, <1>5
      <4>2. /\ link[q].ctx = None
            /\ link[q].state = "open" => callback.link = q
            /\ entry[q].status # "none" => \/ entry[q].status = "DISCONNECTED"
                                           \/ link[q].state \in {"connecting", "closed"}
                                           \/ callback.link = q
        BY <4>1, <1>1 DEF Connections, NoConnection, Known
      <4> QED
        BY <4>1, <4>2, <1>2
    <3> QED
      BY <3>1, <3>2
  <2> QED
    BY <2>1, <2>2, <2>3, <2>4
<1>12. Numbered'
  BY <1>1, <1>2, <1>6, <1>9, <1>10 DEF Numbered
<1>13. Putting'
  <2> SUFFICES ASSUME putting # None
               PROVE  Putting'
    BY <1>2 DEF Putting
  <2>1. to[putting.msg] \in Peers
    BY <1>1 DEF Putting, Numbered, Types
  <2>2. entry'[to[putting.msg]].status # "none"
    BY <1>1, <1>3, <1>4, <2>1 DEF Putting, Known
  <2> QED
    BY <1>1, <1>2, <1>6, <1>9, <1>10, <2>1, <2>2 DEF Putting, Known
<1>14. \A q \in Peers : Waiting(q)' \subseteq Waiting(q)
  BY <1>6, <1>9 DEF Waiting
<1>15. InOrder'
  <2>1. \A j \in Links : Sorted(out'[j], overlap')
    BY <1>1, <1>2, <1>6, SortedMore DEF Kept, InOrder
  <2>2. \A k \in Keys : Sorted(entry'[k].pend, overlap')
    BY <1>1, <1>6, <1>9, SortedMore DEF Kept, InOrder
  <2> QED
    BY <1>1, <1>2, <1>6, <2>1, <2>2 DEF Kept, InOrder
<1>16. Waits'
  <2> SUFFICES ASSUME NEW q \in Peers, NEW m \in Waiting(q)
               PROVE  /\ link'[q].peer = q /\ link'[q].dir = "out"
                      /\ link'[q].state \in {"connecting", "closed"} \/ callback'.link = q
                      /\ \A j \in Links : m \notin ToSet(out[j])
                      /\ \A x \in ToSet(out[q]) : x \in overlap
                      /\ entry'[q].conn # q
    BY <1>2, <1>6, <1>14 DEF Waits
  <2>1. /\ link[q].peer = q /\ link[q].dir = "out"
        /\ link[q].state \in {"connecting", "closed"}
        /\ \A j \in Links : m \notin ToSet(out[j])
        /\ \A x \in ToSet(out[q]) : x \in overlap
        /\ entry[q].conn # q
    BY <1>1, <1>2 DEF Kept, Waits
  <2> QED
    BY <2>1, <1>5, <1>7, <1>9, <1>10
<1>17. SentHasConn'
  BY <1>1, <1>2, <1>6, <1>9 DEF Kept, SentHasConn
<1>18. Flushed'
  BY <1>7 DEF Flushed
<1>19. Somewhere'
  <2>1. \A m \in ToSet(order) : to[m] \in Peers
    BY <1>1, ToSetBounds DEF Numbered, Types
  <2>2. \A q \in Peers : \A m \in Waiting(q) : m \notin overlap' => m \in Waiting(q)'
    BY <1>9 DEF Waiting
  <2> QED
    BY <1>1, <1>2, <1>6, <2>1, <2>2 DEF Kept, Somewhere
<1>20. Results'
  BY <1>2, <1>10, ResultsKept DEF LinksKept
<1> QED
  BY <1>8, <1>11, <1>12, <1>13, <1>15, <1>16, <1>17, <1>18, <1>19, <1>20 DEF Inv, Connections, Kept

\* Part two: senders use the connection from now on.
LEMMA ConnectedConnPreserves ==
  ASSUME RemoteAssumption, Inv, ConnectedConn
  PROVE  Inv'
<1> USE Names
<1>1. Types /\ Connections /\ Numbered /\ Putting /\ Kept
  BY DEF Inv
<1>2. callback.next = "conn" /\ callback.next # None
  BY DEF ConnectedConn
<1>3. PICK l : l = callback.link
  OBVIOUS
<1>4. l \in Peers /\ l \in Links /\ l \in Keys /\ link[l].peer = l
      /\ link[l].state # "free" /\ entry[l].status # "none"
  BY <1>2, <1>3, CallbackFacts DEF Known
<1>5. /\ entry' = [entry EXCEPT ![l].conn = l]
      /\ callback' = [callback EXCEPT !.next = "flush"]
      /\ UNCHANGED <<link, out, putting, to, order, overlap, dead, call>>
  BY <1>3, <1>4 DEF ConnectedConn
<1>6. /\ entry' \in [Keys -> Entries]
      /\ entry'[l].status = entry[l].status /\ entry'[l].conn = l
      /\ entry'[l].pend = entry[l].pend
      /\ \A j \in Keys : j # l => entry'[j] = entry[j]
  <2>1. ConnSet(l, l) /\ entry \in [Keys -> Entries]
    BY <1>1, <1>5 DEF ConnSet, Types
  <2> QED
    BY <1>4, <2>1, ConnSetFields
<1>7. callback'.link = l /\ callback'.next = "flush"
      /\ callback' \in [link : Links \cup {None}, next : {"conn", "flush", "clear", None}]
  BY <1>1, <1>3, <1>5 DEF Types
<1>8. Types'
  BY <1>1, <1>5, <1>6, <1>7 DEF Types
<1>9. \A k \in Keys : entry'[k].status = entry[k].status /\ entry'[k].pend = entry[k].pend
  BY <1>6
<1>10. LinkUse' /\ CallbackUse' /\ EntryUse' /\ NoConnection'
  <2>1. LinkUse'
    BY <1>1, <1>5, <1>9 DEF Connections, LinkUse, Known
  <2>2. CallbackUse'
    BY <1>4, <1>5, <1>6, <1>7 DEF CallbackUse
  <2>3. EntryUse'
    <3>1. \A j \in Keys : entry'[j].status = "none" => entry'[j].conn = None
      BY <1>1, <1>4, <1>6 DEF Connections, EntryUse
    <3> QED
      BY <3>1, <1>1, <1>4, <1>5, <1>6 DEF Connections, EntryUse
  <2>4. NoConnection'
    BY <1>1, <1>3, <1>4, <1>5, <1>6, <1>7 DEF Connections, NoConnection, Known
  <2> QED
    BY <2>1, <2>2, <2>3, <2>4
<1>11. Numbered'
  BY <1>1, <1>5, <1>9 DEF Numbered
<1>12. Putting'
  <2> SUFFICES ASSUME putting # None
               PROVE  Putting'
    BY <1>5 DEF Putting
  <2>1. to[putting.msg] \in Peers
    BY <1>1 DEF Putting, Numbered, Types
  <2> QED
    BY <1>1, <1>3, <1>4, <1>5, <1>6, <1>7, <1>9, <2>1 DEF Putting, Known
<1>13. \A q \in Peers : Waiting(q)' = Waiting(q)
  BY <1>5, <1>9 DEF Waiting
<1>14. InOrder'
  BY <1>1, <1>5, <1>9 DEF Kept, InOrder
<1>15. Waits'
  <2> SUFFICES ASSUME NEW q \in Peers, NEW m \in Waiting(q)
               PROVE  /\ link[q].peer = q /\ link[q].dir = "out"
                      /\ link[q].state \in {"connecting", "closed"} \/ callback'.link = q
                      /\ \A j \in Links : m \notin ToSet(out[j])
                      /\ \A x \in ToSet(out[q]) : x \in overlap
                      /\ entry'[q].conn = q => callback'.link = q /\ callback'.next = "flush"
    BY <1>5, <1>13 DEF Waits
  <2>1. /\ link[q].peer = q /\ link[q].dir = "out"
        /\ link[q].state \in {"connecting", "closed"} \/ callback.link = q
        /\ \A j \in Links : m \notin ToSet(out[j])
        /\ \A x \in ToSet(out[q]) : x \in overlap
        /\ entry[q].conn # q
    BY <1>1, <1>2 DEF Kept, Waits
  <2> QED
    BY <2>1, <1>3, <1>6, <1>7
<1>16. SentHasConn'
  BY <1>1, <1>4, <1>5, <1>6 DEF Kept, SentHasConn
<1>17. Flushed'
  BY <1>7 DEF Flushed
<1>18. Somewhere'
  <2>1. \A m \in ToSet(order) : to[m] \in Peers
    BY <1>1, ToSetBounds DEF Numbered, Types
  <2> QED
    BY <1>1, <1>5, <1>13, <2>1 DEF Kept, Somewhere
<1>19. Results'
  BY <1>5, ResultsKept DEF LinksKept
<1> QED
  BY <1>8, <1>10, <1>11, <1>12, <1>14, <1>15, <1>16, <1>17, <1>18, <1>19 DEF Inv, Connections, Kept

\* Part three: what waited is sent, behind overlapped messages at most.
LEMMA ConnectedFlushPreserves ==
  ASSUME RemoteAssumption, Inv, ConnectedFlush
  PROVE  Inv'
<1> USE Names
<1>1. Types /\ Connections /\ Numbered /\ Putting /\ Kept
  BY DEF Inv
<1>2. callback.next = "flush" /\ callback.next # None
  BY DEF ConnectedFlush
<1>3. PICK l : l = callback.link
  OBVIOUS
<1>4. /\ l \in Peers /\ l \in Links /\ l \in Keys /\ link[l].peer = l
      /\ link[l].state # "free" /\ entry[l].conn # None
  BY <1>2, <1>3, CallbackFacts
<1>5. /\ out' = [out EXCEPT ![l] = out[l] \o entry[l].pend]
      /\ callback' = [callback EXCEPT !.next = "clear"]
      /\ UNCHANGED <<entry, link, putting, to, order, overlap, dead, call>>
  BY <1>3, <1>4 DEF ConnectedFlush
<1>6. /\ entry[l].pend \in Seq(Msgs) /\ out[l] \in Seq(Msgs)
      /\ out' \in [Links -> Seq(Msgs)]
      /\ out'[l] = out[l] \o entry[l].pend
      /\ \A j \in Links : j # l => out'[j] = out[j]
  <2>1. entry[l].pend \in Seq(Msgs) /\ out[l] \in Seq(Msgs)
    BY <1>1, <1>4 DEF Types, Entries
  <2>2. out[l] \o entry[l].pend \in Seq(Msgs)
    BY <2>1
  <2> QED
    BY <1>1, <1>4, <1>5, <2>1, <2>2 DEF Types
<1>7. ToSet(out'[l]) = ToSet(out[l]) \cup ToSet(entry[l].pend)
  BY <1>6, ToSetConcat
<1>8. callback'.link = l /\ callback'.next = "clear"
      /\ callback' \in [link : Links \cup {None}, next : {"conn", "flush", "clear", None}]
  BY <1>1, <1>3, <1>5 DEF Types
<1>9. Types'
  BY <1>1, <1>5, <1>6, <1>8 DEF Types
<1>10. LinkUse' /\ CallbackUse' /\ EntryUse' /\ NoConnection'
  <2>1. LinkUse'
    BY <1>1, <1>5 DEF Connections, LinkUse, Known
  <2>2. CallbackUse'
    BY <1>4, <1>5, <1>8 DEF CallbackUse
  <2>3. EntryUse'
    BY <1>1, <1>5 DEF Connections, EntryUse
  <2>4. NoConnection'
    BY <1>1, <1>3, <1>5, <1>8 DEF Connections, NoConnection, Known
  <2> QED
    BY <2>1, <2>2, <2>3, <2>4
<1>11. Numbered'
  BY <1>1, <1>4, <1>5, <1>6, <1>7 DEF Numbered
<1>12. Putting'
  BY <1>1, <1>3, <1>4, <1>5, <1>6, <1>7, <1>8 DEF Putting, Known
\* Nothing that waits for this connection has been sent, on it or on another.
<1>13. /\ \A m \in Waiting(l) : \A j \in Links : m \notin ToSet(out[j])
       /\ \A x \in ToSet(out[l]), y \in ToSet(entry[l].pend) : x \in overlap \/ y \in overlap
  BY <1>1, <1>2, <1>4 DEF Kept, Waits, Waiting
<1>14. InOrder'
  <2>1. Sorted(out'[l], overlap)
    <3>1. Sorted(out[l], overlap) /\ Sorted(entry[l].pend, overlap)
      BY <1>1, <1>4 DEF Kept, InOrder
    <3>2. \A x \in ToSet(out[l]), y \in ToSet(entry[l].pend) : x \notin overlap /\ y \notin overlap => x < y
      BY <1>13
    <3>3. Sorted(out[l] \o entry[l].pend, overlap)
      BY <3>1, <3>2, <1>6, SortedConcat
    <3> QED
      BY <3>3, <1>6
  <2>2. \A j \in Links : Sorted(out'[j], overlap')
    BY <1>1, <1>5, <1>6, <2>1 DEF Kept, InOrder
  <2>3. ASSUME NEW i \in Links, NEW j \in Links, NEW m \in ToSet(out'[i]) \cap ToSet(out'[j]),
               m \notin overlap
        PROVE  i = j
    <3>1. \A n \in Links : m \in ToSet(out'[n]) => m \in ToSet(out[n]) \/ (n = l /\ m \in Waiting(l))
      BY <1>6, <1>7, <2>3 DEF Waiting
    <3>2. m \in ToSet(out[i]) /\ m \in ToSet(out[j]) => i = j
      BY <1>1, <2>3 DEF Kept, InOrder
    <3> QED
      BY <3>1, <3>2, <1>13, <2>3
  <2> QED
    BY <1>1, <1>5, <2>2, <2>3 DEF Kept, InOrder
<1>15. \A q \in Peers : Waiting(q)' = Waiting(q)
  BY <1>5 DEF Waiting
<1>16. Waits'
  <2> SUFFICES ASSUME NEW q \in Peers, NEW m \in Waiting(q)
               PROVE  /\ link[q].peer = q /\ link[q].dir = "out"
                      /\ link[q].state \in {"connecting", "closed"} \/ callback'.link = q
                      /\ q # l => /\ \A j \in Links : m \notin ToSet(out'[j])
                                  /\ \A x \in ToSet(out'[q]) : x \in overlap
                                  /\ entry[q].conn # q
    BY <1>5, <1>8, <1>15 DEF Waits
  <2>1. /\ link[q].peer = q /\ link[q].dir = "out"
        /\ link[q].state \in {"connecting", "closed"} \/ callback.link = q
        /\ q # l => /\ \A j \in Links : m \notin ToSet(out[j])
                    /\ \A x \in ToSet(out[q]) : x \in overlap
                    /\ entry[q].conn # q
    BY <1>1, <1>3 DEF Kept, Waits
  <2>2. q # l => m \notin ToSet(entry[l].pend)
    BY <1>1, <1>4 DEF Numbered, Waiting
  <2> QED
    BY <2>1, <2>2, <1>3, <1>6, <1>7, <1>8
<1>17. SentHasConn'
  BY <1>1, <1>4, <1>5, <1>6 DEF Kept, SentHasConn
<1>18. Flushed'
  BY <1>4, <1>5, <1>7, <1>8, <1>15 DEF Flushed, Waiting
<1>19. Somewhere'
  <2>1. \A m \in ToSet(order) : to[m] \in Peers
    BY <1>1, ToSetBounds DEF Numbered, Types
  <2>2. \A j \in Links : ToSet(out[j]) \subseteq ToSet(out'[j])
    BY <1>6, <1>7
  <2> QED
    BY <1>1, <1>5, <1>15, <2>1, <2>2 DEF Kept, Somewhere
<1>20. Results'
  BY <1>5, ResultsKept DEF LinksKept
<1> QED
  BY <1>9, <1>10, <1>11, <1>12, <1>14, <1>16, <1>17, <1>18, <1>19, <1>20 DEF Inv, Connections, Kept

\* Part four: what was sent is forgotten; nothing else waited.
LEMMA ConnectedClearPreserves ==
  ASSUME RemoteAssumption, Inv, ConnectedClear
  PROVE  Inv'
<1> USE Names
<1>1. Types /\ Connections /\ Numbered /\ Putting /\ Kept
  BY DEF Inv
<1>2. callback.next = "clear" /\ callback.next # None
  BY DEF ConnectedClear
<1>3. PICK l : l = callback.link
  OBVIOUS
<1>4. /\ l \in Peers /\ l \in Links /\ l \in Keys /\ link[l].peer = l
      /\ link[l].state # "free" /\ entry[l].conn # None
  BY <1>2, <1>3, CallbackFacts
<1>5. /\ entry' = [entry EXCEPT ![l].pend = <<>>]
      /\ callback' = Idle
      /\ UNCHANGED <<link, out, putting, to, order, overlap, dead, call>>
  BY <1>3, <1>4 DEF ConnectedClear
<1>6. /\ entry' \in [Keys -> Entries]
      /\ entry'[l].status = entry[l].status /\ entry'[l].conn = entry[l].conn
      /\ entry'[l].pend = <<>>
      /\ \A j \in Keys : j # l => entry'[j] = entry[j]
  <2>1. PendSet(l, <<>>) /\ entry \in [Keys -> Entries] /\ <<>> \in Seq(Msgs)
    BY <1>1, <1>5 DEF PendSet, Types
  <2> QED
    BY <1>4, <2>1, PendSetFields
<1>7. callback'.link = None /\ callback'.next = None
      /\ callback' \in [link : Links \cup {None}, next : {"conn", "flush", "clear", None}]
  BY <1>5 DEF Idle
<1>8. Types'
  BY <1>1, <1>5, <1>6, <1>7 DEF Types
<1>9. \A k \in Keys : /\ entry'[k].status = entry[k].status /\ entry'[k].conn = entry[k].conn
                      /\ entry'[k].pend = entry[k].pend \/ entry'[k].pend = <<>>
  BY <1>6
<1>10. LinkUse' /\ CallbackUse' /\ EntryUse' /\ NoConnection'
  <2>1. LinkUse'
    BY <1>1, <1>5, <1>9 DEF Connections, LinkUse, Known
  <2>2. CallbackUse'
    BY <1>7 DEF CallbackUse
  <2>3. EntryUse'
    BY <1>1, <1>5, <1>9 DEF Connections, EntryUse
  <2>4. NoConnection'
    BY <1>1, <1>3, <1>4, <1>5, <1>7, <1>9 DEF Connections, NoConnection, Known
  <2> QED
    BY <2>1, <2>2, <2>3, <2>4
<1>11. \A k \in Keys : ToSet(entry'[k].pend) \subseteq ToSet(entry[k].pend)
  BY <1>9, ToSetBounds
<1>12. Numbered'
  BY <1>1, <1>5, <1>11 DEF Numbered
<1>13. Putting'
  <2> SUFFICES ASSUME putting # None
               PROVE  Putting'
    BY <1>5 DEF Putting
  <2>1. to[putting.msg] \in Peers
    BY <1>1 DEF Putting, Numbered, Types
  <2> QED
    BY <1>1, <1>5, <1>7, <1>9, <1>11, <2>1, SMTT(30) DEF Putting, Known
<1>14. Waiting(l)' = {} /\ \A q \in Peers : q # l => Waiting(q)' = Waiting(q)
  BY <1>4, <1>5, <1>6, ToSetBounds DEF Waiting
<1>15. InOrder'
  <2>1. Sorted(<<>>, overlap)
    BY DEF Sorted
  <2>2. \A k \in Keys : Sorted(entry'[k].pend, overlap)
    BY <1>1, <1>9, <2>1 DEF Kept, InOrder
  <2> QED
    BY <1>1, <1>5, <2>2 DEF Kept, InOrder
<1>16. Waits'
  <2> SUFFICES ASSUME NEW q \in Peers, q # l, NEW m \in Waiting(q)
               PROVE  /\ link[q].peer = q /\ link[q].dir = "out"
                      /\ link[q].state \in {"connecting", "closed"}
                      /\ \A j \in Links : m \notin ToSet(out[j])
                      /\ \A x \in ToSet(out[q]) : x \in overlap
                      /\ entry'[q].conn # q
    BY <1>5, <1>14 DEF Waits
  <2> QED
    BY <1>1, <1>3, <1>9 DEF Kept, Waits
<1>17. SentHasConn'
  BY <1>1, <1>5, <1>9 DEF Kept, SentHasConn
<1>18. Flushed'
  BY <1>7 DEF Flushed
<1>19. Somewhere'
  <2>1. \A m \in ToSet(order) : to[m] \in Peers
    BY <1>1, ToSetBounds DEF Numbered, Types
  <2>2. \A m \in Waiting(l) : m \in ToSet(out[l])
    BY <1>1, <1>2, <1>3 DEF Kept, Flushed
  <2> QED
    BY <1>1, <1>4, <1>5, <1>14, <2>1, <2>2 DEF Kept, Somewhere
<1>20. Results'
  BY <1>5, ResultsKept DEF LinksKept
<1> QED
  BY <1>8, <1>10, <1>12, <1>13, <1>15, <1>16, <1>17, <1>18, <1>19, <1>20 DEF Inv, Connections, Kept

-----------------------------------------------------------------------------
(* put_message and invocation_request.                                      *)

\* A new message is newer than every message that was accepted before.
LEMMA Newest ==
  ASSUME RemoteAssumption, Inv, NEW m \in Msgs, NextMsg(m)
  PROVE  /\ m \notin ToSet(order)
         /\ \A x \in ToSet(order) : x < m
<1>1. /\ Numbered /\ ToSet(order) \subseteq Msgs
      /\ to[m] = None /\ \A i \in 1..(m - 1) : to[i] # None
  BY ToSetBounds DEF Inv, Types, NextMsg
<1>2. m \notin ToSet(order)
  BY <1>1 DEF Numbered
<1>3. \A x \in Msgs : x \in Int /\ x >= 1
  BY DEF Msgs
<1>4. ASSUME NEW x \in ToSet(order)
      PROVE  x < m
  <2>1. x \in Msgs /\ x \in Int /\ m \in Int /\ m >= 1 /\ x # m /\ to[x] # None
    BY <1>1, <1>2, <1>3 DEF Numbered
  <2>2. \A i \in 1..(x - 1) : to[i] # None
    BY <1>1, <2>1 DEF Numbered
  <2>3. ~(m < x)
    BY <1>1, <2>1, <2>2
  <2> QED
    BY <2>1, <2>3
<1> QED
  BY <1>2, <1>4

\* A message for a process that is not known is refused.
LEMMA PutUnknownPreserves ==
  ASSUME RemoteAssumption, Inv, NEW q \in Peers, NEW m \in Msgs, PutUnknown(q, m)
  PROVE  Inv'
<1> USE Names
<1>1. Types /\ Connections /\ Numbered /\ Putting /\ Kept /\ ToSet(order) \subseteq Msgs
  BY ToSetBounds DEF Inv, Types
<1>2. /\ putting = None /\ NextMsg(m)
      /\ to' = [to EXCEPT ![m] = q]
      /\ UNCHANGED <<entry, link, out, callback, putting, order, overlap, dead, call>>
  BY DEF PutUnknown, Mutex
<1>3. /\ to' \in [Msgs -> Peers \cup {None}]
      /\ to'[m] = q /\ \A x \in Msgs : x # m => to'[x] = to[x]
  BY <1>1, <1>2 DEF Types
<1>4. \A x \in ToSet(order) : to'[x] = to[x]
  BY <1>1, <1>2, <1>3, Newest
<1>5. Types'
  BY <1>1, <1>2, <1>3 DEF Types
<1>6. LinkUse' /\ CallbackUse' /\ EntryUse' /\ NoConnection'
  BY <1>1, <1>2 DEF Connections, LinkUse, CallbackUse, EntryUse, NoConnection, Known
<1>7. \A x \in Msgs : to'[x] # None => \A i \in 1..(x - 1) : to'[i] # None
  <2> SUFFICES ASSUME NEW x \in Msgs, to'[x] # None, NEW i \in 1..(x - 1)
               PROVE  to'[i] # None
    OBVIOUS
  <2>1. to[i] # None
    BY <1>1, <1>2, <1>3 DEF Numbered, NextMsg
  <2>2. i \in Msgs
    BY DEF Msgs, RemoteAssumption
  <2> QED
    BY <2>1, <2>2, <1>3
<1>8. Numbered'
  BY <1>1, <1>2, <1>4, <1>7 DEF Numbered
<1>9. Putting'
  BY <1>2 DEF Putting
<1>10. \A k \in Keys : Waiting(k)' = Waiting(k)
  BY <1>2 DEF Waiting
<1>11. InOrder' /\ SentHasConn'
  BY <1>1, <1>2 DEF Kept, InOrder, SentHasConn
<1>12. Waits'
  BY <1>1, <1>2, <1>10 DEF Kept, Waits
<1>13. Flushed'
  BY <1>1, <1>2 DEF Kept, Flushed, Waiting
<1>14. Somewhere'
  BY <1>1, <1>2, <1>4 DEF Kept, Somewhere, Waiting
<1>15. Results'
  BY <1>2, ResultsKept DEF LinksKept
<1> QED
  BY <1>5, <1>6, <1>8, <1>9, <1>11, <1>12, <1>13, <1>14, <1>15 DEF Inv, Connections, Kept

\* The test of put_message: a call that meets the callback of its own process
\* is overlapped.
LEMMA PutTestPreserves ==
  ASSUME RemoteAssumption, Inv, NEW q \in Peers, NEW m \in Msgs, PutTest(q, m)
  PROVE  Inv'
<1> USE Names
<1>1. /\ Types /\ Connections /\ Numbered /\ Putting /\ Kept
      /\ order \in Seq(Msgs) /\ ToSet(order) \subseteq Msgs
  BY ToSetBounds DEF Inv, Types
<1>2. /\ putting = None /\ NextMsg(m) /\ entry[q].status # "none"
      /\ to' = [to EXCEPT ![m] = q]
      /\ order' = Append(order, m)
      /\ putting' = [msg |-> m, direct |-> entry[q].conn # None]
      /\ overlap' = IF callback # Idle /\ link[callback.link].peer = q THEN overlap \cup {m} ELSE overlap
      /\ UNCHANGED <<entry, link, out, callback, dead, call>>
  BY DEF PutTest, Mutex, Known
<1>3. /\ to' \in [Msgs -> Peers \cup {None}]
      /\ to'[m] = q /\ \A x \in Msgs : x # m => to'[x] = to[x]
  BY <1>1, <1>2 DEF Types
<1>4. m \notin ToSet(order) /\ \A x \in ToSet(order) : x < m /\ to'[x] = to[x]
  BY <1>1, <1>2, <1>3, Newest
<1>5. ToSet(order') = ToSet(order) \cup {m} /\ order' \in Seq(Msgs)
  BY <1>1, <1>2, ToSetAppend
<1>6. /\ putting' # None /\ putting'.msg = m /\ (putting'.direct <=> entry[q].conn # None)
      /\ putting' \in [msg : Msgs, direct : BOOLEAN]
  <2>1. putting' \in [msg : Msgs, direct : BOOLEAN]
    BY <1>2
  <2> QED
    BY <2>1, <1>2
<1>7. /\ overlap \subseteq overlap' /\ overlap' \subseteq overlap \cup {m}
      /\ callback.link = q => m \in overlap'
  <2>1. callback.link = q => callback # Idle /\ link[callback.link].peer = q
    BY <1>1 DEF Connections, CallbackUse, LinkUse, Idle
  <2> QED
    BY <1>2, <2>1
<1>8. Types'
  BY <1>1, <1>2, <1>3, <1>5, <1>6, <1>7 DEF Types
<1>9. LinkUse' /\ CallbackUse' /\ EntryUse' /\ NoConnection'
  BY <1>1, <1>2 DEF Connections, LinkUse, CallbackUse, EntryUse, NoConnection, Known
<1>10. Numbered'
  <2>1. \A x \in Msgs : to'[x] # None => \A i \in 1..(x - 1) : to'[i] # None
    <3> SUFFICES ASSUME NEW x \in Msgs, to'[x] # None, NEW i \in 1..(x - 1)
                 PROVE  to'[i] # None
      OBVIOUS
    <3>1. to[i] # None
      BY <1>1, <1>2, <1>3 DEF Numbered, NextMsg
    <3>2. i \in Msgs
      BY DEF Msgs, RemoteAssumption
    <3> QED
      BY <3>1, <3>2, <1>3
  <2>2. \A x \in ToSet(order') : to'[x] # None
    BY <1>1, <1>3, <1>4, <1>5 DEF Numbered
  <2>3. \A i, j \in DOMAIN order' : i < j => order'[i] < order'[j]
    <3>1. /\ Len(order') = Len(order) + 1 /\ Len(order) \in Nat
          /\ \A i \in 1..Len(order) : order'[i] = order[i]
          /\ order'[Len(order) + 1] = m
      BY <1>1, <1>2
    <3>2. \A i \in 1..Len(order) : order[i] < m
      BY <1>1, <1>4 DEF ToSet
    <3>3. DOMAIN order' = 1..(Len(order) + 1) /\ DOMAIN order = 1..Len(order)
      BY <3>1, <1>1, <1>5
    <3> SUFFICES ASSUME NEW i \in 1..(Len(order) + 1), NEW j \in 1..(Len(order) + 1), i < j
                 PROVE  order'[i] < order'[j]
      BY <3>3
    <3>4. i \in 1..Len(order)
      BY <3>1
    <3>5. CASE j \in 1..Len(order)
      BY <3>1, <3>3, <3>4, <3>5, <1>1 DEF Numbered
    <3>6. CASE j = Len(order) + 1
      BY <3>1, <3>2, <3>4, <3>6
    <3> QED
      BY <3>1, <3>5, <3>6
  <2>4. \A k \in Keys : \A x \in ToSet(entry[k].pend) : x \in ToSet(order') /\ to'[x] = k
    BY <1>1, <1>4, <1>5 DEF Numbered
  <2>5. \A l \in Links : \A x \in ToSet(out[l]) : x \in ToSet(order') /\ link[l].peer = to'[x]
    BY <1>1, <1>4, <1>5 DEF Numbered
  <2>6. overlap' \cup dead \subseteq ToSet(order')
    BY <1>1, <1>5, <1>7 DEF Numbered
  <2> QED
    BY <1>2, <2>1, <2>2, <2>3, <2>4, <2>5, <2>6 DEF Numbered
<1>11. Putting'
  <2>1. \A x \in ToSet(order') : x <= m
    BY <1>1, <1>4, <1>5 DEF Msgs
  <2>2. \A k \in Keys : m \notin ToSet(entry[k].pend)
    BY <1>1, <1>4 DEF Numbered
  <2>3. \A l \in Links : m \notin ToSet(out[l])
    BY <1>1, <1>4 DEF Numbered
  <2>4. entry[q].conn = None => link[q].ctx = None
    BY <1>1 DEF Connections, NoConnection
  <2> QED
    BY <1>2, <1>3, <1>5, <1>6, <1>7, <2>1, <2>2, <2>3, <2>4 DEF Putting, Known
<1>12. \A k \in Keys : Waiting(k)' = Waiting(k)
  <2>1. \A k \in Keys : m \notin ToSet(entry[k].pend)
    BY <1>1, <1>4 DEF Numbered
  <2> QED
    BY <1>2, <1>7, <2>1 DEF Waiting
<1>13. InOrder'
  <2>1. \A j \in Links : Sorted(out'[j], overlap')
    BY <1>1, <1>2, <1>7, SortedMore DEF Kept, InOrder
  <2>2. \A k \in Keys : Sorted(entry'[k].pend, overlap')
    BY <1>1, <1>2, <1>7, SortedMore DEF Kept, InOrder
  <2> QED
    BY <1>1, <1>2, <1>7, <2>1, <2>2 DEF Kept, InOrder
<1>14. Waits'
  BY <1>1, <1>2, <1>7, <1>12 DEF Kept, Waits
<1>15. SentHasConn'
  BY <1>1, <1>2, <1>7 DEF Kept, SentHasConn
<1>16. Flushed'
  <2>1. callback.next = "clear" => callback.link \in Keys
    BY <1>1 DEF Connections, CallbackUse
  <2> QED
    BY <1>1, <1>2, <1>12, <2>1 DEF Kept, Flushed
<1>17. Somewhere'
  <2>1. \A x \in ToSet(order) : to[x] \in Keys
    BY <1>1 DEF Numbered, Types
  <2> QED
    BY <1>1, <1>2, <1>4, <1>5, <1>6, <1>7, <1>12, <2>1 DEF Kept, Somewhere
<1>18. Results'
  BY <1>2, ResultsKept DEF LinksKept
<1> QED
  BY <1>8, <1>9, <1>10, <1>11, <1>13, <1>14, <1>15, <1>16, <1>17, <1>18 DEF Inv, Connections, Kept

\* What the invariant says about the message that is being put.
LEMMA PuttingFacts ==
  ASSUME RemoteAssumption, Inv, putting # None
  PROVE  /\ putting.msg \in Msgs /\ putting.direct \in BOOLEAN
         /\ putting.msg \in ToSet(order) /\ to[putting.msg] \in Peers
         /\ \A k \in Keys : \A x \in ToSet(entry[k].pend) : x < putting.msg
         /\ \A l \in Links : \A x \in ToSet(out[l]) : x < putting.msg
<1>1. /\ Types /\ Numbered /\ Putting /\ ToSet(order) \subseteq Msgs
  BY ToSetBounds DEF Inv, Types
<1>2. putting.msg \in Msgs /\ putting.direct \in BOOLEAN
  BY <1>1 DEF Types
<1>3. putting.msg \in ToSet(order) /\ to[putting.msg] \in Peers
  BY <1>1 DEF Putting, Numbered, Types
<1>4. \A x \in ToSet(order) : x # putting.msg => x < putting.msg
  BY <1>1, <1>2 DEF Putting, Msgs
<1> QED
  BY <1>1, <1>2, <1>3, <1>4 DEF Putting, Numbered

\* The message is sent on the connection its process has now, or lost with it.
LEMMA PutSendPreserves ==
  ASSUME RemoteAssumption, Inv, PutSend
  PROVE  Inv'
<1> USE Names
<1>1. Types /\ Connections /\ Numbered /\ Putting /\ Kept
  BY DEF Inv
<1>2. PICK m, q, l : m = putting.msg /\ q = to[m] /\ l = entry[q].conn
  OBVIOUS
<1>3. /\ putting # None /\ putting.direct /\ putting' = None
      /\ \/ out' = [out EXCEPT ![l] = Append(out[l], m)] /\ dead' = dead
         \/ dead' = dead \cup {m} /\ out' = out
      /\ UNCHANGED <<entry, link, callback, to, order, overlap, call>>
  BY <1>2, SMTT(30) DEF PutSend
<1>4. /\ m \in Msgs /\ m \in ToSet(order) /\ q \in Peers
      /\ \A j \in Links : \A x \in ToSet(out[j]) : x < m
  BY <1>2, <1>3, PuttingFacts, SMTT(30)
<1>5. /\ \A k \in Keys : m \notin ToSet(entry[k].pend)
      /\ \A j \in Links : m \notin ToSet(out[j])
      /\ l # None
      /\ callback.link = q => m \in overlap
  BY <1>1, <1>2, <1>3 DEF Putting
<1>6. l \in Links /\ link[l].peer = q
  BY <1>1, <1>2, <1>4, <1>5 DEF Types, Entries, Connections, EntryUse
<1>7. /\ out' \in [Links -> Seq(Msgs)]
      /\ \A j \in Links : j # l => out'[j] = out[j]
      /\ \/ /\ out'[l] = Append(out[l], m)
            /\ ToSet(out'[l]) = ToSet(out[l]) \cup {m}
         \/ out'[l] = out[l] /\ m \in dead'
      /\ dead' \subseteq dead \cup {m} /\ dead \subseteq dead'
  <2>1. out \in [Links -> Seq(Msgs)] /\ out[l] \in Seq(Msgs)
    BY <1>1, <1>6 DEF Types
  <2>2. CASE out' = [out EXCEPT ![l] = Append(out[l], m)] /\ dead' = dead
    <3>1. Append(out[l], m) \in Seq(Msgs)
      BY <2>1, <1>4
    <3>2. ToSet(Append(out[l], m)) = ToSet(out[l]) \cup {m}
      BY <2>1, <1>4, ToSetAppend
    <3> QED
      BY <2>1, <2>2, <3>1, <3>2, <1>6
  <2>3. CASE dead' = dead \cup {m} /\ out' = out
    BY <2>1, <2>3
  <2> QED
    BY <1>3, <2>2, <2>3
<1>8. \A j \in Links : /\ ToSet(out[j]) \subseteq ToSet(out'[j])
                       /\ \A x \in ToSet(out'[j]) : x \in ToSet(out[j]) \/ (j = l /\ x = m)
  BY <1>7
<1>9. Types'
  BY <1>1, <1>3, <1>4, <1>7 DEF Types
<1>10. LinkUse' /\ CallbackUse' /\ EntryUse' /\ NoConnection'
  BY <1>1, <1>3 DEF Connections, LinkUse, CallbackUse, EntryUse, NoConnection, Known
<1>11. Numbered'
  <2>1. \A j \in Links : \A x \in ToSet(out'[j]) : x \in ToSet(order) /\ link[j].peer = to[x]
    BY <1>1, <1>2, <1>4, <1>6, <1>8 DEF Numbered
  <2> QED
    BY <1>1, <1>3, <1>4, <1>7, <2>1 DEF Numbered
<1>12. Putting'
  BY <1>3 DEF Putting
<1>13. \A k \in Keys : Waiting(k)' = Waiting(k)
  BY <1>3 DEF Waiting
<1>14. InOrder'
  <2>1. Sorted(out'[l], overlap)
    <3>1. Sorted(out[l], overlap) /\ out[l] \in Seq(Msgs)
      BY <1>1, <1>6 DEF Kept, InOrder, Types
    <3>2. \A y \in ToSet(out[l]) : y \notin overlap => y < m
      BY <1>4, <1>6
    <3>3. Sorted(Append(out[l], m), overlap)
      BY <3>1, <3>2, <1>4, SortedAppend
    <3> QED
      BY <3>1, <3>3, <1>7
  <2>2. \A j \in Links : Sorted(out'[j], overlap)
    BY <1>1, <1>7, <2>1 DEF Kept, InOrder
  <2>3. \A i, j \in Links : \A x \in ToSet(out'[i]) \cap ToSet(out'[j]) : x \notin overlap => i = j
    BY <1>1, <1>5, <1>8 DEF Kept, InOrder
  <2> QED
    BY <1>1, <1>3, <2>2, <2>3 DEF Kept, InOrder
<1>15. Waits'
  <2> SUFFICES ASSUME NEW p \in Peers, NEW x \in Waiting(p)
               PROVE  /\ link[p].peer = p /\ link[p].dir = "out"
                      /\ link[p].state \in {"connecting", "closed"} \/ callback.link = p
                      /\ \A j \in Links : x \in ToSet(out'[j]) => callback.link = p /\ callback.next = "clear"
                      /\ \A y \in ToSet(out'[p]) : y \notin overlap => callback.link = p /\ callback.next = "clear"
                      /\ entry[p].conn = p => callback.link = p /\ callback.next \in {"flush", "clear"}
    BY <1>3, <1>13 DEF Waits
  <2>1. /\ link[p].peer = p /\ link[p].dir = "out"
        /\ link[p].state \in {"connecting", "closed"} \/ callback.link = p
        /\ \A j \in Links : x \in ToSet(out[j]) => callback.link = p /\ callback.next = "clear"
        /\ \A y \in ToSet(out[p]) : y \notin overlap => callback.link = p /\ callback.next = "clear"
        /\ entry[p].conn = p => callback.link = p /\ callback.next \in {"flush", "clear"}
    BY <1>1 DEF Kept, Waits
  <2>2. x # m
    BY <1>5 DEF Waiting
  <2>3. l = p => m \in overlap
    BY <1>2, <1>5, <1>6, <2>1
  <2> QED
    BY <2>1, <2>2, <2>3, <1>8
<1>16. SentHasConn'
  <2>1. \A p \in Peers : l = p => p = q
    BY <1>1, <1>4, <1>6 DEF Connections, LinkUse
  <2> QED
    BY <1>1, <1>2, <1>3, <1>5, <1>8, <2>1 DEF Kept, SentHasConn
<1>17. Flushed'
  <2>1. callback.next = "clear" => callback.link \in Peers
    BY <1>1 DEF Connections, CallbackUse
  <2> QED
    BY <1>1, <1>3, <1>8, <1>13, <2>1 DEF Kept, Flushed
<1>18. Somewhere'
  <2>1. \A x \in ToSet(order) : to[x] \in Keys
    BY <1>1, ToSetBounds DEF Numbered, Types
  <2>2. m \in dead' \/ \E j \in Links : m \in ToSet(out'[j])
    BY <1>6, <1>7
  <2> QED
    <3> SUFFICES ASSUME NEW x \in ToSet(order) \ overlap, x # m
                 PROVE  \/ \E j \in Links : x \in ToSet(out'[j])
                        \/ x \in Waiting(to[x])'
                        \/ x \in dead'
      BY <1>3, <2>2 DEF Somewhere, Waiting
    <3>1. \/ \E j \in Links : x \in ToSet(out[j])
          \/ x \in Waiting(to[x])
          \/ x \in dead
      BY <1>1, <1>2 DEF Kept, Somewhere
    <3>2. x \in Waiting(to[x]) => x \in Waiting(to[x])'
      BY <1>3 DEF Waiting
    <3> QED
      BY <3>1, <3>2, <1>7, <1>8
<1>19. Results'
  BY <1>3, ResultsKept DEF LinksKept
<1> QED
  BY <1>9, <1>10, <1>11, <1>12, <1>14, <1>15, <1>16, <1>17, <1>18, <1>19 DEF Inv, Connections, Kept

\* The message is kept, and the first one opens a connection.  It may be that
\* the connection came and went since the test: then the message is overlapped.
LEMMA PutStorePreserves ==
  ASSUME RemoteAssumption, Inv, PutStore
  PROVE  Inv'
<1> USE Names
<1>1. Types /\ Connections /\ Numbered /\ Putting /\ Kept
  BY DEF Inv
<1>2. PICK m, q, s : m = putting.msg /\ q = to[m] /\ s = Append(entry[q].pend, m)
  OBVIOUS
<1>3. /\ putting # None /\ ~putting.direct /\ putting' = None
      /\ \/ /\ entry[q].status = "DISCONNECTED"
            /\ link' = [link EXCEPT ![q] = [peer |-> q, dir |-> "out", state |-> "connecting", ctx |-> None]]
            /\ Opening(q, s)
         \/ /\ entry[q].status # "DISCONNECTED"
            /\ link' = link
            /\ PendSet(q, s)
      /\ UNCHANGED <<out, callback, to, order, overlap, dead, call>>
  BY <1>2 DEF PutStore, Opening, PendSet
<1>4. /\ m \in Msgs /\ m \in ToSet(order) /\ q \in Peers
      /\ \A x \in ToSet(entry[q].pend) : x < m
  BY <1>2, <1>3, PuttingFacts
<1>5. /\ \A k \in Keys : m \notin ToSet(entry[k].pend)
      /\ \A j \in Links : m \notin ToSet(out[j])
      /\ entry[q].status # "none" /\ link[q].ctx = None
      /\ entry[q].conn # None => m \in overlap
      /\ callback.link = q => m \in overlap
  BY <1>1, <1>2, <1>3 DEF Putting, Known
<1>6. entry[q].pend \in Seq(Msgs) /\ s \in Seq(Msgs) /\ ToSet(s) = ToSet(entry[q].pend) \cup {m}
  <2>1. entry[q].pend \in Seq(Msgs)
    BY <1>1, <1>4 DEF Types, Entries
  <2> QED
    BY <2>1, <1>2, <1>4, ToSetAppend
<1>7. /\ entry' \in [Keys -> Entries]
      /\ entry'[q].status # "none" /\ entry'[q].conn = entry[q].conn
      /\ entry'[q].status # entry[q].status => entry'[q].status = "CONNECTING"
      /\ entry'[q].pend = s
      /\ \A j \in Keys : j # q => entry'[j] = entry[j]
  <2>1. entry \in [Keys -> Entries] /\ q \in Keys
    BY <1>1, <1>4 DEF Types
  <2>2. CASE Opening(q, s)
    <3>1. /\ entry' \in [Keys -> Entries]
          /\ entry'[q].status = "CONNECTING" /\ entry'[q].conn = entry[q].conn
          /\ entry'[q].pend = s
          /\ \A j \in Keys : j # q => entry'[j] = entry[j]
      BY <2>1, <2>2, <1>6, OpeningFields
    <3> QED
      BY <3>1
  <2>3. CASE PendSet(q, s)
    <3>1. /\ entry' \in [Keys -> Entries]
          /\ entry'[q].status = entry[q].status /\ entry'[q].conn = entry[q].conn
          /\ entry'[q].pend = s
          /\ \A j \in Keys : j # q => entry'[j] = entry[j]
      BY <2>1, <2>3, <1>6, PendSetFields
    <3> QED
      BY <3>1, <1>5
  <2> QED
    BY <1>3, <2>2, <2>3
<1>8. /\ link' \in [Links -> LinkRecords]
      /\ \A j \in Links : j # q => link'[j] = link[j]
      /\ link'[q].ctx = None
      /\ \/ link'[q] = link[q] /\ entry[q].status # "DISCONNECTED"
         \/ link'[q].peer = q /\ link'[q].dir = "out" /\ link'[q].state = "connecting"
  <2>1. link \in [Links -> LinkRecords] /\ q \in Links
    BY <1>1, <1>4 DEF Types
  <2>2. CASE link' = link /\ entry[q].status # "DISCONNECTED"
    BY <2>1, <2>2, <1>5
  <2>3. CASE link' = [link EXCEPT ![q] = [peer |-> q, dir |-> "out", state |-> "connecting", ctx |-> None]]
    <3>1. PICK r : r = [peer |-> q, dir |-> "out", state |-> "connecting", ctx |-> None]
      OBVIOUS
    <3>2. r \in LinkRecords
      BY <3>1, <1>4 DEF LinkRecords, States
    <3>3. link' \in [Links -> LinkRecords] /\ link'[q] = r /\ \A j \in Links : j # q => link'[j] = link[j]
      BY <2>1, <2>3, <3>1, <3>2
    <3> QED
      BY <3>1, <3>3
  <2> QED
    BY <1>3, <2>2, <2>3
<1>9. Types'
  BY <1>1, <1>3, <1>7, <1>8 DEF Types
<1>10. /\ \A k \in Keys : entry'[k].conn = entry[k].conn
       /\ \A k \in Keys : entry'[k].status = "none" => entry[k].status = "none"
       /\ \A j \in Links : link'[j].ctx = link[j].ctx
       /\ \A j \in Links : link[j].peer # None => link'[j].peer = link[j].peer
  <2>1. link[q].peer # None => link[q].peer = q
    BY <1>1, <1>4 DEF Connections, LinkUse
  <2> QED
    BY <1>5, <1>7, <1>8, <2>1
<1>11. LinkUse' /\ CallbackUse' /\ EntryUse' /\ NoConnection'
  <2>1. LinkUse'
    <3>1. \A l \in Links : link'[l].state = "free" => link'[l].peer = None /\ link'[l].ctx = None
      BY <1>1, <1>4, <1>8 DEF Connections, LinkUse
    <3>2. \A l \in Incoming : link'[l].dir # "out" /\ link'[l].state # "connecting"
      BY <1>1, <1>4, <1>8 DEF Connections, LinkUse
    <3>3. \A p \in Peers : /\ link'[p].peer \in {p, None}
                           /\ link'[p].state # "free" => /\ link'[p].peer = p
                                                         /\ link'[p].dir = "out"
                                                         /\ entry'[p].status # "none"
      BY <1>1, <1>4, <1>7, <1>8 DEF Connections, LinkUse, Known
    <3>4. \A l \in Links : /\ link'[l].ctx # ControlPlane
                           /\ link'[l].ctx \in Peers => link'[l].peer = link'[l].ctx
      BY <1>1, <1>4, <1>8 DEF Connections, LinkUse
    <3> QED
      BY <3>1, <3>2, <3>3, <3>4 DEF LinkUse, Known
  <2>2. CallbackUse'
    <3>1. \A p \in Peers : link[p].state # "free" => link'[p].state # "free"
      BY <1>8
    <3> QED
      BY <3>1, <1>1, <1>3, <1>10 DEF Connections, CallbackUse, Types
  <2>3. EntryUse'
    <3>1. \A j \in Keys : entry[j].conn = None \/ entry[j].conn \in Links
      BY <1>1 DEF Types, Entries
    <3> QED
      BY <3>1, <1>1, <1>10 DEF Connections, EntryUse
  <2>4. NoConnection'
    <3> SUFFICES ASSUME NEW p \in Peers, entry[p].conn = None
                 PROVE  /\ link'[p].ctx = None
                        /\ link'[p].state = "open" => callback.link = p
                        /\ entry'[p].status # "none" => \/ entry'[p].status = "DISCONNECTED"
                                                       \/ link'[p].state \in {"connecting", "closed"}
                                                       \/ callback.link = p
      BY <1>3, <1>10 DEF NoConnection, Known
    <3>1. /\ link[p].ctx = None
          /\ link[p].state = "open" => callback.link = p
          /\ entry[p].status # "none" => \/ entry[p].status = "DISCONNECTED"
                                         \/ link[p].state \in {"connecting", "closed"}
                                         \/ callback.link = p
      BY <1>1 DEF Connections, NoConnection, Known
    <3>2. CASE p = q
      BY <3>1, <3>2, <1>5, <1>8
    <3>3. CASE p # q
      BY <3>1, <3>3, <1>7, <1>8
    <3> QED
      BY <3>2, <3>3
  <2> QED
    BY <2>1, <2>2, <2>3, <2>4
<1>12. Numbered'
  <2>1. \A k \in Keys : \A x \in ToSet(entry'[k].pend) : x \in ToSet(order) /\ to[x] = k
    <3> TAKE k \in Keys
    <3>1. CASE k = q
      <4>1. ToSet(entry'[k].pend) = ToSet(entry[k].pend) \cup {m}
        BY <3>1, <1>6, <1>7
      <4>2. m \in ToSet(order) /\ to[m] = k
        BY <3>1, <1>2, <1>4
      <4>3. \A x \in ToSet(entry[k].pend) : x \in ToSet(order) /\ to[x] = k
        BY <1>1 DEF Numbered
      <4> QED
        BY <4>1, <4>2, <4>3
    <3>2. CASE k # q
      BY <3>2, <1>1, <1>7 DEF Numbered
    <3> QED
      BY <3>1, <3>2
  <2>2. \A j \in Links : \A x \in ToSet(out[j]) : x \in ToSet(order) /\ link'[j].peer = to[x]
    <3>1. \A x \in ToSet(order) : to[x] # None
      BY <1>1 DEF Numbered
    <3> QED
      BY <3>1, <1>1, <1>10 DEF Numbered
  <2> QED
    BY <1>1, <1>3, <2>1, <2>2 DEF Numbered
<1>13. Putting'
  BY <1>3 DEF Putting
<1>14. /\ \A k \in Keys : k # q => Waiting(k)' = Waiting(k)
       /\ Waiting(q) \subseteq Waiting(q)'
       /\ \A x \in Waiting(q)' : x \in Waiting(q) \/ (x = m /\ m \notin overlap)
       /\ m \notin overlap => m \in Waiting(q)'
  BY <1>3, <1>4, <1>6, <1>7 DEF Waiting
<1>15. InOrder'
  <2>1. Sorted(s, overlap)
    <3>1. Sorted(entry[q].pend, overlap)
      BY <1>1, <1>4 DEF Kept, InOrder
    <3>2. \A y \in ToSet(entry[q].pend) : y \notin overlap => y < m
      BY <1>4
    <3> QED
      BY <3>1, <3>2, <1>2, <1>4, <1>6, SortedAppend
  <2>2. \A k \in Keys : Sorted(entry'[k].pend, overlap)
    BY <1>1, <1>7, <2>1 DEF Kept, InOrder
  <2> QED
    BY <1>1, <1>3, <2>2 DEF Kept, InOrder
<1>16. Waits'
  <2> SUFFICES ASSUME NEW p \in Peers, NEW x \in Waiting(p)'
               PROVE  /\ link'[p].peer = p /\ link'[p].dir = "out"
                      /\ link'[p].state \in {"connecting", "closed"} \/ callback.link = p
                      /\ \A j \in Links : x \in ToSet(out[j]) => callback.link = p /\ callback.next = "clear"
                      /\ \A y \in ToSet(out[p]) : y \notin overlap => callback.link = p /\ callback.next = "clear"
                      /\ entry[p].conn = p => callback.link = p /\ callback.next \in {"flush", "clear"}
    BY <1>3, <1>10 DEF Waits
  <2>1. CASE x \in Waiting(p)
    <3>1. /\ link[p].peer = p /\ link[p].dir = "out"
          /\ link[p].state \in {"connecting", "closed"} \/ callback.link = p
          /\ \A j \in Links : x \in ToSet(out[j]) => callback.link = p /\ callback.next = "clear"
          /\ \A y \in ToSet(out[p]) : y \notin overlap => callback.link = p /\ callback.next = "clear"
          /\ entry[p].conn = p => callback.link = p /\ callback.next \in {"flush", "clear"}
      BY <1>1, <2>1 DEF Kept, Waits
    <3>2. /\ link'[p].peer = p /\ link'[p].dir = "out"
          /\ link'[p].state \in {"connecting", "closed"} \/ callback.link = p
      BY <3>1, <1>8
    <3> QED
      BY <3>1, <3>2
  <2>2. CASE p = q /\ x = m /\ m \notin overlap
    <3>1. entry[q].conn = None /\ callback.link # q
      BY <2>2, <1>5
    <3>2. \/ entry[q].status = "DISCONNECTED"
          \/ /\ link[q].state \in {"connecting", "closed"}
             /\ link[q].peer = q /\ link[q].dir = "out"
      BY <3>1, <1>1, <1>4, <1>5 DEF Connections, NoConnection, LinkUse, Known
    <3>3. /\ link'[q].peer = q /\ link'[q].dir = "out"
          /\ link'[q].state \in {"connecting", "closed"}
      BY <3>2, <1>8
    <3>4. \A y \in ToSet(out[q]) : y \in overlap
      BY <3>1, <1>1, <1>4 DEF Kept, SentHasConn
    <3> QED
      BY <2>2, <3>1, <3>3, <3>4, <1>4, <1>5
  <2> QED
    BY <2>1, <2>2, <1>14
<1>17. SentHasConn'
  BY <1>1, <1>3, <1>10 DEF Kept, SentHasConn
<1>18. Flushed'
  <2> SUFFICES ASSUME callback.next = "clear"
               PROVE  Flushed'
    BY <1>3 DEF Flushed
  <2>1. PICK c \in Peers : c = callback.link /\ c = callback'.link
    BY <1>1, <1>3 DEF Connections, CallbackUse
  <2>2. \A x \in Waiting(c)' : x \in Waiting(c)
    BY <2>1, <1>5, <1>14
  <2>3. \A x \in Waiting(c) : x \in ToSet(out[c])
    BY <1>1, <2>1 DEF Kept, Flushed
  <2>4. \A x \in Waiting(callback.link)' : x \in Waiting(c)'
    BY <2>1 DEF Waiting
  <2> QED
    BY <1>3, <2>1, <2>2, <2>3, <2>4 DEF Flushed
<1>19. Somewhere'
  <2>1. \A x \in ToSet(order) : to[x] \in Keys
    BY <1>1, ToSetBounds DEF Numbered, Types
  <2>2. \A k \in Keys : Waiting(k) \subseteq Waiting(k)'
    BY <1>14
  <2> QED
    BY <1>1, <1>2, <1>3, <1>14, <2>1, <2>2 DEF Kept, Somewhere
<1>20. Results'
  <2>1. LinksKept
    BY <1>5, <1>8, <1>10 DEF LinksKept
  <2> QED
    BY <1>3, <2>1, ResultsKept
<1> QED
  BY <1>9, <1>11, <1>12, <1>13, <1>15, <1>16, <1>17, <1>18, <1>19, <1>20 DEF Inv, Connections, Kept

-----------------------------------------------------------------------------
(* Invocations that others request.                                         *)

\* A step that changes calls only.
LEMMA CallStep ==
  ASSUME RemoteAssumption, Inv, call' \in [Calls -> CallRecords], Results',
         UNCHANGED <<entry, link, out, callback, putting, to, order, overlap, dead>>
  PROVE  Inv'
<1>1. Types /\ Connections /\ Numbered /\ Putting /\ Kept
  BY DEF Inv
<1>2. Types'
  BY <1>1 DEF Types
<1>3. Connections'
  BY <1>1 DEF Connections, LinkUse, CallbackUse, EntryUse, NoConnection, Known
<1>4. Numbered' /\ Putting'
  BY <1>1 DEF Numbered, Putting, Known
<1>5. Kept'
  BY <1>1 DEF Kept, InOrder, Waits, SentHasConn, Flushed, Somewhere, Waiting
<1> QED
  BY <1>2, <1>3, <1>4, <1>5 DEF Inv

\* A request comes on a connection that is registered under its key.
LEMMA RequestInvocationPreserves ==
  ASSUME RemoteAssumption, Inv, NEW c \in Calls, NEW p \in Peers \cup Clients \cup {ControlPlane},
         NEW k \in Keys, RequestInvocation(c, p, k)
  PROVE  Inv'
<1> USE Names
<1>1. Types /\ Connections /\ Results
  BY DEF Inv
<1>2. /\ call[c].peer = None
      /\ \/ \E l \in Links : link[l].peer = p /\ link[l].ctx = k
         \/ p = ControlPlane /\ k = ControlPlane
      /\ call' = [call EXCEPT ![c].peer = p, ![c].key = k]
      /\ UNCHANGED <<entry, link, out, callback, putting, to, order, overlap, dead>>
  BY DEF RequestInvocation
<1>3. PICK r : r = [call[c] EXCEPT !.peer = p, !.key = k]
  OBVIOUS
<1>4. /\ call[c] \in CallRecords /\ call \in [Calls -> CallRecords]
  BY <1>1 DEF Types
<1>5. r \in CallRecords /\ r.peer = p /\ r.key = k /\ r.sent = call[c].sent
  BY <1>3, <1>4 DEF CallRecords
<1>6. call' = [call EXCEPT ![c] = r]
  BY <1>2, <1>3
<1>7. call' \in [Calls -> CallRecords]
  BY <1>4, <1>5, <1>6
<1>8. call'[c] = r /\ \A d \in Calls : d # c => call'[d] = call[d]
  BY <1>4, <1>6
<1>9. call[c].sent \notin Links /\ p # None
  BY <1>1, <1>2 DEF Results
<1>10. Results'
  <2> SUFFICES ASSUME NEW d \in Calls
               PROVE  /\ call'[d].peer # None /\ call'[d].key # ControlPlane =>
                           \E l \in Links : link[l].peer = call'[d].peer /\ link[l].ctx = call'[d].key
                      /\ call'[d].sent \in Links =>
                           \/ link[call'[d].sent].peer = call'[d].peer
                           \/ \E l \in Links : link[l].ctx = call'[d].key /\ link[l].peer # call'[d].peer
                      /\ call'[d].peer = None => call'[d].sent = None
                      /\ call'[d].peer # None => call'[d].key # None
    BY <1>2, ZenonT(60) DEF Results
  <2>1. CASE d = c
    BY <2>1, <1>2, <1>5, <1>8, <1>9
  <2>2. CASE d # c
    BY <2>2, <1>1, <1>8 DEF Results
  <2> QED
    BY <2>1, <2>2
<1> QED
  BY <1>2, <1>7, <1>10, CallStep

\* A result goes where its key says now.
LEMMA InvocationResultPreserves ==
  ASSUME RemoteAssumption, Inv, NEW c \in Calls, InvocationResult(c)
  PROVE  Inv'
<1> USE Names
<1>1. Types /\ Connections /\ Results
  BY DEF Inv
<1>2. PICK k, s : /\ k = call[c].key
                  /\ s = CASE k # ControlPlane -> entry[k].conn
                           [] entry[k].status = "CONNECTED" -> ControlLink
                           [] OTHER -> None
  OBVIOUS
<1>3. /\ call[c].peer # None
      /\ call' = [call EXCEPT ![c].done = TRUE, ![c].sent = s]
      /\ UNCHANGED <<entry, link, out, callback, putting, to, order, overlap, dead>>
  BY <1>2 DEF InvocationResult
<1>4. /\ call[c] \in CallRecords /\ call \in [Calls -> CallRecords]
  BY <1>1 DEF Types
<1>5. k \in Keys
  BY <1>1, <1>2, <1>3, <1>4 DEF Results, CallRecords
<1>6. s \in Links => k # ControlPlane /\ s = entry[k].conn
  BY <1>2
<1>7. s \in Links \cup {ControlLink, None}
  <2>1. entry[k].conn \in Links \cup {None}
    BY <1>1, <1>5 DEF Types, Entries
  <2> QED
    BY <2>1, <1>2
<1>8. PICK r : r = [call[c] EXCEPT !.done = TRUE, !.sent = s]
  OBVIOUS
<1>9. r \in CallRecords /\ r.peer = call[c].peer /\ r.key = k /\ r.sent = s
  BY <1>2, <1>4, <1>7, <1>8 DEF CallRecords
<1>10. call' = [call EXCEPT ![c] = r]
  BY <1>3, <1>8
<1>11. call' \in [Calls -> CallRecords]
  BY <1>4, <1>9, <1>10
<1>12. call'[c] = r /\ \A d \in Calls : d # c => call'[d] = call[d]
  BY <1>4, <1>10
<1>13. k # ControlPlane => \E l \in Links : link[l].peer = call[c].peer /\ link[l].ctx = k
  BY <1>1, <1>2, <1>3 DEF Results
<1>14. s \in Links => \/ link[s].peer = call[c].peer
                      \/ link[s].ctx = k
  <2> SUFFICES ASSUME s \in Links
               PROVE  link[s].peer = call[c].peer \/ link[s].ctx = k
    OBVIOUS
  <2>1. k # ControlPlane /\ s = entry[k].conn /\ entry[k].conn # None
    BY <1>6
  <2>2. CASE k \in Peers
    <3>1. PICK l \in Links : link[l].peer = call[c].peer /\ link[l].ctx = k
      BY <1>13, <2>1
    <3>2. call[c].peer = k
      BY <2>2, <3>1, <1>1 DEF Connections, LinkUse
    <3> QED
      BY <2>1, <2>2, <3>2, <1>1 DEF Connections, EntryUse
  <2>3. CASE k \in {Correct, DataPlane}
    BY <2>1, <2>3, <1>1 DEF Connections, EntryUse
  <2> QED
    BY <2>1, <2>2, <2>3, <1>5 DEF Keys
<1>15. Results'
  <2> SUFFICES ASSUME NEW d \in Calls
               PROVE  /\ call'[d].peer # None /\ call'[d].key # ControlPlane =>
                           \E l \in Links : link[l].peer = call'[d].peer /\ link[l].ctx = call'[d].key
                      /\ call'[d].sent \in Links =>
                           \/ link[call'[d].sent].peer = call'[d].peer
                           \/ \E l \in Links : link[l].ctx = call'[d].key /\ link[l].peer # call'[d].peer
                      /\ call'[d].peer = None => call'[d].sent = None
                      /\ call'[d].peer # None => call'[d].key # None
    BY <1>3, ZenonT(60) DEF Results
  <2>1. CASE d = c
    BY <2>1, <1>3, <1>5, <1>9, <1>12, <1>13, <1>14, ZenonT(60)
  <2>2. CASE d # c
    BY <2>2, <1>1, <1>12 DEF Results
  <2> QED
    BY <2>1, <2>2
<1> QED
  BY <1>3, <1>11, <1>15, CallStep

-----------------------------------------------------------------------------
(* Theorems.                                                                *)

\* There is nothing but the connection to the control plane at the start.
LEMMA InitInv ==
  ASSUME RemoteAssumption, Init
  PROVE  Inv
<1> USE Names, ToSetBounds
<1>1. /\ \A k \in Keys : entry[k].conn = None /\ entry[k].pend = <<>>
      /\ \A k \in Keys : k # ControlPlane => entry[k].status = "none"
      /\ entry \in [Keys -> Entries]
  <2>1. PICK e : e = [Fresh EXCEPT !.status = "CONNECTED"]
    OBVIOUS
  <2>2. Fresh \in Entries /\ Fresh.conn = None /\ Fresh.pend = <<>> /\ Fresh.status = "none"
    BY DEF Fresh, Entries, Statuses
  <2>3. e \in Entries /\ e.conn = None /\ e.pend = <<>>
    BY <2>1, <2>2 DEF Entries, Statuses
  <2>4. entry = [k \in Keys |-> IF k = ControlPlane THEN e ELSE Fresh]
    BY <2>1 DEF Init
  <2> QED
    BY <2>2, <2>3, <2>4
<1>2. /\ \A l \in Links : /\ link[l].peer = None /\ link[l].dir = None
                          /\ link[l].state = "free" /\ link[l].ctx = None
      /\ link \in [Links -> LinkRecords]
  <2>1. Free \in LinkRecords /\ Free.peer = None /\ Free.dir = None /\ Free.state = "free" /\ Free.ctx = None
    BY DEF Free, LinkRecords, States
  <2> QED
    BY <2>1 DEF Init
<1>3. /\ callback.link = None /\ callback.next = None
      /\ callback \in [link : Links \cup {None}, next : {"conn", "flush", "clear", None}]
  BY DEF Init, Idle
<1>4. /\ out = [l \in Links |-> <<>>] /\ putting = None /\ to = [m \in Msgs |-> None]
      /\ order = <<>> /\ overlap = {} /\ dead = {}
  BY DEF Init
<1>5. /\ call \in [Calls -> CallRecords]
      /\ \A c \in Calls : call[c].peer = None /\ call[c].sent = None
  BY DEF Init, CallRecords
<1>6. Types
  BY <1>1, <1>2, <1>3, <1>4, <1>5 DEF Types
<1>7. Connections
  BY <1>1, <1>2, <1>3 DEF Connections, LinkUse, CallbackUse, EntryUse, NoConnection, Known
<1>8. ToSet(order) = {} /\ \A l \in Links : out[l] = <<>> /\ ToSet(out[l]) = {}
  BY <1>4
<1>9. \A k \in Keys : ToSet(entry[k].pend) = {}
  BY <1>1
<1>10. Numbered
  BY <1>4, <1>8, <1>9 DEF Numbered
<1>11. Putting
  BY <1>4 DEF Putting
<1>12. \A ov : Sorted(<<>>, ov)
  BY DEF Sorted
<1>13. InOrder
  BY <1>1, <1>8, <1>12 DEF InOrder
<1>14. Waits /\ SentHasConn /\ Flushed /\ Somewhere
  BY <1>3, <1>8, <1>9 DEF Waits, SentHasConn, Flushed, Somewhere, Waiting
<1>15. Results
  BY <1>5 DEF Results
<1> QED
  BY <1>6, <1>7, <1>10, <1>11, <1>13, <1>14, <1>15 DEF Inv, Kept

\* Every step of the three threads, of the others and of the network preserves
\* the invariant.
LEMMA NextInv ==
  ASSUME RemoteAssumption, Inv, [Next]_vars
  PROVE  Inv'
<1>1. CASE \E q \in Peers : HandleAppUpdate(q) \/ \E m \in Msgs : PutUnknown(q, m) \/ PutTest(q, m)
  BY <1>1, HandleAppUpdatePreserves, PutUnknownPreserves, PutTestPreserves
<1>2. CASE \E l \in Incoming, p \in Peers \cup Clients : HandleConnection(l, p)
  BY <1>2, HandleConnectionPreserves
<1>3. CASE \E l \in Links : Confirm(l) \/ ConnectFails(l) \/ Disconnected(l)
  BY <1>3, ConfirmPreserves, ConnectFailsPreserves, DisconnectedPreserves
<1>4. CASE Connected
  BY <1>4, ConnectedStatusPreserves, ConnectedConnPreserves, ConnectedFlushPreserves,
     ConnectedClearPreserves DEF Connected
<1>5. CASE ControlPlaneGone
  BY <1>5, ControlPlaneGonePreserves
<1>6. CASE Put
  BY <1>6, PutSendPreserves, PutStorePreserves DEF Put
<1>7. CASE \E c \in Calls : \/ \E p \in Peers \cup Clients \cup {ControlPlane}, k \in Keys :
                                 RequestInvocation(c, p, k)
                            \/ InvocationResult(c)
  BY <1>7, RequestInvocationPreserves, InvocationResultPreserves
<1>8. CASE UNCHANGED vars
  <2>1. /\ UNCHANGED <<entry, link, out, callback, putting, to, order, overlap, dead, call>>
        /\ call \in [Calls -> CallRecords]
    BY <1>8 DEF vars, Inv, Types
  <2>2. Results'
    BY <2>1, ResultsKept DEF LinksKept
  <2> QED
    BY <2>1, <2>2, CallStep
<1> QED
  BY <1>1, <1>2, <1>3, <1>4, <1>5, <1>6, <1>7, <1>8 DEF Next

\* Connections, pending messages, what was sent and what is being put agree in
\* every reachable state, for any number of peers, clients and messages.
THEOREM InvAlways == Spec => []Inv
<1>1. Init => Inv
  BY InitInv, RemoteAssumption
<1>2. Inv /\ [Next]_vars => Inv'
  BY NextInv, RemoteAssumption
<1> QED
  BY <1>1, <1>2, PTL DEF Spec

\* A message that put_message accepted has been sent once and to the right
\* process, or it is kept and its connection is on the way, unless its call
\* overlapped the connection callback, its connection had ended, or the attempt
\* to connect failed.
THEOREM KeptOrSentAlways == Spec => []KeptOrSent
<1>1. ASSUME Inv
      PROVE  KeptOrSent
  <2> USE Names, RemoteAssumption
  <2>1. Types /\ Connections /\ Numbered /\ Putting /\ Kept /\ ToSet(order) \subseteq Msgs
    BY <1>1, ToSetBounds DEF Inv, Types
  <2>2. TypeOK
    <3>1. \A k \in Keys : /\ entry[k].status \in {"none", "DISCONNECTED", "CONNECTING", "CONNECTED"}
                          /\ entry[k].conn \in Links \cup {None}
                          /\ ToSet(entry[k].pend) \subseteq Msgs
                          /\ entry[k].status = "none" => entry[k].conn = None
      BY <2>1, ToSetBounds DEF Types, Entries, Statuses, Connections, EntryUse
    <3>2. \A l \in Links : /\ link[l].peer \in Peers \cup Clients \cup {None}
                           /\ link[l].dir \in {"in", "out", None}
                           /\ link[l].state \in {"free", "connecting", "open", "closed"}
                           /\ link[l].ctx \in Keys \cup {None}
      BY <2>1 DEF Types, LinkRecords, States
    <3>3. callback.link \in Links \cup {None} /\ callback.next \in {"conn", "flush", "clear", None}
      BY <2>1 DEF Types
    <3> QED
      BY <3>1, <3>2, <3>3, <2>1 DEF TypeOK, Numbered
  <2>3. ASSUME NEW m \in ToSet(order) \ overlap, putting = None \/ putting.msg # m
        PROVE  \/ \E l \in Links : /\ Sent(m) = {l}
                                   /\ link[l].peer = to[m]
                                   /\ \A i, j \in DOMAIN out[l] : out[l][i] = m /\ out[l][j] = m => i = j
               \/ m \in ToSet(entry[to[m]].pend) /\ (Underway(to[m]) \/ Failed(to[m]))
               \/ m \in dead
    <3>1. \/ \E l \in Links : m \in ToSet(out[l])
          \/ m \in Waiting(to[m])
          \/ m \in dead
      BY <2>1, <2>3 DEF Kept, Somewhere
    <3>2. ASSUME NEW l \in Links, m \in ToSet(out[l])
          PROVE  /\ Sent(m) = {l}
                 /\ link[l].peer = to[m]
                 /\ \A i, j \in DOMAIN out[l] : out[l][i] = m /\ out[l][j] = m => i = j
      <4>1. Sent(m) = {l}
        BY <2>1, <3>2 DEF Kept, InOrder, Sent
      <4>2. link[l].peer = to[m]
        BY <2>1, <3>2 DEF Numbered
      <4>3. ASSUME NEW i \in DOMAIN out[l], NEW j \in DOMAIN out[l], out[l][i] = m, out[l][j] = m
            PROVE  i = j
        <5>1. out[l] \in Seq(Msgs) /\ Sorted(out[l], overlap)
          BY <2>1 DEF Types, Kept, InOrder
        <5>2. i \in Int /\ j \in Int /\ m \in Int
          BY <5>1, <2>1, <4>3 DEF Msgs
        <5>3. ~(i < j) /\ ~(j < i)
          BY <5>1, <5>2, <4>3 DEF Sorted
        <5> QED
          BY <5>2, <5>3
      <4> QED
        BY <4>1, <4>2, <4>3
    <3>3. ASSUME m \in Waiting(to[m])
          PROVE  m \in ToSet(entry[to[m]].pend) /\ (Underway(to[m]) \/ Failed(to[m]))
      <4>1. PICK q \in Peers : q = to[m]
        BY <2>1 DEF Numbered, Types
      <4>2. /\ link[q].peer = q /\ link[q].dir = "out"
            /\ link[q].state \in {"connecting", "closed"} \/ callback.link = q
        BY <2>1, <3>3, <4>1 DEF Kept, Waits
      <4>3. Underway(q) \/ Failed(q)
        BY <4>2 DEF Underway, Failed
      <4> QED
        BY <3>3, <4>1, <4>3 DEF Waiting
    <3> QED
      BY <3>1, <3>2, <3>3
  <2> QED
    BY <2>2, <2>3 DEF KeptOrSent
<1> QED
  BY <1>1, InvAlways, PTL

\* Messages to a process that travel on the same connection travel in the order
\* of the calls, unless a call overlapped the connection callback: the callback
\* sends what waited before senders can overtake it.
THEOREM OrderKeptAlways == Spec => []OrderKept
<1>1. ASSUME Inv
      PROVE  OrderKept
  <2>1. Types /\ Numbered /\ Kept /\ ToSet(order) \subseteq Msgs
    BY <1>1, ToSetBounds DEF Inv, Types
  <2> SUFFICES ASSUME NEW i \in DOMAIN order, NEW j \in DOMAIN order, i < j,
                      order[i] \notin overlap, order[j] \notin overlap,
                      NEW l \in Links, NEW a \in DOMAIN out[l], NEW b \in DOMAIN out[l],
                      out[l][a] = order[i], out[l][b] = order[j]
               PROVE  a < b
    BY DEF OrderKept, Sent
  <2>2. order[i] < order[j]
    BY <2>1 DEF Numbered
  <2>3. order[i] \in Int /\ order[j] \in Int /\ out[l] \in Seq(Msgs) /\ Sorted(out[l], overlap)
    <3>1. order[i] \in Msgs /\ order[j] \in Msgs
      BY <2>1 DEF Types
    <3>2. \A m \in Msgs : m \in Int
      BY DEF Msgs
    <3> QED
      BY <2>1, <3>1, <3>2 DEF Types, Kept, InOrder
  <2>4. a \in Int /\ b \in Int
    BY <2>3
  <2>5. ~(b < a)
    BY <2>2, <2>3 DEF Sorted
  <2>6. a # b
    BY <2>2, <2>3
  <2> QED
    BY <2>4, <2>5, <2>6
<1> QED
  BY <1>1, InvAlways, PTL

\* The result of an invocation goes to the one who requested it, unless another
\* one registered under the same name.
THEOREM ResultToCallerAlways == Spec => []ResultToCaller
<1>1. Inv => ResultToCaller
  BY DEF Inv, Results, ResultToCaller
<1> QED
  BY <1>1, InvAlways, PTL
=============================================================================
