----------------------------- MODULE ChannelProofs -----------------------------
(***************************************************************************)
(* The invariants of Channel for any number of workers, capacity of the    *)
(* queues, sizes of payloads, and number of invocations, changes and       *)
(* calls, and that its queues implement Pipe.                              *)
(*                                                                         *)
(* The invariant, Inv, has three parts.  Of each queue it says that the    *)
(* pieces between its two ends are those of the messages that were sent    *)
(* and not received, each with its header first (Flows).  Of each worker   *)
(* it says that an invocation, and a get, are in one place at a time:      *)
(* in a queue, with the worker or with the controller (Local).  Of the     *)
(* changes of the application it says that there is one history of them,   *)
(* of which the controller and every worker have seen some beginning       *)
(* (Known).                                                                *)
(***************************************************************************)
EXTENDS Channel, TLAPS, WellFoundedInduction

Piece == [msg : Messages, no : Nat \ {0}]
Views == [active : Seq(Procs \cup {Self}), swapped : Seq(Procs \cup {Self})]

\* The queues, what the controller keeps, and what the workers do.
QTypes ==
  /\ queue \in [Queues -> Seq(Piece)]
  /\ partial \in [Queues -> Seq(Piece)]
  /\ sending \in [Queues -> Seq(Piece)]
  /\ sent \in [Queues -> Seq(Messages)]
  /\ got \in [Queues -> Seq(Messages)]

CTypes ==
  /\ busy \in [Workers -> BOOLEAN]
  /\ asked \in [Workers -> SUBSET (1..calls)]
  /\ view \in Views
  /\ updating \in Seq(Changes) /\ telling \in Seq(Changes) /\ turn \in Workers
  /\ invocs \in 0..MaxInvocs /\ updates \in 0..MaxUpdates

WTypes ==
  /\ phase \in [Workers -> {"poll", "run", "wait", "dead"}]
  /\ running \in [Workers -> 0..MaxInvocs]
  /\ waiting \in [Workers -> 0..MaxCalls]
  /\ wview \in [Workers -> Views]
  /\ calls \in 0..MaxCalls
  /\ lacking \subseteq Workers /\ missed \subseteq Workers /\ spoilt \subseteq Workers

\* The pieces of a queue between its two ends, in the order in which they are
\* read: those that were read, those in the queue and those that are not yet.
Size(p, q, r) == Len(p) + Len(q) + Len(r)
At(p, q, r, k) ==
  IF k <= Len(p) THEN p[k]
  ELSE IF k <= Len(p) + Len(q) THEN q[k - Len(p)] ELSE r[k - Len(p) - Len(q)]

Line(p, q, r) == [k \in 1..Size(p, q, r) |-> At(p, q, r, k)]

\* Pieces p, q and r, messages s and g.
Flow(p, q, r, s, g) ==
  /\ p \in Seq(Piece) /\ q \in Seq(Piece) /\ r \in Seq(Piece)
  /\ s \in Seq(Messages) /\ g \in Seq(Messages)

\* A line of n pieces of the messages s, and the message of which each is one:
\* after the first h messages, each begins with its header and goes on, piece
\* by piece, to its end.
Follows(l, n, s, h, f) ==
  /\ f \in [1..n -> 1..Len(s)]
  /\ \A k \in 1..n : h < f[k] /\ l[k].msg = s[f[k]] /\ l[k].no <= 1 + s[f[k]].len
  /\ \A j, k \in 1..n : j <= k => f[j] <= f[k]
  /\ n > 0 => f[1] = h + 1 /\ l[1].no = 1
  /\ \A j, k \in 1..n : k = j + 1 /\ l[j].no <= s[f[j]].len => f[k] = f[j] /\ l[k].no = l[j].no + 1
  /\ \A j, k \in 1..n : k = j + 1 /\ l[j].no > s[f[j]].len => f[k] = f[j] + 1 /\ l[k].no = 1

\* All messages are there, up to the end of the last.
Closed(l, n, s, h, f) ==
  /\ \A i \in 1..Len(s) : h < i => \E k \in 1..n : f[k] = i
  /\ n > 0 => f[n] = Len(s) /\ l[n].no = 1 + s[Len(s)].len

\* What is between the two ends are the messages of s that are not in g, the
\* last ones perhaps cut.
Framed(p, q, r, s, g, cut, f) ==
  LET n == Size(p, q, r)
      l == Line(p, q, r) IN
  /\ Follows(l, n, s, Len(g), f)
  /\ cut \/ Closed(l, n, s, Len(g), f)
  /\ \A k \in 1..Len(p) : f[k] = Len(g) + 1 /\ l[k].no = k
  /\ \A k \in 1..n : Len(p) + Len(q) < k => f[k] = Len(s)
  /\ p # <<>> => Len(p) <= p[1].msg.len
  /\ Len(q) <= Capacity
  /\ Len(g) <= Len(s) /\ \A i \in 1..Len(g) : g[i] = s[i]

\* The worker that sends to this queue is gone.
Cut(q) == q[2] = "out" /\ phase[q[1]] = "dead"

Frames(q, f) == Framed(partial[q], queue[q], sending[q], sent[q], got[q], Cut(q), f)
Flows(q) == \E f : Frames(q, f)

\* The messages of this kind on their way: of the messages s, h were received.
Fly(s, h, kind) == {[no |-> i, id |-> s[i].id] : i \in {j \in h + 1..Len(s) : s[j].kind = kind}}
Flying(q, kind) == Fly(sent[q], Len(got[q]), kind)

\* An invocation is with a worker once: I are the invocations on their way to
\* it, F the results it sent.
TokensOf(I, F, isBusy, does, waits, runs) ==
  /\ \A x, y \in I : x = y
  /\ \A x, y \in F : x = y
  /\ I # {} => isBusy /\ does = "poll" /\ F = {}
  /\ F # {} => isBusy /\ does = "poll"
  /\ does # "poll" => isBusy
  /\ (waits # 0) <=> (does = "wait")
  /\ does \in {"run", "wait"} => runs # 0
Tokens(w) == TokensOf(Flying(In(w), "invoke"), Flying(Out(w), "result"), busy[w], phase[w], waiting[w], running[w])

\* The get of a worker is once on its way to the controller (G), there (a), or
\* answered (R).
GetsOf(G, R, a, waits, does) ==
  /\ does # "wait" => G = {} /\ a = {} /\ R = {}
  /\ \A x, y \in G : x = y
  /\ \A x, y \in R : x = y
  /\ \A x \in G : x.id = waits
  /\ \A x \in R : x.id = waits
  /\ a \subseteq {waits}
  /\ G # {} => a = {} /\ R = {}
  /\ a # {} => R = {}
Gets(w) == w \notin missed =>
             GetsOf(Flying(Out(w), "get"), Flying(In(w), "reply"), asked[w], waiting[w], phase[w])

\* Which messages a queue carries, and which calls they belong to.
Carries(s, kinds, n) ==
  \A i \in 1..Len(s) : s[i].kind \in kinds /\ (s[i].kind = "get" => s[i].id <= n)
Carried(w) ==
  /\ Carries(sent[In(w)], {"invoke", "update", "reply"}, calls)
  /\ Carries(sent[Out(w)], {"put", "get", "result"}, calls)

\* What is being sent fits to what its sender does.
LastKind(s) == s[Len(s)].kind
SendsOf(r, s, does) ==
  r # <<>> => /\ does # "dead"
              /\ does = "wait" => LastKind(s) = "get"
              /\ does = "poll" => LastKind(s) = "result"
TellsOf(r, s, u) == r # <<>> /\ LastKind(s) = "update" => u # <<>>
Sends(w) ==
  /\ SendsOf(sending[Out(w)], sent[Out(w)], phase[w])
  /\ TellsOf(sending[In(w)], sent[In(w)], updating)

Local(w) == Tokens(w) /\ Gets(w) /\ Carried(w) /\ Sends(w)

\* Of the changes that were announced, those a worker has been sent.
ToldOf(w, n, t, k) == (n - Len(t)) + IF t # <<>> /\ w < k THEN 1 ELSE 0
Told(w) == ToldOf(w, updates, telling, turn)

\* The list of a worker, given that of the controller.
WithSelf(v) == [active |-> <<Self>> \o v.active, swapped |-> v.swapped]

\* The first n changes, d, and the lists h they led to.
History(h, d, n) ==
  /\ d \in [1..n -> Changes] /\ h \in [0..n -> Views]
  /\ h[0] = [active |-> <<>>, swapped |-> <<>>]
  /\ \A i \in 0..n, k \in 1..n : k = i + 1 => h[k] = Updated(h[i], d[k])

\* Where the controller, with list v, is in them: n were announced, u are not
\* in its list, and of these t were not sent to all workers.
PlaceOf(h, d, v, n, u, t, told) ==
  /\ Len(t) <= Len(u) /\ Len(u) <= n
  /\ v = h[n - Len(u)]
  /\ \A i \in 1..Len(u) : (n - Len(u)) + i <= told => u[i] = d[(n - Len(u)) + i]
  /\ \A i \in 1..Len(t) : t[i] = u[(Len(u) - Len(t)) + i]
Place(h, d) == PlaceOf(h, d, view, updates, updating, telling, Told(1))

\* A worker has been sent the messages s and received c of them; it was told
\* of told changes and has read k of them.
KnowsOf(s, c, told, d, k) ==
  /\ k \in 0..told
  /\ \A i \in 1..Len(s) : s[i].kind = "update" =>
       /\ s[i].id \in 1..told
       /\ s[i].data = d[s[i].id]
       /\ i <= c <=> s[i].id <= k
  /\ \A i, j \in 1..Len(s) : s[i].kind = "update" /\ s[j].kind = "update" /\ i < j => s[i].id < s[j].id
  /\ \A u \in 1..told : \E i \in 1..Len(s) : s[i].kind = "update" /\ s[i].id = u
Knows(w, h, d) ==
  \E k \in 0..Told(w) :
     /\ KnowsOf(sent[In(w)], Len(got[In(w)]), Told(w), d, k)
     /\ w \notin missed => wview[w] = WithSelf(h[k])

Known == \E h, d : History(h, d, Told(1)) /\ Place(h, d) /\ \A w \in Workers : Knows(w, h, d)

Inv ==
  /\ QTypes /\ CTypes /\ WTypes
  /\ \A q \in Queues : Flows(q)
  /\ \A w \in Workers : Local(w)
  /\ Known
  /\ spoilt \subseteq missed

-----------------------------------------------------------------------------
(* Messages and queues.                                                     *)

\* The fields of a message.
LEMMA MessageFacts ==
  ASSUME NEW m \in Messages
  PROVE  /\ m.kind \in {"invoke", "result", "put", "reply", "get", "update"}
         /\ m.id \in Nat /\ m.len \in Nat
         /\ m.kind \in {"invoke", "result"} => m.id \in 1..MaxInvocs
         /\ m.kind \in {"put", "reply", "get"} => m.id \in 1..MaxCalls
         /\ m.kind = "update" => m.len = 0 /\ m.data \in Changes
  BY ChannelAssumption DEF Messages, Message

\* The two queues of a worker are queues, and differ from those of others.
LEMMA QueueFacts ==
  ASSUME NEW w \in Workers
  PROVE  /\ In(w) \in Queues /\ Out(w) \in Queues
         /\ In(w)[1] = w /\ In(w)[2] = "in" /\ Out(w)[1] = w /\ Out(w)[2] = "out"
         /\ \A v \in Workers : In(v) # Out(w) /\ (In(v) = In(w) => v = w) /\ (Out(v) = Out(w) => v = w)
  BY DEF In, Out, Queues

\* There are no other queues.
LEMMA EveryQueue ==
  ASSUME NEW q \in Queues
  PROVE  q[1] \in Workers /\ (q = In(q[1]) \/ q = Out(q[1]))
  BY DEF In, Out, Queues

\* The pieces of a message.
LEMMA PiecesFacts ==
  ASSUME NEW m \in Messages
  PROVE  /\ Pieces(m) \in Seq(Piece)
         /\ Len(Pieces(m)) = 1 + m.len
         /\ \A i \in 1..1 + m.len : Pieces(m)[i] = [msg |-> m, no |-> i]
<1>1. m.len \in Nat
  BY MessageFacts
<1>2. Pieces(m) \in [1..1 + m.len -> Piece]
  BY <1>1 DEF Pieces, Piece
<1>3. \A i \in 1..1 + m.len : Pieces(m)[i] = [msg |-> m, no |-> i]
  BY <1>1 DEF Pieces
<1>4. 1 + m.len \in Nat
  BY <1>1
<1>5. Pieces(m) \in Seq(Piece)
  BY <1>2, <1>4
<1> HIDE DEF Pieces
<1>6. Len(Pieces(m)) = 1 + m.len
  BY <1>2, <1>4, <1>5
<1> QED BY <1>3, <1>5, <1>6

\* The fields of a piece.
LEMMA PieceFacts ==
  ASSUME NEW x \in Piece
  PROVE  x.msg \in Messages /\ x.no \in Nat \ {0} /\ x = [msg |-> x.msg, no |-> x.no]
  BY DEF Piece


-----------------------------------------------------------------------------
(* What happens to the pieces between the two ends of a queue.              *)

\* The elements of the five sequences, and their lengths.
LEMMA FlowFacts ==
  ASSUME NEW p, NEW q, NEW r, NEW s, NEW g, Flow(p, q, r, s, g)
  PROVE  /\ Len(p) \in Nat /\ Len(q) \in Nat /\ Len(r) \in Nat /\ Len(s) \in Nat /\ Len(g) \in Nat
         /\ Size(p, q, r) \in Nat /\ Size(p, q, r) = Len(p) + Len(q) + Len(r)
         /\ \A i \in 1..Len(s) : s[i] \in Messages /\ s[i].len \in Nat
<1>1. Len(p) \in Nat /\ Len(q) \in Nat /\ Len(r) \in Nat /\ Len(s) \in Nat /\ Len(g) \in Nat
  BY DEF Flow
<1>2. \A i \in 1..Len(s) : s[i] \in Messages
  BY DEF Flow
<1> QED BY <1>1, <1>2, MessageFacts DEF Size

\* The pieces between two ends are pieces, and each is in one of the three parts.
LEMMA LineFacts ==
  ASSUME NEW p, NEW q, NEW r, NEW s, NEW g, Flow(p, q, r, s, g)
  PROVE  /\ \A k \in 1..Size(p, q, r) : /\ Line(p, q, r)[k] \in Piece
                                        /\ Line(p, q, r)[k].no \in Nat
                                        /\ Line(p, q, r)[k].msg \in Messages
         /\ \A k \in 1..Len(p) : Line(p, q, r)[k] = p[k]
         /\ \A k \in 1..Len(q) : Line(p, q, r)[Len(p) + k] = q[k]
         /\ \A k \in 1..Len(r) : Line(p, q, r)[Len(p) + Len(q) + k] = r[k]
<1>1. /\ Len(p) \in Nat /\ Len(q) \in Nat /\ Len(r) \in Nat
      /\ Size(p, q, r) = Len(p) + Len(q) + Len(r)
  BY FlowFacts
<1>2. ASSUME NEW k \in 1..Size(p, q, r)
      PROVE  Line(p, q, r)[k] = At(p, q, r, k) /\ At(p, q, r, k) \in Piece
  <2>1. Line(p, q, r)[k] = At(p, q, r, k)
    BY DEF Line
  <2>2. CASE k <= Len(p)
    <3>1. k \in 1..Len(p)
      BY <2>2, <1>1
    <3>2. p[k] \in Piece
      BY <3>1 DEF Flow
    <3>3. At(p, q, r, k) = p[k]
      BY <2>2 DEF At
    <3> QED BY <2>1, <3>2, <3>3
  <2>3. CASE Len(p) < k /\ k <= Len(p) + Len(q)
    <3>1. k - Len(p) \in 1..Len(q)
      BY <2>3, <1>1
    <3> QED BY <3>1, <2>1, <2>3, <1>1 DEF At, Flow
  <2>4. CASE Len(p) + Len(q) < k
    <3>1. k - Len(p) - Len(q) \in 1..Len(r)
      BY <2>4, <1>1
    <3> QED BY <3>1, <2>1, <2>4, <1>1 DEF At, Flow
  <2> QED BY <2>1, <2>2, <2>3, <2>4, <1>1
<1>3. \A k \in 1..Size(p, q, r) : /\ Line(p, q, r)[k] \in Piece
                                  /\ Line(p, q, r)[k].no \in Nat
                                  /\ Line(p, q, r)[k].msg \in Messages
  BY <1>2, PieceFacts
<1>4. ASSUME NEW k \in 1..Len(p) PROVE Line(p, q, r)[k] = p[k]
  BY <1>1, <1>2 DEF At
<1>5. ASSUME NEW k \in 1..Len(q) PROVE Line(p, q, r)[Len(p) + k] = q[k]
  <2>1. Len(p) + k \in 1..Size(p, q, r)
    BY <1>1
  <2>2. ~(Len(p) + k <= Len(p)) /\ Len(p) + k <= Len(p) + Len(q) /\ (Len(p) + k) - Len(p) = k
    BY <1>1
  <2> QED BY <1>2, <2>1, <2>2 DEF At
<1>6. ASSUME NEW k \in 1..Len(r) PROVE Line(p, q, r)[Len(p) + Len(q) + k] = r[k]
  <2>1. Len(p) + Len(q) + k \in 1..Size(p, q, r)
    BY <1>1
  <2>2. /\ ~(Len(p) + Len(q) + k <= Len(p)) /\ ~(Len(p) + Len(q) + k <= Len(p) + Len(q))
        /\ (Len(p) + Len(q) + k) - Len(p) - Len(q) = k
    BY <1>1
  <2> QED BY <1>2, <2>1, <2>2 DEF At
<1> QED BY <1>3, <1>4, <1>5, <1>6

\* A line is determined by where its pieces are.
LEMMA LineEqual ==
  ASSUME NEW p, NEW q, NEW r, NEW s, NEW g, Flow(p, q, r, s, g),
         NEW p1, NEW q1, NEW r1, Flow(p1, q1, r1, s, g),
         Size(p1, q1, r1) = Size(p, q, r),
         \A k \in 1..Size(p, q, r) : Line(p1, q1, r1)[k] = Line(p, q, r)[k]
  PROVE  Line(p1, q1, r1) = Line(p, q, r)
  BY DEF Line

\* A piece is put into the queue: it was the next one before.
LEMMA LinePut ==
  ASSUME NEW p, NEW q, NEW r, NEW s, NEW g, Flow(p, q, r, s, g), r # <<>>
  PROVE  /\ Flow(p, Append(q, Head(r)), Tail(r), s, g)
         /\ Size(p, Append(q, Head(r)), Tail(r)) = Size(p, q, r)
         /\ Line(p, Append(q, Head(r)), Tail(r)) = Line(p, q, r)
<1> DEFINE u == Append(q, Head(r))
           v == Tail(r)
<1>0. Len(p) \in Nat /\ Len(q) \in Nat /\ Len(r) \in Nat /\ Len(r) > 0 /\ Head(r) = r[1] /\ Head(r) \in Piece
  BY FlowFacts DEF Flow
<1>1. u \in Seq(Piece) /\ Len(u) = Len(q) + 1 /\ u[Len(q) + 1] = r[1] /\ \A k \in 1..Len(q) : u[k] = q[k]
  BY <1>0 DEF Flow
<1>2. v \in Seq(Piece) /\ Len(v) = Len(r) - 1 /\ \A k \in 1..Len(r) - 1 : v[k] = r[k + 1]
  BY <1>0 DEF Flow
<1>3. Flow(p, u, v, s, g)
  BY <1>1, <1>2 DEF Flow
<1> HIDE DEF u, v
<1>4. Size(p, u, v) = Size(p, q, r) /\ Size(p, q, r) = Len(p) + Len(q) + Len(r)
  BY <1>0, <1>1, <1>2, FlowFacts DEF Size
<1>5. ASSUME NEW k \in 1..Size(p, q, r) PROVE Line(p, u, v)[k] = Line(p, q, r)[k]
  <2>1. CASE k \in 1..Len(p)
    BY <2>1, <1>3, LineFacts
  <2>2. CASE \E j \in 1..Len(q) : k = Len(p) + j
    <3>1. PICK j \in 1..Len(q) : k = Len(p) + j
      BY <2>2
    <3>2. j \in 1..Len(u)
      BY <1>0, <1>1
    <3>3. Line(p, u, v)[k] = u[j]
      BY <3>1, <3>2, <1>3, LineFacts
    <3>4. Line(p, q, r)[k] = q[j]
      BY <3>1, LineFacts
    <3> QED BY <3>3, <3>4, <1>1
  <2>3. CASE k = Len(p) + Len(q) + 1
    <3>1. 1 \in 1..Len(r) /\ Len(q) + 1 \in 1..Len(u) /\ k = Len(p) + (Len(q) + 1)
      BY <2>3, <1>0, <1>1
    <3>2. Line(p, u, v)[k] = u[Len(q) + 1]
      BY <3>1, <1>3, LineFacts
    <3>3. Line(p, q, r)[k] = r[1]
      BY <2>3, <3>1, LineFacts
    <3> QED BY <3>2, <3>3, <1>1
  <2>4. CASE \E j \in 1..Len(r) - 1 : k = Len(p) + Len(q) + (j + 1)
    <3>1. PICK j \in 1..Len(r) - 1 : k = Len(p) + Len(q) + (j + 1)
      BY <2>4
    <3>2. j + 1 \in 1..Len(r) /\ j \in 1..Len(v) /\ k = Len(p) + Len(u) + j
      BY <3>1, <1>0, <1>1, <1>2
    <3>3. Line(p, q, r)[k] = r[j + 1]
      BY <3>1, <3>2, LineFacts
    <3>4. Line(p, u, v)[k] = v[j]
      BY <3>2, <1>3, LineFacts
    <3> QED BY <3>3, <3>4, <1>2
  <2>5. \/ k \in 1..Len(p) \/ k - Len(p) \in 1..Len(q) \/ k = Len(p) + Len(q) + 1
        \/ (k - Len(p) - Len(q)) - 1 \in 1..Len(r) - 1
    BY <1>0, <1>4
  <2>6. k = Len(p) + (k - Len(p)) /\ k = Len(p) + Len(q) + (((k - Len(p) - Len(q)) - 1) + 1)
    BY <1>0
  <2> QED BY <2>1, <2>2, <2>3, <2>4, <2>5, <2>6
<1>6. Line(p, u, v) = Line(p, q, r)
  BY <1>3, <1>4, <1>5, LineEqual
<1> QED BY <1>3, <1>4, <1>6 DEF u, v

\* A piece is read, but not the last of its message.
LEMMA LineTake ==
  ASSUME NEW p, NEW q, NEW r, NEW s, NEW g, Flow(p, q, r, s, g), q # <<>>
  PROVE  /\ Flow(Append(p, Head(q)), Tail(q), r, s, g)
         /\ Size(Append(p, Head(q)), Tail(q), r) = Size(p, q, r)
         /\ Line(Append(p, Head(q)), Tail(q), r) = Line(p, q, r)
<1> DEFINE u == Append(p, Head(q))
           v == Tail(q)
<1>0. Len(p) \in Nat /\ Len(q) \in Nat /\ Len(r) \in Nat /\ Len(q) > 0 /\ Head(q) = q[1] /\ Head(q) \in Piece
  BY FlowFacts DEF Flow
<1>1. u \in Seq(Piece) /\ Len(u) = Len(p) + 1 /\ u[Len(p) + 1] = q[1] /\ \A k \in 1..Len(p) : u[k] = p[k]
  BY <1>0 DEF Flow
<1>2. v \in Seq(Piece) /\ Len(v) = Len(q) - 1 /\ \A k \in 1..Len(q) - 1 : v[k] = q[k + 1]
  BY <1>0 DEF Flow
<1>3. Flow(u, v, r, s, g)
  BY <1>1, <1>2 DEF Flow
<1> HIDE DEF u, v
<1>4. Size(u, v, r) = Size(p, q, r) /\ Size(p, q, r) = Len(p) + Len(q) + Len(r)
  BY <1>0, <1>1, <1>2, FlowFacts DEF Size
<1>5. ASSUME NEW k \in 1..Size(p, q, r) PROVE Line(u, v, r)[k] = Line(p, q, r)[k]
  <2>1. CASE k \in 1..Len(p)
    <3>1. k \in 1..Len(u)
      BY <2>1, <1>0, <1>1
    <3> QED BY <2>1, <3>1, <1>1, <1>3, LineFacts
  <2>2. CASE k = Len(p) + 1
    <3>1. 1 \in 1..Len(q) /\ k \in 1..Len(u)
      BY <2>2, <1>0, <1>1
    <3> QED BY <2>2, <3>1, <1>1, <1>3, LineFacts
  <2>3. CASE \E j \in 1..Len(q) - 1 : k = Len(p) + (j + 1)
    <3>1. PICK j \in 1..Len(q) - 1 : k = Len(p) + (j + 1)
      BY <2>3
    <3>2. j + 1 \in 1..Len(q) /\ j \in 1..Len(v) /\ k = Len(u) + j
      BY <3>1, <1>0, <1>1, <1>2
    <3>3. Line(p, q, r)[k] = q[j + 1]
      BY <3>1, <3>2, LineFacts
    <3>4. Line(u, v, r)[k] = v[j]
      BY <3>2, <1>3, LineFacts
    <3> QED BY <3>3, <3>4, <1>2
  <2>4. CASE \E j \in 1..Len(r) : k = Len(p) + Len(q) + j
    <3>1. PICK j \in 1..Len(r) : k = Len(p) + Len(q) + j
      BY <2>4
    <3>2. k = Len(u) + Len(v) + j
      BY <3>1, <1>0, <1>1, <1>2
    <3>3. Line(p, q, r)[k] = r[j]
      BY <3>1, LineFacts
    <3>4. Line(u, v, r)[k] = r[j]
      BY <3>2, <1>3, LineFacts
    <3> QED BY <3>3, <3>4
  <2>5. \/ k \in 1..Len(p) \/ k = Len(p) + 1 \/ (k - Len(p)) - 1 \in 1..Len(q) - 1
        \/ k - Len(p) - Len(q) \in 1..Len(r)
    BY <1>0, <1>4
  <2>6. k = Len(p) + (((k - Len(p)) - 1) + 1) /\ k = Len(p) + Len(q) + (k - Len(p) - Len(q))
    BY <1>0
  <2> QED BY <2>1, <2>2, <2>3, <2>4, <2>5, <2>6
<1>6. Line(u, v, r) = Line(p, q, r)
  BY <1>3, <1>4, <1>5, LineEqual
<1> QED BY <1>3, <1>4, <1>6 DEF u, v

\* What is read is the line without its first pieces.
LEMMA LineDrop ==
  ASSUME NEW p, NEW r, NEW q, NEW s, NEW g, Flow(p, q, r, s, g)
  PROVE  /\ Flow(<<>>, q, r, s, g)
         /\ Size(<<>>, q, r) = Size(p, q, r) - Len(p)
         /\ \A k \in 1..Size(<<>>, q, r) : Line(<<>>, q, r)[k] = Line(p, q, r)[Len(p) + k]
<1>0. Len(p) \in Nat /\ Len(q) \in Nat /\ Len(r) \in Nat /\ Size(p, q, r) = Len(p) + Len(q) + Len(r)
  BY FlowFacts
<1>1. <<>> \in Seq(Piece) /\ Len(<<>>) = 0
  OBVIOUS
<1>2. Flow(<<>>, q, r, s, g)
  BY <1>1 DEF Flow
<1>3. Size(<<>>, q, r) = Size(p, q, r) - Len(p) /\ Size(<<>>, q, r) = Len(q) + Len(r)
  BY <1>0, <1>1 DEF Size
<1>4. ASSUME NEW k \in 1..Size(<<>>, q, r) PROVE Line(<<>>, q, r)[k] = Line(p, q, r)[Len(p) + k]
  <2>1. CASE k \in 1..Len(q)
    <3>1. k = Len(<<>>) + k
      BY <2>1, <1>0, <1>1
    <3>2. Line(<<>>, q, r)[k] = q[k]
      BY <2>1, <3>1, <1>2, LineFacts
    <3> QED BY <2>1, <3>2, LineFacts
  <2>2. CASE \E j \in 1..Len(r) : k = Len(q) + j
    <3>1. PICK j \in 1..Len(r) : k = Len(q) + j
      BY <2>2
    <3>2. k = Len(<<>>) + Len(q) + j /\ Len(p) + k = Len(p) + Len(q) + j
      BY <3>1, <1>0, <1>1
    <3>3. Line(<<>>, q, r)[k] = r[j]
      BY <3>2, <1>2, LineFacts
    <3> QED BY <3>2, <3>3, LineFacts
  <2>3. k \in 1..Len(q) \/ (k - Len(q) \in 1..Len(r) /\ k = Len(q) + (k - Len(q)))
    BY <1>0, <1>3
  <2> QED BY <2>1, <2>2, <2>3
<1> QED BY <1>2, <1>3, <1>4

\* The worker that sends is gone: the rest of the line is.
LEMMA LineCut ==
  ASSUME NEW p, NEW r, NEW q, NEW s, NEW g, Flow(p, q, r, s, g)
  PROVE  /\ Flow(p, q, <<>>, s, g)
         /\ Size(p, q, <<>>) = Len(p) + Len(q) /\ Size(p, q, <<>>) <= Size(p, q, r)
         /\ \A k \in 1..Size(p, q, <<>>) : Line(p, q, <<>>)[k] = Line(p, q, r)[k]
<1>0. Len(p) \in Nat /\ Len(q) \in Nat /\ Len(r) \in Nat /\ Size(p, q, r) = Len(p) + Len(q) + Len(r)
  BY FlowFacts
<1>1. <<>> \in Seq(Piece) /\ Len(<<>>) = 0
  OBVIOUS
<1>2. Flow(p, q, <<>>, s, g)
  BY <1>1 DEF Flow
<1>3. Size(p, q, <<>>) = Len(p) + Len(q)
  BY <1>0, <1>1 DEF Size
<1>4. ASSUME NEW k \in 1..Size(p, q, <<>>) PROVE Line(p, q, <<>>)[k] = Line(p, q, r)[k]
  <2>1. CASE k \in 1..Len(p)
    BY <2>1, <1>2, LineFacts
  <2>2. CASE \E j \in 1..Len(q) : k = Len(p) + j
    <3>1. PICK j \in 1..Len(q) : k = Len(p) + j
      BY <2>2
    <3>2. Line(p, q, <<>>)[k] = q[j]
      BY <3>1, <1>2, LineFacts
    <3> QED BY <3>1, <3>2, LineFacts
  <2>3. k \in 1..Len(p) \/ (k - Len(p) \in 1..Len(q) /\ k = Len(p) + (k - Len(p)))
    BY <1>0, <1>3
  <2> QED BY <2>1, <2>2, <2>3
<1> QED BY <1>0, <1>2, <1>3, <1>4

\* What Follows says, with the types of what it speaks of.
LEMMA FollowsFacts ==
  ASSUME NEW p, NEW q, NEW r, NEW s, NEW g, NEW f, Flow(p, q, r, s, g),
         Follows(Line(p, q, r), Size(p, q, r), s, Len(g), f)
  PROVE  \A k \in 1..Size(p, q, r) :
           /\ f[k] \in 1..Len(s) /\ f[k] \in Nat /\ Len(g) < f[k]
           /\ Line(p, q, r)[k].no \in Nat /\ Line(p, q, r)[k].msg = s[f[k]]
           /\ Line(p, q, r)[k].no <= 1 + s[f[k]].len
           /\ s[f[k]] \in Messages /\ s[f[k]].len \in Nat
<1> SUFFICES ASSUME NEW k \in 1..Size(p, q, r)
             PROVE  /\ f[k] \in 1..Len(s) /\ f[k] \in Nat /\ Len(g) < f[k]
                    /\ Line(p, q, r)[k].no \in Nat /\ Line(p, q, r)[k].msg = s[f[k]]
                    /\ Line(p, q, r)[k].no <= 1 + s[f[k]].len
                    /\ s[f[k]] \in Messages /\ s[f[k]].len \in Nat
  OBVIOUS
<1>1. f[k] \in 1..Len(s)
  BY DEF Follows
<1>2. Len(g) < f[k] /\ Line(p, q, r)[k].msg = s[f[k]] /\ Line(p, q, r)[k].no <= 1 + s[f[k]].len
  BY DEF Follows
<1>3. Line(p, q, r)[k].no \in Nat
  BY LineFacts
<1>4. f[k] \in Nat
  BY <1>1, FlowFacts
<1>5. s[f[k]] \in Messages /\ s[f[k]].len \in Nat
  BY <1>1, FlowFacts
<1> QED BY <1>1, <1>2, <1>3, <1>4, <1>5

\* A piece is put into the queue.
LEMMA FramedPut ==
  ASSUME NEW p, NEW q, NEW r, NEW s, NEW g, NEW f, NEW cut, Flow(p, q, r, s, g),
         r # <<>>, Len(q) < Capacity, Framed(p, q, r, s, g, cut, f)
  PROVE  Framed(p, Append(q, Head(r)), Tail(r), s, g, cut, f)
<1> DEFINE u == Append(q, Head(r))
           v == Tail(r)
<1>1. /\ Size(p, u, v) = Size(p, q, r)
      /\ Line(p, u, v) = Line(p, q, r)
  BY LinePut
<1>2. Len(u) = Len(q) + 1
  BY DEF Flow
<1> HIDE DEF u, v
<1>3. Len(u) <= Capacity
  BY <1>2, ChannelAssumption, FlowFacts
<1>4. \A k \in 1..Size(p, q, r) : Len(p) + Len(u) < k => Len(p) + Len(q) < k
  BY <1>2, FlowFacts
<1>5. Framed(p, u, v, s, g, cut, f)
  BY <1>1, <1>3, <1>4 DEF Framed
<1> QED BY <1>5 DEF u, v

\* What is read when a piece is taken: the first pieces of the first message
\* that was not received.
Fetched(u, p, q, r, s, g, f) ==
  /\ Len(g) + 1 \in 1..Len(s) /\ Len(u) = Len(p) + 1
  /\ Len(u) <= Size(p, q, r) /\ Len(u) <= 1 + s[Len(g) + 1].len
  /\ \A k \in 1..Len(u) : /\ f[k] = Len(g) + 1 /\ Line(p, q, r)[k].no = k
                          /\ u[k] = [msg |-> s[Len(g) + 1], no |-> k]
  /\ u \in Seq(Piece) /\ u[1].msg = s[Len(g) + 1]
  /\ Complete(u) <=> Len(u) = 1 + s[Len(g) + 1].len

\* What a reader has after one more piece are the first pieces of the next message.
LEMMA FramedRead ==
  ASSUME NEW p, NEW q, NEW r, NEW s, NEW g, NEW f, NEW cut, Flow(p, q, r, s, g),
         q # <<>>, Framed(p, q, r, s, g, cut, f)
  PROVE  Fetched(Append(p, Head(q)), p, q, r, s, g, f)
<1> DEFINE u == Append(p, Head(q))
           v == Tail(q)
           l == Line(p, q, r)
           n == Size(p, q, r)
           h == Len(g)
           P == Len(p)
<1>1. Flow(u, v, r, s, g) /\ Size(u, v, r) = n /\ Line(u, v, r) = l
  BY LineTake
<1>2. Len(u) = P + 1 /\ u \in Seq(Piece)
  BY <1>1 DEF Flow
<1>3. n \in Nat /\ h \in Nat /\ P \in Nat /\ Len(v) \in Nat /\ Len(r) \in Nat /\ n = Len(u) + Len(v) + Len(r)
  BY <1>1, FlowFacts
<1>4. \A k \in 1..Len(u) : l[k] = u[k]
  BY <1>1, LineFacts
<1>5. \A k \in 1..n : /\ f[k] \in 1..Len(s) /\ f[k] \in Nat /\ h < f[k] /\ l[k].no \in Nat /\ l[k].msg = s[f[k]]
                      /\ l[k].no <= 1 + s[f[k]].len /\ s[f[k]] \in Messages /\ s[f[k]].len \in Nat
  BY FollowsFacts DEF Framed
<1>6. \A k \in 1..P : f[k] = h + 1 /\ l[k].no = k
  BY DEF Framed
<1>7. /\ n > 0 => f[1] = h + 1 /\ l[1].no = 1
      /\ \A j, k \in 1..n : k = j + 1 /\ l[j].no <= s[f[j]].len => f[k] = f[j] /\ l[k].no = l[j].no + 1
  BY DEF Framed, Follows
<1>8. P > 0 => P <= p[1].msg.len
  BY DEF Framed, Flow
<1>9. \A k \in 1..P : l[k] = p[k]
  BY LineFacts
<1>10. \A k \in 1..n : l[k] = [msg |-> l[k].msg, no |-> l[k].no]
  BY LineFacts, PieceFacts
<1> HIDE DEF u, v, l, n, h, P
<1>11. f[P + 1] = h + 1 /\ l[P + 1].no = P + 1
  <2>1. CASE P = 0
    BY <2>1, <1>2, <1>3, <1>7
  <2>2. CASE P > 0
    <3>1. P \in 1..P /\ 1 \in 1..P /\ P \in 1..n /\ 1 \in 1..n /\ P + 1 \in 1..n
      BY <2>2, <1>2, <1>3
    <3>2. p[1].msg = s[h + 1]
      BY <3>1, <1>5, <1>6, <1>9
    <3>3. l[P].no <= s[f[P]].len
      BY <2>2, <3>1, <3>2, <1>6, <1>8
    <3> QED BY <3>1, <3>3, <1>6, <1>7
  <2> QED BY <2>1, <2>2, <1>3
<1>12. ASSUME NEW k \in 1..Len(u) PROVE k \in 1..n /\ f[k] = h + 1 /\ l[k].no = k
  <2>1. k \in 1..P \/ k = P + 1
    BY <1>2, <1>3
  <2> QED BY <2>1, <1>2, <1>3, <1>6, <1>11
<1>13. ASSUME NEW k \in 1..Len(u) PROVE u[k] = [msg |-> s[h + 1], no |-> k]
  BY <1>4, <1>5, <1>10, <1>12
<1>14. 1 \in 1..Len(u) /\ P + 1 \in 1..Len(u)
  BY <1>2, <1>3
<1>15. h + 1 \in 1..Len(s) /\ Len(u) <= 1 + s[h + 1].len /\ u[1].msg = s[h + 1]
  BY <1>2, <1>5, <1>12, <1>13, <1>14
<1>16. Complete(u) <=> Len(u) = 1 + s[h + 1].len
  BY <1>15 DEF Complete
<1>17. Len(u) <= n
  BY <1>2, <1>3
<1> QED BY <1>2, <1>12, <1>13, <1>15, <1>16, <1>17 DEF Fetched, u, l, n, h, P

\* Part of a message is read.
LEMMA FramedPart ==
  ASSUME NEW p, NEW q, NEW r, NEW s, NEW g, NEW f, NEW cut, Flow(p, q, r, s, g),
         q # <<>>, Framed(p, q, r, s, g, cut, f), ~Complete(Append(p, Head(q)))
  PROVE  Framed(Append(p, Head(q)), Tail(q), r, s, g, cut, f)
<1> DEFINE u == Append(p, Head(q))
           v == Tail(q)
           h == Len(g)
<1>1. Flow(u, v, r, s, g) /\ Size(u, v, r) = Size(p, q, r) /\ Line(u, v, r) = Line(p, q, r)
  BY LineTake
<1>2. /\ h + 1 \in 1..Len(s) /\ Len(u) <= 1 + s[h + 1].len
      /\ \A k \in 1..Len(u) : f[k] = h + 1 /\ Line(p, q, r)[k].no = k
      /\ u[1].msg = s[h + 1] /\ (Complete(u) <=> Len(u) = 1 + s[h + 1].len)
  <2>1. Fetched(u, p, q, r, s, g, f)
    BY FramedRead
  <2> HIDE DEF u
  <2> QED BY <2>1 DEF Fetched
<1>3. ~Complete(u)
  OBVIOUS
<1>4. Len(v) = Len(q) - 1 /\ Len(q) \in Nat /\ Len(u) = Len(p) + 1
  BY DEF Flow
<1>5. s[h + 1].len \in Nat /\ Len(u) \in Nat
  BY <1>1, <1>2, FlowFacts
<1> HIDE DEF u, v, h
<1>6. Len(u) <= u[1].msg.len
  BY <1>2, <1>3, <1>5
<1>7. Len(v) <= Capacity
  <2>1. Len(q) <= Capacity
    BY DEF Framed
  <2> QED BY <2>1, <1>4, ChannelAssumption
<1>8. \A k \in 1..Size(p, q, r) : Len(u) + Len(v) < k => Len(p) + Len(q) < k
  BY <1>4, FlowFacts
<1>9. Framed(u, v, r, s, g, cut, f)
  BY <1>1, <1>2, <1>6, <1>7, <1>8 DEF Framed, h
<1> QED BY <1>9 DEF u, v

\* A message is read to its end: it is the first that was not received.
LEMMA FramedWhole ==
  ASSUME NEW p, NEW q, NEW r, NEW s, NEW g, NEW f, NEW cut, Flow(p, q, r, s, g),
         q # <<>>, Framed(p, q, r, s, g, cut, f), Complete(Append(p, Head(q)))
  PROVE  /\ Whole(Append(p, Head(q))) = s[Len(g) + 1]
         /\ \E e : Framed(<<>>, Tail(q), r, s, Append(g, s[Len(g) + 1]), cut, e)
<1> DEFINE u == Append(p, Head(q))
           v == Tail(q)
           h == Len(g)
           m == s[h + 1]
           g1 == Append(g, m)
           n == Size(p, q, r)
           U == Len(u)
           c == n - U
           l == Line(p, q, r)
           o == Line(<<>>, v, r)
           e == [k \in 1..c |-> f[U + k]]
<1>1. Flow(u, v, r, s, g) /\ Size(u, v, r) = n /\ Line(u, v, r) = l
  BY LineTake
<1>2. Fetched(u, p, q, r, s, g, f)
  BY FramedRead
<1>3. Complete(u)
  OBVIOUS
<1>4. v \in Seq(Piece) /\ Len(v) = Len(q) - 1 /\ Len(q) \in Nat
  BY <1>1 DEF Flow
<1>5. n \in Nat /\ h \in Nat /\ U \in Nat /\ Len(s) \in Nat /\ Len(r) \in Nat /\ n = U + Len(v) + Len(r)
  BY <1>1, FlowFacts
<1> HIDE DEF u, v
<1>6. h + 1 \in 1..Len(s) /\ U = Len(p) + 1 /\ U <= n /\ U = 1 + m.len
  BY <1>2, <1>3 DEF Fetched
<1>7. m \in Messages /\ m.len \in Nat
  BY <1>1, <1>6, FlowFacts
<1>8. \A k \in 1..U : f[k] = h + 1 /\ l[k].no = k /\ u[k] = [msg |-> m, no |-> k]
  BY <1>2 DEF Fetched
<1>9. u[1].msg = m /\ u \in Seq(Piece)
  BY <1>2 DEF Fetched
<1>10. Whole(u) = m
  <2>1. Pieces(m) \in Seq(Piece) /\ Len(Pieces(m)) = 1 + m.len /\ \A i \in 1..1 + m.len : Pieces(m)[i] = [msg |-> m, no |-> i]
    BY <1>7, PiecesFacts
  <2>2. \A i \in 1..U : u[i] = Pieces(m)[i]
    BY <2>1, <1>6, <1>8
  <2>3. u = Pieces(m)
    <3> DEFINE z == Pieces(m)
    <3>1. z \in Seq(Piece) /\ Len(z) = U
      BY <2>1, <1>6
    <3>2. \A i \in 1..U : u[i] = z[i]
      BY <2>2
    <3> HIDE DEF z, m
    <3>3. u = z
      BY <3>1, <3>2, <1>9
    <3> QED BY <3>3 DEF z
  <2> QED BY <2>3, <1>9 DEF Whole
<1>11. g1 \in Seq(Messages) /\ Len(g1) = h + 1 /\ (\A i \in 1..h : g1[i] = g[i]) /\ g1[h + 1] = m
  <2> HIDE DEF m
  <2> QED BY <1>7 DEF Flow
<1>12. Flow(<<>>, v, r, s, g) /\ Size(<<>>, v, r) = c /\ \A k \in 1..c : o[k] = l[U + k]
  <2>1. /\ Flow(<<>>, v, r, s, g)
        /\ Size(<<>>, v, r) = Size(u, v, r) - Len(u)
        /\ \A k \in 1..Size(<<>>, v, r) : Line(<<>>, v, r)[k] = Line(u, v, r)[Len(u) + k]
    BY <1>1, LineDrop
  <2> QED BY <1>1, <2>1
<1>13. \A k \in 1..n : /\ f[k] \in 1..Len(s) /\ f[k] \in Nat /\ h < f[k] /\ l[k].no \in Nat /\ l[k].msg = s[f[k]]
                      /\ l[k].no <= 1 + s[f[k]].len /\ s[f[k]] \in Messages /\ s[f[k]].len \in Nat
  BY FollowsFacts DEF Framed
<1>14. /\ \A j, k \in 1..n : j <= k => f[j] <= f[k]
       /\ \A j, k \in 1..n : k = j + 1 /\ l[j].no <= s[f[j]].len => f[k] = f[j] /\ l[k].no = l[j].no + 1
       /\ \A j, k \in 1..n : k = j + 1 /\ l[j].no > s[f[j]].len => f[k] = f[j] + 1 /\ l[k].no = 1
  BY DEF Framed, Follows
<1>15. c \in Nat /\ n = U + c
  BY <1>5, <1>6
<1>16. \A k \in 1..c : e[k] = f[U + k]
  OBVIOUS
<1>17. \A k \in 1..n : Len(p) + Len(q) < k => f[k] = Len(s)
  BY DEF Framed
<1>18. Len(q) <= Capacity /\ h <= Len(s) /\ \A i \in 1..h : g[i] = s[i]
  BY DEF Framed
<1>19. cut \/ /\ \A i \in 1..Len(s) : h < i => \E k \in 1..n : f[k] = i
              /\ n > 0 => f[n] = Len(s) /\ l[n].no = 1 + s[Len(s)].len
  BY DEF Framed, Closed
<1>20. e \in [1..c -> 1..Len(s)]
  <2>1. \A k \in 1..c : f[U + k] \in 1..Len(s)
    BY <1>5, <1>13, <1>15
  <2> QED BY <2>1
<1> HIDE DEF h, m, g1, n, U, c, l, o, e
<1>21. \A k \in 1..c : U + k \in 1..n /\ U + k \in Nat
  BY <1>5, <1>15
<1>22. c > 0 => f[U + 1] = h + 2 /\ l[U + 1].no = 1
  <2> SUFFICES ASSUME c > 0 PROVE f[U + 1] = h + 2 /\ l[U + 1].no = 1
    OBVIOUS
  <2>1. U \in 1..n /\ U + 1 \in 1..n /\ U \in 1..U
    BY <1>5, <1>6, <1>15
  <2>2. f[U] = h + 1 /\ l[U].no = U /\ s[f[U]] = m
    BY <2>1, <1>8 DEF m
  <2>3. l[U].no > s[f[U]].len
    BY <2>2, <1>6, <1>7
  <2>4. f[U + 1] = f[U] + 1 /\ l[U + 1].no = 1
    BY <2>1, <2>3, <1>14
  <2> QED BY <2>2, <2>4, <1>5
<1>23. Follows(o, c, s, Len(g1), e)
  <2>1. \A k \in 1..c : h + 1 < e[k] /\ o[k].msg = s[e[k]] /\ o[k].no <= 1 + s[e[k]].len
    <3> SUFFICES ASSUME NEW k \in 1..c
                 PROVE  h + 1 < e[k] /\ o[k].msg = s[e[k]] /\ o[k].no <= 1 + s[e[k]].len
      OBVIOUS
    <3>1. e[k] = f[U + k] /\ o[k] = l[U + k] /\ U + k \in 1..n
      BY <1>12, <1>16, <1>21
    <3>2. U + 1 <= U + k /\ U + 1 \in 1..n /\ c > 0
      BY <1>5, <1>15
    <3>3. f[U + 1] <= f[U + k]
      BY <3>1, <3>2, <1>14
    <3>4. h + 1 < f[U + k]
      <4> DEFINE z == f[U + k]
      <4>1. h + 2 <= z /\ z \in Nat
        BY <3>1, <3>2, <3>3, <1>13, <1>22
      <4> HIDE DEF z
      <4>2. h + 1 < z
        BY <4>1, <1>5
      <4> QED BY <4>2 DEF z
    <3> QED BY <3>1, <3>4, <1>13
  <2>2. ASSUME NEW j \in 1..c, NEW k \in 1..c, j <= k PROVE e[j] <= e[k]
    <3>1. U + j \in 1..n /\ U + k \in 1..n /\ U + j <= U + k
      BY <2>2, <1>5, <1>21
    <3> QED BY <3>1, <1>14, <1>16
  <2>3. c > 0 => e[1] = h + 2 /\ o[1].no = 1
    <3>1. c > 0 => 1 \in 1..c
      BY <1>15
    <3> QED BY <3>1, <1>12, <1>16, <1>22
  <2>4. ASSUME NEW j \in 1..c, NEW k \in 1..c, k = j + 1
        PROVE  /\ o[j].no <= s[e[j]].len => e[k] = e[j] /\ o[k].no = o[j].no + 1
               /\ o[j].no > s[e[j]].len => e[k] = e[j] + 1 /\ o[k].no = 1
    <3>1. U + j \in 1..n /\ U + k \in 1..n /\ U + k = (U + j) + 1
      BY <2>4, <1>5, <1>21
    <3>2. e[j] = f[U + j] /\ o[j] = l[U + j] /\ e[k] = f[U + k] /\ o[k] = l[U + k]
      BY <1>12, <1>16
    <3> QED BY <3>1, <3>2, <1>14
  <2>5. Len(g1) = h + 1 /\ (h + 1) + 1 = h + 2
    BY <1>5, <1>11
  <2> QED BY <2>1, <2>2, <2>3, <2>4, <2>5, <1>20 DEF Follows
<1>24. cut \/ Closed(o, c, s, Len(g1), e)
  <2> SUFFICES ASSUME ~cut PROVE Closed(o, c, s, Len(g1), e)
    OBVIOUS
  <2>1. ASSUME NEW i \in 1..Len(s), h + 1 < i PROVE \E k \in 1..c : e[k] = i
    <3>1. h < i /\ i # h + 1
      BY <2>1, <1>5
    <3>2. PICK k \in 1..n : f[k] = i
      BY <3>1, <1>19
    <3>3. k \notin 1..U
      BY <3>1, <3>2, <1>8
    <3>4. k - U \in 1..c /\ U + (k - U) = k
      BY <3>3, <1>5, <1>15
    <3> QED BY <3>2, <3>4, <1>16
  <2>2. c > 0 => e[c] = Len(s) /\ o[c].no = 1 + s[Len(s)].len
    <3>1. c > 0 => c \in 1..c /\ U + c = n /\ n > 0
      BY <1>5, <1>15
    <3> QED BY <3>1, <1>12, <1>16, <1>19
  <2> QED BY <2>1, <2>2, <1>11 DEF Closed
<1>25. ASSUME NEW k \in 1..c, Len(<<>>) + Len(v) < k PROVE e[k] = Len(s)
  <2>1. Len(v) < k
    BY <1>25, <1>4
  <2>2. Len(p) + Len(q) < U + k
    <3>1. Len(p) \in Nat
      BY FlowFacts
    <3> QED BY <2>1, <3>1, <1>4, <1>5, <1>6
  <2> QED BY <2>2, <1>16, <1>17, <1>21
<1>26. Len(v) <= Capacity
  BY <1>4, <1>18, ChannelAssumption
<1>27. Len(g1) <= Len(s) /\ \A i \in 1..Len(g1) : g1[i] = s[i]
  <2>1. \A i \in 1..h + 1 : i \in 1..h \/ i = h + 1
    BY <1>5
  <2> QED BY <2>1, <1>5, <1>6, <1>11, <1>18 DEF m
<1>28. Framed(<<>>, v, r, s, g1, cut, e)
  <2>1. Len(<<>>) = 0 /\ 1..0 = {}
    OBVIOUS
  <2>2. Size(<<>>, v, r) = c /\ Line(<<>>, v, r) = o
    BY <1>12 DEF o
  <2> QED BY <2>1, <2>2, <1>23, <1>24, <1>25, <1>26, <1>27 DEF Framed
<1> QED BY <1>10, <1>28 DEF u, v, m, h, g1

\* The worker that sends is gone.
LEMMA FramedCut ==
  ASSUME NEW p, NEW q, NEW r, NEW s, NEW g, NEW f, NEW cut, Flow(p, q, r, s, g),
         Framed(p, q, r, s, g, cut, f)
  PROVE  \E e : Framed(p, q, <<>>, s, g, TRUE, e)
<1> DEFINE n == Size(p, q, r)
           c == Len(p) + Len(q)
           l == Line(p, q, r)
           o == Line(p, q, <<>>)
           h == Len(g)
           e == [k \in 1..c |-> f[k]]
<1>1. Size(p, q, <<>>) = c /\ c <= n /\ \A k \in 1..c : o[k] = l[k]
  BY LineCut
<1>2. n \in Nat /\ c \in Nat /\ Len(p) \in Nat
  BY FlowFacts
<1>3. \A k \in 1..n : f[k] \in 1..Len(s) /\ h < f[k] /\ l[k].msg = s[f[k]] /\ l[k].no <= 1 + s[f[k]].len
  BY FollowsFacts DEF Framed
<1>4. /\ \A j, k \in 1..n : j <= k => f[j] <= f[k]
      /\ \A j, k \in 1..n : k = j + 1 /\ l[j].no <= s[f[j]].len => f[k] = f[j] /\ l[k].no = l[j].no + 1
      /\ \A j, k \in 1..n : k = j + 1 /\ l[j].no > s[f[j]].len => f[k] = f[j] + 1 /\ l[k].no = 1
      /\ n > 0 => f[1] = h + 1 /\ l[1].no = 1
  BY DEF Framed, Follows
<1>5. /\ \A k \in 1..Len(p) : f[k] = h + 1 /\ l[k].no = k
      /\ p # <<>> => Len(p) <= p[1].msg.len
      /\ Len(q) <= Capacity
      /\ h <= Len(s) /\ \A i \in 1..h : g[i] = s[i]
  BY DEF Framed
<1>6. \A k \in 1..c : k \in 1..n /\ ~(c < k)
  BY <1>1, <1>2
<1>7. e \in [1..c -> 1..Len(s)]
  BY <1>3, <1>6
<1>8. \A k \in 1..c : e[k] = f[k]
  OBVIOUS
<1>9. \A k \in 1..Len(p) : k \in 1..c
  BY <1>2, FlowFacts
<1>10. c > 0 => 1 \in 1..c /\ n > 0
  BY <1>1, <1>2
<1> HIDE DEF n, l, o, h, e, c
<1>11. Follows(o, c, s, h, e)
  <2>1. \A k \in 1..c : h < e[k] /\ o[k].msg = s[e[k]] /\ o[k].no <= 1 + s[e[k]].len
    BY <1>1, <1>3, <1>6, <1>8
  <2>2. \A j, k \in 1..c : j <= k => e[j] <= e[k]
    BY <1>4, <1>6, <1>8
  <2>3. c > 0 => e[1] = h + 1 /\ o[1].no = 1
    BY <1>1, <1>4, <1>8, <1>10
  <2>4. ASSUME NEW j \in 1..c, NEW k \in 1..c, k = j + 1
        PROVE  /\ o[j].no <= s[e[j]].len => e[k] = e[j] /\ o[k].no = o[j].no + 1
               /\ o[j].no > s[e[j]].len => e[k] = e[j] + 1 /\ o[k].no = 1
    <3>1. e[j] = f[j] /\ o[j] = l[j] /\ e[k] = f[k] /\ o[k] = l[k] /\ j \in 1..n /\ k \in 1..n
      BY <1>1, <1>6, <1>8
    <3> QED BY <2>4, <3>1, <1>4
  <2> QED BY <2>1, <2>2, <2>3, <2>4, <1>7 DEF Follows
<1>12. Framed(p, q, <<>>, s, g, TRUE, e)
  BY <1>1, <1>5, <1>6, <1>8, <1>9, <1>11 DEF Framed, o, h, c
<1> QED BY <1>12

\* send is called: its pieces go to the end of the line.
LEMMA FramedStart ==
  ASSUME NEW p, NEW q, NEW s, NEW g, NEW f, NEW cut, Flow(p, q, <<>>, s, g),
         Framed(p, q, <<>>, s, g, FALSE, f), NEW m \in Messages
  PROVE  /\ Flow(p, q, Pieces(m), Append(s, m), g)
         /\ \E e : Framed(p, q, Pieces(m), Append(s, m), g, cut, e)
<1> DEFINE r == Pieces(m)
           t == Append(s, m)
           n == Size(p, q, <<>>)
           N == Size(p, q, r)
           l == Line(p, q, <<>>)
           o == Line(p, q, r)
           h == Len(g)
           e == [k \in 1..N |-> IF k <= n THEN f[k] ELSE Len(s) + 1]
<1>1. m.len \in Nat
  BY MessageFacts
<1>2. r \in Seq(Piece) /\ Len(r) = 1 + m.len /\ \A j \in 1..1 + m.len : r[j] = [msg |-> m, no |-> j]
  BY PiecesFacts
<1>3. t \in Seq(Messages) /\ Len(t) = Len(s) + 1 /\ t[Len(s) + 1] = m /\ \A i \in 1..Len(s) : t[i] = s[i]
  BY DEF Flow
<1>4. Flow(p, q, r, t, g) /\ Flow(p, q, r, s, g)
  BY <1>2, <1>3 DEF Flow
<1>5. /\ n \in Nat /\ N \in Nat /\ h \in Nat /\ Len(s) \in Nat /\ Len(p) \in Nat /\ Len(q) \in Nat
      /\ n = Len(p) + Len(q) /\ N = n + 1 + m.len
  <2>1. Len(p) \in Nat /\ Len(q) \in Nat /\ h \in Nat /\ Len(s) \in Nat
    BY FlowFacts
  <2>2. Len(<<>>) = 0
    OBVIOUS
  <2> QED BY <2>1, <2>2, <1>1, <1>2 DEF Size
<1>6. \A k \in 1..n : o[k] = l[k]
  BY <1>4, LineCut
<1>7. \A j \in 1..1 + m.len : o[n + j] = [msg |-> m, no |-> j]
  <2>1. \A j \in 1..Len(r) : o[Len(p) + Len(q) + j] = r[j]
    BY <1>4, LineFacts
  <2> HIDE DEF r, o, n
  <2> QED BY <2>1, <1>2, <1>5
<1>8. \A k \in 1..n : /\ f[k] \in 1..Len(s) /\ f[k] \in Nat /\ h < f[k] /\ l[k].no \in Nat /\ l[k].msg = s[f[k]]
                      /\ l[k].no <= 1 + s[f[k]].len /\ s[f[k]] \in Messages /\ s[f[k]].len \in Nat
  BY FollowsFacts DEF Framed
<1>9. /\ \A j, k \in 1..n : j <= k => f[j] <= f[k]
      /\ \A j, k \in 1..n : k = j + 1 /\ l[j].no <= s[f[j]].len => f[k] = f[j] /\ l[k].no = l[j].no + 1
      /\ \A j, k \in 1..n : k = j + 1 /\ l[j].no > s[f[j]].len => f[k] = f[j] + 1 /\ l[k].no = 1
      /\ n > 0 => f[1] = h + 1 /\ l[1].no = 1
  BY DEF Framed, Follows
<1>10. /\ \A i \in 1..Len(s) : h < i => \E k \in 1..n : f[k] = i
       /\ n > 0 => f[n] = Len(s) /\ l[n].no = 1 + s[Len(s)].len
  BY DEF Framed, Closed
<1>11. /\ \A k \in 1..Len(p) : f[k] = h + 1 /\ l[k].no = k
       /\ p # <<>> => Len(p) <= p[1].msg.len
       /\ Len(q) <= Capacity
       /\ h <= Len(s) /\ \A i \in 1..h : g[i] = s[i]
  BY DEF Framed
<1>12. \A k \in 1..n : k \in 1..N /\ k <= n
  BY <1>1, <1>5
<1>13. \A k \in 1..n : e[k] = f[k]
  BY <1>12
<1>14. \A j \in 1..1 + m.len : n + j \in 1..N /\ ~(n + j <= n)
  <2> HIDE DEF n, N
  <2> QED BY <1>1, <1>5
<1>15. \A j \in 1..1 + m.len : e[n + j] = Len(s) + 1
  BY <1>14
<1>16. \A k \in 1..N : k \in 1..n \/ (k - n \in 1..1 + m.len /\ n + (k - n) = k)
  <2> HIDE DEF n, N
  <2> QED BY <1>1, <1>5
<1>17. e \in [1..N -> 1..Len(t)]
  <2>1. \A k \in 1..N : (IF k <= n THEN f[k] ELSE Len(s) + 1) \in 1..Len(t)
    <3> SUFFICES ASSUME NEW k \in 1..N PROVE (IF k <= n THEN f[k] ELSE Len(s) + 1) \in 1..Len(t)
      OBVIOUS
    <3>1. Len(s) + 1 \in 1..Len(t) /\ \A i \in 1..Len(s) : i \in 1..Len(t)
      BY <1>3, <1>5
    <3>2. k <= n => k \in 1..n
      BY <1>5
    <3> HIDE DEF t, n, N
    <3> QED BY <3>1, <3>2, <1>8
  <2> QED BY <2>1
<1> HIDE DEF r, t, n, N, l, o, h, e
<1>18. \A k \in 1..n : /\ e[k] = f[k] /\ o[k] = l[k] /\ t[e[k]] = s[f[k]] /\ e[k] \in Nat /\ e[k] <= Len(s)
  <2>1. \A k \in 1..n : f[k] \in 1..Len(s) /\ f[k] \in Nat /\ t[f[k]] = s[f[k]] /\ f[k] <= Len(s)
    BY <1>3, <1>5, <1>8
  <2> QED BY <2>1, <1>6, <1>13
<1>19. \A j \in 1..1 + m.len : e[n + j] = Len(s) + 1 /\ o[n + j].msg = m /\ o[n + j].no = j /\ t[e[n + j]] = m
  <2> SUFFICES ASSUME NEW j \in 1..1 + m.len
               PROVE  e[n + j] = Len(s) + 1 /\ o[n + j].msg = m /\ o[n + j].no = j /\ t[e[n + j]] = m
    OBVIOUS
  <2>1. e[n + j] = Len(s) + 1 /\ o[n + j] = [msg |-> m, no |-> j]
    BY <1>7, <1>15
  <2> QED BY <2>1, <1>3
<1>20. Follows(o, N, t, h, e)
  <2>1. ASSUME NEW k \in 1..N PROVE h < e[k] /\ o[k].msg = t[e[k]] /\ o[k].no <= 1 + t[e[k]].len
    <3>1. CASE k \in 1..n
      BY <3>1, <1>8, <1>18
    <3>2. CASE k - n \in 1..1 + m.len /\ n + (k - n) = k
      <4>1. e[k] = Len(s) + 1 /\ o[k].msg = m /\ o[k].no = k - n /\ t[e[k]] = m
        BY <3>2, <1>19
      <4>2. h < Len(s) + 1 /\ k - n <= 1 + m.len
        BY <3>2, <1>1, <1>5, <1>11
      <4> QED BY <4>1, <4>2
    <3> QED BY <3>1, <3>2, <1>16
  <2>2. ASSUME NEW j \in 1..N, NEW k \in 1..N, j <= k PROVE e[j] <= e[k]
    <3>1. CASE j \in 1..n /\ k \in 1..n
      BY <2>2, <3>1, <1>9, <1>18
    <3>2. CASE j \in 1..n /\ k - n \in 1..1 + m.len /\ n + (k - n) = k
      <4>1. e[k] = Len(s) + 1 /\ e[j] <= Len(s) /\ e[j] \in Nat
        BY <3>2, <1>18, <1>19
      <4> QED BY <4>1, <1>5
    <3>3. CASE j - n \in 1..1 + m.len /\ k - n \in 1..1 + m.len /\ n + (k - n) = k /\ n + (j - n) = j
      <4>1. e[k] = Len(s) + 1 /\ e[j] = Len(s) + 1
        BY <3>3, <1>19
      <4> QED BY <4>1, <1>5
    <3>4. ~(k \in 1..n /\ j - n \in 1..1 + m.len)
      BY <2>2, <1>1, <1>5
    <3> QED BY <3>1, <3>2, <3>3, <3>4, <1>16
  <2>3. N > 0 => e[1] = h + 1 /\ o[1].no = 1
    <3>1. CASE n > 0
      <4>1. 1 \in 1..n
        BY <3>1, <1>5
      <4> QED BY <3>1, <4>1, <1>9, <1>18
    <3>2. CASE n = 0
      <4>1. 1 \in 1..1 + m.len /\ n + 1 = 1
        BY <3>2, <1>1
      <4>2. e[1] = Len(s) + 1 /\ o[1].no = 1
        BY <4>1, <1>19
      <4>3. Len(s) = h
        <5>1. ~(h < Len(s))
          BY <3>2, <1>5, <1>10
        <5> QED BY <5>1, <1>5, <1>11
      <4> QED BY <4>2, <4>3
    <3> QED BY <3>1, <3>2, <1>5
  <2>4. ASSUME NEW j \in 1..N, NEW k \in 1..N, k = j + 1
        PROVE  /\ o[j].no <= t[e[j]].len => e[k] = e[j] /\ o[k].no = o[j].no + 1
               /\ o[j].no > t[e[j]].len => e[k] = e[j] + 1 /\ o[k].no = 1
    <3>1. CASE j \in 1..n /\ k \in 1..n
      <4>1. /\ e[j] = f[j] /\ o[j] = l[j] /\ t[e[j]] = s[f[j]]
            /\ e[k] = f[k] /\ o[k] = l[k]
        BY <3>1, <1>18
      <4> QED BY <2>4, <3>1, <4>1, <1>9
    <3>2. CASE j = n /\ n > 0
      <4>1. j \in 1..n /\ 1 \in 1..1 + m.len /\ k = n + 1
        BY <2>4, <3>2, <1>1, <1>5
      <4>2. e[k] = Len(s) + 1 /\ o[k].no = 1
        BY <4>1, <1>19
      <4>3. e[j] = Len(s) /\ o[j].no = 1 + s[Len(s)].len /\ t[e[j]] = s[Len(s)]
        BY <3>2, <4>1, <1>10, <1>18
      <4>4. s[Len(s)].len \in Nat
        BY <4>1, <3>2, <1>8, <1>10
      <4>5. ~(o[j].no <= t[e[j]].len)
        BY <4>3, <4>4
      <4> QED BY <4>2, <4>3, <4>5
    <3>3. CASE j - n \in 1..1 + m.len /\ k - n \in 1..1 + m.len /\ n + (k - n) = k /\ n + (j - n) = j
      <4>1. /\ e[k] = Len(s) + 1 /\ e[j] = Len(s) + 1 /\ o[k].no = k - n /\ o[j].no = j - n
            /\ t[e[j]] = m
        BY <3>3, <1>19
      <4>2. k - n = (j - n) + 1 /\ j - n <= m.len /\ ~(j - n > m.len)
        BY <2>4, <3>3, <1>1, <1>5
      <4> QED BY <4>1, <4>2
    <3>4. \/ j \in 1..n /\ k \in 1..n
          \/ j = n /\ n > 0
          \/ j - n \in 1..1 + m.len /\ k - n \in 1..1 + m.len /\ n + (k - n) = k /\ n + (j - n) = j
      BY <2>4, <1>1, <1>5
    <3> QED BY <3>1, <3>2, <3>3, <3>4
  <2> QED BY <2>1, <2>2, <2>3, <2>4, <1>17 DEF Follows
<1>21. Closed(o, N, t, h, e)
  <2>1. 1 + m.len \in 1..1 + m.len /\ n + (1 + m.len) = N /\ N \in 1..N
    BY <1>1, <1>5
  <2>2. e[N] = Len(s) + 1 /\ o[N].no = 1 + m.len
    BY <2>1, <1>19
  <2>3. ASSUME NEW i \in 1..Len(t), h < i PROVE \E k \in 1..N : e[k] = i
    <3>1. CASE i = Len(s) + 1
      BY <3>1, <2>1, <2>2
    <3>2. CASE i \in 1..Len(s)
      <4>1. PICK k \in 1..n : f[k] = i
        BY <2>3, <3>2, <1>10
      <4> QED BY <4>1, <1>12, <1>18
    <3> QED BY <3>1, <3>2, <1>3, <1>5
  <2> QED BY <2>2, <2>3, <1>3 DEF Closed
<1>22. ASSUME NEW k \in 1..N, Len(p) + Len(q) < k PROVE e[k] = Len(t)
  <2>1. k - n \in 1..1 + m.len /\ n + (k - n) = k
    BY <1>22, <1>1, <1>5
  <2>2. e[k] = Len(s) + 1
    BY <2>1, <1>19
  <2> QED BY <2>2, <1>3
<1>23. \A k \in 1..Len(p) : e[k] = h + 1 /\ o[k].no = k
  <2>1. \A k \in 1..Len(p) : k \in 1..n
    BY <1>5
  <2> QED BY <2>1, <1>11, <1>18
<1>24. h <= Len(t) /\ \A i \in 1..h : g[i] = t[i]
  <2>1. \A i \in 1..h : i \in 1..Len(s)
    BY <1>5, <1>11
  <2> QED BY <2>1, <1>3, <1>5, <1>11
<1>25. Framed(p, q, r, t, g, cut, e)
  BY <1>11, <1>20, <1>21, <1>22, <1>23, <1>24 DEF Framed, N, o, h
<1> QED BY <1>4, <1>25 DEF r, t

\* Nothing was sent yet.
LEMMA FramedInit ==
  /\ Flow(<<>>, <<>>, <<>>, <<>>, <<>>)
  /\ \A cut : \E e : Framed(<<>>, <<>>, <<>>, <<>>, <<>>, cut, e)
<1>1. Flow(<<>>, <<>>, <<>>, <<>>, <<>>)
  BY DEF Flow
<1> DEFINE e == [k \in 1..0 |-> 0]
<1>2. Len(<<>>) = 0 /\ Size(<<>>, <<>>, <<>>) = 0 /\ 1..0 = {}
  BY DEF Size
<1>3. e \in [1..0 -> 1..0]
  BY <1>2
<1> HIDE DEF e
<1>4. 0 <= Capacity
  BY ChannelAssumption
<1>5. \A l : Follows(l, 0, <<>>, 0, e) /\ Closed(l, 0, <<>>, 0, e)
  BY <1>2, <1>3 DEF Follows, Closed
<1>6. \A cut : Framed(<<>>, <<>>, <<>>, <<>>, <<>>, cut, e)
  BY <1>2, <1>4, <1>5 DEF Framed
<1> QED BY <1>1, <1>6

-----------------------------------------------------------------------------
(* The list of the processes of the application.                            *)

\* A set of numbers that is not empty has a least element.
LEMMA Least ==
  ASSUME NEW S \in SUBSET Nat, S # {}
  PROVE  Min(S) \in S /\ \A y \in S : Min(S) <= y
<1>1. PICK x \in S : \A y \in S : ~(<<y, x>> \in OpToRel(<, Nat))
  BY NatLessThanWellFounded, WFMin
<1>2. \A y \in S : x <= y
  <2> SUFFICES ASSUME NEW y \in S, y < x PROVE FALSE
    OBVIOUS
  <2>1. <<y, x>> \in Nat \X Nat /\ <<y, x>>[1] < <<y, x>>[2]
    OBVIOUS
  <2>2. <<y, x>> \in OpToRel(<, Nat)
    BY <2>1 DEF OpToRel
  <2> QED BY <1>1, <2>2
<1> QED BY <1>2 DEF Min

\* RemoveFirst takes out the first occurrence and keeps the order of the others.
LEMMA RemoveFirstFacts ==
  ASSUME NEW Q, NEW s \in Seq(Q), NEW e, NEW k \in 1..Len(s), s[k] = e,
         \A j \in 1..Len(s) : s[j] = e => k <= j
  PROVE  /\ RemoveFirst(s, e) \in Seq(Q)
         /\ Len(RemoveFirst(s, e)) = Len(s) - 1
         /\ \A i \in 1..Len(s) - 1 : RemoveFirst(s, e)[i] = IF i < k THEN s[i] ELSE s[i + 1]
<1> DEFINE I == {i \in 1..Len(s) : s[i] = e}
<1>1. I \in SUBSET Nat /\ k \in I
  OBVIOUS
<1>2. Min(I) = k
  <2>1. Min(I) \in I /\ Min(I) <= k
    BY <1>1, Least
  <2> QED BY <2>1
<1>3. SelectInSeq(s, LAMBDA v : v = e) = k
  BY <1>1, <1>2 DEF SelectInSeq
<1> DEFINE a == SubSeq(s, 1, k - 1)
           b == SubSeq(s, k + 1, Len(s))
<1>4. RemoveFirst(s, e) = a \o b
  BY <1>3 DEF RemoveFirst, RemoveAt
<1>5. /\ a \in Seq(Q) /\ Len(a) = k - 1
      /\ \A i \in 1..k - 1 : a[i] = s[i]
  OBVIOUS
<1>6. /\ b \in Seq(Q) /\ Len(b) = Len(s) - k
      /\ \A i \in 1..Len(s) - k : b[i] = s[i + k]
  OBVIOUS
<1> HIDE DEF a, b
<1>7. /\ a \o b \in Seq(Q)
      /\ Len(a \o b) = Len(s) - 1
  <2>1. a \in Seq(Q) /\ b \in Seq(Q)
    BY <1>5, <1>6
  <2>2. Len(a) = k - 1 /\ Len(b) = Len(s) - k /\ Len(s) \in Nat
    BY <1>5, <1>6
  <2>3. a \o b \in Seq(Q) /\ Len(a \o b) = Len(a) + Len(b)
    BY <2>1
  <2> QED BY <2>2, <2>3
<1>8. \A i \in 1..Len(s) - 1 : (a \o b)[i] = IF i < k THEN a[i] ELSE b[i - (k - 1)]
  <2> SUFFICES ASSUME NEW i \in 1..Len(s) - 1
               PROVE  (a \o b)[i] = IF i < k THEN a[i] ELSE b[i - (k - 1)]
    OBVIOUS
  <2>1. Len(a) \in Nat /\ Len(b) \in Nat /\ i \in 1..Len(a) + Len(b) /\ (i <= Len(a) <=> i < k) /\ i - Len(a) = i - (k - 1)
    BY <1>5, <1>6
  <2>2. (a \o b)[i] = IF i <= Len(a) THEN a[i] ELSE b[i - Len(a)]
    BY <2>1, <1>5, <1>6
  <2> QED BY <2>1, <2>2
<1>9. \A i \in 1..Len(s) - 1 : (a \o b)[i] = IF i < k THEN s[i] ELSE s[i + 1]
  <2> SUFFICES ASSUME NEW i \in 1..Len(s) - 1
               PROVE  (a \o b)[i] = IF i < k THEN s[i] ELSE s[i + 1]
    OBVIOUS
  <2>1. CASE i < k
    BY <1>5, <1>8, <2>1
  <2>2. CASE ~(i < k)
    <3>1. i - (k - 1) \in 1..Len(s) - k /\ i - (k - 1) + k = i + 1
      BY <2>2
    <3> QED BY <1>6, <1>8, <2>2, <3>1
  <2> QED BY <2>1, <2>2
<1> QED BY <1>4, <1>7, <1>9

Names == Procs \cup {Self}

\* A worker lists itself first; taking out another process does not matter.
LEMMA RemoveBehindSelf ==
  ASSUME NEW a \in Seq(Names), NEW p \in Procs, p \in ToSet(a)
  PROVE  /\ RemoveFirst(a, p) \in Seq(Names)
         /\ p \in ToSet(<<Self>> \o a)
         /\ RemoveFirst(<<Self>> \o a, p) = <<Self>> \o RemoveFirst(a, p)
<1> DEFINE c == <<Self>> \o a
           n == Len(a)
           I == {i \in 1..n : a[i] = p}
           k == Min(I)
<1>0. n \in Nat
  OBVIOUS
<1>1. Self \in Names /\ <<Self>> \in Seq(Names) /\ Len(<<Self>>) = 1 /\ <<Self>>[1] = Self
  BY DEF Names
<1>2. /\ c \in Seq(Names) /\ Len(c) = n + 1 /\ c[1] = Self
      /\ \A i \in 1..n : c[i + 1] = a[i]
  BY <1>1
<1>3. I # {} /\ I \in SUBSET Nat
  BY DEF ToSet
<1>4. k \in 1..n /\ a[k] = p /\ \A j \in 1..n : a[j] = p => k <= j
  <2>1. k \in I /\ \A j \in I : k <= j
    BY <1>3, Least
  <2> QED BY <2>1
<1> HIDE DEF k, I, c
<1>5. k + 1 \in 1..Len(c) /\ c[k + 1] = p
  BY <1>0, <1>2, <1>4
<1>6. p \in ToSet(c)
  BY <1>5 DEF ToSet
<1>7. \A j \in 1..Len(c) : c[j] = p => k + 1 <= j
  <2> SUFFICES ASSUME NEW j \in 1..Len(c), c[j] = p PROVE k + 1 <= j
    OBVIOUS
  <2>1. j # 1
    BY <1>2, ChannelAssumption
  <2>2. j - 1 \in 1..n /\ (j - 1) + 1 = j
    BY <2>1, <1>0, <1>2
  <2>3. a[j - 1] = p
    BY <2>2, <1>2
  <2> QED BY <2>2, <2>3, <1>0, <1>4
<1> DEFINE u == RemoveFirst(a, p)
           v == RemoveFirst(c, p)
<1>8. /\ u \in Seq(Names) /\ Len(u) = n - 1
      /\ \A i \in 1..n - 1 : u[i] = IF i < k THEN a[i] ELSE a[i + 1]
  BY <1>4, RemoveFirstFacts
<1>9. /\ v \in Seq(Names) /\ Len(v) = Len(c) - 1
      /\ \A i \in 1..Len(c) - 1 : v[i] = IF i < k + 1 THEN c[i] ELSE c[i + 1]
  BY <1>2, <1>5, <1>7, RemoveFirstFacts
<1> HIDE DEF u, v
<1> DEFINE x == <<Self>> \o u
<1>10. x \in Seq(Names) /\ Len(x) = n /\ x[1] = Self /\ \A i \in 1..n - 1 : x[i + 1] = u[i]
  BY <1>0, <1>1, <1>4, <1>8
<1> HIDE DEF x
<1>11. Len(v) = n
  BY <1>0, <1>2, <1>9
<1>12. ASSUME NEW i \in 1..n PROVE v[i] = x[i]
  <2>0. v[i] = IF i < k + 1 THEN c[i] ELSE c[i + 1]
    BY <1>0, <1>2, <1>9
  <2>1. CASE i = 1
    BY <2>0, <2>1, <1>0, <1>2, <1>4, <1>10
  <2>2. CASE i # 1
    <3>1. i - 1 \in 1..n - 1 /\ (i - 1) + 1 = i /\ i - 1 \in 1..n /\ i \in 1..n
      BY <2>2, <1>0
    <3>2. x[i] = u[i - 1]
      BY <3>1, <1>10
    <3>3. c[i] = a[i - 1] /\ c[i + 1] = a[i]
      BY <3>1, <1>2
    <3>4. u[i - 1] = IF i - 1 < k THEN a[i - 1] ELSE a[i]
      <4>1. u[i - 1] = IF i - 1 < k THEN a[i - 1] ELSE a[(i - 1) + 1]
        BY <3>1, <1>8
      <4> QED BY <3>1, <4>1
    <3>5. i < k + 1 <=> i - 1 < k
      BY <1>0, <1>4
    <3> QED BY <2>0, <3>2, <3>3, <3>4, <3>5
  <2> QED BY <2>1, <2>2
<1>13. v = x
  BY <1>9, <1>10, <1>11, <1>12
<1> QED BY <1>6, <1>8, <1>13 DEF u, v, x, c

\* A change does the same to the list of a worker and to that of the controller.
LEMMA UpdatedFacts ==
  ASSUME NEW v \in Views, NEW u \in Changes
  PROVE  /\ Updated(v, u) \in Views
         /\ WithSelf(v) \in Views
         /\ Updated(WithSelf(v), u) = WithSelf(Updated(v, u))
<1> DEFINE a == v.active
           s == v.swapped
           p == u.process
           w == WithSelf(v)
<1>1. a \in Seq(Names) /\ s \in Seq(Names) /\ v = [active |-> a, swapped |-> s]
  BY DEF Views, Names
<1>2. p \in Procs /\ p \in Names /\ p # Self
  BY ChannelAssumption DEF Changes, Names
<1>3. w = [active |-> <<Self>> \o a, swapped |-> s] /\ w.active = <<Self>> \o a /\ w.swapped = s
  BY DEF WithSelf
<1>4. \A x \in Seq(Names), y \in Seq(Names) : [active |-> x, swapped |-> y] \in Views
  BY DEF Views, Names
<1>5. Self \in Names /\ <<Self>> \o a \in Seq(Names)
  BY <1>1 DEF Names
<1>6. w \in Views
  BY <1>1, <1>3, <1>4, <1>5
<1>7. CASE u.status = "ACTIVE"
  <2>1. Updated(v, u) = [active |-> Append(a, p), swapped |-> s]
    BY <1>1, <1>7 DEF Updated
  <2>2. Updated(w, u) = [active |-> Append(<<Self>> \o a, p), swapped |-> s]
    BY <1>3, <1>7 DEF Updated
  <2>3. Append(a, p) \in Seq(Names) /\ Append(<<Self>> \o a, p) = <<Self>> \o Append(a, p)
    <3>1. Append(a, p) \in Seq(Names)
      BY <1>1, <1>2
    <3> HIDE DEF a, p
    <3>2. Append(<<Self>> \o a, p) = <<Self>> \o Append(a, p)
      BY <1>1, <1>2, <1>5
    <3> QED BY <3>1, <3>2
  <2>4. WithSelf(Updated(v, u)) = [active |-> <<Self>> \o Append(a, p), swapped |-> s]
    BY <2>1 DEF WithSelf
  <2> QED BY <2>1, <2>2, <2>3, <2>4, <1>1, <1>4, <1>6
<1>8. CASE u.status # "ACTIVE" /\ p \in ToSet(a)
  <2>1. Updated(v, u) = [active |-> RemoveFirst(a, p), swapped |-> Append(s, p)]
    BY <1>8 DEF Updated
  <2>2. /\ RemoveFirst(a, p) \in Seq(Names) /\ p \in ToSet(<<Self>> \o a)
        /\ RemoveFirst(<<Self>> \o a, p) = <<Self>> \o RemoveFirst(a, p)
    BY <1>1, <1>2, <1>8, RemoveBehindSelf
  <2>3. Updated(w, u) = [active |-> RemoveFirst(<<Self>> \o a, p), swapped |-> Append(s, p)]
    BY <2>2, <1>3, <1>8 DEF Updated
  <2>4. WithSelf(Updated(v, u)) = [active |-> <<Self>> \o RemoveFirst(a, p), swapped |-> Append(s, p)]
    BY <2>1 DEF WithSelf
  <2>5. Append(s, p) \in Seq(Names)
    BY <1>1, <1>2
  <2> QED BY <2>1, <2>2, <2>3, <2>4, <2>5, <1>4, <1>6
<1>9. CASE u.status # "ACTIVE" /\ p \notin ToSet(a)
  <2>1. p \notin ToSet(<<Self>> \o a)
    <3> HIDE DEF a, p
    <3>1. \A i \in 1..Len(<<Self>> \o a) : (<<Self>> \o a)[i] # p
      <4> SUFFICES ASSUME NEW i \in 1..Len(<<Self>> \o a) PROVE (<<Self>> \o a)[i] # p
        OBVIOUS
      <4>1. CASE i = 1
        BY <4>1, <1>1, <1>2
      <4>2. CASE i # 1
        <5>1. i - 1 \in 1..Len(a) /\ (<<Self>> \o a)[i] = a[i - 1]
          BY <4>2, <1>1
        <5>2. a[i - 1] \in ToSet(a)
          BY <5>1, <1>1 DEF ToSet
        <5> QED BY <5>1, <5>2, <1>9
      <4> QED BY <4>1, <4>2
    <3> QED BY <3>1 DEF ToSet
  <2> QED BY <2>1, <1>1, <1>3, <1>6, <1>9 DEF Updated
<1> QED BY <1>7, <1>8, <1>9

-----------------------------------------------------------------------------
(* One step of a queue.                                                     *)

\* The types of one queue.
LEMMA FlowOf ==
  ASSUME QTypes, NEW q \in Queues
  PROVE  /\ Flow(partial[q], queue[q], sending[q], sent[q], got[q])
         /\ partial[q] \in Seq(Piece) /\ queue[q] \in Seq(Piece) /\ sending[q] \in Seq(Piece)
         /\ sent[q] \in Seq(Messages) /\ got[q] \in Seq(Messages)
         /\ Len(got[q]) \in Nat /\ Len(sent[q]) \in Nat
  BY DEF QTypes, Flow

\* Nothing happens to this queue.
Same(q) ==
  /\ partial'[q] = partial[q] /\ queue'[q] = queue[q] /\ sending'[q] = sending[q]
  /\ sent'[q] = sent[q] /\ got'[q] = got[q]

\* A queue to which nothing happens stays as it should be.
LEMMA SameFlows ==
  ASSUME NEW q, Same(q), Flows(q), Cut(q) => Cut(q)'
  PROVE  Flows(q)'
<1>1. PICK f : Framed(partial[q], queue[q], sending[q], sent[q], got[q], Cut(q), f)
  BY DEF Flows, Frames
<1>2. Framed(partial'[q], queue'[q], sending'[q], sent'[q], got'[q], Cut(q)', f)
  BY <1>1 DEF Same, Framed
<1> QED BY <1>2 DEF Flows, Frames

\* So do all of them.
LEMMA QueuesSame ==
  ASSUME QTypes, \A q \in Queues : Flows(q), \A q \in Queues : Cut(q) => Cut(q)',
         queue' = queue, partial' = partial, sending' = sending, sent' = sent, got' = got
  PROVE  QTypes' /\ \A q \in Queues : Flows(q)'
<1>1. QTypes'
  BY DEF QTypes
<1>2. ASSUME NEW q \in Queues PROVE Flows(q)'
  <2>1. Same(q)
    BY DEF Same
  <2> QED BY <2>1, SameFlows
<1> QED BY <1>1, <1>2

\* The effects of a step on the messages of a queue.
Sending(c, m) ==
  /\ sent'[c] = Append(sent[c], m) /\ got' = got /\ sending'[c] # <<>>
  /\ \A q \in Queues : q # c => sent'[q] = sent[q] /\ sending'[q] = sending[q]

Taking(c) ==
  /\ Len(got[c]) + 1 \in 1..Len(sent[c])
  /\ got' = [got EXCEPT ![c] = Append(@, sent[c][Len(got[c]) + 1])]
  /\ Len(got'[c]) = Len(got[c]) + 1
  /\ sent' = sent /\ sending' = sending
  /\ \A q \in Queues : q # c => got'[q] = got[q]

\* send is called.
LEMMA StartStep ==
  ASSUME QTypes, \A q \in Queues : Flows(q), \A q \in Queues : Cut(q) => Cut(q)',
         NEW c \in Queues, NEW m \in Messages, sending[c] = <<>>, ~Cut(c), Start(c, m)
  PROVE  QTypes' /\ (\A q \in Queues : Flows(q)') /\ Sending(c, m)
<1>1. /\ queue' = queue /\ partial' = partial /\ got' = got
      /\ sending' = [sending EXCEPT ![c] = Pieces(m)]
      /\ sent' = [sent EXCEPT ![c] = Append(sent[c], m)]
  BY DEF Start
<1>2. Pieces(m) \in Seq(Piece) /\ Len(Pieces(m)) = 1 + m.len /\ m.len \in Nat
  BY PiecesFacts, MessageFacts
<1>3. Pieces(m) # <<>>
  <2> HIDE DEF Pieces
  <2> QED BY <1>2
<1> HIDE DEF Pieces
<1>4. QTypes'
  <2>1. Append(sent[c], m) \in Seq(Messages)
    BY FlowOf
  <2> QED BY <2>1, <1>1, <1>2 DEF QTypes
<1>5. /\ sent'[c] = Append(sent[c], m) /\ sending'[c] = Pieces(m)
      /\ \A q \in Queues : q # c => sent'[q] = sent[q] /\ sending'[q] = sending[q]
  BY <1>1 DEF QTypes
<1>6. ASSUME NEW q \in Queues PROVE Flows(q)'
  <2>1. CASE q # c
    <3>1. Same(q)
      BY <2>1, <1>1, <1>5 DEF Same
    <3> QED BY <3>1, SameFlows
  <2>2. CASE q = c
    <3>1. PICK f : Framed(partial[c], queue[c], sending[c], sent[c], got[c], Cut(c), f)
      BY DEF Flows, Frames
    <3>2. Framed(partial[c], queue[c], <<>>, sent[c], got[c], FALSE, f)
      BY <3>1 DEF Framed
    <3>3. Flow(partial[c], queue[c], <<>>, sent[c], got[c])
      BY FlowOf
    <3>4. \A cut : \E e : Framed(partial[c], queue[c], Pieces(m), Append(sent[c], m), got[c], cut, e)
      BY <3>2, <3>3, FramedStart
    <3>5. PICK e : Framed(partial[c], queue[c], Pieces(m), Append(sent[c], m), got[c], Cut(c)', e)
      BY <3>4
    <3> QED BY <2>2, <3>5, <1>1, <1>5 DEF Flows, Frames
  <2> QED BY <2>1, <2>2
<1> QED BY <1>1, <1>3, <1>4, <1>5, <1>6 DEF Sending

\* mq_send puts a piece into the queue.
LEMMA PutStep ==
  ASSUME QTypes, \A q \in Queues : Flows(q), \A q \in Queues : Cut(q) => Cut(q)',
         NEW c \in Queues, PutPiece(c)
  PROVE  /\ QTypes' /\ (\A q \in Queues : Flows(q)')
         /\ sent' = sent /\ got' = got
         /\ \A q \in Queues : sending'[q] # <<>> => sending[q] # <<>>
<1>1. /\ partial' = partial /\ got' = got /\ sent' = sent
      /\ sending[c] # <<>> /\ Len(queue[c]) < Capacity
      /\ queue' = [queue EXCEPT ![c] = Append(queue[c], Head(sending[c]))]
      /\ sending' = [sending EXCEPT ![c] = Tail(sending[c])]
  BY DEF PutPiece
<1>2. Flow(partial[c], queue[c], sending[c], sent[c], got[c])
  BY FlowOf
<1>3. Flow(partial[c], Append(queue[c], Head(sending[c])), Tail(sending[c]), sent[c], got[c])
  BY <1>1, <1>2, LinePut
<1>4. Append(queue[c], Head(sending[c])) \in Seq(Piece) /\ Tail(sending[c]) \in Seq(Piece)
  BY <1>3 DEF Flow
<1>5. QTypes'
  BY <1>1, <1>4 DEF QTypes
<1>6. /\ queue'[c] = Append(queue[c], Head(sending[c])) /\ sending'[c] = Tail(sending[c])
      /\ \A q \in Queues : q # c => queue'[q] = queue[q] /\ sending'[q] = sending[q]
  BY <1>1 DEF QTypes
<1>7. ASSUME NEW q \in Queues PROVE Flows(q)'
  <2>1. CASE q # c
    <3>1. Same(q)
      BY <2>1, <1>1, <1>6 DEF Same
    <3> QED BY <3>1, SameFlows
  <2>2. CASE q = c
    <3>1. PICK f : Framed(partial[c], queue[c], sending[c], sent[c], got[c], Cut(c), f)
      BY DEF Flows, Frames
    <3>2. Framed(partial[c], queue[c], sending[c], sent[c], got[c], Cut(c)', f)
      BY <3>1 DEF Framed
    <3>3. Framed(partial[c], Append(queue[c], Head(sending[c])), Tail(sending[c]), sent[c], got[c], Cut(c)', f)
      BY <3>2, <1>1, <1>2, FramedPut
    <3> QED BY <2>2, <3>3, <1>1, <1>6 DEF Flows, Frames
  <2> QED BY <2>1, <2>2
<1> QED BY <1>1, <1>5, <1>6, <1>7

\* mq_receive returns a piece that is not the last of its message.
LEMMA PartStep ==
  ASSUME QTypes, \A q \in Queues : Flows(q), \A q \in Queues : Cut(q) => Cut(q)',
         NEW c \in Queues, TakePiece(c, Read(c)), ~Complete(Read(c))
  PROVE  /\ QTypes' /\ (\A q \in Queues : Flows(q)')
         /\ sent' = sent /\ got' = got /\ sending' = sending
<1> DEFINE u == Append(partial[c], Head(queue[c]))
<1>0. Read(c) = u
  BY DEF Read
<1>1. /\ sending' = sending /\ got' = got /\ sent' = sent /\ queue[c] # <<>>
      /\ queue' = [queue EXCEPT ![c] = Tail(queue[c])]
      /\ partial' = [partial EXCEPT ![c] = u]
  BY <1>0 DEF TakePiece
<1>2. Flow(partial[c], queue[c], sending[c], sent[c], got[c])
  BY FlowOf
<1>3. Flow(u, Tail(queue[c]), sending[c], sent[c], got[c])
  BY <1>1, <1>2, LineTake
<1>4. u \in Seq(Piece) /\ Tail(queue[c]) \in Seq(Piece)
  BY <1>3 DEF Flow
<1>5. QTypes'
  BY <1>1, <1>4 DEF QTypes
<1>6. /\ queue'[c] = Tail(queue[c]) /\ partial'[c] = u
      /\ \A q \in Queues : q # c => queue'[q] = queue[q] /\ partial'[q] = partial[q]
  BY <1>1 DEF QTypes
<1>7. ASSUME NEW q \in Queues PROVE Flows(q)'
  <2>1. CASE q # c
    <3>1. Same(q)
      BY <2>1, <1>1, <1>6 DEF Same
    <3> QED BY <3>1, SameFlows
  <2>2. CASE q = c
    <3>1. PICK f : Framed(partial[c], queue[c], sending[c], sent[c], got[c], Cut(c), f)
      BY DEF Flows, Frames
    <3>2. Framed(partial[c], queue[c], sending[c], sent[c], got[c], Cut(c)', f)
      BY <3>1 DEF Framed
    <3>3. Framed(u, Tail(queue[c]), sending[c], sent[c], got[c], Cut(c)', f)
      BY <3>2, <1>0, <1>1, <1>2, FramedPart
    <3> QED BY <2>2, <3>3, <1>1, <1>6 DEF Flows, Frames
  <2> QED BY <2>1, <2>2
<1> QED BY <1>1, <1>5, <1>7

\* mq_receive returns the last piece of a message: the reader has the oldest
\* message it has not received, complete.
LEMMA WholeStep ==
  ASSUME QTypes, \A q \in Queues : Flows(q), \A q \in Queues : Cut(q) => Cut(q)',
         NEW c \in Queues, TakePiece(c, Read(c)), Complete(Read(c))
  PROVE  /\ QTypes' /\ (\A q \in Queues : Flows(q)') /\ Taking(c)
         /\ Read(c)[1].msg = sent[c][Len(got[c]) + 1]
<1> DEFINE u == Append(partial[c], Head(queue[c]))
           m == sent[c][Len(got[c]) + 1]
<1>0. Read(c) = u
  BY DEF Read
<1>1. /\ sending' = sending /\ sent' = sent /\ queue[c] # <<>>
      /\ queue' = [queue EXCEPT ![c] = Tail(queue[c])]
      /\ partial' = [partial EXCEPT ![c] = <<>>]
      /\ got' = [got EXCEPT ![c] = Append(got[c], Whole(u))]
  BY <1>0 DEF TakePiece
<1>2. Flow(partial[c], queue[c], sending[c], sent[c], got[c])
  BY FlowOf
<1>3. Flow(u, Tail(queue[c]), sending[c], sent[c], got[c])
  BY <1>1, <1>2, LineTake
<1>4. Tail(queue[c]) \in Seq(Piece) /\ <<>> \in Seq(Piece)
  BY <1>3 DEF Flow
<1>5. PICK f : Framed(partial[c], queue[c], sending[c], sent[c], got[c], Cut(c), f)
  BY DEF Flows, Frames
<1>6. Framed(partial[c], queue[c], sending[c], sent[c], got[c], Cut(c)', f)
  BY <1>5 DEF Framed
<1>7. Fetched(u, partial[c], queue[c], sending[c], sent[c], got[c], f)
  BY <1>1, <1>2, <1>5, FramedRead
<1>8. Whole(u) = m /\ \E e : Framed(<<>>, Tail(queue[c]), sending[c], sent[c], Append(got[c], m), Cut(c)', e)
  BY <1>0, <1>1, <1>2, <1>6, FramedWhole
<1> HIDE DEF u
<1>9. Len(got[c]) + 1 \in 1..Len(sent[c]) /\ u[1].msg = m
  BY <1>7 DEF Fetched
<1>10. m \in Messages
  BY <1>2, <1>9, FlowFacts
<1>11. Append(got[c], m) \in Seq(Messages) /\ Len(Append(got[c], m)) = Len(got[c]) + 1
  <2>1. got[c] \in Seq(Messages)
    BY FlowOf
  <2> HIDE DEF m
  <2> QED BY <2>1, <1>10
<1>12. got' = [got EXCEPT ![c] = Append(got[c], m)]
  BY <1>1, <1>8
<1> HIDE DEF m
<1>13. QTypes'
  BY <1>1, <1>4, <1>11, <1>12 DEF QTypes
<1>14. /\ queue'[c] = Tail(queue[c]) /\ partial'[c] = <<>> /\ got'[c] = Append(got[c], m)
       /\ \A q \in Queues : q # c => queue'[q] = queue[q] /\ partial'[q] = partial[q] /\ got'[q] = got[q]
  BY <1>1, <1>12 DEF QTypes
<1>15. ASSUME NEW q \in Queues PROVE Flows(q)'
  <2>1. CASE q # c
    <3>1. Same(q)
      BY <2>1, <1>1, <1>14 DEF Same
    <3> QED BY <3>1, SameFlows
  <2>2. CASE q = c
    BY <2>2, <1>1, <1>8, <1>14 DEF Flows, Frames
  <2> QED BY <2>1, <2>2
<1>16. Taking(c)
  BY <1>1, <1>9, <1>11, <1>12, <1>14 DEF Taking, m
<1> QED BY <1>0, <1>9, <1>13, <1>15, <1>16 DEF m

\* A worker is gone, and with it what it was sending.
LEMMA CutStep ==
  ASSUME QTypes, \A q \in Queues : Flows(q), NEW c \in Queues, Cut(c)',
         \A q \in Queues : q # c => (Cut(q) => Cut(q)'),
         sending' = [sending EXCEPT ![c] = <<>>], queue' = queue, partial' = partial, sent' = sent, got' = got
  PROVE  QTypes' /\ \A q \in Queues : Flows(q)'
<1>1. QTypes'
  BY DEF QTypes
<1>2. sending'[c] = <<>> /\ \A q \in Queues : q # c => sending'[q] = sending[q]
  BY DEF QTypes
<1>3. ASSUME NEW q \in Queues PROVE Flows(q)'
  <2>1. CASE q # c
    <3>1. Same(q)
      BY <2>1, <1>2 DEF Same
    <3> QED BY <2>1, <3>1, SameFlows
  <2>2. CASE q = c
    <3>1. PICK f : Framed(partial[c], queue[c], sending[c], sent[c], got[c], Cut(c), f)
      BY DEF Flows, Frames
    <3>2. Flow(partial[c], queue[c], sending[c], sent[c], got[c])
      BY FlowOf
    <3>3. PICK e : Framed(partial[c], queue[c], <<>>, sent[c], got[c], TRUE, e)
      BY <3>1, <3>2, FramedCut
    <3>4. Framed(partial[c], queue[c], <<>>, sent[c], got[c], Cut(c)', e)
      BY <3>3 DEF Framed
    <3> QED BY <2>2, <3>4, <1>2 DEF Flows, Frames
  <2> QED BY <2>1, <2>2
<1> QED BY <1>1, <1>3

-----------------------------------------------------------------------------
(* What a queue with these pieces tells of the messages on their way.       *)

\* What is in a queue is of messages that were not received yet.
LEMMA QueuedFacts ==
  ASSUME QTypes, NEW q \in Queues, Flows(q)
  PROVE  /\ Len(queue[q]) <= Capacity
         /\ sending[q] # <<>> => Len(got[q]) < Len(sent[q])
         /\ \A k \in 1..Len(queue[q]) :
              \E i \in 1..Len(sent[q]) : Len(got[q]) < i /\ queue[q][k].msg = sent[q][i]
         /\ Len(got[q]) <= Len(sent[q])
<1> DEFINE p == partial[q]
           c == queue[q]
           r == sending[q]
           s == sent[q]
           g == got[q]
<1>1. Flow(p, c, r, s, g) /\ r \in Seq(Piece)
  BY FlowOf
<1>2. PICK f : Framed(p, c, r, s, g, Cut(q), f)
  BY DEF Flows, Frames
<1> HIDE DEF p, c, r, s, g
<1>3. /\ Len(p) \in Nat /\ Len(c) \in Nat /\ Len(r) \in Nat /\ Len(s) \in Nat /\ Len(g) \in Nat
      /\ Size(p, c, r) = Len(p) + Len(c) + Len(r)
  <2>1. Flow(p, c, r, s, g)
    BY <1>1
  <2> QED BY <2>1, FlowFacts
<1>4. \A k \in 1..Size(p, c, r) : f[k] \in 1..Len(s) /\ Len(g) < f[k] /\ Line(p, c, r)[k].msg = s[f[k]]
  BY <1>1, <1>2, FollowsFacts DEF Framed
<1>5. ASSUME r # <<>> PROVE Len(g) < Len(s)
  <2>1. Len(r) > 0
    BY <1>1, <1>5
  <2>2. Len(p) + Len(c) + Len(r) \in 1..Size(p, c, r)
    BY <2>1, <1>3
  <2>3. PICK i \in 1..Len(s) : Len(g) < i
    BY <2>2, <1>4
  <2> QED BY <2>3, <1>3
<1>6. ASSUME NEW k \in 1..Len(c) PROVE \E i \in 1..Len(s) : Len(g) < i /\ c[k].msg = s[i]
  <2>1. Len(p) + k \in 1..Size(p, c, r)
    BY <1>3
  <2>2. Line(p, c, r)[Len(p) + k] = c[k]
    BY <1>1, LineFacts
  <2> QED BY <2>1, <2>2, <1>4
<1>7. Len(c) <= Capacity /\ Len(g) <= Len(s)
  BY <1>2 DEF Framed
<1> QED BY <1>5, <1>6, <1>7 DEF p, c, r, s, g

\* Of a queue that is empty, only the first message can be on its way, and
\* then it has a payload, and the last, and then it is being sent.
LEMMA DrainedFacts ==
  ASSUME QTypes, NEW q \in Queues, Flows(q), ~Cut(q), queue[q] = <<>>,
         NEW i \in 1..Len(sent[q]), Len(got[q]) < i
  PROVE  \/ sent[q][i].len > 0
         \/ i = Len(sent[q]) /\ sending[q] # <<>>
<1> DEFINE p == partial[q]
           c == queue[q]
           r == sending[q]
           s == sent[q]
           g == got[q]
<1>1. Flow(p, c, r, s, g) /\ Len(c) = 0 /\ r \in Seq(Piece) /\ p \in Seq(Piece)
  BY FlowOf
<1>2. PICK f : Framed(p, c, r, s, g, Cut(q), f)
  BY DEF Flows, Frames
<1>2a. i \in 1..Len(s) /\ Len(g) < i /\ ~Cut(q)
  OBVIOUS
<1> HIDE DEF p, c, r, s, g
<1>3. /\ Len(p) \in Nat /\ Len(c) \in Nat /\ Len(r) \in Nat /\ Len(s) \in Nat /\ Len(g) \in Nat
      /\ Size(p, c, r) = Len(p) + Len(c) + Len(r)
  <2>1. Flow(p, c, r, s, g)
    BY <1>1
  <2> QED BY <2>1, FlowFacts
<1>4. \A k \in 1..Size(p, c, r) : f[k] \in 1..Len(s) /\ Len(g) < f[k] /\ Line(p, c, r)[k].msg = s[f[k]]
  BY <1>1, <1>2, FollowsFacts DEF Framed
<1>5. PICK k \in 1..Size(p, c, r) : f[k] = i
  BY <1>2, <1>2a DEF Framed, Closed
<1>6. CASE k \in 1..Len(p)
  <2>1. 1 \in 1..Len(p) /\ 1 \in 1..Size(p, c, r) /\ p # <<>>
    BY <1>1, <1>3, <1>6
  <2>2. f[1] = Len(g) + 1 /\ f[k] = Len(g) + 1
    BY <2>1, <1>2, <1>6 DEF Framed
  <2>3. p[1].msg = s[i]
    <3>1. Line(p, c, r)[1] = p[1]
      BY <2>1, <1>1, LineFacts
    <3> QED BY <2>1, <2>2, <3>1, <1>4, <1>5
  <2>4. Len(p) <= p[1].msg.len
    BY <2>1, <1>2 DEF Framed
  <2>5. s[i].len \in Nat
    BY <1>1, <1>2a, FlowFacts
  <2>6. s[i].len > 0
    BY <2>1, <2>3, <2>4, <2>5, <1>3
  <2> QED BY <2>6 DEF s
<1>7. CASE ~(k \in 1..Len(p))
  <2>1. Len(p) + Len(c) < k /\ Len(r) > 0
    BY <1>1, <1>3, <1>7
  <2>2. f[k] = Len(s)
    BY <2>1, <1>2 DEF Framed
  <2>3. r # <<>>
    BY <2>1, <1>1
  <2> QED BY <2>2, <2>3, <1>5 DEF s, r
<1> QED BY <1>6, <1>7

\* The messages on their way, as positions.
LEMMA FlyFacts ==
  ASSUME NEW s \in Seq(Messages), NEW h \in Nat, NEW kind
  PROVE  /\ \A i \in 1..Len(s) : h < i /\ s[i].kind = kind => [no |-> i, id |-> s[i].id] \in Fly(s, h, kind)
         /\ \A x \in Fly(s, h, kind) : \E i \in 1..Len(s) : h < i /\ s[i].kind = kind /\ x = [no |-> i, id |-> s[i].id]
  BY DEF Fly

\* One more message is sent.
More(s, m, t) == t \in Seq(Messages) /\ Len(t) = Len(s) + 1 /\ t[Len(s) + 1] = m /\ \A i \in 1..Len(s) : t[i] = s[i]

\* The message is on its way, if it is of this kind.
LEMMA FlyMore ==
  ASSUME NEW s \in Seq(Messages), NEW t \in Seq(Messages), NEW h \in Nat, NEW m \in Messages, NEW kind,
         h <= Len(s), More(s, m, t)
  PROVE  /\ m.kind = kind => \E x : x.id = m.id /\ Fly(t, h, kind) = Fly(s, h, kind) \cup {x}
         /\ m.kind # kind => Fly(t, h, kind) = Fly(s, h, kind)
<1> DEFINE n == Len(s)
           S == Fly(s, h, kind)
           T == Fly(t, h, kind)
<1>1. Len(t) = n + 1 /\ t[n + 1] = m /\ (\A i \in 1..n : t[i] = s[i]) /\ n \in Nat
  BY DEF More
<1>2. \A i \in 1..n + 1 : i \in 1..n \/ i = n + 1
  BY <1>1
<1>3. \A i \in 1..n : i \in 1..n + 1
  BY <1>1
<1>4. h < n + 1 /\ n + 1 \in 1..n + 1
  BY <1>1
<1>5. /\ \A i \in 1..n : h < i /\ s[i].kind = kind => [no |-> i, id |-> s[i].id] \in S
      /\ \A x \in S : \E i \in 1..n : h < i /\ s[i].kind = kind /\ x = [no |-> i, id |-> s[i].id]
  BY FlyFacts
<1>6. /\ \A i \in 1..n + 1 : h < i /\ t[i].kind = kind => [no |-> i, id |-> t[i].id] \in T
      /\ \A x \in T : \E i \in 1..n + 1 : h < i /\ t[i].kind = kind /\ x = [no |-> i, id |-> t[i].id]
  <2>1. /\ \A i \in 1..Len(t) : h < i /\ t[i].kind = kind => [no |-> i, id |-> t[i].id] \in Fly(t, h, kind)
        /\ \A x \in Fly(t, h, kind) : \E i \in 1..Len(t) : h < i /\ t[i].kind = kind /\ x = [no |-> i, id |-> t[i].id]
    BY FlyFacts
  <2> QED BY <2>1, <1>1
<1> HIDE DEF S, T, n
<1>7. S \subseteq T
  BY <1>1, <1>3, <1>5, <1>6
<1>8. ASSUME NEW x \in T PROVE x \in S \/ (m.kind = kind /\ x = [no |-> n + 1, id |-> m.id])
  <2>1. PICK i \in 1..n + 1 : h < i /\ t[i].kind = kind /\ x = [no |-> i, id |-> t[i].id]
    BY <1>6
  <2>2. CASE i \in 1..n
    BY <2>1, <2>2, <1>1, <1>5
  <2>3. CASE i = n + 1
    BY <2>1, <2>3, <1>1
  <2> QED BY <2>2, <2>3, <1>2
<1>9. m.kind = kind => [no |-> n + 1, id |-> m.id] \in T
  BY <1>1, <1>4, <1>6
<1>10. (m.kind = kind => T = S \cup {[no |-> n + 1, id |-> m.id]}) /\ (m.kind # kind => T = S)
  BY <1>7, <1>8, <1>9
<1>11. [no |-> n + 1, id |-> m.id].id = m.id
  OBVIOUS
<1> QED BY <1>10, <1>11 DEF S, T

\* The next message is received.
LEMMA FlyDrop ==
  ASSUME NEW s \in Seq(Messages), NEW h \in Nat, h + 1 \in 1..Len(s), NEW kind
  PROVE  /\ s[h + 1].kind # kind => Fly(s, h + 1, kind) = Fly(s, h, kind)
         /\ Fly(s, h + 1, kind) \subseteq Fly(s, h, kind)
         /\ s[h + 1].kind = kind =>
              \E x : /\ x \in Fly(s, h, kind) /\ x \notin Fly(s, h + 1, kind) /\ x.id = s[h + 1].id
<1> DEFINE n == Len(s)
           S == Fly(s, h, kind)
           T == Fly(s, h + 1, kind)
<1>1. /\ \A i \in 1..n : h < i /\ s[i].kind = kind => [no |-> i, id |-> s[i].id] \in S
      /\ \A x \in S : \E i \in 1..n : h < i /\ s[i].kind = kind /\ x = [no |-> i, id |-> s[i].id]
  BY FlyFacts
<1>2. /\ \A i \in 1..n : h + 1 < i /\ s[i].kind = kind => [no |-> i, id |-> s[i].id] \in T
      /\ \A x \in T : \E i \in 1..n : h + 1 < i /\ s[i].kind = kind /\ x = [no |-> i, id |-> s[i].id]
  BY FlyFacts
<1>3. n \in Nat /\ h + 1 \in 1..n
  OBVIOUS
<1> HIDE DEF n, S, T
<1>4. \A i \in 1..n : h < i <=> (h + 1 < i \/ i = h + 1)
  BY <1>3
<1>5. T \subseteq S
  BY <1>1, <1>2, <1>4
<1>6. ASSUME s[h + 1].kind # kind PROVE T = S
  BY <1>1, <1>2, <1>4, <1>5, <1>6
<1>7. ASSUME s[h + 1].kind = kind
      PROVE  \E x : /\ x \in S /\ x \notin T /\ x.id = s[h + 1].id
  <2> DEFINE x == [no |-> h + 1, id |-> s[h + 1].id]
  <2>1. x \in S
    BY <1>1, <1>3, <1>4, <1>7
  <2>2. x \notin T
    <3> SUFFICES ASSUME x \in T PROVE FALSE
      OBVIOUS
    <3>1. PICK i \in 1..n : h + 1 < i /\ x = [no |-> i, id |-> s[i].id]
      BY <1>2
    <3>2. x.no = h + 1 /\ x.no = i
      BY <3>1
    <3> QED BY <3>1, <3>2, <1>3
  <2> QED BY <2>1, <2>2
<1> QED BY <1>5, <1>6, <1>7 DEF S, T

-----------------------------------------------------------------------------
(* What a worker knows of the changes.                                      *)

\* The types of what KnowsOf speaks of.
LEMMA KnowsTypes ==
  ASSUME NEW s \in Seq(Messages), NEW i \in 1..Len(s)
  PROVE  s[i] \in Messages /\ s[i].id \in Nat /\ i \in Nat
<1>1. s[i] \in Messages
  OBVIOUS
<1> QED BY <1>1, MessageFacts

\* A message that is no change is sent.
LEMMA KnowsSend ==
  ASSUME NEW s \in Seq(Messages), NEW a \in Seq(Messages), NEW c \in Nat, c <= Len(s), NEW t \in Nat, NEW d, NEW k, NEW m \in Messages,
         KnowsOf(s, c, t, d, k), More(s, m, a), m.kind # "update"
  PROVE  KnowsOf(a, c, t, d, k)
<1> DEFINE n == Len(s)
<1>1. n \in Nat /\ Len(a) = n + 1 /\ a[n + 1] = m /\ \A i \in 1..n : a[i] = s[i]
  BY DEF More
<1>2. /\ k \in 0..t
      /\ \A i \in 1..n : s[i].kind = "update" => /\ s[i].id \in 1..t
                                                 /\ s[i].data = d[s[i].id]
                                                 /\ i <= c <=> s[i].id <= k
      /\ \A i, j \in 1..n : s[i].kind = "update" /\ s[j].kind = "update" /\ i < j => s[i].id < s[j].id
      /\ \A u \in 1..t : \E i \in 1..n : s[i].kind = "update" /\ s[i].id = u
  BY DEF KnowsOf
<1> HIDE DEF n
<1>3. \A i \in 1..n + 1 : a[i].kind = "update" => i \in 1..n /\ a[i] = s[i]
  BY <1>1
<1>4. \A i \in 1..n : i \in 1..n + 1 /\ a[i] = s[i]
  BY <1>1
<1>5. KnowsOf(a, c, t, d, k)
  <2>1. ASSUME NEW i \in 1..n + 1, a[i].kind = "update"
        PROVE  a[i].id \in 1..t /\ a[i].data = d[a[i].id] /\ (i <= c <=> a[i].id <= k)
    BY <2>1, <1>2, <1>3
  <2>2. ASSUME NEW i \in 1..n + 1, NEW j \in 1..n + 1, a[i].kind = "update", a[j].kind = "update", i < j
        PROVE  a[i].id < a[j].id
    BY <2>2, <1>2, <1>3
  <2>3. ASSUME NEW u \in 1..t PROVE \E i \in 1..n + 1 : a[i].kind = "update" /\ a[i].id = u
    BY <1>2, <1>4
  <2>4. k \in 0..t /\ Len(a) = n + 1
    BY <1>1, <1>2
  <2> QED BY <2>1, <2>2, <2>3, <2>4 DEF KnowsOf
<1> QED BY <1>5

\* The next change is sent.
LEMMA KnowsTell ==
  ASSUME NEW s \in Seq(Messages), NEW a \in Seq(Messages), NEW c \in Nat, c <= Len(s), NEW t \in Nat, NEW d, NEW e, NEW k, NEW m \in Messages,
         KnowsOf(s, c, t, d, k), More(s, m, a), m.kind = "update", m.id = t + 1, m.data = e[t + 1],
         \A i \in 1..t : e[i] = d[i]
  PROVE  KnowsOf(a, c, t + 1, e, k)
<1> DEFINE n == Len(s)
<1>1. n \in Nat /\ Len(a) = n + 1 /\ a[n + 1] = m /\ \A i \in 1..n : a[i] = s[i]
  BY DEF More
<1>2. /\ k \in 0..t
      /\ \A i \in 1..n : s[i].kind = "update" => /\ s[i].id \in 1..t
                                                 /\ s[i].data = d[s[i].id]
                                                 /\ i <= c <=> s[i].id <= k
      /\ \A i, j \in 1..n : s[i].kind = "update" /\ s[j].kind = "update" /\ i < j => s[i].id < s[j].id
      /\ \A u \in 1..t : \E i \in 1..n : s[i].kind = "update" /\ s[i].id = u
  BY DEF KnowsOf
<1> HIDE DEF n
<1>3. \A i \in 1..n + 1 : (i \in 1..n /\ a[i] = s[i]) \/ (i = n + 1 /\ a[i] = m)
  BY <1>1
<1>4. n + 1 \in 1..n + 1 /\ \A i \in 1..n : i \in 1..n + 1 /\ a[i] = s[i]
  BY <1>1
<1>5. KnowsOf(a, c, t + 1, e, k)
  <2>1. ASSUME NEW i \in 1..n + 1, a[i].kind = "update"
        PROVE  a[i].id \in 1..t + 1 /\ a[i].data = e[a[i].id] /\ (i <= c <=> a[i].id <= k)
    <3>1. CASE i \in 1..n /\ a[i] = s[i]
      BY <2>1, <3>1, <1>2
    <3>2. CASE i = n + 1 /\ a[i] = m
      <4>1. a[i].id = t + 1 /\ a[i].data = e[t + 1]
        BY <3>2
      <4>2. ~(n + 1 <= c) /\ ~(t + 1 <= k) /\ t + 1 \in 1..t + 1
        BY <1>1, <1>2 DEF n
      <4> QED BY <3>2, <4>1, <4>2
    <3> QED BY <3>1, <3>2, <1>3
  <2>2. ASSUME NEW i \in 1..n + 1, NEW j \in 1..n + 1, a[i].kind = "update", a[j].kind = "update", i < j
        PROVE  a[i].id < a[j].id
    <3>1. i \in 1..n /\ a[i] = s[i]
      BY <2>2, <1>1
    <3>2. CASE j \in 1..n /\ a[j] = s[j]
      BY <2>2, <3>1, <3>2, <1>2
    <3>3. CASE j = n + 1 /\ a[j] = m
      <4>1. s[i].id \in 1..t
        BY <2>2, <3>1, <1>2
      <4> QED BY <3>1, <3>3, <4>1
    <3> QED BY <3>2, <3>3, <1>3
  <2>3. ASSUME NEW u \in 1..t + 1 PROVE \E i \in 1..n + 1 : a[i].kind = "update" /\ a[i].id = u
    <3>1. CASE u \in 1..t
      BY <3>1, <1>2, <1>4
    <3>2. CASE u = t + 1
      BY <3>2, <1>1, <1>4
    <3> QED BY <3>1, <3>2
  <2>4. k \in 0..t + 1
    BY <1>2
  <2> QED BY <2>1, <2>2, <2>3, <2>4, <1>1 DEF KnowsOf
<1> QED BY <1>5

\* The next message is received: no change, or the next one.
LEMMA KnowsTake ==
  ASSUME NEW s \in Seq(Messages), NEW c \in Nat, c + 1 \in 1..Len(s), NEW t \in Nat, NEW d, NEW k,
         KnowsOf(s, c, t, d, k)
  PROVE  /\ s[c + 1].kind # "update" => KnowsOf(s, c + 1, t, d, k)
         /\ s[c + 1].kind = "update" => /\ k + 1 \in 1..t /\ s[c + 1].data = d[k + 1]
                                        /\ KnowsOf(s, c + 1, t, d, k + 1)
<1> DEFINE n == Len(s)
<1>1. n \in Nat /\ c + 1 \in 1..n
  OBVIOUS
<1>2. /\ k \in 0..t
      /\ \A i \in 1..n : s[i].kind = "update" => /\ s[i].id \in 1..t
                                                 /\ s[i].data = d[s[i].id]
                                                 /\ i <= c <=> s[i].id <= k
      /\ \A i, j \in 1..n : s[i].kind = "update" /\ s[j].kind = "update" /\ i < j => s[i].id < s[j].id
      /\ \A u \in 1..t : \E i \in 1..n : s[i].kind = "update" /\ s[i].id = u
  BY DEF KnowsOf
<1> HIDE DEF n
<1>3. ASSUME s[c + 1].kind # "update" PROVE KnowsOf(s, c + 1, t, d, k)
  <2>1. ASSUME NEW i \in 1..n, s[i].kind = "update" PROVE i <= c + 1 <=> s[i].id <= k
    <3>1. i <= c <=> i <= c + 1
      BY <2>1, <1>1, <1>3
    <3> QED BY <2>1, <3>1, <1>2
  <2> QED BY <2>1, <1>2 DEF KnowsOf, n
<1>4. ASSUME s[c + 1].kind = "update"
      PROVE  /\ k + 1 \in 1..t /\ s[c + 1].data = d[k + 1]
             /\ KnowsOf(s, c + 1, t, d, k + 1)
  <2>1. s[c + 1].id \in 1..t /\ k < s[c + 1].id /\ k + 1 \in 1..t
    <3>1. s[c + 1].id \in 1..t /\ ~(s[c + 1].id <= k)
      <4>1. ~(c + 1 <= c)
        OBVIOUS
      <4> QED BY <4>1, <1>1, <1>2, <1>4
    <3> DEFINE z == s[c + 1].id
    <3>2. z \in 1..t /\ ~(z <= k)
      BY <3>1
    <3> HIDE DEF z
    <3>3. z \in 1..t /\ k < z /\ k + 1 \in 1..t
      BY <3>2, <1>2
    <3> QED BY <3>3 DEF z
  <2>2. PICK j \in 1..n : s[j].kind = "update" /\ s[j].id = k + 1
    BY <2>1, <1>2
  <2>3. c < j
    <3>1. ~(s[j].id <= k)
      BY <2>2, <1>2
    <3>2. ~(j <= c)
      BY <2>2, <3>1, <1>2
    <3> QED BY <3>2, <1>1
  <2>4. s[c + 1].id = k + 1
    <3>1. CASE j = c + 1
      BY <2>2, <3>1
    <3>2. CASE j # c + 1
      <4>1. c + 1 < j
        BY <2>3, <3>2, <1>1
      <4>2. s[c + 1].id < k + 1
        BY <2>2, <4>1, <1>1, <1>2, <1>4
      <4> QED BY <4>2, <2>1, <1>2
    <3> QED BY <3>1, <3>2
  <2>5. s[c + 1].data = d[k + 1]
    BY <2>4, <1>1, <1>2, <1>4
  <2>6. ASSUME NEW i \in 1..n, s[i].kind = "update" PROVE i <= c + 1 <=> s[i].id <= k + 1
    <3>0. s[i].id \in 1..t
      BY <2>6, <1>2
    <3>1. CASE i <= c
      <4>1. s[i].id <= k
        BY <2>6, <3>1, <1>2
      <4> QED BY <3>0, <3>1, <4>1, <1>1, <1>2
    <3>2. CASE i = c + 1
      BY <2>4, <3>2, <1>2
    <3>3. CASE c + 1 < i
      <4>1. s[c + 1].id < s[i].id
        BY <2>6, <3>3, <1>1, <1>2, <1>4
      <4> QED BY <2>4, <3>0, <3>3, <4>1, <1>1, <1>2
    <3> QED BY <3>1, <3>2, <3>3, <1>1
  <2>7. k + 1 \in 0..t
    BY <2>1
  <2> QED BY <2>1, <2>5, <2>6, <2>7, <1>2 DEF KnowsOf, n
<1> QED BY <1>3, <1>4

\* Later changes do not matter.
LEMMA KnowsGrow ==
  ASSUME NEW s, NEW c, NEW t \in Nat, NEW d, NEW e, NEW k,
         KnowsOf(s, c, t, d, k), \A i \in 1..t : e[i] = d[i]
  PROVE  KnowsOf(s, c, t, e, k)
  BY DEF KnowsOf

\* When all that was told was read.
LEMMA KnowsAll ==
  ASSUME NEW s \in Seq(Messages), NEW c \in Nat, NEW t \in Nat, NEW d, NEW k,
         KnowsOf(s, c, t, d, k), \A i \in 1..Len(s) : s[i].kind = "update" => i <= c
  PROVE  k = t
<1>1. k \in 0..t
  BY DEF KnowsOf
<1>2. ASSUME k < t PROVE FALSE
  <2>1. t \in 1..t
    BY <1>1, <1>2
  <2>2. PICK i \in 1..Len(s) : s[i].kind = "update" /\ s[i].id = t
    BY <2>1 DEF KnowsOf
  <2>3. i <= c
    BY <2>2
  <2>4. s[i].id <= k
    BY <2>2, <2>3 DEF KnowsOf
  <2> QED BY <2>2, <2>4, <1>1, <1>2
<1> QED BY <1>1, <1>2

-----------------------------------------------------------------------------
(* Invocations and gets, one step at a time.                                *)

\* What may happen to an invocation: it is sent, read, ends, or its result is
\* read; the worker asks for something, is answered, or is gone.
LEMMA TokensStep ==
  ASSUME NEW I, NEW F, NEW b, NEW ph, NEW wt, NEW rn, TokensOf(I, F, b, ph, wt, rn)
  PROVE  /\ \A x : ~b => TokensOf(I \cup {x}, F, TRUE, ph, wt, rn)
         /\ \A k : ph = "run" /\ k # 0 => TokensOf(I, F, b, "wait", k, rn)
         /\ \A x : ph = "run" => TokensOf(I, F \cup {x}, b, "poll", wt, 0)
         /\ \A J : J \subseteq F /\ (\E x : x \in F /\ x \notin J) => TokensOf(I, J, FALSE, ph, wt, rn)
         /\ \A J, k : J \subseteq I /\ (\E x : x \in I /\ x \notin J) /\ k # 0 => TokensOf(J, F, b, "run", wt, k)
         /\ \A J : J \subseteq I => TokensOf(J, F, b, ph, wt, rn)
         /\ \A J : J \subseteq I /\ ph = "wait" => TokensOf(J, F, b, "run", 0, rn)
         /\ ph = "run" => TokensOf(I, F, b, "dead", wt, rn)
<1>1. ASSUME NEW x, ~b PROVE TokensOf(I \cup {x}, F, TRUE, ph, wt, rn)
  BY <1>1 DEF TokensOf
<1>2. ASSUME NEW k, ph = "run", k # 0 PROVE TokensOf(I, F, b, "wait", k, rn)
  BY <1>2 DEF TokensOf
<1>3. ASSUME NEW x, ph = "run" PROVE TokensOf(I, F \cup {x}, b, "poll", wt, 0)
  BY <1>3 DEF TokensOf
<1>4. ASSUME NEW J, J \subseteq F, \E x : x \in F /\ x \notin J PROVE TokensOf(I, J, FALSE, ph, wt, rn)
  BY <1>4 DEF TokensOf
<1>5. ASSUME NEW J, NEW k, J \subseteq I, \E x : x \in I /\ x \notin J, k # 0 PROVE TokensOf(J, F, b, "run", wt, k)
  BY <1>5 DEF TokensOf
<1>6. ASSUME NEW J, J \subseteq I PROVE TokensOf(J, F, b, ph, wt, rn)
  BY <1>6 DEF TokensOf
<1>7. ASSUME NEW J, J \subseteq I, ph = "wait" PROVE TokensOf(J, F, b, "run", 0, rn)
  BY <1>7 DEF TokensOf
<1>8. ASSUME ph = "run" PROVE TokensOf(I, F, b, "dead", wt, rn)
  BY <1>8 DEF TokensOf
<1> QED BY <1>1, <1>2, <1>3, <1>4, <1>5, <1>6, <1>7, <1>8

\* What may happen to a get: it is sent, received, answered, and the answer read.
LEMMA GetsStep ==
  ASSUME NEW G, NEW R, NEW a, NEW wt, NEW ph, GetsOf(G, R, a, wt, ph)
  PROVE  /\ \A x : x.id \in a => GetsOf(G, R \cup {x}, a \ {x.id}, wt, ph)
         /\ \A x : ph = "run" => GetsOf(G \cup {x}, R, a, x.id, "wait")
         /\ \A J, k : J \subseteq G /\ (\E x : x \in G /\ x \notin J /\ x.id = k) => GetsOf(J, R, a \cup {k}, wt, ph)
         /\ \A J, p : J \subseteq R /\ ph # "wait" /\ p # "wait" => GetsOf(G, J, a, wt, p)
         /\ \A J, k : J \subseteq R /\ ph = "wait" /\ (\E x : x \in R /\ x \notin J /\ x.id = k) =>
              GetsOf(G, J, a, 0, "run") /\ k = wt
<1>1. ASSUME NEW x, x.id \in a PROVE GetsOf(G, R \cup {x}, a \ {x.id}, wt, ph)
  BY <1>1 DEF GetsOf
<1>2. ASSUME NEW x, ph = "run" PROVE GetsOf(G \cup {x}, R, a, x.id, "wait")
  BY <1>2 DEF GetsOf
<1>3. ASSUME NEW J, NEW k, J \subseteq G, \E x : x \in G /\ x \notin J /\ x.id = k
      PROVE  GetsOf(J, R, a \cup {k}, wt, ph)
  BY <1>3 DEF GetsOf
<1>4. ASSUME NEW J, NEW p, J \subseteq R, ph # "wait", p # "wait" PROVE GetsOf(G, J, a, wt, p)
  BY <1>4 DEF GetsOf
<1>5. ASSUME NEW J, NEW k, J \subseteq R, ph = "wait", \E x : x \in R /\ x \notin J /\ x.id = k
      PROVE  GetsOf(G, J, a, 0, "run") /\ k = wt
  BY <1>5 DEF GetsOf
<1> QED BY <1>1, <1>2, <1>3, <1>4, <1>5

-----------------------------------------------------------------------------
(* The messages on their way, one step at a time.                           *)

\* Sending adds the message to those on their way, on its queue only.
LEMMA FlyingSending ==
  ASSUME QTypes, \A q \in Queues : Flows(q), NEW c \in Queues, NEW m \in Messages, Sending(c, m), NEW kind
  PROVE  /\ m.kind = kind => \E x : x.id = m.id /\ Fly(sent'[c], Len(got'[c]), kind) =
                                                     Fly(sent[c], Len(got[c]), kind) \cup {x}
         /\ m.kind # kind => Fly(sent'[c], Len(got'[c]), kind) = Fly(sent[c], Len(got[c]), kind)
         /\ \A q \in Queues : q # c => Fly(sent'[q], Len(got'[q]), kind) = Fly(sent[q], Len(got[q]), kind)
         /\ sent'[c] \in Seq(Messages) /\ More(sent[c], m, sent'[c])
<1>1. sent'[c] = Append(sent[c], m) /\ got' = got /\ \A q \in Queues : q # c => sent'[q] = sent[q]
  BY DEF Sending
<1>2. sent[c] \in Seq(Messages) /\ Len(got[c]) \in Nat /\ Len(got[c]) <= Len(sent[c])
  BY FlowOf, QueuedFacts
<1> DEFINE s == sent[c]
           t == sent'[c]
           h == Len(got[c])
<1>3. s \in Seq(Messages) /\ h \in Nat /\ h <= Len(s) /\ t \in Seq(Messages) /\ More(s, m, t)
  <2>1. t = Append(s, m) /\ s \in Seq(Messages)
    BY <1>1, <1>2
  <2> HIDE DEF s, t
  <2>2. t \in Seq(Messages) /\ More(s, m, t)
    BY <2>1 DEF More
  <2> QED BY <2>1, <2>2, <1>2 DEF s
<1> HIDE DEF s, h, t
<1>4. /\ m.kind = kind => \E x : x.id = m.id /\ Fly(t, h, kind) = Fly(s, h, kind) \cup {x}
      /\ m.kind # kind => Fly(t, h, kind) = Fly(s, h, kind)
  BY <1>3, FlyMore
<1> QED BY <1>1, <1>3, <1>4 DEF s, h, t

FlyTake(S, T, m, kind) ==
  /\ T \subseteq S
  /\ m.kind # kind => T = S
  /\ m.kind = kind => \E x : x \in S /\ x \notin T /\ x.id = m.id

\* Receiving takes the message from those on their way ...
LEMMA FlyingTaking ==
  ASSUME QTypes, NEW c \in Queues, Taking(c), NEW kind
  PROVE  FlyTake(Fly(sent[c], Len(got[c]), kind), Fly(sent'[c], Len(got'[c]), kind), sent[c][Len(got[c]) + 1], kind)
<1>1. /\ sent' = sent /\ Len(got[c]) + 1 \in 1..Len(sent[c]) /\ Len(got'[c]) = Len(got[c]) + 1
      /\ \A q \in Queues : q # c => got'[q] = got[q]
  BY DEF Taking
<1>2. sent[c] \in Seq(Messages) /\ Len(got[c]) \in Nat
  BY FlowOf
<1> DEFINE s == sent[c]
           h == Len(got[c])
<1> HIDE DEF s, h
<1>3. /\ s[h + 1].kind # kind => Fly(s, h + 1, kind) = Fly(s, h, kind)
      /\ Fly(s, h + 1, kind) \subseteq Fly(s, h, kind)
      /\ s[h + 1].kind = kind =>
           \E x : x \in Fly(s, h, kind) /\ x \notin Fly(s, h + 1, kind) /\ x.id = s[h + 1].id
  <2>1. s \in Seq(Messages) /\ h \in Nat /\ h + 1 \in 1..Len(s)
    BY <1>1, <1>2 DEF s, h
  <2> QED BY <2>1, FlyDrop
<1> QED BY <1>1, <1>3 DEF FlyTake, s, h

\* ... on its queue only.
LEMMA FlyingElsewhere ==
  ASSUME NEW c, Taking(c), NEW q \in Queues, q # c, NEW kind
  PROVE  Fly(sent'[q], Len(got'[q]), kind) = Fly(sent[q], Len(got[q]), kind)
  BY DEF Taking

\* Calls that were made stay made.
LEMMA CarriesStep ==
  ASSUME NEW s \in Seq(Messages), NEW K, NEW n \in Nat, NEW k \in Nat, n <= k, Carries(s, K, n)
  PROVE  Carries(s, K, k)
<1>1. ASSUME NEW i \in 1..Len(s) PROVE s[i].kind \in K /\ (s[i].kind = "get" => s[i].id <= k)
  <2>1. s[i].kind \in K /\ (s[i].kind = "get" => s[i].id <= n)
    BY DEF Carries
  <2>2. s[i].id \in Nat
    BY KnowsTypes
  <2> QED BY <2>1, <2>2
<1> QED BY <1>1 DEF Carries

\* One more message, of a kind the queue carries.
LEMMA CarriesMore ==
  ASSUME NEW s \in Seq(Messages), NEW t \in Seq(Messages), NEW K, NEW k, Carries(s, K, k),
         NEW m \in Messages, More(s, m, t), m.kind \in K, m.kind = "get" => m.id <= k
  PROVE  Carries(t, K, k) /\ LastKind(t) = m.kind
<1>1. Len(t) = Len(s) + 1 /\ t[Len(s) + 1] = m /\ (\A i \in 1..Len(s) : t[i] = s[i]) /\ Len(s) \in Nat
  BY DEF More
<1>2. ASSUME NEW i \in 1..Len(t) PROVE t[i].kind \in K /\ (t[i].kind = "get" => t[i].id <= k)
  <2>1. CASE i \in 1..Len(s)
    BY <2>1, <1>1 DEF Carries
  <2>2. CASE i = Len(s) + 1
    BY <2>2, <1>1
  <2> QED BY <2>1, <2>2, <1>1
<1>3. Carries(t, K, k)
  BY <1>2 DEF Carries
<1> QED BY <1>1, <1>3 DEF LastKind

-----------------------------------------------------------------------------
(* Workers a step is not about.                                             *)

Idle(v) ==
  /\ sent'[In(v)] = sent[In(v)] /\ sent'[Out(v)] = sent[Out(v)]
  /\ got'[In(v)] = got[In(v)] /\ got'[Out(v)] = got[Out(v)]
  /\ sending'[In(v)] # <<>> => sending[In(v)] # <<>>
  /\ sending'[Out(v)] # <<>> => sending[Out(v)] # <<>>
  /\ busy'[v] = busy[v] /\ asked'[v] = asked[v]
  /\ phase'[v] = phase[v] /\ running'[v] = running[v] /\ waiting'[v] = waiting[v]
  /\ v \notin missed' => v \notin missed
  /\ calls <= calls'
  /\ updating' = updating \/ updating' # <<>> \/ sending[In(v)] = <<>>

\* For them everything stays as it should be.
LEMMA LocalIdle ==
  ASSUME NEW v \in Workers, QTypes, Local(v), Idle(v), calls \in Nat, calls' \in Nat
  PROVE  Local(v)'
<1>1. Tokens(v)'
  BY DEF Local, Tokens, Flying, Idle
<1>2. Gets(v)'
  BY DEF Local, Gets, Flying, Idle
<1>3. Carried(v)'
  <2>1. In(v) \in Queues /\ Out(v) \in Queues
    BY QueueFacts
  <2>2. sent[In(v)] \in Seq(Messages) /\ sent[Out(v)] \in Seq(Messages)
    BY <2>1, FlowOf
  <2>3. Carries(sent[In(v)], {"invoke", "update", "reply"}, calls) /\ Carries(sent[Out(v)], {"put", "get", "result"}, calls)
    BY DEF Local, Carried
  <2>4. calls <= calls'
    BY DEF Idle
  <2>5. Carries(sent[In(v)], {"invoke", "update", "reply"}, calls') /\ Carries(sent[Out(v)], {"put", "get", "result"}, calls')
    BY <2>2, <2>3, <2>4, CarriesStep
  <2> QED BY <2>5 DEF Carried, Idle
<1>4. Sends(v)'
  BY DEF Local, Sends, SendsOf, TellsOf, Idle
<1> QED BY <1>1, <1>2, <1>3, <1>4 DEF Local

-----------------------------------------------------------------------------
(* The worker a step is about.                                              *)

\* The controller sends it a message.
LEMMA LocalSendIn ==
  ASSUME Inv, NEW w \in Workers, NEW m \in Messages, Sending(In(w), m),
         m.kind \in {"invoke", "update", "reply"},
         m.kind = "invoke" => ~busy[w] /\ busy'[w] = TRUE,
         m.kind # "invoke" => busy'[w] = busy[w],
         m.kind = "reply" => m.id \in asked[w] /\ asked'[w] = asked[w] \ {m.id},
         m.kind # "reply" => asked'[w] = asked[w],
         m.kind = "update" => updating' # <<>>,
         phase' = phase, running' = running, waiting' = waiting, missed' = missed, calls' = calls
  PROVE  Local(w)'
<1> DEFINE a == In(w)
           o == Out(w)
           I == Fly(sent[a], Len(got[a]), "invoke")
           I1 == Fly(sent'[a], Len(got'[a]), "invoke")
           R == Fly(sent[a], Len(got[a]), "reply")
           R1 == Fly(sent'[a], Len(got'[a]), "reply")
           F == Fly(sent[o], Len(got[o]), "result")
           F1 == Fly(sent'[o], Len(got'[o]), "result")
           G == Fly(sent[o], Len(got[o]), "get")
           G1 == Fly(sent'[o], Len(got'[o]), "get")
<1>0. a \in Queues /\ o \in Queues /\ o # a
  BY QueueFacts
<1>1. QTypes /\ (\A q \in Queues : Flows(q)) /\ Local(w) /\ calls \in Nat
  BY ChannelAssumption DEF Inv, WTypes
<1>2. F1 = F /\ G1 = G
  BY <1>0, <1>1, FlyingSending
<1>3. /\ m.kind = "invoke" => \E x : I1 = I \cup {x}
      /\ m.kind # "invoke" => I1 = I
  BY <1>0, <1>1, FlyingSending
<1>4. /\ m.kind = "reply" => \E x : x.id = m.id /\ R1 = R \cup {x}
      /\ m.kind # "reply" => R1 = R
  BY <1>0, <1>1, FlyingSending
<1>5. sent[a] \in Seq(Messages) /\ sent'[a] \in Seq(Messages) /\ More(sent[a], m, sent'[a])
  BY <1>0, <1>1, FlyingSending, FlowOf
<1>6. sent'[o] = sent[o] /\ sending'[o] = sending[o]
  BY <1>0 DEF Sending
<1>7. /\ TokensOf(I, F, busy[w], phase[w], waiting[w], running[w])
      /\ w \notin missed => GetsOf(G, R, asked[w], waiting[w], phase[w])
  BY <1>1 DEF Local, Tokens, Gets, Flying
<1> HIDE DEF a, o, I, I1, R, R1, F, F1, G, G1
<1>8. TokensOf(I1, F1, busy'[w], phase'[w], waiting'[w], running'[w])
  <2>1. CASE m.kind = "invoke"
    <3>1. PICK x : I1 = I \cup {x}
      BY <2>1, <1>3
    <3>2. ~busy[w] /\ busy'[w]
      BY <2>1
    <3>3. TokensOf(I1, F, busy'[w], phase[w], waiting[w], running[w])
      BY <3>1, <3>2, <1>7 DEF TokensOf
    <3> QED BY <3>3, <1>2
  <2>2. CASE m.kind # "invoke"
    BY <2>2, <1>2, <1>3, <1>7
  <2> QED BY <2>1, <2>2
<1>9. w \notin missed' => GetsOf(G1, R1, asked'[w], waiting'[w], phase'[w])
  <2>1. CASE m.kind = "reply" /\ w \notin missed
    <3>1. PICK x : x.id = m.id /\ R1 = R \cup {x}
      BY <2>1, <1>4
    <3>2. GetsOf(G, R \cup {x}, asked[w] \ {x.id}, waiting[w], phase[w])
      BY <2>1, <3>1, <1>7, GetsStep
    <3> QED BY <2>1, <3>1, <3>2, <1>2
  <2>2. CASE m.kind # "reply"
    BY <2>2, <1>2, <1>4, <1>7
  <2> QED BY <2>1, <2>2
<1>10. Tokens(w)' /\ Gets(w)'
  BY <1>8, <1>9 DEF Tokens, Gets, Flying, I1, R1, F1, G1, a, o
<1>11. /\ Carries(sent[a], {"invoke", "update", "reply"}, calls)
       /\ Carries(sent[o], {"put", "get", "result"}, calls)
  BY <1>1 DEF Local, Carried, a, o
<1>12. Carries(sent'[a], {"invoke", "update", "reply"}, calls) /\ LastKind(sent'[a]) = m.kind
  BY <1>5, <1>11, CarriesMore
<1>13. Carried(w)'
  BY <1>6, <1>11, <1>12 DEF Carried, a, o
<1>14. Sends(w)'
  <2>1. SendsOf(sending[o], sent[o], phase[w])
    BY <1>1 DEF Local, Sends, o
  <2>2. TellsOf(sending'[a], sent'[a], updating')
    BY <1>12 DEF TellsOf
  <2> QED BY <2>1, <2>2, <1>6 DEF Sends, a, o
<1> QED BY <1>10, <1>13, <1>14 DEF Local

\* It sends a message to the controller.
LEMMA LocalSendOut ==
  ASSUME Inv, NEW w \in Workers, NEW m \in Messages, Sending(Out(w), m), phase[w] = "run",
         m.kind \in {"put", "get", "result"},
         m.kind = "put" => phase'[w] = "run" /\ running'[w] = running[w] /\ waiting'[w] = waiting[w],
         m.kind = "get" => phase'[w] = "wait" /\ running'[w] = running[w] /\ waiting'[w] = m.id /\ m.id <= calls',
         m.kind = "result" => phase'[w] = "poll" /\ running'[w] = 0 /\ waiting'[w] = waiting[w],
         busy' = busy, asked' = asked, updating' = updating, missed' = missed, calls' \in Nat, calls <= calls'
  PROVE  Local(w)'
<1> DEFINE a == In(w)
           o == Out(w)
           I == Fly(sent[a], Len(got[a]), "invoke")
           I1 == Fly(sent'[a], Len(got'[a]), "invoke")
           R == Fly(sent[a], Len(got[a]), "reply")
           R1 == Fly(sent'[a], Len(got'[a]), "reply")
           F == Fly(sent[o], Len(got[o]), "result")
           F1 == Fly(sent'[o], Len(got'[o]), "result")
           G == Fly(sent[o], Len(got[o]), "get")
           G1 == Fly(sent'[o], Len(got'[o]), "get")
<1>0. a \in Queues /\ o \in Queues /\ o # a
  BY QueueFacts
<1>1. QTypes /\ (\A q \in Queues : Flows(q)) /\ Local(w) /\ calls \in Nat
  BY ChannelAssumption DEF Inv, WTypes
<1>2. I1 = I /\ R1 = R
  BY <1>0, <1>1, FlyingSending
<1>3. /\ m.kind = "result" => \E x : F1 = F \cup {x}
      /\ m.kind # "result" => F1 = F
  BY <1>0, <1>1, FlyingSending
<1>4. /\ m.kind = "get" => \E x : x.id = m.id /\ G1 = G \cup {x}
      /\ m.kind # "get" => G1 = G
  BY <1>0, <1>1, FlyingSending
<1>5. sent[o] \in Seq(Messages) /\ sent[a] \in Seq(Messages) /\ sent'[o] \in Seq(Messages) /\ More(sent[o], m, sent'[o])
  BY <1>0, <1>1, FlyingSending, FlowOf
<1>6. sent'[a] = sent[a] /\ sending'[a] = sending[a]
  BY <1>0 DEF Sending
<1>7. /\ TokensOf(I, F, busy[w], phase[w], waiting[w], running[w])
      /\ w \notin missed => GetsOf(G, R, asked[w], waiting[w], phase[w])
  BY <1>1 DEF Local, Tokens, Gets, Flying
<1>7a. m.kind = "get" => m.id # 0
  BY MessageFacts
<1> HIDE DEF a, o, I, I1, R, R1, F, F1, G, G1
<1>8. TokensOf(I1, F1, busy'[w], phase'[w], waiting'[w], running'[w])
  <2>1. CASE m.kind = "result"
    <3>1. PICK x : F1 = F \cup {x}
      BY <2>1, <1>3
    <3>2. TokensOf(I, F \cup {x}, busy[w], "poll", waiting[w], 0)
      BY <1>7, TokensStep
    <3> QED BY <2>1, <3>1, <3>2, <1>2
  <2>2. CASE m.kind = "get"
    <3>1. TokensOf(I, F, busy[w], "wait", m.id, running[w])
      BY <2>2, <1>7, <1>7a, TokensStep
    <3> QED BY <2>2, <3>1, <1>2, <1>3
  <2>3. CASE m.kind = "put"
    BY <2>3, <1>2, <1>3, <1>7
  <2> QED BY <2>1, <2>2, <2>3
<1>9. w \notin missed' => GetsOf(G1, R1, asked'[w], waiting'[w], phase'[w])
  <2>1. CASE m.kind = "get" /\ w \notin missed
    <3>1. PICK x : x.id = m.id /\ G1 = G \cup {x}
      BY <2>1, <1>4
    <3>2. GetsOf(G \cup {x}, R, asked[w], x.id, "wait")
      BY <2>1, <1>7, GetsStep
    <3> QED BY <2>1, <3>1, <3>2, <1>2
  <2>2. CASE m.kind = "put"
    BY <2>2, <1>2, <1>4, <1>7
  <2>3. CASE m.kind = "result" /\ w \notin missed
    <3>1. GetsOf(G, R, asked[w], waiting[w], "poll")
      BY <2>3, <1>7, GetsStep
    <3> QED BY <2>3, <3>1, <1>2, <1>4
  <2> QED BY <2>1, <2>2, <2>3
<1>10. Tokens(w)' /\ Gets(w)'
  BY <1>8, <1>9 DEF Tokens, Gets, Flying, I1, R1, F1, G1, a, o
<1>11. /\ Carries(sent[a], {"invoke", "update", "reply"}, calls')
       /\ Carries(sent[o], {"put", "get", "result"}, calls')
  <2>1. /\ Carries(sent[a], {"invoke", "update", "reply"}, calls)
        /\ Carries(sent[o], {"put", "get", "result"}, calls)
    BY <1>1 DEF Local, Carried, a, o
  <2> QED BY <2>1, <1>1, <1>5, CarriesStep
<1>12. Carries(sent'[o], {"put", "get", "result"}, calls') /\ LastKind(sent'[o]) = m.kind
  BY <1>5, <1>11, CarriesMore
<1>13. Carried(w)'
  BY <1>6, <1>11, <1>12 DEF Carried, a, o
<1>14. Sends(w)'
  <2>1. TellsOf(sending[a], sent[a], updating)
    BY <1>1 DEF Local, Sends, a
  <2>2. SendsOf(sending'[o], sent'[o], phase'[w])
    BY <1>12 DEF SendsOf
  <2> QED BY <2>1, <2>2, <1>6 DEF Sends, a, o
<1> QED BY <1>10, <1>13, <1>14 DEF Local

\* The controller receives a message of it.
LEMMA LocalTakeOut ==
  ASSUME Inv, NEW w \in Workers, Taking(Out(w)),
         NEW m, m = sent[Out(w)][Len(got[Out(w)]) + 1],
         m.kind = "result" => busy'[w] = FALSE,
         m.kind # "result" => busy'[w] = busy[w],
         m.kind = "get" => asked'[w] = asked[w] \cup {m.id},
         m.kind # "get" => asked'[w] = asked[w],
         phase' = phase, running' = running, waiting' = waiting, updating' = updating,
         missed' = missed, calls' = calls
  PROVE  Local(w)'
<1> DEFINE a == In(w)
           o == Out(w)
           I == Fly(sent[a], Len(got[a]), "invoke")
           I1 == Fly(sent'[a], Len(got'[a]), "invoke")
           R == Fly(sent[a], Len(got[a]), "reply")
           R1 == Fly(sent'[a], Len(got'[a]), "reply")
           F == Fly(sent[o], Len(got[o]), "result")
           F1 == Fly(sent'[o], Len(got'[o]), "result")
           G == Fly(sent[o], Len(got[o]), "get")
           G1 == Fly(sent'[o], Len(got'[o]), "get")
<1>0. a \in Queues /\ o \in Queues /\ o # a
  BY QueueFacts
<1>1. QTypes /\ Local(w)
  BY DEF Inv
<1>2. I1 = I /\ R1 = R
  <2>1. I1 = I
    BY <1>0, FlyingElsewhere
  <2>2. R1 = R
    BY <1>0, FlyingElsewhere
  <2> QED BY <2>1, <2>2
<1>3. /\ m.kind = "result" => F1 \subseteq F /\ \E x : x \in F /\ x \notin F1
      /\ m.kind # "result" => F1 = F
  <2>1. m = sent[o][Len(got[o]) + 1] /\ Taking(o)
    OBVIOUS
  <2> HIDE DEF o
  <2>2. FlyTake(F, F1, sent[o][Len(got[o]) + 1], "result")
    BY <2>1, <1>0, <1>1, FlyingTaking
  <2>3. FlyTake(F, F1, m, "result")
    BY <2>1, <2>2
  <2> HIDE DEF F, F1
  <2> QED BY <2>3 DEF FlyTake
<1>4. /\ m.kind = "get" => G1 \subseteq G /\ \E x : x \in G /\ x \notin G1 /\ x.id = m.id
      /\ m.kind # "get" => G1 = G
  <2>1. m = sent[o][Len(got[o]) + 1] /\ Taking(o)
    OBVIOUS
  <2> HIDE DEF o
  <2>2. FlyTake(G, G1, sent[o][Len(got[o]) + 1], "get")
    BY <2>1, <1>0, <1>1, FlyingTaking
  <2>3. FlyTake(G, G1, m, "get")
    BY <2>1, <2>2
  <2> HIDE DEF G, G1
  <2> QED BY <2>3 DEF FlyTake
<1>6. sent' = sent /\ sending' = sending
  BY DEF Taking
<1>7. /\ TokensOf(I, F, busy[w], phase[w], waiting[w], running[w])
      /\ w \notin missed => GetsOf(G, R, asked[w], waiting[w], phase[w])
  BY <1>1 DEF Local, Tokens, Gets, Flying
<1> HIDE DEF a, o, I, I1, R, R1, F, F1, G, G1
<1>8. TokensOf(I1, F1, busy'[w], phase'[w], waiting'[w], running'[w])
  <2>1. CASE m.kind = "result"
    <3>1. TokensOf(I, F1, FALSE, phase[w], waiting[w], running[w])
      BY <2>1, <1>3, <1>7, TokensStep
    <3> QED BY <2>1, <3>1, <1>2
  <2>2. CASE m.kind # "result"
    BY <2>2, <1>2, <1>3, <1>7
  <2> QED BY <2>1, <2>2
<1>9. w \notin missed' => GetsOf(G1, R1, asked'[w], waiting'[w], phase'[w])
  <2>1. CASE m.kind = "get" /\ w \notin missed
    <3>1. GetsOf(G1, R, asked[w] \cup {m.id}, waiting[w], phase[w])
      BY <2>1, <1>4, <1>7, GetsStep
    <3> QED BY <2>1, <3>1, <1>2
  <2>2. CASE m.kind # "get"
    BY <2>2, <1>2, <1>4, <1>7
  <2> QED BY <2>1, <2>2
<1>10. Tokens(w)' /\ Gets(w)'
  BY <1>8, <1>9 DEF Tokens, Gets, Flying, I1, R1, F1, G1, a, o
<1>11. Carried(w)' /\ Sends(w)'
  BY <1>1, <1>6 DEF Local, Carried, Sends
<1> QED BY <1>10, <1>11 DEF Local

\* It reads a message of the controller.
LEMMA LocalTakeIn ==
  ASSUME Inv, NEW w \in Workers, Taking(In(w)), sending[Out(w)] = <<>>,
         NEW m, m = sent[In(w)][Len(got[In(w)]) + 1],
         NEW does, does = phase[w], does \in {"poll", "wait"},
         does = "poll" /\ phase'[w] # "poll" => m.kind = "invoke" /\ phase'[w] = "run" /\ running'[w] # 0,
         does = "poll" /\ phase'[w] = "poll" => running'[w] = running[w],
         does = "poll" => waiting'[w] = waiting[w],
         does = "wait" => phase'[w] = "run" /\ waiting'[w] = 0 /\ running'[w] = running[w],
         w \in missed => w \in missed',
         m.kind = "update" /\ does = "wait" => w \in missed',
         busy' = busy, asked' = asked, updating' = updating, calls' = calls
  PROVE  /\ Local(w)'
         /\ does = "wait" /\ w \notin missed' => m.kind = "reply" /\ m.id = waiting[w]
<1> DEFINE a == In(w)
           o == Out(w)
           I == Fly(sent[a], Len(got[a]), "invoke")
           I1 == Fly(sent'[a], Len(got'[a]), "invoke")
           R == Fly(sent[a], Len(got[a]), "reply")
           R1 == Fly(sent'[a], Len(got'[a]), "reply")
           F == Fly(sent[o], Len(got[o]), "result")
           F1 == Fly(sent'[o], Len(got'[o]), "result")
           G == Fly(sent[o], Len(got[o]), "get")
           G1 == Fly(sent'[o], Len(got'[o]), "get")
<1>0. a \in Queues /\ o \in Queues /\ o # a
  BY QueueFacts
<1>1. QTypes /\ Local(w)
  BY DEF Inv
<1>2. F1 = F /\ G1 = G
  <2>1. F1 = F
    BY <1>0, FlyingElsewhere
  <2>2. G1 = G
    BY <1>0, FlyingElsewhere
  <2> QED BY <2>1, <2>2
<1>3. I1 \subseteq I /\ (m.kind = "invoke" => \E x : x \in I /\ x \notin I1)
  <2>1. m = sent[a][Len(got[a]) + 1] /\ Taking(a)
    OBVIOUS
  <2> HIDE DEF a
  <2>2. FlyTake(I, I1, sent[a][Len(got[a]) + 1], "invoke")
    BY <2>1, <1>0, <1>1, FlyingTaking
  <2>3. FlyTake(I, I1, m, "invoke")
    BY <2>1, <2>2
  <2> HIDE DEF I, I1
  <2> QED BY <2>3 DEF FlyTake
<1>4. R1 \subseteq R /\ (m.kind = "reply" => \E x : x \in R /\ x \notin R1 /\ x.id = m.id)
  <2>1. m = sent[a][Len(got[a]) + 1] /\ Taking(a)
    OBVIOUS
  <2> HIDE DEF a
  <2>2. FlyTake(R, R1, sent[a][Len(got[a]) + 1], "reply")
    BY <2>1, <1>0, <1>1, FlyingTaking
  <2>3. FlyTake(R, R1, m, "reply")
    BY <2>1, <2>2
  <2> HIDE DEF R, R1
  <2> QED BY <2>3 DEF FlyTake
<1>6. sent' = sent /\ sending' = sending
  BY DEF Taking
<1>7. /\ TokensOf(I, F, busy[w], phase[w], waiting[w], running[w])
      /\ w \notin missed => GetsOf(G, R, asked[w], waiting[w], phase[w])
  BY <1>1 DEF Local, Tokens, Gets, Flying
<1>8. m.kind \in {"invoke", "update", "reply"}
  <2>1. Len(got[a]) + 1 \in 1..Len(sent[a])
    BY DEF Taking
  <2> QED BY <2>1, <1>1 DEF Local, Carried, Carries
<1> HIDE DEF a, o, I, I1, R, R1, F, F1, G, G1
<1>9. TokensOf(I1, F1, busy'[w], phase'[w], waiting'[w], running'[w])
  <2>1. CASE does = "poll" /\ phase'[w] # "poll"
    <3>1. TokensOf(I1, F, busy[w], "run", waiting[w], running'[w])
      BY <2>1, <1>3, <1>7, TokensStep
    <3> QED BY <2>1, <3>1, <1>2
  <2>2. CASE does = "poll" /\ phase'[w] = "poll"
    <3>1. TokensOf(I1, F, busy[w], phase[w], waiting[w], running[w])
      BY <1>3, <1>7, TokensStep
    <3> QED BY <2>2, <3>1, <1>2
  <2>3. CASE does = "wait"
    <3>1. TokensOf(I1, F, busy[w], "run", 0, running[w])
      BY <2>3, <1>3, <1>7, TokensStep
    <3> QED BY <2>3, <3>1, <1>2
  <2> QED BY <2>1, <2>2, <2>3
<1>10. ASSUME w \notin missed', does = "wait"
       PROVE  GetsOf(G, R1, asked[w], 0, "run") /\ m.kind = "reply" /\ m.id = waiting[w]
  <2>1. m.kind # "invoke"
    BY <1>3, <1>7, <1>10 DEF TokensOf
  <2>2. m.kind = "reply" /\ w \notin missed
    BY <2>1, <1>8, <1>10
  <2>3. /\ GetsOf(G, R, asked[w], waiting[w], "wait")
        /\ R1 \subseteq R /\ \E x : x \in R /\ x \notin R1 /\ x.id = m.id
    BY <2>2, <1>4, <1>7, <1>10
  <2>4. GetsOf(G, R1, asked[w], 0, "run") /\ m.id = waiting[w]
    BY <2>3 DEF GetsOf
  <2> QED BY <2>2, <2>4
<1>11. w \notin missed' => GetsOf(G1, R1, asked'[w], waiting'[w], phase'[w])
  <2>1. CASE does = "wait"
    BY <2>1, <1>2, <1>10
  <2>2. CASE does = "poll" /\ w \notin missed'
    <3>1. phase'[w] # "wait" /\ w \notin missed
      BY <2>2
    <3>2. GetsOf(G, R1, asked[w], waiting[w], phase'[w])
      BY <2>2, <3>1, <1>4, <1>7, GetsStep
    <3> QED BY <2>2, <3>2, <1>2
  <2> QED BY <2>1, <2>2
<1>12. Tokens(w)' /\ Gets(w)'
  BY <1>9, <1>11 DEF Tokens, Gets, Flying, I1, R1, F1, G1, a, o
<1>13. Carried(w)' /\ Sends(w)'
  BY <1>1, <1>6 DEF Local, Carried, Sends, SendsOf
<1> QED BY <1>10, <1>12, <1>13 DEF Local

\* It is gone.
LEMMA LocalCrash ==
  ASSUME Inv, NEW w \in Workers, phase[w] = "run", phase'[w] = "dead", sending'[Out(w)] = <<>>,
         sending'[In(w)] = sending[In(w)], sent' = sent, got' = got, busy' = busy, asked' = asked,
         running' = running, waiting' = waiting, updating' = updating, missed' = missed, calls' = calls
  PROVE  Local(w)'
<1>1. Local(w)
  BY DEF Inv
<1>2. Tokens(w)'
  <2> DEFINE I == Flying(In(w), "invoke")
             F == Flying(Out(w), "result")
  <2>1. TokensOf(I, F, busy[w], phase[w], waiting[w], running[w])
    BY <1>1 DEF Local, Tokens
  <2> HIDE DEF I, F
  <2>2. TokensOf(I, F, busy[w], "dead", waiting[w], running[w])
    BY <2>1, TokensStep
  <2> QED BY <2>2 DEF Tokens, Flying, I, F
<1>3. Gets(w)'
  <2> DEFINE G == Flying(Out(w), "get")
             R == Flying(In(w), "reply")
  <2>1. w \notin missed => GetsOf(G, R, asked[w], waiting[w], phase[w])
    BY <1>1 DEF Local, Gets
  <2> HIDE DEF G, R
  <2>2. w \notin missed => GetsOf(G, R, asked[w], waiting[w], "dead")
    BY <2>1, GetsStep
  <2> QED BY <2>2 DEF Gets, Flying, G, R
<1>4. Carried(w)' /\ Sends(w)'
  BY <1>1 DEF Local, Carried, Sends, SendsOf, TellsOf
<1> QED BY <1>2, <1>3, <1>4 DEF Local

-----------------------------------------------------------------------------
(* The changes, one step at a time.                                         *)

\* The controller begins to announce.
LEMMA PlaceProcess ==
  ASSUME NEW h, NEW d, NEW v, NEW n \in Nat, NEW us \in Seq(Changes), v = h[n]
  PROVE  PlaceOf(h, d, v, n + Len(us), us, us, n)
<1>1. Len(us) \in Nat /\ Len(us) <= n + Len(us) /\ (n + Len(us)) - Len(us) = n /\ Len(us) - Len(us) = 0
  OBVIOUS
<1>2. \A i \in 1..Len(us) : ~(n + i <= n) /\ 0 + i = i
  BY <1>1
<1> QED BY <1>1, <1>2 DEF PlaceOf

\* It puts one change into its own list.
LEMMA PlaceApply ==
  ASSUME NEW h, NEW d, NEW v, NEW n \in Nat, NEW u \in Seq(Changes), u # <<>>,
         History(h, d, n), PlaceOf(h, d, v, n, u, <<>>, n)
  PROVE  PlaceOf(h, d, Updated(v, Head(u)), n, Tail(u), <<>>, n)
<1> DEFINE L == Len(u)
           x == Tail(u)
           k == n - L
<1>1. /\ L \in Nat /\ L > 0 /\ x \in Seq(Changes) /\ Len(x) = L - 1 /\ Head(u) = u[1]
      /\ \A i \in 1..L - 1 : x[i] = u[i + 1]
  OBVIOUS
<1>2. L <= n /\ v = h[k] /\ \A i \in 1..L : k + i <= n => u[i] = d[k + i]
  BY DEF PlaceOf
<1>3. \A i \in 0..n, j \in 1..n : j = i + 1 => h[j] = Updated(h[i], d[j])
  BY DEF History
<1> DEFINE y == Head(u)
<1>4. y = u[1]
  BY <1>1
<1> HIDE DEF L, x, k, y
<1>5. k \in 0..n /\ k + 1 \in 1..n /\ 1 \in 1..L /\ k + 1 <= n /\ n - (L - 1) = k + 1
  BY <1>1, <1>2 DEF k
<1>6. Updated(v, y) = h[k + 1]
  BY <1>2, <1>3, <1>4, <1>5
<1>7. ASSUME NEW i \in 1..Len(x) PROVE x[i] = d[(k + 1) + i]
  <2>1. i \in 1..L - 1 /\ i + 1 \in 1..L /\ k + (i + 1) = (k + 1) + i /\ k + (i + 1) <= n
    BY <1>1, <1>2 DEF k
  <2> QED BY <2>1, <1>1, <1>2
<1>8. Len(<<>>) = 0 /\ 0 <= Len(x) /\ Len(x) <= n
  BY <1>1, <1>2
<1>9. n - Len(x) = k + 1
  BY <1>1, <1>5
<1>10. PlaceOf(h, d, Updated(v, y), n, x, <<>>, n)
  BY <1>6, <1>7, <1>8, <1>9 DEF PlaceOf
<1> QED BY <1>10 DEF x, y

\* One change is sent to one worker; it is the last one for this change, or not.
LEMMA PlaceTell ==
  ASSUME NEW h, NEW d, NEW h1, NEW d1, NEW v, NEW n \in Nat, NEW u \in Seq(Changes), NEW t \in Seq(Changes),
         NEW told \in Nat, NEW told1 \in Nat, NEW x \in Seq(Changes), t # <<>>,
         PlaceOf(h, d, v, n, u, t, told), n - Len(t) <= told,
         told1 = told \/ (told = n - Len(t) /\ told1 = told + 1 /\ d1[told + 1] = t[1]),
         \A i \in 0..told : h1[i] = h[i],
         \A i \in 1..told : d1[i] = d[i],
         x = t \/ x = Tail(t)
  PROVE  PlaceOf(h1, d1, v, n, u, x, told1)
<1> DEFINE L == Len(u)
           T == Len(t)
           k == n - L
<1>1. L \in Nat /\ T \in Nat /\ T > 0
  OBVIOUS
<1>2. /\ T <= L /\ L <= n /\ v = h[k]
      /\ \A i \in 1..L : k + i <= told => u[i] = d[k + i]
      /\ \A i \in 1..T : t[i] = u[(L - T) + i]
  BY DEF PlaceOf
<1>3. Len(x) \in Nat /\ Len(x) <= L /\ \A i \in 1..Len(x) : x[i] = u[(L - Len(x)) + i]
  <2>1. CASE x = t
    BY <2>1, <1>1, <1>2
  <2>2. CASE x = Tail(t)
    <3>1. Len(x) = T - 1 /\ \A i \in 1..T - 1 : x[i] = t[i + 1]
      BY <2>2, <1>1
    <3> HIDE DEF L, T
    <3>2. ASSUME NEW i \in 1..Len(x) PROVE x[i] = u[(L - Len(x)) + i]
      <4>1. i \in 1..T - 1 /\ i + 1 \in 1..T /\ (L - T) + (i + 1) = (L - Len(x)) + i
        BY <3>1, <1>1
      <4> QED BY <4>1, <3>1, <1>2
    <3> QED BY <3>1, <3>2, <1>1, <1>2
  <2> QED BY <2>1, <2>2
<1>4. k \in Nat /\ k <= told
  BY <1>1, <1>2
<1> HIDE DEF L, T, k
<1>5. v = h1[k]
  <2>1. k \in 0..told
    BY <1>4
  <2> QED BY <2>1, <1>2
<1>6. ASSUME NEW i \in 1..L, k + i <= told1 PROVE u[i] = d1[k + i]
  <2>1. CASE k + i <= told
    <3>1. k + i \in 1..told
      BY <2>1, <1>4
    <3> QED BY <2>1, <3>1, <1>2
  <2>2. CASE ~(k + i <= told)
    <3>1. told = n - T /\ told1 = told + 1 /\ d1[told + 1] = t[1]
      BY <2>2, <1>6 DEF T
    <3>2. k \in Nat /\ k = n - L /\ i \in Nat
      BY <1>1, <1>4 DEF k
    <3>3. k + i = told + 1
      BY <2>2, <3>1, <3>2, <1>6
    <3>4. (L - T) + 1 = i
      BY <3>1, <3>2, <3>3, <1>1
    <3>5. 1 \in 1..T
      BY <1>1
    <3>6. t[1] = u[i]
      BY <3>4, <3>5, <1>2
    <3> QED BY <3>1, <3>3, <3>6
  <2> QED BY <2>1, <2>2
<1> QED BY <1>2, <1>3, <1>5, <1>6 DEF PlaceOf, L, k

\* A change is sent for the first time.
LEMMA HistoryMore ==
  ASSUME NEW h, NEW d, NEW n \in Nat, NEW u \in Changes, History(h, d, n)
  PROVE  \E h1, d1 : /\ History(h1, d1, n + 1)
                     /\ d1[n + 1] = u
                     /\ \A i \in 0..n : h1[i] = h[i]
                     /\ \A i \in 1..n : d1[i] = d[i]
<1> DEFINE d1 == [i \in 1..n + 1 |-> IF i <= n THEN d[i] ELSE u]
           h1 == [i \in 0..n + 1 |-> IF i <= n THEN h[i] ELSE Updated(h[n], u)]
<1>1. /\ d \in [1..n -> Changes] /\ h \in [0..n -> Views]
      /\ h[0] = [active |-> <<>>, swapped |-> <<>>]
      /\ \A i \in 0..n, k \in 1..n : k = i + 1 => h[k] = Updated(h[i], d[k])
  BY DEF History
<1>2. h[n] \in Views
  BY <1>1
<1>3. Updated(h[n], u) \in Views
  BY <1>2, UpdatedFacts
<1>4. \A i \in 1..n + 1 : (IF i <= n THEN d[i] ELSE u) \in Changes
  BY <1>1
<1>5. \A i \in 0..n + 1 : (IF i <= n THEN h[i] ELSE Updated(h[n], u)) \in Views
  BY <1>1, <1>3
<1>6. d1 \in [1..n + 1 -> Changes] /\ h1 \in [0..n + 1 -> Views]
  BY <1>4, <1>5
<1>7. /\ d1[n + 1] = u /\ h1[n + 1] = Updated(h[n], u)
      /\ \A i \in 0..n : h1[i] = h[i]
      /\ \A i \in 1..n : d1[i] = d[i]
  OBVIOUS
<1> HIDE DEF d1, h1
<1>8. ASSUME NEW i \in 0..n + 1, NEW k \in 1..n + 1, k = i + 1 PROVE h1[k] = Updated(h1[i], d1[k])
  <2>1. CASE k \in 1..n
    <3>1. i \in 0..n /\ k \in 0..n
      BY <2>1, <1>8
    <3> QED BY <2>1, <3>1, <1>1, <1>7, <1>8
  <2>2. CASE k = n + 1
    <3>1. i = n /\ n \in 0..n
      BY <2>2, <1>8
    <3> QED BY <2>2, <3>1, <1>7
  <2> QED BY <2>1, <2>2
<1>9. h1[0] = [active |-> <<>>, swapped |-> <<>>]
  BY <1>1, <1>7
<1>10. History(h1, d1, n + 1)
  BY <1>6, <1>8, <1>9 DEF History
<1> QED BY <1>7, <1>10

-----------------------------------------------------------------------------
(* What the workers were told.                                              *)

\* The workers are told in the order of their numbers: no one knows more than
\* the first.
LEMMA ToldFacts ==
  ASSUME CTypes, Len(telling) <= updates, NEW w \in Workers
  PROVE  /\ Told(w) \in Nat /\ 1 \in Workers /\ Told(1) \in Nat /\ Told(w) <= Told(1)
         /\ updates - Len(telling) <= Told(w)
         /\ telling = <<>> => Told(w) = updates
<1>1. updates \in Nat /\ Len(telling) \in Nat /\ turn \in Nat /\ w \in Nat /\ 1 <= w /\ 1 \in Workers
  BY ChannelAssumption DEF CTypes, Workers
<1>2. telling = <<>> => Len(telling) = 0
  OBVIOUS
<1> QED BY <1>1, <1>2 DEF Told, ToldOf

\* One worker is told one change more.
LEMMA TellFacts ==
  ASSUME CTypes, Len(telling) <= updates, telling # <<>>, NextTurn, updates' = updates, NEW w \in Workers, w = turn
  PROVE  /\ Told(w) = updates - Len(telling) /\ Told(w)' = Told(w) + 1
         /\ \A v \in Workers : v # w => Told(v)' = Told(v)
         /\ w # 1 => Told(1) = Told(w) + 1
         /\ turn' \in Workers /\ telling' \in Seq(Changes)
         /\ telling' = telling \/ telling' = Tail(telling)
<1> DEFINE L == Len(telling)
<1>1. /\ updates \in Nat /\ w \in 1..NumWorkers /\ telling \in Seq(Changes) /\ NumWorkers \in Nat /\ NumWorkers >= 1
      /\ 1 \in Workers
  BY ChannelAssumption DEF CTypes, Workers
<1>2. L \in Nat /\ L > 0 /\ L <= updates
  BY <1>1
<1>3. Tail(telling) \in Seq(Changes) /\ Len(Tail(telling)) = L - 1
  BY <1>1
<1> HIDE DEF L
<1>4. ASSUME NEW v \in Workers PROVE Told(v) = (updates - L) + (IF v < w THEN 1 ELSE 0) /\ v \in 1..NumWorkers
  BY DEF Told, ToldOf, L, Workers
<1>5. ASSUME NEW v \in Workers PROVE Told(v)' = (updates - L) + (IF v <= w THEN 1 ELSE 0)
  <2>0. v \in 1..NumWorkers
    BY DEF Workers
  <2>1. CASE w = NumWorkers
    <3>1. turn' = 1 /\ telling' = Tail(telling)
      BY <2>1 DEF NextTurn
    <3>2. Len(telling') = L - 1
      BY <3>1, <1>3
    <3>3. ~(v < 1) /\ v <= w
      BY <2>0, <2>1, <1>1
    <3>4. Told(v)' = (updates - (L - 1)) + 0
      BY <3>1, <3>2, <3>3 DEF Told, ToldOf
    <3> QED BY <3>3, <3>4, <1>1, <1>2
  <2>2. CASE w # NumWorkers
    <3>1. turn' = w + 1 /\ telling' = telling
      BY <2>2 DEF NextTurn
    <3>2. (v < w + 1) <=> (v <= w)
      BY <2>0, <1>1
    <3> QED BY <3>1, <3>2 DEF Told, ToldOf, L
  <2> QED BY <2>1, <2>2
<1>6. Told(w) = updates - L /\ Told(w)' = Told(w) + 1
  <2>1. ~(w < w) /\ w <= w
    BY <1>1
  <2> QED BY <2>1, <1>1, <1>2, <1>4, <1>5
<1>7. ASSUME NEW v \in Workers, v # w PROVE Told(v)' = Told(v)
  <2>1. (v < w) <=> (v <= w)
    BY <1>1, <1>4, <1>7
  <2> QED BY <2>1, <1>4, <1>5
<1>8. w # 1 => Told(1) = Told(w) + 1
  <2>1. w # 1 => 1 < w
    BY <1>1
  <2> QED BY <2>1, <1>1, <1>2, <1>4, <1>6
<1>9. turn' \in Workers /\ telling' \in Seq(Changes) /\ (telling' = telling \/ telling' = Tail(telling))
  BY <1>1, <1>3 DEF NextTurn, Workers
<1> QED BY <1>6, <1>7, <1>8, <1>9 DEF L

-----------------------------------------------------------------------------
(* What is known, one step at a time.                                       *)

\* No change is announced, sent or applied.
Settled ==
  view' = view /\ updates' = updates /\ updating' = updating /\ telling' = telling /\ turn' = turn

\* Nothing comes to or from this worker, and its list stays.
Unaware(v) ==
  /\ sent'[In(v)] = sent[In(v)] /\ got'[In(v)] = got[In(v)]
  /\ v \notin missed' => v \notin missed /\ wview'[v] = wview[v]

\* What such a worker knows stays.
LEMMA KnowsSame ==
  ASSUME NEW v, NEW h, NEW d, Knows(v, h, d), Unaware(v), Told(v)' = Told(v)
  PROVE  Knows(v, h, d)'
<1>1. PICK k \in 0..Told(v) : /\ KnowsOf(sent[In(v)], Len(got[In(v)]), Told(v), d, k)
                              /\ v \notin missed => wview[v] = WithSelf(h[k])
  BY DEF Knows
<1>2. /\ KnowsOf(sent'[In(v)], Len(got'[In(v)]), Told(v)', d, k)
      /\ v \notin missed' => wview'[v] = WithSelf(h[k])
      /\ k \in 0..Told(v)'
  BY <1>1 DEF Unaware
<1> QED BY <1>2 DEF Knows

\* What one worker knows changes.
LEMMA KnownStep ==
  ASSUME Known, Settled, NEW w \in Workers,
         \A v \in Workers : v # w => Unaware(v),
         \A h, d : History(h, d, Told(1)) /\ Knows(w, h, d) => Knows(w, h, d)'
  PROVE  Known'
<1>1. PICK h, d : History(h, d, Told(1)) /\ Place(h, d) /\ \A v \in Workers : Knows(v, h, d)
  BY DEF Known
<1>2. \A v : Told(v)' = Told(v)
  BY DEF Told, Settled
<1>3. History(h, d, Told(1)') /\ Place(h, d)'
  BY <1>1, <1>2 DEF Place, Settled
<1>4. ASSUME NEW v \in Workers PROVE Knows(v, h, d)'
  <2>1. CASE v = w
    BY <2>1, <1>1
  <2>2. CASE v # w
    BY <2>2, <1>1, <1>2, KnowsSame
  <2> QED BY <2>1, <2>2
<1> QED BY <1>3, <1>4 DEF Known

\* No worker learns anything.
LEMMA KnownSame ==
  ASSUME Known, Settled, \A v \in Workers : Unaware(v)
  PROVE  Known'
<1>0. 1 \in Workers
  BY ChannelAssumption DEF Workers
<1>1. \A v : Told(v)' = Told(v)
  BY DEF Told, Settled
<1>2. ASSUME NEW h, NEW d, Knows(1, h, d) PROVE Knows(1, h, d)'
  BY <1>0, <1>1, <1>2, KnowsSame
<1> QED BY <1>0, <1>2, KnownStep

\* What the types say of the messages to a worker.
LEMMA KnownTypes ==
  ASSUME Inv, NEW w \in Workers
  PROVE  /\ Len(telling) <= updates /\ CTypes
         /\ Told(w) \in Nat /\ Told(1) \in Nat /\ Told(w) <= Told(1)
         /\ In(w) \in Queues /\ QTypes /\ Flows(In(w))
         /\ sent[In(w)] \in Seq(Messages) /\ Len(got[In(w)]) \in Nat
         /\ Len(got[In(w)]) <= Len(sent[In(w)])
<1>1. QTypes /\ CTypes /\ In(w) \in Queues /\ Flows(In(w)) /\ Known
  BY QueueFacts DEF Inv
<1>2. sent[In(w)] \in Seq(Messages) /\ Len(got[In(w)]) \in Nat /\ Len(got[In(w)]) <= Len(sent[In(w)])
  BY <1>1, FlowOf, QueuedFacts
<1>3. Len(telling) <= updates
  <2>1. PICK h, d : Place(h, d)
    BY <1>1 DEF Known
  <2>2. Len(telling) <= Len(updating) /\ Len(updating) <= updates
    BY <2>1 DEF Place, PlaceOf
  <2>3. Len(telling) \in Nat /\ Len(updating) \in Nat /\ updates \in Nat
    BY <1>1, ChannelAssumption DEF CTypes
  <2> QED BY <2>2, <2>3
<1>4. Told(w) \in Nat /\ Told(1) \in Nat /\ Told(w) <= Told(1)
  BY <1>1, <1>3, ToldFacts
<1> QED BY <1>1, <1>2, <1>3, <1>4

\* A worker is sent an invocation or an answer.
LEMMA KnownSend ==
  ASSUME Inv, Settled, NEW w \in Workers, NEW m \in Messages, Sending(In(w), m), m.kind # "update",
         wview' = wview, missed' = missed
  PROVE  Known'
<1>1. /\ In(w) \in Queues /\ QTypes /\ (\A q \in Queues : Flows(q)) /\ Known
      /\ sent[In(w)] \in Seq(Messages) /\ Len(got[In(w)]) \in Nat
      /\ Len(got[In(w)]) <= Len(sent[In(w)]) /\ Told(w) \in Nat
  BY KnownTypes DEF Inv
<1>2. sent'[In(w)] \in Seq(Messages) /\ More(sent[In(w)], m, sent'[In(w)]) /\ got' = got
  BY <1>1, FlyingSending DEF Sending
<1>3. Told(w)' = Told(w)
  BY DEF Told, Settled
<1>4. ASSUME NEW v \in Workers, v # w PROVE Unaware(v)
  <2>1. In(v) \in Queues /\ In(v) # In(w)
    BY <1>4, QueueFacts
  <2> QED BY <2>1 DEF Unaware, Sending
<1>5. ASSUME NEW h, NEW d, Knows(w, h, d) PROVE Knows(w, h, d)'
  <2>1. PICK k \in 0..Told(w) : /\ KnowsOf(sent[In(w)], Len(got[In(w)]), Told(w), d, k)
                                /\ w \notin missed => wview[w] = WithSelf(h[k])
    BY <1>5 DEF Knows
  <2>2. KnowsOf(sent'[In(w)], Len(got[In(w)]), Told(w), d, k)
    BY <2>1, <1>1, <1>2, KnowsSend
  <2> QED BY <2>1, <2>2, <1>2, <1>3 DEF Knows
<1> QED BY <1>1, <1>4, <1>5, KnownStep

\* A worker receives a message.
LEMMA KnownTake ==
  ASSUME Inv, Settled, NEW w \in Workers, Taking(In(w)),
         NEW m, m = sent[In(w)][Len(got[In(w)]) + 1],
         \A v \in Workers : v # w => (v \notin missed' => v \notin missed /\ wview'[v] = wview[v]),
         w \notin missed' => w \notin missed,
         w \notin missed' /\ m.kind # "update" => wview'[w] = wview[w],
         w \notin missed' /\ m.kind = "update" => wview'[w] = Updated(wview[w], m.data)
  PROVE  Known'
<1> DEFINE s == sent[In(w)]
           c == Len(got[In(w)])
<1>1. /\ In(w) \in Queues /\ Known
      /\ s \in Seq(Messages) /\ c \in Nat /\ Told(w) \in Nat /\ Told(1) \in Nat /\ Told(w) <= Told(1)
  BY KnownTypes DEF Inv
<1>2. c + 1 \in 1..Len(s) /\ sent' = sent /\ Len(got'[In(w)]) = c + 1 /\ m = s[c + 1]
  BY DEF Taking
<1>3. Told(w)' = Told(w)
  BY DEF Told, Settled
<1>4. ASSUME NEW v \in Workers, v # w PROVE Unaware(v)
  <2>1. In(v) \in Queues /\ In(v) # In(w)
    BY <1>4, QueueFacts
  <2> QED BY <1>4, <2>1 DEF Unaware, Taking
<1> HIDE DEF s, c
<1>5. ASSUME NEW h, NEW d, History(h, d, Told(1)), Knows(w, h, d) PROVE Knows(w, h, d)'
  <2>1. PICK k \in 0..Told(w) : KnowsOf(s, c, Told(w), d, k) /\ (w \notin missed => wview[w] = WithSelf(h[k]))
    BY <1>5 DEF Knows, s, c
  <2>2. CASE m.kind # "update"
    <3>1. KnowsOf(s, c + 1, Told(w), d, k)
      BY <2>1, <2>2, <1>1, <1>2, KnowsTake
    <3>2. KnowsOf(sent'[In(w)], Len(got'[In(w)]), Told(w)', d, k) /\ k \in 0..Told(w)'
      BY <3>1, <1>2, <1>3 DEF s
    <3>3. w \notin missed' => wview'[w] = WithSelf(h[k])
      BY <2>1, <2>2
    <3> QED BY <3>2, <3>3 DEF Knows
  <2>3. CASE m.kind = "update"
    <3>1. k + 1 \in 1..Told(w) /\ m.data = d[k + 1] /\ KnowsOf(s, c + 1, Told(w), d, k + 1)
      BY <2>1, <2>3, <1>1, <1>2, KnowsTake
    <3>2. k + 1 \in 0..Told(w)' /\ KnowsOf(sent'[In(w)], Len(got'[In(w)]), Told(w)', d, k + 1)
      BY <3>1, <1>1, <1>2, <1>3 DEF s
    <3>3. k \in 0..Told(1) /\ k + 1 \in 1..Told(1)
      BY <3>1, <1>1
    <3>4. h[k] \in Views /\ d[k + 1] \in Changes /\ h[k + 1] = Updated(h[k], d[k + 1])
      BY <3>3, <1>5 DEF History
    <3>5. Updated(WithSelf(h[k]), d[k + 1]) = WithSelf(h[k + 1])
      BY <3>4, UpdatedFacts
    <3>6. w \notin missed' => wview'[w] = WithSelf(h[k + 1])
      BY <2>1, <2>3, <3>1, <3>5
    <3> QED BY <3>2, <3>6 DEF Knows
  <2> QED BY <2>2, <2>3
<1> QED BY <1>1, <1>4, <1>5, KnownStep

\* The controller begins to announce changes.
LEMMA KnownProcess ==
  ASSUME Inv, NEW us \in Seq(Changes), updating = <<>>, view' = view, updates' = updates + Len(us),
         updating' = us, telling' = us, turn' = 1, sent' = sent, got' = got, wview' = wview, missed' = missed
  PROVE  Known'
<1>1. PICK h, d : History(h, d, Told(1)) /\ Place(h, d) /\ \A w \in Workers : Knows(w, h, d)
  BY DEF Inv, Known
<1>2. updates \in Nat /\ CTypes /\ Len(us) \in Nat
  BY ChannelAssumption DEF Inv, CTypes
<1>3. telling = <<>> /\ view = h[updates]
  <2>1. Len(telling) <= Len(updating) /\ view = h[updates - Len(updating)] /\ Len(updating) = 0
    BY <1>1 DEF Place, PlaceOf
  <2>2. telling \in Seq(Changes) /\ Len(telling) = 0 /\ updates - 0 = updates
    BY <2>1, <1>2 DEF CTypes
  <2> QED BY <2>1, <2>2
<1>4. ASSUME NEW w \in Workers PROVE Told(w) = updates /\ Told(w)' = updates
  <2>1. Told(w) = updates
    BY <1>2, <1>3 DEF Told, ToldOf
  <2>2. ~(w < 1)
    BY DEF Workers
  <2> QED BY <2>1, <2>2, <1>2 DEF Told, ToldOf
<1>5. 1 \in Workers
  BY ChannelAssumption DEF Workers
<1>6. History(h, d, Told(1)')
  BY <1>1, <1>4, <1>5
<1>7. Place(h, d)'
  <2>1. PlaceOf(h, d, view, updates + Len(us), us, us, updates)
    BY <1>2, <1>3, PlaceProcess
  <2> QED BY <2>1, <1>4, <1>5 DEF Place
<1>8. ASSUME NEW w \in Workers PROVE Knows(w, h, d)'
  <2>1. Unaware(w)
    BY DEF Unaware
  <2> QED BY <2>1, <1>1, <1>4, KnowsSame
<1> QED BY <1>6, <1>7, <1>8 DEF Known

\* The controller changes its own list.
LEMMA KnownApply ==
  ASSUME Inv, updating # <<>>, telling = <<>>, view' = Updated(view, Head(updating)), updating' = Tail(updating),
         telling' = telling, turn' = turn, updates' = updates, sent' = sent, got' = got, wview' = wview, missed' = missed
  PROVE  Known'
<1>1. PICK h, d : History(h, d, Told(1)) /\ Place(h, d) /\ \A w \in Workers : Knows(w, h, d)
  BY DEF Inv, Known
<1>2. updates \in Nat /\ CTypes /\ updating \in Seq(Changes)
  BY ChannelAssumption DEF Inv, CTypes
<1>3. ASSUME NEW w PROVE Told(w) = updates /\ Told(w)' = updates
  BY <1>2 DEF Told, ToldOf
<1>4. PlaceOf(h, d, Updated(view, Head(updating)), updates, Tail(updating), <<>>, updates)
  <2>1. History(h, d, updates) /\ PlaceOf(h, d, view, updates, updating, <<>>, updates)
    BY <1>1, <1>3 DEF Place
  <2> QED BY <2>1, <1>2, PlaceApply
<1>5. Place(h, d)' /\ History(h, d, Told(1)')
  BY <1>1, <1>3, <1>4 DEF Place
<1>6. ASSUME NEW w \in Workers PROVE Knows(w, h, d)'
  <2>1. Unaware(w)
    BY DEF Unaware
  <2> QED BY <2>1, <1>1, <1>3, KnowsSame
<1> QED BY <1>5, <1>6 DEF Known

\* The change that is being sent is in the history once a worker was sent it.
LEMMA PlaceHead ==
  ASSUME NEW h, NEW d, NEW v, NEW n \in Nat, NEW u \in Seq(Changes), NEW t \in Seq(Changes), NEW told \in Nat,
         t # <<>>, PlaceOf(h, d, v, n, u, t, told), (n - Len(t)) + 1 <= told
  PROVE  d[(n - Len(t)) + 1] = t[1] /\ u # <<>>
<1> DEFINE L == Len(u)
           T == Len(t)
           i == (L - T) + 1
<1>1. L \in Nat /\ T \in Nat /\ T > 0
  OBVIOUS
<1>2. /\ T <= L /\ L <= n
      /\ \A j \in 1..L : (n - L) + j <= told => u[j] = d[(n - L) + j]
      /\ \A j \in 1..T : t[j] = u[(L - T) + j]
  BY DEF PlaceOf
<1> HIDE DEF L, T
<1>3. 1 \in 1..T /\ i \in 1..L /\ (n - L) + i = (n - T) + 1
  BY <1>1, <1>2
<1>4. t[1] = u[i]
  BY <1>2, <1>3
<1>5. u[i] = d[(n - T) + 1]
  BY <1>2, <1>3 DEF T
<1>6. u # <<>>
  BY <1>1, <1>2 DEF L
<1> QED BY <1>4, <1>5, <1>6 DEF T

\* A worker is sent a change.
LEMMA KnownTell ==
  ASSUME Inv, telling # <<>>, NextTurn, NEW w \in Workers, w = turn, NEW m \in Messages,
         m.kind = "update", m.id = (updates - Len(telling)) + 1, m.data = Head(telling), Sending(In(w), m),
         updates' = updates, view' = view, updating' = updating, wview' = wview, missed' = missed
  PROVE  Known'
<1> DEFINE t == Told(w)
           T == Told(1)
<1>1. PICK h, d : History(h, d, Told(1)) /\ Place(h, d) /\ \A v \in Workers : Knows(v, h, d)
  BY DEF Inv, Known
<1>2. /\ Len(telling) <= updates /\ CTypes /\ t \in Nat /\ T \in Nat /\ t <= T
      /\ In(w) \in Queues /\ QTypes /\ (\A q \in Queues : Flows(q))
      /\ sent[In(w)] \in Seq(Messages) /\ Len(got[In(w)]) \in Nat
      /\ Len(got[In(w)]) <= Len(sent[In(w)])
  BY KnownTypes DEF Inv
<1>3. /\ t = updates - Len(telling) /\ t' = t + 1
      /\ \A v \in Workers : v # w => Told(v)' = Told(v)
      /\ w # 1 => T = t + 1
      /\ telling' \in Seq(Changes) /\ (telling' = telling \/ telling' = Tail(telling))
  BY <1>2, TellFacts
<1>4. 1 \in Workers /\ updates \in Nat /\ updating \in Seq(Changes) /\ telling \in Seq(Changes)
  BY <1>2, ChannelAssumption DEF CTypes, Workers
<1>5. Head(telling) = telling[1] /\ telling[1] \in Changes
  <2>1. 1 \in 1..Len(telling)
    BY <1>4
  <2> QED BY <2>1, <1>4
<1>6. PlaceOf(h, d, view, updates, updating, telling, T)
  BY <1>1 DEF Place
<1>7. \E h1, d1 : /\ History(h1, d1, T')
                  /\ d1[t + 1] = telling[1]
                  /\ \A i \in 0..T : h1[i] = h[i]
                  /\ \A i \in 1..T : d1[i] = d[i]
                  /\ T' = T \/ (T = t /\ T' = T + 1)
  <2>1. CASE w = 1
    <3>1. T = t /\ T' = T + 1
      BY <2>1, <1>3
    <3>2. History(h, d, T)
      BY <1>1
    <3> HIDE DEF t, T
    <3>3. \E h1, d1 : /\ History(h1, d1, T + 1)
                      /\ d1[T + 1] = telling[1]
                      /\ \A i \in 0..T : h1[i] = h[i]
                      /\ \A i \in 1..T : d1[i] = d[i]
      BY <3>2, <1>2, <1>5, HistoryMore
    <3> QED BY <3>1, <3>3
  <2>2. CASE w # 1
    <3>1. T = t + 1 /\ T' = T
      BY <2>2, <1>3, <1>4
    <3>2. d[t + 1] = telling[1]
      <4>1. (updates - Len(telling)) + 1 <= T
        BY <3>1, <1>2, <1>3
      <4>2. d[(updates - Len(telling)) + 1] = telling[1]
        BY <4>1, <1>2, <1>4, <1>6, PlaceHead
      <4> QED BY <4>2, <1>3
    <3>3. History(h, d, T')
      BY <3>1, <1>1
    <3> QED BY <3>1, <3>2, <3>3
  <2> QED BY <2>1, <2>2
<1>8. PICK h1, d1 : /\ History(h1, d1, T')
                    /\ d1[t + 1] = telling[1]
                    /\ \A i \in 0..T : h1[i] = h[i]
                    /\ \A i \in 1..T : d1[i] = d[i]
                    /\ T' = T \/ (T = t /\ T' = T + 1)
  BY <1>7
<1>9. Place(h1, d1)'
  <2> DEFINE T1 == T'
             y == telling'
  <2>1. /\ T1 \in Nat /\ updates - Len(telling) <= T
        /\ T1 = T \/ (T = updates - Len(telling) /\ T1 = T + 1 /\ d1[T + 1] = telling[1])
        /\ y \in Seq(Changes) /\ (y = telling \/ y = Tail(telling))
    BY <1>2, <1>3, <1>8
  <2> HIDE DEF T, t, T1, y
  <2>2. T \in Nat /\ (\A i \in 0..T : h1[i] = h[i]) /\ (\A i \in 1..T : d1[i] = d[i])
    BY <1>2, <1>8
  <2>3. PlaceOf(h1, d1, view, updates, updating, y, T1)
    BY <2>1, <2>2, <1>4, <1>6, PlaceTell
  <2> QED BY <2>3 DEF Place, T, T1, y
<1>10. ASSUME NEW v \in Workers PROVE Knows(v, h1, d1)'
  <2>0. Told(v) \in Nat /\ Told(v) <= T
    BY KnownTypes
  <2>1. PICK k \in 0..Told(v) : /\ KnowsOf(sent[In(v)], Len(got[In(v)]), Told(v), d, k)
                                /\ v \notin missed => wview[v] = WithSelf(h[k])
    BY <1>1 DEF Knows
  <2>2. k \in 0..T /\ \A i \in 1..Told(v) : d1[i] = d[i]
    BY <2>0, <1>2, <1>8
  <2>3. v \notin missed' => wview'[v] = WithSelf(h1[k])
    BY <2>1, <2>2, <1>8
  <2>4. got' = got
    BY DEF Sending
  <2>5. CASE v # w
    <3>1. sent'[In(v)] = sent[In(v)]
      <4>1. In(v) \in Queues /\ In(v) # In(w)
        BY <2>5, QueueFacts
      <4> QED BY <4>1 DEF Sending
    <3>2. KnowsOf(sent[In(v)], Len(got[In(v)]), Told(v), d1, k)
      BY <2>0, <2>1, <2>2, KnowsGrow
    <3>3. Told(v)' = Told(v)
      BY <2>5, <1>3
    <3> QED BY <2>1, <2>3, <2>4, <3>1, <3>2, <3>3 DEF Knows
  <2>6. CASE v = w
    <3>1. sent'[In(w)] \in Seq(Messages) /\ More(sent[In(w)], m, sent'[In(w)])
      BY <1>2, FlyingSending
    <3>2. m.id = t + 1 /\ m.data = d1[t + 1]
      BY <1>3, <1>5, <1>8
    <3>3. KnowsOf(sent[In(w)], Len(got[In(w)]), t, d, k) /\ \A i \in 1..t : d1[i] = d[i]
      BY <2>1, <2>2, <2>6
    <3>4. t \in Nat /\ k \in 0..t
      BY <2>0, <2>6
    <3>5. KnowsOf(sent'[In(w)], Len(got[In(w)]), t + 1, d1, k)
      <4> HIDE DEF t, T
      <4> QED BY <3>1, <3>2, <3>3, <3>4, <1>2, KnowsTell
    <3>6. KnowsOf(sent'[In(v)], Len(got'[In(v)]), Told(v)', d1, k)
      BY <2>4, <2>6, <3>5, <1>3
    <3>7. k \in 0..Told(v)'
      <4>1. Told(v)' = t + 1
        BY <2>6, <1>3
      <4> HIDE DEF t
      <4> QED BY <3>4, <4>1
    <3> QED BY <2>3, <3>6, <3>7 DEF Knows
  <2> QED BY <2>5, <2>6
<1> QED BY <1>8, <1>9, <1>10 DEF Known

-----------------------------------------------------------------------------
(* The actions.                                                             *)

\* The messages with a payload that controller and workers make are messages.
LEMMA Made ==
  ASSUME NEW len \in Lens
  PROVE  /\ \A id \in 1..MaxInvocs : Message("invoke", id, len, None) \in Messages
         /\ \A id \in 1..MaxInvocs : Message("result", id, len, None) \in Messages
         /\ \A id \in 1..MaxCalls : Message("put", id, len, None) \in Messages
         /\ \A id \in 1..MaxCalls : Message("reply", id, len, None) \in Messages
  BY DEF Messages

\* So are requests that have an answer, and changes of the application.
LEMMA MadeShort ==
  /\ \A id \in 1..MaxCalls : \A len \in Asks[id] : Message("get", id, len, None) \in Messages
  /\ \A id \in 1..MaxUpdates : \A u \in Changes : Message("update", id, 0, u) \in Messages
<1>1. ASSUME NEW id \in 1..MaxCalls, NEW len \in Asks[id] PROVE Message("get", id, len, None) \in Messages
  <2>1. len \in Lens \cup {0}
    BY ChannelAssumption DEF ChannelAssumption
  <2> QED BY <2>1 DEF Messages
<1>2. \A id \in 1..MaxUpdates : \A u \in Changes : Message("update", id, 0, u) \in Messages
  BY DEF Messages
<1> QED BY <1>1, <1>2

\* A queue is cut for good.
LEMMA CutKept ==
  ASSUME WTypes, NEW w \in Workers, phase[w] # "dead", NEW x, phase' = phase \/ phase' = [phase EXCEPT ![w] = x]
  PROVE  \A q \in Queues : Cut(q) => Cut(q)'
<1>1. ASSUME NEW v \in Workers, phase[v] = "dead" PROVE phase'[v] = "dead"
  BY <1>1 DEF WTypes
<1> QED BY <1>1, EveryQueue DEF Cut

\* It stays so if no worker changes what it does.
LEMMA CutSame ==
  ASSUME phase' = phase
  PROVE  \A q \in Queues : Cut(q) => Cut(q)'
  BY DEF Cut

\* No message of this worker starts or ends.
Apart(v) ==
  /\ sent'[In(v)] = sent[In(v)] /\ sent'[Out(v)] = sent[Out(v)]
  /\ got'[In(v)] = got[In(v)] /\ got'[Out(v)] = got[Out(v)]
  /\ sending'[In(v)] # <<>> => sending[In(v)] # <<>>
  /\ sending'[Out(v)] # <<>> => sending[Out(v)] # <<>>

\* Sending and receiving concern one worker.
LEMMA ApartFacts ==
  ASSUME NEW w \in Workers, NEW v \in Workers, v # w, NEW c \in Queues, c = In(w) \/ c = Out(w)
  PROVE  /\ \A m : Sending(c, m) => Apart(v)
         /\ Taking(c) => Apart(v)
<1>1. In(v) \in Queues /\ Out(v) \in Queues /\ In(v) # c /\ Out(v) # c
  BY QueueFacts
<1>2. ASSUME NEW m, Sending(c, m) PROVE Apart(v)
  BY <1>1, <1>2 DEF Apart, Sending
<1>3. ASSUME Taking(c) PROVE Apart(v)
  BY <1>1, <1>3 DEF Apart, Taking
<1> QED BY <1>2, <1>3

\* The message of a step that starts at the controller, or at a worker.
LEMMA SendsIn ==
  ASSUME Inv, NEW w \in Workers, NEW m \in Messages, sending[In(w)] = <<>>, Start(In(w), m), phase' = phase
  PROVE  QTypes' /\ (\A q \in Queues : Flows(q)') /\ Sending(In(w), m)
<1>1. QTypes /\ (\A q \in Queues : Flows(q)) /\ In(w) \in Queues
  BY QueueFacts DEF Inv
<1>2. ~Cut(In(w))
  BY QueueFacts DEF Cut
<1>3. \A q \in Queues : Cut(q) => Cut(q)'
  BY CutSame
<1> QED BY <1>1, <1>2, <1>3, StartStep

\* The worker that sends is alive.
LEMMA SendsOut ==
  ASSUME Inv, NEW w \in Workers, NEW m \in Messages, sending[Out(w)] = <<>>, Start(Out(w), m), phase[w] = "run",
         NEW x, phase' = phase \/ phase' = [phase EXCEPT ![w] = x]
  PROVE  QTypes' /\ (\A q \in Queues : Flows(q)') /\ Sending(Out(w), m)
<1>1. QTypes /\ WTypes /\ (\A q \in Queues : Flows(q)) /\ Out(w) \in Queues
  BY QueueFacts DEF Inv
<1>2. ~Cut(Out(w))
  BY QueueFacts DEF Cut
<1>3. \A q \in Queues : Cut(q) => Cut(q)'
  BY <1>1, CutKept
<1> QED BY <1>1, <1>2, <1>3, StartStep

\* One worker is concerned, the others idle.
LEMMA LocalAll ==
  ASSUME Inv, WTypes', NEW w \in Workers, Local(w)', \A v \in Workers : v # w => Idle(v)
  PROVE  \A v \in Workers : Local(v)'
<1>1. QTypes /\ calls \in Nat /\ calls' \in Nat
  BY ChannelAssumption DEF Inv, WTypes
<1>2. ASSUME NEW v \in Workers PROVE Local(v)'
  <2>1. CASE v = w
    BY <2>1
  <2>2. CASE v # w
    <3>1. Local(v) /\ Idle(v)
      BY <2>2 DEF Inv
    <3> QED BY <3>1, <1>1, LocalIdle
  <2> QED BY <2>1, <2>2
<1> QED BY <1>2

\* Workers::submit.
LEMMA SubmitInv ==
  ASSUME Inv, NEW w \in Workers, NEW len \in Lens, Submit(w, len)
  PROVE  Inv'
<1> DEFINE m == Message("invoke", invocs + 1, len, None)
<1>1. /\ sending[In(w)] = <<>> /\ invocs < MaxInvocs /\ ~busy[w]
      /\ busy' = [busy EXCEPT ![w] = TRUE] /\ invocs' = invocs + 1
      /\ Start(In(w), m)
      /\ asked' = asked /\ Settled /\ worker' = worker
  BY DEF Submit, AtPoll, Sent, Settled
<1>2. /\ phase' = phase /\ running' = running /\ waiting' = waiting /\ wview' = wview /\ calls' = calls
      /\ lacking' = lacking /\ missed' = missed /\ spoilt' = spoilt
  BY <1>1 DEF worker
<1>3. QTypes /\ CTypes /\ WTypes /\ Known /\ spoilt \subseteq missed
  BY DEF Inv
<1>4. invocs \in Nat /\ invocs + 1 \in 1..MaxInvocs /\ invocs + 1 \in 0..MaxInvocs
  BY <1>1, <1>3, ChannelAssumption DEF CTypes
<1>5. m \in Messages /\ m.kind = "invoke"
  BY <1>4, Made DEF Message
<1> HIDE DEF m
<1>6. QTypes' /\ (\A q \in Queues : Flows(q)') /\ Sending(In(w), m)
  BY <1>1, <1>2, <1>5, SendsIn
<1>7. WTypes'
  BY <1>2, <1>3 DEF WTypes
<1>8. CTypes'
  BY <1>1, <1>2, <1>3, <1>4 DEF CTypes, Settled
<1>9. busy'[w] = TRUE /\ \A v \in Workers : v # w => busy'[v] = busy[v]
  BY <1>1, <1>3 DEF CTypes
<1>10. Local(w)'
  BY <1>1, <1>2, <1>5, <1>6, <1>9, LocalSendIn
<1>11. ASSUME NEW v \in Workers, v # w PROVE Idle(v)
  <2>1. Apart(v)
    BY <1>6, <1>11, QueueFacts, ApartFacts
  <2>2. calls <= calls'
    BY <1>2, <1>3, ChannelAssumption DEF WTypes
  <2> QED BY <2>1, <2>2, <1>1, <1>2, <1>9, <1>11 DEF Idle, Apart, Settled
<1>12. \A v \in Workers : Local(v)'
  BY <1>7, <1>10, <1>11, LocalAll
<1>13. Known'
  BY <1>1, <1>2, <1>5, <1>6, KnownSend
<1> QED BY <1>2, <1>3, <1>6, <1>7, <1>8, <1>12, <1>13 DEF Inv

\* The answer to a get.
LEMMA ReplyInv ==
  ASSUME Inv, NEW w \in Workers, NEW id \in asked[w], NEW len \in Lens, Reply(w, id, len)
  PROVE  Inv'
<1> DEFINE m == Message("reply", id, len, None)
<1>1. /\ sending[In(w)] = <<>>
      /\ asked' = [asked EXCEPT ![w] = asked[w] \ {id}]
      /\ Start(In(w), m)
      /\ busy' = busy /\ invocs' = invocs /\ Settled /\ worker' = worker
  BY DEF Reply, AtPoll, Sent, Settled
<1>2. /\ phase' = phase /\ running' = running /\ waiting' = waiting /\ wview' = wview /\ calls' = calls
      /\ lacking' = lacking /\ missed' = missed /\ spoilt' = spoilt
  BY <1>1 DEF worker
<1>3. QTypes /\ CTypes /\ WTypes /\ Known /\ spoilt \subseteq missed
  BY DEF Inv
<1>4. asked[w] \subseteq 1..calls /\ calls \in Nat /\ id \in 1..MaxCalls
  BY <1>3, ChannelAssumption DEF CTypes, WTypes
<1>5. m \in Messages /\ m.kind = "reply" /\ m.id = id
  BY <1>4, Made DEF Message
<1> HIDE DEF m
<1>6. QTypes' /\ (\A q \in Queues : Flows(q)') /\ Sending(In(w), m)
  BY <1>1, <1>2, <1>5, SendsIn
<1>7. WTypes'
  BY <1>2, <1>3 DEF WTypes
<1>8. CTypes'
  BY <1>1, <1>2, <1>3, <1>4 DEF CTypes, Settled
<1>9. asked'[w] = asked[w] \ {id} /\ \A v \in Workers : v # w => asked'[v] = asked[v]
  BY <1>1, <1>3 DEF CTypes
<1>10. Local(w)'
  BY <1>1, <1>2, <1>5, <1>6, <1>9, LocalSendIn
<1>11. ASSUME NEW v \in Workers, v # w PROVE Idle(v)
  <2>1. Apart(v)
    BY <1>6, <1>11, QueueFacts, ApartFacts
  <2>2. calls <= calls'
    BY <1>2, <1>4
  <2> QED BY <2>1, <2>2, <1>1, <1>2, <1>9, <1>11 DEF Idle, Apart, Settled
<1>12. \A v \in Workers : Local(v)'
  BY <1>7, <1>10, <1>11, LocalAll
<1>13. Known'
  BY <1>1, <1>2, <1>5, <1>6, KnownSend
<1> QED BY <1>2, <1>3, <1>6, <1>7, <1>8, <1>12, <1>13 DEF Inv

\* All workers idle.
LEMMA LocalSame ==
  ASSUME Inv, WTypes', \A v \in Workers : Idle(v)
  PROVE  \A v \in Workers : Local(v)'
<1>1. 1 \in Workers /\ Local(1) /\ Idle(1) /\ QTypes /\ calls \in Nat /\ calls' \in Nat
  BY ChannelAssumption DEF Inv, WTypes, Workers
<1>2. Local(1)'
  BY <1>1, LocalIdle
<1> QED BY <1>1, <1>2, LocalAll

\* _process_application_updates begins.
LEMMA ProcessUpdatesInv ==
  ASSUME Inv, NEW n \in 1..(MaxUpdates - updates), NEW us \in [1..n -> Changes], ProcessUpdates(us)
  PROVE  Inv'
<1>1. /\ updating = <<>> /\ updates' = updates + Len(us) /\ updating' = us /\ telling' = us /\ turn' = 1
      /\ queue' = queue /\ partial' = partial /\ sending' = sending /\ sent' = sent /\ got' = got
      /\ busy' = busy /\ asked' = asked /\ view' = view /\ invocs' = invocs /\ worker' = worker
  BY DEF ProcessUpdates, AtPoll
<1>2. /\ phase' = phase /\ running' = running /\ waiting' = waiting /\ wview' = wview /\ calls' = calls
      /\ lacking' = lacking /\ missed' = missed /\ spoilt' = spoilt
  BY <1>1 DEF worker
<1>3. QTypes /\ CTypes /\ WTypes /\ Known /\ spoilt \subseteq missed /\ (\A q \in Queues : Flows(q))
  BY DEF Inv
<1>4. updates \in Nat /\ MaxUpdates \in Nat /\ n \in Nat /\ n > 0 /\ updates + n \in 0..MaxUpdates /\ 1 \in Workers
  BY <1>3, ChannelAssumption DEF CTypes, Workers
<1>5. us \in Seq(Changes) /\ Len(us) = n /\ us # <<>>
  BY <1>4
<1>6. QTypes' /\ (\A q \in Queues : Flows(q)')
  BY <1>1, <1>2, <1>3, CutSame, QueuesSame
<1>7. WTypes'
  BY <1>2, <1>3 DEF WTypes
<1>8. CTypes'
  BY <1>1, <1>2, <1>3, <1>4, <1>5 DEF CTypes
<1>9. ASSUME NEW v \in Workers PROVE Idle(v)
  <2>1. calls <= calls'
    BY <1>2, <1>3, ChannelAssumption DEF WTypes
  <2> QED BY <2>1, <1>1, <1>2, <1>5 DEF Idle
<1>10. \A v \in Workers : Local(v)'
  BY <1>7, <1>9, LocalSame
<1>11. Known'
  BY <1>1, <1>2, <1>5, KnownProcess
<1> QED BY <1>2, <1>3, <1>6, <1>7, <1>8, <1>10, <1>11 DEF Inv

\* The controller changes its own list.
LEMMA ApplyUpdateInv ==
  ASSUME Inv, ApplyUpdate
  PROVE  Inv'
<1>1. /\ updating # <<>> /\ telling = <<>> /\ view' = Updated(view, Head(updating)) /\ updating' = Tail(updating)
      /\ queue' = queue /\ partial' = partial /\ sending' = sending /\ sent' = sent /\ got' = got
      /\ busy' = busy /\ asked' = asked /\ telling' = telling /\ turn' = turn /\ invocs' = invocs /\ updates' = updates
      /\ worker' = worker /\ \A w \in Workers : sending[In(w)] = <<>>
  BY DEF ApplyUpdate, Sent
<1>2. /\ phase' = phase /\ running' = running /\ waiting' = waiting /\ wview' = wview /\ calls' = calls
      /\ lacking' = lacking /\ missed' = missed /\ spoilt' = spoilt
  BY <1>1 DEF worker
<1>3. QTypes /\ CTypes /\ WTypes /\ Known /\ spoilt \subseteq missed /\ (\A q \in Queues : Flows(q))
  BY DEF Inv
<1>4. view \in Views /\ updating \in Seq(Changes)
  BY <1>3 DEF CTypes
<1>5. Head(updating) \in Changes /\ Tail(updating) \in Seq(Changes)
  BY <1>1, <1>4
<1>6. Updated(view, Head(updating)) \in Views
  BY <1>4, <1>5, UpdatedFacts
<1>7. QTypes' /\ (\A q \in Queues : Flows(q)')
  BY <1>1, <1>2, <1>3, CutSame, QueuesSame
<1>8. WTypes'
  BY <1>2, <1>3 DEF WTypes
<1>9. CTypes'
  BY <1>1, <1>2, <1>3, <1>5, <1>6 DEF CTypes
<1>10. ASSUME NEW v \in Workers PROVE Idle(v)
  <2>1. calls <= calls'
    BY <1>2, <1>3, ChannelAssumption DEF WTypes
  <2> QED BY <2>1, <1>1, <1>2 DEF Idle
<1>11. \A v \in Workers : Local(v)'
  BY <1>8, <1>10, LocalSame
<1>12. Known'
  BY <1>1, <1>2, KnownApply
<1> QED BY <1>2, <1>3, <1>7, <1>8, <1>9, <1>11, <1>12 DEF Inv

\* A change is sent to the next worker.
LEMMA TellWorkerInv ==
  ASSUME Inv, TellWorker
  PROVE  Inv'
<1>0. turn \in Workers
  BY DEF Inv, CTypes
<1>a. PICK w \in Workers : w = turn
  BY <1>0
<1> DEFINE m == Message("update", (updates - Len(telling)) + 1, 0, Head(telling))
<1>1. /\ telling # <<>> /\ sending[In(w)] = <<>> /\ Start(In(w), m) /\ NextTurn
      /\ busy' = busy /\ asked' = asked /\ view' = view /\ updating' = updating /\ invocs' = invocs /\ updates' = updates
      /\ worker' = worker
  BY <1>a DEF TellWorker, Sent
<1>2. /\ phase' = phase /\ running' = running /\ waiting' = waiting /\ wview' = wview /\ calls' = calls
      /\ lacking' = lacking /\ missed' = missed /\ spoilt' = spoilt
  BY <1>1 DEF worker
<1>3. QTypes /\ CTypes /\ WTypes /\ Known /\ spoilt \subseteq missed /\ Len(telling) <= updates
  BY KnownTypes DEF Inv
<1>4. /\ telling \in Seq(Changes) /\ updating \in Seq(Changes) /\ updates \in Nat /\ updates <= MaxUpdates
      /\ MaxUpdates \in Nat
  BY <1>3, ChannelAssumption DEF CTypes
<1>5. Head(telling) \in Changes /\ Len(telling) \in Nat /\ Len(telling) > 0
  BY <1>1, <1>4
<1>6. (updates - Len(telling)) + 1 \in 1..MaxUpdates
  BY <1>3, <1>4, <1>5
<1>7. m \in Messages
  BY <1>5, <1>6, MadeShort
<1>8. m.kind = "update" /\ m.id = (updates - Len(telling)) + 1 /\ m.data = Head(telling)
  BY DEF Message
<1>9. updating # <<>>
  <2>1. PICK h, d : Place(h, d)
    BY <1>3 DEF Known
  <2>2. Len(telling) <= Len(updating) /\ Len(updating) \in Nat
    BY <2>1, <1>4 DEF Place, PlaceOf
  <2> QED BY <2>2, <1>5
<1> HIDE DEF m
<1>10. QTypes' /\ (\A q \in Queues : Flows(q)') /\ Sending(In(w), m)
  BY <1>1, <1>2, <1>7, SendsIn
<1>11. WTypes'
  BY <1>2, <1>3 DEF WTypes
<1>12. turn' \in Workers /\ telling' \in Seq(Changes)
  BY <1>a, <1>1, <1>3, TellFacts
<1>13. CTypes'
  BY <1>1, <1>2, <1>3, <1>12 DEF CTypes
<1>14. Local(w)'
  BY <1>1, <1>2, <1>7, <1>8, <1>9, <1>10, LocalSendIn
<1>15. ASSUME NEW v \in Workers, v # w PROVE Idle(v)
  <2>1. Apart(v)
    BY <1>10, <1>15, QueueFacts, ApartFacts
  <2>2. calls <= calls'
    BY <1>2, <1>3, ChannelAssumption DEF WTypes
  <2> QED BY <2>1, <2>2, <1>1, <1>2 DEF Idle, Apart
<1>16. \A v \in Workers : Local(v)'
  BY <1>11, <1>14, <1>15, LocalAll
<1>17. Known'
  BY <1>a, <1>1, <1>2, <1>7, <1>8, <1>10, KnownTell
<1> QED BY <1>2, <1>3, <1>10, <1>11, <1>13, <1>16, <1>17 DEF Inv

\* A piece is put into a queue, or read and is not the last.
LEMMA PieceInv ==
  ASSUME Inv, controller' = controller, worker' = worker, QTypes', \A q \in Queues : Flows(q)',
         sent' = sent, got' = got, \A q \in Queues : sending'[q] # <<>> => sending[q] # <<>>
  PROVE  Inv'
<1>1. /\ busy' = busy /\ asked' = asked /\ invocs' = invocs /\ Settled
      /\ view' = view /\ updating' = updating /\ telling' = telling /\ turn' = turn /\ updates' = updates
      /\ phase' = phase /\ running' = running /\ waiting' = waiting /\ wview' = wview /\ calls' = calls
      /\ lacking' = lacking /\ missed' = missed /\ spoilt' = spoilt
  BY DEF controller, worker, Settled
<1>2. CTypes /\ WTypes /\ Known /\ spoilt \subseteq missed
  BY DEF Inv
<1>3. CTypes'
  BY <1>1, <1>2 DEF CTypes
<1>4. WTypes'
  BY <1>1, <1>2 DEF WTypes
<1>5. ASSUME NEW v \in Workers PROVE Idle(v)
  <2>1. In(v) \in Queues /\ Out(v) \in Queues
    BY QueueFacts
  <2>2. calls <= calls'
    BY <1>1, <1>2, ChannelAssumption DEF WTypes
  <2> QED BY <2>1, <2>2, <1>1 DEF Idle
<1>6. \A v \in Workers : Local(v)'
  BY <1>4, <1>5, LocalSame
<1>7. Known'
  <2>1. \A v \in Workers : Unaware(v)
    BY <1>1 DEF Unaware
  <2> QED BY <2>1, <1>1, <1>2, KnownSame
<1> QED BY <1>1, <1>2, <1>3, <1>4, <1>6, <1>7 DEF Inv

\* _send of either end.
LEMMA SendInv ==
  ASSUME Inv, NEW w \in Workers, ControllerSend(w) \/ WorkerSend(w)
  PROVE  Inv'
<1>1. PICK c \in Queues : PutPiece(c) /\ controller' = controller /\ worker' = worker
  BY QueueFacts DEF ControllerSend, WorkerSend
<1>2. QTypes /\ (\A q \in Queues : Flows(q)) /\ (\A q \in Queues : Cut(q) => Cut(q)')
  BY <1>1, CutSame DEF Inv, worker
<1>3. /\ QTypes' /\ (\A q \in Queues : Flows(q)')
      /\ sent' = sent /\ got' = got
      /\ \A q \in Queues : sending'[q] # <<>> => sending[q] # <<>>
  BY <1>1, <1>2, PutStep
<1> QED BY <1>1, <1>3, PieceInv

\* A worker reads part of a message.
LEMMA ReadPartInv ==
  ASSUME Inv, NEW w \in Workers, ReadPart(w)
  PROVE  Inv'
<1>1. /\ TakePiece(In(w), Read(In(w))) /\ ~Complete(Read(In(w))) /\ controller' = controller /\ worker' = worker
      /\ In(w) \in Queues
  BY QueueFacts DEF ReadPart
<1>2. QTypes /\ (\A q \in Queues : Flows(q)) /\ (\A q \in Queues : Cut(q) => Cut(q)')
  BY <1>1, CutSame DEF Inv, worker
<1>3. QTypes' /\ (\A q \in Queues : Flows(q)') /\ sent' = sent /\ got' = got /\ sending' = sending
  BY <1>1, <1>2, PartStep
<1> QED BY <1>1, <1>3, PieceInv

\* The message a step takes from a queue.
LEMMA Takes ==
  ASSUME Inv, NEW c \in Queues, TakePiece(c, Read(c)), Complete(Read(c)), \A q \in Queues : Cut(q) => Cut(q)'
  PROVE  /\ QTypes' /\ (\A q \in Queues : Flows(q)') /\ Taking(c)
         /\ Read(c)[1].msg = sent[c][Len(got[c]) + 1]
         /\ Read(c)[1].msg \in Messages
         /\ Len(got[c]) + 1 \in 1..Len(sent[c])
<1>1. QTypes /\ (\A q \in Queues : Flows(q))
  BY DEF Inv
<1>2. QTypes' /\ (\A q \in Queues : Flows(q)') /\ Taking(c) /\ Read(c)[1].msg = sent[c][Len(got[c]) + 1]
  BY <1>1, WholeStep
<1>3. Len(got[c]) + 1 \in 1..Len(sent[c]) /\ sent[c] \in Seq(Messages)
  BY <1>1, <1>2, FlowOf DEF Taking
<1>4. sent[c][Len(got[c]) + 1] \in Messages
  BY <1>3
<1> QED BY <1>2, <1>3, <1>4

\* The controller reads a piece, perhaps the last one of a message.
LEMMA ControllerReceiveInv ==
  ASSUME Inv, NEW w \in Workers, ControllerReceive(w)
  PROVE  Inv'
<1> DEFINE s == Read(Out(w))
           m == s[1].msg
<1>1. /\ TakePiece(Out(w), s)
      /\ busy' = IF Complete(s) /\ m.kind = "result" THEN [busy EXCEPT ![w] = FALSE] ELSE busy
      /\ asked' = IF Complete(s) /\ m.kind = "get" THEN [asked EXCEPT ![w] = asked[w] \cup {m.id}] ELSE asked
      /\ invocs' = invocs /\ Settled /\ worker' = worker
      /\ view' = view /\ updating' = updating /\ telling' = telling /\ turn' = turn /\ updates' = updates
  BY DEF ControllerReceive, Settled
<1>2. /\ phase' = phase /\ running' = running /\ waiting' = waiting /\ wview' = wview /\ calls' = calls
      /\ lacking' = lacking /\ missed' = missed /\ spoilt' = spoilt
  BY <1>1 DEF worker
<1>3. QTypes /\ CTypes /\ WTypes /\ Known /\ spoilt \subseteq missed /\ (\A q \in Queues : Flows(q))
  BY DEF Inv
<1>4. Out(w) \in Queues /\ \A q \in Queues : Cut(q) => Cut(q)'
  BY <1>2, QueueFacts, CutSame
<1>5. CASE ~Complete(s)
  <2>1. QTypes' /\ (\A q \in Queues : Flows(q)') /\ sent' = sent /\ got' = got /\ sending' = sending
    BY <1>1, <1>3, <1>4, <1>5, PartStep
  <2>2. controller' = controller
    BY <1>1, <1>5 DEF controller
  <2> QED BY <2>1, <2>2, <1>1, PieceInv
<1>6. CASE Complete(s)
  <2>1. /\ QTypes' /\ (\A q \in Queues : Flows(q)') /\ Taking(Out(w))
        /\ m = sent[Out(w)][Len(got[Out(w)]) + 1] /\ m \in Messages
        /\ Len(got[Out(w)]) + 1 \in 1..Len(sent[Out(w)])
    BY <1>1, <1>4, <1>6, Takes
  <2>2. m.kind = "get" => m.id <= calls
    BY <2>1 DEF Inv, Local, Carried, Carries
  <2>3. m.kind = "get" => m.id \in 1..MaxCalls
    BY <2>1, MessageFacts
  <2>4. m.kind = "get" => m.id \in 1..calls
    BY <2>2, <2>3, <1>3 DEF WTypes
  <2>5. /\ busy' = IF m.kind = "result" THEN [busy EXCEPT ![w] = FALSE] ELSE busy
        /\ asked' = IF m.kind = "get" THEN [asked EXCEPT ![w] = asked[w] \cup {m.id}] ELSE asked
    BY <1>1, <1>6
  <2> HIDE DEF m, s
  <2>6. busy \in [Workers -> BOOLEAN] /\ asked \in [Workers -> SUBSET (1..calls)]
    BY <1>3 DEF CTypes
  <2>7. /\ m.kind = "result" => busy'[w] = FALSE
        /\ m.kind # "result" => busy'[w] = busy[w]
        /\ \A v \in Workers : v # w => busy'[v] = busy[v]
    BY <2>5, <2>6
  <2>8. /\ m.kind = "get" => asked'[w] = asked[w] \cup {m.id}
        /\ m.kind # "get" => asked'[w] = asked[w]
        /\ \A v \in Workers : v # w => asked'[v] = asked[v]
    BY <2>5, <2>6
  <2>9. busy' \in [Workers -> BOOLEAN] /\ asked' \in [Workers -> SUBSET (1..calls)]
    BY <2>4, <2>5, <2>6
  <2>10. CTypes'
    BY <2>9, <1>1, <1>2, <1>3 DEF CTypes
  <2>11. WTypes'
    BY <1>2, <1>3 DEF WTypes
  <2>12. Local(w)'
    BY <2>1, <2>7, <2>8, <1>1, <1>2, LocalTakeOut
  <2>13. ASSUME NEW v \in Workers, v # w PROVE Idle(v)
    <3>1. Apart(v)
      BY <2>1, <2>13, QueueFacts, ApartFacts
    <3>2. calls <= calls'
      BY <1>2, <1>3, ChannelAssumption DEF WTypes
    <3> QED BY <3>1, <3>2, <2>7, <2>8, <2>13, <1>1, <1>2 DEF Idle, Apart
  <2>14. \A v \in Workers : Local(v)'
    BY <2>11, <2>12, <2>13, LocalAll
  <2>15. ASSUME NEW v \in Workers PROVE Unaware(v)
    <3>1. In(v) \in Queues /\ In(v) # Out(w)
      BY QueueFacts
    <3> QED BY <2>1, <3>1, <1>2 DEF Unaware, Taking
  <2>16. Known'
    BY <2>15, <1>1, <1>3, KnownSame
  <2> QED BY <2>1, <2>10, <2>11, <2>14, <2>16, <1>2, <1>3 DEF Inv
<1> QED BY <1>5, <1>6

\* A worker has a message of the controller.
LEMMA ReadInv ==
  ASSUME Inv, NEW w \in Workers, NEW m, m = Read(In(w))[1].msg,
         TakePiece(In(w), Read(In(w))), Complete(Read(In(w))), sending[Out(w)] = <<>>,
         NEW does, does = phase[w], does \in {"poll", "wait"},
         NEW x \in {"poll", "run"}, phase' = phase \/ phase' = [phase EXCEPT ![w] = x],
         does = "poll" /\ phase'[w] # "poll" => m.kind = "invoke" /\ phase'[w] = "run" /\ running'[w] = m.id,
         does = "poll" /\ phase'[w] = "poll" => running'[w] = running[w],
         does = "poll" => waiting'[w] = waiting[w] /\ missed' = missed /\ spoilt' = spoilt,
         does = "wait" => phase'[w] = "run" /\ waiting'[w] = 0 /\ running'[w] = running[w],
         does = "wait" /\ m.kind = "update" => w \in missed',
         does = "wait" /\ m.kind = "reply" /\ m.id = waiting[w] => spoilt' = spoilt,
         does = "poll" /\ m.kind = "update" => wview'[w] = Updated(wview[w], m.data),
         m.kind # "update" => wview'[w] = wview[w],
         WTypes', \A v \in Workers : v # w => wview'[v] = wview[v] /\ running'[v] = running[v] /\ waiting'[v] = waiting[v],
         missed \subseteq missed', missed' \subseteq missed \cup {w}, spoilt' \subseteq spoilt \cup {w}, calls' = calls,
         controller' = controller
  PROVE  Inv'
<1>1. /\ busy' = busy /\ asked' = asked /\ invocs' = invocs /\ Settled
      /\ view' = view /\ updating' = updating /\ telling' = telling /\ turn' = turn /\ updates' = updates
  BY DEF controller, Settled
<1>2. QTypes /\ CTypes /\ WTypes /\ Known /\ spoilt \subseteq missed /\ In(w) \in Queues
  BY QueueFacts DEF Inv
<1>3. \A q \in Queues : Cut(q) => Cut(q)'
  BY <1>2, CutKept
<1>4. /\ QTypes' /\ (\A q \in Queues : Flows(q)') /\ Taking(In(w))
      /\ m = sent[In(w)][Len(got[In(w)]) + 1] /\ m \in Messages
  BY <1>2, <1>3, Takes
<1>5. m.kind = "invoke" => m.id # 0
  BY <1>4, MessageFacts
<1>6. CTypes'
  BY <1>1, <1>2 DEF CTypes
<1>7. /\ Local(w)'
      /\ does = "wait" /\ w \notin missed' => m.kind = "reply" /\ m.id = waiting[w]
  <2>1. /\ does = "poll" /\ phase'[w] # "poll" => m.kind = "invoke" /\ phase'[w] = "run" /\ running'[w] # 0
        /\ w \in missed => w \in missed'
        /\ does = "poll" => waiting'[w] = waiting[w]
    BY <1>5
  <2> QED BY <2>1, <1>1, <1>4, LocalTakeIn
<1>8. \A v \in Workers : v # w => phase'[v] = phase[v]
  BY <1>2 DEF WTypes
<1>9. ASSUME NEW v \in Workers, v # w PROVE Idle(v)
  <2>1. Apart(v)
    BY <1>4, <1>9, QueueFacts, ApartFacts
  <2>2. calls <= calls'
    BY <1>2, ChannelAssumption DEF WTypes
  <2> QED BY <2>1, <2>2, <1>1, <1>8, <1>9 DEF Idle, Apart
<1>10. \A v \in Workers : Local(v)'
  BY <1>7, <1>9, LocalAll
<1>11. Known'
  <2>1. \A v \in Workers : v # w => (v \notin missed' => v \notin missed /\ wview'[v] = wview[v])
    OBVIOUS
  <2>2. /\ w \notin missed' => w \notin missed
        /\ w \notin missed' /\ m.kind # "update" => wview'[w] = wview[w]
        /\ w \notin missed' /\ m.kind = "update" => wview'[w] = Updated(wview[w], m.data)
    OBVIOUS
  <2> QED BY <2>1, <2>2, <1>1, <1>4, KnownTake
<1>12. spoilt' \subseteq missed'
  <2>1. CASE does = "poll"
    BY <2>1, <1>2
  <2>2. CASE does = "wait" /\ w \notin missed'
    BY <2>2, <1>2, <1>7
  <2>3. CASE w \in missed'
    BY <2>3, <1>2
  <2> QED BY <2>1, <2>2, <2>3
<1> QED BY <1>4, <1>6, <1>10, <1>11, <1>12 DEF Inv

\* An invocation is run.
LEMMA RunFunctionInv ==
  ASSUME Inv, NEW w \in Workers, RunFunction(w)
  PROVE  Inv'
<1> DEFINE m == Read(In(w))[1].msg
<1>1. /\ phase[w] = "poll" /\ sending[Out(w)] = <<>> /\ TakePiece(In(w), Read(In(w))) /\ Complete(Read(In(w)))
      /\ m.kind = "invoke" /\ waiting' = waiting /\ calls' = calls /\ missed' = missed /\ spoilt' = spoilt
      /\ controller' = controller /\ phase' = [phase EXCEPT ![w] = "run"] /\ running' = [running EXCEPT ![w] = m.id]
      /\ wview' = wview /\ lacking' = lacking
  BY DEF RunFunction, Polled
<1>2. WTypes /\ In(w) \in Queues
  BY QueueFacts DEF Inv
<1>3. m \in Messages
  BY <1>1, <1>2, CutKept, Takes
<1>4. m.id \in 0..MaxInvocs
  BY <1>1, <1>3, MessageFacts
<1> HIDE DEF m
<1>5. WTypes'
  BY <1>1, <1>2, <1>4 DEF WTypes
<1>6. /\ phase'[w] = "run" /\ running'[w] = m.id /\ \A v \in Workers : v # w => running'[v] = running[v]
  BY <1>1, <1>2 DEF WTypes
<1> QED BY <1>1, <1>5, <1>6, ReadInv DEF m

\* A function is not found.
LEMMA MissingFunctionInv ==
  ASSUME Inv, NEW w \in Workers, MissingFunction(w)
  PROVE  Inv'
<1> DEFINE m == Read(In(w))[1].msg
<1>1. /\ phase[w] = "poll" /\ sending[Out(w)] = <<>> /\ TakePiece(In(w), Read(In(w))) /\ Complete(Read(In(w)))
      /\ m.kind = "invoke" /\ waiting' = waiting /\ calls' = calls /\ missed' = missed /\ spoilt' = spoilt
      /\ controller' = controller /\ phase' = phase /\ running' = running
      /\ wview' = wview /\ lacking' = lacking \cup {w}
  BY DEF MissingFunction, Polled
<1>2. WTypes
  BY DEF Inv
<1>3. WTypes'
  BY <1>1, <1>2 DEF WTypes
<1> QED BY <1>1, <1>3, ReadInv

\* A worker that polls ignores an answer.
LEMMA IgnoreMessageInv ==
  ASSUME Inv, NEW w \in Workers, IgnoreMessage(w)
  PROVE  Inv'
<1> DEFINE m == Read(In(w))[1].msg
<1>1. /\ phase[w] = "poll" /\ sending[Out(w)] = <<>> /\ TakePiece(In(w), Read(In(w))) /\ Complete(Read(In(w)))
      /\ m.kind = "reply" /\ waiting' = waiting /\ calls' = calls /\ missed' = missed /\ spoilt' = spoilt
      /\ controller' = controller /\ phase' = phase /\ running' = running
      /\ wview' = wview /\ lacking' = lacking
  BY DEF IgnoreMessage, Polled
<1>2. WTypes
  BY DEF Inv
<1>3. WTypes'
  BY <1>1, <1>2 DEF WTypes
<1> QED BY <1>1, <1>3, ReadInv

\* A worker that polls reads a change.
LEMMA NoteUpdateInv ==
  ASSUME Inv, NEW w \in Workers, NoteUpdate(w)
  PROVE  Inv'
<1> DEFINE m == Read(In(w))[1].msg
<1>1. /\ phase[w] = "poll" /\ sending[Out(w)] = <<>> /\ TakePiece(In(w), Read(In(w))) /\ Complete(Read(In(w)))
      /\ m.kind = "update" /\ waiting' = waiting /\ calls' = calls /\ missed' = missed /\ spoilt' = spoilt
      /\ controller' = controller /\ phase' = phase /\ running' = running
      /\ wview' = [wview EXCEPT ![w] = Updated(wview[w], m.data)] /\ lacking' = lacking
  BY DEF NoteUpdate, Polled
<1>2. WTypes /\ In(w) \in Queues
  BY QueueFacts DEF Inv
<1>3. m \in Messages
  BY <1>1, <1>2, CutSame, Takes
<1>4. m.data \in Changes
  BY <1>1, <1>3, MessageFacts
<1> HIDE DEF m
<1>5. Updated(wview[w], m.data) \in Views
  BY <1>2, <1>4, UpdatedFacts DEF WTypes
<1>6. WTypes'
  BY <1>1, <1>2, <1>5 DEF WTypes
<1>7. wview'[w] = Updated(wview[w], m.data) /\ \A v \in Workers : v # w => wview'[v] = wview[v]
  BY <1>1, <1>2 DEF WTypes
<1> QED BY <1>1, <1>6, <1>7, ReadInv DEF m

\* A worker that waits takes what comes for its answer.
LEMMA GetMessageInv ==
  ASSUME Inv, NEW w \in Workers, GetMessage(w)
  PROVE  Inv'
<1> DEFINE m == Read(In(w))[1].msg
<1>1. /\ phase[w] = "wait" /\ sending[Out(w)] = <<>> /\ TakePiece(In(w), Read(In(w))) /\ Complete(Read(In(w)))
      /\ phase' = [phase EXCEPT ![w] = "run"] /\ waiting' = [waiting EXCEPT ![w] = 0]
      /\ missed' = IF m.kind = "update" THEN missed \cup {w} ELSE missed
      /\ spoilt' = IF m.kind = "reply" /\ m.id = waiting[w] THEN spoilt ELSE spoilt \cup {w}
      /\ running' = running /\ wview' = wview /\ calls' = calls /\ lacking' = lacking /\ controller' = controller
  BY DEF GetMessage
<1>2. WTypes
  BY DEF Inv
<1> HIDE DEF m
<1>3. missed' \subseteq Workers /\ spoilt' \subseteq Workers
  BY <1>1, <1>2 DEF WTypes
<1>4. WTypes'
  BY <1>1, <1>2, <1>3, ChannelAssumption DEF WTypes
<1>5. /\ phase'[w] = "run" /\ waiting'[w] = 0 /\ \A v \in Workers : v # w => waiting'[v] = waiting[v]
  BY <1>1, <1>2 DEF WTypes
<1>6. /\ missed \subseteq missed' /\ missed' \subseteq missed \cup {w} /\ spoilt' \subseteq spoilt \cup {w}
      /\ m.kind = "update" => w \in missed'
      /\ m.kind = "reply" /\ m.id = waiting[w] => spoilt' = spoilt
  BY <1>1
<1> QED BY <1>1, <1>4, <1>5, <1>6, ReadInv DEF m

\* A worker starts to send.
LEMMA CallInv ==
  ASSUME Inv, WTypes', NEW w \in Workers, NEW m \in Messages, sending[Out(w)] = <<>>, Start(Out(w), m), phase[w] = "run",
         NEW x, phase' = phase \/ phase' = [phase EXCEPT ![w] = x],
         m.kind \in {"put", "get", "result"},
         m.kind = "put" => phase'[w] = "run" /\ running'[w] = running[w] /\ waiting'[w] = waiting[w],
         m.kind = "get" => phase'[w] = "wait" /\ running'[w] = running[w] /\ waiting'[w] = m.id /\ m.id <= calls',
         m.kind = "result" => phase'[w] = "poll" /\ running'[w] = 0 /\ waiting'[w] = waiting[w],
         \A v \in Workers : v # w => running'[v] = running[v] /\ waiting'[v] = waiting[v],
         calls <= calls', wview' = wview, missed' = missed, spoilt' = spoilt, controller' = controller
  PROVE  Inv'
<1>1. /\ busy' = busy /\ asked' = asked /\ invocs' = invocs /\ Settled
      /\ view' = view /\ updating' = updating /\ telling' = telling /\ turn' = turn /\ updates' = updates
  BY DEF controller, Settled
<1>2. QTypes /\ CTypes /\ WTypes /\ Known /\ spoilt \subseteq missed
  BY DEF Inv
<1>3. calls \in Nat /\ calls' \in Nat
  BY <1>2, ChannelAssumption DEF WTypes
<1>4. QTypes' /\ (\A q \in Queues : Flows(q)') /\ Sending(Out(w), m)
  BY SendsOut
<1>5. CTypes'
  <2>1. \A v \in Workers : asked[v] \subseteq 1..calls
    BY <1>2 DEF CTypes
  <2>2. 1..calls \subseteq 1..calls'
    BY <1>3
  <2>3. asked' \in [Workers -> SUBSET (1..calls')]
    BY <2>1, <2>2, <1>1, <1>2 DEF CTypes
  <2> QED BY <2>3, <1>1, <1>2 DEF CTypes
<1>6. Local(w)'
  BY <1>1, <1>3, <1>4, LocalSendOut
<1>7. \A v \in Workers : v # w => phase'[v] = phase[v]
  BY <1>2 DEF WTypes
<1>8. ASSUME NEW v \in Workers, v # w PROVE Idle(v)
  <2>1. Apart(v)
    BY <1>4, <1>8, QueueFacts, ApartFacts
  <2> QED BY <2>1, <1>1, <1>7, <1>8 DEF Idle, Apart
<1>9. \A v \in Workers : Local(v)'
  BY <1>6, <1>8, LocalAll
<1>10. ASSUME NEW v \in Workers PROVE Unaware(v)
  <2>1. In(v) \in Queues /\ In(v) # Out(w)
    BY QueueFacts
  <2> QED BY <2>1, <1>4 DEF Unaware, Sending
<1>11. Known'
  BY <1>1, <1>2, <1>10, KnownSame
<1> QED BY <1>2, <1>4, <1>5, <1>9, <1>11 DEF Inv

\* Context::put.
LEMMA PutInv ==
  ASSUME Inv, NEW w \in Workers, NEW len \in Lens, Put(w, len)
  PROVE  Inv'
<1> DEFINE m == Message("put", calls + 1, len, None)
<1>1. /\ phase[w] = "run" /\ sending[Out(w)] = <<>> /\ calls < MaxCalls /\ calls' = calls + 1 /\ Start(Out(w), m)
      /\ phase' = phase /\ running' = running /\ waiting' = waiting /\ wview' = wview /\ lacking' = lacking
      /\ missed' = missed /\ spoilt' = spoilt /\ controller' = controller
  BY DEF Put
<1>2. WTypes
  BY DEF Inv
<1>3. calls \in Nat /\ calls + 1 \in 1..MaxCalls /\ calls + 1 \in 0..MaxCalls /\ calls <= calls + 1
  BY <1>1, <1>2, ChannelAssumption DEF WTypes
<1>4. m \in Messages /\ m.kind = "put"
  BY <1>3, Made DEF Message
<1> HIDE DEF m
<1>5. WTypes'
  BY <1>1, <1>2, <1>3 DEF WTypes
<1>6. calls <= calls'
  BY <1>1, <1>3
<1> QED BY <1>1, <1>4, <1>5, <1>6, CallInv

\* Context::get.
LEMMA GetInv ==
  ASSUME Inv, NEW w \in Workers, Get(w)
  PROVE  Inv'
<1>0. PICK len \in Asks[calls + 1] : Start(Out(w), Message("get", calls + 1, len, None))
  BY DEF Get
<1> DEFINE m == Message("get", calls + 1, len, None)
<1>1. /\ phase[w] = "run" /\ sending[Out(w)] = <<>> /\ calls < MaxCalls /\ calls' = calls + 1 /\ Start(Out(w), m)
      /\ phase' = [phase EXCEPT ![w] = "wait"] /\ waiting' = [waiting EXCEPT ![w] = calls + 1]
      /\ running' = running /\ wview' = wview /\ lacking' = lacking
      /\ missed' = missed /\ spoilt' = spoilt /\ controller' = controller
  BY <1>0 DEF Get
<1>2. WTypes
  BY DEF Inv
<1>3. calls \in Nat /\ calls + 1 \in 1..MaxCalls /\ calls + 1 \in 0..MaxCalls /\ calls <= calls + 1
  BY <1>1, <1>2, ChannelAssumption DEF WTypes
<1>4. m \in Messages /\ m.kind = "get" /\ m.id = calls + 1
  BY <1>3, MadeShort DEF Message
<1> HIDE DEF m
<1>5. WTypes'
  BY <1>1, <1>2, <1>3 DEF WTypes
<1>6. calls <= calls' /\ m.id <= calls'
  BY <1>1, <1>3, <1>4
<1>7. phase'[w] = "wait" /\ waiting'[w] = m.id /\ \A v \in Workers : v # w => waiting'[v] = waiting[v]
  BY <1>1, <1>2, <1>4 DEF WTypes
<1> QED BY <1>1, <1>4, <1>5, <1>6, <1>7, CallInv

\* Invoker::finish.
LEMMA FinishInv ==
  ASSUME Inv, NEW w \in Workers, NEW len \in Lens, Finish(w, len)
  PROVE  Inv'
<1> DEFINE m == Message("result", running[w], len, None)
<1>1. /\ phase[w] = "run" /\ sending[Out(w)] = <<>> /\ Start(Out(w), m)
      /\ phase' = [phase EXCEPT ![w] = "poll"] /\ running' = [running EXCEPT ![w] = 0]
      /\ waiting' = waiting /\ wview' = wview /\ calls' = calls /\ lacking' = lacking
      /\ missed' = missed /\ spoilt' = spoilt /\ controller' = controller
  BY DEF Finish
<1>2. WTypes /\ Local(w)
  BY DEF Inv
<1>3. running[w] # 0
  BY <1>1, <1>2 DEF Local, Tokens, TokensOf
<1>4. running[w] \in 1..MaxInvocs /\ calls \in Nat /\ calls <= calls
  BY <1>2, <1>3, ChannelAssumption DEF WTypes
<1>5. m \in Messages /\ m.kind = "result"
  BY <1>4, Made DEF Message
<1> HIDE DEF m
<1>6. WTypes'
  BY <1>1, <1>2, ChannelAssumption DEF WTypes
<1>7. phase'[w] = "poll" /\ running'[w] = 0 /\ \A v \in Workers : v # w => running'[v] = running[v]
  BY <1>1, <1>2 DEF WTypes
<1>8. calls <= calls'
  BY <1>1, <1>4
<1> QED BY <1>1, <1>5, <1>6, <1>7, <1>8, CallInv

\* A worker is gone.
LEMMA CrashInv ==
  ASSUME Inv, NEW w \in Workers, Crash(w)
  PROVE  Inv'
<1>1. /\ phase[w] = "run" /\ phase' = [phase EXCEPT ![w] = "dead"] /\ sending' = [sending EXCEPT ![Out(w)] = <<>>]
      /\ queue' = queue /\ partial' = partial /\ sent' = sent /\ got' = got
      /\ running' = running /\ waiting' = waiting /\ wview' = wview /\ calls' = calls /\ lacking' = lacking
      /\ missed' = missed /\ spoilt' = spoilt /\ controller' = controller
  BY DEF Crash
<1>2. /\ busy' = busy /\ asked' = asked /\ invocs' = invocs /\ Settled
      /\ view' = view /\ updating' = updating /\ telling' = telling /\ turn' = turn /\ updates' = updates
  BY <1>1 DEF controller, Settled
<1>3. QTypes /\ CTypes /\ WTypes /\ Known /\ spoilt \subseteq missed /\ (\A q \in Queues : Flows(q))
  BY DEF Inv
<1>4. CTypes'
  BY <1>1, <1>2, <1>3 DEF CTypes
<1>5. WTypes'
  BY <1>1, <1>3 DEF WTypes
<1>6. phase'[w] = "dead" /\ \A v \in Workers : v # w => phase'[v] = phase[v]
  BY <1>1, <1>3 DEF WTypes
<1>7. Out(w) \in Queues /\ Cut(Out(w))' /\ \A q \in Queues : Cut(q) => Cut(q)'
  <2>1. Out(w) \in Queues /\ Cut(Out(w))'
    BY <1>6, QueueFacts DEF Cut
  <2> QED BY <2>1, <1>1, <1>3, CutKept
<1>8. QTypes' /\ (\A q \in Queues : Flows(q)')
  BY <1>1, <1>3, <1>7, CutStep
<1>9. sending'[Out(w)] = <<>> /\ \A q \in Queues : q # Out(w) => sending'[q] = sending[q]
  BY <1>1, <1>3, <1>7 DEF QTypes
<1>10. Local(w)'
  <2>1. sending'[In(w)] = sending[In(w)]
    BY <1>9, QueueFacts
  <2> QED BY <2>1, <1>1, <1>2, <1>6, <1>9, LocalCrash
<1>11. ASSUME NEW v \in Workers, v # w PROVE Idle(v)
  <2>1. sending'[In(v)] = sending[In(v)] /\ sending'[Out(v)] = sending[Out(v)]
    BY <1>9, <1>11, QueueFacts
  <2>2. calls <= calls'
    BY <1>1, <1>3, ChannelAssumption DEF WTypes
  <2> QED BY <2>1, <2>2, <1>1, <1>2, <1>6, <1>11 DEF Idle
<1>12. \A v \in Workers : Local(v)'
  BY <1>5, <1>10, <1>11, LocalAll
<1>13. Known'
  <2>1. \A v \in Workers : Unaware(v)
    BY <1>1 DEF Unaware
  <2> QED BY <2>1, <1>2, <1>3, KnownSame
<1> QED BY <1>1, <1>3, <1>4, <1>5, <1>8, <1>12, <1>13 DEF Inv

-----------------------------------------------------------------------------
(* The specification.                                                       *)

\* At the start nothing was sent and nothing is known.
LEMMA InitInv ==
  ASSUME Init
  PROVE  Inv
<1>0. 1 \in Workers /\ MaxInvocs \in Nat /\ MaxUpdates \in Nat /\ MaxCalls \in Nat
  BY ChannelAssumption DEF Workers
<1>1. QTypes
  BY DEF Init, QTypes
<1>2. [active |-> <<>>, swapped |-> <<>>] \in Views /\ [active |-> <<Self>>, swapped |-> <<>>] \in Views
  BY DEF Views
<1>3. CTypes
  BY <1>0, <1>2 DEF Init, CTypes
<1>4. WTypes
  BY <1>0, <1>2 DEF Init, WTypes
<1>5. ASSUME NEW q \in Queues PROVE Flows(q)
  <2>1. partial[q] = <<>> /\ queue[q] = <<>> /\ sending[q] = <<>> /\ sent[q] = <<>> /\ got[q] = <<>>
    BY DEF Init
  <2>2. PICK e : Framed(<<>>, <<>>, <<>>, <<>>, <<>>, Cut(q), e)
    BY FramedInit
  <2> QED BY <2>1, <2>2 DEF Flows, Frames
<1>6. ASSUME NEW w \in Workers PROVE Local(w)
  <2>1. In(w) \in Queues /\ Out(w) \in Queues
    BY QueueFacts
  <2>2. /\ sent[In(w)] = <<>> /\ got[In(w)] = <<>> /\ sent[Out(w)] = <<>> /\ got[Out(w)] = <<>>
        /\ sending[In(w)] = <<>> /\ sending[Out(w)] = <<>>
    BY <2>1 DEF Init
  <2>3. /\ busy[w] = FALSE /\ asked[w] = {} /\ phase[w] = "poll" /\ running[w] = 0 /\ waiting[w] = 0
    BY DEF Init
  <2>4. Len(<<>>) = 0
    OBVIOUS
  <2>5. ASSUME NEW kind PROVE Flying(In(w), kind) = {} /\ Flying(Out(w), kind) = {}
    <3>1. Fly(<<>>, 0, kind) = {}
      BY <2>4 DEF Fly
    <3> QED BY <2>2, <2>4, <3>1 DEF Flying
  <2>6. Tokens(w)
    BY <2>3, <2>5 DEF Tokens, TokensOf
  <2>7. Gets(w)
    BY <2>3, <2>5 DEF Gets, GetsOf
  <2>8. Carried(w)
    BY <2>2, <2>4 DEF Carried, Carries
  <2>9. Sends(w)
    BY <2>2 DEF Sends, SendsOf, TellsOf
  <2> QED BY <2>6, <2>7, <2>8, <2>9 DEF Local
<1>7. Known
  <2> DEFINE v0 == [active |-> <<>>, swapped |-> <<>>]
             h == [i \in 0..0 |-> v0]
             d == [i \in 1..0 |-> None]
  <2>1. ASSUME NEW w PROVE Told(w) = 0
    <3>1. updates = 0 /\ telling = <<>> /\ Len(telling) = 0
      BY DEF Init
    <3>2. Told(w) = (updates - Len(telling)) + 0
      BY <3>1 DEF Told, ToldOf
    <3> QED BY <3>1, <3>2
  <2>2. History(h, d, 0)
    <3>1. 1..0 = {} /\ h[0] = v0
      OBVIOUS
    <3>2. d \in [1..0 -> Changes]
      BY <3>1
    <3>3. h \in [0..0 -> Views]
      BY <1>2
    <3> HIDE DEF h, d
    <3> QED BY <3>1, <3>2, <3>3 DEF History
  <2>3. h[0] = v0
    OBVIOUS
  <2> HIDE DEF h, d
  <2>4. Place(h, d)
    <3>1. updates = 0 /\ updating = <<>> /\ telling = <<>> /\ view = v0 /\ Len(<<>>) = 0 /\ 0 - 0 = 0
      BY DEF Init
    <3> QED BY <2>3, <3>1 DEF Place, PlaceOf
  <2>5. ASSUME NEW w \in Workers PROVE Knows(w, h, d)
    <3>1. sent[In(w)] = <<>> /\ got[In(w)] = <<>> /\ Len(<<>>) = 0
      BY QueueFacts DEF Init
    <3>2. KnowsOf(<<>>, 0, 0, d, 0)
      BY <3>1 DEF KnowsOf
    <3>3. wview[w] = WithSelf(v0)
      <4>1. <<Self>> \o <<>> = <<Self>>
        OBVIOUS
      <4> QED BY <4>1 DEF Init, WithSelf
    <3>4. 0 \in 0..0 /\ Told(w) = 0
      BY <2>1
    <3> QED BY <2>3, <3>1, <3>2, <3>3, <3>4 DEF Knows
  <2> QED BY <2>1, <2>2, <2>4, <2>5 DEF Known
<1>8. spoilt \subseteq missed
  BY DEF Init
<1> QED BY <1>1, <1>3, <1>4, <1>5, <1>6, <1>7, <1>8 DEF Inv

\* Every step preserves Inv.
LEMMA NextInv ==
  ASSUME Inv, Next
  PROVE  Inv'
<1>1. ASSUME NEW n \in 1..(MaxUpdates - updates), NEW us \in [1..n -> Changes], ProcessUpdates(us) PROVE Inv'
  BY <1>1, ProcessUpdatesInv
<1>2. CASE TellWorker
  BY <1>2, TellWorkerInv
<1>3. CASE ApplyUpdate
  BY <1>3, ApplyUpdateInv
<1>4. ASSUME NEW w \in Workers, NEW len \in Lens, Submit(w, len) \/ Put(w, len) \/ Finish(w, len) PROVE Inv'
  BY <1>4, SubmitInv, PutInv, FinishInv
<1>5. ASSUME NEW w \in Workers, NEW id \in asked[w], NEW len \in Lens, Reply(w, id, len) PROVE Inv'
  BY <1>5, ReplyInv
<1>6. ASSUME NEW w \in Workers, ControllerSend(w) \/ WorkerSend(w) \/ ControllerReceive(w) \/ ReadPart(w) PROVE Inv'
  BY <1>6, SendInv, ControllerReceiveInv, ReadPartInv
<1>7. ASSUME NEW w \in Workers, PollMessage(w) PROVE Inv'
  BY <1>7, RunFunctionInv, MissingFunctionInv, NoteUpdateInv, IgnoreMessageInv DEF PollMessage
<1>8. ASSUME NEW w \in Workers, GetMessage(w) \/ Get(w) \/ Crash(w) PROVE Inv'
  BY <1>8, GetMessageInv, GetInv, CrashInv
<1> QED BY <1>1, <1>2, <1>3, <1>4, <1>5, <1>6, <1>7, <1>8 DEF Next

\* So does a step that changes nothing.
LEMMA StutterInv ==
  ASSUME Inv, UNCHANGED vars
  PROVE  Inv'
<1>1. /\ controller' = controller /\ worker' = worker /\ queue' = queue /\ partial' = partial
      /\ sending' = sending /\ sent' = sent /\ got' = got /\ phase' = phase
  BY DEF vars, controller, worker
<1>2. QTypes /\ (\A q \in Queues : Flows(q)) /\ (\A q \in Queues : Cut(q) => Cut(q)')
  BY <1>1, CutSame DEF Inv
<1>3. QTypes' /\ (\A q \in Queues : Flows(q)')
  BY <1>1, <1>2, QueuesSame
<1> QED BY <1>1, <1>3, PieceInv

\* Inv is an invariant.
THEOREM InvAlways == Spec => []Inv
<1>1. Init => Inv
  BY InitInv
<1>2. Inv /\ [Next]_vars => Inv'
  BY NextInv, StutterInv
<1> QED BY <1>1, <1>2, PTL DEF Spec

-----------------------------------------------------------------------------
(* What follows for the functions and the lists of processes.               *)

\* What a worker is sending has not been received.
LEMMA SendsFly ==
  ASSUME Inv, NEW w \in Workers, sending[Out(w)] # <<>>
  PROVE  /\ phase[w] # "dead"
         /\ phase[w] = "wait" => Flying(Out(w), "get") # {}
         /\ phase[w] = "poll" => Flying(Out(w), "result") # {}
<1> DEFINE o == Out(w)
           n == Len(sent[o])
<1>1. QTypes /\ o \in Queues /\ Flows(o) /\ Local(w)
  BY QueueFacts DEF Inv
<1>2. sent[o] \in Seq(Messages) /\ Len(got[o]) \in Nat /\ n \in Nat /\ Len(got[o]) < n
  BY <1>1, FlowOf, QueuedFacts
<1>3. /\ phase[w] # "dead"
      /\ phase[w] = "wait" => sent[o][n].kind = "get"
      /\ phase[w] = "poll" => sent[o][n].kind = "result"
  BY <1>1 DEF Local, Sends, SendsOf, LastKind
<1>4. n \in 1..Len(sent[o])
  BY <1>2
<1>5. ASSUME NEW kind, sent[o][n].kind = kind PROVE Flying(o, kind) # {}
  <2>1. [no |-> n, id |-> sent[o][n].id] \in Fly(sent[o], Len(got[o]), kind)
    BY <1>2, <1>4, <1>5, FlyFacts
  <2> QED BY <2>1 DEF Flying
<1> QED BY <1>3, <1>5

\* A worker that does not read has no invocation and no answer to read.
LEMMA BlockedFacts ==
  ASSUME Inv
  PROVE  BlockedOnlyByUpdates
<1> SUFFICES ASSUME NEW w \in Workers, BlockedOn(w), phase[w] = "run" \/ sending[Out(w)] # <<>>, w \notin missed,
                    NEW j \in 1..Capacity
             PROVE  queue[In(w)][j].msg.kind = "update"
  BY DEF BlockedOnlyByUpdates
<1> DEFINE a == In(w)
<1>1. QTypes /\ a \in Queues /\ Flows(a) /\ Local(w)
  BY QueueFacts DEF Inv
<1>2. sent[a] \in Seq(Messages) /\ Len(got[a]) \in Nat
  BY <1>1, FlowOf
<1>3. PICK i \in 1..Len(sent[a]) : Len(got[a]) < i /\ queue[a][j].msg = sent[a][i]
  <2>1. j \in 1..Len(queue[a])
    BY DEF BlockedOn
  <2> QED BY <2>1, <1>1, QueuedFacts
<1>4. sent[a][i].kind \in {"invoke", "update", "reply"}
  BY <1>1 DEF Local, Carried, Carries
<1>5. ASSUME NEW kind, sent[a][i].kind = kind PROVE Flying(a, kind) # {}
  <2>1. [no |-> i, id |-> sent[a][i].id] \in Fly(sent[a], Len(got[a]), kind)
    BY <1>2, <1>3, <1>5, FlyFacts
  <2> QED BY <2>1 DEF Flying
<1>6. TokensOf(Flying(a, "invoke"), Flying(Out(w), "result"), busy[w], phase[w], waiting[w], running[w])
  BY <1>1 DEF Local, Tokens
<1>7. GetsOf(Flying(Out(w), "get"), Flying(a, "reply"), asked[w], waiting[w], phase[w])
  BY <1>1 DEF Local, Gets
<1>8. ASSUME sent[a][i].kind = "invoke" PROVE FALSE
  <2>1. phase[w] = "poll" /\ Flying(Out(w), "result") = {}
    BY <1>5, <1>6, <1>8 DEF TokensOf
  <2>2. sending[Out(w)] # <<>>
    BY <2>1
  <2> QED BY <2>1, <2>2, SendsFly
<1>9. ASSUME sent[a][i].kind = "reply" PROVE FALSE
  <2>1. phase[w] = "wait" /\ Flying(Out(w), "get") = {}
    BY <1>5, <1>7, <1>9 DEF GetsOf
  <2>2. sending[Out(w)] # <<>>
    BY <2>1
  <2> QED BY <2>1, <2>2, SendsFly
<1> QED BY <1>3, <1>4, <1>8, <1>9

\* Inv says more than TypeOK.
LEMMA TypeFacts ==
  ASSUME Inv
  PROVE  TypeOK
<1>1. QTypes /\ CTypes /\ WTypes
  BY DEF Inv
<1>2. ASSUME NEW q \in Queues PROVE Len(queue[q]) <= Capacity
  BY <1>1, QueuedFacts DEF Inv
<1>3. ASSUME NEW w \in Workers
      PROVE  /\ phase[w] \in {"poll", "run", "wait", "dead"}
             /\ phase[w] \in {"run", "wait"} => busy[w]
             /\ (waiting[w] # 0) = (phase[w] = "wait")
             /\ asked[w] \subseteq 1..calls
  <2>1. Tokens(w)
    BY DEF Inv, Local
  <2>2. phase[w] \in {"poll", "run", "wait", "dead"} /\ asked[w] \subseteq 1..calls
    BY <1>1 DEF CTypes, WTypes
  <2>3. phase[w] # "poll" => busy[w]
    BY <2>1 DEF Tokens, TokensOf
  <2>4. (waiting[w] # 0) <=> (phase[w] = "wait")
    BY <2>1 DEF Tokens, TokensOf
  <2> QED BY <2>2, <2>3, <2>4
<1>4. /\ lacking \subseteq Workers /\ spoilt \subseteq Workers
      /\ invocs \in 0..MaxInvocs /\ updates \in 0..MaxUpdates /\ calls \in 0..MaxCalls
  BY <1>1 DEF CTypes, WTypes
<1> QED BY <1>2, <1>3, <1>4 DEF TypeOK

\* Only changes of the application keep the controller waiting for a worker
\* that does not read, or spoil a get: a worker has at most one invocation and
\* one answer to read, and reads when it has one (controller.cpp:249,
\* invoker.hpp:46).
THEOREM OnlyUpdatesDisturbAlways == Spec => []OnlyUpdatesDisturb
<1>1. Inv => OnlyUpdatesDisturb
  BY TypeFacts, BlockedFacts DEF OnlyUpdatesDisturb, SpoiltOnlyByUpdates, Inv
<1> QED BY <1>1, InvAlways, PTL

\* Who has read all changes has the list of the controller.
LEMMA AgreeFacts ==
  ASSUME Inv
  PROVE  ViewsAgree
<1> SUFFICES ASSUME NEW w \in Workers, phase[w] = "poll", w \notin missed, updating = <<>>, queue[In(w)] = <<>>
             PROVE  wview[w].active = <<Self>> \o view.active /\ wview[w].swapped = view.swapped
  BY DEF ViewsAgree
<1> DEFINE a == In(w)
           s == sent[a]
           c == Len(got[a])
<1>1. QTypes /\ CTypes /\ a \in Queues /\ Flows(a) /\ Local(w) /\ s \in Seq(Messages) /\ c \in Nat /\ Told(w) \in Nat
  BY KnownTypes DEF Inv
<1>2. ~Cut(a)
  BY QueueFacts DEF Cut
<1>3. ASSUME NEW i \in 1..Len(s), s[i].kind = "update" PROVE i <= c
  <2>0. i \in Nat
    OBVIOUS
  <2>1. s[i].len = 0
    BY <1>1, <1>3, KnowsTypes, MessageFacts
  <2>2. ASSUME c < i PROVE FALSE
    <3>1. s[i].len > 0 \/ (i = Len(s) /\ sending[a] # <<>>)
      BY <2>2, <1>1, <1>2, DrainedFacts
    <3>2. i = Len(s) /\ sending[a] # <<>>
      BY <2>1, <3>1
    <3>3. LastKind(s) = "update"
      BY <3>2, <1>3 DEF LastKind
    <3>4. updating # <<>>
      BY <3>2, <3>3, <1>1 DEF Local, Sends, TellsOf
    <3> QED BY <3>4
  <2> QED BY <2>0, <2>2, <1>1
<1>4. PICK h, d : Place(h, d) /\ Knows(w, h, d)
  BY DEF Inv, Known
<1>5. PICK k \in 0..Told(w) : KnowsOf(s, c, Told(w), d, k) /\ wview[w] = WithSelf(h[k])
  BY <1>4 DEF Knows
<1>6. updates \in Nat /\ telling \in Seq(Changes)
  BY <1>1, ChannelAssumption DEF CTypes
<1>7. Len(telling) <= Len(updating) /\ Len(updating) = 0 /\ view = h[updates - Len(updating)]
  BY <1>4 DEF Place, PlaceOf
<1>8. view = h[updates] /\ Len(telling) = 0
  BY <1>6, <1>7
<1>9. Told(w) = updates
  BY <1>6, <1>8 DEF Told, ToldOf
<1> HIDE DEF s, c
<1>10. k = Told(w)
  BY <1>1, <1>3, <1>5, KnowsAll
<1>11. wview[w] = WithSelf(view)
  BY <1>5, <1>8, <1>9, <1>10
<1> QED BY <1>11 DEF WithSelf

\* A worker that has read all it was sent has the list of the controller, since
\* every worker is sent every change, in one order (controller.cpp:238-256), and
\* the queues keep it.
THEOREM ViewsAgreeAlways == Spec => []ViewsAgree
<1>1. Inv => ViewsAgree
  BY AgreeFacts
<1> QED BY <1>1, InvAlways, PTL

-----------------------------------------------------------------------------
(* The queues are pipes.                                                    *)

Piped == Stream!Next \/ UNCHANGED <<sent, got>>

\* A call of send is a Send of the pipe ...
LEMMA StartPiped ==
  ASSUME NEW c \in Queues, NEW m \in Messages, Start(c, m)
  PROVE  Piped
<1>1. Stream!Send(c, m)
  BY DEF Start, Stream!Send
<1> QED BY <1>1 DEF Piped, Stream!Next

\* ... the last piece of a message a Deliver, and any other piece no step.
LEMMA TakePiped ==
  ASSUME Inv, NEW c \in Queues, TakePiece(c, Read(c)), \A q \in Queues : Cut(q) => Cut(q)'
  PROVE  Piped
<1>1. CASE ~Complete(Read(c))
  BY <1>1 DEF TakePiece, Piped
<1>2. CASE Complete(Read(c))
  <2>1. Taking(c) /\ Len(got[c]) \in Nat /\ Len(sent[c]) \in Nat
    BY <1>2, Takes, FlowOf DEF Inv
  <2>2. Len(got[c]) < Len(sent[c])
    <3>1. Len(got[c]) + 1 \in 1..Len(sent[c])
      BY <2>1 DEF Taking
    <3> QED BY <2>1, <3>1
  <2>3. Stream!Deliver(c)
    BY <2>1, <2>2 DEF Taking, Stream!Deliver
  <2> QED BY <2>3 DEF Piped, Stream!Next
<1> QED BY <1>1, <1>2

\* Every step is one of the pipe, or none.
LEMMA NextPiped ==
  ASSUME Inv, Next
  PROVE  Piped
<1>0. QTypes /\ CTypes /\ WTypes /\ MaxInvocs \in Nat /\ MaxUpdates \in Nat /\ MaxCalls \in Nat
  BY ChannelAssumption DEF Inv
<1>1. ASSUME NEW us, ProcessUpdates(us) PROVE Piped
  BY <1>1 DEF ProcessUpdates, Piped
<1>2. CASE TellWorker
  <2>1. turn \in Workers /\ telling \in Seq(Changes) /\ telling # <<>> /\ updates \in 0..MaxUpdates
    BY <1>0, <1>2 DEF CTypes, TellWorker
  <2>2. Len(telling) <= updates /\ In(turn) \in Queues
    BY <2>1, KnownTypes
  <2>3. Head(telling) \in Changes /\ Len(telling) \in Nat /\ Len(telling) > 0
    BY <2>1
  <2>4. (updates - Len(telling)) + 1 \in 1..MaxUpdates
    BY <2>1, <2>2, <2>3, <1>0
  <2>5. Message("update", (updates - Len(telling)) + 1, 0, Head(telling)) \in Messages
    BY <2>3, <2>4, MadeShort
  <2> QED BY <2>2, <2>5, <1>2, StartPiped DEF TellWorker
<1>3. CASE ApplyUpdate
  BY <1>3 DEF ApplyUpdate, Piped
<1>4. ASSUME NEW w \in Workers, NEW len \in Lens, Submit(w, len) PROVE Piped
  <2>1. invocs + 1 \in 1..MaxInvocs
    BY <1>0, <1>4 DEF Submit, CTypes
  <2>2. Message("invoke", invocs + 1, len, None) \in Messages
    BY <2>1, Made
  <2> QED BY <2>2, <1>4, QueueFacts, StartPiped DEF Submit
<1>5. ASSUME NEW w \in Workers, NEW len \in Lens, Put(w, len) PROVE Piped
  <2>1. calls + 1 \in 1..MaxCalls
    BY <1>0, <1>5 DEF Put, WTypes
  <2>2. Message("put", calls + 1, len, None) \in Messages
    BY <2>1, Made
  <2> QED BY <2>2, <1>5, QueueFacts, StartPiped DEF Put
<1>6. ASSUME NEW w \in Workers, NEW len \in Lens, Finish(w, len) PROVE Piped
  <2>1. running[w] # 0 /\ running[w] \in 0..MaxInvocs
    BY <1>0, <1>6 DEF Finish, Inv, Local, Tokens, TokensOf, WTypes
  <2>2. running[w] \in 1..MaxInvocs
    BY <2>1, <1>0
  <2>3. Message("result", running[w], len, None) \in Messages
    BY <2>2, Made
  <2> QED BY <2>3, <1>6, QueueFacts, StartPiped DEF Finish
<1>7. ASSUME NEW w \in Workers, NEW id \in asked[w], NEW len \in Lens, Reply(w, id, len) PROVE Piped
  <2>1. id \in 1..MaxCalls
    BY <1>0 DEF CTypes, WTypes
  <2>2. Message("reply", id, len, None) \in Messages
    BY <2>1, Made
  <2> QED BY <2>2, <1>7, QueueFacts, StartPiped DEF Reply
<1>8. ASSUME NEW w \in Workers, ControllerSend(w) \/ WorkerSend(w) PROVE Piped
  BY <1>8 DEF ControllerSend, WorkerSend, PutPiece, Piped
<1>9. ASSUME NEW w \in Workers, ControllerReceive(w) PROVE Piped
  <2>1. TakePiece(Out(w), Read(Out(w))) /\ Out(w) \in Queues /\ phase' = phase
    BY <1>9, QueueFacts DEF ControllerReceive, worker
  <2> QED BY <2>1, CutSame, TakePiped
<1>10. ASSUME NEW w \in Workers, ReadPart(w) \/ PollMessage(w) \/ GetMessage(w) PROVE Piped
  <2>1. /\ TakePiece(In(w), Read(In(w))) /\ In(w) \in Queues /\ phase[w] # "dead"
        /\ phase' = phase \/ phase' = [phase EXCEPT ![w] = "run"]
    BY <1>10, QueueFacts
       DEF ReadPart, PollMessage, RunFunction, MissingFunction, NoteUpdate, IgnoreMessage, Polled, GetMessage, worker
  <2> QED BY <2>1, <1>0, CutKept, TakePiped
<1>11. ASSUME NEW w \in Workers, Get(w) PROVE Piped
  <2>1. calls + 1 \in 1..MaxCalls
    BY <1>0, <1>11 DEF Get, WTypes
  <2>2. PICK len \in Asks[calls + 1] : Start(Out(w), Message("get", calls + 1, len, None))
    BY <1>11 DEF Get
  <2>3. Message("get", calls + 1, len, None) \in Messages
    BY <2>1, MadeShort
  <2> QED BY <2>2, <2>3, QueueFacts, StartPiped
<1>12. ASSUME NEW w \in Workers, Crash(w) PROVE Piped
  BY <1>12 DEF Crash, Piped
<1> QED BY <1>1, <1>2, <1>3, <1>4, <1>5, <1>6, <1>7, <1>8, <1>9, <1>10, <1>11, <1>12 DEF Next

\* The queues implement pipes: messages come out complete, once and in order
\* (POSIXMQChannel::send and receive, ipc.cpp:117-306).
THEOREM ChannelsArePipesAlways == Spec => ChannelsArePipes
<1>1. Init => Stream!Init
  BY DEF Init, Stream!Init
<1>2. Inv /\ [Next]_vars => [Stream!Next]_(Stream!vars)
  <2>1. ASSUME Inv, Next PROVE [Stream!Next]_(Stream!vars)
    BY <2>1, NextPiped DEF Piped, Stream!vars
  <2>2. ASSUME UNCHANGED vars PROVE [Stream!Next]_(Stream!vars)
    BY <2>2 DEF vars, Stream!vars
  <2> QED BY <2>1, <2>2
<1> QED BY <1>1, <1>2, InvAlways, PTL DEF Spec, ChannelsArePipes, Stream!Spec
=============================================================================
