---------------------------- MODULE MessageProofs ----------------------------
(***************************************************************************)
(* Messages as a stream of bytes (Framing) and as fields in a buffer (Wire).*)
(*                                                                          *)
(* However the streams of any number of connections are cut, a connection   *)
(* with an object of its own implements Pipe, and a server that waits has   *)
(* handed on what was complete: FramesAreMessages and NothingLeft for every *)
(* set of messages and all sizes.  The inductive invariant does not say     *)
(* which bytes are on their way, which would take a recursion over what was *)
(* sent, but how each unit relates to the next one, where the first one     *)
(* stands to the server and where the last one to the sender.               *)
(*                                                                          *)
(* Whatever the setters are given and wherever a message is forwarded, its  *)
(* fields are read as they were set (FieldsIntact), for strings of every    *)
(* length and any number of input buffers.  The inductive invariant adds    *)
(* what FieldsIntact does not say: where a getter looks further than the    *)
(* setter writes, there are zeros.                                          *)
(***************************************************************************)
EXTENDS Framing, Wire, SequenceTheorems, WellFoundedInduction, TLAPS

-----------------------------------------------------------------------------
(* The inductive invariant.                                                 *)

\* Units of a message, and what the server has not looked at yet.
Full(m) == Header + Payload(m)
Rest(c) == buf[c] \o wire[c]

\* The message n was sent on c after m: messages of a peer that had not
\* registered come before its registration, and that before all others.
Follows(c, m, n) ==
  \/ \E i \in 1..Len(sent[c]) - 1 : sent[c][i] = m /\ sent[c][i + 1] = n
  \/ m = Register /\ sent[c] # <<>> /\ n = sent[c][1]
  \/ m \in unknown /\ n = Register

\* Unit v comes after unit u.
Succeeds(c, u, v) ==
  IF u[2] < Full(u[1]) THEN v = <<u[1], u[2] + 1>> ELSE v[2] = 1 /\ Follows(c, u[1], v[1])

\* Bytes keep their order.
Chained(c) == \A k \in 1..Len(Rest(c)) - 1 : Succeeds(c, Rest(c)[k], Rest(c)[k + 1])

\* The last unit on its way ends the last message that was sent.
Ends(c) == Rest(c) # <<>> =>
  LET u == Rest(c)[Len(Rest(c))] IN
  /\ u[2] = Full(u[1])
  /\ IF sent[c] # <<>> THEN u[1] = sent[c][Len(sent[c])]
     ELSE IF asked[c] THEN u[1] = Register ELSE u[1] \in unknown

\* Before a connection is registered.
Before(c) == ~registered[c] =>
  /\ got[c] = <<>>
  /\ ~shared => toRead[c] = 0
  /\ IF asked[c]
     THEN Rest(c) # <<>> /\ Rest(c)[1][2] = 1 /\ Rest(c)[1][1] \in {Register} \cup unknown
     ELSE sent[c] = <<>> /\ (Rest(c) = <<>> \/ \E m \in unknown : Rest(c) = Units(m))

\* Its registration is consumed once.
Registers(c) ==
  /\ registered[c] => asked[c]
  /\ \A k \in 1..Len(Rest(c)) : Rest(c)[k][1] = Register =>
       /\ ~registered[c]
       /\ k <= IF Rest(c)[1][1] = Register THEN Header ELSE 2 * Header

\* Then what is left begins where the server is, with the header or with the
\* payload of the message after those it has handed on.
Aligned(c) == ~shared /\ registered[c] =>
  LET g == Len(got[c]) IN
  /\ toRead[c] = 0 /\ Rest(c) = <<>> => g = Len(sent[c])
  /\ toRead[c] = 0 /\ Rest(c) # <<>> => g < Len(sent[c]) /\ Rest(c)[1] = <<sent[c][g + 1], 1>>
  /\ toRead[c] > 0 =>
       /\ g < Len(sent[c])
       /\ curMsg[c] = sent[c][g + 1]
       /\ toRead[c] = Payload(curMsg[c])
       /\ Rest(c) # <<>> /\ Rest(c)[1] = <<curMsg[c], Header + 1>>

\* What was handed on is what was sent.
Delivered(c) == ~shared => \A i \in 1..Len(got[c]) :
  got[c][i].msg = sent[c][i] /\ got[c][i].payload = Own(sent[c][i])

\* A handler that has returned waits for more.
Waits(c) == ~shared /\ registered[c] /\ running # c =>
  \/ Len(buf[c]) < (IF toRead[c] > 0 THEN toRead[c] ELSE Header)
  \/ side = "process" /\ resumed[c]

\* A message is sent once.
Distinct ==
  /\ \A m \in unknown : Size[m] = 0
  /\ \A c \in Conns : \A i \in 1..Len(sent[c]) :
       sent[c][i] \notin unknown /\ \A j \in 1..Len(sent[c]) : sent[c][i] = sent[c][j] => i = j

\* The inductive strengthening of NothingLeft and FramesAreMessages.
Held(c) == Chained(c) /\ Ends(c) /\ Before(c) /\ Registers(c) /\ Aligned(c) /\ Delivered(c)
Inv ==
  /\ TypeOK
  /\ Distinct
  /\ \A c \in Conns : Held(c) /\ Waits(c)
  /\ fault => shared

-----------------------------------------------------------------------------
(* Sequences.                                                               *)

\* A set of natural numbers that is not empty has a least element.
LEMMA LeastExists ==
  ASSUME NEW T \in SUBSET Nat, T # {}
  PROVE  \E i \in T : \A j \in T : i <= j
<1>1. PICK x \in T : \A y \in T : ~(<<y, x>> \in OpToRel(<, Nat))
  BY WFMin, NatLessThanWellFounded
<1>2. \A y \in T : ~(y < x)
  BY <1>1 DEF OpToRel
<1>3. x \in Nat /\ \A y \in T : y \in Nat
  BY <1>1
<1>4. \A y \in T : x <= y
  BY <1>2, <1>3
<1> QED BY <1>4

\* What SubSeq does, index by index.
LEMMA SubSeqFacts ==
  ASSUME NEW Q, NEW s \in Seq(Q), NEW m \in 1..Len(s) + 1, NEW n \in m - 1..Len(s)
  PROVE  /\ SubSeq(s, m, n) \in Seq(Q)
         /\ Len(SubSeq(s, m, n)) = n - m + 1
         /\ \A i \in 1..n - m + 1 : SubSeq(s, m, n)[i] = s[m + i - 1]
<1>1. Len(s) \in Nat /\ m \in Int /\ n \in Int
  OBVIOUS
<1>2. \A i \in m..n : s[i] \in Q
  BY <1>1
<1>3. /\ SubSeq(s, m, n) \in Seq(Q)
      /\ Len(SubSeq(s, m, n)) = IF m <= n THEN n - m + 1 ELSE 0
      /\ \A i \in 1..n - m + 1 : SubSeq(s, m, n)[i] = s[m + i - 1]
  BY <1>1, <1>2, SubSeqProperties
<1> QED BY <1>1, <1>3

\* Moving units from one sequence to the one before it.
LEMMA MovePrefix ==
  ASSUME NEW Q, NEW s \in Seq(Q), NEW t \in Seq(Q), NEW k \in 0..Len(t)
  PROVE  (s \o SubSeq(t, 1, k)) \o SubSeq(t, k + 1, Len(t)) = s \o t
<1>1. Len(t) \in Nat
  OBVIOUS
<1>2. 1 \in 1..Len(t) + 1 /\ k \in 1 - 1..Len(t) /\ Len(t) \in k..Len(t) /\ k + 1 \in 1..Len(t) + 1
      /\ Len(t) \in k + 1 - 1..Len(t)
  BY <1>1
<1>3. SubSeq(t, 1, k) \in Seq(Q) /\ SubSeq(t, k + 1, Len(t)) \in Seq(Q)
  BY <1>2, SubSeqFacts
<1>4. SubSeq(t, 1, k) \o SubSeq(t, k + 1, Len(t)) = SubSeq(t, 1, Len(t))
  BY <1>2, ConcatAdjacentSubSeq
<1>5. SubSeq(t, 1, Len(t)) = t
  BY SubSeqFull
<1> DEFINE a == SubSeq(t, 1, k)
           b == SubSeq(t, k + 1, Len(t))
<1>6. a \in Seq(Q) /\ b \in Seq(Q) /\ a \o b = t
  BY <1>3, <1>4, <1>5
<1> HIDE DEF a, b
<1>7. (s \o a) \o b = s \o (a \o b)
  <2>1. a \in Seq(Q) /\ b \in Seq(Q) /\ s \in Seq(Q)
    BY <1>6
  <2> QED BY <2>1, ConcatAssociative, SMTT(30)
<1> QED BY <1>6, <1>7 DEF a, b

\* Dropping units of the first of two sequences.
LEMMA DropPrefix ==
  ASSUME NEW Q, NEW s \in Seq(Q), NEW t \in Seq(Q), NEW n \in 0..Len(s)
  PROVE  SubSeq(s, n + 1, Len(s)) \o t = SubSeq(s \o t, n + 1, Len(s \o t))
<1> DEFINE a == SubSeq(s, n + 1, Len(s))
           b == SubSeq(s \o t, n + 1, Len(s \o t))
<1>1. Len(s) \in Nat /\ Len(t) \in Nat
  OBVIOUS
<1>2. /\ s \o t \in Seq(Q) /\ Len(s \o t) = Len(s) + Len(t)
      /\ \A i \in 1..Len(s) + Len(t) : (s \o t)[i] = IF i <= Len(s) THEN s[i] ELSE t[i - Len(s)]
  BY ConcatProperties
<1>3. /\ a \in Seq(Q) /\ Len(a) = Len(s) - n
      /\ \A i \in 1..Len(s) - n : a[i] = s[n + i]
  <2>1. n + 1 \in 1..Len(s) + 1 /\ Len(s) \in n + 1 - 1..Len(s)
    BY <1>1
  <2> QED BY <1>1, <2>1, SubSeqFacts
<1>4. /\ b \in Seq(Q) /\ Len(b) = Len(s) + Len(t) - n
      /\ \A i \in 1..Len(s) + Len(t) - n : b[i] = (s \o t)[n + i]
  <2>1. n + 1 \in 1..Len(s \o t) + 1 /\ Len(s \o t) \in n + 1 - 1..Len(s \o t)
    BY <1>1, <1>2
  <2> QED BY <1>1, <1>2, <2>1, SubSeqFacts
<1> HIDE DEF a, b
<1>5. /\ a \o t \in Seq(Q) /\ Len(a \o t) = Len(s) + Len(t) - n
      /\ \A i \in 1..Len(s) + Len(t) - n :
           (a \o t)[i] = IF i <= Len(s) - n THEN a[i] ELSE t[i - (Len(s) - n)]
  <2>1. /\ a \o t \in Seq(Q) /\ Len(a \o t) = Len(a) + Len(t)
        /\ \A i \in 1..Len(a) + Len(t) : (a \o t)[i] = IF i <= Len(a) THEN a[i] ELSE t[i - Len(a)]
    BY <1>3, ConcatProperties
  <2>2. Len(a) + Len(t) = Len(s) + Len(t) - n
    BY <1>1, <1>3
  <2> QED BY <1>3, <2>1, <2>2
<1>6. \A i \in 1..Len(s) + Len(t) - n : (a \o t)[i] = b[i]
  <2> TAKE i \in 1..Len(s) + Len(t) - n
  <2>1. n + i \in 1..Len(s) + Len(t) /\ n + i - Len(s) = i - (Len(s) - n)
    BY <1>1
  <2>2. (n + i <= Len(s)) <=> (i <= Len(s) - n)
    BY <1>1
  <2> QED BY <1>1, <1>2, <1>3, <1>4, <1>5, <2>1, <2>2, SMTT(30)
<1>7. a \o t = b
  BY <1>4, <1>5, <1>6, SeqEqual
<1> QED BY <1>7 DEF a, b

-----------------------------------------------------------------------------
(* Messages.                                                                *)

\* Lengths and units of messages.
LEMMA UnitFacts ==
  ASSUME NEW m \in Msgs \cup {Register}
  PROVE  /\ Payload(m) \in Nat /\ Full(m) \in Nat /\ Full(m) = Payload(m) + 2
         /\ Units(m) \in Seq(Unit) /\ Len(Units(m)) = Full(m)
         /\ \A i \in 1..Full(m) : Units(m)[i] = <<m, i>>
<1>1. Payload(m) \in Nat /\ Full(m) \in Nat /\ Full(m) = Payload(m) + 2
  BY FramingAssumption DEF Payload, Full, Header
<1>2. \A i \in 1..Full(m) : <<m, i>> \in Unit
  BY <1>1 DEF Unit
<1>3. Units(m) = [i \in 1..Full(m) |-> <<m, i>>]
  BY DEF Units, Full
<1> HIDE DEF Full
<1>4. Units(m) \in [1..Full(m) -> Unit]
  BY <1>2, <1>3
<1>5. Units(m) \in Seq(Unit) /\ Len(Units(m)) = Full(m)
  BY <1>1, <1>4
<1> QED BY <1>1, <1>3, <1>5

\* The payload.
LEMMA OwnFacts ==
  ASSUME NEW m \in Msgs \cup {Register}
  PROVE  /\ Own(m) \in Seq(Unit) /\ Len(Own(m)) = Payload(m)
         /\ \A i \in 1..Payload(m) : Own(m)[i] = <<m, Header + i>>
<1>1. /\ Payload(m) \in Nat /\ Full(m) \in Nat /\ Full(m) = Payload(m) + 2
      /\ Units(m) \in Seq(Unit) /\ Len(Units(m)) = Full(m)
      /\ \A i \in 1..Full(m) : Units(m)[i] = <<m, i>>
  BY UnitFacts
<1>2. Header + 1 \in 1..Len(Units(m)) + 1 /\ Header + Payload(m) \in Header + 1 - 1..Len(Units(m))
  BY <1>1 DEF Header
<1>3. /\ Own(m) \in Seq(Unit) /\ Len(Own(m)) = Payload(m)
      /\ \A i \in 1..Payload(m) : Own(m)[i] = Units(m)[Header + i]
  BY <1>1, <1>2, SubSeqFacts DEF Own, Header
<1>4. \A i \in 1..Payload(m) : Header + i \in 1..Full(m)
  BY <1>1 DEF Header
<1> QED BY <1>1, <1>3, <1>4

\* What the server has not looked at.
LEMMA RestFacts ==
  ASSUME TypeOK, NEW c \in Conns
  PROVE  /\ Rest(c) \in Seq(Unit) /\ Len(Rest(c)) \in Nat
         /\ buf[c] \in Seq(Unit) /\ wire[c] \in Seq(Unit)
         /\ Len(buf[c]) \in Nat /\ Len(wire[c]) \in Nat
         /\ Len(Rest(c)) = Len(buf[c]) + Len(wire[c])
         /\ \A i \in 1..Len(buf[c]) : Rest(c)[i] = buf[c][i]
         /\ \A i \in 1..Len(Rest(c)) : /\ Rest(c)[i] = <<Rest(c)[i][1], Rest(c)[i][2]>>
                                       /\ Rest(c)[i][1] \in Msgs \cup {Register}
                                       /\ Rest(c)[i][2] \in Nat
<1>1. buf[c] \in Seq(Unit) /\ wire[c] \in Seq(Unit) /\ Len(buf[c]) \in Nat /\ Len(wire[c]) \in Nat
  BY DEF TypeOK
<1>2. /\ Rest(c) \in Seq(Unit) /\ Len(Rest(c)) = Len(buf[c]) + Len(wire[c])
      /\ \A i \in 1..Len(buf[c]) + Len(wire[c]) :
           Rest(c)[i] = IF i <= Len(buf[c]) THEN buf[c][i] ELSE wire[c][i - Len(buf[c])]
  BY <1>1, ConcatProperties DEF Rest
<1>3. \A i \in 1..Len(Rest(c)) : Rest(c)[i] \in Unit
  BY <1>2, ElementOfSeq
<1>4. \A u \in Unit : u = <<u[1], u[2]>> /\ u[1] \in Msgs \cup {Register} /\ u[2] \in Nat
  BY DEF Unit
<1> DEFINE b == Len(buf[c])
           w == Len(wire[c])
<1>5. b \in Nat /\ w \in Nat
  BY <1>1
<1> HIDE DEF b, w
<1>6. b + w \in Nat /\ \A i \in 1..b : i \in 1..b + w /\ i <= b
  BY <1>5
<1>7. \A i \in 1..Len(buf[c]) : Rest(c)[i] = buf[c][i]
  BY <1>2, <1>6 DEF b, w
<1>8. Len(Rest(c)) \in Nat
  BY <1>2, <1>6 DEF b, w
<1> QED BY <1>1, <1>2, <1>3, <1>4, <1>7, <1>8

-----------------------------------------------------------------------------
(* Along the stream.                                                        *)

\* From a unit of m on, its other units follow.
LEMMA Run ==
  ASSUME TypeOK, NEW c \in Conns, Chained(c), Len(Rest(c)) > 0,
         NEW m \in Msgs \cup {Register}, NEW a \in 1..Full(m), Rest(c)[1] = <<m, a>>
  PROVE  \A i \in 1..Len(Rest(c)) : i <= Full(m) - a + 1 => Rest(c)[i] = <<m, a + i - 1>>
<1> DEFINE s == Rest(c)
           T == {i \in 1..Len(s) : i <= Full(m) - a + 1 /\ s[i] # <<m, a + i - 1>>}
<1>1. Len(s) \in Nat /\ Full(m) \in Nat
  BY RestFacts, UnitFacts
<1>2. \A k \in 1..Len(s) - 1 : Succeeds(c, s[k], s[k + 1])
  BY DEF Chained
<1>3. s[1] = <<m, a>> /\ Len(s) > 0
  OBVIOUS
<1> HIDE DEF s
<1>4. ASSUME T # {} PROVE FALSE
  <2>1. T \in SUBSET Nat
    BY <1>1
  <2>2. PICK i \in T : \A j \in T : i <= j
    BY <1>4, <2>1, LeastExists
  <2>3. /\ i \in 1..Len(s) /\ i <= Full(m) - a + 1 /\ s[i] # <<m, a + i - 1>>
        /\ \A j \in 1..Len(s) : j < i => j \notin T
    BY <1>1, <2>2
  <2>4. i # 1
    BY <1>3, <2>3
  <2>5. i - 1 \in 1..Len(s) - 1 /\ i - 1 \in 1..Len(s) /\ i - 1 <= Full(m) - a + 1 /\ (i - 1) + 1 = i
    BY <1>1, <2>3, <2>4
  <2>6. s[i - 1] = <<m, a + (i - 1) - 1>>
    BY <2>3, <2>5
  <2>7. Succeeds(c, s[i - 1], s[i])
    BY <1>2, <2>5
  <2>8. a + (i - 1) - 1 < Full(m) /\ a + (i - 1) - 1 + 1 = a + i - 1
    BY <1>1, <2>3
  <2>9. s[i] = <<m, a + (i - 1) - 1 + 1>>
    BY <2>6, <2>7, <2>8 DEF Succeeds
  <2> QED BY <2>3, <2>8, <2>9
<1>5. \A i \in 1..Len(s) : i <= Full(m) - a + 1 => s[i] = <<m, a + i - 1>>
  BY <1>4
<1> QED BY <1>5 DEF s

\* All of them are there, and the first unit of another message comes after.
LEMMA RunEnds ==
  ASSUME TypeOK, NEW c \in Conns, Chained(c), Ends(c), Len(Rest(c)) > 0,
         NEW m \in Msgs \cup {Register}, NEW a \in 1..Full(m), Rest(c)[1] = <<m, a>>
  PROVE  LET n == Full(m) - a + 1 IN
         /\ n \in 1..Len(Rest(c))
         /\ Rest(c)[n] = <<m, Full(m)>>
         /\ n < Len(Rest(c)) =>
              Rest(c)[n + 1][2] = 1 /\ Follows(c, m, Rest(c)[n + 1][1])
<1> DEFINE s == Rest(c)
           n == Full(m) - a + 1
<1>1. Len(s) \in Nat /\ Full(m) \in Nat /\ n \in Nat /\ n > 0 /\ a + n - 1 = Full(m)
  BY RestFacts, UnitFacts
<1>2. \A i \in 1..Len(s) : i <= n => s[i] = <<m, a + i - 1>>
  BY Run
<1>3. \A k \in 1..Len(s) - 1 : Succeeds(c, s[k], s[k + 1])
  BY DEF Chained
<1>4. Len(s) > 0 /\ s[Len(s)][2] = Full(s[Len(s)][1])
  BY RestFacts DEF Ends
<1> HIDE DEF s, n
<1>5. n <= Len(s)
  <2> SUFFICES ASSUME n > Len(s) PROVE FALSE
    BY <1>1
  <2>1. Len(s) \in 1..Len(s) /\ Len(s) <= n /\ a + Len(s) - 1 < Full(m)
    BY <1>1, <1>4
  <2>2. s[Len(s)] = <<m, a + Len(s) - 1>>
    BY <1>2, <2>1
  <2> QED BY <1>1, <1>4, <2>1, <2>2
<1>6. s[n] = <<m, Full(m)>>
  BY <1>1, <1>2, <1>5
<1>7. n < Len(s) => s[n + 1][2] = 1 /\ Follows(c, m, s[n + 1][1])
  <2> SUFFICES ASSUME n < Len(s) PROVE s[n + 1][2] = 1 /\ Follows(c, m, s[n + 1][1])
    OBVIOUS
  <2>1. Succeeds(c, s[n], s[n + 1])
    BY <1>1, <1>3
  <2> QED BY <1>1, <1>6, <2>1 DEF Succeeds
<1>8. n \in 1..Len(s)
  BY <1>1, <1>5
<1> QED BY <1>6, <1>7, <1>8 DEF s, n

\* Nothing happens to a connection.
LEMMA Stays ==
  ASSUME Inv, NEW c \in Conns, Rest(c)' = Rest(c), unknown \subseteq unknown', shared' = shared,
         sent'[c] = sent[c], asked'[c] = asked[c], registered'[c] = registered[c],
         got'[c] = got[c], ~shared => toRead'[c] = toRead[c] /\ curMsg'[c] = curMsg[c]
  PROVE  Held(c)'
<1>1. Held(c)
  BY DEF Inv
<1>2. \A m, n : Follows(c, m, n) => Follows(c, m, n)'
  BY DEF Follows
<1>3. Chained(c)'
  BY <1>1, <1>2 DEF Held, Chained, Succeeds
<1>4. Ends(c)'
  BY <1>1 DEF Held, Ends
<1>5. Before(c)'
  BY <1>1 DEF Held, Before
<1>6. Registers(c)'
  BY <1>1 DEF Held, Registers
<1>7. Aligned(c)' /\ Delivered(c)'
  BY <1>1 DEF Held, Aligned, Delivered
<1> QED BY <1>3, <1>4, <1>5, <1>6, <1>7 DEF Held

\* The handler has consumed n units of connection c.
LEMMA Dropped ==
  ASSUME Inv, NEW c \in Conns, NEW n \in 0..Len(buf[c]),
         buf' = [buf EXCEPT ![c] = Drop(c, n)], UNCHANGED <<wire, sent, unknown, asked>>
  PROVE  /\ buf' \in [Conns -> Seq(Unit)] /\ Len(buf'[c]) = Len(buf[c]) - n
         /\ \A d \in Conns : d # c => Rest(d)' = Rest(d) /\ buf'[d] = buf[d]
         /\ Rest(c)' \in Seq(Unit) /\ Len(Rest(c)') = Len(Rest(c)) - n
         /\ \A i \in 1..Len(Rest(c)) - n : Rest(c)'[i] = Rest(c)[n + i]
         /\ Chained(c)' /\ Ends(c)'
<1> DEFINE s == Rest(c)
           t == Rest(c)'
<1>1. /\ buf[c] \in Seq(Unit) /\ wire[c] \in Seq(Unit) /\ s \in Seq(Unit)
      /\ Len(buf[c]) \in Nat /\ Len(wire[c]) \in Nat /\ Len(s) \in Nat
      /\ Len(s) = Len(buf[c]) + Len(wire[c])
  BY RestFacts DEF Inv
<1>0. /\ n \in Nat /\ n <= Len(s) /\ Len(s) - n \in Nat
      /\ n + 1 \in 1..Len(s) + 1 /\ Len(s) \in n + 1 - 1..Len(s) /\ Len(s) - (n + 1) + 1 = Len(s) - n
      /\ \A i \in 1..Len(s) - n : n + 1 + i - 1 = n + i
      /\ \A k \in 1..Len(s) - n - 1 : /\ n + k \in 1..Len(s) - 1 /\ n + k + 1 = n + (k + 1)
                                      /\ k \in 1..Len(s) - n /\ k + 1 \in 1..Len(s) - n
      /\ Len(s) - n # 0 => Len(s) - n \in 1..Len(s) - n /\ n + (Len(s) - n) = Len(s) /\ Len(s) # 0
  <2> HIDE DEF s
  <2> DEFINE L == Len(s)
             b == Len(buf[c])
             w == Len(wire[c])
  <2>1. L \in Nat /\ b \in Nat /\ w \in Nat /\ L = b + w /\ n \in 0..b
    BY <1>1
  <2> HIDE DEF L, b, w
  <2>2. /\ n \in Nat /\ n <= L /\ L - n \in Nat
        /\ n + 1 \in 1..L + 1 /\ L \in n + 1 - 1..L /\ L - (n + 1) + 1 = L - n
        /\ \A i \in 1..L - n : n + 1 + i - 1 = n + i
        /\ \A k \in 1..L - n - 1 : /\ n + k \in 1..L - 1 /\ n + k + 1 = n + (k + 1)
                                   /\ k \in 1..L - n /\ k + 1 \in 1..L - n
        /\ L - n # 0 => L - n \in 1..L - n /\ n + (L - n) = L /\ L # 0
    BY <2>1
  <2> QED BY <2>2 DEF L
<1>2. buf'[c] = Drop(c, n) /\ \A d \in Conns : d # c => buf'[d] = buf[d]
  BY DEF Inv, TypeOK
<1>3. Drop(c, n) \in Seq(Unit) /\ Len(Drop(c, n)) = Len(buf[c]) - n
  <2>1. n + 1 \in 1..Len(buf[c]) + 1 /\ Len(buf[c]) \in n + 1 - 1..Len(buf[c])
    BY <1>1
  <2>2. Len(buf[c]) - (n + 1) + 1 = Len(buf[c]) - n
    BY <1>1
  <2> QED BY <1>1, <2>1, <2>2, SubSeqFacts DEF Drop
<1>4. t = SubSeq(s, n + 1, Len(s))
  BY <1>1, <1>2, DropPrefix, ZenonT(60) DEF Rest, Drop
<1>5. t \in Seq(Unit) /\ Len(t) = Len(s) - n /\ \A i \in 1..Len(s) - n : t[i] = s[n + i]
  <2>1. n + 1 \in 1..Len(s) + 1 /\ Len(s) \in n + 1 - 1..Len(s)
    BY <1>0
  <2>4. s \in Seq(Unit)
    BY <1>1
  <2> HIDE DEF s
  <2>2. /\ SubSeq(s, n + 1, Len(s)) \in Seq(Unit)
        /\ Len(SubSeq(s, n + 1, Len(s))) = Len(s) - (n + 1) + 1
        /\ \A i \in 1..Len(s) - (n + 1) + 1 : SubSeq(s, n + 1, Len(s))[i] = s[n + 1 + i - 1]
    BY <2>1, <2>4, SubSeqFacts, SMTT(30)
  <2>3. Len(s) - (n + 1) + 1 = Len(s) - n /\ \A i \in 1..Len(s) - n : n + 1 + i - 1 = n + i
    BY <1>0
  <2> QED BY <1>4, <2>2, <2>3
<1>6. Chained(c)'
  <2>1. \A k \in 1..Len(s) - 1 : Succeeds(c, s[k], s[k + 1])
    BY DEF Inv, Held, Chained
  <2>2. \A u, v : Succeeds(c, u, v)' <=> Succeeds(c, u, v)
    BY DEF Succeeds, Follows
  <2> SUFFICES ASSUME NEW k \in 1..Len(t) - 1 PROVE Succeeds(c, t[k], t[k + 1])
    BY <2>2 DEF Chained
  <2> HIDE DEF s, t
  <2>3. /\ n + k \in 1..Len(s) - 1 /\ n + k + 1 = n + (k + 1)
        /\ k \in 1..Len(s) - n /\ k + 1 \in 1..Len(s) - n
    BY <1>5, <1>0
  <2> QED BY <1>5, <2>1, <2>3
<1>7. Ends(c)'
  <2>1. s # <<>> => LET u == s[Len(s)] IN
          /\ u[2] = Full(u[1])
          /\ IF sent[c] # <<>> THEN u[1] = sent[c][Len(sent[c])]
             ELSE IF asked[c] THEN u[1] = Register ELSE u[1] \in unknown
    BY DEF Inv, Held, Ends
  <2>2. t # <<>> => s # <<>> /\ t[Len(t)] = s[Len(s)]
    <3> HIDE DEF s, t
    <3> SUFFICES ASSUME t # <<>> PROVE s # <<>> /\ t[Len(t)] = s[Len(s)]
      OBVIOUS
    <3>1. Len(t) \in Nat /\ Len(t) # 0
      BY <1>5
    <3>2. Len(t) \in 1..Len(s) - n /\ n + Len(t) = Len(s) /\ Len(s) # 0
      BY <1>5, <1>0, <3>1
    <3> QED BY <1>5, <3>2
  <2> QED BY <2>1, <2>2 DEF Ends
<1>8. \A d \in Conns : d # c => Rest(d)' = Rest(d)
  BY <1>2 DEF Rest
<1>9. buf' \in [Conns -> Seq(Unit)]
  BY <1>3 DEF Inv, TypeOK
<1> QED BY <1>2, <1>3, <1>5, <1>6, <1>7, <1>8, <1>9

\* Nothing happens to a connection whose handler does not run.
LEMMA StillWaits ==
  ASSUME Inv, NEW c \in Conns, running' = running \/ running # c, buf'[c] = buf[c],
         UNCHANGED <<side, shared>>, registered'[c] = registered[c], resumed'[c] = resumed[c],
         ~shared => toRead'[c] = toRead[c]
  PROVE  Waits(c)'
<1>1. Waits(c)
  BY DEF Inv
<1> QED BY <1>1 DEF Waits

\* A message is put behind what is on its way.
LEMMA Pushed ==
  ASSUME Inv, NEW c \in Conns, NEW m \in Msgs \cup {Register},
         wire' = [wire EXCEPT ![c] = @ \o Units(m)], UNCHANGED buf
  PROVE  /\ wire' \in [Conns -> Seq(Unit)]
         /\ \A d \in Conns : d # c => Rest(d)' = Rest(d)
         /\ Rest(c)' \in Seq(Unit) /\ Len(Rest(c)') = Len(Rest(c)) + Full(m)
         /\ \A i \in 1..Len(Rest(c)) : Rest(c)'[i] = Rest(c)[i]
         /\ \A i \in 1..Full(m) : Rest(c)'[Len(Rest(c)) + i] = <<m, i>>
<1> DEFINE s == Rest(c)
           u == Units(m)
           L == Len(s)
           f == Full(m)
<1>1. /\ buf[c] \in Seq(Unit) /\ wire[c] \in Seq(Unit) /\ s \in Seq(Unit) /\ L \in Nat
  BY RestFacts DEF Inv
<1>2. /\ f \in Nat /\ u \in Seq(Unit) /\ Len(u) = f /\ \A i \in 1..f : u[i] = <<m, i>>
  BY UnitFacts
<1>3. wire'[c] = wire[c] \o u /\ \A d \in Conns : d # c => wire'[d] = wire[d]
  BY DEF Inv, TypeOK
<1>4. wire[c] \o u \in Seq(Unit)
  BY <1>1, <1>2, ConcatProperties
<1>5. wire' \in [Conns -> Seq(Unit)]
  BY <1>4 DEF Inv, TypeOK
<1>6. \A d \in Conns : d # c => Rest(d)' = Rest(d)
  BY <1>3 DEF Rest
<1>7. Rest(c)' = s \o u
  <2>1. Rest(c)' = buf[c] \o (wire[c] \o u)
    BY <1>3 DEF Rest
  <2> DEFINE b == buf[c]
             w == wire[c]
  <2>2. b \in Seq(Unit) /\ w \in Seq(Unit) /\ u \in Seq(Unit)
    BY <1>1, <1>2
  <2> HIDE DEF u, b, w
  <2>3. (b \o w) \o u = b \o (w \o u)
    BY <2>2, ConcatAssociative, SMTT(30)
  <2> QED BY <2>1, <2>3 DEF Rest, b, w
<1>8. /\ s \o u \in Seq(Unit) /\ Len(s \o u) = L + Len(u)
      /\ \A i \in 1..L + Len(u) : (s \o u)[i] = IF i <= L THEN s[i] ELSE u[i - L]
  <2> HIDE DEF u, s
  <2>1. s \in Seq(Unit) /\ u \in Seq(Unit)
    BY <1>1, <1>2
  <2> QED BY <2>1, ConcatProperties
<1>9. /\ \A i \in 1..L : i \in 1..L + f /\ i <= L
      /\ \A i \in 1..f : L + i \in 1..L + f /\ ~(L + i <= L) /\ (L + i) - L = i
  <2> HIDE DEF L, f
  <2> QED BY <1>1, <1>2
<1>10. /\ \A i \in 1..L : (s \o u)[i] = s[i]
       /\ \A i \in 1..f : (s \o u)[L + i] = <<m, i>>
  <2> HIDE DEF L, f, s, u
  <2> QED BY <1>2, <1>8, <1>9
<1> QED BY <1>2, <1>5, <1>6, <1>7, <1>8, <1>10

\* The order is kept when the message is the one that follows.
LEMMA PushedChain ==
  ASSUME Inv, NEW c \in Conns, NEW m \in Msgs \cup {Register},
         wire' = [wire EXCEPT ![c] = @ \o Units(m)], UNCHANGED buf,
         \A x, y : Follows(c, x, y) => Follows(c, x, y)',
         \A x : Rest(c) # <<>> /\ x = Rest(c)[Len(Rest(c))][1] => Follows(c, x, m)'
  PROVE  /\ Chained(c)'
         /\ Rest(c)' # <<>> /\ Rest(c)'[Len(Rest(c)')] = <<m, Full(m)>>
         /\ IF Rest(c) = <<>> THEN Rest(c)'[1] = <<m, 1>> ELSE Rest(c)'[1] = Rest(c)[1]
<1> DEFINE s == Rest(c)
           t == Rest(c)'
           L == Len(s)
           f == Full(m)
<1>1. s \in Seq(Unit) /\ L \in Nat /\ f \in Nat /\ f >= 2
  <2>1. s \in Seq(Unit) /\ L \in Nat
    BY RestFacts DEF Inv
  <2>2. f \in Nat /\ Payload(m) \in Nat /\ f = Payload(m) + 2
    BY UnitFacts
  <2> HIDE DEF f
  <2>3. f >= 2
    BY <2>2
  <2> QED BY <2>1, <2>2, <2>3
<1>2. /\ t \in Seq(Unit) /\ Len(t) = L + f
      /\ \A i \in 1..L : t[i] = s[i]
      /\ \A i \in 1..f : t[L + i] = <<m, i>>
  BY Pushed
<1>3. \A k \in 1..L - 1 : Succeeds(c, s[k], s[k + 1])
  BY DEF Inv, Held, Chained
<1>4. \A x, y : Succeeds(c, x, y) => Succeeds(c, x, y)'
  BY DEF Succeeds
<1>5. s # <<>> => s[L][2] = Full(s[L][1])
  BY DEF Inv, Held, Ends
<1>6. s = <<>> <=> L = 0
  BY <1>1
<1>7. \A x : s # <<>> /\ x = s[L][1] => Follows(c, x, m)'
  OBVIOUS
<1>8. L > 0 => Full(s[L][1]) \in Nat
  <2> SUFFICES ASSUME L > 0 PROVE Full(s[L][1]) \in Nat
    OBVIOUS
  <2>1. L \in 1..L
    BY <1>1
  <2>2. s[L][1] \in Msgs \cup {Register}
    BY <2>1, RestFacts DEF Inv
  <2> QED BY <2>2, UnitFacts
<1>9. ASSUME NEW k \in 1..Len(t) - 1, NEW x, NEW y, x = t[k], y = t[k + 1]
      PROVE  Succeeds(c, x, y)'
  <2> HIDE DEF s, t, L, f
  <2>1. CASE k < L
    <3>1. k \in 1..L /\ k + 1 \in 1..L /\ k \in 1..L - 1
      BY <1>1, <1>2, <2>1
    <3>2. x = s[k] /\ y = s[k + 1]
      BY <1>2, <1>9, <3>1
    <3> QED BY <1>3, <1>4, <3>1, <3>2
  <2>2. CASE k = L
    <3>1. L \in 1..L /\ 1 \in 1..f /\ L > 0
      BY <1>1, <1>2, <2>2
    <3>2. x = s[L] /\ y = <<m, 1>>
      BY <1>2, <1>9, <2>2, <3>1
    <3>3. s # <<>>
      BY <1>1, <1>6, <3>1
    <3>4. ~(x[2] < Full(x[1]))
      BY <1>5, <1>8, <3>1, <3>2, <3>3
    <3>5. Follows(c, x[1], m)'
      BY <1>7, <3>2, <3>3
    <3>6. y[1] = m /\ y[2] = 1
      BY <3>2
    <3> QED BY <3>4, <3>5, <3>6 DEF Succeeds, Full, Payload
  <2>3. CASE k > L
    <3>1. k - L \in 1..f /\ k - L + 1 \in 1..f /\ L + (k - L) = k /\ L + (k - L + 1) = k + 1 /\ k - L < f
      BY <1>1, <1>2, <2>3
    <3>2. x = <<m, k - L>> /\ y = <<m, k - L + 1>>
      BY <1>2, <1>9, <3>1
    <3>3. x[1] = m /\ x[2] = k - L /\ y = <<x[1], x[2] + 1>>
      BY <3>2
    <3> QED BY <3>1, <3>3 DEF Succeeds, f, Full, Payload
  <2> QED BY <1>1, <1>2, <2>1, <2>2, <2>3
<1>10. Chained(c)'
  <2> SUFFICES ASSUME NEW k \in 1..Len(t) - 1 PROVE Succeeds(c, Rest(c)[k], Rest(c)[k + 1])'
    BY DEF Chained
  <2>1. \A x, y : x = t[k] /\ y = t[k + 1] => Succeeds(c, x, y)'
    BY <1>9
  <2> QED BY <2>1, Zenon DEF Succeeds
<1>11. t # <<>> /\ t[Len(t)] = <<m, f>>
  <2> HIDE DEF s, t, L, f
  <2>1. Len(t) # 0 /\ f \in 1..f /\ Len(t) = L + f
    BY <1>1, <1>2
  <2> QED BY <1>2, <2>1
<1>12. IF s = <<>> THEN t[1] = <<m, 1>> ELSE t[1] = s[1]
  <2> HIDE DEF s, t, L, f
  <2>1. CASE L = 0
    <3>1. 1 \in 1..f /\ L + 1 = 1
      BY <1>1, <2>1
    <3> QED BY <1>2, <1>6, <2>1, <3>1
  <2>2. CASE L # 0
    <3>1. 1 \in 1..L
      BY <1>1, <2>2
    <3> QED BY <1>2, <1>6, <2>2, <3>1
  <2> QED BY <2>1, <2>2
<1> QED BY <1>10, <1>11, <1>12

-----------------------------------------------------------------------------
(* Peers and network.                                                       *)

\* The invariant, put together from its parts.
LEMMA Together ==
  ASSUME TypeOK', Distinct', \A d \in Conns : Held(d)' /\ Waits(d)', fault' => shared'
  PROVE  Inv'
BY DEF Inv

\* A peer registers: its registration goes behind what it sent before, if anything.
LEMMA SendRegisterStep ==
  ASSUME Inv, NEW c \in Conns, SendRegister(c)
  PROVE  Inv'
<1> USE DEF SendRegister, server
<1>1. wire' = [wire EXCEPT ![c] = @ \o Units(Register)] /\ UNCHANGED <<buf, sent, unknown>>
  OBVIOUS
<1>2. Held(c) /\ TypeOK /\ asked[c] = FALSE /\ registered[c] = FALSE
  BY DEF Inv, Held, Registers, TypeOK
<1>3. /\ wire' \in [Conns -> Seq(Unit)] /\ \A d \in Conns : d # c => Rest(d)' = Rest(d)
      /\ Rest(c)' \in Seq(Unit) /\ Len(Rest(c)') = Len(Rest(c)) + Full(Register)
      /\ \A i \in 1..Len(Rest(c)) : Rest(c)'[i] = Rest(c)[i]
  BY <1>1, Pushed
<1>4. asked'[c] = TRUE /\ \A d \in Conns : d # c => asked'[d] = asked[d]
  BY <1>2 DEF TypeOK
<1>5. /\ sent[c] = <<>> /\ got[c] = <<>> /\ (~shared => toRead[c] = 0)
      /\ Rest(c) = <<>> \/ \E m \in unknown : Rest(c) = Units(m)
  BY <1>2 DEF Held, Before
<1>6. Rest(c) # <<>> => Rest(c)[Len(Rest(c))][1] \in unknown
  BY <1>2, <1>5 DEF Held, Ends
<1>7. \A x, y : Follows(c, x, y) => Follows(c, x, y)'
  BY DEF Follows
<1>8. \A x : Rest(c) # <<>> /\ x = Rest(c)[Len(Rest(c))][1] => Follows(c, x, Register)'
  BY <1>6 DEF Follows
<1>9. /\ Chained(c)'
      /\ Rest(c)' # <<>> /\ Rest(c)'[Len(Rest(c)')] = <<Register, Full(Register)>>
      /\ IF Rest(c) = <<>> THEN Rest(c)'[1] = <<Register, 1>> ELSE Rest(c)'[1] = Rest(c)[1]
  BY <1>1, <1>7, <1>8, PushedChain
<1>10. \A m \in unknown : /\ Full(m) = 2 /\ Units(m)[1] = <<m, 1>> /\ Len(Units(m)) = 2
                          /\ m # Register /\ m \in Msgs
  <2> SUFFICES ASSUME NEW m \in unknown
               PROVE  /\ Full(m) = 2 /\ Units(m)[1] = <<m, 1>> /\ Len(Units(m)) = 2
                      /\ m # Register /\ m \in Msgs
    OBVIOUS
  <2>1. m \in Msgs /\ m # Register /\ Size[m] = 0
    BY <1>2, FramingAssumption DEF TypeOK, Inv, Distinct
  <2>2. Full(m) = 2
    BY <2>1 DEF Full, Payload, Header
  <2>3. Len(Units(m)) = Full(m) /\ \A i \in 1..Full(m) : Units(m)[i] = <<m, i>>
    BY <2>1, UnitFacts
  <2> QED BY <2>1, <2>2, <2>3
<1>11. Ends(c)'
  BY <1>1, <1>4, <1>5, <1>9 DEF Ends
<1>12. Before(c)'
  <2>1. Rest(c)'[1][2] = 1 /\ Rest(c)'[1][1] \in {Register} \cup unknown
    <3>1. CASE Rest(c) = <<>>
      BY <1>9, <3>1
    <3>2. CASE \E m \in unknown : Rest(c) = Units(m)
      <4>1. PICK m \in unknown : Rest(c) = Units(m)
        BY <3>2
      <4>2. Rest(c) # <<>> /\ Rest(c)[1] = <<m, 1>>
        BY <1>10, <4>1
      <4> QED BY <1>9, <4>2
    <3> QED BY <1>5, <3>1, <3>2
  <2> QED BY <1>1, <1>4, <1>5, <1>9, <2>1 DEF Before
<1>13. Registers(c)'
  <2>1. Full(Register) = 2
    BY DEF Full, Payload, Header
  <2>2. ASSUME NEW k \in 1..Len(Rest(c)')
        PROVE  k <= IF Rest(c)'[1][1] = Register THEN 2 ELSE 4
    <3>1. CASE Rest(c) = <<>>
      BY <1>3, <1>9, <2>1, <3>1
    <3>2. CASE \E m \in unknown : Rest(c) = Units(m)
      <4>1. PICK m \in unknown : Rest(c) = Units(m)
        BY <3>2
      <4>2. Rest(c) # <<>> /\ Rest(c)[1] = <<m, 1>> /\ Len(Rest(c)) = 2 /\ m # Register
        BY <1>10, <4>1
      <4>3. Rest(c)'[1][1] # Register /\ Len(Rest(c)') = 4
        BY <1>3, <1>9, <2>1, <4>2
      <4> QED BY <4>3
    <3> QED BY <1>5, <3>1, <3>2
  <2>3. registered'[c] = FALSE
    BY <1>2
  <2> QED BY <2>2, <2>3 DEF Registers, Header
<1>14. Aligned(c)' /\ Delivered(c)'
  BY <1>2, <1>5 DEF Aligned, Delivered
<1>15. Held(c)'
  BY <1>9, <1>11, <1>12, <1>13, <1>14 DEF Held
<1>16. \A d \in Conns : Held(d)'
  <2> SUFFICES ASSUME NEW d \in Conns, d # c PROVE Held(d)'
    BY <1>15
  <2>1. Rest(d)' = Rest(d) /\ asked'[d] = asked[d]
    BY <1>3, <1>4
  <2> QED BY <2>1, Stays
<1>17. \A d \in Conns : Waits(d)'
  BY StillWaits
<1>18. TypeOK'
  BY <1>2, <1>3 DEF TypeOK
<1>19. Distinct'
  BY DEF Inv, Distinct
<1> QED BY <1>16, <1>17, <1>18, <1>19, Together DEF Inv

\* A peer sends a message behind all that it sent.
LEMMA SendStep ==
  ASSUME Inv, NEW c \in Conns, NEW m \in Msgs, Send(c, m)
  PROVE  Inv'
<1> USE DEF Send, server
<1>1. wire' = [wire EXCEPT ![c] = @ \o Units(m)] /\ UNCHANGED <<buf, unknown, asked>>
  OBVIOUS
<1>2. Held(c) /\ TypeOK /\ Distinct /\ asked[c] = TRUE
  BY DEF Inv, TypeOK
<1>3. /\ wire' \in [Conns -> Seq(Unit)] /\ \A d \in Conns : d # c => Rest(d)' = Rest(d)
      /\ Rest(c)' \in Seq(Unit) /\ Len(Rest(c)') = Len(Rest(c)) + Full(m)
      /\ \A i \in 1..Len(Rest(c)) : Rest(c)'[i] = Rest(c)[i]
      /\ \A i \in 1..Full(m) : Rest(c)'[Len(Rest(c)) + i] = <<m, i>>
  BY <1>1, Pushed
<1> DEFINE q == sent[c]
           r == sent'[c]
           L == Len(q)
<1>4. /\ q \in Seq(Msgs) /\ r = Append(q, m) /\ L \in Nat /\ sent' \in [Conns -> Seq(Msgs)]
      /\ \A d \in Conns : d # c => sent'[d] = sent[d]
  BY <1>2 DEF TypeOK
<1>5. /\ r \in Seq(Msgs) /\ Len(r) = L + 1 /\ r[L + 1] = m /\ r # <<>>
      /\ \A i \in 1..L : r[i] = q[i]
  <2>1. q \in Seq(Msgs) /\ r = Append(q, m)
    BY <1>4
  <2> HIDE DEF q, r
  <2>2. /\ r \in Seq(Msgs) /\ Len(r) = Len(q) + 1 /\ r[Len(q) + 1] = m
        /\ \A i \in 1..Len(q) : r[i] = q[i]
    BY <2>1, AppendProperties
  <2>3. r # <<>>
    BY <2>1
  <2> QED BY <2>2, <2>3
<1>6. q # <<>> <=> L > 0
  <2>1. q \in Seq(Msgs)
    BY <1>4
  <2> HIDE DEF q
  <2>2. Len(q) \in Nat /\ (q = <<>> <=> Len(q) = 0)
    BY <2>1
  <2> QED BY <2>2
<1>7. \A x, y : Follows(c, x, y) => Follows(c, x, y)'
  <2> SUFFICES ASSUME NEW x, NEW y, Follows(c, x, y) PROVE Follows(c, x, y)'
    OBVIOUS
  <2>1. CASE \E i \in 1..L - 1 : q[i] = x /\ q[i + 1] = y
    <3>1. PICK i \in 1..L - 1 : q[i] = x /\ q[i + 1] = y
      BY <2>1
    <3> HIDE DEF q, r, L
    <3>2. i \in 1..L /\ i + 1 \in 1..L /\ i \in 1..Len(r) - 1
      BY <1>4, <1>5
    <3>3. r[i] = x /\ r[i + 1] = y
      BY <1>5, <3>1, <3>2
    <3> QED BY <3>2, <3>3 DEF Follows, r
  <2>2. CASE x = Register /\ q # <<>> /\ y = q[1]
    <3> HIDE DEF q, r, L
    <3>1. 1 \in 1..L
      BY <1>4, <1>6, <2>2
    <3>2. r # <<>> /\ y = r[1]
      BY <1>5, <2>2, <3>1
    <3> QED BY <2>2, <3>2 DEF Follows, r
  <2>3. CASE x \in unknown /\ y = Register
    BY <1>1, <2>3 DEF Follows
  <2> QED BY <2>1, <2>2, <2>3 DEF Follows
<1>8. \A x : Rest(c) # <<>> /\ x = Rest(c)[Len(Rest(c))][1] => Follows(c, x, m)'
  <2> SUFFICES ASSUME NEW x, Rest(c) # <<>>, x = Rest(c)[Len(Rest(c))][1] PROVE Follows(c, x, m)'
    OBVIOUS
  <2>1. IF q # <<>> THEN x = q[L] ELSE x = Register
    BY <1>2 DEF Held, Ends
  <2>2. CASE q # <<>>
    <3> HIDE DEF q, r, L
    <3>1. L \in 1..L /\ L \in 1..Len(r) - 1
      BY <1>4, <1>5, <1>6, <2>2
    <3>2. r[L] = x /\ r[L + 1] = m
      BY <1>5, <2>1, <2>2, <3>1
    <3> QED BY <3>1, <3>2 DEF Follows, r
  <2>3. CASE q = <<>>
    <3> HIDE DEF q, r, L
    <3>1. L + 1 = 1
      BY <1>4, <1>6, <2>3
    <3>2. r # <<>> /\ m = r[1]
      BY <1>5, <3>1
    <3> QED BY <2>1, <2>3, <3>2 DEF Follows, r
  <2> QED BY <2>2, <2>3
<1>9. /\ Chained(c)'
      /\ Rest(c)' # <<>> /\ Rest(c)'[Len(Rest(c)')] = <<m, Full(m)>>
      /\ IF Rest(c) = <<>> THEN Rest(c)'[1] = <<m, 1>> ELSE Rest(c)'[1] = Rest(c)[1]
  BY <1>1, <1>7, <1>8, PushedChain
<1>11. Ends(c)'
  BY <1>5, <1>9 DEF Ends
<1>12. Before(c)'
  <2>1. ~registered[c] => Rest(c) # <<>> /\ Rest(c)[1][2] = 1 /\ Rest(c)[1][1] \in {Register} \cup unknown
    BY <1>2 DEF Held, Before
  <2>2. ~registered[c] => got[c] = <<>> /\ (~shared => toRead[c] = 0)
    BY <1>2 DEF Held, Before
  <2> QED BY <1>1, <1>2, <1>9, <2>1, <2>2 DEF Before
<1>13. Registers(c)'
  <2>1. /\ \A k \in 1..Len(Rest(c)) : Rest(c)[k][1] = Register =>
             ~registered[c] /\ k <= IF Rest(c)[1][1] = Register THEN Header ELSE 2 * Header
    BY <1>2 DEF Held, Registers
  <2>2. ASSUME NEW k \in 1..Len(Rest(c)'), Rest(c)'[k][1] = Register
        PROVE  ~registered[c] /\ k <= IF Rest(c)'[1][1] = Register THEN Header ELSE 2 * Header
    <3>1. Len(Rest(c)) \in Nat /\ Full(m) \in Nat
      BY <1>2, RestFacts, UnitFacts
    <3>2. k <= Len(Rest(c))
      <4> SUFFICES ASSUME ~(k <= Len(Rest(c))) PROVE FALSE
        OBVIOUS
      <4> DEFINE j == k - Len(Rest(c))
      <4>1. j \in 1..Full(m) /\ Len(Rest(c)) + j = k
        BY <1>3, <3>1
      <4>2. Rest(c)'[k] = <<m, j>>
        BY <1>3, <4>1
      <4> QED BY <2>2, <4>2, FramingAssumption
    <3>3. k \in 1..Len(Rest(c))
      BY <3>1, <3>2
    <3>4. Rest(c) # <<>>
      BY <3>3
    <3>5. Rest(c)'[k] = Rest(c)[k] /\ Rest(c)'[1] = Rest(c)[1]
      BY <1>3, <1>9, <3>3, <3>4
    <3> QED BY <2>1, <2>2, <3>3, <3>5
  <2> QED BY <1>2, <2>2 DEF Held, Registers
<1>14. Aligned(c)'
  <2> SUFFICES ASSUME ~shared, registered[c] PROVE Aligned(c)'
    BY DEF Aligned
  <2> DEFINE g == Len(got[c])
  <2>1. /\ toRead[c] = 0 /\ Rest(c) = <<>> => g = L
        /\ toRead[c] = 0 /\ Rest(c) # <<>> => g < L /\ Rest(c)[1] = <<q[g + 1], 1>>
        /\ toRead[c] > 0 =>
             /\ g < L
             /\ curMsg[c] = q[g + 1]
             /\ toRead[c] = Payload(curMsg[c])
             /\ Rest(c) # <<>> /\ Rest(c)[1] = <<curMsg[c], Header + 1>>
    BY <1>2 DEF Held, Aligned
  <2>2. g \in Nat
    BY <1>2 DEF TypeOK
  <2>3. g < L => g < L + 1 /\ r[g + 1] = q[g + 1]
    <3> HIDE DEF g, L, q, r
    <3> QED BY <1>4, <1>5, <2>2
  <2>4. g = L => g < L + 1 /\ r[g + 1] = m
    <3> HIDE DEF g, L, q, r
    <3> QED BY <1>4, <1>5, <2>2
  <2>5. /\ toRead[c] = 0 => g < Len(r) /\ Rest(c)'[1] = <<r[g + 1], 1>>
        /\ toRead[c] > 0 =>
             /\ g < Len(r)
             /\ curMsg[c] = r[g + 1]
             /\ toRead[c] = Payload(curMsg[c])
             /\ Rest(c)'[1] = <<curMsg[c], Header + 1>>
    <3> HIDE DEF g, L, q, r
    <3> QED BY <1>5, <1>9, <2>1, <2>3, <2>4
  <2> QED BY <1>9, <2>5 DEF Aligned
<1>15. Delivered(c)'
  <2> SUFFICES ASSUME ~shared PROVE Delivered(c)'
    BY DEF Delivered
  <2>1. \A i \in 1..Len(got[c]) : got[c][i].msg = q[i] /\ got[c][i].payload = Own(q[i])
    BY <1>2 DEF Held, Delivered
  <2>2. Len(got[c]) \in Nat /\ Len(got[c]) <= L
    BY <1>2 DEF TypeOK
  <2>3. \A i \in 1..Len(got[c]) : r[i] = q[i]
    <3> HIDE DEF q, r, L
    <3> QED BY <1>4, <1>5, <2>2
  <2> QED BY <2>1, <2>3 DEF Delivered
<1>16. Held(c)'
  BY <1>9, <1>11, <1>12, <1>13, <1>14, <1>15 DEF Held
<1>17. \A d \in Conns : Held(d)'
  <2> SUFFICES ASSUME NEW d \in Conns, d # c PROVE Held(d)'
    BY <1>16
  <2>1. Rest(d)' = Rest(d) /\ sent'[d] = sent[d]
    BY <1>3, <1>4
  <2> QED BY <2>1, Stays
<1>18. \A d \in Conns : Waits(d)'
  BY StillWaits
<1>19. TypeOK'
  <2>1. \A d \in Conns : ~shared => Len(got[d]) <= Len(sent'[d])
    <3> SUFFICES ASSUME NEW d \in Conns, ~shared PROVE Len(got[d]) <= Len(sent'[d])
      OBVIOUS
    <3>1. Len(got[d]) \in Nat /\ Len(got[d]) <= Len(sent[d])
      BY <1>2 DEF TypeOK
    <3>2. d = c => Len(got[d]) <= L /\ Len(sent'[d]) = L + 1
      BY <1>5, <3>1
    <3> HIDE DEF L
    <3> QED BY <1>4, <3>1, <3>2
  <2> QED BY <1>2, <1>3, <1>4, <2>1 DEF TypeOK
<1>20. Distinct'
  <2>1. m \notin unknown /\ \A d \in Conns : \A i \in 1..Len(sent[d]) : sent[d][i] # m
    <3>1. \A d \in Conns : m \notin ToSet(sent[d])
      BY DEF Used
    <3> QED BY <3>1 DEF Used, ToSet
  <2>2. ASSUME NEW d \in Conns, NEW i \in 1..Len(sent'[d])
        PROVE  sent'[d][i] \notin unknown /\ \A j \in 1..Len(sent'[d]) : sent'[d][i] = sent'[d][j] => i = j
    <3>1. CASE d # c
      BY <1>2, <1>4, <3>1 DEF Distinct
    <3>2. CASE d = c
      <4>1. \A k \in 1..L : q[k] # m /\ q[k] \notin unknown /\ \A j \in 1..L : q[k] = q[j] => k = j
        BY <1>2, <2>1 DEF Distinct
      <4>2. \A k \in 1..Len(r) : k \in 1..L \/ k = L + 1
        <5> HIDE DEF q, r, L
        <5> QED BY <1>4, <1>5
      <4>3. \A k \in 1..Len(r) : r[k] \notin unknown /\ \A j \in 1..Len(r) : r[k] = r[j] => k = j
        <5> HIDE DEF q, r, L
        <5> QED BY <1>5, <2>1, <4>1, <4>2
      <4> QED BY <3>2, <4>3
    <3> QED BY <3>1, <3>2
  <2> QED BY <1>2, <2>2 DEF Distinct
<1> QED BY <1>17, <1>18, <1>19, <1>20, Together DEF Inv

\* A peer that has not registered sends a message.
LEMMA SendUnknownStep ==
  ASSUME Inv, NEW c \in Conns, NEW m \in Msgs, SendUnknown(c, m)
  PROVE  Inv'
<1> USE DEF SendUnknown, server
<1>1. Held(c) /\ TypeOK /\ Distinct /\ asked[c] = FALSE /\ registered[c] = FALSE
  BY DEF Inv, Held, Registers, TypeOK
<1>2. Units(m) \in Seq(Unit) /\ <<>> \o Units(m) = Units(m)
  BY UnitFacts, ConcatEmptySeq
<1>3. wire' = [wire EXCEPT ![c] = @ \o Units(m)] /\ UNCHANGED buf
  BY <1>1, <1>2 DEF TypeOK
<1>4. wire' \in [Conns -> Seq(Unit)] /\ \A d \in Conns : d # c => Rest(d)' = Rest(d)
  BY <1>3, Pushed
<1>5. Rest(c) = <<>> /\ Rest(c)' = Units(m)
  <2>1. Rest(c) = <<>>
    BY <1>1, ConcatEmptySeq DEF Rest, TypeOK
  <2>2. wire'[c] = Units(m) /\ buf'[c] = <<>>
    BY <1>1 DEF TypeOK
  <2> QED BY <1>2, <2>1, <2>2 DEF Rest
<1>6. \A x, y : Follows(c, x, y) => Follows(c, x, y)'
  BY DEF Follows
<1>7. Chained(c)' /\ Rest(c)' # <<>> /\ Rest(c)'[Len(Rest(c)')] = <<m, Full(m)>>
  BY <1>3, <1>5, <1>6, PushedChain
<1>8. sent[c] = <<>> /\ got[c] = <<>> /\ (~shared => toRead[c] = 0)
  BY <1>1 DEF Held, Before
<1>9. Ends(c)'
  BY <1>1, <1>7, <1>8 DEF Ends
<1>10. Before(c)'
  BY <1>1, <1>5, <1>8 DEF Before, Units
<1>11. Registers(c)'
  <2>1. Full(m) \in Nat /\ Len(Units(m)) = Full(m) /\ \A i \in 1..Full(m) : Units(m)[i] = <<m, i>>
    BY UnitFacts
  <2>2. \A k \in 1..Len(Rest(c)') : Rest(c)'[k][1] # Register
    BY <1>5, <2>1, FramingAssumption
  <2> QED BY <1>1, <2>2 DEF Registers
<1>12. Aligned(c)' /\ Delivered(c)'
  BY <1>1, <1>8 DEF Aligned, Delivered
<1>13. Held(c)'
  BY <1>7, <1>9, <1>10, <1>11, <1>12 DEF Held
<1>14. \A d \in Conns : Held(d)'
  <2> SUFFICES ASSUME NEW d \in Conns, d # c PROVE Held(d)'
    BY <1>13
  <2>1. Rest(d)' = Rest(d)
    BY <1>4
  <2> QED BY <2>1, Stays
<1>15. \A d \in Conns : Waits(d)'
  BY StillWaits
<1>16. TypeOK'
  BY <1>1, <1>4 DEF TypeOK
<1>17. Distinct'
  <2>1. \A d \in Conns : \A i \in 1..Len(sent[d]) : sent[d][i] # m
    <3>1. \A d \in Conns : m \notin ToSet(sent[d])
      BY DEF Used
    <3> QED BY <3>1 DEF ToSet
  <2> QED BY <1>1, <2>1 DEF Distinct
<1> QED BY <1>14, <1>15, <1>16, <1>17, Together DEF Inv

\* Bytes come: no unit changes its place.
LEMMA ArriveStep ==
  ASSUME Inv, NEW c \in Conns, NEW k \in 1..Len(wire[c]), Arrive(c, k)
  PROVE  Inv'
<1> USE DEF Arrive
<1>1. TypeOK /\ Distinct /\ \A d \in Conns : Held(d) /\ Waits(d)
  BY DEF Inv
<1>2. buf[c] \in Seq(Unit) /\ wire[c] \in Seq(Unit) /\ Len(wire[c]) \in Nat
  BY <1>1, RestFacts
<1>3. k \in 0..Len(wire[c]) /\ k + 1 \in 1..Len(wire[c]) + 1 /\ Len(wire[c]) \in k + 1 - 1..Len(wire[c])
      /\ 1 \in 1..Len(wire[c]) + 1 /\ k \in 1 - 1..Len(wire[c])
  BY <1>2
<1>4. SubSeq(wire[c], k + 1, Len(wire[c])) \in Seq(Unit) /\ SubSeq(wire[c], 1, k) \in Seq(Unit)
  BY <1>2, <1>3, SubSeqFacts
<1>5. buf[c] \o SubSeq(wire[c], 1, k) \in Seq(Unit)
  BY <1>2, <1>4, ConcatProperties
<1>6. /\ wire'[c] = SubSeq(wire[c], k + 1, Len(wire[c])) /\ buf'[c] = buf[c] \o SubSeq(wire[c], 1, k)
      /\ \A d \in Conns : d # c => wire'[d] = wire[d] /\ buf'[d] = buf[d]
  BY <1>1 DEF TypeOK
<1>7. Rest(c)' = Rest(c)
  <2>1. (buf[c] \o SubSeq(wire[c], 1, k)) \o SubSeq(wire[c], k + 1, Len(wire[c])) = buf[c] \o wire[c]
    BY <1>2, <1>3, MovePrefix
  <2> QED BY <1>6, <2>1 DEF Rest
<1>8. \A d \in Conns : Rest(d)' = Rest(d)
  BY <1>6, <1>7 DEF Rest
<1>9. \A d \in Conns : Held(d)'
  BY <1>8, Stays
<1>10. \A d \in Conns : Waits(d)'
  <2> SUFFICES ASSUME NEW d \in Conns, d # c PROVE Waits(d)'
    BY DEF Waits
  <2>1. running # d
    BY FramingAssumption
  <2> QED BY <1>6, <2>1, StillWaits
<1>11. TypeOK'
  <2>1. wire' \in [Conns -> Seq(Unit)] /\ buf' \in [Conns -> Seq(Unit)]
    BY <1>1, <1>4, <1>5 DEF TypeOK
  <2> QED BY <1>1, <2>1 DEF TypeOK
<1>12. Distinct'
  BY <1>1 DEF Distinct
<1> QED BY <1>9, <1>10, <1>11, <1>12, Together DEF Inv

-----------------------------------------------------------------------------
(* The handler.                                                             *)

\* It returns without having consumed anything.
LEMMA ReturnStep ==
  ASSUME Inv, NEW c \in Conns, running = c, Return, UNCHANGED <<side, shared, sent, unknown, asked, wire>>,
         ~shared /\ registered[c] => Len(buf[c]) < (IF toRead[c] > 0 THEN toRead[c] ELSE Header)
  PROVE  Inv'
<1> USE DEF Return
<1>1. TypeOK /\ Distinct
  BY DEF Inv
<1>2. \A d \in Conns : Rest(d)' = Rest(d)
  BY DEF Rest
<1>3. \A d \in Conns : Held(d)'
  BY <1>2, Stays
<1>4. \A d \in Conns : Waits(d)'
  <2> SUFFICES ASSUME NEW d \in Conns, d # c PROVE Waits(d)'
    BY DEF Waits
  <2> QED BY StillWaits
<1>5. TypeOK'
  BY <1>1 DEF TypeOK
<1>6. Distinct'
  BY <1>1 DEF Distinct
<1> QED BY <1>3, <1>4, <1>5, <1>6, Together DEF Inv

\* The rest of the invariant when units of a connection were consumed.
LEMMA Consumed ==
  ASSUME Inv, NEW c \in Conns, running = c, UNCHANGED <<side, shared, sent, unknown, asked, wire, fault>>,
         NEW n \in 0..Len(buf[c]), buf' = [buf EXCEPT ![c] = Drop(c, n)],
         running' \in Conns \cup {None},
         registered' \in [Conns -> BOOLEAN], toRead' \in [Conns -> Nat],
         curMsg' \in [Conns -> Msgs \cup {None}],
         got' \in [Conns -> Seq([msg : Msgs \cup {None}, payload : Seq(Unit)])],
         resumed' \in [Conns -> BOOLEAN],
         \A d \in Conns : d # c =>
           /\ registered'[d] = registered[d] /\ got'[d] = got[d] /\ resumed'[d] = resumed[d]
           /\ ~shared => toRead'[d] = toRead[d] /\ curMsg'[d] = curMsg[d],
         ~shared => Len(got'[c]) <= Len(sent[c]),
         Held(c)', Waits(c)'
  PROVE  Inv'
<1>1. TypeOK /\ Distinct /\ (fault => shared)
  BY DEF Inv
<1>2. buf' \in [Conns -> Seq(Unit)] /\ \A d \in Conns : d # c => Rest(d)' = Rest(d) /\ buf'[d] = buf[d]
  BY Dropped
<1>3. \A d \in Conns : Held(d)' /\ Waits(d)'
  <2> SUFFICES ASSUME NEW d \in Conns, d # c PROVE Held(d)' /\ Waits(d)'
    OBVIOUS
  <2>1. /\ Rest(d)' = Rest(d) /\ buf'[d] = buf[d]
        /\ registered'[d] = registered[d] /\ got'[d] = got[d] /\ resumed'[d] = resumed[d]
        /\ ~shared => toRead'[d] = toRead[d] /\ curMsg'[d] = curMsg[d]
    BY <1>2
  <2>2. Held(d)'
    BY <2>1, Stays
  <2>3. Waits(d)'
    BY <2>1, StillWaits
  <2> QED BY <2>2, <2>3
<1>4. TypeOK'
  <2>1. \A d \in Conns : ~shared => Len(got'[d]) <= Len(sent[d])
    BY <1>1 DEF TypeOK
  <2> QED BY <1>1, <1>2, <2>1 DEF TypeOK
<1>5. Distinct'
  BY <1>1 DEF Distinct
<1> QED BY <1>1, <1>3, <1>4, <1>5, Together

\* The first message of a connection is consumed, whatever it is.
LEMMA HandleUnregisteredStep ==
  ASSUME Inv, NEW c \in Conns, HandleUnregistered(c)
  PROVE  Inv'
<1> USE DEF HandleUnregistered
<1>1. TypeOK /\ Distinct /\ Held(c) /\ registered[c] = FALSE
  BY DEF Inv, TypeOK
<1>2. CASE Len(buf[c]) < Header
  BY <1>2, ReturnStep
<1>3. CASE ~(Len(buf[c]) < Header)
  <2> DEFINE s == Rest(c)
             t == Rest(c)'
             x == s[1][1]
  <2>1. /\ registered' = [registered EXCEPT ![c] = (buf[c][1][1] = Register)]
        /\ buf' = [buf EXCEPT ![c] = Drop(c, 2)]
        /\ CallAgain(c, TRUE)
        /\ UNCHANGED <<toRead, curMsg, got, resumed, fault, side, shared, sent, unknown, asked, wire>>
    BY <1>3 DEF Header
  <2>2. 2 \in 0..Len(buf[c]) /\ 1 \in 1..Len(buf[c])
    BY <1>1, <1>3, RestFacts DEF Header
  <2>3. Len(s) \in Nat /\ Len(s) >= 2 /\ s[1] = buf[c][1]
    <3>1. /\ Len(s) \in Nat /\ Len(buf[c]) \in Nat /\ Len(wire[c]) \in Nat
          /\ Len(s) = Len(buf[c]) + Len(wire[c])
      BY <1>1, RestFacts
    <3>2. s[1] = buf[c][1]
      BY <1>1, <2>2, RestFacts
    <3> DEFINE b == Len(buf[c])
               w == Len(wire[c])
               L == Len(s)
    <3>3. L \in Nat /\ b \in Nat /\ w \in Nat /\ L = b + w /\ 2 \in 0..b
      BY <2>2, <3>1
    <3> HIDE DEF b, w, L
    <3>4. L >= 2
      BY <3>3
    <3> QED BY <3>1, <3>2, <3>4 DEF L
  <2>4. /\ got[c] = <<>> /\ (~shared => toRead[c] = 0)
        /\ asked[c] => s[1][2] = 1 /\ x \in {Register} \cup unknown
        /\ ~asked[c] => sent[c] = <<>> /\ \E m \in unknown : s = Units(m)
    <3>1. s # <<>>
      BY <2>3
    <3> QED BY <1>1, <3>1 DEF Held, Before
  <2>5. \A m \in unknown : /\ m \in Msgs /\ m # Register /\ Full(m) = 2
                           /\ Units(m)[1] = <<m, 1>> /\ Len(Units(m)) = 2
    <3> SUFFICES ASSUME NEW m \in unknown
                 PROVE  /\ m \in Msgs /\ m # Register /\ Full(m) = 2
                        /\ Units(m)[1] = <<m, 1>> /\ Len(Units(m)) = 2
      OBVIOUS
    <3>1. m \in Msgs /\ m # Register /\ Size[m] = 0
      BY <1>1, FramingAssumption DEF TypeOK, Distinct
    <3>2. Full(m) = 2
      BY <3>1 DEF Full, Payload, Header
    <3>3. Len(Units(m)) = Full(m) /\ \A i \in 1..Full(m) : Units(m)[i] = <<m, i>>
      BY <3>1, UnitFacts
    <3> QED BY <3>1, <3>2, <3>3
  <2>6. ~asked[c] => Len(s) = 2 /\ s[1][2] = 1 /\ x \in unknown
    BY <2>4, <2>5
  <2>7. /\ x \in {Register} \cup unknown /\ x \in Msgs \cup {Register} /\ Full(x) = 2 /\ s[1] = <<x, 1>>
    <3>1. x \in {Register} \cup unknown /\ s[1][2] = 1
      BY <2>4, <2>6
    <3>2. Full(Register) = 2
      BY DEF Full, Payload, Header
    <3>3. 1 \in 1..Len(s)
      BY <2>3
    <3>4. s[1] = <<s[1][1], s[1][2]>>
      BY <1>1, <3>3, RestFacts
    <3> QED BY <2>5, <3>1, <3>2, <3>4
  <2>8. /\ s[2] = <<x, 2>>
        /\ 2 < Len(s) => s[3][2] = 1 /\ Follows(c, x, s[3][1])
    <3>1. 1 \in 1..Full(x) /\ Full(x) - 1 + 1 = 2
      BY <2>7
    <3>2. Len(s) > 0 /\ Chained(c) /\ Ends(c)
      BY <1>1, <2>3 DEF Held
    <3>3. LET n == Full(x) - 1 + 1 IN
          /\ s[n] = <<x, Full(x)>>
          /\ n < Len(s) => s[n + 1][2] = 1 /\ Follows(c, x, s[n + 1][1])
      BY <1>1, <2>7, <3>1, <3>2, RunEnds
    <3> HIDE DEF s
    <3> QED BY <2>7, <3>1, <3>3
  <2>9. /\ Len(buf'[c]) = Len(buf[c]) - 2 /\ t \in Seq(Unit) /\ Len(t) = Len(s) - 2
        /\ \A i \in 1..Len(s) - 2 : t[i] = s[2 + i]
        /\ Chained(c)' /\ Ends(c)'
    BY <2>1, <2>2, Dropped
  <2>10. /\ t = <<>> <=> Len(s) = 2
         /\ Len(s) # 2 => Len(s) > 2 /\ t[1] = s[3]
    <3> HIDE DEF s, t
    <3>1. t = <<>> <=> Len(t) = 0
      BY <2>9, SMTT(30)
    <3> DEFINE L == Len(s)
    <3>2. L \in Nat /\ L >= 2
      BY <2>3
    <3> HIDE DEF L
    <3>3. /\ L - 2 = 0 <=> L = 2
          /\ L # 2 => L > 2 /\ 1 \in 1..L - 2
      BY <3>2
    <3> QED BY <2>9, <3>1, <3>3 DEF L
  <2>11. Len(s) = 2 => IF sent[c] # <<>> THEN x = sent[c][Len(sent[c])]
                       ELSE IF asked[c] THEN x = Register ELSE x \in unknown
    <3>1. s # <<>>
      BY <2>3
    <3> QED BY <1>1, <2>8, <3>1 DEF Held, Ends
  <2>12. sent[c] \in Seq(Msgs) /\ Len(sent[c]) \in Nat /\ Register \notin Msgs
         /\ \A i \in 1..Len(sent[c]) : sent[c][i] \in Msgs /\ sent[c][i] \notin unknown
    BY <1>1, FramingAssumption DEF TypeOK, Distinct
  <2>13. sent[c] # <<>> => Len(sent[c]) \in 1..Len(sent[c])
    BY <2>12
  <2>14. \A k \in 1..Len(s) : s[k][1] = Register => k <= IF x = Register THEN 2 ELSE 4
    BY <1>1 DEF Held, Registers, Header
  <2>15. registered'[c] = (x = Register)
    BY <1>1, <2>1, <2>3 DEF TypeOK
  <2>16. ASSUME x = Register PROVE Held(c)' /\ Waits(c)'
    <3>1. registered'[c] = TRUE /\ asked[c] = TRUE
      BY <1>1, <2>5, <2>6, <2>15, <2>16 DEF TypeOK
    <3>2. Before(c)'
      BY <3>1 DEF Before
    <3>3. Registers(c)'
      <4>1. ASSUME NEW k \in 1..Len(t) PROVE t[k][1] # Register
        <5> HIDE DEF s, t
        <5>1. 2 + k \in 1..Len(s) /\ k \in 1..Len(s) - 2 /\ ~(2 + k <= 2)
          BY <2>3, <2>9
        <5> QED BY <2>9, <2>14, <2>16, <5>1 DEF x
      <4> QED BY <2>1, <3>1, <4>1 DEF Registers
    <3>4. Aligned(c)'
      <4> SUFFICES ASSUME ~shared PROVE Aligned(c)'
        BY <2>1 DEF Aligned
      <4>1. toRead'[c] = 0 /\ Len(got'[c]) = 0 /\ sent'[c] = sent[c]
        BY <2>1, <2>4
      <4>2. t = <<>> => 0 = Len(sent[c])
        BY <2>10, <2>11, <2>12, <2>13, <2>16
      <4>3. t # <<>> => 0 < Len(sent[c]) /\ t[1] = <<sent[c][0 + 1], 1>>
        <5> SUFFICES ASSUME t # <<>> PROVE 0 < Len(sent[c]) /\ t[1] = <<sent[c][0 + 1], 1>>
          OBVIOUS
        <5>1. Len(s) > 2 /\ t[1] = s[3]
          BY <2>3, <2>10
        <5>2. s[3][2] = 1 /\ Follows(c, Register, s[3][1])
          BY <2>8, <2>16, <5>1
        <5>3. \A i \in 1..Len(sent[c]) - 1 : sent[c][i] # Register
          BY <2>12
        <5>4. sent[c] # <<>> /\ s[3][1] = sent[c][1]
          BY <2>5, <5>2, <5>3 DEF Follows
        <5>5. 3 \in 1..Len(s)
          BY <2>3, <5>1
        <5>6. s[3] = <<s[3][1], s[3][2]>>
          BY <1>1, <5>5, RestFacts
        <5> QED BY <2>12, <2>13, <5>1, <5>2, <5>4, <5>6
      <4> QED BY <4>1, <4>2, <4>3 DEF Aligned
    <3>5. Delivered(c)'
      BY <2>1, <2>4 DEF Delivered
    <3>6. Held(c)'
      BY <2>9, <3>2, <3>3, <3>4, <3>5 DEF Held
    <3>7. Waits(c)'
      <4> SUFFICES ASSUME ~shared, running' # c PROVE Waits(c)'
        BY <2>1 DEF Waits
      <4>1. buf'[c] = <<>>
        BY <2>1 DEF CallAgain
      <4>2. toRead'[c] = 0 /\ Len(buf'[c]) = 0
        BY <2>1, <2>4, <4>1
      <4> QED BY <4>2 DEF Waits, Header
    <3> QED BY <3>6, <3>7
  <2>17. ASSUME x # Register PROVE Held(c)' /\ Waits(c)'
    <3>1. x \in unknown /\ registered'[c] = FALSE
      BY <2>7, <2>15, <2>17
    <3>2. Before(c)'
      <4>1. CASE asked[c]
        <5>1. Len(s) # 2
          BY <2>11, <2>12, <2>13, <2>17, <3>1, <4>1
        <5>2. Len(s) > 2 /\ t[1] = s[3] /\ t # <<>>
          BY <2>3, <2>10, <5>1
        <5>3. s[3][2] = 1 /\ Follows(c, x, s[3][1])
          BY <2>8, <5>2
        <5>4. \A i \in 1..Len(sent[c]) - 1 : sent[c][i] # x
          BY <2>12, <3>1
        <5>5. s[3][1] = Register
          BY <2>17, <5>3, <5>4 DEF Follows
        <5> QED BY <2>1, <2>4, <4>1, <5>2, <5>3, <5>5 DEF Before
      <4>2. CASE ~asked[c]
        <5>1. t = <<>> /\ sent[c] = <<>>
          BY <2>4, <2>6, <2>10, <4>2
        <5> QED BY <2>1, <2>4, <4>2, <5>1 DEF Before
      <4> QED BY <4>1, <4>2
    <3>3. Registers(c)'
      <4>1. ASSUME NEW k \in 1..Len(t), t[k][1] = Register PROVE k <= 2
        <5> HIDE DEF s, t
        <5>1. 2 + k \in 1..Len(s) /\ k \in 1..Len(s) - 2
          BY <2>3, <2>9
        <5>2. 2 + k <= 4
          BY <2>9, <2>14, <2>17, <4>1, <5>1 DEF x
        <5> QED BY <5>2
      <4>2. ASSUME NEW k \in 1..Len(t), t[k][1] = Register
            PROVE  k <= IF t[1][1] = Register THEN Header ELSE 2 * Header
        <5> HIDE DEF s, t
        <5>1. k <= 2 /\ k \in Int
          BY <2>9, <4>1, <4>2
        <5> QED BY <5>1 DEF Header
      <4> QED BY <2>1, <3>1, <4>2 DEF Registers
    <3>4. Aligned(c)' /\ Delivered(c)' /\ Waits(c)'
      BY <2>1, <2>4, <3>1 DEF Aligned, Delivered, Waits
    <3> QED BY <2>9, <3>2, <3>3, <3>4 DEF Held
  <2>18. Held(c)' /\ Waits(c)'
    BY <2>16, <2>17
  <2>19. /\ running' \in Conns \cup {None} /\ registered' \in [Conns -> BOOLEAN]
         /\ \A d \in Conns : d # c => registered'[d] = registered[d]
    BY <1>1, <2>1 DEF CallAgain, TypeOK
  <2>20. /\ toRead' \in [Conns -> Nat] /\ curMsg' \in [Conns -> Msgs \cup {None}]
         /\ got' \in [Conns -> Seq([msg : Msgs \cup {None}, payload : Seq(Unit)])]
         /\ resumed' \in [Conns -> BOOLEAN] /\ (~shared => Len(got'[c]) <= Len(sent[c]))
    BY <1>1, <2>1 DEF TypeOK
  <2> HIDE DEF s, t, x
  <2> QED BY <2>1, <2>2, <2>18, <2>19, <2>20, Consumed
<1> QED BY <1>2, <1>3

\* The units of a payload are taken for the payload of their message.
LEMMA OwnPayload ==
  ASSUME TypeOK, NEW c \in Conns, Chained(c), NEW m \in Msgs, NEW a \in {1, 3}, a <= Full(m),
         Len(buf[c]) > 0, Full(m) - a + 1 <= Len(buf[c]), Rest(c)[1] = <<m, a>>
  PROVE  SubSeq(buf[c], 4 - a, Full(m) - a + 1) = Own(m)
<1> DEFINE b == buf[c]
           s == Rest(c)
           B == Len(b)
           S == Len(s)
           f == Full(m)
           p == Payload(m)
<1>1. /\ f \in Nat /\ p \in Nat /\ f = p + 2
      /\ Own(m) \in Seq(Unit) /\ Len(Own(m)) = p
      /\ \A i \in 1..p : Own(m)[i] = <<m, 2 + i>>
  BY UnitFacts, OwnFacts DEF Header
<1>2. b \in Seq(Unit) /\ B \in Nat /\ \A i \in 1..B : s[i] = b[i]
  BY RestFacts
<1>3. S \in Nat /\ B <= S
  <2>1. S \in Nat /\ B \in Nat /\ Len(wire[c]) \in Nat /\ S = B + Len(wire[c])
    BY RestFacts
  <2> DEFINE w == Len(wire[c])
  <2>2. w \in Nat /\ S = B + w
    BY <2>1
  <2> HIDE DEF S, B, w
  <2>3. B <= S
    BY <2>1, <2>2
  <2> QED BY <2>1, <2>3
<1>4. a \in Nat /\ a <= f /\ B > 0 /\ f - a + 1 <= B /\ s[1] = <<m, a>>
  OBVIOUS
<1>5. a \in 1..f
  <2> HIDE DEF f
  <2> QED BY <1>1, <1>4
<1>6. \A i \in 1..S : i <= f - a + 1 => s[i] = <<m, a + i - 1>>
  <2>1. S > 0
    <3> HIDE DEF S, B
    <3> QED BY <1>2, <1>3, <1>4
  <2> QED BY <1>4, <1>5, <2>1, Run
<1> HIDE DEF b, s, B, S, f, p
<1> DEFINE lo == 4 - a
           hi == f - a + 1
           r == SubSeq(b, lo, hi)
<1>7. lo \in 1..B + 1 /\ hi \in lo - 1..B /\ hi - lo + 1 = p
  <2>1. CASE a = 1
    BY <1>1, <1>2, <1>4, <2>1
  <2>2. CASE a = 3
    BY <1>1, <1>2, <1>4, <2>2
  <2> QED BY <2>1, <2>2
<1>8. /\ r \in Seq(Unit) /\ Len(r) = p
      /\ \A i \in 1..p : r[i] = b[lo + i - 1]
  <2> HIDE DEF lo, hi
  <2>1. /\ SubSeq(b, lo, hi) \in Seq(Unit) /\ Len(SubSeq(b, lo, hi)) = hi - lo + 1
        /\ \A i \in 1..hi - lo + 1 : SubSeq(b, lo, hi)[i] = b[lo + i - 1]
    BY <1>2, <1>7, SubSeqFacts DEF B
  <2> QED BY <1>7, <2>1
<1>9. ASSUME NEW i \in 1..p PROVE r[i] = <<m, 2 + i>>
  <2> DEFINE j == lo + i - 1
  <2>1. j \in 1..B /\ j \in 1..S /\ j <= f - a + 1 /\ a + j - 1 = 2 + i
    <3>1. CASE a = 1
      BY <1>1, <1>2, <1>3, <1>4, <3>1
    <3>2. CASE a = 3
      BY <1>1, <1>2, <1>3, <1>4, <3>2
    <3> QED BY <3>1, <3>2
  <2>2. r[i] = b[j]
    BY <1>8
  <2> HIDE DEF j
  <2> QED BY <1>2, <1>6, <2>1, <2>2
<1> HIDE DEF r, lo, hi
<1>10. r = Own(m)
  BY <1>1, <1>8, <1>9, SeqEqual
<1> QED BY <1>10 DEF r, b, f, lo, hi

\* A connection stays registered.
LEMMA StaysRegistered ==
  ASSUME Inv, NEW c \in Conns, registered[c], NEW n \in 0..Len(buf[c]),
         buf' = [buf EXCEPT ![c] = Drop(c, n)], UNCHANGED <<wire, sent, unknown, asked, registered>>
  PROVE  Before(c)' /\ Registers(c)'
<1>1. Held(c) /\ TypeOK
  BY DEF Inv
<1> DEFINE s == Rest(c)
           t == Rest(c)'
<1>2. asked[c] /\ \A k \in 1..Len(s) : s[k][1] # Register
  BY <1>1 DEF Held, Registers
<1>3. Len(t) = Len(s) - n /\ \A i \in 1..Len(s) - n : t[i] = s[n + i]
  BY Dropped
<1>4. Len(s) \in Nat /\ n \in Nat
  <2>1. Len(s) \in Nat
    BY <1>1, RestFacts
  <2>2. Len(buf[c]) \in Nat
    BY <1>1, RestFacts
  <2> QED BY <2>1, <2>2
<1>5. ASSUME NEW k \in 1..Len(t) PROVE t[k][1] # Register
  <2> HIDE DEF s, t
  <2> DEFINE L == Len(s)
  <2>1. L \in Nat /\ n \in Nat /\ k \in 1..L - n
    BY <1>3, <1>4
  <2> HIDE DEF L
  <2>2. n + k \in 1..L
    BY <2>1
  <2> QED BY <1>2, <1>3, <2>1, <2>2 DEF L
<1>6. Registers(c)'
  BY <1>2, <1>5 DEF Registers
<1>7. Before(c)'
  BY DEF Before
<1> QED BY <1>6, <1>7

\* The next message is handed on, as it was sent.
LEMMA Handed ==
  ASSUME Inv, NEW c \in Conns, ~shared, registered[c], Len(got[c]) < Len(sent[c]),
         NEW m, m = sent[c][Len(got[c]) + 1], NEW n \in 0..Len(buf[c]),
         n \in 1..Len(Rest(c)), Rest(c)[n] = <<m, Full(m)>>,
         n < Len(Rest(c)) => Rest(c)[n + 1][2] = 1 /\ Follows(c, m, Rest(c)[n + 1][1]),
         buf' = [buf EXCEPT ![c] = Drop(c, n)],
         UNCHANGED <<wire, sent, unknown, asked, registered, shared>>,
         got' = [got EXCEPT ![c] = Append(@, [msg |-> m, payload |-> Own(m)])], toRead'[c] = 0
  PROVE  Held(c)' /\ Len(got'[c]) <= Len(sent[c])
<1> DEFINE s == Rest(c)
           t == Rest(c)'
           q == sent[c]
           g == Len(got[c])
           Q == Len(q)
<1>1. Held(c) /\ TypeOK /\ Distinct
  BY DEF Inv
<1>2. q \in Seq(Msgs) /\ Q \in Nat /\ g \in Nat /\ g < Q
  BY <1>1, SMTT(30) DEF TypeOK
<1>3. g + 1 \in 1..Q
  <2> HIDE DEF g, Q
  <2> QED BY <1>2
<1>4. /\ m = q[g + 1] /\ m \in Msgs /\ m # Register /\ m \notin unknown
      /\ \A j \in 1..Q : q[j] = m => j = g + 1
  <2>1. q[g + 1] \in Msgs
    BY <1>2, <1>3, ElementOfSeq
  <2> QED BY <1>1, <1>3, <2>1, FramingAssumption DEF Distinct
<1>6. /\ n \in 1..Len(s) /\ s[n] = <<m, Full(m)>>
      /\ n < Len(s) => s[n + 1][2] = 1 /\ Follows(c, m, s[n + 1][1])
  OBVIOUS
<1>7. /\ t \in Seq(Unit) /\ Len(t) = Len(s) - n /\ \A i \in 1..Len(s) - n : t[i] = s[n + i]
      /\ Chained(c)' /\ Ends(c)'
  BY Dropped
<1>8. Len(s) \in Nat
  BY <1>1, RestFacts
<1>9. /\ t = <<>> => n = Len(s)
      /\ t # <<>> => n < Len(s) /\ n + 1 \in 1..Len(s) /\ t[1] = s[n + 1]
  <2> HIDE DEF s, t
  <2>1. t = <<>> <=> Len(t) = 0
    BY <1>7
  <2> DEFINE L == Len(s)
  <2>2. L \in Nat /\ n \in 1..L
    BY <1>6, <1>8
  <2> HIDE DEF L
  <2>3. /\ L - n = 0 => n = L
        /\ L - n # 0 => n < L /\ n + 1 \in 1..L /\ 1 \in 1..L - n
    BY <2>2
  <2> QED BY <1>7, <2>1, <2>3 DEF L
<1>10. /\ got'[c] = Append(got[c], [msg |-> m, payload |-> Own(m)])
       /\ got[c] \in Seq([msg : Msgs \cup {None}, payload : Seq(Unit)])
  BY <1>1 DEF TypeOK
<1>11. /\ Len(got'[c]) = g + 1 /\ got'[c][g + 1] = [msg |-> m, payload |-> Own(m)]
       /\ \A i \in 1..g : got'[c][i] = got[c][i]
  <2>1. [msg |-> m, payload |-> Own(m)] \in [msg : Msgs \cup {None}, payload : Seq(Unit)]
    BY <1>4, OwnFacts
  <2> QED BY <1>10, <2>1, AppendProperties
<1>12. Before(c)' /\ Registers(c)'
  BY StaysRegistered
<1>13. t = <<>> => g + 1 = Q
  <2> SUFFICES ASSUME t = <<>> PROVE g + 1 = Q
    OBVIOUS
  <2>1. s[Len(s)] = <<m, Full(m)>> /\ Len(s) # 0
    BY <1>6, <1>8, <1>9
  <2>2. s # <<>>
    BY <2>1
  <2>3. q # <<>> /\ Q \in 1..Q
    <3> HIDE DEF q
    <3> QED BY <1>2, <1>3
  <2>4. m = q[Q]
    BY <1>1, <2>1, <2>2, <2>3 DEF Held, Ends
  <2> QED BY <1>4, <2>3, <2>4
<1>14. t # <<>> => g + 1 < Q /\ t[1] = <<q[g + 1 + 1], 1>>
  <2> SUFFICES ASSUME t # <<>> PROVE g + 1 < Q /\ t[1] = <<q[g + 1 + 1], 1>>
    OBVIOUS
  <2> DEFINE y == s[n + 1]
  <2>1. t[1] = y /\ y[2] = 1 /\ Follows(c, m, y[1]) /\ n + 1 \in 1..Len(s)
    BY <1>6, <1>9
  <2>2. y = <<y[1], y[2]>>
    BY <1>1, <2>1, RestFacts
  <2>3. \E i \in 1..Q - 1 : q[i] = m /\ q[i + 1] = y[1]
    BY <1>4, <2>1 DEF Follows
  <2> HIDE DEF y
  <2>4. PICK i \in 1..Q - 1 : q[i] = m /\ q[i + 1] = y[1]
    BY <2>3
  <2> HIDE DEF Q, g
  <2>5. i \in 1..Q /\ i < Q
    BY <1>2
  <2>6. i = g + 1
    BY <1>4, <2>4, <2>5
  <2> QED BY <2>1, <2>2, <2>4, <2>5, <2>6
<1>15. Aligned(c)'
  BY <1>11, <1>13, <1>14, SMTT(30) DEF Aligned
<1>16. Delivered(c)'
  <2>1. \A i \in 1..g : got[c][i].msg = q[i] /\ got[c][i].payload = Own(q[i])
    BY <1>1 DEF Held, Delivered
  <2>2. ASSUME NEW i \in 1..g + 1
        PROVE  got'[c][i].msg = q[i] /\ got'[c][i].payload = Own(q[i])
    <3> HIDE DEF g
    <3>1. i \in 1..g \/ i = g + 1
      BY <1>2, SMTT(30)
    <3>2. CASE i \in 1..g
      BY <1>11, <2>1, <3>2
    <3>3. CASE i = g + 1
      BY <1>4, <1>11, <3>3
    <3> QED BY <3>1, <3>2, <3>3
  <2> QED BY <1>11, <2>2 DEF Delivered
<1>17. g + 1 <= Q
  <2> HIDE DEF g, Q
  <2> QED BY <1>2
<1> QED BY <1>7, <1>11, <1>12, <1>15, <1>16, <1>17 DEF Held

\* Which object a connection uses.
LEMMA ObjectFacts ==
  ASSUME NEW c \in Conns
  PROVE  Object(c) \in Conns /\ (~shared => Object(c) = c)
BY DEF Object

\* Types of what the controller is given.
LEMMA GivenType ==
  ASSUME TypeOK, NEW c \in Conns, NEW m \in Msgs \cup {None}, NEW p \in Seq(Unit),
         got' = [got EXCEPT ![c] = Append(@, [msg |-> m, payload |-> p])]
  PROVE  /\ got' \in [Conns -> Seq([msg : Msgs \cup {None}, payload : Seq(Unit)])]
         /\ \A d \in Conns : d # c => got'[d] = got[d]
<1> DEFINE R == [msg : Msgs \cup {None}, payload : Seq(Unit)]
           e == [msg |-> m, payload |-> p]
<1>1. e \in R
  OBVIOUS
<1>2. got \in [Conns -> Seq(R)]
  BY DEF TypeOK
<1> HIDE DEF R, e
<1>3. Append(got[c], e) \in Seq(R)
  BY <1>1, <1>2, AppendProperties
<1>4. got' = [got EXCEPT ![c] = Append(got[c], e)]
  BY DEF e
<1>5. got' \in [Conns -> Seq(R)] /\ \A d \in Conns : d # c => got'[d] = got[d]
  BY <1>2, <1>3, <1>4
<1> QED BY <1>5 DEF R

\* The payload of a message whose header came earlier is consumed.
LEMMA HandlePayloadStep ==
  ASSUME Inv, NEW c \in Conns, HandlePayload(c)
  PROVE  Inv'
<1> DEFINE o == Object(c)
           n == toRead[o]
<1>1. TypeOK /\ Distinct /\ Held(c)
  BY DEF Inv
<1>2. o \in Conns /\ (~shared => o = c)
  BY ObjectFacts
<1>3. /\ running = c /\ registered[c] /\ n > 0
      /\ UNCHANGED <<side, shared, sent, unknown, asked, wire>>
      /\ IF Len(buf[c]) < n THEN Return
         ELSE /\ got' = [got EXCEPT ![c] = Append(@, [msg |-> curMsg[o], payload |-> SubSeq(buf[c], 1, n)])]
              /\ toRead' = [toRead EXCEPT ![o] = 0]
              /\ buf' = [buf EXCEPT ![c] = Drop(c, n)]
              /\ resumed' = [resumed EXCEPT ![c] = TRUE]
              /\ CallAgain(c, side = "controlplane")
              /\ UNCHANGED <<registered, curMsg, fault>>
  BY DEF HandlePayload, Deliver
<1>4. n \in Nat /\ buf[c] \in Seq(Unit) /\ Len(buf[c]) \in Nat
  BY <1>1, <1>2, RestFacts DEF TypeOK
<1>5. CASE Len(buf[c]) < n
  <2>1. ~shared => toRead[c] = n
    BY <1>2
  <2>2. ~shared => Len(buf[c]) < (IF toRead[c] > 0 THEN toRead[c] ELSE Header)
    BY <1>3, <1>5, <2>1
  <2> QED BY <1>3, <1>5, <2>2, ReturnStep
<1>6. CASE ~(Len(buf[c]) < n)
  <2> DEFINE p == SubSeq(buf[c], 1, n)
             m == curMsg[o]
  <2>1. /\ got' = [got EXCEPT ![c] = Append(@, [msg |-> m, payload |-> p])]
        /\ toRead' = [toRead EXCEPT ![o] = 0]
        /\ buf' = [buf EXCEPT ![c] = Drop(c, n)]
        /\ resumed' = [resumed EXCEPT ![c] = TRUE]
        /\ CallAgain(c, side = "controlplane")
        /\ UNCHANGED <<registered, curMsg, fault>>
    BY <1>3, <1>6
  <2> HIDE DEF n
  <2>2. /\ n \in 0..Len(buf[c]) /\ n \in 1 - 1..Len(buf[c]) /\ 1 \in 1..Len(buf[c]) + 1
        /\ n <= Len(buf[c]) /\ Len(buf[c]) > 0
    <3> DEFINE b == Len(buf[c])
    <3>1. b \in Nat /\ n \in Nat /\ ~(b < n) /\ n > 0
      BY <1>3, <1>4, <1>6
    <3> HIDE DEF b
    <3>2. n \in 0..b /\ n \in 1 - 1..b /\ 1 \in 1..b + 1 /\ n <= b /\ b > 0
      BY <3>1
    <3> QED BY <3>2 DEF b
  <2>3. p \in Seq(Unit) /\ m \in Msgs \cup {None}
    BY <1>1, <1>2, <1>4, <2>2, SubSeqFacts DEF TypeOK
  <2> HIDE DEF p, m
  <2>4. /\ got' \in [Conns -> Seq([msg : Msgs \cup {None}, payload : Seq(Unit)])]
        /\ \A d \in Conns : d # c => got'[d] = got[d]
    BY <1>1, <2>1, <2>3, GivenType
  <2>5. /\ running' \in Conns \cup {None} /\ registered' \in [Conns -> BOOLEAN]
        /\ toRead' \in [Conns -> Nat] /\ curMsg' \in [Conns -> Msgs \cup {None}]
        /\ resumed' \in [Conns -> BOOLEAN] /\ resumed'[c] = TRUE
        /\ \A d \in Conns : d # c => resumed'[d] = resumed[d]
    BY <1>1, <1>2, <2>1 DEF CallAgain, TypeOK
  <2>6. ~shared => toRead'[c] = 0 /\ \A d \in Conns : d # c => toRead'[d] = toRead[d]
    BY <1>1, <1>2, <2>1 DEF TypeOK
  <2>7. Chained(c)' /\ Ends(c)'
    BY <1>3, <2>1, <2>2, Dropped
  <2>8. Before(c)' /\ Registers(c)'
    BY <1>3, <2>1, <2>2, StaysRegistered
  <2>9. Held(c)' /\ (~shared => Len(got'[c]) <= Len(sent[c]))
    <3>1. CASE shared
      <4>1. Aligned(c)' /\ Delivered(c)'
        BY <1>3, <3>1, SMTT(30) DEF Aligned, Delivered
      <4> QED BY <2>7, <2>8, <3>1, <4>1 DEF Held
    <3>2. CASE ~shared
      <4>1. /\ Len(got[c]) < Len(sent[c]) /\ m = sent[c][Len(got[c]) + 1]
            /\ n = Payload(m) /\ Rest(c) # <<>> /\ Rest(c)[1] = <<m, 3>>
        <5>1. toRead[c] > 0 /\ toRead[c] = n /\ curMsg[c] = m
          BY <1>2, <1>3, <3>2 DEF n, m
        <5> QED BY <1>1, <1>3, <3>2, <5>1 DEF Held, Aligned, Header
      <4>2. m \in Msgs
        <5>1. /\ sent[c] \in Seq(Msgs) /\ Len(sent[c]) \in Nat /\ Len(got[c]) \in Nat
          BY <1>1 DEF TypeOK
        <5>2. Len(got[c]) + 1 \in 1..Len(sent[c])
          BY <4>1, <5>1
        <5> QED BY <4>1, <5>1, <5>2, ElementOfSeq
      <4>3. Full(m) \in Nat /\ Full(m) = n + 2
        BY <4>1, <4>2, UnitFacts
      <4>4. 3 \in 1..Full(m) /\ Full(m) - 3 + 1 = n /\ 3 <= Full(m) /\ 4 - 3 = 1
        <5>1. n > 0 /\ n \in Nat
          BY <1>3, <1>4 DEF n
        <5> QED BY <4>3, <5>1
      <4>5. Len(Rest(c)) > 0
        BY <1>1, <4>1, RestFacts
      <4>6. LET h == Full(m) - 3 + 1 IN
            /\ h \in 1..Len(Rest(c)) /\ Rest(c)[h] = <<m, Full(m)>>
            /\ h < Len(Rest(c)) => Rest(c)[h + 1][2] = 1 /\ Follows(c, m, Rest(c)[h + 1][1])
        <5>1. Chained(c) /\ Ends(c) /\ m \in Msgs \cup {Register}
          BY <1>1, <4>2 DEF Held
        <5> QED BY <1>1, <4>1, <4>4, <4>5, <5>1, RunEnds
      <4>7. /\ n \in 1..Len(Rest(c)) /\ Rest(c)[n] = <<m, Full(m)>>
            /\ n < Len(Rest(c)) => Rest(c)[n + 1][2] = 1 /\ Follows(c, m, Rest(c)[n + 1][1])
        BY <4>4, <4>6
      <4>8. p = Own(m)
        <5>1. SubSeq(buf[c], 4 - 3, Full(m) - 3 + 1) = Own(m)
          BY <1>1, <2>2, <4>1, <4>2, <4>4, OwnPayload DEF Held
        <5> QED BY <4>4, <5>1 DEF p
      <4>9. got' = [got EXCEPT ![c] = Append(@, [msg |-> m, payload |-> Own(m)])]
        BY <2>1, <4>8
      <4> QED BY <1>3, <2>1, <2>2, <2>6, <3>2, <4>1, <4>7, <4>9, Handed, ZenonT(60)
    <3> QED BY <3>1, <3>2
  <2>10. Waits(c)'
    <3> SUFFICES ASSUME ~shared, running' # c PROVE Waits(c)'
      BY <1>3 DEF Waits
    <3>1. CASE side = "process"
      BY <1>3, <2>5, <3>1 DEF Waits
    <3>2. CASE side = "controlplane"
      <4>1. buf'[c] = <<>>
        BY <2>1, <3>2 DEF CallAgain
      <4>2. toRead'[c] = 0 /\ Len(buf'[c]) = 0
        BY <2>6, <4>1
      <4> QED BY <4>2 DEF Waits, Header
    <3> QED BY <1>1, <3>1, <3>2 DEF TypeOK
  <2> QED BY <1>3, <2>1, <2>2, <2>4, <2>5, <2>6, <2>9, <2>10, Consumed
<1> QED BY <1>5, <1>6

\* A header is consumed, with the payload if all of it has come.
LEMMA HandleHeaderStep ==
  ASSUME Inv, NEW c \in Conns, HandleHeader(c)
  PROVE  Inv'
<1> DEFINE o == Object(c)
           m == buf[c][1][1]
           f == Header + Payload(m)
           p == SubSeq(buf[c], Header + 1, f)
           isHeader == SubSeq(buf[c], 1, Header) = SubSeq(Units(m), 1, Header)
<1>1. TypeOK /\ Distinct /\ Held(c)
  BY DEF Inv
<1>2. o \in Conns /\ (~shared => o = c)
  BY ObjectFacts
<1>3. /\ running = c /\ registered[c] /\ toRead[o] = 0
      /\ UNCHANGED <<side, shared, sent, unknown, asked, wire>>
      /\ IF Len(buf[c]) < Header THEN Return
         ELSE IF ~isHeader
         THEN /\ fault' = TRUE
              /\ running' = None
              /\ UNCHANGED <<buf, registered, toRead, curMsg, got, resumed>>
         ELSE /\ curMsg' = [curMsg EXCEPT ![o] = m]
              /\ IF Len(buf[c]) >= f
                 THEN /\ got' = [got EXCEPT ![c] = Append(@, [msg |-> m, payload |-> p])]
                      /\ toRead' = [toRead EXCEPT ![o] = 0]
                      /\ buf' = [buf EXCEPT ![c] = Drop(c, f)]
                      /\ resumed' = [resumed EXCEPT ![c] = FALSE]
                      /\ CallAgain(c, TRUE)
                 ELSE /\ toRead' = [toRead EXCEPT ![o] = Payload(m)]
                      /\ buf' = [buf EXCEPT ![c] = Drop(c, Header)]
                      /\ CallAgain(c, FALSE)
                      /\ UNCHANGED <<got, resumed>>
              /\ UNCHANGED <<registered, fault>>
  BY DEF HandleHeader, Deliver
<1>4. buf[c] \in Seq(Unit) /\ Len(buf[c]) \in Nat
  BY <1>1, RestFacts
<1>5. CASE Len(buf[c]) < Header
  <2>1. ~shared => toRead[c] = 0
    BY <1>2, <1>3
  <2>2. ~shared => Len(buf[c]) < (IF toRead[c] > 0 THEN toRead[c] ELSE Header)
    BY <1>5, <2>1
  <2> QED BY <1>3, <1>5, <2>2, ReturnStep
<1>6. CASE ~(Len(buf[c]) < Header)
  <2> HIDE DEF m, p, f, isHeader
  <2>1. Len(buf[c]) >= 2 /\ 1 \in 1..Len(buf[c]) /\ 2 \in 1..Len(buf[c]) /\ Len(buf[c]) > 0
    BY <1>4, <1>6 DEF Header
  <2>2. /\ Rest(c)[1] = buf[c][1] /\ Rest(c)[2] = buf[c][2] /\ Rest(c)[1][1] = m
        /\ 1 \in 1..Len(Rest(c)) /\ 2 \in 1..Len(Rest(c)) /\ Len(Rest(c)) > 0
    <3>1. Rest(c)[1] = buf[c][1] /\ Rest(c)[2] = buf[c][2]
      BY <1>1, <2>1, RestFacts
    <3>2. /\ Len(Rest(c)) \in Nat /\ Len(wire[c]) \in Nat /\ Len(Rest(c)) = Len(buf[c]) + Len(wire[c])
      BY <1>1, RestFacts
    <3> DEFINE L == Len(Rest(c))
               b == Len(buf[c])
               w == Len(wire[c])
    <3>3. L \in Nat /\ b \in Nat /\ w \in Nat /\ L = b + w /\ b >= 2
      BY <1>4, <2>1, <3>2
    <3> HIDE DEF L, b, w
    <3>4. 1 \in 1..L /\ 2 \in 1..L /\ L > 0
      BY <3>3
    <3> QED BY <3>1, <3>4 DEF L, m
  <2>3. m \in Msgs /\ m # Register
    <3>1. Rest(c)[1][1] \in Msgs \cup {Register}
      BY <1>1, <2>2, RestFacts
    <3>2. Rest(c)[1][1] # Register
      BY <1>1, <1>3, <2>2 DEF Held, Registers
    <3> QED BY <2>2, <3>1, <3>2
  <2>4. /\ f \in Nat /\ Full(m) = f /\ Payload(m) \in Nat /\ f = Payload(m) + 2
    BY <2>3, UnitFacts DEF f, Full
  <2>5. ~shared => /\ Len(got[c]) < Len(sent[c]) /\ m = sent[c][Len(got[c]) + 1]
                   /\ Rest(c)[1] = <<m, 1>>
    <3> SUFFICES ASSUME ~shared
                 PROVE  /\ Len(got[c]) < Len(sent[c]) /\ m = sent[c][Len(got[c]) + 1]
                        /\ Rest(c)[1] = <<m, 1>>
      OBVIOUS
    <3>1. toRead[c] = 0 /\ Rest(c) # <<>>
      BY <1>2, <1>3, <2>2
    <3>2. Len(got[c]) < Len(sent[c]) /\ Rest(c)[1] = <<sent[c][Len(got[c]) + 1], 1>>
      BY <1>1, <1>3, <3>1 DEF Held, Aligned
    <3>3. Rest(c)[1][1] = sent[c][Len(got[c]) + 1]
      BY <3>2
    <3> QED BY <2>2, <3>2, <3>3
  <2>6. ~shared => Rest(c)[2] = <<m, 2>>
    <3> SUFFICES ASSUME ~shared PROVE Rest(c)[2] = <<m, 2>>
      OBVIOUS
    <3>1. 1 \in 1..Full(m) /\ 2 <= Full(m) - 1 + 1 /\ 1 + 2 - 1 = 2
      BY <2>4
    <3>2. Chained(c) /\ m \in Msgs \cup {Register}
      BY <1>1, <2>3 DEF Held
    <3>3. \A i \in 1..Len(Rest(c)) : i <= Full(m) - 1 + 1 => Rest(c)[i] = <<m, 1 + i - 1>>
      BY <1>1, <2>2, <2>5, <3>1, <3>2, Run
    <3> QED BY <2>2, <3>1, <3>3
  <2>7. ~shared => LET h == Full(m) - 1 + 1 IN
           /\ h \in 1..Len(Rest(c)) /\ Rest(c)[h] = <<m, Full(m)>>
           /\ h < Len(Rest(c)) => Rest(c)[h + 1][2] = 1 /\ Follows(c, m, Rest(c)[h + 1][1])
    <3>1. 1 \in 1..Full(m)
      BY <2>4
    <3>2. Chained(c) /\ Ends(c) /\ m \in Msgs \cup {Register}
      BY <1>1, <2>3 DEF Held
    <3> QED BY <1>1, <2>2, <2>5, <3>1, <3>2, RunEnds
  <2>8. ~shared => /\ f \in 1..Len(Rest(c)) /\ Rest(c)[f] = <<m, Full(m)>>
                   /\ f < Len(Rest(c)) => Rest(c)[f + 1][2] = 1 /\ Follows(c, m, Rest(c)[f + 1][1])
    <3>1. Full(m) - 1 + 1 = f
      BY <2>4
    <3> QED BY <2>7, <3>1
  <2>9. ~shared => isHeader
    <3> SUFFICES ASSUME ~shared PROVE isHeader
      OBVIOUS
    <3> DEFINE x == SubSeq(buf[c], 1, 2)
               y == SubSeq(Units(m), 1, 2)
    <3>1. 1 \in 1..Len(buf[c]) + 1 /\ 2 \in 1 - 1..Len(buf[c])
      BY <1>4, <2>1
    <3>2. x \in Seq(Unit) /\ Len(x) = 2 - 1 + 1 /\ \A i \in 1..2 - 1 + 1 : x[i] = buf[c][1 + i - 1]
      BY <1>4, <3>1, SubSeqFacts
    <3>3. Units(m) \in Seq(Unit) /\ Len(Units(m)) = f /\ \A i \in 1..f : Units(m)[i] = <<m, i>>
      BY <2>3, <2>4, UnitFacts
    <3>4. 1 \in 1..Len(Units(m)) + 1 /\ 2 \in 1 - 1..Len(Units(m)) /\ 1 \in 1..f /\ 2 \in 1..f
      BY <2>4, <3>3
    <3>5. y \in Seq(Unit) /\ Len(y) = 2 - 1 + 1 /\ \A i \in 1..2 - 1 + 1 : y[i] = Units(m)[1 + i - 1]
      BY <3>3, <3>4, SubSeqFacts
    <3> HIDE DEF x, y
    <3>6. Len(x) = 2 /\ x[1] = <<m, 1>> /\ x[2] = <<m, 2>>
      <4>1. 1 \in 1..2 - 1 + 1 /\ 2 \in 1..2 - 1 + 1 /\ 1 + 1 - 1 = 1 /\ 1 + 2 - 1 = 2 /\ 2 - 1 + 1 = 2
        OBVIOUS
      <4>2. buf[c][1] = <<m, 1>> /\ buf[c][2] = <<m, 2>>
        BY <2>2, <2>5, <2>6
      <4> QED BY <3>2, <4>1, <4>2
    <3>7. Len(y) = 2 /\ y[1] = <<m, 1>> /\ y[2] = <<m, 2>>
      <4>1. 1 \in 1..2 - 1 + 1 /\ 2 \in 1..2 - 1 + 1 /\ 1 + 1 - 1 = 1 /\ 1 + 2 - 1 = 2 /\ 2 - 1 + 1 = 2
        OBVIOUS
      <4> QED BY <3>3, <3>4, <3>5, <4>1
    <3>8. \A i \in 1..Len(x) : x[i] = y[i]
      BY <3>6, <3>7
    <3>9. x = y
      BY <3>2, <3>5, <3>6, <3>7, <3>8, SeqEqual
    <3> QED BY <3>9 DEF isHeader, x, y, Header
  <2>10. CASE ~isHeader
    <3>1. /\ fault' = TRUE /\ running' = None /\ shared
          /\ UNCHANGED <<buf, registered, toRead, curMsg, got, resumed, side, shared, sent, unknown, asked, wire>>
      BY <1>3, <1>6, <2>9, <2>10
    <3>2. \A d \in Conns : Rest(d)' = Rest(d)
      BY <3>1 DEF Rest
    <3>3. \A d \in Conns : Held(d)'
      BY <3>1, <3>2, Stays
    <3>4. \A d \in Conns : Waits(d)'
      BY <3>1 DEF Waits
    <3>5. TypeOK'
      BY <1>1, <3>1 DEF TypeOK
    <3>6. Distinct'
      BY <1>1, <3>1 DEF Distinct
    <3> QED BY <3>1, <3>3, <3>4, <3>5, <3>6, Together
  <2>11. CASE isHeader /\ Len(buf[c]) >= f
    <3>1. /\ curMsg' = [curMsg EXCEPT ![o] = m]
          /\ got' = [got EXCEPT ![c] = Append(@, [msg |-> m, payload |-> p])]
          /\ toRead' = [toRead EXCEPT ![o] = 0]
          /\ buf' = [buf EXCEPT ![c] = Drop(c, f)]
          /\ resumed' = [resumed EXCEPT ![c] = FALSE]
          /\ CallAgain(c, TRUE)
          /\ UNCHANGED <<registered, fault>>
      BY <1>3, <1>6, <2>11
    <3>2. /\ f \in 0..Len(buf[c]) /\ Header + 1 \in 1..Len(buf[c]) + 1 /\ f \in Header + 1 - 1..Len(buf[c])
      <4> DEFINE b == Len(buf[c])
      <4>1. b \in Nat /\ b >= 2 /\ b >= f
        BY <1>4, <2>1, <2>11
      <4> HIDE DEF b
      <4>2. f \in 0..b /\ Header + 1 \in 1..b + 1 /\ f \in Header + 1 - 1..b
        BY <2>4, <4>1 DEF Header
      <4> QED BY <4>2 DEF b
    <3>3. p \in Seq(Unit) /\ m \in Msgs \cup {None}
      BY <1>4, <2>3, <3>2, SubSeqFacts DEF p
    <3>4. /\ got' \in [Conns -> Seq([msg : Msgs \cup {None}, payload : Seq(Unit)])]
          /\ \A d \in Conns : d # c => got'[d] = got[d]
      BY <1>1, <3>1, <3>3, GivenType
    <3>5. /\ running' \in Conns \cup {None} /\ registered' \in [Conns -> BOOLEAN]
          /\ toRead' \in [Conns -> Nat] /\ curMsg' \in [Conns -> Msgs \cup {None}]
          /\ resumed' \in [Conns -> BOOLEAN]
          /\ \A d \in Conns : d # c => resumed'[d] = resumed[d]
      BY <1>1, <1>2, <3>1, <3>3 DEF CallAgain, TypeOK
    <3>6. ~shared => toRead'[c] = 0 /\ \A d \in Conns : d # c => toRead'[d] = toRead[d] /\ curMsg'[d] = curMsg[d]
      BY <1>1, <1>2, <3>1 DEF TypeOK
    <3>7. Chained(c)' /\ Ends(c)'
      BY <1>3, <3>1, <3>2, Dropped
    <3>8. Before(c)' /\ Registers(c)'
      BY <1>3, <3>1, <3>2, StaysRegistered
    <3>9. Held(c)' /\ (~shared => Len(got'[c]) <= Len(sent[c]))
      <4>1. CASE shared
        <5>1. Aligned(c)' /\ Delivered(c)'
          BY <1>3, <4>1 DEF Aligned, Delivered
        <5> QED BY <3>7, <3>8, <4>1, <5>1 DEF Held
      <4>2. CASE ~shared
        <5>1. p = Own(m)
          <6>1. 1 <= Full(m) /\ Full(m) - 1 + 1 = f /\ 4 - 1 = 3 /\ f <= Len(buf[c])
            BY <1>4, <2>4, <2>11
          <6>2. SubSeq(buf[c], 4 - 1, Full(m) - 1 + 1) = Own(m)
            BY <1>1, <2>1, <2>3, <2>5, <4>2, <6>1, OwnPayload DEF Held
          <6> QED BY <6>1, <6>2 DEF p, Header
        <5>2. got' = [got EXCEPT ![c] = Append(@, [msg |-> m, payload |-> Own(m)])]
          BY <3>1, <5>1
        <5> QED BY <1>3, <2>5, <2>8, <3>1, <3>2, <3>6, <4>2, <5>2, Handed
      <4> QED BY <4>1, <4>2
    <3>10. Waits(c)'
      <4> SUFFICES ASSUME ~shared, running' # c PROVE Waits(c)'
        BY <1>3 DEF Waits
      <4>1. buf'[c] = <<>>
        BY <3>1 DEF CallAgain
      <4>2. toRead'[c] = 0 /\ Len(buf'[c]) = 0
        BY <3>6, <4>1
      <4> QED BY <4>2 DEF Waits, Header
    <3> QED BY <1>3, <3>1, <3>2, <3>4, <3>5, <3>6, <3>9, <3>10, Consumed
  <2>12. CASE isHeader /\ ~(Len(buf[c]) >= f)
    <3>1. /\ curMsg' = [curMsg EXCEPT ![o] = m]
          /\ toRead' = [toRead EXCEPT ![o] = Payload(m)]
          /\ buf' = [buf EXCEPT ![c] = Drop(c, 2)]
          /\ running' = None
          /\ UNCHANGED <<got, resumed, registered, fault>>
      BY <1>3, <1>6, <2>12 DEF CallAgain, Header
    <3>2. 2 \in 0..Len(buf[c]) /\ Payload(m) > 0 /\ Len(buf[c]) - 2 < Payload(m)
      <4> DEFINE b == Len(buf[c])
      <4>1. b \in Nat /\ b >= 2 /\ ~(b >= f)
        BY <1>4, <2>1, <2>12
      <4> HIDE DEF b
      <4>2. 2 \in 0..b /\ Payload(m) > 0 /\ b - 2 < Payload(m)
        BY <2>4, <4>1
      <4> QED BY <4>2 DEF b
    <3>3. /\ running' \in Conns \cup {None} /\ registered' \in [Conns -> BOOLEAN]
          /\ toRead' \in [Conns -> Nat] /\ curMsg' \in [Conns -> Msgs \cup {None}]
          /\ got' \in [Conns -> Seq([msg : Msgs \cup {None}, payload : Seq(Unit)])]
          /\ resumed' \in [Conns -> BOOLEAN] /\ (~shared => Len(got'[c]) <= Len(sent[c]))
      BY <1>1, <1>2, <2>3, <2>4, <3>1 DEF TypeOK
    <3>4. ~shared => /\ toRead'[c] = Payload(m) /\ curMsg'[c] = m
                     /\ \A d \in Conns : d # c => toRead'[d] = toRead[d] /\ curMsg'[d] = curMsg[d]
      BY <1>1, <1>2, <3>1 DEF TypeOK
    <3>5. /\ Len(buf'[c]) = Len(buf[c]) - 2 /\ Rest(c)' \in Seq(Unit) /\ Len(Rest(c)') = Len(Rest(c)) - 2
          /\ \A i \in 1..Len(Rest(c)) - 2 : Rest(c)'[i] = Rest(c)[2 + i]
          /\ Chained(c)' /\ Ends(c)'
      <4>1. 2 \in 0..Len(buf[c])
        BY <3>2
      <4>2. buf' = [buf EXCEPT ![c] = Drop(c, 2)] /\ UNCHANGED <<wire, sent, unknown, asked>>
        BY <1>3, <3>1
      <4> QED BY <4>1, <4>2, Dropped
    <3>6. Before(c)' /\ Registers(c)'
      BY <1>3, <3>1, <3>2, StaysRegistered
    <3>7. Aligned(c)'
      <4> SUFFICES ASSUME ~shared PROVE Aligned(c)'
        BY <1>3 DEF Aligned
      <4>1. Len(Rest(c)) \in Nat /\ f <= Len(Rest(c)) /\ f >= 3
        <5>1. Len(Rest(c)) \in Nat
          BY <1>1, RestFacts
        <5>2. f \in 1..Len(Rest(c))
          BY <2>8
        <5> QED BY <2>4, <3>2, <5>1, <5>2
      <4>2. /\ 1 \in 1..Len(Rest(c)) - 2 /\ 3 \in 1..Len(Rest(c)) /\ Len(Rest(c)) - 2 # 0
            /\ 3 <= Full(m) - 1 + 1 /\ 1 + 3 - 1 = 3
        <5> DEFINE L == Len(Rest(c))
        <5>1. L \in Nat /\ f <= L /\ f >= 3
          BY <4>1
        <5> HIDE DEF L
        <5>2. 1 \in 1..L - 2 /\ 3 \in 1..L /\ L - 2 # 0
          BY <2>4, <5>1
        <5>3. 3 <= Full(m) - 1 + 1
          BY <2>4, <5>1
        <5> QED BY <5>2, <5>3 DEF L
      <4>3. Rest(c)[3] = <<m, 3>>
        <5>1. 1 \in 1..Full(m)
          BY <2>4
        <5>2. Chained(c) /\ m \in Msgs \cup {Register}
          BY <1>1, <2>3 DEF Held
        <5>3. \A i \in 1..Len(Rest(c)) : i <= Full(m) - 1 + 1 => Rest(c)[i] = <<m, 1 + i - 1>>
          BY <1>1, <2>2, <2>5, <5>1, <5>2, Run
        <5> QED BY <4>2, <5>3
      <4>4. Rest(c)'[1] = <<m, 3>> /\ Rest(c)' # <<>>
        BY <3>5, <4>2, <4>3
      <4>5. toRead'[c] > 0 /\ toRead'[c] # 0
        BY <2>4, <3>2, <3>4
      <4> QED BY <1>3, <2>5, <3>1, <3>4, <4>4, <4>5 DEF Aligned, Header
    <3>8. Delivered(c)'
      BY <1>1, <1>3, <3>1 DEF Held, Delivered
    <3>9. Held(c)'
      BY <3>5, <3>6, <3>7, <3>8 DEF Held
    <3>10. Waits(c)'
      BY <1>3, <3>2, <3>4, <3>5 DEF Waits
    <3> QED BY <1>3, <3>1, <3>2, <3>3, <3>4, <3>9, <3>10, Consumed
  <2> QED BY <2>10, <2>11, <2>12
<1> QED BY <1>5, <1>6

-----------------------------------------------------------------------------
(* Theorems.                                                                *)

\* Nothing was sent.
LEMMA InitInv == Init => Inv
<1> SUFFICES ASSUME Init PROVE Inv
  OBVIOUS
<1> USE DEF Init
<1>1. TypeOK
  <2>1. /\ sent \in [Conns -> Seq(Msgs)] /\ wire \in [Conns -> Seq(Unit)] /\ buf \in [Conns -> Seq(Unit)]
        /\ got \in [Conns -> Seq([msg : Msgs \cup {None}, payload : Seq(Unit)])]
    BY EmptySeq
  <2>2. /\ asked \in [Conns -> BOOLEAN] /\ registered \in [Conns -> BOOLEAN] /\ resumed \in [Conns -> BOOLEAN]
        /\ toRead \in [Conns -> Nat] /\ curMsg \in [Conns -> Msgs \cup {None}]
    OBVIOUS
  <2>3. side \in {"process", "controlplane"} /\ shared \in BOOLEAN /\ fault \in BOOLEAN
    BY Zenon
  <2>4. \A c \in Conns : Len(got[c]) <= Len(sent[c])
    OBVIOUS
  <2>5. unknown \subseteq Msgs /\ running \in Conns \cup {None}
    OBVIOUS
  <2> HIDE DEF Init
  <2> QED BY <2>1, <2>2, <2>3, <2>4, <2>5, Zenon DEF TypeOK
<1>2. Distinct
  BY DEF Distinct
<1>3. ASSUME NEW c \in Conns PROVE Held(c) /\ Waits(c)
  <2>1. Rest(c) = <<>>
    BY ConcatEmptySeq DEF Rest
  <2>2. Chained(c) /\ Ends(c)
    BY <2>1 DEF Chained, Ends
  <2>3. Before(c) /\ Registers(c)
    BY <2>1 DEF Before, Registers
  <2>4. Aligned(c) /\ Delivered(c) /\ Waits(c)
    BY DEF Aligned, Delivered, Waits
  <2> QED BY <2>2, <2>3, <2>4 DEF Held
<1> QED BY <1>1, <1>2, <1>3 DEF Inv

\* Nothing happens.
LEMMA StutterInv == Inv /\ UNCHANGED vars => Inv'
<1> SUFFICES ASSUME Inv, UNCHANGED vars PROVE Inv'
  OBVIOUS
<1> USE DEF vars
<1>1. \A d \in Conns : Rest(d)' = Rest(d)
  BY DEF Rest
<1>2. \A d \in Conns : Held(d)'
  BY <1>1, Stays
<1>3. \A d \in Conns : Waits(d)'
  BY StillWaits
<1>4. TypeOK'
  BY DEF Inv, TypeOK
<1>5. Distinct'
  BY DEF Inv, Distinct
<1> QED BY <1>2, <1>3, <1>4, <1>5, Together DEF Inv

\* Every step keeps the invariant.
LEMMA NextInv == Inv /\ [Next]_vars => Inv'
<1> SUFFICES ASSUME Inv, [Next]_vars PROVE Inv'
  OBVIOUS
<1>1. ASSUME NEW c \in Conns, SendRegister(c) PROVE Inv'
  BY <1>1, SendRegisterStep
<1>2. ASSUME NEW c \in Conns, NEW m \in Msgs, Send(c, m) PROVE Inv'
  BY <1>2, SendStep
<1>3. ASSUME NEW c \in Conns, NEW m \in Msgs, SendUnknown(c, m) PROVE Inv'
  BY <1>3, SendUnknownStep
<1>4. ASSUME NEW c \in Conns, NEW k \in 1..Len(wire[c]), Arrive(c, k) PROVE Inv'
  BY <1>4, ArriveStep
<1>5. ASSUME NEW c \in Conns, HandleMessage(c) PROVE Inv'
  BY <1>5, HandleUnregisteredStep, HandlePayloadStep, HandleHeaderStep DEF HandleMessage
<1>6. CASE UNCHANGED vars
  BY <1>6, StutterInv
<1> QED BY <1>1, <1>2, <1>3, <1>4, <1>5, <1>6 DEF Next

\* The bytes on their way and in a buffer are, for every connection, what
\* follows of what was sent, and the server stands at the right one of them.
THEOREM InvAlways == Spec => []Inv
<1>1. Init => Inv
  BY InitInv
<1>2. Inv /\ [Next]_vars => Inv'
  BY NextInv
<1> QED BY <1>1, <1>2, PTL DEF Spec

\* handle_message returns only when what it has is less than a message, except
\* in a process after the last piece of an earlier one, and parses no payload
\* as a header where connections have objects of their own.
THEOREM NothingLeftAlways == Spec => []NothingLeft
<1>1. Inv => NothingLeft
  <2> SUFFICES ASSUME Inv PROVE NothingLeft
    OBVIOUS
  <2>1. TypeOK /\ (fault => shared)
    BY DEF Inv
  <2>2. ASSUME NEW c \in Conns, running = None, ~shared, registered[c]
        PROVE  \/ Len(buf[c]) < (IF toRead[Object(c)] > 0 THEN toRead[Object(c)] ELSE Header)
               \/ side = "process" /\ resumed[c]
    <3>1. Object(c) = c /\ running # c
      BY <2>2, FramingAssumption DEF Object
    <3> QED BY <2>2, <3>1 DEF Inv, Waits
  <2> QED BY <2>1, <2>2 DEF NothingLeft
<1> QED BY <1>1, InvAlways, PTL

-----------------------------------------------------------------------------
(* The refinement of Pipe.                                                  *)

\* What the controller of a connection with its own object was given is the
\* beginning of what was sent.
LEMMA UnframedIs ==
  ASSUME Inv, ~shared, NEW c \in Conns
  PROVE  Unframed(c) = [i \in 1..Len(got[c]) |-> sent[c][i]]
<1>1. DOMAIN got[c] = 1..Len(got[c])
  BY DEF Inv, TypeOK
<1>2. \A i \in 1..Len(got[c]) : got[c][i].msg = sent[c][i] /\ got[c][i].payload = Own(sent[c][i])
  BY DEF Inv, Held, Delivered
<1>3. \A i \in 1..Len(got[c]) :
        (IF got[c][i].payload = Own(got[c][i].msg) THEN got[c][i].msg ELSE None) = sent[c][i]
  BY <1>2
<1> QED BY <1>1, <1>3 DEF Unframed

\* And so it is after a step.
LEMMA UnframedNext ==
  ASSUME Inv', ~shared', NEW c \in Conns
  PROVE  Unframed(c)' = [i \in 1..Len(got'[c]) |-> sent'[c][i]]
<1>1. DOMAIN got'[c] = 1..Len(got'[c])
  BY DEF Inv, TypeOK
<1>2. \A i \in 1..Len(got'[c]) : got'[c][i].msg = sent'[c][i] /\ got'[c][i].payload = Own(sent'[c][i])
  BY DEF Inv, Held, Delivered
<1>3. \A i \in 1..Len(got'[c]) :
        (IF got'[c][i].payload = Own(got'[c][i].msg) THEN got'[c][i].msg ELSE None) = sent'[c][i]
  BY <1>2
<1> QED BY <1>1, <1>3 DEF Unframed

\* What a step does to what was sent and given.
LEMMA StepKinds ==
  ASSUME Inv, [Next]_vars
  PROVE  /\ shared' = shared
         /\ \/ UNCHANGED <<sent, got>>
            \/ \E c \in Conns, m \in Msgs : Send(c, m)
            \/ /\ sent' = sent
               /\ \E c \in Conns, e \in [msg : Msgs \cup {None}, payload : Seq(Unit)] :
                     got' = [got EXCEPT ![c] = Append(@, e)]
<1> DEFINE R == [msg : Msgs \cup {None}, payload : Seq(Unit)]
           Goal == /\ shared' = shared
                   /\ \/ UNCHANGED <<sent, got>>
                      \/ \E c \in Conns, m \in Msgs : Send(c, m)
                      \/ sent' = sent /\ \E c \in Conns, e \in R : got' = [got EXCEPT ![c] = Append(@, e)]
<1>1. ASSUME NEW c \in Conns, SendRegister(c) PROVE Goal
  BY <1>1 DEF SendRegister, server
<1>2. ASSUME NEW c \in Conns, NEW m \in Msgs, Send(c, m) PROVE Goal
  BY <1>2 DEF Send
<1>3. ASSUME NEW c \in Conns, NEW m \in Msgs, SendUnknown(c, m) PROVE Goal
  BY <1>3 DEF SendUnknown, server
<1>4. ASSUME NEW c \in Conns, NEW k \in 1..Len(wire[c]), Arrive(c, k) PROVE Goal
  BY <1>4 DEF Arrive
<1>5. ASSUME NEW c \in Conns, HandleUnregistered(c) PROVE Goal
  BY <1>5 DEF HandleUnregistered, Return
<1>6. ASSUME NEW c \in Conns, NEW m, NEW p, sent' = sent, shared' = shared, TypeOK',
             got' = [got EXCEPT ![c] = Append(@, [msg |-> m, payload |-> p])]
      PROVE  Goal
  <2> DEFINE e == [msg |-> m, payload |-> p]
  <2>1. got \in [Conns -> Seq(R)] /\ got' \in [Conns -> Seq(R)]
    BY <1>6 DEF TypeOK, Inv
  <2> HIDE DEF e, R
  <2>2. got'[c] = Append(got[c], e) /\ got[c] \in Seq(R) /\ got'[c] \in Seq(R)
    BY <1>6, <2>1 DEF e
  <2>3. Len(got'[c]) = Len(got[c]) + 1 /\ got'[c][Len(got[c]) + 1] = e /\ Len(got[c]) \in Nat
    BY <2>2
  <2>4. Len(got[c]) + 1 \in 1..Len(got'[c])
    BY <2>3
  <2>5. e \in R
    BY <2>2, <2>3, <2>4, ElementOfSeq
  <2> QED BY <1>6, <2>5 DEF e
<1>7. TypeOK'
  BY NextInv DEF Inv
<1>8. ASSUME NEW c \in Conns, HandlePayload(c) PROVE Goal
  <2>1. CASE UNCHANGED got
    BY <1>8, <2>1 DEF HandlePayload
  <2>2. CASE ~UNCHANGED got
    <3>1. /\ sent' = sent /\ shared' = shared
          /\ got' = [got EXCEPT ![c] = Append(@, [msg |-> curMsg[Object(c)],
                                                  payload |-> SubSeq(buf[c], 1, toRead[Object(c)])])]
      BY <1>8, <2>2 DEF HandlePayload, Return, Deliver
    <3> HIDE DEF Goal
    <3> QED BY <1>6, <1>7, <3>1
  <2> QED BY <2>1, <2>2
<1>9. ASSUME NEW c \in Conns, HandleHeader(c) PROVE Goal
  <2>1. CASE UNCHANGED got
    BY <1>9, <2>1 DEF HandleHeader
  <2>2. CASE ~UNCHANGED got
    <3>1. /\ sent' = sent /\ shared' = shared
          /\ got' = [got EXCEPT ![c] = Append(@, [msg |-> buf[c][1][1],
                          payload |-> SubSeq(buf[c], Header + 1, Header + Payload(buf[c][1][1]))])]
      BY <1>9, <2>2 DEF HandleHeader, Return, Deliver
    <3> HIDE DEF Goal
    <3> QED BY <1>6, <1>7, <3>1
  <2> QED BY <2>1, <2>2
<1>10. ASSUME UNCHANGED vars PROVE Goal
  BY <1>10 DEF vars
<1> HIDE DEF Goal
<1>11. CASE Next
  <2>1. PICK c \in Conns : \/ SendRegister(c)
                           \/ \E m \in Msgs : Send(c, m) \/ SendUnknown(c, m)
                           \/ \E k \in 1..Len(wire[c]) : Arrive(c, k)
                           \/ HandleMessage(c)
    BY <1>11 DEF Next
  <2>2. HandleMessage(c) => Goal
    BY <1>5, <1>8, <1>9 DEF HandleMessage
  <2>3. Goal
    BY <1>1, <1>2, <1>3, <1>4, <2>1, <2>2
  <2> QED BY <2>3 DEF Goal
<1> QED BY <1>10, <1>11 DEF Goal

\* The beginning of a sequence grows by the next element.
LEMMA NextOne ==
  ASSUME NEW q \in Seq(Msgs), NEW g \in Nat, g < Len(q)
  PROVE  /\ [i \in 1..g + 1 |-> q[i]] = Append([i \in 1..g |-> q[i]], q[g + 1])
         /\ Len([i \in 1..g |-> q[i]]) = g
<1> DEFINE x == [i \in 1..g |-> q[i]]
           y == [i \in 1..g + 1 |-> q[i]]
           Q == Len(q)
<1>1. Q \in Nat /\ g < Q
  OBVIOUS
<1>2. \A i \in 1..Q : q[i] \in Msgs
  BY ElementOfSeq
<1> HIDE DEF Q
<1>3. (\A i \in 1..g : i \in 1..Q) /\ \A i \in 1..g + 1 : i \in 1..Q
  BY <1>1
<1>4. x \in [1..g -> Msgs] /\ y \in [1..g + 1 -> Msgs]
  BY <1>2, <1>3
<1>5. x \in Seq(Msgs) /\ Len(x) = g /\ y \in Seq(Msgs) /\ Len(y) = g + 1
  BY <1>4
<1>6. (\A i \in 1..g : x[i] = q[i]) /\ \A i \in 1..g + 1 : y[i] = q[i]
  OBVIOUS
<1> HIDE DEF x, y
<1>7. q[g + 1] \in Msgs
  BY <1>2, <1>3
<1> DEFINE z == Append(x, q[g + 1])
<1>8. /\ z \in Seq(Msgs) /\ Len(z) = Len(x) + 1 /\ z[Len(x) + 1] = q[g + 1]
      /\ \A i \in 1..Len(x) : z[i] = x[i]
  BY <1>5, <1>7, AppendProperties
<1> HIDE DEF z
<1>9. \A i \in 1..Len(y) : y[i] = z[i]
  <2>1. \A i \in 1..g + 1 : i \in 1..g \/ i = g + 1
    OBVIOUS
  <2> QED BY <1>5, <1>6, <1>8, <2>1
<1>10. y = z
  BY <1>5, <1>8, <1>9, SeqEqual
<1> QED BY <1>5, <1>10 DEF x, y, z

\* Every step is one of Pipe.
LEMMA StepRefines ==
  ASSUME Inv, [Next]_vars
  PROVE  [Stream!Next]_Stream!vars
<1> DEFINE S == [c \in Conns |-> IF shared THEN <<>> ELSE sent[c]]
           G == [c \in Conns |-> IF shared THEN <<>> ELSE Unframed(c)]
<1>1. Inv'
  BY NextInv
<1>2. /\ shared' = shared
      /\ \/ UNCHANGED <<sent, got>>
         \/ \E c \in Conns, m \in Msgs : Send(c, m)
         \/ /\ sent' = sent
            /\ \E c \in Conns, e \in [msg : Msgs \cup {None}, payload : Seq(Unit)] :
                  got' = [got EXCEPT ![c] = Append(@, e)]
  BY StepKinds
<1>3. CASE shared
  BY <1>2, <1>3 DEF Stream!vars
<1>4. CASE ~shared
  <2>1. \A c \in Conns : Unframed(c)' = [i \in 1..Len(got'[c]) |-> sent'[c][i]]
    BY <1>1, <1>2, <1>4, UnframedNext
  <2>2. \A c \in Conns : Unframed(c) = [i \in 1..Len(got[c]) |-> sent[c][i]]
    BY <1>4, UnframedIs
  <2>3. CASE UNCHANGED <<sent, got>>
    BY <1>2, <2>3 DEF Stream!vars, Unframed
  <2>4. ASSUME NEW c \in Conns, NEW m \in Msgs, Send(c, m) PROVE Stream!Next
    <3>1. sent' = [sent EXCEPT ![c] = Append(@, m)] /\ got' = got
      BY <2>4 DEF Send, server
    <3>2. G' = G
      BY <1>2, <3>1 DEF Unframed
    <3>3. S' = [S EXCEPT ![c] = Append(@, m)]
      BY <1>2, <1>4, <3>1 DEF Inv, TypeOK
    <3> QED BY <3>2, <3>3 DEF Stream!Next, Stream!Send
  <2>5. ASSUME NEW c \in Conns, NEW e \in [msg : Msgs \cup {None}, payload : Seq(Unit)], sent' = sent,
               got' = [got EXCEPT ![c] = Append(@, e)]
        PROVE  Stream!Next
    <3> DEFINE g == Len(got[c])
    <3>1. got \in [Conns -> Seq([msg : Msgs \cup {None}, payload : Seq(Unit)])]
      BY DEF Inv, TypeOK
    <3>2. g \in Nat /\ Len(got'[c]) = g + 1 /\ \A d \in Conns : d # c => got'[d] = got[d]
      BY <2>5, <3>1, AppendProperties
    <3>3. Len(got'[c]) <= Len(sent[c]) /\ sent[c] \in Seq(Msgs) /\ Len(sent[c]) \in Nat
      BY <1>1, <1>2, <1>4, <2>5 DEF Inv, TypeOK
    <3>4. g < Len(sent[c])
      BY <3>2, <3>3
    <3>5. S' = S
      BY <1>2, <2>5
    <3>6. Unframed(c)' = Append(Unframed(c), sent[c][g + 1]) /\ Len(Unframed(c)) = g
      <4> DEFINE q == sent[c]
      <4>1. Unframed(c)' = [i \in 1..g + 1 |-> q[i]]
        <5>1. Unframed(c)' = [i \in 1..Len(got'[c]) |-> sent'[c][i]]
          BY <2>1
        <5>2. Len(got'[c]) = g + 1 /\ sent'[c] = q
          BY <2>5, <3>2
        <5> QED BY <5>1, <5>2, Zenon
      <4>2. Unframed(c) = [i \in 1..g |-> q[i]]
        BY <2>2
      <4>3. q \in Seq(Msgs) /\ g \in Nat /\ g < Len(q)
        BY <3>2, <3>3, <3>4
      <4> HIDE DEF q, g
      <4>4. /\ [i \in 1..g + 1 |-> q[i]] = Append([i \in 1..g |-> q[i]], q[g + 1])
            /\ Len([i \in 1..g |-> q[i]]) = g
        BY <4>3, NextOne
      <4> QED BY <4>1, <4>2, <4>4 DEF q
    <3>7. \A d \in Conns : d # c => Unframed(d)' = Unframed(d)
      <4> SUFFICES ASSUME NEW d \in Conns, d # c PROVE Unframed(d)' = Unframed(d)
        OBVIOUS
      <4>1. got'[d] = got[d]
        BY <3>2
      <4> QED BY <4>1 DEF Unframed
    <3>8. S[c] = sent[c] /\ G[c] = Unframed(c)
      BY <1>4
    <3>9. G' = [G EXCEPT ![c] = Append(@, sent[c][g + 1])]
      BY <1>2, <1>4, <3>6, <3>7
    <3>10. G' = [G EXCEPT ![c] = Append(@, S[c][Len(@) + 1])]
      BY <3>6, <3>8, <3>9
    <3>11. Len(G[c]) < Len(S[c])
      BY <3>4, <3>6, <3>8
    <3> QED BY <3>5, <3>10, <3>11 DEF Stream!Next, Stream!Deliver
  <2> QED BY <1>2, <2>3, <2>4, <2>5
<1> QED BY <1>3, <1>4

\* A connection with an object of its own gives the controller what was sent
\* on it, complete, once and in order, however its bytes come: the framing of
\* both servers implements Pipe.
THEOREM FramesAreMessagesAlways == Spec => FramesAreMessages
<1>1. Init => Stream!Init
  BY DEF Init, Stream!Init, Unframed
<1>2. Inv /\ [Next]_vars => [Stream!Next]_Stream!vars
  BY StepRefines
<1> QED BY <1>1, <1>2, InvAlways, PTL DEF Spec, FramesAreMessages, Stream!Spec

-----------------------------------------------------------------------------
(* Layouts.                                                                 *)

Kinds == {"str", "int", "nat", "list", "type"}

\* A field ends before another one begins; a list of buffers has no end.
EndsBefore(s, t) == s.kind # "list" /\ s.at + s.max <= t.at

\* Setters and getters of the fields of a message agree, and the fields that
\* getters read are between two places and do not overlap.
WellPlaced(put, get, from, size) ==
  /\ DOMAIN get = DOMAIN put
  /\ \A f \in DOMAIN put :
       /\ put[f].kind \in Kinds /\ get[f].kind = put[f].kind
       /\ put[f].at \in Nat /\ get[f].at = put[f].at /\ from <= put[f].at
       /\ put[f].max \in Nat \ {0} /\ get[f].max \in Nat /\ put[f].max <= get[f].max
       /\ put[f].kind # "str" => get[f].max = put[f].max
       /\ put[f].kind # "list" => get[f].at + get[f].max <= size
  /\ \A f, g \in DOMAIN put : f # g => EndsBefore(get[f], get[g]) \/ EndsBefore(get[g], get[f])

\* What every layout is.
Sound(l) ==
  /\ l.size \in {CommonSize, IpcSize}
  /\ WellPlaced(l.put, l.get, 0, l.size)
  /\ "type" \in DOMAIN l.put
  /\ l.put["type"] = HeaderFields.type /\ l.get["type"] = HeaderFields.type
  /\ \A f \in DOMAIN l.put : l.put[f].kind = "type" => f = "type"

\* Fields behind the header of a message.
Body(put, get, size) ==
  /\ WellPlaced(put, get, HEADER_OFFSET, size)
  /\ "type" \notin DOMAIN put /\ "total_length" \notin DOMAIN put
  /\ \A f \in DOMAIN put : put[f].kind # "type"

\* The two fields of every header: type at 0, total_length at 2.
LEMMA HeaderFacts ==
  /\ DOMAIN HeaderFields = {"type", "total_length"}
  /\ HeaderFields["type"].kind = "type" /\ HeaderFields["type"].at = 0 /\ HeaderFields["type"].max = 2
  /\ HeaderFields["total_length"].kind = "int"
  /\ HeaderFields["total_length"].at = 2 /\ HeaderFields["total_length"].max = 4
BY DEF HeaderFields

\* A layout has the header and its own fields.
LEMMA WithHeaderFacts ==
  ASSUME NEW fields
  PROVE  /\ DOMAIN WithHeader(fields) = {"type", "total_length"} \cup DOMAIN fields
         /\ WithHeader(fields)["type"] = HeaderFields["type"]
         /\ WithHeader(fields)["total_length"] = HeaderFields["total_length"]
         /\ \A f \in DOMAIN fields : f \notin {"type", "total_length"} => WithHeader(fields)[f] = fields[f]
BY HeaderFacts DEF WithHeader

\* Fields behind the header stay apart from the header.
LEMMA WithHeaderPlaced ==
  ASSUME NEW put, NEW get, NEW size \in {CommonSize, IpcSize}, Body(put, get, size)
  PROVE  /\ WellPlaced(WithHeader(put), WithHeader(get), 0, size)
         /\ \A f \in DOMAIN WithHeader(put) : WithHeader(put)[f].kind = "type" => f = "type"
<1> DEFINE P == WithHeader(put)
           G == WithHeader(get)
           F == {"type", "total_length"} \cup DOMAIN put
<1>1. DOMAIN P = F /\ DOMAIN G = F /\ DOMAIN get = DOMAIN put
  BY WithHeaderFacts DEF Body, WellPlaced
<1>2. \A f \in DOMAIN put : f \notin {"type", "total_length"} /\ P[f] = put[f] /\ G[f] = get[f]
  BY WithHeaderFacts, <1>1 DEF Body
<1>3. \A f \in {"type", "total_length"} : P[f] = HeaderFields[f] /\ G[f] = HeaderFields[f]
  BY WithHeaderFacts
<1>4. 6 <= size /\ size \in Nat
  BY DEF CommonSize, IpcSize
<1> HIDE DEF P, G
<1>5. ASSUME NEW f \in F
      PROVE  /\ P[f].kind \in Kinds /\ G[f].kind = P[f].kind
             /\ P[f].at \in Nat /\ G[f].at = P[f].at /\ 0 <= P[f].at
             /\ P[f].max \in Nat \ {0} /\ G[f].max \in Nat /\ P[f].max <= G[f].max
             /\ P[f].kind # "str" => G[f].max = P[f].max
             /\ P[f].kind # "list" => G[f].at + G[f].max <= size
             /\ P[f].kind = "type" => f = "type"
  <2>1. CASE f \in DOMAIN put
    BY <2>1, <1>2 DEF Body, WellPlaced
  <2>2. CASE f \in {"type", "total_length"}
    BY <2>2, <1>3, <1>4, HeaderFacts DEF Kinds
  <2> QED BY <2>1, <2>2
<1>6. ASSUME NEW f \in F, NEW g \in F, f # g
      PROVE  EndsBefore(G[f], G[g]) \/ EndsBefore(G[g], G[f])
  <2>1. CASE f \in DOMAIN put /\ g \in DOMAIN put
    BY <2>1, <1>2, <1>6 DEF Body, WellPlaced
  <2>2. ASSUME NEW a \in {"type", "total_length"}, NEW b \in DOMAIN put
        PROVE  EndsBefore(G[a], G[b])
    BY <1>2, <1>3, HeaderFacts DEF Body, WellPlaced, EndsBefore, HEADER_OFFSET
  <2>3. CASE f \in {"type", "total_length"} /\ g \in {"type", "total_length"}
    BY <2>3, <1>3, <1>6, HeaderFacts DEF EndsBefore
  <2> QED BY <2>1, <2>2, <2>3
<1> QED BY <1>1, <1>5, <1>6 DEF WellPlaced, P, G

\* A message between processes is sound when the fields behind its header are,
LEMMA CommonSound ==
  ASSUME NEW n, NEW put, NEW get, Body(put, get, CommonSize)
  PROVE  Sound(Common(n, put, get)) /\ Common(n, put, get).size = CommonSize
BY WithHeaderPlaced, WithHeaderFacts DEF Sound, Common

\* and so is a message between a controller and its workers.
LEMMA IpcSound ==
  ASSUME NEW n, NEW put, NEW get, Body(put, get, IpcSize)
  PROVE  Sound(Ipc(n, put, get)) /\ Ipc(n, put, get).size = IpcSize
BY WithHeaderPlaced, WithHeaderFacts DEF Sound, Ipc

\* The only list of buffers.
OneList(t) == \A f \in DOMAIN Layouts[t].put :
                Layouts[t].put[f].kind = "list" =>
                  t = "IpcInvocationRequest" /\ f = "buffers" /\ Layouts[t].put[f].at = 70

\* The messages of common/messages.hpp and of ipc/messages.hpp.
LEMMA LayoutNames ==
  DOMAIN Layouts = {"ProcessConnection", "SwapRequest", "SwapConfirmation", "InvocationRequest",
                    "InvocationResult", "DataPlaneMetrics", "ProcessClosure",
                    "ApplicationUpdate", "PutMessage", "GetRequest", "PutRequest",
                    "IpcInvocationRequest", "IpcInvocationResult", "IpcApplicationUpdate",
                    "StateKeysRequest", "StateKeysResult"}
BY DEF Layouts

\* The fields of ProcessConnection do not overlap and its setters and getters agree.
LEMMA ProcessConnectionSound ==
  Sound(Layouts["ProcessConnection"]) /\ OneList("ProcessConnection")
<1> DEFINE put == [process_name |-> Str(0, NAME_LENGTH)]
           get == put
<1>1. Body(put, get, CommonSize)
  BY DEF Body, WellPlaced, EndsBefore, Kinds, Str, Nat32, Num, List, HEADER_OFFSET, NAME_LENGTH,
         ID_LENGTH, MAX_BUFFERS, CommonSize
<1>2. \A f \in DOMAIN put : put[f].kind = "list" =>
        "ProcessConnection" = "IpcInvocationRequest" /\ f = "buffers" /\ put[f].at = 70
  BY DEF Str, Nat32, Num, List, HEADER_OFFSET, NAME_LENGTH, ID_LENGTH
<1>3. Layouts["ProcessConnection"] = ProcessConnection
  BY DEF Layouts
<1>4. ProcessConnection.put = WithHeader(put) /\ Sound(ProcessConnection)
  BY <1>1, CommonSound DEF ProcessConnection, Common
<1> HIDE DEF put, get
<1>5. \A f \in DOMAIN WithHeader(put) : WithHeader(put)[f].kind = "list" =>
        f \in DOMAIN put /\ WithHeader(put)[f] = put[f]
  BY <1>1, WithHeaderFacts, HeaderFacts DEF Body
<1> QED BY <1>2, <1>3, <1>4, <1>5 DEF OneList

\* The fields of SwapRequest do not overlap and its setters and getters agree.
LEMMA SwapRequestSound == Sound(Layouts["SwapRequest"]) /\ OneList("SwapRequest")
<1> DEFINE put == [path |-> Str(0, ID_LENGTH)]
           get == [path |-> Str(0, NAME_LENGTH)]
<1>1. Body(put, get, CommonSize)
  BY DEF Body, WellPlaced, EndsBefore, Kinds, Str, Nat32, Num, List, HEADER_OFFSET, NAME_LENGTH,
         ID_LENGTH, MAX_BUFFERS, CommonSize
<1>2. \A f \in DOMAIN put : put[f].kind = "list" =>
        "SwapRequest" = "IpcInvocationRequest" /\ f = "buffers" /\ put[f].at = 70
  BY DEF Str, Nat32, Num, List, HEADER_OFFSET, NAME_LENGTH, ID_LENGTH
<1>3. Layouts["SwapRequest"] = SwapRequest
  BY DEF Layouts
<1>4. SwapRequest.put = WithHeader(put) /\ Sound(SwapRequest)
  BY <1>1, CommonSound DEF SwapRequest, Common
<1> HIDE DEF put, get
<1>5. \A f \in DOMAIN WithHeader(put) : WithHeader(put)[f].kind = "list" =>
        f \in DOMAIN put /\ WithHeader(put)[f] = put[f]
  BY <1>1, WithHeaderFacts, HeaderFacts DEF Body
<1> QED BY <1>2, <1>3, <1>4, <1>5 DEF OneList

\* The fields of SwapConfirmation do not overlap and its setters and getters agree.
LEMMA SwapConfirmationSound == Sound(Layouts["SwapConfirmation"]) /\ OneList("SwapConfirmation")
<1> DEFINE put == [swap_size |-> Num(0, 4)]
           get == put
<1>1. Body(put, get, CommonSize)
  BY DEF Body, WellPlaced, EndsBefore, Kinds, Str, Nat32, Num, List, HEADER_OFFSET, NAME_LENGTH,
         ID_LENGTH, MAX_BUFFERS, CommonSize
<1>2. \A f \in DOMAIN put : put[f].kind = "list" =>
        "SwapConfirmation" = "IpcInvocationRequest" /\ f = "buffers" /\ put[f].at = 70
  BY DEF Str, Nat32, Num, List, HEADER_OFFSET, NAME_LENGTH, ID_LENGTH
<1>3. Layouts["SwapConfirmation"] = SwapConfirmation
  BY DEF Layouts
<1>4. SwapConfirmation.put = WithHeader(put) /\ Sound(SwapConfirmation)
  BY <1>1, CommonSound DEF SwapConfirmation, Common
<1> HIDE DEF put, get
<1>5. \A f \in DOMAIN WithHeader(put) : WithHeader(put)[f].kind = "list" =>
        f \in DOMAIN put /\ WithHeader(put)[f] = put[f]
  BY <1>1, WithHeaderFacts, HeaderFacts DEF Body
<1> QED BY <1>2, <1>3, <1>4, <1>5 DEF OneList

\* The fields of InvocationRequest do not overlap and its setters and getters agree.
LEMMA InvocationRequestSound ==
  Sound(Layouts["InvocationRequest"]) /\ OneList("InvocationRequest")
<1> DEFINE put == [payload_size |-> Nat32(0), function_name |-> Str(4, NAME_LENGTH),
                   invocation_id |-> Str(NAME_LENGTH + 4, ID_LENGTH)]
           get == put
<1>1. Body(put, get, CommonSize)
  BY DEF Body, WellPlaced, EndsBefore, Kinds, Str, Nat32, Num, List, HEADER_OFFSET, NAME_LENGTH,
         ID_LENGTH, MAX_BUFFERS, CommonSize
<1>2. \A f \in DOMAIN put : put[f].kind = "list" =>
        "InvocationRequest" = "IpcInvocationRequest" /\ f = "buffers" /\ put[f].at = 70
  BY DEF Str, Nat32, Num, List, HEADER_OFFSET, NAME_LENGTH, ID_LENGTH
<1>3. Layouts["InvocationRequest"] = InvocationRequest
  BY DEF Layouts
<1>4. InvocationRequest.put = WithHeader(put) /\ Sound(InvocationRequest)
  BY <1>1, CommonSound DEF InvocationRequest, Common
<1> HIDE DEF put, get
<1>5. \A f \in DOMAIN WithHeader(put) : WithHeader(put)[f].kind = "list" =>
        f \in DOMAIN put /\ WithHeader(put)[f] = put[f]
  BY <1>1, WithHeaderFacts, HeaderFacts DEF Body
<1> QED BY <1>2, <1>3, <1>4, <1>5 DEF OneList

\* The fields of InvocationResult do not overlap and its setters and getters agree.
LEMMA InvocationResultSound == Sound(Layouts["InvocationResult"]) /\ OneList("InvocationResult")
<1> DEFINE put == [return_code |-> Num(0, 4), invocation_id |-> Str(4, ID_LENGTH)]
           get == put
<1>1. Body(put, get, CommonSize)
  BY DEF Body, WellPlaced, EndsBefore, Kinds, Str, Nat32, Num, List, HEADER_OFFSET, NAME_LENGTH,
         ID_LENGTH, MAX_BUFFERS, CommonSize
<1>2. \A f \in DOMAIN put : put[f].kind = "list" =>
        "InvocationResult" = "IpcInvocationRequest" /\ f = "buffers" /\ put[f].at = 70
  BY DEF Str, Nat32, Num, List, HEADER_OFFSET, NAME_LENGTH, ID_LENGTH
<1>3. Layouts["InvocationResult"] = InvocationResult
  BY DEF Layouts
<1>4. InvocationResult.put = WithHeader(put) /\ Sound(InvocationResult)
  BY <1>1, CommonSound DEF InvocationResult, Common
<1> HIDE DEF put, get
<1>5. \A f \in DOMAIN WithHeader(put) : WithHeader(put)[f].kind = "list" =>
        f \in DOMAIN put /\ WithHeader(put)[f] = put[f]
  BY <1>1, WithHeaderFacts, HeaderFacts DEF Body
<1> QED BY <1>2, <1>3, <1>4, <1>5 DEF OneList

\* The fields of DataPlaneMetrics do not overlap and its setters and getters agree.
LEMMA DataPlaneMetricsSound == Sound(Layouts["DataPlaneMetrics"]) /\ OneList("DataPlaneMetrics")
<1> DEFINE put == [invocations |-> Nat32(0), computation_time |-> Nat32(4),
                   last_invocation_timestamp |-> Num(8, 8)]
           get == put
<1>1. Body(put, get, CommonSize)
  BY DEF Body, WellPlaced, EndsBefore, Kinds, Str, Nat32, Num, List, HEADER_OFFSET, NAME_LENGTH,
         ID_LENGTH, MAX_BUFFERS, CommonSize
<1>2. \A f \in DOMAIN put : put[f].kind = "list" =>
        "DataPlaneMetrics" = "IpcInvocationRequest" /\ f = "buffers" /\ put[f].at = 70
  BY DEF Str, Nat32, Num, List, HEADER_OFFSET, NAME_LENGTH, ID_LENGTH
<1>3. Layouts["DataPlaneMetrics"] = DataPlaneMetrics
  BY DEF Layouts
<1>4. DataPlaneMetrics.put = WithHeader(put) /\ Sound(DataPlaneMetrics)
  BY <1>1, CommonSound DEF DataPlaneMetrics, Common
<1> HIDE DEF put, get
<1>5. \A f \in DOMAIN WithHeader(put) : WithHeader(put)[f].kind = "list" =>
        f \in DOMAIN put /\ WithHeader(put)[f] = put[f]
  BY <1>1, WithHeaderFacts, HeaderFacts DEF Body
<1> QED BY <1>2, <1>3, <1>4, <1>5 DEF OneList

\* The fields of ProcessClosure do not overlap and its setters and getters agree.
LEMMA ProcessClosureSound == Sound(Layouts["ProcessClosure"]) /\ OneList("ProcessClosure")
<1> DEFINE put == NoFields
           get == NoFields
<1>1. Body(put, get, CommonSize)
  BY DEF Body, WellPlaced, EndsBefore, Kinds, Str, Nat32, Num, List, HEADER_OFFSET, NAME_LENGTH,
         ID_LENGTH, MAX_BUFFERS, CommonSize, NoFields
<1>2. \A f \in DOMAIN put : put[f].kind = "list" =>
        "ProcessClosure" = "IpcInvocationRequest" /\ f = "buffers" /\ put[f].at = 70
  BY DEF Str, Nat32, Num, List, HEADER_OFFSET, NAME_LENGTH, ID_LENGTH, NoFields
<1>3. Layouts["ProcessClosure"] = ProcessClosure
  BY DEF Layouts
<1>4. ProcessClosure.put = WithHeader(put) /\ Sound(ProcessClosure)
  BY <1>1, CommonSound DEF ProcessClosure, Common
<1> HIDE DEF put, get
<1>5. \A f \in DOMAIN WithHeader(put) : WithHeader(put)[f].kind = "list" =>
        f \in DOMAIN put /\ WithHeader(put)[f] = put[f]
  BY <1>1, WithHeaderFacts, HeaderFacts DEF Body
<1> QED BY <1>2, <1>3, <1>4, <1>5 DEF OneList

\* The fields of ApplicationUpdate do not overlap and its setters and getters agree.
LEMMA ApplicationUpdateSound ==
  Sound(Layouts["ApplicationUpdate"]) /\ OneList("ApplicationUpdate")
<1> DEFINE put == [process_id |-> Str(0, NAME_LENGTH), ip_address |-> Str(NAME_LENGTH, ID_LENGTH),
                   status_change |-> Num(NAME_LENGTH + ID_LENGTH, 4),
                   port |-> Num(NAME_LENGTH + ID_LENGTH + 4, 4)]
           get == put
<1>1. Body(put, get, CommonSize)
  BY DEF Body, WellPlaced, EndsBefore, Kinds, Str, Nat32, Num, List, HEADER_OFFSET, NAME_LENGTH,
         ID_LENGTH, MAX_BUFFERS, CommonSize
<1>2. \A f \in DOMAIN put : put[f].kind = "list" =>
        "ApplicationUpdate" = "IpcInvocationRequest" /\ f = "buffers" /\ put[f].at = 70
  BY DEF Str, Nat32, Num, List, HEADER_OFFSET, NAME_LENGTH, ID_LENGTH
<1>3. Layouts["ApplicationUpdate"] = ApplicationUpdate
  BY DEF Layouts
<1>4. ApplicationUpdate.put = WithHeader(put) /\ Sound(ApplicationUpdate)
  BY <1>1, CommonSound DEF ApplicationUpdate, Common
<1> HIDE DEF put, get
<1>5. \A f \in DOMAIN WithHeader(put) : WithHeader(put)[f].kind = "list" =>
        f \in DOMAIN put /\ WithHeader(put)[f] = put[f]
  BY <1>1, WithHeaderFacts, HeaderFacts DEF Body
<1> QED BY <1>2, <1>3, <1>4, <1>5 DEF OneList

\* The fields of PutMessage do not overlap and its setters and getters agree.
LEMMA PutMessageSound == Sound(Layouts["PutMessage"]) /\ OneList("PutMessage")
<1> DEFINE put == [name |-> Str(0, NAME_LENGTH), process_id |-> Str(NAME_LENGTH, NAME_LENGTH)]
           get == put
<1>1. Body(put, get, CommonSize)
  BY DEF Body, WellPlaced, EndsBefore, Kinds, Str, Nat32, Num, List, HEADER_OFFSET, NAME_LENGTH,
         ID_LENGTH, MAX_BUFFERS, CommonSize
<1>2. \A f \in DOMAIN put : put[f].kind = "list" =>
        "PutMessage" = "IpcInvocationRequest" /\ f = "buffers" /\ put[f].at = 70
  BY DEF Str, Nat32, Num, List, HEADER_OFFSET, NAME_LENGTH, ID_LENGTH
<1>3. Layouts["PutMessage"] = PutMessage
  BY DEF Layouts
<1>4. PutMessage.put = WithHeader(put) /\ Sound(PutMessage)
  BY <1>1, CommonSound DEF PutMessage, Common
<1> HIDE DEF put, get
<1>5. \A f \in DOMAIN WithHeader(put) : WithHeader(put)[f].kind = "list" =>
        f \in DOMAIN put /\ WithHeader(put)[f] = put[f]
  BY <1>1, WithHeaderFacts, HeaderFacts DEF Body
<1> QED BY <1>2, <1>3, <1>4, <1>5 DEF OneList

\* The fields of GetRequest do not overlap and its setters and getters agree.
LEMMA GetRequestSound == Sound(Layouts["GetRequest"]) /\ OneList("GetRequest")
<1> DEFINE put == GenericRequestSetters
           get == GenericRequestParsed
<1>1. Body(put, get, IpcSize)
  BY DEF Body, WellPlaced, EndsBefore, Kinds, Str, Nat32, Num, List, HEADER_OFFSET, NAME_LENGTH,
         ID_LENGTH, MAX_BUFFERS, IpcSize, GenericRequestParsed, GenericRequestSetters
<1>2. \A f \in DOMAIN put : put[f].kind = "list" =>
        "GetRequest" = "IpcInvocationRequest" /\ f = "buffers" /\ put[f].at = 70
  BY DEF Str, Nat32, Num, List, HEADER_OFFSET, NAME_LENGTH, ID_LENGTH, GenericRequestParsed,
         GenericRequestSetters
<1>3. Layouts["GetRequest"] = GetRequest
  BY DEF Layouts
<1>4. GetRequest.put = WithHeader(put) /\ Sound(GetRequest)
  BY <1>1, IpcSound DEF GetRequest, Ipc
<1> HIDE DEF put, get
<1>5. \A f \in DOMAIN WithHeader(put) : WithHeader(put)[f].kind = "list" =>
        f \in DOMAIN put /\ WithHeader(put)[f] = put[f]
  BY <1>1, WithHeaderFacts, HeaderFacts DEF Body
<1> QED BY <1>2, <1>3, <1>4, <1>5 DEF OneList

\* The fields of PutRequest do not overlap and its setters and getters agree.
LEMMA PutRequestSound == Sound(Layouts["PutRequest"]) /\ OneList("PutRequest")
<1> DEFINE put == GenericRequestSetters
           get == GenericRequestParsed
<1>1. Body(put, get, IpcSize)
  BY DEF Body, WellPlaced, EndsBefore, Kinds, Str, Nat32, Num, List, HEADER_OFFSET, NAME_LENGTH,
         ID_LENGTH, MAX_BUFFERS, IpcSize, GenericRequestParsed, GenericRequestSetters
<1>2. \A f \in DOMAIN put : put[f].kind = "list" =>
        "PutRequest" = "IpcInvocationRequest" /\ f = "buffers" /\ put[f].at = 70
  BY DEF Str, Nat32, Num, List, HEADER_OFFSET, NAME_LENGTH, ID_LENGTH, GenericRequestParsed,
         GenericRequestSetters
<1>3. Layouts["PutRequest"] = PutRequest
  BY DEF Layouts
<1>4. PutRequest.put = WithHeader(put) /\ Sound(PutRequest)
  BY <1>1, IpcSound DEF PutRequest, Ipc
<1> HIDE DEF put, get
<1>5. \A f \in DOMAIN WithHeader(put) : WithHeader(put)[f].kind = "list" =>
        f \in DOMAIN put /\ WithHeader(put)[f] = put[f]
  BY <1>1, WithHeaderFacts, HeaderFacts DEF Body
<1> QED BY <1>2, <1>3, <1>4, <1>5 DEF OneList

\* The fields of IpcInvocationRequest do not overlap and its setters and getters agree.
LEMMA IpcInvocationRequestSound ==
  Sound(Layouts["IpcInvocationRequest"]) /\ OneList("IpcInvocationRequest")
<1> DEFINE put == IpcInvocationRequestSetters
           get == IpcInvocationRequestParsed
<1>1. Body(put, get, IpcSize)
  BY DEF Body, WellPlaced, EndsBefore, Kinds, Str, Nat32, Num, List, HEADER_OFFSET, NAME_LENGTH,
         ID_LENGTH, MAX_BUFFERS, IpcSize, IpcInvocationRequestParsed,
         IpcInvocationRequestSetters
<1>2. \A f \in DOMAIN put : put[f].kind = "list" =>
        "IpcInvocationRequest" = "IpcInvocationRequest" /\ f = "buffers" /\ put[f].at = 70
  BY DEF Str, Nat32, Num, List, HEADER_OFFSET, NAME_LENGTH, ID_LENGTH,
         IpcInvocationRequestParsed, IpcInvocationRequestSetters
<1>3. Layouts["IpcInvocationRequest"] = IpcInvocationRequest
  BY DEF Layouts
<1>4. IpcInvocationRequest.put = WithHeader(put) /\ Sound(IpcInvocationRequest)
  BY <1>1, IpcSound DEF IpcInvocationRequest, Ipc
<1> HIDE DEF put, get
<1>5. \A f \in DOMAIN WithHeader(put) : WithHeader(put)[f].kind = "list" =>
        f \in DOMAIN put /\ WithHeader(put)[f] = put[f]
  BY <1>1, WithHeaderFacts, HeaderFacts DEF Body
<1> QED BY <1>2, <1>3, <1>4, <1>5 DEF OneList

\* The fields of IpcInvocationResult do not overlap and its setters and getters agree.
LEMMA IpcInvocationResultSound ==
  Sound(Layouts["IpcInvocationResult"]) /\ OneList("IpcInvocationResult")
<1> DEFINE put == IpcInvocationResultSetters
           get == IpcInvocationResultSetters
<1>1. Body(put, get, IpcSize)
  BY DEF Body, WellPlaced, EndsBefore, Kinds, Str, Nat32, Num, List, HEADER_OFFSET, NAME_LENGTH,
         ID_LENGTH, MAX_BUFFERS, IpcSize, IpcInvocationResultSetters
<1>2. \A f \in DOMAIN put : put[f].kind = "list" =>
        "IpcInvocationResult" = "IpcInvocationRequest" /\ f = "buffers" /\ put[f].at = 70
  BY DEF Str, Nat32, Num, List, HEADER_OFFSET, NAME_LENGTH, ID_LENGTH, IpcInvocationResultSetters
<1>3. Layouts["IpcInvocationResult"] = IpcInvocationResult
  BY DEF Layouts
<1>4. IpcInvocationResult.put = WithHeader(put) /\ Sound(IpcInvocationResult)
  BY <1>1, IpcSound DEF IpcInvocationResult, Ipc
<1> HIDE DEF put, get
<1>5. \A f \in DOMAIN WithHeader(put) : WithHeader(put)[f].kind = "list" =>
        f \in DOMAIN put /\ WithHeader(put)[f] = put[f]
  BY <1>1, WithHeaderFacts, HeaderFacts DEF Body
<1> QED BY <1>2, <1>3, <1>4, <1>5 DEF OneList

\* The fields of IpcApplicationUpdate do not overlap and its setters and getters agree.
LEMMA IpcApplicationUpdateSound ==
  Sound(Layouts["IpcApplicationUpdate"]) /\ OneList("IpcApplicationUpdate")
<1> DEFINE put == IpcApplicationUpdateSetters
           get == IpcApplicationUpdateSetters
<1>1. Body(put, get, IpcSize)
  BY DEF Body, WellPlaced, EndsBefore, Kinds, Str, Nat32, Num, List, HEADER_OFFSET, NAME_LENGTH,
         ID_LENGTH, MAX_BUFFERS, IpcSize, IpcApplicationUpdateSetters
<1>2. \A f \in DOMAIN put : put[f].kind = "list" =>
        "IpcApplicationUpdate" = "IpcInvocationRequest" /\ f = "buffers" /\ put[f].at = 70
  BY DEF Str, Nat32, Num, List, HEADER_OFFSET, NAME_LENGTH, ID_LENGTH, IpcApplicationUpdateSetters
<1>3. Layouts["IpcApplicationUpdate"] = IpcApplicationUpdate
  BY DEF Layouts
<1>4. IpcApplicationUpdate.put = WithHeader(put) /\ Sound(IpcApplicationUpdate)
  BY <1>1, IpcSound DEF IpcApplicationUpdate, Ipc
<1> HIDE DEF put, get
<1>5. \A f \in DOMAIN WithHeader(put) : WithHeader(put)[f].kind = "list" =>
        f \in DOMAIN put /\ WithHeader(put)[f] = put[f]
  BY <1>1, WithHeaderFacts, HeaderFacts DEF Body
<1> QED BY <1>2, <1>3, <1>4, <1>5 DEF OneList

\* The fields of StateKeysRequest do not overlap and its setters and getters agree.
LEMMA StateKeysRequestSound == Sound(Layouts["StateKeysRequest"]) /\ OneList("StateKeysRequest")
<1> DEFINE put == NoFields
           get == NoFields
<1>1. Body(put, get, IpcSize)
  BY DEF Body, WellPlaced, EndsBefore, Kinds, Str, Nat32, Num, List, HEADER_OFFSET, NAME_LENGTH,
         ID_LENGTH, MAX_BUFFERS, IpcSize, NoFields
<1>2. \A f \in DOMAIN put : put[f].kind = "list" =>
        "StateKeysRequest" = "IpcInvocationRequest" /\ f = "buffers" /\ put[f].at = 70
  BY DEF Str, Nat32, Num, List, HEADER_OFFSET, NAME_LENGTH, ID_LENGTH, NoFields
<1>3. Layouts["StateKeysRequest"] = StateKeysRequest
  BY DEF Layouts
<1>4. StateKeysRequest.put = WithHeader(put) /\ Sound(StateKeysRequest)
  BY <1>1, IpcSound DEF StateKeysRequest, Ipc
<1> HIDE DEF put, get
<1>5. \A f \in DOMAIN WithHeader(put) : WithHeader(put)[f].kind = "list" =>
        f \in DOMAIN put /\ WithHeader(put)[f] = put[f]
  BY <1>1, WithHeaderFacts, HeaderFacts DEF Body
<1> QED BY <1>2, <1>3, <1>4, <1>5 DEF OneList

\* The fields of StateKeysResult do not overlap and its setters and getters agree.
LEMMA StateKeysResultSound == Sound(Layouts["StateKeysResult"]) /\ OneList("StateKeysResult")
<1> DEFINE put == [buffer_length |-> Num(0, 4)]
           get == put
<1>1. Body(put, get, IpcSize)
  BY DEF Body, WellPlaced, EndsBefore, Kinds, Str, Nat32, Num, List, HEADER_OFFSET, NAME_LENGTH,
         ID_LENGTH, MAX_BUFFERS, IpcSize
<1>2. \A f \in DOMAIN put : put[f].kind = "list" =>
        "StateKeysResult" = "IpcInvocationRequest" /\ f = "buffers" /\ put[f].at = 70
  BY DEF Str, Nat32, Num, List, HEADER_OFFSET, NAME_LENGTH, ID_LENGTH
<1>3. Layouts["StateKeysResult"] = StateKeysResult
  BY DEF Layouts
<1>4. StateKeysResult.put = WithHeader(put) /\ Sound(StateKeysResult)
  BY <1>1, IpcSound DEF StateKeysResult, Ipc
<1> HIDE DEF put, get
<1>5. \A f \in DOMAIN WithHeader(put) : WithHeader(put)[f].kind = "list" =>
        f \in DOMAIN put /\ WithHeader(put)[f] = put[f]
  BY <1>1, WithHeaderFacts, HeaderFacts DEF Body
<1> QED BY <1>2, <1>3, <1>4, <1>5 DEF OneList

\* The layout of every message is sound.
LEMMA LayoutsSound == \A t \in DOMAIN Layouts : Sound(Layouts[t]) /\ OneList(t)
BY LayoutNames, ProcessConnectionSound, SwapRequestSound, SwapConfirmationSound,
   InvocationRequestSound, InvocationResultSound, DataPlaneMetricsSound, ProcessClosureSound,
   ApplicationUpdateSound, PutMessageSound, GetRequestSound, PutRequestSound,
   IpcInvocationRequestSound, IpcInvocationResultSound, IpcApplicationUpdateSound,
   StateKeysRequestSound, StateKeysResultSound

-----------------------------------------------------------------------------
(* Routes.                                                                  *)

\* A field of this kind and length is set and read under this name.
Has(l, f, kind, max) ==
  /\ f \in DOMAIN l.put /\ f \in DOMAIN l.get
  /\ l.put[f].kind = kind /\ l.put[f].max = max
  /\ l.get[f].kind = kind /\ l.get[f].max = max

\* A field behind the header.
HasField(put, get, f, kind, max) ==
  /\ f \notin {"type", "total_length"} /\ f \in DOMAIN put /\ f \in DOMAIN get
  /\ put[f].kind = kind /\ put[f].max = max
  /\ get[f].kind = kind /\ get[f].max = max

\* Adding the header keeps the other fields,
LEMMA FieldKept ==
  ASSUME NEW l, NEW put, NEW get, l.put = WithHeader(put), l.get = WithHeader(get),
         NEW f, NEW kind, NEW max, HasField(put, get, f, kind, max)
  PROVE  Has(l, f, kind, max)
BY WithHeaderFacts DEF Has, HasField

\* and total_length is a number of four bytes in each message.
LEMMA LengthKept ==
  ASSUME NEW l, NEW put, NEW get, l.put = WithHeader(put), l.get = WithHeader(get)
  PROVE  Has(l, "total_length", "int", 4)
<1>1. /\ "total_length" \in DOMAIN l.put /\ "total_length" \in DOMAIN l.get
      /\ l.put["total_length"] = HeaderFields["total_length"]
      /\ l.get["total_length"] = HeaderFields["total_length"]
  BY WithHeaderFacts
<1> QED BY <1>1, HeaderFacts DEF Has

\* The fields of InvocationRequest that routes carry or set.
LEMMA InvocationRequestFields ==
  /\ Has(Layouts["InvocationRequest"], "total_length", "int", 4)
  /\ Has(Layouts["InvocationRequest"], "payload_size", "nat", 4)
  /\ Has(Layouts["InvocationRequest"], "function_name", "str", 32)
  /\ Has(Layouts["InvocationRequest"], "invocation_id", "str", 16)
<1> DEFINE put == [payload_size |-> Nat32(0), function_name |-> Str(4, NAME_LENGTH),
                   invocation_id |-> Str(NAME_LENGTH + 4, ID_LENGTH)]
           get == put
<1>1. /\ Layouts["InvocationRequest"].put = WithHeader(put)
      /\ Layouts["InvocationRequest"].get = WithHeader(get)
  BY DEF Layouts, InvocationRequest, Common
<1>2. /\ HasField(put, get, "payload_size", "nat", 4)
      /\ HasField(put, get, "function_name", "str", 32)
      /\ HasField(put, get, "invocation_id", "str", 16)
  BY DEF HasField, Str, Num, Nat32, List, NAME_LENGTH, ID_LENGTH, MAX_BUFFERS
<1> HIDE DEF put, get
<1> QED BY <1>1, <1>2, FieldKept, LengthKept

\* The fields of InvocationResult that routes carry or set.
LEMMA InvocationResultFields ==
  /\ Has(Layouts["InvocationResult"], "total_length", "int", 4)
  /\ Has(Layouts["InvocationResult"], "return_code", "int", 4)
  /\ Has(Layouts["InvocationResult"], "invocation_id", "str", 16)
<1> DEFINE put == [return_code |-> Num(0, 4), invocation_id |-> Str(4, ID_LENGTH)]
           get == put
<1>1. /\ Layouts["InvocationResult"].put = WithHeader(put)
      /\ Layouts["InvocationResult"].get = WithHeader(get)
  BY DEF Layouts, InvocationResult, Common
<1>2. /\ HasField(put, get, "return_code", "int", 4)
      /\ HasField(put, get, "invocation_id", "str", 16)
  BY DEF HasField, Str, Num, Nat32, List, NAME_LENGTH, ID_LENGTH, MAX_BUFFERS
<1> HIDE DEF put, get
<1> QED BY <1>1, <1>2, FieldKept, LengthKept

\* The fields of ApplicationUpdate that routes carry or set.
LEMMA ApplicationUpdateFields ==
  /\ Has(Layouts["ApplicationUpdate"], "total_length", "int", 4)
  /\ Has(Layouts["ApplicationUpdate"], "process_id", "str", 32)
  /\ Has(Layouts["ApplicationUpdate"], "ip_address", "str", 16)
  /\ Has(Layouts["ApplicationUpdate"], "status_change", "int", 4)
  /\ Has(Layouts["ApplicationUpdate"], "port", "int", 4)
<1> DEFINE put == [process_id |-> Str(0, NAME_LENGTH), ip_address |-> Str(NAME_LENGTH, ID_LENGTH),
                   status_change |-> Num(NAME_LENGTH + ID_LENGTH, 4),
                   port |-> Num(NAME_LENGTH + ID_LENGTH + 4, 4)]
           get == put
<1>1. /\ Layouts["ApplicationUpdate"].put = WithHeader(put)
      /\ Layouts["ApplicationUpdate"].get = WithHeader(get)
  BY DEF Layouts, ApplicationUpdate, Common
<1>2. /\ HasField(put, get, "process_id", "str", 32)
      /\ HasField(put, get, "ip_address", "str", 16)
      /\ HasField(put, get, "status_change", "int", 4)
      /\ HasField(put, get, "port", "int", 4)
  BY DEF HasField, Str, Num, Nat32, List, NAME_LENGTH, ID_LENGTH, MAX_BUFFERS
<1> HIDE DEF put, get
<1> QED BY <1>1, <1>2, FieldKept, LengthKept

\* The fields of PutMessage that routes carry or set.
LEMMA PutMessageFields ==
  /\ Has(Layouts["PutMessage"], "total_length", "int", 4)
  /\ Has(Layouts["PutMessage"], "name", "str", 32)
  /\ Has(Layouts["PutMessage"], "process_id", "str", 32)
<1> DEFINE put == [name |-> Str(0, NAME_LENGTH), process_id |-> Str(NAME_LENGTH, NAME_LENGTH)]
           get == put
<1>1. /\ Layouts["PutMessage"].put = WithHeader(put)
      /\ Layouts["PutMessage"].get = WithHeader(get)
  BY DEF Layouts, PutMessage, Common
<1>2. /\ HasField(put, get, "name", "str", 32)
      /\ HasField(put, get, "process_id", "str", 32)
  BY DEF HasField, Str, Num, Nat32, List, NAME_LENGTH, ID_LENGTH, MAX_BUFFERS
<1> HIDE DEF put, get
<1> QED BY <1>1, <1>2, FieldKept, LengthKept

\* The fields of GetRequest that routes carry or set.
LEMMA GetRequestFields ==
  /\ Has(Layouts["GetRequest"], "total_length", "int", 4)
  /\ Has(Layouts["GetRequest"], "data_len", "int", 4)
  /\ Has(Layouts["GetRequest"], "process_id", "str", 32)
  /\ Has(Layouts["GetRequest"], "name", "str", 32)
  /\ Has(Layouts["GetRequest"], "state", "int", 1)
<1> DEFINE put == GenericRequestSetters
           get == GenericRequestParsed
<1>1. /\ Layouts["GetRequest"].put = WithHeader(put)
      /\ Layouts["GetRequest"].get = WithHeader(get)
  BY DEF Layouts, GetRequest, Ipc
<1>2. /\ HasField(put, get, "data_len", "int", 4)
      /\ HasField(put, get, "process_id", "str", 32)
      /\ HasField(put, get, "name", "str", 32)
      /\ HasField(put, get, "state", "int", 1)
  BY DEF HasField, Str, Num, Nat32, List, NAME_LENGTH, ID_LENGTH, MAX_BUFFERS,
         GenericRequestSetters, GenericRequestParsed
<1> HIDE DEF put, get
<1> QED BY <1>1, <1>2, FieldKept, LengthKept

\* The fields of IpcInvocationRequest that routes carry or set.
LEMMA IpcInvocationRequestFields ==
  /\ Has(Layouts["IpcInvocationRequest"], "total_length", "int", 4)
  /\ Has(Layouts["IpcInvocationRequest"], "invocation_id", "str", 16)
  /\ Has(Layouts["IpcInvocationRequest"], "function_name", "str", 32)
  /\ Has(Layouts["IpcInvocationRequest"], "process_id", "str", 16)
  /\ Has(Layouts["IpcInvocationRequest"], "buffers", "list", 16)
<1> DEFINE put == IpcInvocationRequestSetters
           get == IpcInvocationRequestParsed
<1>1. /\ Layouts["IpcInvocationRequest"].put = WithHeader(put)
      /\ Layouts["IpcInvocationRequest"].get = WithHeader(get)
  BY DEF Layouts, IpcInvocationRequest, Ipc
<1>2. /\ HasField(put, get, "invocation_id", "str", 16)
      /\ HasField(put, get, "function_name", "str", 32)
      /\ HasField(put, get, "process_id", "str", 16)
      /\ HasField(put, get, "buffers", "list", 16)
  BY DEF HasField, Str, Num, Nat32, List, NAME_LENGTH, ID_LENGTH, MAX_BUFFERS,
         IpcInvocationRequestSetters, IpcInvocationRequestParsed
<1> HIDE DEF put, get
<1> QED BY <1>1, <1>2, FieldKept, LengthKept

\* The fields of IpcInvocationResult that routes carry or set.
LEMMA IpcInvocationResultFields ==
  /\ Has(Layouts["IpcInvocationResult"], "total_length", "int", 4)
  /\ Has(Layouts["IpcInvocationResult"], "invocation_id", "str", 16)
  /\ Has(Layouts["IpcInvocationResult"], "buffer_length", "int", 4)
  /\ Has(Layouts["IpcInvocationResult"], "return_code", "int", 4)
<1> DEFINE put == IpcInvocationResultSetters
           get == IpcInvocationResultSetters
<1>1. /\ Layouts["IpcInvocationResult"].put = WithHeader(put)
      /\ Layouts["IpcInvocationResult"].get = WithHeader(get)
  BY DEF Layouts, IpcInvocationResult, Ipc
<1>2. /\ HasField(put, get, "invocation_id", "str", 16)
      /\ HasField(put, get, "buffer_length", "int", 4)
      /\ HasField(put, get, "return_code", "int", 4)
  BY DEF HasField, Str, Num, Nat32, List, NAME_LENGTH, ID_LENGTH, MAX_BUFFERS,
         IpcInvocationResultSetters
<1> HIDE DEF put, get
<1> QED BY <1>1, <1>2, FieldKept, LengthKept

\* The fields of IpcApplicationUpdate that routes carry or set.
LEMMA IpcApplicationUpdateFields ==
  /\ Has(Layouts["IpcApplicationUpdate"], "total_length", "int", 4)
  /\ Has(Layouts["IpcApplicationUpdate"], "process_id", "str", 32)
  /\ Has(Layouts["IpcApplicationUpdate"], "status_change", "int", 4)
<1> DEFINE put == IpcApplicationUpdateSetters
           get == IpcApplicationUpdateSetters
<1>1. /\ Layouts["IpcApplicationUpdate"].put = WithHeader(put)
      /\ Layouts["IpcApplicationUpdate"].get = WithHeader(get)
  BY DEF Layouts, IpcApplicationUpdate, Ipc
<1>2. /\ HasField(put, get, "process_id", "str", 32)
      /\ HasField(put, get, "status_change", "int", 4)
  BY DEF HasField, Str, Num, Nat32, List, NAME_LENGTH, ID_LENGTH, MAX_BUFFERS,
         IpcApplicationUpdateSetters
<1> HIDE DEF put, get
<1> QED BY <1>1, <1>2, FieldKept, LengthKept

\* The fields of PutRequest that routes carry or set.
LEMMA PutRequestFields ==
  /\ Has(Layouts["PutRequest"], "total_length", "int", 4)
  /\ Has(Layouts["PutRequest"], "data_len", "int", 4)
  /\ Has(Layouts["PutRequest"], "process_id", "str", 32)
  /\ Has(Layouts["PutRequest"], "name", "str", 32)
  /\ Has(Layouts["PutRequest"], "state", "int", 1)
<1> DEFINE put == GenericRequestSetters
           get == GenericRequestParsed
<1>1. /\ Layouts["PutRequest"].put = WithHeader(put)
      /\ Layouts["PutRequest"].get = WithHeader(get)
  BY DEF Layouts, PutRequest, Ipc
<1>2. /\ HasField(put, get, "data_len", "int", 4)
      /\ HasField(put, get, "process_id", "str", 32)
      /\ HasField(put, get, "name", "str", 32)
      /\ HasField(put, get, "state", "int", 1)
  BY DEF HasField, Str, Num, Nat32, List, NAME_LENGTH, ID_LENGTH, MAX_BUFFERS,
         GenericRequestSetters, GenericRequestParsed
<1> HIDE DEF put, get
<1> QED BY <1>1, <1>2, FieldKept, LengthKept

\* What the two ends of a route have in common.  The identifier of a process is
\* the only field that may be shorter behind it.
Fitting(r, f) ==
  /\ f \in DOMAIN Layouts[r.from].get
  /\ LET from == Layouts[r.from].get[f]
         to == Layouts[r.to].put[f] IN
     /\ from.kind = to.kind /\ to.kind \in {"str", "int", "nat"}
     /\ from.max \in Nat /\ to.max \in Nat /\ to.max <= from.max
     /\ to.kind # "str" => from.max = to.max
     /\ to.max < from.max => r.to = "IpcInvocationRequest" /\ f = "process_id"

RouteSound(r) ==
  /\ r.from \in DOMAIN Layouts /\ r.to \in DOMAIN Layouts
  /\ r.carry \subseteq ToSet(r.set)
  /\ Len(r.set) \in Nat
  /\ DOMAIN r.set = 1..Len(r.set)
  /\ \A i \in 1..Len(r.set) : r.set[i] \in DOMAIN Layouts[r.to].put /\ r.set[i] # "type"
  /\ \A i, j \in 1..Len(r.set) : r.set[i] = r.set[j] => i = j
  /\ \A f \in r.carry : Fitting(r, f)

\* The route RemoteInvocation sets each field once and carries only fields that fit.
LEMMA RemoteInvocationSound == RouteSound(RemoteInvocation)
<1> DEFINE r == RemoteInvocation
<1>1. /\ r.from = "IpcInvocationRequest" /\ r.to = "InvocationRequest"
      /\ r.carry = {"invocation_id", "function_name"}
      /\ r.set = <<"invocation_id", "function_name", "payload_size", "total_length">>
  BY DEF RemoteInvocation, Route
<1> HIDE DEF r
<1>2. /\ Len(r.set) = 4 /\ DOMAIN r.set = 1..4
      /\ r.set[1] = "invocation_id"
      /\ r.set[2] = "function_name"
      /\ r.set[3] = "payload_size"
      /\ r.set[4] = "total_length"
  BY <1>1
<1>3. \A i \in 1..4 : i = 1 \/ i = 2 \/ i = 3 \/ i = 4
  OBVIOUS
<1>4. r.carry \subseteq ToSet(r.set)
  BY <1>1, <1>2 DEF ToSet
<1>5. \A i \in 1..4 : r.set[i] \in DOMAIN Layouts[r.to].put /\ r.set[i] # "type"
  BY <1>1, <1>2, <1>3, InvocationRequestFields DEF Has
<1>6. \A i, j \in 1..4 : r.set[i] = r.set[j] => i = j
  BY <1>2, <1>3
<1>7. \A f \in r.carry : Fitting(r, f)
  BY <1>1, IpcInvocationRequestFields, InvocationRequestFields DEF Has, Fitting
<1> QED BY <1>1, <1>2, <1>4, <1>5, <1>6, <1>7, LayoutNames DEF RouteSound, r

\* The route SubmitExternal sets each field once and carries only fields that fit.
LEMMA SubmitExternalSound == RouteSound(SubmitExternal)
<1> DEFINE r == SubmitExternal
<1>1. /\ r.from = "InvocationRequest" /\ r.to = "IpcInvocationRequest"
      /\ r.carry = {"function_name", "invocation_id"}
      /\ r.set = <<"function_name", "invocation_id", "buffers", "total_length">>
  BY DEF SubmitExternal, Route
<1> HIDE DEF r
<1>2. /\ Len(r.set) = 4 /\ DOMAIN r.set = 1..4
      /\ r.set[1] = "function_name"
      /\ r.set[2] = "invocation_id"
      /\ r.set[3] = "buffers"
      /\ r.set[4] = "total_length"
  BY <1>1
<1>3. \A i \in 1..4 : i = 1 \/ i = 2 \/ i = 3 \/ i = 4
  OBVIOUS
<1>4. r.carry \subseteq ToSet(r.set)
  BY <1>1, <1>2 DEF ToSet
<1>5. \A i \in 1..4 : r.set[i] \in DOMAIN Layouts[r.to].put /\ r.set[i] # "type"
  BY <1>1, <1>2, <1>3, IpcInvocationRequestFields DEF Has
<1>6. \A i, j \in 1..4 : r.set[i] = r.set[j] => i = j
  BY <1>2, <1>3
<1>7. \A f \in r.carry : Fitting(r, f)
  BY <1>1, InvocationRequestFields, IpcInvocationRequestFields DEF Has, Fitting
<1> QED BY <1>1, <1>2, <1>4, <1>5, <1>6, <1>7, LayoutNames DEF RouteSound, r

\* The route SubmitInternal sets each field once and carries only fields that fit.
LEMMA SubmitInternalSound == RouteSound(SubmitInternal)
<1> DEFINE r == SubmitInternal
<1>1. /\ r.from = "IpcInvocationRequest" /\ r.to = "IpcInvocationRequest"
      /\ r.carry = {"function_name", "invocation_id"}
      /\ r.set = <<"function_name", "invocation_id", "buffers", "total_length">>
  BY DEF SubmitInternal, Route
<1> HIDE DEF r
<1>2. /\ Len(r.set) = 4 /\ DOMAIN r.set = 1..4
      /\ r.set[1] = "function_name"
      /\ r.set[2] = "invocation_id"
      /\ r.set[3] = "buffers"
      /\ r.set[4] = "total_length"
  BY <1>1
<1>3. \A i \in 1..4 : i = 1 \/ i = 2 \/ i = 3 \/ i = 4
  OBVIOUS
<1>4. r.carry \subseteq ToSet(r.set)
  BY <1>1, <1>2 DEF ToSet
<1>5. \A i \in 1..4 : r.set[i] \in DOMAIN Layouts[r.to].put /\ r.set[i] # "type"
  BY <1>1, <1>2, <1>3, IpcInvocationRequestFields DEF Has
<1>6. \A i, j \in 1..4 : r.set[i] = r.set[j] => i = j
  BY <1>2, <1>3
<1>7. \A f \in r.carry : Fitting(r, f)
  BY <1>1, IpcInvocationRequestFields DEF Has, Fitting
<1> QED BY <1>1, <1>2, <1>4, <1>5, <1>6, <1>7, LayoutNames DEF RouteSound, r

\* The route Finish sets each field once and carries only fields that fit.
LEMMA FinishSound == RouteSound(Finish)
<1> DEFINE r == Finish
<1>1. /\ r.from = "IpcInvocationRequest" /\ r.to = "IpcInvocationResult"
      /\ r.carry = {"invocation_id"}
      /\ r.set = <<"return_code", "buffer_length", "invocation_id", "total_length">>
  BY DEF Finish, Route
<1> HIDE DEF r
<1>2. /\ Len(r.set) = 4 /\ DOMAIN r.set = 1..4
      /\ r.set[1] = "return_code"
      /\ r.set[2] = "buffer_length"
      /\ r.set[3] = "invocation_id"
      /\ r.set[4] = "total_length"
  BY <1>1
<1>3. \A i \in 1..4 : i = 1 \/ i = 2 \/ i = 3 \/ i = 4
  OBVIOUS
<1>4. r.carry \subseteq ToSet(r.set)
  BY <1>1, <1>2 DEF ToSet
<1>5. \A i \in 1..4 : r.set[i] \in DOMAIN Layouts[r.to].put /\ r.set[i] # "type"
  BY <1>1, <1>2, <1>3, IpcInvocationResultFields DEF Has
<1>6. \A i, j \in 1..4 : r.set[i] = r.set[j] => i = j
  BY <1>2, <1>3
<1>7. \A f \in r.carry : Fitting(r, f)
  BY <1>1, IpcInvocationRequestFields, IpcInvocationResultFields DEF Has, Fitting
<1> QED BY <1>1, <1>2, <1>4, <1>5, <1>6, <1>7, LayoutNames DEF RouteSound, r

\* The route LocalResult sets each field once and carries only fields that fit.
LEMMA LocalResultSound == RouteSound(LocalResult)
<1> DEFINE r == LocalResult
<1>1. /\ r.from = "IpcInvocationResult" /\ r.to = "IpcInvocationResult"
      /\ r.carry = {"invocation_id", "return_code"}
      /\ r.set = <<"invocation_id", "return_code", "buffer_length", "total_length">>
  BY DEF LocalResult, Route
<1> HIDE DEF r
<1>2. /\ Len(r.set) = 4 /\ DOMAIN r.set = 1..4
      /\ r.set[1] = "invocation_id"
      /\ r.set[2] = "return_code"
      /\ r.set[3] = "buffer_length"
      /\ r.set[4] = "total_length"
  BY <1>1
<1>3. \A i \in 1..4 : i = 1 \/ i = 2 \/ i = 3 \/ i = 4
  OBVIOUS
<1>4. r.carry \subseteq ToSet(r.set)
  BY <1>1, <1>2 DEF ToSet
<1>5. \A i \in 1..4 : r.set[i] \in DOMAIN Layouts[r.to].put /\ r.set[i] # "type"
  BY <1>1, <1>2, <1>3, IpcInvocationResultFields DEF Has
<1>6. \A i, j \in 1..4 : r.set[i] = r.set[j] => i = j
  BY <1>2, <1>3
<1>7. \A f \in r.carry : Fitting(r, f)
  BY <1>1, IpcInvocationResultFields DEF Has, Fitting
<1> QED BY <1>1, <1>2, <1>4, <1>5, <1>6, <1>7, LayoutNames DEF RouteSound, r

\* The route RemoteResult sets each field once and carries only fields that fit.
LEMMA RemoteResultSound == RouteSound(RemoteResult)
<1> DEFINE r == RemoteResult
<1>1. /\ r.from = "IpcInvocationResult" /\ r.to = "InvocationResult"
      /\ r.carry = {"invocation_id", "return_code"}
      /\ r.set = <<"invocation_id", "return_code", "total_length">>
  BY DEF RemoteResult, Route
<1> HIDE DEF r
<1>2. /\ Len(r.set) = 3 /\ DOMAIN r.set = 1..3
      /\ r.set[1] = "invocation_id"
      /\ r.set[2] = "return_code"
      /\ r.set[3] = "total_length"
  BY <1>1
<1>3. \A i \in 1..3 : i = 1 \/ i = 2 \/ i = 3
  OBVIOUS
<1>4. r.carry \subseteq ToSet(r.set)
  BY <1>1, <1>2 DEF ToSet
<1>5. \A i \in 1..3 : r.set[i] \in DOMAIN Layouts[r.to].put /\ r.set[i] # "type"
  BY <1>1, <1>2, <1>3, InvocationResultFields DEF Has
<1>6. \A i, j \in 1..3 : r.set[i] = r.set[j] => i = j
  BY <1>2, <1>3
<1>7. \A f \in r.carry : Fitting(r, f)
  BY <1>1, IpcInvocationResultFields, InvocationResultFields DEF Has, Fitting
<1> QED BY <1>1, <1>2, <1>4, <1>5, <1>6, <1>7, LayoutNames DEF RouteSound, r

\* The route ExternalResult sets each field once and carries only fields that fit.
LEMMA ExternalResultSound == RouteSound(ExternalResult)
<1> DEFINE r == ExternalResult
<1>1. /\ r.from = "InvocationResult" /\ r.to = "IpcInvocationResult"
      /\ r.carry = {"invocation_id", "return_code"}
      /\ r.set = <<"invocation_id", "return_code", "buffer_length", "total_length">>
  BY DEF ExternalResult, Route
<1> HIDE DEF r
<1>2. /\ Len(r.set) = 4 /\ DOMAIN r.set = 1..4
      /\ r.set[1] = "invocation_id"
      /\ r.set[2] = "return_code"
      /\ r.set[3] = "buffer_length"
      /\ r.set[4] = "total_length"
  BY <1>1
<1>3. \A i \in 1..4 : i = 1 \/ i = 2 \/ i = 3 \/ i = 4
  OBVIOUS
<1>4. r.carry \subseteq ToSet(r.set)
  BY <1>1, <1>2 DEF ToSet
<1>5. \A i \in 1..4 : r.set[i] \in DOMAIN Layouts[r.to].put /\ r.set[i] # "type"
  BY <1>1, <1>2, <1>3, IpcInvocationResultFields DEF Has
<1>6. \A i, j \in 1..4 : r.set[i] = r.set[j] => i = j
  BY <1>2, <1>3
<1>7. \A f \in r.carry : Fitting(r, f)
  BY <1>1, InvocationResultFields, IpcInvocationResultFields DEF Has, Fitting
<1> QED BY <1>1, <1>2, <1>4, <1>5, <1>6, <1>7, LayoutNames DEF RouteSound, r

\* The route RemotePut sets each field once and carries only fields that fit.
LEMMA RemotePutSound == RouteSound(RemotePut)
<1> DEFINE r == RemotePut
<1>1. /\ r.from = "PutRequest" /\ r.to = "PutMessage"
      /\ r.carry = {"name"}
      /\ r.set = <<"name", "process_id", "total_length">>
  BY DEF RemotePut, Route
<1> HIDE DEF r
<1>2. /\ Len(r.set) = 3 /\ DOMAIN r.set = 1..3
      /\ r.set[1] = "name"
      /\ r.set[2] = "process_id"
      /\ r.set[3] = "total_length"
  BY <1>1
<1>3. \A i \in 1..3 : i = 1 \/ i = 2 \/ i = 3
  OBVIOUS
<1>4. r.carry \subseteq ToSet(r.set)
  BY <1>1, <1>2 DEF ToSet
<1>5. \A i \in 1..3 : r.set[i] \in DOMAIN Layouts[r.to].put /\ r.set[i] # "type"
  BY <1>1, <1>2, <1>3, PutMessageFields DEF Has
<1>6. \A i, j \in 1..3 : r.set[i] = r.set[j] => i = j
  BY <1>2, <1>3
<1>7. \A f \in r.carry : Fitting(r, f)
  BY <1>1, PutRequestFields, PutMessageFields DEF Has, Fitting
<1> QED BY <1>1, <1>2, <1>4, <1>5, <1>6, <1>7, LayoutNames DEF RouteSound, r

\* The route ExternalPut sets each field once and carries only fields that fit.
LEMMA ExternalPutSound == RouteSound(ExternalPut)
<1> DEFINE r == ExternalPut
<1>1. /\ r.from = "PutMessage" /\ r.to = "GetRequest"
      /\ r.carry = {"process_id", "name"}
      /\ r.set = <<"process_id", "name", "total_length">>
  BY DEF ExternalPut, Route
<1> HIDE DEF r
<1>2. /\ Len(r.set) = 3 /\ DOMAIN r.set = 1..3
      /\ r.set[1] = "process_id"
      /\ r.set[2] = "name"
      /\ r.set[3] = "total_length"
  BY <1>1
<1>3. \A i \in 1..3 : i = 1 \/ i = 2 \/ i = 3
  OBVIOUS
<1>4. r.carry \subseteq ToSet(r.set)
  BY <1>1, <1>2 DEF ToSet
<1>5. \A i \in 1..3 : r.set[i] \in DOMAIN Layouts[r.to].put /\ r.set[i] # "type"
  BY <1>1, <1>2, <1>3, GetRequestFields DEF Has
<1>6. \A i, j \in 1..3 : r.set[i] = r.set[j] => i = j
  BY <1>2, <1>3
<1>7. \A f \in r.carry : Fitting(r, f)
  BY <1>1, PutMessageFields, GetRequestFields DEF Has, Fitting
<1> QED BY <1>1, <1>2, <1>4, <1>5, <1>6, <1>7, LayoutNames DEF RouteSound, r

\* The route LocalPut sets each field once and carries only fields that fit.
LEMMA LocalPutSound == RouteSound(LocalPut)
<1> DEFINE r == LocalPut
<1>1. /\ r.from = "PutRequest" /\ r.to = "GetRequest"
      /\ r.carry = {"name"}
      /\ r.set = <<"process_id", "name", "total_length">>
  BY DEF LocalPut, Route
<1> HIDE DEF r
<1>2. /\ Len(r.set) = 3 /\ DOMAIN r.set = 1..3
      /\ r.set[1] = "process_id"
      /\ r.set[2] = "name"
      /\ r.set[3] = "total_length"
  BY <1>1
<1>3. \A i \in 1..3 : i = 1 \/ i = 2 \/ i = 3
  OBVIOUS
<1>4. r.carry \subseteq ToSet(r.set)
  BY <1>1, <1>2 DEF ToSet
<1>5. \A i \in 1..3 : r.set[i] \in DOMAIN Layouts[r.to].put /\ r.set[i] # "type"
  BY <1>1, <1>2, <1>3, GetRequestFields DEF Has
<1>6. \A i, j \in 1..3 : r.set[i] = r.set[j] => i = j
  BY <1>2, <1>3
<1>7. \A f \in r.carry : Fitting(r, f)
  BY <1>1, PutRequestFields, GetRequestFields DEF Has, Fitting
<1> QED BY <1>1, <1>2, <1>4, <1>5, <1>6, <1>7, LayoutNames DEF RouteSound, r

\* The route GetReply sets each field once and carries only fields that fit.
LEMMA GetReplySound == RouteSound(GetReply)
<1> DEFINE r == GetReply
<1>1. /\ r.from = "GetRequest" /\ r.to = "GetRequest"
      /\ r.carry = {"process_id", "name"}
      /\ r.set = <<"process_id", "name", "total_length">>
  BY DEF GetReply, Route
<1> HIDE DEF r
<1>2. /\ Len(r.set) = 3 /\ DOMAIN r.set = 1..3
      /\ r.set[1] = "process_id"
      /\ r.set[2] = "name"
      /\ r.set[3] = "total_length"
  BY <1>1
<1>3. \A i \in 1..3 : i = 1 \/ i = 2 \/ i = 3
  OBVIOUS
<1>4. r.carry \subseteq ToSet(r.set)
  BY <1>1, <1>2 DEF ToSet
<1>5. \A i \in 1..3 : r.set[i] \in DOMAIN Layouts[r.to].put /\ r.set[i] # "type"
  BY <1>1, <1>2, <1>3, GetRequestFields DEF Has
<1>6. \A i, j \in 1..3 : r.set[i] = r.set[j] => i = j
  BY <1>2, <1>3
<1>7. \A f \in r.carry : Fitting(r, f)
  BY <1>1, GetRequestFields DEF Has, Fitting
<1> QED BY <1>1, <1>2, <1>4, <1>5, <1>6, <1>7, LayoutNames DEF RouteSound, r

\* The route StateReply sets each field once and carries only fields that fit.
LEMMA StateReplySound == RouteSound(StateReply)
<1> DEFINE r == StateReply
<1>1. /\ r.from = "GetRequest" /\ r.to = "GetRequest"
      /\ r.carry = {"name", "state"}
      /\ r.set = <<"name", "state", "total_length">>
  BY DEF StateReply, Route
<1> HIDE DEF r
<1>2. /\ Len(r.set) = 3 /\ DOMAIN r.set = 1..3
      /\ r.set[1] = "name"
      /\ r.set[2] = "state"
      /\ r.set[3] = "total_length"
  BY <1>1
<1>3. \A i \in 1..3 : i = 1 \/ i = 2 \/ i = 3
  OBVIOUS
<1>4. r.carry \subseteq ToSet(r.set)
  BY <1>1, <1>2 DEF ToSet
<1>5. \A i \in 1..3 : r.set[i] \in DOMAIN Layouts[r.to].put /\ r.set[i] # "type"
  BY <1>1, <1>2, <1>3, GetRequestFields DEF Has
<1>6. \A i, j \in 1..3 : r.set[i] = r.set[j] => i = j
  BY <1>2, <1>3
<1>7. \A f \in r.carry : Fitting(r, f)
  BY <1>1, GetRequestFields DEF Has, Fitting
<1> QED BY <1>1, <1>2, <1>4, <1>5, <1>6, <1>7, LayoutNames DEF RouteSound, r

\* The route Membership sets each field once and carries only fields that fit.
LEMMA MembershipSound == RouteSound(Membership)
<1> DEFINE r == Membership
<1>1. /\ r.from = "ApplicationUpdate" /\ r.to = "IpcApplicationUpdate"
      /\ r.carry = {"process_id", "status_change"}
      /\ r.set = <<"process_id", "status_change", "total_length">>
  BY DEF Membership, Route
<1> HIDE DEF r
<1>2. /\ Len(r.set) = 3 /\ DOMAIN r.set = 1..3
      /\ r.set[1] = "process_id"
      /\ r.set[2] = "status_change"
      /\ r.set[3] = "total_length"
  BY <1>1
<1>3. \A i \in 1..3 : i = 1 \/ i = 2 \/ i = 3
  OBVIOUS
<1>4. r.carry \subseteq ToSet(r.set)
  BY <1>1, <1>2 DEF ToSet
<1>5. \A i \in 1..3 : r.set[i] \in DOMAIN Layouts[r.to].put /\ r.set[i] # "type"
  BY <1>1, <1>2, <1>3, IpcApplicationUpdateFields DEF Has
<1>6. \A i, j \in 1..3 : r.set[i] = r.set[j] => i = j
  BY <1>2, <1>3
<1>7. \A f \in r.carry : Fitting(r, f)
  BY <1>1, ApplicationUpdateFields, IpcApplicationUpdateFields DEF Has, Fitting
<1> QED BY <1>1, <1>2, <1>4, <1>5, <1>6, <1>7, LayoutNames DEF RouteSound, r

\* The route InvokeMember sets each field once and carries only fields that fit.
LEMMA InvokeMemberSound == RouteSound(InvokeMember)
<1> DEFINE r == InvokeMember
<1>1. /\ r.from = "IpcApplicationUpdate" /\ r.to = "IpcInvocationRequest"
      /\ r.carry = {"process_id"}
      /\ r.set = <<"process_id", "function_name", "invocation_id", "buffers", "total_length">>
  BY DEF InvokeMember, Route
<1> HIDE DEF r
<1>2. /\ Len(r.set) = 5 /\ DOMAIN r.set = 1..5
      /\ r.set[1] = "process_id"
      /\ r.set[2] = "function_name"
      /\ r.set[3] = "invocation_id"
      /\ r.set[4] = "buffers"
      /\ r.set[5] = "total_length"
  BY <1>1
<1>3. \A i \in 1..5 : i = 1 \/ i = 2 \/ i = 3 \/ i = 4 \/ i = 5
  OBVIOUS
<1>4. r.carry \subseteq ToSet(r.set)
  BY <1>1, <1>2 DEF ToSet
<1>5. \A i \in 1..5 : r.set[i] \in DOMAIN Layouts[r.to].put /\ r.set[i] # "type"
  BY <1>1, <1>2, <1>3, IpcInvocationRequestFields DEF Has
<1>6. \A i, j \in 1..5 : r.set[i] = r.set[j] => i = j
  BY <1>2, <1>3
<1>7. \A f \in r.carry : Fitting(r, f)
  BY <1>1, IpcApplicationUpdateFields, IpcInvocationRequestFields DEF Has, Fitting
<1> QED BY <1>1, <1>2, <1>4, <1>5, <1>6, <1>7, LayoutNames DEF RouteSound, r

\* The route PutToMember sets each field once and carries only fields that fit.
LEMMA PutToMemberSound == RouteSound(PutToMember)
<1> DEFINE r == PutToMember
<1>1. /\ r.from = "IpcApplicationUpdate" /\ r.to = "PutRequest"
      /\ r.carry = {"process_id"}
      /\ r.set = <<"process_id", "name", "data_len", "total_length">>
  BY DEF PutToMember, Route
<1> HIDE DEF r
<1>2. /\ Len(r.set) = 4 /\ DOMAIN r.set = 1..4
      /\ r.set[1] = "process_id"
      /\ r.set[2] = "name"
      /\ r.set[3] = "data_len"
      /\ r.set[4] = "total_length"
  BY <1>1
<1>3. \A i \in 1..4 : i = 1 \/ i = 2 \/ i = 3 \/ i = 4
  OBVIOUS
<1>4. r.carry \subseteq ToSet(r.set)
  BY <1>1, <1>2 DEF ToSet
<1>5. \A i \in 1..4 : r.set[i] \in DOMAIN Layouts[r.to].put /\ r.set[i] # "type"
  BY <1>1, <1>2, <1>3, PutRequestFields DEF Has
<1>6. \A i, j \in 1..4 : r.set[i] = r.set[j] => i = j
  BY <1>2, <1>3
<1>7. \A f \in r.carry : Fitting(r, f)
  BY <1>1, IpcApplicationUpdateFields, PutRequestFields DEF Has, Fitting
<1> QED BY <1>1, <1>2, <1>4, <1>5, <1>6, <1>7, LayoutNames DEF RouteSound, r

\* Every route is sound.
LEMMA RoutesSound == \A r \in Routes : RouteSound(r)
BY RemoteInvocationSound, SubmitExternalSound, SubmitInternalSound, FinishSound,
   LocalResultSound, RemoteResultSound, ExternalResultSound, RemotePutSound, ExternalPutSound,
   LocalPutSound, GetReplySound, StateReplySound, MembershipSound, InvokeMemberSound,
   PutToMemberSound DEF Routes

-----------------------------------------------------------------------------
(* Memory.                                                                  *)

\* A set of numbers has a least one.
LEMMA LeastOf ==
  ASSUME NEW S \in SUBSET Nat, S # {}
  PROVE  Min(S) \in S /\ \A y \in S : Min(S) <= y
<1>1. PICK x \in S : \A y \in S : x <= y
  BY LeastExists
<1> QED BY <1>1 DEF Min

\* strnlen stops at the first zero byte.
LEMMA StrLenFacts ==
  ASSUME NEW m, NEW at \in Nat, NEW max \in Nat
  PROVE  /\ StrLen(m, at, max) \in 0..max
         /\ \A k \in 0..(StrLen(m, at, max) - 1) : ByteAt(m, at + k) # Zero
         /\ StrLen(m, at, max) < max => ByteAt(m, at + StrLen(m, at, max)) = Zero
<1> DEFINE ends == {k \in 0..(max - 1) : ByteAt(m, at + k) = Zero}
           n == StrLen(m, at, max)
<1>1. CASE ends = {}
  <2>1. n = max
    BY <1>1 DEF StrLen
  <2>2. \A k \in 0..(max - 1) : ByteAt(m, at + k) # Zero
    BY <1>1
  <2> HIDE DEF n, ends
  <2>3. /\ n \in 0..max /\ ~(n < max)
        /\ \A k \in 0..(n - 1) : ByteAt(m, at + k) # Zero
    BY <2>1, <2>2
  <2> QED BY <2>3 DEF n
<1>2. CASE ends # {}
  <2>1. n = Min(ends)
    BY <1>2 DEF StrLen
  <2>2. ends \in SUBSET Nat
    OBVIOUS
  <2>3. n \in ends /\ \A y \in ends : n <= y
    BY <1>2, <2>1, <2>2, LeastOf
  <2>4. n \in 0..(max - 1) /\ ByteAt(m, at + n) = Zero
    BY <2>3
  <2>5. \A k \in 0..(n - 1) : ByteAt(m, at + k) # Zero
    BY <2>3, <2>4
  <2> QED BY <2>4, <2>5
<1> QED BY <1>1, <1>2

\* The length of a string is known from where its first zero byte is.
LEMMA StrLenIs ==
  ASSUME NEW m, NEW at \in Nat, NEW max \in Nat, NEW n \in 0..max,
         \A k \in 0..(n - 1) : ByteAt(m, at + k) # Zero,
         n < max => ByteAt(m, at + n) = Zero
  PROVE  StrLen(m, at, max) = n
<1> DEFINE p == StrLen(m, at, max)
<1>1. /\ p \in 0..max
      /\ \A k \in 0..(p - 1) : ByteAt(m, at + k) # Zero
      /\ p < max => ByteAt(m, at + p) = Zero
  BY StrLenFacts
<1> HIDE DEF p
<1>2. ~(p < n)
  BY <1>1
<1>3. ~(n < p)
  BY <1>1
<1>4. p = n
  BY <1>1, <1>2, <1>3
<1> QED BY <1>4 DEF p

\* strnlen looks at max bytes and no others.
LEMMA StrLenSame ==
  ASSUME NEW m, NEW o, NEW at \in Nat, NEW max \in Nat,
         \A k \in 0..(max - 1) : ByteAt(o, at + k) = ByteAt(m, at + k)
  PROVE  StrLen(o, at, max) = StrLen(m, at, max)
<1> DEFINE n == StrLen(m, at, max)
<1>1. /\ n \in 0..max
      /\ \A k \in 0..(n - 1) : ByteAt(m, at + k) # Zero
      /\ n < max => ByteAt(m, at + n) = Zero
  BY StrLenFacts
<1> HIDE DEF n
<1>2. /\ \A k \in 0..(n - 1) : ByteAt(o, at + k) # Zero
      /\ n < max => ByteAt(o, at + n) = Zero
  BY <1>1
<1>3. StrLen(o, at, max) = n
  BY <1>1, <1>2, StrLenIs
<1> QED BY <1>3 DEF n

\* What strncpy writes are the bytes of the string, and zeros.
LEMMA StrncpyFacts ==
  ASSUME NEW m, NEW at \in Nat, NEW max \in Nat
  PROVE  /\ Len(Strncpy(m, at, max)) = max
         /\ \A i \in 1..max : Strncpy(m, at, max)[i] =
              IF i <= StrLen(m, at, max) THEN ByteAt(m, at + i - 1) ELSE Zero
<1> DEFINE n == StrLen(m, at, max)
<1>1. n \in 0..max /\ \A k \in 0..(n - 1) : ByteAt(m, at + k) # Zero
  BY StrLenFacts
<1>2. \A i \in 1..max : Strncpy(m, at, max)[i] = IF i <= n THEN m[at + i - 1] ELSE Zero
  BY DEF Strncpy
<1>3. Len(Strncpy(m, at, max)) = max
  BY DEF Strncpy
<1>4. ASSUME NEW i \in 1..max, i <= n
      PROVE  m[at + i - 1] = ByteAt(m, at + i - 1)
  <2>1. i - 1 \in 0..(n - 1) /\ at + (i - 1) = at + i - 1
    BY <1>1, <1>4
  <2>2. ByteAt(m, at + i - 1) # Zero
    BY <1>1, <2>1
  <2> QED BY <2>2 DEF ByteAt
<1> QED BY <1>2, <1>3, <1>4

\* Writing changes the bytes it writes, and no others.
LEMMA WriteFacts ==
  ASSUME NEW size \in Nat, NEW m, DOMAIN m = 0..(size - 1), NEW at \in Nat, NEW b,
         Len(b) \in Nat, at + Len(b) <= size
  PROVE  /\ DOMAIN Write(m, at, b) = 0..(size - 1)
         /\ \A i \in 1..Len(b) : ByteAt(Write(m, at, b), at + i - 1) = b[i]
         /\ \A i \in Nat : i \notin at..(at + Len(b) - 1) => ByteAt(Write(m, at, b), i) = ByteAt(m, i)
<1> DEFINE W == Write(m, at, b)
<1>1. DOMAIN W = 0..(size - 1)
  BY DEF Write
<1>2. \A i \in 0..(size - 1) : W[i] = IF i \in at..(at + Len(b) - 1) THEN b[i - at + 1] ELSE m[i]
  BY DEF Write
<1> HIDE DEF W
<1>3. ASSUME NEW i \in 1..Len(b)
      PROVE  ByteAt(W, at + i - 1) = b[i]
  <2>1. /\ at + i - 1 \in 0..(size - 1) /\ at + i - 1 \in at..(at + Len(b) - 1)
        /\ (at + i - 1) - at + 1 = i
    OBVIOUS
  <2>2. W[at + i - 1] = b[(at + i - 1) - at + 1]
    BY <1>2, <2>1
  <2> QED BY <1>1, <2>1, <2>2 DEF ByteAt
<1>4. ASSUME NEW i \in Nat, i \notin at..(at + Len(b) - 1)
      PROVE  ByteAt(W, i) = ByteAt(m, i)
  BY <1>1, <1>2, <1>4 DEF ByteAt
<1> QED BY <1>1, <1>3, <1>4 DEF W

\* The bytes a getter looks at.
Seen(s, i) == s.at <= i /\ (s.kind = "list" \/ i < s.at + s.max)

\* A field that was set to v: its getter reads v, also if it looks further than
\* the setter writes.
Fits(m, put, get, v) ==
  /\ Read(m, get) = v
  /\ put.kind = "str" => \A k \in put.max..(get.max - 1) : ByteAt(m, get.at + k) = Zero
  /\ put.kind = "list" => ByteAt(m, get.at)[1] \in Nat

\* What a getter returns for a string,
LEMMA ReadString ==
  ASSUME NEW m, NEW s, s.kind = "str", s.at \in Nat, s.max \in Nat
  PROVE  Read(m, s) = [i \in 1..StrLen(m, s.at, s.max) |-> ByteAt(m, s.at + i - 1)]
BY DEF Read

\* for a number,
LEMMA ReadNumber ==
  ASSUME NEW m, NEW s, s.kind # "str", s.kind # "list"
  PROVE  Read(m, s) = [i \in 1..s.max |-> ByteAt(m, s.at + i - 1)]
BY DEF Read

\* and for the lengths of the input buffers.
LEMMA ReadList ==
  ASSUME NEW m, NEW s, s.kind = "list"
  PROVE  Read(m, s) = [i \in 1..(4 * (ByteAt(m, s.at)[1] + 1)) |-> ByteAt(m, s.at + i - 1)]
BY DEF Read

\* Reading depends on the bytes the getter looks at.
LEMMA ReadSame ==
  ASSUME NEW m, NEW o, NEW s, s.at \in Nat, s.max \in Nat,
         s.kind = "list" => ByteAt(m, s.at)[1] \in Nat,
         \A i \in Nat : Seen(s, i) => ByteAt(o, i) = ByteAt(m, i)
  PROVE  Read(o, s) = Read(m, s)
<1>1. CASE s.kind = "str"
  <2> DEFINE n == StrLen(m, s.at, s.max)
  <2>1. n \in 0..s.max
    BY StrLenFacts
  <2> HIDE DEF n
  <2>2. \A k \in 0..(s.max - 1) : ByteAt(o, s.at + k) = ByteAt(m, s.at + k)
    BY DEF Seen
  <2>3. StrLen(o, s.at, s.max) = StrLen(m, s.at, s.max)
    <3> DEFINE at == s.at
               max == s.max
    <3>1. at \in Nat /\ max \in Nat
      OBVIOUS
    <3>2. \A k \in 0..(max - 1) : ByteAt(o, at + k) = ByteAt(m, at + k)
      BY <2>2
    <3> HIDE DEF at, max
    <3>3. StrLen(o, at, max) = StrLen(m, at, max)
      BY <3>1, <3>2, StrLenSame
    <3> QED BY <3>3 DEF at, max
  <2>4. StrLen(o, s.at, s.max) = n
    BY <2>3 DEF n
  <2>5. \A i \in 1..n : ByteAt(o, s.at + i - 1) = ByteAt(m, s.at + i - 1)
    BY <2>1 DEF Seen
  <2>6. Read(m, s) = [i \in 1..n |-> ByteAt(m, s.at + i - 1)]
    BY <1>1, ReadString DEF n
  <2>7. Read(o, s) = [i \in 1..n |-> ByteAt(o, s.at + i - 1)]
    BY <1>1, <2>4, ReadString
  <2> QED BY <2>5, <2>6, <2>7
<1>2. CASE s.kind = "list"
  <2> DEFINE c == ByteAt(m, s.at)[1]
             n == 4 * (c + 1)
  <2>1. c \in Nat /\ ByteAt(o, s.at)[1] = c
    BY <1>2 DEF Seen
  <2> HIDE DEF c
  <2>2. n \in Nat /\ \A i \in 1..n : ByteAt(o, s.at + i - 1) = ByteAt(m, s.at + i - 1)
    BY <1>2, <2>1 DEF Seen
  <2>3. Read(m, s) = [i \in 1..n |-> ByteAt(m, s.at + i - 1)]
    BY <1>2, ReadList DEF c
  <2>4. Read(o, s) = [i \in 1..n |-> ByteAt(o, s.at + i - 1)]
    BY <1>2, <2>1, ReadList
  <2> HIDE DEF n
  <2> QED BY <2>2, <2>3, <2>4
<1>3. CASE s.kind # "str" /\ s.kind # "list"
  <2>1. \A i \in 1..s.max : ByteAt(o, s.at + i - 1) = ByteAt(m, s.at + i - 1)
    BY DEF Seen
  <2> QED BY <1>3, <2>1, ReadNumber
<1> QED BY <1>1, <1>2, <1>3


\* A sequence of n bytes.
Spans(v, n) == v = [i \in 1..n |-> v[i]]

\* A string is read as it was written.
LEMMA StringFits ==
  ASSUME NEW m, NEW put, NEW get, put.kind = "str", get.kind = "str",
         put.at \in Nat, get.at = put.at, put.max \in Nat, get.max \in Nat, put.max <= get.max,
         NEW n \in 0..put.max, NEW v, Spans(v, n),
         \A i \in 1..n : v[i] # Zero /\ ByteAt(m, put.at + i - 1) = v[i],
         \A i \in 1..get.max : n < i => ByteAt(m, put.at + i - 1) = Zero
  PROVE  Fits(m, put, get, v)
<1> DEFINE at == put.at
           max == get.max
<1>1. at \in Nat /\ max \in Nat /\ n \in 0..max
  OBVIOUS
<1>2. \A k \in 0..(n - 1) : ByteAt(m, at + k) # Zero
  <2> TAKE k \in 0..(n - 1)
  <2>1. k + 1 \in 1..n /\ put.at + (k + 1) - 1 = at + k
    OBVIOUS
  <2> QED BY <2>1
<1>3. \A k \in n..(max - 1) : ByteAt(m, at + k) = Zero
  <2> TAKE k \in n..(max - 1)
  <2>1. k + 1 \in 1..max /\ n < k + 1 /\ put.at + (k + 1) - 1 = at + k
    OBVIOUS
  <2> QED BY <2>1
<1>4. \A i \in 1..n : ByteAt(m, at + i - 1) = v[i]
  OBVIOUS
<1> HIDE DEF at, max
<1>5. n < max => ByteAt(m, at + n) = Zero
  BY <1>1, <1>3
<1>6. StrLen(m, at, max) = n
  BY <1>1, <1>2, <1>5, StrLenIs
<1>7. Read(m, get) = [i \in 1..n |-> ByteAt(m, at + i - 1)]
  BY <1>6, ReadString DEF at, max
<1>8. Read(m, get) = v
  BY <1>4, <1>7 DEF Spans
<1>9. \A k \in put.max..(max - 1) : ByteAt(m, at + k) = Zero
  BY <1>1, <1>3
<1> QED BY <1>8, <1>9 DEF Fits, at, max

\* So is a number,
LEMMA NumberFits ==
  ASSUME NEW m, NEW put, NEW get, put.kind # "str", put.kind # "list", get.kind = put.kind,
         put.at \in Nat, get.at = put.at, put.max \in Nat, get.max = put.max,
         NEW v, Spans(v, put.max),
         \A i \in 1..put.max : ByteAt(m, put.at + i - 1) = v[i]
  PROVE  Fits(m, put, get, v)
<1>1. Read(m, get) = [i \in 1..put.max |-> ByteAt(m, put.at + i - 1)]
  BY ReadNumber
<1>2. Read(m, get) = v
  BY <1>1 DEF Spans
<1> QED BY <1>2 DEF Fits

\* and a list of lengths.
LEMMA ListFits ==
  ASSUME NEW m, NEW put, NEW get, put.kind = "list", get.kind = "list",
         put.at \in Nat, get.at = put.at,
         NEW c \in Nat, NEW v, Spans(v, 4 * (c + 1)), v[1][1] = c,
         \A i \in 1..(4 * (c + 1)) : ByteAt(m, put.at + i - 1) = v[i]
  PROVE  Fits(m, put, get, v)
<1>1. ByteAt(m, put.at) = v[1]
  <2>1. 1 \in 1..(4 * (c + 1)) /\ put.at + 1 - 1 = put.at
    OBVIOUS
  <2> QED BY <2>1
<1>2. ByteAt(m, get.at)[1] = c
  BY <1>1
<1>3. Read(m, get) = [i \in 1..(4 * (c + 1)) |-> ByteAt(m, put.at + i - 1)]
  BY <1>2, ReadList
<1>4. Read(m, get) = v
  BY <1>3 DEF Spans
<1> QED BY <1>2, <1>4 DEF Fits

\* Only n bytes at one place have changed.
ChangedAt(o, m, at, n) == \A i \in Nat : i \notin at..(at + n - 1) => ByteAt(o, i) = ByteAt(m, i)

\* Writing one field does not change what is read in another.
LEMMA OtherFits ==
  ASSUME NEW l, Sound(l), NEW f \in DOMAIN l.put, NEW g \in DOMAIN l.put, f # g,
         NEW m, NEW o, NEW k \in Nat, l.put[f].kind # "list" => k <= l.put[f].max,
         ChangedAt(o, m, l.put[f].at, k),
         NEW v, Fits(m, l.put[g], l.get[g], v)
  PROVE  Fits(o, l.put[g], l.get[g], v)
<1> DEFINE pf == l.put[f]
           gf == l.get[f]
           pg == l.put[g]
           gg == l.get[g]
<1>1. /\ pf.at \in Nat /\ gf.at = pf.at /\ pf.max \in Nat /\ gf.max \in Nat /\ pf.max <= gf.max
      /\ gf.kind = pf.kind
      /\ pg.at \in Nat /\ gg.at = pg.at /\ pg.max \in Nat /\ gg.max \in Nat /\ pg.max <= gg.max
      /\ gg.kind = pg.kind
      /\ EndsBefore(gf, gg) \/ EndsBefore(gg, gf)
  BY DEF Sound, WellPlaced
<1>2. /\ pf.kind # "list" => k <= pf.max
      /\ \A i \in Nat : i \notin pf.at..(pf.at + k - 1) => ByteAt(o, i) = ByteAt(m, i)
      /\ Fits(m, pg, gg, v)
  BY DEF ChangedAt
<1> HIDE DEF pf, gf, pg, gg
<1>3. \A i \in Nat : Seen(gg, i) => i \notin pf.at..(pf.at + k - 1)
  BY <1>1, <1>2 DEF Seen, EndsBefore
<1>4. \A i \in Nat : Seen(gg, i) => ByteAt(o, i) = ByteAt(m, i)
  BY <1>2, <1>3
<1>5. Read(m, gg) = v /\ (gg.kind = "list" => ByteAt(m, gg.at)[1] \in Nat)
  BY <1>1, <1>2 DEF Fits
<1>6. Read(o, gg) = v
  BY <1>1, <1>4, <1>5, ReadSame
<1>7. pg.kind = "str" => \A j \in pg.max..(gg.max - 1) : ByteAt(o, gg.at + j) = Zero
  <2> SUFFICES ASSUME pg.kind = "str", NEW j \in pg.max..(gg.max - 1)
               PROVE  ByteAt(o, gg.at + j) = Zero
    OBVIOUS
  <2>1. gg.at + j \in Nat /\ Seen(gg, gg.at + j)
    BY <1>1 DEF Seen
  <2>2. ByteAt(m, gg.at + j) = Zero
    BY <1>2 DEF Fits
  <2> QED BY <1>4, <2>1, <2>2
<1>8. pg.kind = "list" => ByteAt(o, gg.at)[1] \in Nat
  BY <1>1, <1>4, <1>5 DEF Seen
<1>9. Fits(o, pg, gg, v)
  BY <1>6, <1>7, <1>8 DEF Fits
<1> QED BY <1>9 DEF pg, gg

-----------------------------------------------------------------------------
(* The invariant.                                                           *)

\* Every field is read as it was set.
Intact(t, m, v) ==
  \A f \in DOMAIN Layouts[t].put : Fits(m, Layouts[t].put[f], Layouts[t].get[f], v[f])

WireInv ==
  /\ WireTypeOK
  /\ meaning["type"] = Number(Layouts[layout].type, 2)
  /\ ~overrun => Intact(layout, mem, meaning)

\* A field of a layout.
LEMMA FieldFacts ==
  ASSUME NEW t \in DOMAIN Layouts, NEW f \in DOMAIN Layouts[t].put
  PROVE  LET p == Layouts[t].put[f]
             g == Layouts[t].get[f] IN
         /\ p.kind \in Kinds /\ g.kind = p.kind /\ p.at \in Nat /\ g.at = p.at
         /\ p.max \in Nat \ {0} /\ g.max \in Nat /\ p.max <= g.max
         /\ p.kind # "str" => g.max = p.max
         /\ p.kind # "list" => g.at + g.max <= Layouts[t].size
         /\ p.kind = "type" => f = "type"
         /\ p.kind = "list" => t = "IpcInvocationRequest" /\ f = "buffers" /\ p.at = 70
<1>1. Sound(Layouts[t]) /\ OneList(t)
  BY LayoutsSound
<1> QED BY <1>1 DEF Sound, WellPlaced, OneList

\* Every layout is sound, has one of two sizes and begins with its type.
LEMMA LayoutFacts ==
  ASSUME NEW t \in DOMAIN Layouts
  PROVE  /\ Sound(Layouts[t])
         /\ Layouts[t].size \in {70, 128}
         /\ "type" \in DOMAIN Layouts[t].put /\ Layouts[t].get["type"] = HeaderFields.type
         /\ Layouts[t].put["type"] = HeaderFields.type
BY LayoutsSound DEF Sound, CommonSize, IpcSize

\* The bytes of a number.
LEMMA NumberFacts ==
  ASSUME NEW w, NEW n \in Nat
  PROVE  /\ Number(w, n) = [i \in 1..n |-> Number(w, n)[i]]
         /\ Len(Number(w, n)) = n
         /\ \A i \in 1..n : Number(w, n)[i] = IF w = 0 THEN Zero ELSE <<w, i>>
BY DEF Number

\* How a field of the message is set and read.
Setter(f) == Layouts[layout].put[f]
Getter(f) == Layouts[layout].get[f]

\* What a setter does to the memory when it stays inside of it.
LEMMA StoreFacts ==
  ASSUME WireInv, NEW f \in DOMAIN Layouts[layout].put,
         NEW bytes, NEW value, Len(bytes) \in Nat, Store(Setter(f), f, bytes, value), ~overrun'
  PROVE  /\ ~overrun
         /\ Fits(mem, Setter(f), Getter(f), meaning[f])
         /\ \A i \in 1..Len(bytes) : ByteAt(mem', Setter(f).at + i - 1) = bytes[i]
         /\ \A i \in Nat : i \notin Setter(f).at..(Setter(f).at + Len(bytes) - 1) =>
              ByteAt(mem', i) = ByteAt(mem, i)
<1> DEFINE size == Layouts[layout].size
           at == Setter(f).at
<1>1. layout \in DOMAIN Layouts /\ DOMAIN mem = 0..(size - 1)
  BY DEF WireInv, WireTypeOK
<1>2. size \in Nat /\ at \in Nat
  BY <1>1, LayoutFacts, FieldFacts DEF Setter
<1>3. mem' = Write(mem, at, bytes) /\ overrun' = (overrun \/ at + Len(bytes) > size)
  BY DEF Store
<1> HIDE DEF size, at
<1>4. ~overrun /\ ~(at + Len(bytes) > size)
  BY <1>3, Zenon
<1>5. at + Len(bytes) <= size
  BY <1>2, <1>4
<1>6. /\ \A i \in 1..Len(bytes) : ByteAt(mem', at + i - 1) = bytes[i]
      /\ \A i \in Nat : i \notin at..(at + Len(bytes) - 1) => ByteAt(mem', i) = ByteAt(mem, i)
  BY <1>1, <1>2, <1>3, <1>5, WriteFacts
<1>7. Fits(mem, Setter(f), Getter(f), meaning[f])
  BY <1>4 DEF WireInv, Intact, Setter, Getter
<1> QED BY <1>4, <1>6, <1>7 DEF at

\* The setter of one field.
LEMMA StoreStep ==
  ASSUME WireInv, NEW f \in DOMAIN Layouts[layout].put, f # "type",
         NEW bytes, NEW value, Len(bytes) \in Nat,
         Setter(f).kind # "list" => Len(bytes) <= Setter(f).max,
         Store(Setter(f), f, bytes, value),
         ~overrun' => Fits(mem', Setter(f), Getter(f), value)
  PROVE  WireInv'
<1> DEFINE l == Layouts[layout]
           p == Setter(f)
<1>1. layout \in DOMAIN Layouts /\ DOMAIN mem = 0..(l.size - 1) /\ DOMAIN meaning = DOMAIN l.put
  BY DEF WireInv, WireTypeOK
<1>2. Sound(l)
  BY <1>1, LayoutFacts
<1>3. /\ mem' = Write(mem, p.at, bytes)
      /\ overrun' = (overrun \/ p.at + Len(bytes) > l.size)
      /\ meaning' = [meaning EXCEPT ![f] = value]
      /\ layout' = layout /\ forwarded' = forwarded /\ refused' = refused
  BY DEF Store
<1>4. DOMAIN mem' = 0..(l.size - 1)
  BY <1>1, <1>3 DEF Write
<1>5. DOMAIN meaning' = DOMAIN l.put /\ meaning'[f] = value
      /\ \A g \in DOMAIN l.put : g # f => meaning'[g] = meaning[g]
  BY <1>1, <1>3
<1>6. WireTypeOK'
  BY <1>3, <1>4, <1>5 DEF WireInv, WireTypeOK
<1>7. meaning'["type"] = Number(l.type, 2)
  BY <1>1, <1>5, LayoutFacts DEF WireInv
<1>8. ASSUME ~overrun', NEW g \in DOMAIN l.put
      PROVE  Fits(mem', l.put[g], l.get[g], meaning'[g])
  <2>1. CASE g = f
    BY <2>1, <1>5, <1>8 DEF Setter, Getter
  <2>2. CASE g # f
    <3>1. /\ ~overrun
          /\ \A i \in Nat : i \notin p.at..(p.at + Len(bytes) - 1) => ByteAt(mem', i) = ByteAt(mem, i)
      BY <1>8, StoreFacts
    <3>3. Fits(mem, l.put[g], l.get[g], meaning[g])
      BY <3>1 DEF WireInv, Intact
    <3>4. Fits(mem', l.put[g], l.get[g], meaning[g])
      <4>1. /\ f \in DOMAIN l.put /\ g \in DOMAIN l.put
            /\ l.put[f].kind # "list" => Len(bytes) <= l.put[f].max
            /\ ChangedAt(mem', mem, l.put[f].at, Len(bytes))
        BY <3>1 DEF Setter, ChangedAt
      <4> HIDE DEF l
      <4> QED BY <1>2, <2>2, <3>3, <4>1, OtherFits
    <3> QED BY <2>2, <1>5, <3>4
  <2> QED BY <2>1, <2>2
<1> QED BY <1>3, <1>6, <1>7, <1>8 DEF WireInv, Intact

\* A setter that throws changes nothing in the message.
LEMMA RefuseStep ==
  ASSUME WireInv, NEW t \in DOMAIN Layouts, NEW f \in DOMAIN Layouts[t].put,
         NEW fw \in BOOLEAN, Refuse(t, f, fw)
  PROVE  WireInv'
<1>1. /\ layout' = layout /\ mem' = mem /\ meaning' = meaning /\ overrun' = overrun
      /\ refused' = <<t, f>> /\ forwarded' = fw
  BY DEF Refuse
<1>2. refused' \in {<<>>} \cup UNION {{<<s, g>> : g \in DOMAIN Layouts[s].put} : s \in DOMAIN Layouts}
  BY <1>1
<1>3. WireTypeOK'
  BY <1>1, <1>2 DEF WireInv, WireTypeOK
<1> QED BY <1>1, <1>3 DEF WireInv

\* What is true of a field that a setter may set.
LEMMA SetField ==
  ASSUME WireInv, NEW f \in DOMAIN meaning
  PROVE  /\ layout \in DOMAIN Layouts /\ f \in DOMAIN Layouts[layout].put
         /\ Setter(f).at \in Nat /\ Getter(f).at = Setter(f).at
         /\ Setter(f).max \in Nat /\ Getter(f).max \in Nat /\ Setter(f).max <= Getter(f).max
         /\ Getter(f).kind = Setter(f).kind
         /\ Setter(f).kind # "str" => Getter(f).max = Setter(f).max
         /\ Setter(f).kind # "type" => f # "type"
<1>1. layout \in DOMAIN Layouts /\ f \in DOMAIN Layouts[layout].put
  BY DEF WireInv, WireTypeOK
<1>2. Layouts[layout].put["type"].kind = "type"
  BY <1>1, LayoutFacts, HeaderFacts
<1> QED BY <1>1, <1>2, FieldFacts DEF Setter, Getter

\* What strncpy makes of a string of a user that fits.
LEMMA PaddedText ==
  ASSUME NEW w \in Nat \ {0}, NEW max \in Nat, NEW n \in 0..max
  PROVE  /\ Len(Strncpy([i \in 0..(n - 1) |-> <<w, i + 1>>], 0, max)) = max
         /\ \A j \in 1..max : Strncpy([i \in 0..(n - 1) |-> <<w, i + 1>>], 0, max)[j] =
              IF j <= n THEN <<w, j>> ELSE Zero
<1> DEFINE M == [i \in 0..(n - 1) |-> <<w, i + 1>>]
           z == 0
           b == Strncpy(M, z, max)
<1>1. \A k \in 0..(n - 1) : ByteAt(M, z + k) = <<w, k + 1>> /\ ByteAt(M, z + k) # Zero
  BY DEF ByteAt, Zero
<1>2. n < max => ByteAt(M, z + n) = Zero
  BY DEF ByteAt
<1>3. z \in Nat
  OBVIOUS
<1> HIDE DEF M, z
<1>4. StrLen(M, z, max) = n
  BY <1>1, <1>2, <1>3, StrLenIs
<1>5. Len(b) = max /\ \A i \in 1..max : b[i] = IF i <= n THEN ByteAt(M, z + i - 1) ELSE Zero
  BY <1>3, <1>4, StrncpyFacts
<1> HIDE DEF b
<1>6. ASSUME NEW i \in 1..max, i <= n
      PROVE  b[i] = <<w, i>>
  <2>1. i - 1 \in 0..(n - 1) /\ z + i - 1 = z + (i - 1) /\ (i - 1) + 1 = i
    BY <1>3, <1>6
  <2>2. ByteAt(M, z + (i - 1)) = <<w, i>>
    BY <1>1, <2>1
  <2> QED BY <1>5, <1>6, <2>1, <2>2
<1>7. Len(b) = max /\ \A i \in 1..max : b[i] = IF i <= n THEN <<w, i>> ELSE Zero
  BY <1>5, <1>6
<1> QED BY <1>7 DEF M, z, b

\* The bytes of a string of a user, none of which is zero.
LEMMA TextFacts ==
  ASSUME NEW w \in Nat \ {0}, NEW n \in Nat
  PROVE  /\ Spans(Text(w, n), n) /\ Len(Text(w, n)) = n
         /\ \A i \in 1..n : Text(w, n)[i] = <<w, i>> /\ Text(w, n)[i] # Zero
BY DEF Text, Zero, Spans

\* A string that fits is set.
LEMMA StringStored ==
  ASSUME WireInv, NEW f \in DOMAIN meaning, Setter(f).kind = "str",
         NEW n \in 0..Setter(f).max, NEW b, Len(b) = Setter(f).max,
         NEW v, Spans(v, n), \A i \in 1..n : v[i] # Zero,
         \A i \in 1..Setter(f).max : b[i] = IF i <= n THEN v[i] ELSE Zero,
         Store(Setter(f), f, b, v)
  PROVE  WireInv'
<1> DEFINE at == Setter(f).at
           max == Setter(f).max
           top == Getter(f).max
<1>1. /\ f \in DOMAIN Layouts[layout].put
      /\ at \in Nat /\ Getter(f).at = at /\ max \in Nat /\ top \in Nat /\ max <= top
      /\ Getter(f).kind = Setter(f).kind /\ f # "type"
  BY SetField
<1>2. Len(b) \in Nat /\ Len(b) <= Setter(f).max
  BY <1>1
<1>3. ASSUME ~overrun'
      PROVE  Fits(mem', Setter(f), Getter(f), v)
  <2>1. /\ Fits(mem, Setter(f), Getter(f), meaning[f])
        /\ \A i \in 1..Len(b) : ByteAt(mem', at + i - 1) = b[i]
        /\ \A i \in Nat : i \notin at..(at + Len(b) - 1) => ByteAt(mem', i) = ByteAt(mem, i)
    BY <1>1, <1>2, <1>3, StoreFacts
  <2>2. \A k \in max..(top - 1) : ByteAt(mem, at + k) = Zero
    BY <1>1, <2>1 DEF Fits
  <2>3. Len(b) = max /\ n \in 0..max /\ \A i \in 1..max : b[i] = IF i <= n THEN v[i] ELSE Zero
    OBVIOUS
  <2> HIDE DEF at, max, top
  <2>4. ASSUME NEW i \in 1..n
        PROVE  ByteAt(mem', at + i - 1) = v[i]
    <3>1. i \in 1..max /\ i <= n
      BY <1>1, <2>3
    <3> QED BY <2>1, <2>3, <3>1
  <2>5. ASSUME NEW i \in 1..top, n < i
        PROVE  ByteAt(mem', at + i - 1) = Zero
    <3>1. CASE i <= max
      <4>1. i \in 1..max /\ ~(i <= n)
        BY <1>1, <2>3, <2>5, <3>1
      <4> QED BY <4>1, <2>1, <2>3
    <3>2. CASE ~(i <= max)
      <4>1. /\ i - 1 \in max..(top - 1) /\ at + i - 1 = at + (i - 1)
            /\ at + i - 1 \in Nat /\ at + i - 1 \notin at..(at + Len(b) - 1)
        BY <3>2, <1>1, <2>3
      <4>2. ByteAt(mem, at + i - 1) = Zero
        BY <4>1, <2>2
      <4> QED BY <4>1, <4>2, <2>1
    <3> QED BY <3>1, <3>2
  <2>6. /\ \A i \in 1..n : v[i] # Zero /\ ByteAt(mem', Setter(f).at + i - 1) = v[i]
        /\ \A i \in 1..Getter(f).max : n < i => ByteAt(mem', Setter(f).at + i - 1) = Zero
    BY <2>4, <2>5 DEF at, top
  <2>7. /\ Setter(f).at \in Nat /\ Getter(f).at = Setter(f).at
        /\ Setter(f).max \in Nat /\ Getter(f).max \in Nat /\ Setter(f).max <= Getter(f).max
        /\ Getter(f).kind = "str"
    BY <1>1 DEF at, max, top
  <2> QED BY <2>6, <2>7, StringFits
<1> QED BY <1>1, <1>2, <1>3, StoreStep

\* Setting a string keeps every field intact,
LEMMA SetStringStep ==
  ASSUME WireInv, NEW f \in DOMAIN meaning, NEW w \in Words, NEW n \in Lengths, SetString(f, w, n)
  PROVE  WireInv'
<1> DEFINE max == Setter(f).max
           b == Strncpy([i \in 0..(n - 1) |-> <<w, i + 1>>], 0, max)
           v == Text(w, n)
<1>1. layout \in DOMAIN Layouts /\ f \in DOMAIN Layouts[layout].put /\ max \in Nat
  BY SetField
<1>2. w \in Nat \ {0} /\ n \in Nat
  BY WireAssumption DEF WireAssumption
<1>3. /\ Setter(f).kind = "str"
      /\ IF n > max THEN Refuse(layout, f, FALSE) ELSE Store(Setter(f), f, b, v)
  BY DEF SetString, Setter
<1>4. CASE n > max
  BY <1>1, <1>3, <1>4, RefuseStep
<1>5. CASE ~(n > max)
  <2>1. n \in 0..max
    BY <1>1, <1>2, <1>5
  <2>2. Len(b) = max /\ \A i \in 1..max : b[i] = IF i <= n THEN <<w, i>> ELSE Zero
    <3> HIDE DEF max
    <3> QED BY <1>1, <1>2, <2>1, PaddedText
  <2>3. Spans(v, n) /\ \A i \in 1..n : v[i] = <<w, i>> /\ v[i] # Zero
    BY <1>2, TextFacts
  <2>4. Store(Setter(f), f, b, v)
    BY <1>3, <1>5
  <2> HIDE DEF b, v
  <2>5. \A i \in 1..max : b[i] = IF i <= n THEN v[i] ELSE Zero
    <3> HIDE DEF max
    <3> QED BY <1>1, <1>2, <2>2, <2>3
  <2> QED BY <1>3, <2>1, <2>2, <2>3, <2>4, <2>5, StringStored
<1> QED BY <1>4, <1>5

\* A number has as many bytes as its type.
LEMMA NumberSpans ==
  ASSUME NEW w, NEW n \in Nat
  PROVE  Spans(Number(w, n), n) /\ Len(Number(w, n)) = n
BY NumberFacts DEF Spans

\* so does setting a number,
LEMMA SetNumberStep ==
  ASSUME WireInv, NEW f \in DOMAIN meaning, NEW w \in Numbers, SetNumber(f, w)
  PROVE  WireInv'
<1> DEFINE max == Setter(f).max
           v == Number(w, max)
<1>1. /\ Setter(f).kind \in {"int", "nat"}
      /\ IF Setter(f).kind = "nat" /\ w < 0 THEN Refuse(layout, f, FALSE)
         ELSE Store(Setter(f), f, v, v)
  BY DEF SetNumber, Setter
<1>2. /\ layout \in DOMAIN Layouts /\ f \in DOMAIN Layouts[layout].put /\ Setter(f).at \in Nat
      /\ max \in Nat /\ Getter(f).at = Setter(f).at /\ Getter(f).max = max
      /\ Getter(f).kind = Setter(f).kind /\ f # "type"
  BY <1>1, SetField
<1>3. CASE Setter(f).kind = "nat" /\ w < 0
  BY <1>1, <1>2, <1>3, RefuseStep
<1>4. CASE ~(Setter(f).kind = "nat" /\ w < 0)
  <2>1. Store(Setter(f), f, v, v)
    BY <1>1, <1>4
  <2>2. Spans(v, max) /\ Len(v) = max
    BY <1>2, NumberSpans
  <2> HIDE DEF v
  <2>3. Len(v) \in Nat /\ Len(v) <= max
    BY <1>2, <2>2
  <2>4. ASSUME ~overrun'
        PROVE  Fits(mem', Setter(f), Getter(f), v)
    <3>1. \A i \in 1..Len(v) : ByteAt(mem', Setter(f).at + i - 1) = v[i]
      BY <1>2, <2>1, <2>3, <2>4, StoreFacts
    <3>2. \A i \in 1..max : ByteAt(mem', Setter(f).at + i - 1) = v[i]
      BY <2>2, <3>1
    <3> QED BY <1>1, <1>2, <2>2, <3>2, NumberFits
  <2> QED BY <1>2, <2>1, <2>3, <2>4, StoreStep
<1> QED BY <1>3, <1>4

\* The bytes of a list of input buffers begin with their number.
LEMMA BuffersFacts ==
  ASSUME NEW n \in Nat, NEW w
  PROVE  /\ Spans(Buffers(n, w), 4 * (n + 1))
         /\ Len(Buffers(n, w)) = 4 * (n + 1)
         /\ Buffers(n, w)[1][1] = n
<1> DEFINE k == 4 * (n + 1)
           F(i) == IF i <= 4 THEN Number(n, 4)[i] ELSE <<w, ((i - 1) % 4) + 1>>
<1>1. k \in Nat /\ 4 <= k
  OBVIOUS
<1>2. Buffers(n, w) = [i \in 1..k |-> F(i)]
  BY DEF Buffers
<1>3. F(1) = Number(n, 4)[1]
  OBVIOUS
<1>4. Number(n, 4)[1][1] = n
  BY DEF Number, Zero
<1> HIDE DEF F, k
<1>5. Buffers(n, w) = [i \in 1..k |-> Buffers(n, w)[i]] /\ Buffers(n, w)[1] = F(1)
  BY <1>1, <1>2
<1>6. Len(Buffers(n, w)) = k
  BY <1>1, <1>2
<1> QED BY <1>3, <1>4, <1>5, <1>6 DEF k, Spans

\* and setting the lengths of the input buffers.
LEMMA SetBuffersStep ==
  ASSUME WireInv, NEW f \in DOMAIN meaning, NEW n \in BufferCounts, NEW w \in Words,
         SetBuffers(f, n, w)
  PROVE  WireInv'
<1> DEFINE v == Buffers(n, w)
<1>1. /\ Setter(f).kind = "list"
      /\ IF n > Setter(f).max THEN Refuse(layout, f, forwarded) ELSE Store(Setter(f), f, v, v)
  BY DEF SetBuffers, Setter
<1>2. /\ layout \in DOMAIN Layouts /\ f \in DOMAIN Layouts[layout].put /\ Setter(f).at \in Nat
      /\ Setter(f).max \in Nat /\ Getter(f).at = Setter(f).at
      /\ Getter(f).kind = Setter(f).kind /\ f # "type"
  BY <1>1, SetField
<1>3. n \in Nat
  BY WireAssumption DEF WireAssumption
<1>4. CASE n > Setter(f).max
  <2>1. Refuse(layout, f, forwarded)
    BY <1>1, <1>4
  <2>2. forwarded \in BOOLEAN
    BY DEF WireInv, WireTypeOK
  <2> QED BY <1>2, <2>1, <2>2, RefuseStep
<1>5. CASE ~(n > Setter(f).max)
  <2>1. Store(Setter(f), f, v, v)
    BY <1>1, <1>5
  <2>2. Spans(v, 4 * (n + 1)) /\ Len(v) = 4 * (n + 1) /\ v[1][1] = n
    BY <1>3, BuffersFacts
  <2> HIDE DEF v
  <2>3. Len(v) \in Nat
    BY <1>3, <2>2
  <2>4. ASSUME ~overrun'
        PROVE  Fits(mem', Setter(f), Getter(f), v)
    <3>1. \A i \in 1..Len(v) : ByteAt(mem', Setter(f).at + i - 1) = v[i]
      BY <1>2, <2>1, <2>3, <2>4, StoreFacts
    <3>2. \A i \in 1..(4 * (n + 1)) : ByteAt(mem', Setter(f).at + i - 1) = v[i]
      BY <2>2, <3>1
    <3> QED BY <1>1, <1>2, <1>3, <2>2, <3>2, ListFits
  <2> QED BY <1>1, <1>2, <2>1, <2>3, <2>4, StoreStep
<1> QED BY <1>4, <1>5

-----------------------------------------------------------------------------
(* Forwarding.                                                              *)

\* A sequence of setters, none of which is called twice.
Settable(l, fs) ==
  /\ Len(fs) \in Nat /\ DOMAIN fs = 1..Len(fs)
  /\ \A k \in 1..Len(fs) : fs[k] \in DOMAIN l.put /\ fs[k] # "type"
  /\ \A j, k \in 1..Len(fs) : fs[j] = fs[k] => j = k

\* Setters write where nothing else is read.
LEMMA PlacesApart ==
  ASSUME NEW l, Sound(l), NEW f \in DOMAIN l.put, NEW g \in DOMAIN l.put, f # g,
         NEW i \in Nat, Seen(l.get[g], i)
  PROVE  i \notin Place(l.put[f])
<1> DEFINE pf == l.put[f]
           gf == l.get[f]
           gg == l.get[g]
<1>1. /\ pf.at \in Nat /\ gf.at = pf.at /\ pf.max \in Nat /\ gf.max \in Nat /\ pf.max <= gf.max
      /\ gf.kind = pf.kind /\ gg.at \in Nat /\ gg.max \in Nat
      /\ EndsBefore(gf, gg) \/ EndsBefore(gg, gf)
      /\ Seen(gg, i)
  BY DEF Sound, WellPlaced
<1> HIDE DEF pf, gf, gg
<1>2. i \notin Place(pf)
  BY <1>1 DEF Place, Width, Seen, EndsBefore
<1> QED BY <1>2 DEF pf

\* A getter looks at all that the setter of its field writes.
LEMMA PlaceSeen ==
  ASSUME NEW l, Sound(l), NEW g \in DOMAIN l.put, NEW i \in Place(l.put[g])
  PROVE  i \in Nat /\ Seen(l.get[g], i)
<1> DEFINE pg == l.put[g]
           gg == l.get[g]
<1>1. /\ pg.at \in Nat /\ gg.at = pg.at /\ pg.max \in Nat /\ gg.max \in Nat /\ pg.max <= gg.max
      /\ gg.kind = pg.kind /\ i \in Place(pg)
  BY DEF Sound, WellPlaced
<1> HIDE DEF pg, gg
<1>2. i \in Nat /\ Seen(gg, i)
  BY <1>1 DEF Place, Width, Seen
<1> QED BY <1>2 DEF gg

\* The bytes of a message that setters have filled.
LEMMA FilledFacts ==
  ASSUME NEW l, Sound(l), NEW fs, Settable(l, fs), NEW bytes,
         NEW i \in 0..(l.size - 1), NEW k \in 1..Len(fs), i \in Place(l.put[fs[k]])
  PROVE  Filled(l, fs, bytes)[i] = bytes[fs[k]][i - l.put[fs[k]].at + 1]
<1> DEFINE S == {j \in 1..Len(fs) : i \in Place(l.put[fs[j]])}
<1>1. ASSUME NEW j \in S PROVE j = k
  <2>1. j \in 1..Len(fs) /\ i \in Place(l.put[fs[j]])
    OBVIOUS
  <2>2. fs[j] \in DOMAIN l.put /\ fs[k] \in DOMAIN l.put /\ (fs[j] = fs[k] => j = k)
    BY <2>1 DEF Settable
  <2>3. i \in Nat /\ Seen(l.get[fs[k]], i)
    BY <2>2, PlaceSeen
  <2>4. fs[j] # fs[k] => i \notin Place(l.put[fs[j]])
    BY <2>2, <2>3, PlacesApart
  <2> QED BY <2>1, <2>2, <2>4
<1>2. S = {k}
  BY <1>1
<1>3. k \in Int
  BY DEF Settable
<1>4. Filled(l, fs, bytes)[i] = IF S = {} THEN New(l)[i]
                                ELSE bytes[fs[Max(S)]][i - l.put[fs[Max(S)]].at + 1]
  BY DEF Filled
<1> HIDE DEF S
<1>5. Max(S) = k
  BY <1>2, <1>3 DEF Max
<1> QED BY <1>2, <1>4, <1>5

\* A byte that no setter writes is as it is in a new message.
LEMMA FilledElsewhere ==
  ASSUME NEW l, NEW fs, NEW bytes, NEW i \in 0..(l.size - 1),
         \A k \in 1..Len(fs) : i \notin Place(l.put[fs[k]])
  PROVE  Filled(l, fs, bytes)[i] = New(l)[i]
<1> DEFINE S == {j \in 1..Len(fs) : i \in Place(l.put[fs[j]])}
<1>1. S = {}
  OBVIOUS
<1>2. Filled(l, fs, bytes)[i] = IF S = {} THEN New(l)[i]
                                ELSE bytes[fs[Max(S)]][i - l.put[fs[Max(S)]].at + 1]
  BY DEF Filled
<1> HIDE DEF S
<1> QED BY <1>1, <1>2

\* A new message holds its type and nothing else.
LEMMA NewFacts ==
  ASSUME NEW l, l.size \in {70, 128}
  PROVE  /\ DOMAIN New(l) = 0..(l.size - 1)
         /\ ByteAt(New(l), 0) = Number(l.type, 2)[1] /\ ByteAt(New(l), 1) = Number(l.type, 2)[2]
         /\ \A i \in Nat : 2 <= i => ByteAt(New(l), i) = Zero
<1> DEFINE Z == [i \in 0..(l.size - 1) |-> Zero]
           b == Number(l.type, 2)
<1>1. Len(b) = 2
  BY DEF Number
<1>2. New(l) = Write(Z, 0, b)
  BY DEF New
<1> HIDE DEF b
<1>3. DOMAIN New(l) = 0..(l.size - 1)
  BY <1>2 DEF Write
<1>4. \A i \in 0..(l.size - 1) : New(l)[i] = IF i \in 0..(0 + Len(b) - 1) THEN b[i - 0 + 1] ELSE Zero
  BY <1>2 DEF Write
<1>5. \A i \in 0..(l.size - 1) : New(l)[i] = IF i \in 0..1 THEN b[i + 1] ELSE Zero
  BY <1>1, <1>4
<1>6. 0 \in 0..(l.size - 1) /\ 1 \in 0..(l.size - 1)
  OBVIOUS
<1>7. ByteAt(New(l), 0) = b[1] /\ ByteAt(New(l), 1) = b[2]
  BY <1>3, <1>5, <1>6 DEF ByteAt
<1>8. \A i \in Nat : 2 <= i => ByteAt(New(l), i) = Zero
  BY <1>3, <1>5 DEF ByteAt
<1> QED BY <1>3, <1>7, <1>8 DEF b

\* What a new message holds where a field other than the type is read.
LEMMA NewZero ==
  ASSUME NEW l, Sound(l), NEW g \in DOMAIN l.put, g # "type", NEW i \in Nat, Seen(l.get[g], i)
  PROVE  ByteAt(New(l), i) = Zero
<1> DEFINE gg == l.get[g]
<1>1. /\ gg.at \in Nat /\ gg.max \in Nat \ {0} /\ Seen(gg, i)
      /\ EndsBefore(HeaderFields.type, gg) \/ EndsBefore(gg, HeaderFields.type)
  <2>1. l.put[g].max \in Nat \ {0} /\ gg.max \in Nat /\ l.put[g].max <= gg.max
    BY DEF Sound, WellPlaced
  <2> QED BY <2>1 DEF Sound, WellPlaced
<1> HIDE DEF gg
<1>2. 2 <= gg.at
  BY <1>1, HeaderFacts DEF EndsBefore
<1>3. 2 <= i
  BY <1>1, <1>2 DEF Seen
<1>4. l.size \in {70, 128}
  BY DEF Sound, CommonSize, IpcSize
<1> QED BY <1>3, <1>4, NewFacts

\* The bytes of a field that was set,
LEMMA FilledSet ==
  ASSUME NEW l, Sound(l), NEW fs, Settable(l, fs), NEW bytes, NEW g \in ToSet(fs),
         l.put[g].at + Width(l.put[g]) <= l.size,
         NEW i \in 1..Width(l.put[g])
  PROVE  ByteAt(Filled(l, fs, bytes), l.put[g].at + i - 1) = bytes[g][i]
<1>1. PICK k \in 1..Len(fs) : g = fs[k]
  BY DEF Settable, ToSet
<1> DEFINE at == l.put[g].at
           j == at + i - 1
<1>2. g \in DOMAIN l.put /\ at \in Nat /\ l.size \in Nat
  BY <1>1 DEF Settable, Sound, WellPlaced, CommonSize, IpcSize
<1>3. Width(l.put[g]) \in Nat
  BY <1>2 DEF Sound, WellPlaced, Width
<1>4. j \in 0..(l.size - 1) /\ j \in Place(l.put[g]) /\ j - at + 1 = i
  BY <1>2, <1>3 DEF Place
<1> HIDE DEF j
<1>5. Filled(l, fs, bytes)[j] = bytes[g][j - at + 1]
  BY <1>1, <1>4, FilledFacts
<1>6. DOMAIN Filled(l, fs, bytes) = 0..(l.size - 1)
  BY DEF Filled
<1>7. ByteAt(Filled(l, fs, bytes), j) = bytes[g][i]
  BY <1>4, <1>5, <1>6 DEF ByteAt
<1> QED BY <1>7 DEF j

\* and the bytes that a getter sees and no setter has written.
LEMMA FilledNot ==
  ASSUME NEW l, Sound(l), NEW fs, Settable(l, fs), NEW bytes, NEW g \in DOMAIN l.put,
         NEW i \in Nat, Seen(l.get[g], i), g \in ToSet(fs) => i \notin Place(l.put[g])
  PROVE  ByteAt(Filled(l, fs, bytes), i) = ByteAt(New(l), i)
<1>1. ASSUME NEW k \in 1..Len(fs) PROVE i \notin Place(l.put[fs[k]])
  <2>1. fs[k] \in DOMAIN l.put /\ fs[k] \in ToSet(fs)
    BY DEF Settable, ToSet
  <2> QED BY <2>1, PlacesApart
<1>2. DOMAIN Filled(l, fs, bytes) = 0..(l.size - 1)
  BY DEF Filled
<1>3. DOMAIN New(l) = 0..(l.size - 1)
  BY NewFacts DEF Sound, CommonSize, IpcSize
<1>4. CASE i \in 0..(l.size - 1)
  BY <1>1, <1>2, <1>3, <1>4, FilledElsewhere DEF ByteAt
<1>5. CASE i \notin 0..(l.size - 1)
  BY <1>2, <1>3, <1>5 DEF ByteAt
<1> QED BY <1>4, <1>5

\* What Sound says of one field.
LEMMA SoundField ==
  ASSUME NEW l, Sound(l), NEW g \in DOMAIN l.put
  PROVE  /\ l.put[g].at \in Nat /\ l.get[g].at = l.put[g].at
         /\ l.put[g].max \in Nat /\ l.get[g].max \in Nat /\ l.put[g].max <= l.get[g].max
         /\ l.put[g].kind \in Kinds /\ l.get[g].kind = l.put[g].kind
         /\ l.put[g].kind # "str" => l.get[g].max = l.put[g].max
BY DEF Sound, WellPlaced

\* A string that one of the setters wrote is read,
LEMMA StringFilled ==
  ASSUME NEW l, Sound(l), NEW fs, Settable(l, fs), NEW bytes, NEW g \in ToSet(fs),
         g \in DOMAIN l.put,
         g # "type", l.put[g].kind = "str", l.put[g].at + Width(l.put[g]) <= l.size,
         NEW n \in 0..l.put[g].max, NEW v, Spans(v, n), \A i \in 1..n : v[i] # Zero,
         \A i \in 1..l.put[g].max : bytes[g][i] = IF i <= n THEN v[i] ELSE Zero
  PROVE  Fits(Filled(l, fs, bytes), l.put[g], l.get[g], v)
<1> DEFINE m == Filled(l, fs, bytes)
           at == l.put[g].at
           max == l.put[g].max
           top == l.get[g].max
<1>1. /\ at \in Nat /\ l.get[g].at = at /\ max \in Nat /\ top \in Nat /\ max <= top
      /\ l.get[g].kind = "str" /\ Width(l.put[g]) = max
  BY SoundField DEF Width
<1>2. \A i \in 1..max : ByteAt(m, at + i - 1) = bytes[g][i]
  BY <1>1, FilledSet
<1>3. \A i \in Nat : at + max <= i /\ i < at + top => ByteAt(m, i) = Zero
  <2> SUFFICES ASSUME NEW i \in Nat, at + max <= i, i < at + top PROVE ByteAt(m, i) = Zero
    OBVIOUS
  <2>1. Seen(l.get[g], i) /\ i \notin Place(l.put[g])
    BY <1>1 DEF Seen, Place
  <2> QED BY <2>1, FilledNot, NewZero
<1>4. n \in 0..max /\ \A i \in 1..max : bytes[g][i] = IF i <= n THEN v[i] ELSE Zero
  OBVIOUS
<1> HIDE DEF m, at, max, top
<1>5. ASSUME NEW i \in 1..n
      PROVE  ByteAt(m, at + i - 1) = v[i]
  <2>1. i \in 1..max /\ i <= n
    BY <1>1, <1>4
  <2> QED BY <1>2, <1>4, <2>1
<1>6. ASSUME NEW i \in 1..top, n < i
      PROVE  ByteAt(m, at + i - 1) = Zero
  <2>1. CASE i <= max
    <3>1. i \in 1..max /\ ~(i <= n)
      BY <1>1, <1>4, <1>6, <2>1
    <3> QED BY <1>2, <1>4, <3>1
  <2>2. CASE ~(i <= max)
    <3>1. at + i - 1 \in Nat /\ at + max <= at + i - 1 /\ at + i - 1 < at + top
      BY <1>1, <2>2
    <3> QED BY <1>3, <3>1
  <2> QED BY <2>1, <2>2
<1>7. /\ \A i \in 1..n : v[i] # Zero /\ ByteAt(m, l.put[g].at + i - 1) = v[i]
      /\ \A i \in 1..l.get[g].max : n < i => ByteAt(m, l.put[g].at + i - 1) = Zero
      /\ l.put[g].at \in Nat /\ l.get[g].at = l.put[g].at /\ l.put[g].max \in Nat
      /\ l.get[g].max \in Nat /\ l.put[g].max <= l.get[g].max /\ l.get[g].kind = "str"
  BY <1>1, <1>5, <1>6 DEF at, max, top
<1>8. Fits(m, l.put[g], l.get[g], v)
  BY <1>7, StringFits
<1> QED BY <1>8 DEF m

\* so is a number,
LEMMA NumberFilled ==
  ASSUME NEW l, Sound(l), NEW fs, Settable(l, fs), NEW bytes, NEW g \in ToSet(fs),
         g \in DOMAIN l.put,
         l.put[g].kind # "str", l.put[g].kind # "list", l.put[g].at + Width(l.put[g]) <= l.size,
         NEW v, Spans(v, l.put[g].max), \A i \in 1..l.put[g].max : bytes[g][i] = v[i]
  PROVE  Fits(Filled(l, fs, bytes), l.put[g], l.get[g], v)
<1>1. /\ l.put[g].at \in Nat /\ l.get[g].at = l.put[g].at /\ l.put[g].max \in Nat
      /\ l.get[g].max = l.put[g].max /\ l.get[g].kind = l.put[g].kind /\ Width(l.put[g]) = l.put[g].max
  BY SoundField DEF Width
<1>2. \A i \in 1..l.put[g].max : ByteAt(Filled(l, fs, bytes), l.put[g].at + i - 1) = v[i]
  BY <1>1, FilledSet
<1> QED BY <1>1, <1>2, NumberFits

\* and the length of the one buffer that a component sets.
LEMMA ListFilled ==
  ASSUME NEW l, Sound(l), NEW fs, Settable(l, fs), NEW bytes, NEW g \in ToSet(fs),
         g \in DOMAIN l.put,
         l.put[g].kind = "list", l.put[g].at + Width(l.put[g]) <= l.size,
         NEW c, c = 1, NEW v, Spans(v, 4 * (c + 1)), v[1][1] = c, \A i \in 1..8 : bytes[g][i] = v[i]
  PROVE  Fits(Filled(l, fs, bytes), l.put[g], l.get[g], v)
<1>1. /\ l.put[g].at \in Nat /\ l.get[g].at = l.put[g].at
      /\ l.get[g].kind = "list" /\ Width(l.put[g]) = 8 /\ 4 * (c + 1) = 8 /\ c \in Nat
  BY SoundField DEF Width
<1>2. \A i \in 1..(4 * (c + 1)) : ByteAt(Filled(l, fs, bytes), l.put[g].at + i - 1) = v[i]
  BY <1>1, FilledSet
<1> QED BY <1>1, <1>2, ListFits

\* Where a field is as it is in a new message, its default is read.
LEMMA DefaultFits ==
  ASSUME NEW l, Sound(l), NEW g \in DOMAIN l.put, NEW m,
         \A i \in Nat : Seen(l.get[g], i) => ByteAt(m, i) = ByteAt(New(l), i)
  PROVE  Fits(m, l.put[g], l.get[g], Default(l, g))
<1> DEFINE p == l.put[g]
           q == l.get[g]
           v == Default(l, g)
<1>1. /\ p.at \in Nat /\ q.at = p.at /\ p.max \in Nat /\ q.max \in Nat /\ p.max <= q.max
      /\ p.kind \in Kinds /\ q.kind = p.kind /\ (p.kind # "str" => q.max = p.max)
  BY SoundField
<1>2. CASE p.kind = "type"
  <2>1. g = "type" /\ p = HeaderFields.type
    BY <1>2 DEF Sound
  <2>2. p.at = 0 /\ p.max = 2
    BY <2>1, HeaderFacts
  <2>3. v = Number(l.type, 2)
    BY <1>2, <2>1 DEF Default
  <2>4. Spans(v, p.max)
    BY <2>2, <2>3 DEF Spans, Number
  <2>5. Seen(q, 0) /\ Seen(q, 1)
    BY <1>1, <1>2, <2>2 DEF Seen
  <2>6. ByteAt(m, 0) = Number(l.type, 2)[1] /\ ByteAt(m, 1) = Number(l.type, 2)[2]
    <3>1. l.size \in {70, 128}
      BY DEF Sound, CommonSize, IpcSize
    <3> QED BY <2>5, <3>1, NewFacts
  <2> HIDE DEF v
  <2>7. \A i \in 1..p.max : ByteAt(m, p.at + i - 1) = v[i]
    <3>1. \A i \in {1, 2} : ByteAt(m, i - 1) = v[i]
      BY <2>3, <2>6
    <3>2. \A i \in 1..p.max : i \in {1, 2} /\ p.at + i - 1 = i - 1
      BY <2>2
    <3> QED BY <3>1, <3>2
  <2>8. Fits(m, p, q, v)
    BY <1>1, <1>2, <2>4, <2>7, NumberFits
  <2> QED BY <2>8 DEF v
<1>3. CASE p.kind # "type"
  <2>1. g # "type"
    BY <1>3, HeaderFacts DEF Sound
  <2>2. \A i \in Nat : Seen(q, i) => ByteAt(m, i) = Zero
    BY <2>1, NewZero
  <2>3. CASE p.kind = "str"
    <3>1. v = <<>>
      BY <2>1, <2>3 DEF Default
    <3> DEFINE n == 0
    <3>2. n \in 0..p.max /\ Spans(v, n) /\ \A i \in 1..n : v[i] # Zero /\ ByteAt(m, p.at + i - 1) = v[i]
      BY <1>1, <3>1 DEF Spans
    <3>3. \A i \in 1..q.max : n < i => ByteAt(m, p.at + i - 1) = Zero
      <4> SUFFICES ASSUME NEW i \in 1..q.max PROVE ByteAt(m, p.at + i - 1) = Zero
        OBVIOUS
      <4>1. p.at + i - 1 \in Nat /\ Seen(q, p.at + i - 1)
        BY <1>1 DEF Seen
      <4> QED BY <2>2, <4>1
    <3> HIDE DEF n, v
    <3>4. Fits(m, p, q, v)
      BY <1>1, <2>3, <3>2, <3>3, StringFits
    <3> QED BY <3>4 DEF v
  <2>4. CASE p.kind = "list"
    <3> DEFINE c == 0
               k == 4 * (c + 1)
    <3>1. v = Number(0, 4)
      BY <2>1, <2>4 DEF Default
    <3>2. Spans(v, k) /\ v[1][1] = c /\ \A i \in 1..k : v[i] = Zero
      BY <3>1 DEF Spans, Number, Zero
    <3>3. \A i \in 1..k : ByteAt(m, p.at + i - 1) = Zero
      <4> SUFFICES ASSUME NEW i \in 1..k PROVE ByteAt(m, p.at + i - 1) = Zero
        OBVIOUS
      <4>1. p.at + i - 1 \in Nat /\ Seen(q, p.at + i - 1)
        BY <1>1, <2>4 DEF Seen
      <4> QED BY <2>2, <4>1
    <3>4. c \in Nat
      OBVIOUS
    <3> HIDE DEF c, v
    <3>5. \A i \in 1..(4 * (c + 1)) : ByteAt(m, p.at + i - 1) = v[i]
      BY <3>2, <3>3
    <3>6. Fits(m, p, q, v)
      BY <1>1, <2>4, <3>2, <3>4, <3>5, ListFits
    <3> QED BY <3>6 DEF v
  <2>5. CASE p.kind # "str" /\ p.kind # "list"
    <3>1. v = Number(0, p.max)
      BY <2>1, <2>5 DEF Default
    <3>2. Spans(v, p.max) /\ \A i \in 1..p.max : v[i] = Zero
      BY <1>1, <3>1, NumberFacts DEF Spans
    <3>3. \A i \in 1..p.max : ByteAt(m, p.at + i - 1) = Zero
      <4> SUFFICES ASSUME NEW i \in 1..p.max PROVE ByteAt(m, p.at + i - 1) = Zero
        OBVIOUS
      <4>1. p.at + i - 1 \in Nat /\ Seen(q, p.at + i - 1)
        BY <1>1, <2>5 DEF Seen
      <4> QED BY <2>2, <4>1
    <3> HIDE DEF v
    <3>4. Fits(m, p, q, v)
      BY <1>1, <2>5, <3>2, <3>3, NumberFits
    <3> QED BY <3>4 DEF v
  <2> QED BY <2>3, <2>4, <2>5
<1> QED BY <1>2, <1>3

\* A field that no setter has set has its default.
LEMMA DefaultFilled ==
  ASSUME NEW l, Sound(l), NEW fs, Settable(l, fs), NEW bytes, NEW g \in DOMAIN l.put, g \notin ToSet(fs)
  PROVE  Fits(Filled(l, fs, bytes), l.put[g], l.get[g], Default(l, g))
<1>1. \A i \in Nat : Seen(l.get[g], i) => ByteAt(Filled(l, fs, bytes), i) = ByteAt(New(l), i)
  BY FilledNot
<1> QED BY <1>1, DefaultFits

\* A string that is carried and is not too long for the setter behind the route.
LEMMA CarriedString ==
  ASSUME NEW m, NEW at \in Nat, NEW long \in Nat, NEW max \in Nat, max <= long,
         StrLen(m, at, long) <= max
  PROVE  StrLen(m, at, max) = StrLen(m, at, long)
<1> DEFINE n == StrLen(m, at, long)
<1>1. /\ n \in 0..long /\ n <= max
      /\ \A k \in 0..(n - 1) : ByteAt(m, at + k) # Zero
      /\ n < long => ByteAt(m, at + n) = Zero
  BY StrLenFacts
<1> HIDE DEF n
<1>2. n \in 0..max /\ (n < max => ByteAt(m, at + n) = Zero)
  BY <1>1
<1>3. StrLen(m, at, max) = n
  BY <1>1, <1>2, StrLenIs
<1> QED BY <1>3 DEF n

\* What strncpy copies from a view that is not too long is the string of the view.
LEMMA CopiedString ==
  ASSUME NEW m, NEW s, s.kind = "str", s.at \in Nat, s.max \in Nat, NEW max \in Nat, max <= s.max,
         ~(Len(Read(m, s)) > max)
  PROVE  LET v == Read(m, s)
             b == Strncpy(m, s.at, max) IN
         /\ Len(v) \in 0..max /\ Spans(v, Len(v)) /\ \A i \in 1..Len(v) : v[i] # Zero
         /\ \A i \in 1..max : b[i] = IF i <= Len(v) THEN v[i] ELSE Zero
<1> DEFINE at == s.at
           long == s.max
           n == StrLen(m, at, long)
           v == Read(m, s)
           b == Strncpy(m, at, max)
<1>1. /\ n \in 0..long
      /\ \A k \in 0..(n - 1) : ByteAt(m, at + k) # Zero
  BY StrLenFacts
<1>2. v = [i \in 1..n |-> ByteAt(m, at + i - 1)]
  BY ReadString
<1>3. at \in Nat /\ long \in Nat /\ max <= long /\ ~(Len(v) > max)
  OBVIOUS
<1> HIDE DEF at, long
<1>4. Len(v) = n
  <2> HIDE DEF n, v
  <2> QED BY <1>1, <1>2, <1>3
<1>5. n <= max
  <2> HIDE DEF n, v
  <2> QED BY <1>1, <1>3, <1>4
<1>6. StrLen(m, at, max) = n
  BY <1>3, <1>5, CarriedString
<1>7. \A i \in 1..max : b[i] = IF i <= n THEN ByteAt(m, at + i - 1) ELSE Zero
  BY <1>3, <1>6, StrncpyFacts
<1> HIDE DEF n, v, b
<1>8. ASSUME NEW i \in 1..n
      PROVE  v[i] = ByteAt(m, at + i - 1) /\ v[i] # Zero
  <2>1. v[i] = ByteAt(m, at + i - 1)
    BY <1>2
  <2>2. i - 1 \in 0..(n - 1) /\ at + i - 1 = at + (i - 1)
    BY <1>1, <1>3
  <2> QED BY <1>1, <2>1, <2>2
<1>9. \A i \in 1..max : b[i] = IF i <= n THEN v[i] ELSE Zero
  BY <1>1, <1>3, <1>7, <1>8
<1>10. n \in 0..max /\ Spans(v, n)
  BY <1>1, <1>2, <1>3, <1>5 DEF Spans
<1>11. /\ Len(v) \in 0..max /\ Spans(v, Len(v)) /\ \A i \in 1..Len(v) : v[i] # Zero
       /\ \A i \in 1..max : b[i] = IF i <= Len(v) THEN v[i] ELSE Zero
  BY <1>4, <1>8, <1>9, <1>10
<1> QED BY <1>11 DEF v, b, at

\* What a route is, in terms of the two layouts.
LEMMA RouteFacts ==
  ASSUME NEW r \in Routes
  PROVE  /\ RouteSound(r) /\ r.from \in DOMAIN Layouts /\ r.to \in DOMAIN Layouts
         /\ Sound(Layouts[r.to]) /\ Sound(Layouts[r.from]) /\ Settable(Layouts[r.to], r.set)
         /\ r.carry \subseteq ToSet(r.set)
         /\ \A f \in ToSet(r.set) : f \in DOMAIN Layouts[r.to].put /\ f # "type"
         /\ \A f \in r.carry : Fitting(r, f) /\ f \in DOMAIN Layouts[r.from].put
<1>1. RouteSound(r)
  BY RoutesSound
<1>2. /\ r.from \in DOMAIN Layouts /\ r.to \in DOMAIN Layouts /\ r.carry \subseteq ToSet(r.set)
      /\ Settable(Layouts[r.to], r.set) /\ \A f \in r.carry : Fitting(r, f)
  BY <1>1 DEF RouteSound, Settable
<1>3. Sound(Layouts[r.to]) /\ Sound(Layouts[r.from])
  BY <1>2, LayoutFacts
<1>4. \A f \in ToSet(r.set) : f \in DOMAIN Layouts[r.to].put /\ f # "type"
  BY <1>2 DEF Settable, ToSet
<1>5. \A f \in r.carry : f \in DOMAIN Layouts[r.from].put
  BY <1>2, <1>3 DEF Fitting, Sound, WellPlaced
<1> QED BY <1>1, <1>2, <1>3, <1>4, <1>5

\* A field that is carried along a route is read as it was set before.
LEMMA CarriedFits ==
  ASSUME WireInv, NEW r \in Routes, r.from = layout, TooLong(r) = {}, ~overrun,
         NEW bytes, NEW g \in r.carry, bytes[g] = Copied(r, g),
         Layouts[r.to].put[g].at + Width(Layouts[r.to].put[g]) <= Layouts[r.to].size
  PROVE  Fits(Filled(Layouts[r.to], r.set, bytes), Layouts[r.to].put[g], Layouts[r.to].get[g], meaning[g])
<1> DEFINE l == Layouts[r.to]
           p == l.put[g]
           s == Layouts[r.from].get[g]
           v == meaning[g]
<1>1. /\ Sound(l) /\ Settable(l, r.set) /\ g \in ToSet(r.set) /\ g \in DOMAIN l.put /\ g # "type"
      /\ Fitting(r, g) /\ g \in DOMAIN Layouts[r.from].put /\ r.from \in DOMAIN Layouts
  BY RouteFacts
<1>2. /\ s.kind = p.kind /\ p.kind \in {"str", "int", "nat"} /\ s.max \in Nat /\ p.max \in Nat
      /\ p.max <= s.max /\ (p.kind # "str" => s.max = p.max) /\ s.at \in Nat
  <2>1. s.at \in Nat
    BY <1>1, FieldFacts
  <2> QED BY <1>1, <2>1 DEF Fitting
<1>3. Read(mem, s) = v
  BY <1>1 DEF WireInv, Intact, Fits
<1>4. CASE p.kind = "str"
  <2>1. ~(Len(Read(mem, s)) > p.max)
    BY <1>4 DEF TooLong
  <2>2. bytes[g] = Strncpy(mem, s.at, p.max)
    BY <1>4 DEF Copied
  <2>3. /\ Len(v) \in 0..p.max /\ Spans(v, Len(v)) /\ \A i \in 1..Len(v) : v[i] # Zero
        /\ \A i \in 1..p.max : bytes[g][i] = IF i <= Len(v) THEN v[i] ELSE Zero
    <3> DEFINE max == p.max
    <3>1. /\ max \in Nat /\ max <= s.max /\ ~(Len(Read(mem, s)) > max)
          /\ s.kind = "str" /\ bytes[g] = Strncpy(mem, s.at, max)
      BY <1>2, <1>4, <2>1, <2>2
    <3>2. s.at \in Nat /\ s.max \in Nat
      BY <1>2
    <3> HIDE DEF max, s
    <3>3. LET u == Read(mem, s)
              b == Strncpy(mem, s.at, max) IN
          /\ Len(u) \in 0..max /\ Spans(u, Len(u)) /\ \A i \in 1..Len(u) : u[i] # Zero
          /\ \A i \in 1..max : b[i] = IF i <= Len(u) THEN u[i] ELSE Zero
      BY <3>1, <3>2, CopiedString
    <3> QED BY <1>3, <3>1, <3>3 DEF max
  <2> HIDE DEF v
  <2>4. Fits(Filled(l, r.set, bytes), l.put[g], l.get[g], v)
    <3> DEFINE n == Len(v)
    <3>1. /\ l.put[g].at + Width(l.put[g]) <= l.size /\ l.put[g].kind = "str"
          /\ n \in 0..l.put[g].max /\ Spans(v, n) /\ \A i \in 1..n : v[i] # Zero
          /\ \A i \in 1..l.put[g].max : bytes[g][i] = IF i <= n THEN v[i] ELSE Zero
      BY <1>4, <2>3
    <3> HIDE DEF l, n
    <3> QED BY <1>1, <3>1, StringFilled
  <2> QED BY <2>4 DEF v
<1>5. CASE p.kind # "str"
  <2>1. bytes[g] = v
    BY <1>3, <1>5 DEF Copied
  <2>2. v = [i \in 1..p.max |-> ByteAt(mem, s.at + i - 1)]
    <3>1. s.kind # "str" /\ s.kind # "list" /\ s.max = p.max
      BY <1>2, <1>5
    <3> HIDE DEF s, p, v
    <3>2. Read(mem, s) = [i \in 1..s.max |-> ByteAt(mem, s.at + i - 1)]
      BY <3>1, ReadNumber
    <3> QED BY <1>3, <3>1, <3>2
  <2>3. Spans(v, p.max)
    BY <2>2 DEF Spans
  <2>4. \A i \in 1..p.max : bytes[g][i] = v[i]
    BY <2>1
  <2>5. p.kind # "str" /\ p.kind # "list"
    BY <1>2, <1>5
  <2> HIDE DEF v
  <2>6. Fits(Filled(l, r.set, bytes), l.put[g], l.get[g], v)
    <3>1. l.put[g].at + Width(l.put[g]) <= l.size
      OBVIOUS
    <3> HIDE DEF l
    <3> QED BY <1>1, <2>3, <2>4, <2>5, <3>1, NumberFilled
  <2> QED BY <2>6 DEF v
<1> QED BY <1>4, <1>5

\* A field that the forwarding component chooses is read as it chose it.
LEMMA ChosenFits ==
  ASSUME NEW r \in Routes, NEW w \in Nat \ {0}, NEW n \in Nat,
         NEW bytes, NEW g \in ToSet(r.set), bytes[g] = Padded(Layouts[r.to].put[g], Chosen(r, g, w, n)),
         Layouts[r.to].put[g].at + Width(Layouts[r.to].put[g]) <= Layouts[r.to].size
  PROVE  Fits(Filled(Layouts[r.to], r.set, bytes), Layouts[r.to].put[g], Layouts[r.to].get[g],
              Chosen(r, g, w, n))
<1> DEFINE l == Layouts[r.to]
           p == l.put[g]
           v == Chosen(r, g, w, n)
<1>1. /\ Sound(l) /\ Settable(l, r.set) /\ g \in DOMAIN l.put /\ g # "type" /\ r.to \in DOMAIN Layouts
  BY RouteFacts
<1>2. p.max \in Nat
  BY <1>1, FieldFacts
<1>3. CASE p.kind = "str"
  <2> DEFINE k == IF n > p.max THEN p.max ELSE n
             M == [i \in 0..(k - 1) |-> <<w, i + 1>>]
  <2>1. k \in 0..p.max /\ k \in Nat
    BY <1>2
  <2>2. v = Text(w, k)
    BY <1>3 DEF Chosen
  <2> HIDE DEF k, v
  <2>3. Spans(v, k) /\ Len(v) = k /\ \A i \in 1..k : v[i] = <<w, i>> /\ v[i] # Zero
    BY <2>1, <2>2, TextFacts
  <2>4. [i \in 0..(Len(v) - 1) |-> v[i + 1]] = M
    BY <2>1, <2>3
  <2>5. bytes[g] = Strncpy(M, 0, p.max)
    BY <1>3, <2>4 DEF Padded, v
  <2>6. \A i \in 1..p.max : bytes[g][i] = IF i <= k THEN <<w, i>> ELSE Zero
    <3> DEFINE max == p.max
               b == bytes[g]
    <3>1. max \in Nat /\ k \in 0..max /\ b = Strncpy(M, 0, max)
      BY <1>2, <2>1, <2>5
    <3> HIDE DEF max, b
    <3>2. \A i \in 1..max : b[i] = IF i <= k THEN <<w, i>> ELSE Zero
      BY <3>1, PaddedText
    <3> QED BY <3>2 DEF max, b
  <2>7. \A i \in 1..p.max : bytes[g][i] = IF i <= k THEN v[i] ELSE Zero
    <3> DEFINE max == p.max
               b == bytes[g]
    <3>1. max \in Nat /\ k \in 0..max /\ \A i \in 1..max : b[i] = IF i <= k THEN <<w, i>> ELSE Zero
      BY <1>2, <2>1, <2>6
    <3> HIDE DEF max, b
    <3>2. ASSUME NEW i \in 1..max
          PROVE  b[i] = IF i <= k THEN v[i] ELSE Zero
      <4>1. i <= k => i \in 1..k
        BY <3>1
      <4> QED BY <2>3, <3>1, <4>1
    <3> QED BY <3>2 DEF max, b
  <2>8. \A i \in 1..k : v[i] # Zero
    BY <2>3
  <2>9. Fits(Filled(l, r.set, bytes), p, l.get[g], v)
    BY <1>1, <1>3, <2>1, <2>3, <2>7, <2>8, StringFilled
  <2> QED BY <2>9 DEF v
<1>4. CASE p.kind = "list"
  <2> DEFINE c == 1
  <2>1. v = Buffers(c, w)
    BY <1>4 DEF Chosen
  <2>2. bytes[g] = v
    BY <1>4 DEF Padded
  <2>3. c \in Nat
    OBVIOUS
  <2>4. c = 1
    OBVIOUS
  <2> HIDE DEF c, v
  <2>5. Spans(v, 4 * (c + 1)) /\ v[1][1] = c
    BY <2>1, <2>3, BuffersFacts
  <2>6. \A i \in 1..8 : bytes[g][i] = v[i]
    BY <2>2
  <2>7. Fits(Filled(l, r.set, bytes), p, l.get[g], v)
    BY <1>1, <1>4, <2>4, <2>5, <2>6, ListFilled
  <2> QED BY <2>7 DEF v
<1>5. CASE p.kind # "str" /\ p.kind # "list"
  <2>1. v = Number(w, p.max)
    BY <1>5 DEF Chosen
  <2>2. bytes[g] = v
    BY <1>5 DEF Padded
  <2>3. Spans(v, p.max)
    BY <1>2, <2>1, NumberSpans
  <2> HIDE DEF v
  <2>4. \A i \in 1..p.max : bytes[g][i] = v[i]
    BY <2>2
  <2>5. Fits(Filled(l, r.set, bytes), p, l.get[g], v)
    BY <1>1, <1>5, <2>3, <2>4, NumberFilled
  <2> QED BY <2>5 DEF v
<1> QED BY <1>3, <1>4, <1>5

\* A message built from another one has every field intact.
LEMMA ForwardStep ==
  ASSUME WireInv, NEW r \in Routes, NEW w \in Words, NEW n \in Lengths, Forward(r, w, n)
  PROVE  WireInv'
<1> DEFINE l == Layouts[r.to]
           bytes == [f \in ToSet(r.set) |-> IF f \in r.carry THEN Copied(r, f)
                                            ELSE Padded(l.put[f], Chosen(r, f, w, n))]
           m == Filled(l, r.set, bytes)
           new == [f \in DOMAIN l.put |->
                     CASE f \in r.carry -> meaning[f]
                       [] f \in ToSet(r.set) \ r.carry -> Chosen(r, f, w, n)
                       [] OTHER -> Default(l, f)]
           wide == \E f \in ToSet(r.set) : l.put[f].at + Width(l.put[f]) > l.size
<1>1. /\ r.from = layout
      /\ IF TooLong(r) # {} THEN \E f \in TooLong(r) : Refuse(r.to, f, TRUE)
         ELSE /\ layout' = r.to /\ mem' = m /\ meaning' = new /\ forwarded' = TRUE
              /\ overrun' = (overrun \/ wide) /\ refused' = refused
  BY DEF Forward
<1>2. /\ r.to \in DOMAIN Layouts /\ Sound(l) /\ Settable(l, r.set) /\ r.carry \subseteq ToSet(r.set)
      /\ \A f \in ToSet(r.set) : f \in DOMAIN l.put /\ f # "type"
  BY RouteFacts
<1>3. w \in Nat \ {0} /\ n \in Nat
  BY WireAssumption DEF WireAssumption
<1>4. CASE TooLong(r) # {}
  <2>1. PICK f \in TooLong(r) : Refuse(r.to, f, TRUE)
    BY <1>1, <1>4
  <2>2. f \in DOMAIN Layouts[r.to].put
    BY <1>2 DEF TooLong
  <2> QED BY <1>2, <2>1, <2>2, RefuseStep
<1>5. CASE TooLong(r) = {}
  <2>1. /\ layout' = r.to /\ mem' = m /\ meaning' = new /\ forwarded' = TRUE
        /\ overrun' = (overrun \/ wide) /\ refused' = refused
    BY <1>1, <1>5
  <2>2. /\ DOMAIN new = DOMAIN l.put
        /\ \A g \in DOMAIN l.put : g \in r.carry => new[g] = meaning[g]
        /\ \A g \in DOMAIN l.put : g \in ToSet(r.set) /\ g \notin r.carry => new[g] = Chosen(r, g, w, n)
        /\ \A g \in DOMAIN l.put : g \notin ToSet(r.set) => new[g] = Default(l, g)
    BY <1>2
  <2>3. /\ \A g \in r.carry : bytes[g] = Copied(r, g)
        /\ \A g \in ToSet(r.set) : g \notin r.carry => bytes[g] = Padded(l.put[g], Chosen(r, g, w, n))
    BY <1>2
  <2>4. DOMAIN m = 0..(l.size - 1)
    BY DEF Filled
  <2>5. "type" \in DOMAIN l.put /\ l.put["type"].kind = "type"
    BY <1>2, LayoutFacts, HeaderFacts
  <2>6. ~wide => \A g \in ToSet(r.set) : l.put[g].at + Width(l.put[g]) <= l.size
    <3> SUFFICES ASSUME NEW g \in ToSet(r.set), ~(l.put[g].at + Width(l.put[g]) > l.size)
                 PROVE  l.put[g].at + Width(l.put[g]) <= l.size
      OBVIOUS
    <3>1. l.put[g].at \in Nat /\ l.put[g].max \in Nat /\ l.size \in Nat
      BY <1>2, SoundField, LayoutFacts
    <3>2. Width(l.put[g]) \in Nat
      BY <3>1 DEF Width
    <3> HIDE DEF l
    <3> QED BY <3>1, <3>2
  <2>7. wide \in BOOLEAN
    OBVIOUS
  <2> HIDE DEF bytes, m, new, wide
  <2>8. WireTypeOK'
    <3>1. layout' \in DOMAIN Layouts /\ DOMAIN mem' = 0..(Layouts[layout'].size - 1)
      BY <1>2, <2>1, <2>4
    <3>2. DOMAIN meaning' = DOMAIN Layouts[layout'].put
      BY <2>1, <2>2
    <3>3. forwarded' \in BOOLEAN
      BY <2>1
    <3>4. overrun' \in BOOLEAN
      BY <2>1, <2>7, Zenon DEF WireInv, WireTypeOK
    <3>5. refused' \in {<<>>} \cup UNION {{<<t, f>> : f \in DOMAIN Layouts[t].put} : t \in DOMAIN Layouts}
      BY <2>1 DEF WireInv, WireTypeOK
    <3> QED BY <3>1, <3>2, <3>3, <3>4, <3>5 DEF WireTypeOK
  <2>9. meaning'["type"] = Number(Layouts[layout'].type, 2)
    <3>1. "type" \notin ToSet(r.set)
      BY <1>2
    <3>2. Default(l, "type") = Number(l.type, 2)
      BY <2>5 DEF Default
    <3> QED BY <2>1, <2>2, <2>5, <3>1, <3>2
  <2>10. ASSUME ~overrun', NEW g \in DOMAIN l.put
         PROVE  Fits(m, l.put[g], l.get[g], new[g])
    <3>1. ~overrun /\ ~wide
      BY <2>1, <2>10, Zenon
    <3>2. \A f \in ToSet(r.set) : l.put[f].at + Width(l.put[f]) <= l.size
      BY <2>6, <3>1
    <3>3. CASE g \in r.carry
      <4>1. new[g] = meaning[g] /\ bytes[g] = Copied(r, g)
        BY <3>3, <2>2, <2>3
      <4>2. Fits(Filled(l, r.set, bytes), l.put[g], l.get[g], meaning[g])
        BY <1>1, <1>2, <1>5, <3>1, <3>2, <3>3, <4>1, CarriedFits
      <4> QED BY <4>1, <4>2 DEF m
    <3>4. CASE g \in ToSet(r.set) /\ g \notin r.carry
      <4>1. new[g] = Chosen(r, g, w, n) /\ bytes[g] = Padded(l.put[g], Chosen(r, g, w, n))
        BY <3>4, <2>2, <2>3
      <4>2. Fits(Filled(l, r.set, bytes), l.put[g], l.get[g], Chosen(r, g, w, n))
        BY <1>3, <3>2, <3>4, <4>1, ChosenFits
      <4> QED BY <4>1, <4>2 DEF m
    <3>5. CASE g \notin ToSet(r.set)
      <4>1. new[g] = Default(l, g)
        BY <3>5, <2>2
      <4>2. Fits(Filled(l, r.set, bytes), l.put[g], l.get[g], Default(l, g))
        BY <1>2, <3>5, DefaultFilled
      <4> QED BY <4>1, <4>2 DEF m
    <3> QED BY <3>3, <3>4, <3>5
  <2>11. ~overrun' => Intact(layout', mem', meaning')
    BY <2>1, <2>10 DEF Intact
  <2> QED BY <2>8, <2>9, <2>11 DEF WireInv
<1> QED BY <1>4, <1>5

-----------------------------------------------------------------------------
(* Theorems.                                                                *)

\* A new message has every field intact.
LEMMA WireInitInv == WireInit => WireInv
<1> SUFFICES ASSUME WireInit PROVE WireInv
  OBVIOUS
<1> DEFINE l == Layouts[layout]
<1>1. /\ layout \in DOMAIN Layouts /\ mem = New(l) /\ overrun = FALSE /\ forwarded = FALSE /\ refused = <<>>
      /\ meaning = [f \in DOMAIN l.put |-> Default(l, f)]
  BY DEF WireInit
<1>2. Sound(l) /\ l.size \in {70, 128} /\ "type" \in DOMAIN l.put /\ l.put["type"].kind = "type"
  BY <1>1, LayoutFacts, HeaderFacts
<1>3. WireTypeOK
  <2>1. DOMAIN mem = 0..(l.size - 1)
    BY <1>1, <1>2, NewFacts
  <2>2. refused \in {<<>>} \cup UNION {{<<t, f>> : f \in DOMAIN Layouts[t].put} : t \in DOMAIN Layouts}
    BY <1>1
  <2> QED BY <1>1, <2>1, <2>2 DEF WireTypeOK
<1>4. meaning["type"] = Number(l.type, 2)
  BY <1>1, <1>2 DEF Default
<1>5. ASSUME NEW g \in DOMAIN l.put
      PROVE  Fits(mem, l.put[g], l.get[g], meaning[g])
  <2>1. \A i \in Nat : Seen(l.get[g], i) => ByteAt(mem, i) = ByteAt(New(l), i)
    BY <1>1
  <2>2. Fits(mem, l.put[g], l.get[g], Default(l, g))
    <3> HIDE DEF l
    <3> QED BY <1>2, <2>1, DefaultFits
  <2> QED BY <1>1, <2>2
<1> QED BY <1>3, <1>4, <1>5 DEF WireInv, Intact

\* Every setter and every forwarding component keeps the invariant.
LEMMA WireInvStep == WireInv /\ [WireNext]_wireVars => WireInv'
<1> SUFFICES ASSUME WireInv, [WireNext]_wireVars PROVE WireInv'
  OBVIOUS
<1>1. CASE \E f \in DOMAIN meaning, w \in Words, n \in Lengths : SetString(f, w, n)
  BY <1>1, SetStringStep
<1>2. CASE \E f \in DOMAIN meaning, w \in Numbers : SetNumber(f, w)
  BY <1>2, SetNumberStep
<1>3. CASE \E f \in DOMAIN meaning, n \in BufferCounts, w \in Words : SetBuffers(f, n, w)
  BY <1>3, SetBuffersStep
<1>4. CASE \E r \in Routes, w \in Words, n \in Lengths : Forward(r, w, n)
  BY <1>4, ForwardStep
<1>5. CASE UNCHANGED wireVars
  BY <1>5 DEF wireVars, WireInv, WireTypeOK
<1> QED BY <1>1, <1>2, <1>3, <1>4, <1>5 DEF WireNext

\* In every reachable state, for all contents, lengths and numbers of buffers,
\* every field that was set with set_... or its setter of ipc/messages.cpp is read
\* as it was set, unless a list of input buffers has left the buffer before.
THEOREM WireInvAlways == WireSpec => []WireInv
BY WireInitInv, WireInvStep, PTL DEF WireSpec

\* The invariant says what the receiver reads, also of the type it parses.
LEMMA InvIntact == WireInv => FieldsIntact
<1> SUFFICES ASSUME WireInv PROVE FieldsIntact
  OBVIOUS
<1> DEFINE l == Layouts[layout]
<1>1. WireTypeOK /\ layout \in DOMAIN Layouts /\ DOMAIN mem = 0..(l.size - 1) /\ DOMAIN meaning = DOMAIN l.put
  BY DEF WireInv, WireTypeOK
<1>2. /\ l.size \in {70, 128} /\ "type" \in DOMAIN l.put /\ l.get["type"] = HeaderFields.type
  BY <1>1, LayoutFacts
<1>3. ASSUME ~overrun
      PROVE  /\ layout \in ParseMessage(mem) \cup IpcParseMessage(mem)
             /\ \A f \in DOMAIN meaning : Read(mem, l.get[f]) = meaning[f]
  <2>1. \A f \in DOMAIN l.put : Read(mem, l.get[f]) = meaning[f]
    BY <1>3 DEF WireInv, Intact, Fits
  <2>2. Read(mem, HeaderFields.type) = Number(l.type, 2)
    BY <1>2, <2>1 DEF WireInv
  <2>3. layout \in Numbered(mem, l.size)
    BY <1>1, <2>2 DEF Numbered
  <2>4. layout \in ParseMessage(mem) \cup IpcParseMessage(mem)
    BY <1>2, <2>3 DEF ParseMessage, IpcParseMessage, CommonSize, IpcSize
  <2> QED BY <1>1, <2>1, <2>4
<1> QED BY <1>1, <1>3 DEF FieldsIntact

\* FieldsIntact: the receiver of a message parses it as the kind it is and reads in
\* every field what was set by the component that chose the value, however often
\* the message was taken apart and built again.
THEOREM FieldsIntactAlways == WireSpec => []FieldsIntact
BY WireInvAlways, InvIntact, PTL

\* A view that is too long for the setter behind a route.
LEMMA TooLongOnly ==
  ASSUME WireInv, NEW r \in Routes, r.from = layout, NEW f \in TooLong(r)
  PROVE  r.to = "IpcInvocationRequest" /\ f = "process_id"
<1> DEFINE s == Layouts[r.from].get[f]
           max == Layouts[r.to].put[f].max
<1>1. f \in r.carry /\ Layouts[r.to].put[f].kind = "str" /\ Len(Read(mem, s)) > max
  BY DEF TooLong
<1>2. /\ Fitting(r, f) /\ f \in DOMAIN Layouts[r.from].put /\ r.from \in DOMAIN Layouts
  BY <1>1, RouteFacts
<1>3. /\ s.kind = "str" /\ s.max \in Nat /\ max \in Nat /\ s.at \in Nat
      /\ max < s.max => r.to = "IpcInvocationRequest" /\ f = "process_id"
  <2>1. s.at \in Nat
    BY <1>2, FieldFacts
  <2> QED BY <1>1, <1>2, <2>1 DEF Fitting
<1> HIDE DEF s, max
<1>4. Len(Read(mem, s)) \in 0..s.max
  <2> DEFINE n == StrLen(mem, s.at, s.max)
  <2>1. n \in 0..s.max
    BY <1>3, StrLenFacts
  <2>2. Read(mem, s) = [i \in 1..n |-> ByteAt(mem, s.at + i - 1)]
    BY <1>3, ReadString
  <2> HIDE DEF n
  <2> QED BY <1>3, <2>1, <2>2
<1> QED BY <1>1, <1>3, <1>4

\* No step refuses on the way what was accepted before.
LEMMA RefusedStep ==
  WireInv /\ RefusedOnlyAtOrigin /\ [WireNext]_wireVars => RefusedOnlyAtOrigin'
<1> SUFFICES ASSUME WireInv, RefusedOnlyAtOrigin, [WireNext]_wireVars PROVE RefusedOnlyAtOrigin'
  OBVIOUS
<1>1. ASSUME NEW t, NEW f, Refuse(t, f, FALSE) PROVE RefusedOnlyAtOrigin'
  BY <1>1 DEF Refuse, RefusedOnlyAtOrigin
<1>2. ASSUME NEW s, NEW f, NEW b, NEW v, Store(s, f, b, v) PROVE RefusedOnlyAtOrigin'
  BY <1>2 DEF Store, RefusedOnlyAtOrigin
<1>3. ASSUME NEW f \in DOMAIN meaning, NEW w \in Words, NEW n \in Lengths, SetString(f, w, n)
      PROVE  RefusedOnlyAtOrigin'
  BY <1>1, <1>2, <1>3 DEF SetString
<1>4. ASSUME NEW f \in DOMAIN meaning, NEW w \in Numbers, SetNumber(f, w)
      PROVE  RefusedOnlyAtOrigin'
  BY <1>1, <1>2, <1>4 DEF SetNumber
<1>5. ASSUME NEW f \in DOMAIN meaning, NEW n \in BufferCounts, NEW w \in Words, SetBuffers(f, n, w)
      PROVE  RefusedOnlyAtOrigin'
  <2>1. layout \in DOMAIN Layouts /\ f \in DOMAIN Layouts[layout].put
    BY SetField
  <2>2. Layouts[layout].put[f].kind = "list"
    BY <1>5 DEF SetBuffers
  <2>3. layout = "IpcInvocationRequest" /\ f = "buffers"
    BY <2>1, <2>2, FieldFacts
  <2>4. CASE Refuse(layout, f, forwarded)
    BY <2>3, <2>4 DEF Refuse, RefusedOnlyAtOrigin
  <2> QED BY <1>2, <1>5, <2>4 DEF SetBuffers
<1>6. ASSUME NEW r \in Routes, NEW w \in Words, NEW n \in Lengths, Forward(r, w, n)
      PROVE  RefusedOnlyAtOrigin'
  <2>1. refused = <<>> /\ r.from = layout
    BY <1>6 DEF Forward
  <2>2. CASE TooLong(r) # {}
    <3>1. PICK f \in TooLong(r) : Refuse(r.to, f, TRUE)
      BY <1>6, <2>2 DEF Forward
    <3>2. refused' = <<r.to, f>>
      BY <3>1 DEF Refuse
    <3>3. r.to = "IpcInvocationRequest" /\ f = "process_id"
      BY <2>1, TooLongOnly
    <3> QED BY <3>2, <3>3 DEF RefusedOnlyAtOrigin
  <2>3. CASE TooLong(r) = {}
    BY <1>6, <2>1, <2>3 DEF Forward, RefusedOnlyAtOrigin
  <2> QED BY <2>2, <2>3
<1>7. CASE UNCHANGED wireVars
  BY <1>7 DEF wireVars, RefusedOnlyAtOrigin
<1> QED BY <1>3, <1>4, <1>5, <1>6, <1>7 DEF WireNext

\* RefusedOnlyAtOrigin: of the setters called on the way of a message only two of an
\* InvocationRequest between a worker and the controller throw: that of process_id,
\* for a name longer than ID_LENGTH, and that of buffers, when too many requests
\* were merged.
THEOREM RefusedOnlyAtOriginAlways == WireSpec => []RefusedOnlyAtOrigin
<1>1. WireInit => RefusedOnlyAtOrigin
  BY DEF WireInit, RefusedOnlyAtOrigin
<1> QED BY <1>1, RefusedStep, WireInvAlways, PTL DEF WireSpec

\* The message that holds the list of buffers has 128 bytes.
LEMMA ListRoom == Layouts["IpcInvocationRequest"].size = 128
BY DEF Layouts, IpcInvocationRequest, Ipc, IpcSize

\* A setter that writes no more than the width of its field stays in the buffer.
LEMMA StoreInside ==
  ASSUME WireInv, NEW f \in DOMAIN meaning, Setter(f).kind # "list",
         NEW b, Len(b) = Setter(f).max, NEW v, Store(Setter(f), f, b, v)
  PROVE  overrun' = overrun
<1> DEFINE size == Layouts[layout].size
           at == Setter(f).at
           max == Setter(f).max
<1>1. layout \in DOMAIN Layouts /\ f \in DOMAIN Layouts[layout].put /\ overrun \in BOOLEAN
  BY DEF WireInv, WireTypeOK
<1>2. at \in Nat /\ max \in Nat /\ size \in Nat /\ at + max <= size
  <2>1. /\ at \in Nat /\ Getter(f).at = at /\ max \in Nat /\ Getter(f).max \in Nat
        /\ max <= Getter(f).max /\ Getter(f).at + Getter(f).max <= size
    BY <1>1, FieldFacts DEF Setter, Getter
  <2>2. size \in Nat
    BY <1>1, LayoutFacts
  <2> QED BY <2>1, <2>2
<1>3. overrun' = (overrun \/ at + Len(b) > size)
  BY DEF Store
<1>4. ~(at + Len(b) > size)
  <2> HIDE DEF at, size
  <2> QED BY <1>2
<1> HIDE DEF at, size
<1> QED BY <1>1, <1>3, <1>4, Zenon

\* strncpy writes as many bytes as it is told.
LEMMA StrncpyLen ==
  ASSUME NEW m, NEW at, NEW max \in Nat
  PROVE  Len(Strncpy(m, at, max)) = max
BY DEF Strncpy

\* A step that writes behind the end of a buffer sets the lengths of too many inputs.
LEMMA OverrunStep ==
  ASSUME WireInv, [WireNext]_wireVars, overrun' # overrun
  PROVE  layout = "IpcInvocationRequest" /\ Len(meaning'["buffers"]) > 4 * (1 + 13)
<1>1. layout \in DOMAIN Layouts /\ DOMAIN meaning = DOMAIN Layouts[layout].put /\ overrun \in BOOLEAN
  BY DEF WireInv, WireTypeOK
<1>2. ASSUME NEW t, NEW f, NEW x, Refuse(t, f, x) PROVE FALSE
  BY <1>2 DEF Refuse
<1>3. ASSUME NEW f \in DOMAIN meaning, NEW w \in Words, NEW n \in Lengths, SetString(f, w, n)
      PROVE  FALSE
  <2> DEFINE b == Strncpy([i \in 0..(n - 1) |-> <<w, i + 1>>], 0, Setter(f).max)
  <2>1. Setter(f).kind = "str" /\ Store(Setter(f), f, b, Text(w, n))
    BY <1>2, <1>3 DEF SetString, Setter
  <2>2. Setter(f).max \in Nat
    BY SetField
  <2>3. Len(b) = Setter(f).max
    BY <2>2, StrncpyLen
  <2> HIDE DEF b
  <2> QED BY <2>1, <2>3, StoreInside
<1>4. ASSUME NEW f \in DOMAIN meaning, NEW w \in Numbers, SetNumber(f, w)
      PROVE  FALSE
  <2> DEFINE b == Number(w, Setter(f).max)
  <2>1. Setter(f).kind \in {"int", "nat"} /\ Store(Setter(f), f, b, b)
    BY <1>2, <1>4 DEF SetNumber, Setter
  <2>2. Setter(f).max \in Nat
    BY SetField
  <2>3. Len(b) = Setter(f).max
    BY <2>2, NumberFacts
  <2> HIDE DEF b
  <2> QED BY <2>1, <2>3, StoreInside
<1>5. ASSUME NEW f \in DOMAIN meaning, NEW n \in BufferCounts, NEW w \in Words, SetBuffers(f, n, w)
      PROVE  layout = "IpcInvocationRequest" /\ Len(meaning'["buffers"]) > 4 * (1 + 13)
  <2> DEFINE b == Buffers(n, w)
  <2>1. Setter(f).kind = "list" /\ Store(Setter(f), f, b, b)
    BY <1>2, <1>5 DEF SetBuffers, Setter
  <2>2. n \in Nat
    BY WireAssumption DEF WireAssumption
  <2>3. Len(b) = 4 * (n + 1)
    BY <2>2, BuffersFacts
  <2> HIDE DEF b
  <2>4. layout = "IpcInvocationRequest" /\ f = "buffers" /\ Setter(f).at = 70
    BY <1>1, <2>1, FieldFacts DEF Setter
  <2>5. overrun' = (overrun \/ 70 + Len(b) > 128) /\ meaning' = [meaning EXCEPT ![f] = b]
    BY <2>1, <2>4, ListRoom DEF Store
  <2>6. meaning'["buffers"] = b
    BY <2>4, <2>5
  <2>7. 70 + Len(b) > 128
    <3> SUFFICES ASSUME ~(70 + Len(b) > 128) PROVE FALSE
      OBVIOUS
    <3> QED BY <1>1, <2>5, Zenon
  <2>8. Len(b) > 4 * (1 + 13)
    BY <2>2, <2>3, <2>7
  <2> QED BY <2>4, <2>6, <2>8
<1>6. ASSUME NEW r \in Routes, NEW w \in Words, NEW n \in Lengths, Forward(r, w, n)
      PROVE  FALSE
  <2> DEFINE l == Layouts[r.to]
             wide == \E f \in ToSet(r.set) : l.put[f].at + Width(l.put[f]) > l.size
  <2>1. r.to \in DOMAIN Layouts /\ \A f \in ToSet(r.set) : f \in DOMAIN l.put
    BY RouteFacts
  <2>2. ASSUME NEW f \in ToSet(r.set) PROVE ~(l.put[f].at + Width(l.put[f]) > l.size)
    <3>1. CASE l.put[f].kind = "list"
      <4>1. r.to = "IpcInvocationRequest" /\ l.put[f].at = 70
        BY <2>1, <3>1, FieldFacts
      <4>2. l.size = 128
        BY <4>1, ListRoom
      <4>3. Width(l.put[f]) = 8
        BY <3>1 DEF Width
      <4> HIDE DEF l
      <4> QED BY <4>1, <4>2, <4>3
    <3>2. CASE l.put[f].kind # "list"
      <4>1. /\ l.put[f].at \in Nat /\ l.get[f].at = l.put[f].at /\ l.put[f].max \in Nat
            /\ l.get[f].max \in Nat /\ l.put[f].max <= l.get[f].max
            /\ l.get[f].at + l.get[f].max <= l.size
        BY <2>1, <3>2, FieldFacts
      <4>2. l.size \in Nat
        BY <2>1, LayoutFacts
      <4>3. Width(l.put[f]) = l.put[f].max
        BY <3>2 DEF Width
      <4> HIDE DEF l
      <4> QED BY <4>1, <4>2, <4>3
    <3> QED BY <3>1, <3>2
  <2>3. ~wide
    BY <2>2
  <2>4. CASE TooLong(r) # {}
    BY <1>2, <1>6, <2>4 DEF Forward
  <2>5. CASE TooLong(r) = {}
    <3>1. overrun' = (overrun \/ wide)
      BY <1>6, <2>5 DEF Forward
    <3> HIDE DEF wide
    <3> QED BY <1>1, <2>3, <3>1, Zenon
  <2> QED BY <2>4, <2>5
<1>7. CASE UNCHANGED wireVars
  BY <1>7 DEF wireVars
<1> QED BY <1>3, <1>4, <1>5, <1>6, <1>7 DEF WireNext

\* OverrunOnlyByBuffers: the only setter that writes behind the end of a message is
\* buffers, when there are more inputs than 13.
THEOREM OverrunOnlyByBuffersAlways == WireSpec => OverrunOnlyByBuffers
<1>1. WireInv /\ [WireNext]_wireVars =>
        [overrun' # overrun => /\ layout = "IpcInvocationRequest"
                               /\ Len(meaning'["buffers"]) > 4 * (1 + 13)]_wireVars
  BY OverrunStep
<1> QED BY <1>1, WireInvAlways, PTL DEF WireSpec, OverrunOnlyByBuffers
=============================================================================
