-------------------------------- MODULE Pipe --------------------------------
(***************************************************************************)
(* What the connections between components promise: on each, messages come *)
(* out once, complete and in the order in which they were put in, and what *)
(* was put in comes out.  Framing and Channel are shown to implement it.   *)
(***************************************************************************)
EXTENDS Naturals, Sequences

CONSTANTS Pipes,   \* directed connections
          Messages

VARIABLES sent, \* what the sender handed over, on each
          got   \* what the receiver was given

vars == <<sent, got>>

Init ==
  /\ sent = [p \in Pipes |-> <<>>]
  /\ got = [p \in Pipes |-> <<>>]

Send(p, m) == sent' = [sent EXCEPT ![p] = Append(@, m)] /\ UNCHANGED got

Deliver(p) ==
  /\ Len(got[p]) < Len(sent[p])
  /\ got' = [got EXCEPT ![p] = Append(@, sent[p][Len(@) + 1])]
  /\ UNCHANGED sent

Next == \E p \in Pipes : Deliver(p) \/ \E m \in Messages : Send(p, m)

Spec == Init /\ [][Next]_vars

FairSpec == Spec /\ \A p \in Pipes : WF_vars(Deliver(p))
=============================================================================
