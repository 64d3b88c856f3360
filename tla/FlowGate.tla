------------------------------ MODULE FlowGate ------------------------------
(***************************************************************************)
(* What the REALITY precheck promises to quic-go, to the destination and to *)
(* its clients, without saying how: every datagram is disposed of at most   *)
(* once; it is passed on only when its client has proved itself; and what a *)
(* client sends is never overtaken by what it sends later, whether it goes  *)
(* to quic-go, to the destination, or first waits.                          *)
(* Datagrams are numbered in the order they arrive.                         *)
(***************************************************************************)
EXTENDS Naturals, Sequences

CONSTANTS
  Inputs,  \* the datagrams that may arrive
  Pieces   \* the fragments a ClientHello is cut into

VARIABLES
  arrived,    \* the datagrams in the order they came
  waiting,    \* numbers of those whose fate is open
  passed,     \* given to quic-go, in order
  forwarded   \* given to the relay, in order

gateVars == <<arrived, waiting, passed, forwarded>>

Sent(c) == UNION {arrived[i].frags : i \in {j \in DOMAIN arrived :
                     arrived[j].client = c /\ arrived[j].kind = "initial"}}
Proved(c) == {f.at : f \in {g \in Sent(c) : g.genuine}} = Pieces

(* Nothing its client sent before it is still waiting. *)
First(id) ==
  /\ id \in waiting
  /\ \A j \in waiting : arrived[j].client = arrived[id].client => id <= j

Init ==
  /\ arrived = <<>> /\ waiting = {}
  /\ passed = <<>> /\ forwarded = <<>>

(* A datagram may be refused as it comes. *)
Arrive(d) ==
  /\ arrived' = Append(arrived, d)
  /\ waiting' \in {waiting, waiting \cup {Len(arrived) + 1}}
  /\ UNCHANGED <<passed, forwarded>>

Pass(id) ==
  /\ First(id) /\ Proved(arrived[id].client)
  /\ waiting' = waiting \ {id}
  /\ passed' = Append(passed, id)
  /\ UNCHANGED <<arrived, forwarded>>

Forward(id) ==
  /\ First(id)
  /\ waiting' = waiting \ {id}
  /\ forwarded' = Append(forwarded, id)
  /\ UNCHANGED <<arrived, passed>>

Drop(ids) ==
  /\ waiting' = waiting \ ids
  /\ UNCHANGED <<arrived, passed, forwarded>>

Next ==
  \/ \E d \in Inputs : Arrive(d)
  \/ \E id \in waiting : Pass(id) \/ Forward(id)
  \/ \E ids \in SUBSET waiting : Drop(ids)

Spec == Init /\ [][Next]_gateVars
=============================================================================
