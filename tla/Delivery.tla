------------------------------ MODULE Delivery ------------------------------
(***************************************************************************)
(* What Transport.Transmit promises of a message (src/mal/transport.go):   *)
(* once accepted it reaches its own destination, once, or it is lost, and  *)
(* neither is ever taken back.  A failure may lose several messages.       *)
(***************************************************************************)
EXTENDS Sequences

CONSTANTS Msg, Node, To   \* To[m]: the node m is for

VARIABLES
  accepted,  \* the messages Transmit has accepted
  pending,   \* those that are neither delivered nor lost
  received   \* received[n]: what n has received, in order

vars == <<accepted, pending, received>>

Init ==
  /\ accepted = {}
  /\ pending = {}
  /\ received = [n \in Node |-> <<>>]

Accept(m) ==
  /\ m \notin accepted
  /\ accepted' = accepted \cup {m}
  /\ pending' = pending \cup {m}
  /\ UNCHANGED received

Deliver(m) ==
  /\ m \in pending
  /\ pending' = pending \ {m}
  /\ received' = [received EXCEPT ![To[m]] = Append(@, m)]
  /\ UNCHANGED accepted

Lose(S) ==
  /\ pending' = pending \ S
  /\ UNCHANGED <<accepted, received>>

Next ==
  \/ \E m \in Msg : Accept(m) \/ Deliver(m)
  \/ \E S \in SUBSET Msg : Lose(S)

Spec == Init /\ [][Next]_vars
=============================================================================
