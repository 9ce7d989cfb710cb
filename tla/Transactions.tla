---------------------------- MODULE Transactions ----------------------------
(***************************************************************************)
(* What ClientContext and its operations promise about transaction ids     *)
(* (TransactionId, registerOp and deregisterOp of src/mal/api/context.go): *)
(* ids are handed out in order, each is opened to replies at most once, by *)
(* the operation it was allocated for, and once it is over no reply is     *)
(* routed for it again.                                                    *)
(***************************************************************************)
EXTENDS Integers

CONSTANT MaxTid

VARIABLE state   \* state[t]: unused, then ready, then open, then over

Tid == 1 .. MaxTid

Init == state = [t \in Tid |-> "unused"]

\* The next id is allocated to an operation.
Allocate(t) ==
  /\ state[t] = "unused"
  /\ \A u \in Tid : u < t => state[u] # "unused"
  /\ state' = [state EXCEPT ![t] = "ready"]

\* The id is entered in the table: replies are routed from now on.
Open(t) ==
  /\ state[t] = "ready"
  /\ state' = [state EXCEPT ![t] = "open"]

\* Transactions end, one by one or, when the context is closed, together.
End(S) ==
  /\ \A t \in S : state[t] \in {"ready", "open"}
  /\ state' = [t \in Tid |-> IF t \in S THEN "over" ELSE state[t]]

Next ==
  \/ \E t \in Tid : Allocate(t) \/ Open(t)
  \/ \E S \in SUBSET Tid : End(S)

Spec == Init /\ [][Next]_state
=============================================================================
