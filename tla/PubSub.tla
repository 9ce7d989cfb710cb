------------------------------- MODULE PubSub -------------------------------
(***************************************************************************)
(* What the broker of src/mal/broker/handler.go promises: a publication it *)
(* accepts is notified once to each registration that is active throughout *)
(* and asks for some of its updates; to one that is made, replaced or      *)
(* dropped meanwhile, once or not at all; and to nobody else.              *)
(***************************************************************************)
EXTENDS FiniteSets

CONSTANTS
  Subscriber,    \* a consumer's URI and a subscription identifier
  Registration,  \* [tid, request]: what one REGISTER message leaves
  Pub,           \* publications
  Wanted,        \* Wanted[r]: the publications of which r asks for some updates
  NoSub

VARIABLES
  active,        \* the registration of each subscriber
  open,          \* the accepted publications that are still being notified
  owed,          \* <<x, tid, p>>: subscriber x is to be notified of p
  told           \* <<tid, p>>: the notifications sent

vars == <<active, open, owed, told>>

Init ==
  /\ active = [x \in Subscriber |-> NoSub]
  /\ open = {} /\ owed = {} /\ told = {}

Wants(x, p) == active[x] # NoSub /\ p \in Wanted[active[x].request]

Others(x) == {o \in owed : o[1] # x}

\* x registers, perhaps again; publications in progress may reach either.
Subscribe(x, r) ==
  /\ \A d \in told : d[1] # r.tid
  /\ active' = [active EXCEPT ![x] = r]
  /\ owed' \ Others(x) \subseteq {x} \X ({r.tid} \cup {o[2] : o \in owed}) \X open
  /\ Others(x) \subseteq owed'
  /\ \A o \in owed' : <<o[2], o[3]>> \notin told
  /\ UNCHANGED <<open, told>>

Unsubscribe(X) ==
  /\ active' = [x \in Subscriber |-> IF x \in X THEN NoSub ELSE active[x]]
  /\ owed' \subseteq owed
  /\ \A o \in owed \ owed' : o[1] \in X
  /\ UNCHANGED <<open, told>>

Publish(p) ==
  /\ p \notin open /\ \A d \in told : d[2] # p
  /\ open' = open \cup {p}
  /\ owed' = owed \cup {<<x, active[x].tid, p>> : x \in {y \in Subscriber : Wants(y, p)}}
  /\ UNCHANGED <<active, told>>

\* A registration made while p is being notified is reached.
Reach(x, p) ==
  /\ p \in open
  /\ Wants(x, p)
  /\ <<active[x].tid, p>> \notin told
  /\ owed' = owed \cup {<<x, active[x].tid, p>>}
  /\ UNCHANGED <<active, open, told>>

Notify(o) ==
  /\ o \in owed
  /\ owed' = owed \ {o}
  /\ told' = told \cup {<<o[2], o[3]>>}
  /\ UNCHANGED <<active, open>>

\* Nobody is left out.
Finish(p) ==
  /\ p \in open
  /\ \A o \in owed : o[3] # p
  /\ open' = open \ {p}
  /\ UNCHANGED <<active, owed, told>>

Next ==
  \/ \E x \in Subscriber : \/ \E r \in Registration : Subscribe(x, r)
                           \/ \E p \in Pub : Reach(x, p)
  \/ \E X \in SUBSET Subscriber : Unsubscribe(X)
  \/ \E p \in Pub : Publish(p) \/ Finish(p)
  \/ \E o \in owed : Notify(o)

Spec == Init /\ [][Next]_vars
=============================================================================
