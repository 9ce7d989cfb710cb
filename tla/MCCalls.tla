------------------------------ MODULE MCCalls ------------------------------
(***************************************************************************)
(* ConsumerOperations under several scenarios in one run.  A scenario says *)
(* which operations are created, how many transactions and messages of a   *)
(* stream there may be, whether the transport may refuse a message and     *)
(* whether the ClientContext may be closed.                                *)
(***************************************************************************)
EXTENDS ConsumerOperations, TLC

CONSTANTS submit, request, invoke, progress, subscriber, publisher, a, b,
          Scenarios

Patterned ==
  submit :> "Submit" @@ request :> "Request" @@ invoke :> "Invoke"
  @@ progress :> "Progress" @@ subscriber :> "Subscriber" @@ publisher :> "Publisher"

InvokeOrProgress == invoke :> "Invoke" @@ progress :> "Progress"

\* Goroutine th makes the calls cs on o.
Uses(th, o, cs) == {th} \X {o} \X cs

Scenario(ops, ids, stream, refuses, closes) ==
  [ops |-> ops, ids |-> ids, stream |-> stream, refuses |-> refuses, closes |-> closes]

\* Two operations of two goroutines, reset and closed by their goroutine.
Calling ==
  Uses(a, submit, {"Initiate", "Reset", "Close"})
  \cup Uses(b, request, {"Initiate", "Reset", "Close"})
  \cup Uses(a, invoke, {"Initiate", "GetResponse", "Reset"})
  \cup Uses(b, progress, {"Initiate", "GetUpdate", "Reset"})
  \cup Uses(a, subscriber, {"Initiate", "GetNotify", "Deregister", "Reset"})
  \cup Uses(b, publisher, {"Initiate", "Publish", "GetPublishError", "Deregister"})

CallScenarios ==
  {Scenario({submit, request}, 3, 0, TRUE, FALSE),
   Scenario({invoke, progress}, 3, 1, TRUE, FALSE),
   Scenario({subscriber, publisher}, 3, 1, FALSE, FALSE)}

\* One operation of a, which b interrupts, and closes or closes the context.
Interfering ==
  Uses(a, invoke, {"Initiate", "GetResponse", "Reset"})
  \cup Uses(a, progress, {"Initiate", "GetResponse", "GetUpdate", "Reset"})
  \cup Uses(b, invoke, {"Interrupt", "Close"})
  \cup Uses(b, progress, {"Interrupt"})
  \cup Uses(b, NoOp, {"CloseContext"})

InterferenceScenarios ==
  {Scenario({invoke}, 2, 2, FALSE, FALSE), Scenario({progress}, 2, 1, FALSE, TRUE)}

VARIABLE scenario

Within ==
  /\ \A o \in Op \ scenario.ops : status[o] = "NONE"
  /\ txcounter <= scenario.ids
  /\ \A t \in Tid : exchange[t].count <= scenario.stream
  /\ scenario.refuses \/ \A th \in Thread : ret[th].out # "send"
  /\ scenario.closes \/ \A th \in Thread : thread[th].pc # "cleanOps"

CallsInit == Init /\ scenario \in Scenarios
CallsNext == UNCHANGED scenario /\ Next /\ Within'
CallsSpec == CallsInit /\ [][CallsNext]_<<vars, scenario>>
=============================================================================
