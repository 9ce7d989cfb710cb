------------------------ MODULE MCConsumerOperations ------------------------
(***************************************************************************)
(* Scenarios for ConsumerOperations: which operations there are and which  *)
(* calls the application's goroutines make on them.                        *)
(***************************************************************************)
EXTENDS ConsumerOperations, TLC

CONSTANTS o1, o2, a, b

\* Goroutine th makes the calls cs on o.
Uses(th, o, cs) == {th} \X {o} \X cs

\* An Invoke and a Progress operation whose updates are read to the end.
StreamPattern == o1 :> "Invoke" @@ o2 :> "Progress"
StreamProgram == Uses(a, o1, {"Initiate", "GetResponse", "Reset"})
                 \cup Uses(b, o2, {"Initiate", "GetUpdate", "Reset"})

InvokePattern   == o1 :> "Invoke"
ProgressPattern == o1 :> "Progress"

\* One Progress operation read with GetResponse before its updates are.
EarlyProgram == Uses(a, o1, {"Initiate", "GetUpdate", "GetResponse"})

\* One Invoke operation that is reset.
ResetProgram == Uses(a, o1, {"Initiate", "GetResponse", "Reset"})

\* One Request operation that another goroutine interrupts, or closes.
RequestPattern == o1 :> "Request"
InterruptProgram == Uses(a, o1, {"Initiate", "Reset"}) \cup Uses(b, o1, {"Interrupt"})
CloseProgram == Uses(a, o1, {"Initiate", "Reset"}) \cup Uses(b, o1, {"Close"})

\* One goroutine that submits while the response of its Invoke is pending.
PipelinedPattern == o1 :> "Invoke" @@ o2 :> "Submit"
PipelinedProgram == Uses(a, o1, {"Initiate", "GetResponse"}) \cup Uses(a, o2, {"Initiate"})

\* The context of an acknowledged Invoke operation is closed.
OnCloseProgram == Uses(a, o1, {"Initiate", "GetResponse"}) \cup Uses(a, NoOp, {"OnClose"})
=============================================================================
