---------------------------- MODULE MCMalContext ----------------------------
(***************************************************************************)
(* MalContext for two Contexts: "a" and the EndPoint "e" in the first one, *)
(* the providers "p" and "q" in the second.  A scenario says who may call  *)
(* whom, how often, which handlers there are and what is registered and    *)
(* closed.                                                                 *)
(***************************************************************************)
EXTENDS MalContext

CONSTANTS c1, c2, a, p, q, e, o,
          a1, a2, p1, e1,   \* applications of a, p and e
          MaxAdmin          \* bound: registrations and closings

VARIABLES scenario, admins

HomeOf == [u \in {a, e, p, q} |-> IF u \in {a, e} THEN c1 ELSE c2]
AppOf == [x \in {a1, a2, p1, e1} |-> CASE x \in {a1, a2} -> a [] x = p1 -> p [] x = e1 -> e]

Scenario(calls_, most, conc, type, admin) ==
  [calls |-> calls_, most |-> most, conc |-> conc, type |-> type, admin |-> admin]

\* Calls within calls, back to the first caller too; every client is concurrent.
Nested == Scenario({<<a, p, "REQUEST">>, <<p, q, "REQUEST">>, <<q, a, "REQUEST">>}, 3, {a, p, q}, "REQUEST", {})

\* Messages to a provider that is not concurrent, from its own Context too, and
\* to and from an EndPoint.
Ordered == Scenario({<<a, q, "SEND">>, <<e, q, "SEND">>, <<p, q, "SEND">>, <<a, e, "SEND">>}, 3, {}, "SEND", {})

\* Requests while clients and Contexts are closed; and an EndPoint that is.
Closings == Scenario({<<a, p, "REQUEST">>, <<p, q, "REQUEST">>}, 2, {p, q}, "REQUEST", {"client", "context"})
Reopened == Scenario({<<a, e, "SEND">>, <<p, e, "SEND">>}, 3, {}, "SEND", {"context", "endpoint", "newendpoint"})

\* Calls of both types while handlers come and go; the client becomes concurrent.
Handlers == Scenario({<<a, p, "REQUEST">>, <<a, p, "SEND">>}, 3, {}, "SEND", {"handlers", "newclient"})

\* A client is closed and made again.
Renewed == Scenario({<<a, p, "REQUEST">>}, 3, {p}, "REQUEST", {"again"})

Scenarios == {Nested, Ordered, Closings, Reopened, Handlers}

Has(what) == what \in scenario.admin /\ admins < MaxAdmin
Fired == admins' = admins + 1

MCAdminister ==
  /\ Fired
  /\ \/ Has("client") /\ \E x \in {a2, p1} : CloseClient(x)
     \/ Has("context") /\ \E c \in Contexts : CloseContext(p1, c)
     \/ Has("endpoint") /\ CloseEndPoint(e)
     \/ Has("newendpoint") /\ NewEndPoint(e)
     \/ Has("handlers") /\ \E t \in Types : RegisterHandler(p, o, t)
     \/ Has("handlers") /\ (DeregisterHandler(p, o) \/ SetConcurrency(p, TRUE))
     \/ Has("newclient") /\ (CloseClient(p1) \/ NewClient(p1))
     \/ Has("again") /\ (CloseClient(a2) \/ NewClient(a2))

InitOf(S) ==
  /\ Init /\ scenario \in S /\ admins = 0
  /\ concurrency = scenario.conc /\ \A u \in Clients : handlers[u] = Ops \X {scenario.type}

MCInit == InitOf(Scenarios)
RenewedInit == InitOf({Renewed})

\* With registrations and closings a2 does only these.
Callers == IF scenario.admin = {} THEN Goroutines ELSE Goroutines \ {a2}

MCNext ==
  /\ UNCHANGED scenario
  /\ \/ /\ Used < scenario.most /\ \E g \in Callers, x \in scenario.calls : Call(g, x[1], x[2], o, x[3])
        /\ UNCHANGED admins
     \/ MCAdminister
     \/ Progress /\ UNCHANGED admins

mcvars == <<vars, scenario, admins>>
Spec_ == MCInit /\ [][MCNext]_mcvars /\ Fairness
RenewedSpec == RenewedInit /\ [][MCNext]_mcvars
=============================================================================
