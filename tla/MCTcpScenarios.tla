--------------------------- MODULE MCTcpScenarios ---------------------------
(***************************************************************************)
(* TcpTransport under several scenarios in one run.  A scenario says which *)
(* messages there are, how many may wait in the queue, how many failures,  *)
(* accepted connections and incoming messages there may be, and whether    *)
(* the transport may be closed.                                            *)
(***************************************************************************)
EXTENDS TcpTransport, TLC

CONSTANTS m1, m2, m3, m4, bad, u, v, w, Scenarios

\* Three messages to u, one of which cannot be encoded, one to v, and one to w,
\* which is another name of u.
To == [m \in Msg |-> IF m = m3 THEN v ELSE IF m = m4 THEN w ELSE u]

Names == [x \in Uri |-> IF x = w THEN u ELSE x]

Scenario(msgs, queue, fails, accepts, comes, closes) ==
  [msgs |-> msgs, queue |-> queue, fails |-> fails, accepts |-> accepts,
   comes |-> comes, closes |-> closes]

\* Two messages to one destination and one to its other name, and no failure.
TwoNames == {Scenario({m1, m2, m4}, 1, 0, 0, 0, FALSE)}

\* Two messages to one destination, a failure, and Close, which may never be called.
Closed == {Scenario({m1, m2}, 2, 1, 0, 0, TRUE)}

\* One destination and two failures; two destinations and one failure; two names
\* of one destination, a bad message and Close; three messages and no failure;
\* and two names without failure.
SafetyScenarios ==
  {Scenario({m1, m2}, 1, 2, 1, 0, FALSE), Scenario({m1, m3}, 1, 1, 1, 1, FALSE),
   Scenario({bad, m4}, 1, 1, 0, 0, TRUE), Scenario({m1, m2, m3}, 2, 0, 1, 0, FALSE)} \cup TwoNames

\* A bad message before a good one; a failure under incoming messages.
LiveScenarios ==
  {Scenario({bad, m1}, 1, 0, 0, 0, FALSE), Scenario({m1}, 1, 1, 1, 2, FALSE)}

VARIABLE scenario

Within ==
  /\ Contents(sent) \subseteq scenario.msgs
  /\ Len(ch) <= scenario.queue
  /\ faults <= scenario.fails
  /\ Cardinality({c \in 1 .. nconn : address[c] = Accepted(c)}) <= scenario.accepts
  /\ arrived <= scenario.comes
  /\ closing = "no" \/ scenario.closes

ScenariosInit == Init /\ scenario \in Scenarios
ScenariosNext == UNCHANGED scenario /\ Next /\ Within'
ScenariosSpec == ScenariosInit /\ [][ScenariosNext]_<<vars, scenario>>

\* The fair actions never leave a scenario that does not close the transport.
FairScenarios == ScenariosSpec /\ Fairness
=============================================================================
