------------------------------ MODULE MCBroker ------------------------------
(***************************************************************************)
(* Scenarios for Broker: consumers, what they subscribe to, publications.  *)
(***************************************************************************)
EXTENDS Broker, TLC

CONSTANTS c1, c2, s1, s2, q, g, h, l, p1, p2, p3, rAll, rA, a, b, Null, Wildcard

M == INSTANCE EntityMatching

\* Two consumers and one or two subscriptions; in Clash both keys are c1/s1/s2.
OneConsumer  == {<<c1>>}
TwoConsumers == {<<c1>>, <<c2>>}
OneId        == {<<s1>>}
ClashConsumers == {<<c1>>, <<c1, s1>>}
ClashIds       == {<<s2>>, <<s1, s2>>}

\* p1 and p2 come from q, p3 from the application; each updates a, and then b.
Sources      == [p \in Pub |-> IF p = p3 THEN Here ELSE q]
HeaderKeys   == [p \in Pub |-> IF p = p2 THEN <<a>> ELSE <<a, b>>]
HeaderCounts == [p \in Pub |-> Len(HeaderKeys[p])]
OneTooMany   == [p \in Pub |-> HeaderCounts[p] + (IF p = p2 THEN 1 ELSE 0)]
SameHeaders  == [p \in Pub |-> 2]

\* The goroutines of the handlers are alike.
SameHandlers == Permutations(Handler)

\* rAll asks for every key, rA for a.
Keyed(r) == [subDomain |-> Null, all |-> [f \in M!Fields |-> FALSE],
             keys |-> << <<IF r = rAll THEN Wildcard ELSE a>> >>]
Home     == [f \in M!Fields |-> 1]
Sub(r)   == [domain |-> <<a>>, session |-> 1, fields |-> Home, entities |-> <<Keyed(r)>>]
Msg      == [domain |-> <<a>>, session |-> 1, fields |-> Home]
Asked(keys, r) == {i \in DOMAIN keys : M!Matches(Sub(r), Msg, <<keys[i]>>) = "yes"}
Selected == [r \in Request |-> [p \in Pub |-> Asked(HeaderKeys[p], r)]]
SelectedSame == [r \in Request |-> [p \in Pub |-> Asked(<<a, b>>, r)]]
=============================================================================
