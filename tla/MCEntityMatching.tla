-------------------------- MODULE MCEntityMatching --------------------------
(***************************************************************************)
(* EntityMatching over bounded subscriptions and updates: a behaviour picks *)
(* a subscription, a message and one of its keys.                          *)
(***************************************************************************)
EXTENDS EntityMatching

CONSTANTS a, b, None

ASSUME NameAssumption == Wildcard \notin {a, b}

VARIABLE input

Domains == {<<>>, <<a>>, <<b>>, <<a, a>>, <<a, b>>, <<a, b, a>>, <<Null>>, <<a, Null>>}
SubDomains == {Null, <<>>, <<a>>, <<Wildcard>>, <<a, Wildcard>>, <<Null>>, <<Null, Wildcard>>}
SubKeys == {a, Null, Wildcard}
EntityKeys == SubKeys \X SubKeys
SomeKeys == {<< <<Wildcard, a>> >>, << <<a, Null>>, <<b, Wildcard>> >>, << <<Null, Null>> >>,
             << <<a, Null>>, Null >>, <<>>}

AllOf(S) == [f \in Fields |-> f \in S]
OneRequest == [subDomain : SubDomains, all : {AllOf(S) : S \in SUBSET Fields},
               keys : {<<k>> : k \in EntityKeys}]
FewRequests ==
  [subDomain : {Null, <<a, Wildcard>>}, all : {AllOf({}), AllOf({"area"})}, keys : SomeKeys]
  \cup {Null}

Origin == [Fields -> {1, 2}]
Home == [f \in Fields |-> 1]

\* Every single request against every message, and pairs of some requests.
Inputs ==
  [sub : [domain : {<<>>, <<a>>, <<Null>>}, session : {1}, fields : {Home}, entities : {<<r>> : r \in OneRequest}],
   msg : [domain : Domains, session : {1, 2}, fields : {Home, [Home EXCEPT !["area"] = 2],
                                                        [Home EXCEPT !["service"] = 2]}],
   key : {<<a, a>>, <<a, Null>>, <<b, Null>>}]
  \cup
  [sub : [domain : {<<a>>}, session : {1}, fields : {Home}, entities : FewRequests \X FewRequests],
   msg : [domain : Domains, session : {1}, fields : {Home, [Home EXCEPT !["area"] = 2]}],
   key : {<<a, a>>, <<a, Null>>, <<b, a>>, <<Null, Null>>}]

Init == input = None
Pick == input = None /\ input' \in Inputs
Spec == Init /\ [][Pick]_input

Found == Matches(input.sub, input.msg, input.key)

\* matches, with its early exits and its two loops, finds what the rules it quotes
\* ask for, whenever it returns.
MatchesExact ==
  input # None /\ Found # "panic" => (Found = "yes" <=> Asked(input.sub, input.msg, input.key))

\* "If a sub-key contains a specific value it shall only match a sub-key that
\* contains the same value": a NULL one is compared, not followed.
NullCompared ==
  input # None =>
    \A r \in ToSet(input.sub.entities) \ {Null} : \A rkey \in ToSet(r.keys) \ {Null} :
      Match(rkey, input.key) # "panic"

\* A subDomain "shall be appended to the domain of the subscription message to make
\* the complete domain": every domain and subdomain make one that is compared.
DomainsCompared ==
  input # None =>
    \A r \in ToSet(input.sub.entities) \ {Null} :
      DomainMatches(input.sub.domain, r.subDomain, input.msg.domain) # "panic"
=============================================================================
