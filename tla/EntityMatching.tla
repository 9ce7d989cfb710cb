--------------------------- MODULE EntityMatching ---------------------------
(***************************************************************************)
(* Which updates a subscription asks for: EntityKey.Match of               *)
(* src/mal/entitykey.go, domainMatches and matches of                      *)
(* src/mal/broker/handler.go.  Their outcome is "yes", "no" or "panic",    *)
(* where the code follows a nil pointer or indexes outside of a slice.     *)
(***************************************************************************)
EXTENDS Integers, Sequences, FiniteSetsExt, SequencesExt

CONSTANTS
  Null,       \* a sub-key, subdomain, name, request or key that is nil
  Wildcard    \* "*" for an identifier, 0 for a number

ASSUME NullAssumption == Null # Wildcard

\* The first outcome that decides, of tests made in order; otherwise, if none does.
Decide(outcomes, otherwise) ==
  LET deciding == {i \in DOMAIN outcomes : outcomes[i] # otherwise}
  IN  IF deciding = {} THEN otherwise ELSE outcomes[Min(deciding)]

Outcome(b) == IF b THEN "yes" ELSE "no"

WildNotNull(r, k) ==   \* mutant: a wildcard does not match NULL
  CASE r = Null     -> Outcome(k = Null)
    [] r = Wildcard -> Outcome(k # Null)
    [] OTHER        -> IF k = Null THEN "panic" ELSE Outcome(r = k)
\* One sub-key: the value of the update is read without a test.
MatchSubKey(r, k) ==
  CASE r = Null     -> Outcome(k = Null)
    [] r = Wildcard -> "yes"
    [] OTHER        -> IF k = Null THEN "panic" ELSE Outcome(r = k)

\* EntityKey.Match, of a key in the list of a request.
Match(rkey, key) ==
  IF rkey = Null THEN "panic"
  ELSE Decide([i \in DOMAIN rkey |-> MatchSubKey(rkey[i], key[i])], "yes")

\* The names of two domains are compared in order and through their pointers, once
\* there are enough; more of them than required must be asked for.
NameMatches(r, d) == IF Null \in {r, d} THEN "panic" ELSE Outcome(r = d)

NamesMatch(required, all, domain) ==
  LET names == Decide([i \in DOMAIN required |-> NameMatches(required[i], domain[i])], "yes")
  IN  IF Len(domain) < Len(required) THEN "no"
      ELSE IF names # "yes" THEN names
      ELSE Outcome(all \/ Len(domain) = Len(required))

\* domainMatches: the domain of the subscription and the subdomain of the request,
\* whose last name may be a wildcard, against the domain of the update message.
DomainMatches(subDomain, subdomain, domain) ==
  LET whole == IF subdomain = Null THEN subDomain ELSE subDomain \o subdomain
      all   == subdomain # Null /\ Last(whole) = Wildcard
  IN  IF subdomain # Null /\ (whole = <<>> \/ Last(whole) = Null) THEN "panic"
      ELSE NamesMatch(IF all THEN Front(whole) ELSE whole, all, domain)

\* The area, service and operation of a message.
Fields == {"area", "service", "operation"}

\* One EntityRequest.
RequestMatches(sub, request, msg, key) ==
  LET d == DomainMatches(sub.domain, request.subDomain, msg.domain) IN
  IF request = Null THEN "panic"
  ELSE IF d # "yes" THEN d
  ELSE IF \E f \in Fields : ~request.all[f] /\ msg.fields[f] # sub.fields[f] THEN "no"
  ELSE Decide([i \in DOMAIN request.keys |-> Match(request.keys[i], key)], "no")

\* matches.
Matches(sub, msg, key) ==
  IF msg.session # sub.session THEN "no"
  ELSE Decide([i \in DOMAIN sub.entities |-> RequestMatches(sub, sub.entities[i], msg, key)], "no")

-----------------------------------------------------------------------------
(* What the rules e) to l) of the MAL specification, which the comments     *)
(* quote, ask for.                                                         *)

\* The keys an EntityKey stands for, and the domains of a request.
Stands(rkey, key) == \A i \in DOMAIN rkey : rkey[i] \in {Wildcard, key[i]}

Covers(domain, subdomain, d) ==
  CASE subdomain = Null -> d = domain
    [] subdomain # Null /\ subdomain # <<>> /\ Last(subdomain) = Wildcard ->
         \E n \in 0 .. Len(d) : SubSeq(d, 1, n) = domain \o Front(subdomain)
    [] OTHER -> d = domain \o subdomain

\* What a request asks for; a subscription asks for what one of its requests does.
\* A NULL request or key asks for nothing.
Answers(r, sub, msg, key) ==
  /\ r # Null
  /\ Covers(sub.domain, r.subDomain, msg.domain)
  /\ \A f \in Fields : r.all[f] \/ msg.fields[f] = sub.fields[f]
  /\ \E rkey \in ToSet(r.keys) : rkey # Null /\ Stands(rkey, key)

Asked(sub, msg, key) ==
  /\ msg.session = sub.session
  /\ \E r \in ToSet(sub.entities) : Answers(r, sub, msg, key)
=============================================================================
