------------------------ MODULE EntityMatching_proofs ------------------------
(***************************************************************************)
(* matches finds what the rules ask for, for every subscription and every  *)
(* update: the early exits of its two loops, and of EntityKey.Match, lose   *)
(* no key and no request.                                                  *)
(***************************************************************************)
EXTENDS MCEntityMatching, WellFoundedInduction, TLAPS

\* What is decoded from a message: any name, request or key may be NULL.  The names of
\* a subdomain, but not those of a domain, may be wildcards.
Nullable(S) == S \cup {Null}

Wellformed(r, Name, S) ==
  r # Null =>
    /\ r.subDomain # Null => r.subDomain \in Seq(Nullable(Name) \cup {Wildcard})
    /\ r.keys \in Seq(Nullable(Seq(S)))

\* A set of numbers that is not empty has a least one, which is its Min.
LEMMA LeastNumber ==
  ASSUME NEW T \in SUBSET Nat, T # {}
  PROVE  Min(T) \in T /\ \A n \in T : Min(T) <= n
<1>1. PICK m \in T : \A n \in T : ~(<<n, m>> \in OpToRel(<, Nat))
  BY NatLessThanWellFounded, WFMin
<1>2. ASSUME NEW n \in T PROVE m <= n
  <2>1. m \in Nat /\ n \in Nat
    OBVIOUS
  <2>2. <<n, m>> \in OpToRel(<, Nat) <=> n < m
    BY <2>1 DEF OpToRel
  <2>3. ~(<<n, m>> \in OpToRel(<, Nat))
    BY <1>1
  <2>4. ~(n < m)
    BY <2>2, <2>3
  <2>5. QED
    BY <2>1, <2>4
<1>3. QED
  BY <1>2 DEF Min

\* A loop that stops at the first test that decides.
LEMMA Decided ==
  ASSUME NEW outcomes, NEW otherwise, DOMAIN outcomes \subseteq Nat
  PROVE  \/ /\ Decide(outcomes, otherwise) = otherwise
            /\ \A i \in DOMAIN outcomes : outcomes[i] = otherwise
         \/ /\ Decide(outcomes, otherwise) # otherwise
            /\ \E i \in DOMAIN outcomes : outcomes[i] = Decide(outcomes, otherwise)
<1> DEFINE deciding == {i \in DOMAIN outcomes : outcomes[i] # otherwise}
<1>1. CASE deciding = {}
  BY <1>1 DEF Decide
<1>2. CASE deciding # {}
  <2>1. Min(deciding) \in deciding
    BY <1>2, LeastNumber
  <2>2. Decide(outcomes, otherwise) = outcomes[Min(deciding)]
    BY <1>2 DEF Decide
  <2>3. QED
    BY <2>1, <2>2
<1>3. QED
  BY <1>1, <1>2

\* EntityKey.Match of a key with as many sub-keys.
LEMMA MatchRight ==
  ASSUME NEW S, NEW rkey \in Nullable(Seq(S)), NEW key, Match(rkey, key) # "panic"
  PROVE  rkey # Null /\ (Match(rkey, key) = "yes" <=> Stands(rkey, key))
<1>0. rkey # Null /\ rkey \in Seq(S)
  BY DEF Match, Nullable
<1> DEFINE outcomes == [i \in DOMAIN rkey |-> MatchSubKey(rkey[i], key[i])]
<1>1. DOMAIN outcomes = DOMAIN rkey /\ DOMAIN rkey \subseteq Nat /\ Match(rkey, key) = Decide(outcomes, "yes")
  BY <1>0 DEF Match
<1>2. \A i \in DOMAIN rkey : outcomes[i] # "panic" =>
        (outcomes[i] = "yes" <=> rkey[i] \in {Wildcard, key[i]})
  BY NullAssumption DEF MatchSubKey, Outcome
<1>3. \A i \in DOMAIN rkey : outcomes[i] \in {"yes", "no", "panic"}
  BY DEF MatchSubKey, Outcome
<1> HIDE DEF outcomes
<1>4. CASE \A i \in DOMAIN outcomes : outcomes[i] = "yes"
  <2>1. Match(rkey, key) = "yes"
    BY <1>1, <1>4, Decided
  <2>2. QED
    BY <1>0, <1>1, <1>2, <1>4, <2>1 DEF Stands
<1>5. CASE \E i \in DOMAIN outcomes : outcomes[i] = Match(rkey, key) /\ Match(rkey, key) # "yes"
  BY <1>0, <1>1, <1>2, <1>5 DEF Stands
<1>6. QED
  BY <1>1, <1>4, <1>5, Decided

LEMMA MatchOutcome ==
  ASSUME NEW S, NEW rkey \in Nullable(Seq(S)), NEW key
  PROVE  Match(rkey, key) \in {"yes", "no", "panic"}
<1> SUFFICES ASSUME rkey # Null, rkey \in Seq(S)
             PROVE  Match(rkey, key) \in {"yes", "no", "panic"}
  BY DEF Match, Nullable
<1> DEFINE outcomes == [i \in DOMAIN rkey |-> MatchSubKey(rkey[i], key[i])]
<1>1. DOMAIN outcomes \subseteq Nat /\ Match(rkey, key) = Decide(outcomes, "yes")
  BY DEF Match
<1>2. \A i \in DOMAIN outcomes : outcomes[i] \in {"yes", "no", "panic"}
  BY DEF MatchSubKey, Outcome
<1> HIDE DEF outcomes
<1>3. QED
  BY <1>1, <1>2, Decided

\* The names of two domains are compared one by one.
LEMMA NamesRight ==
  ASSUME NEW Names, NEW s \in Seq(Names), NEW d \in Seq(Names), NEW all \in BOOLEAN
  PROVE  /\ NamesMatch(s, all, d) \in {"yes", "no", "panic"}
         /\ NamesMatch(s, all, d) # "panic" =>
              NamesMatch(s, all, d) = Outcome(IsPrefix(s, d) /\ (all \/ Len(d) = Len(s)))
<1> DEFINE outcomes == [i \in DOMAIN s |-> NameMatches(s[i], d[i])]
           names == Decide(outcomes, "yes")
<1>1. NamesMatch(s, all, d) = IF Len(d) < Len(s) THEN "no"
                              ELSE IF names # "yes" THEN names
                              ELSE Outcome(all \/ Len(d) = Len(s))
  BY DEF NamesMatch
<1>2. DOMAIN outcomes = 1 .. Len(s) /\ DOMAIN outcomes \subseteq Nat
  OBVIOUS
<1>3. \A i \in 1 .. Len(s) : outcomes[i] = NameMatches(s[i], d[i])
  OBVIOUS
<1>4. IsPrefix(s, d) <=> Len(s) <= Len(d) /\ \A i \in 1 .. Len(s) : s[i] = d[i]
  <2>1. ASSUME IsPrefix(s, d) PROVE Len(s) <= Len(d) /\ \A i \in 1 .. Len(s) : s[i] = d[i]
    <3>1. Len(s) <= Len(d) /\ s = SubSeq(d, 1, Len(s))
      BY <2>1 DEF IsPrefix
    <3>2. QED
      BY <3>1
  <2>2. ASSUME Len(s) <= Len(d), \A i \in 1 .. Len(s) : s[i] = d[i] PROVE IsPrefix(s, d)
    <3>1. /\ SubSeq(d, 1, Len(s)) \in Seq(Names) /\ Len(SubSeq(d, 1, Len(s))) = Len(s)
          /\ \A i \in 1 .. Len(s) : SubSeq(d, 1, Len(s))[i] = s[i]
      BY <2>2
    <3>2. SubSeq(d, 1, Len(s)) = s
      BY <3>1
    <3>3. QED
      BY <2>2, <3>2 DEF IsPrefix
  <2>3. QED
    BY <2>1, <2>2
<1>5. Len(s) \in Nat /\ Len(d) \in Nat
  OBVIOUS
<1> HIDE DEF outcomes, names
<1>6. CASE Len(d) < Len(s)
  BY <1>1, <1>4, <1>5, <1>6 DEF Outcome
<1>7. CASE ~(Len(d) < Len(s)) /\ names = "yes" /\ \A i \in DOMAIN outcomes : outcomes[i] = "yes"
  <2>1. \A i \in 1 .. Len(s) : s[i] = d[i]
    BY <1>2, <1>3, <1>7 DEF NameMatches, Outcome
  <2>2. QED
    BY <1>1, <1>4, <1>5, <1>7, <2>1 DEF Outcome
<1>8. CASE ~(Len(d) < Len(s)) /\ names # "yes" /\ \E i \in DOMAIN outcomes : outcomes[i] = names
  <2>1. PICK i \in 1 .. Len(s) : NameMatches(s[i], d[i]) = names
    BY <1>2, <1>3, <1>8
  <2>2. names \in {"no", "panic"} /\ (names = "no" => s[i] # d[i])
    BY <1>8, <2>1 DEF NameMatches, Outcome
  <2>3. NamesMatch(s, all, d) = names
    BY <1>1, <1>8
  <2>4. QED
    BY <1>4, <2>2, <2>3 DEF Outcome
<1>9. QED
  BY <1>2, <1>6, <1>7, <1>8, Decided DEF names

\* domainMatches, for a domain of names and a subdomain that may also hold wildcards.
LEMMA DomainRight ==
  ASSUME NEW Name, Wildcard \notin Name, NEW domain \in Seq(Name), NEW d \in Seq(Name),
         NEW subdomain, subdomain # Null => subdomain \in Seq(Name \cup {Wildcard}),
         DomainMatches(domain, subdomain, d) # "panic"
  PROVE  /\ DomainMatches(domain, subdomain, d) \in {"yes", "no"}
         /\ DomainMatches(domain, subdomain, d) = "yes" <=> Covers(domain, subdomain, d)
<1> DEFINE Names == Name \cup {Wildcard}
           whole == IF subdomain = Null THEN domain ELSE domain \o subdomain
           all == subdomain # Null /\ Last(whole) = Wildcard
           required == IF all THEN Front(whole) ELSE whole
<1>2. domain \in Seq(Names) /\ d \in Seq(Names) /\ whole \in Seq(Names)
  OBVIOUS
<1>0. /\ ~(subdomain # Null /\ (whole = <<>> \/ Last(whole) = Null))
      /\ DomainMatches(domain, subdomain, d) = NamesMatch(required, all, d)
  BY DEF DomainMatches
<1>1. DomainMatches(domain, subdomain, d) = Outcome(IsPrefix(required, d) /\ (all \/ Len(d) = Len(required)))
  <2>1. required \in Seq(Names) /\ all \in BOOLEAN
    <3>1. all => whole # <<>>
      BY <1>0
    <3> HIDE DEF whole
    <3>2. QED
      BY <1>2, <3>1 DEF Front
  <2> HIDE DEF required, all
  <2>2. QED
    BY <1>0, <1>2, <2>1, NamesRight
<1>3. \A s, t \in Seq(Names) : IsPrefix(s, t) /\ Len(t) = Len(s) <=> t = s
  <2>1. ASSUME NEW s \in Seq(Names), NEW t \in Seq(Names), IsPrefix(s, t), Len(t) = Len(s) PROVE t = s
    <3>1. SubSeq(s, 1, Len(s)) = s /\ SubSeq(t, 1, Len(t)) = t
      OBVIOUS
    <3>2. QED
      BY <2>1, <3>1 DEF IsPrefix
  <2>2. QED
    BY <2>1 DEF IsPrefix
<1>4. CASE subdomain = Null
  BY <1>1, <1>2, <1>3, <1>4 DEF Covers, Outcome
<1>5. CASE subdomain # Null
  <2>1. subdomain \in Seq(Names) /\ whole = domain \o subdomain /\ whole # <<>>
    BY <1>0, <1>5
  <2>2. subdomain # <<>> => /\ Last(whole) = Last(subdomain)
                            /\ Front(whole) = domain \o Front(subdomain)
                            /\ Front(whole) \in Seq(Names)
    BY <1>2, <2>1 DEF Last, Front
  <2>3. subdomain = <<>> => whole = domain /\ Last(whole) # Wildcard
    BY <1>2, <2>1 DEF Last
  <2> HIDE DEF whole
  <2>4. CASE subdomain # <<>> /\ Last(subdomain) = Wildcard
    <3>1. all /\ required = Front(whole)
      BY <1>5, <2>2, <2>4
    <3>2. DomainMatches(domain, subdomain, d) = Outcome(IsPrefix(Front(whole), d))
      <4> HIDE DEF all, required
      <4>1. QED
        BY <1>1, <1>5, <2>1, <3>1 DEF Outcome
    <3>3. ASSUME NEW s \in Seq(Names)
          PROVE  IsPrefix(s, d) <=> \E n \in 0 .. Len(d) : SubSeq(d, 1, n) = s
      BY <1>2 DEF IsPrefix
    <3>4. QED
      BY <1>5, <2>2, <2>4, <3>2, <3>3 DEF Covers, Outcome
  <2>5. CASE subdomain = <<>> \/ Last(subdomain) # Wildcard
    <3>1. ~all /\ required = whole
      BY <2>2, <2>3, <2>5
    <3>2. DomainMatches(domain, subdomain, d) = Outcome(d = whole)
      BY <1>1, <1>2, <1>3, <2>1, <3>1
    <3>3. QED
      BY <1>5, <2>1, <2>5, <3>2 DEF Covers, Outcome
  <2>6. QED
    BY <2>4, <2>5
<1>6. QED
  BY <1>4, <1>5

\* One EntityRequest: the domain, then the fields, then the keys.
LEMMA RequestRight ==
  ASSUME NEW Name, Wildcard \notin Name, NEW sub, NEW request, NEW msg, NEW key, NEW S,
         sub.domain \in Seq(Nullable(Name)), msg.domain \in Seq(Nullable(Name)),
         Wellformed(request, Name, S),
         RequestMatches(sub, request, msg, key) # "panic"
  PROVE  RequestMatches(sub, request, msg, key) = "yes" <=> Answers(request, sub, msg, key)
<1> DEFINE d == DomainMatches(sub.domain, request.subDomain, msg.domain)
           differs == \E f \in Fields : ~request.all[f] /\ msg.fields[f] # sub.fields[f]
           outcomes == [i \in DOMAIN request.keys |-> Match(request.keys[i], key)]
<1>0. request # Null
  BY DEF RequestMatches
<1>1. /\ d # "yes" => RequestMatches(sub, request, msg, key) = d
      /\ d = "yes" /\ differs => RequestMatches(sub, request, msg, key) = "no"
      /\ d = "yes" /\ ~differs => RequestMatches(sub, request, msg, key) = Decide(outcomes, "no")
  BY <1>0 DEF RequestMatches
<1>2. /\ d \in {"yes", "no"}
      /\ d = "yes" <=> Covers(sub.domain, request.subDomain, msg.domain)
  <2>1. d # "panic"
    BY <1>1
  <2>2. Wildcard \notin Nullable(Name)
    BY NullAssumption DEF Nullable
  <2>3. request.subDomain # Null => request.subDomain \in Seq(Nullable(Name) \cup {Wildcard})
    BY <1>0 DEF Wellformed
  <2> HIDE DEF Nullable
  <2>4. QED
    BY <2>1, <2>2, <2>3, DomainRight
<1>3. differs <=> ~\A f \in Fields : request.all[f] \/ msg.fields[f] = sub.fields[f]
  OBVIOUS
<1>4. \A i \in DOMAIN request.keys :
        /\ outcomes[i] = Match(request.keys[i], key)
        /\ outcomes[i] # "panic" => /\ request.keys[i] # Null
                                   /\ outcomes[i] = "yes" <=> Stands(request.keys[i], key)
  BY <1>0, MatchRight DEF Wellformed
<1>5. \A i \in DOMAIN request.keys : outcomes[i] \in {"yes", "no", "panic"}
  BY <1>0, <1>4, MatchOutcome DEF Wellformed
<1>6. DOMAIN outcomes = DOMAIN request.keys /\ DOMAIN outcomes \subseteq Nat
  BY <1>0 DEF Wellformed
<1>7. (\E rkey \in ToSet(request.keys) : rkey # Null /\ Stands(rkey, key))
        <=> \E i \in DOMAIN request.keys : request.keys[i] # Null /\ Stands(request.keys[i], key)
  BY DEF ToSet
<1>12. \A i \in DOMAIN request.keys : outcomes[i] = "yes" => request.keys[i] # Null /\ Stands(request.keys[i], key)
  <2>1. ASSUME NEW i \in DOMAIN request.keys, outcomes[i] = "yes"
        PROVE  request.keys[i] # Null /\ Stands(request.keys[i], key)
    <3>1. request.keys[i] \in Nullable(Seq(S))
      BY <1>0 DEF Wellformed
    <3>2. Match(request.keys[i], key) = "yes"
      BY <2>1
    <3>3. QED
      BY <3>1, <3>2, MatchRight
  <2>2. QED
    BY <2>1
<1> HIDE DEF d, differs, outcomes
<1>8. CASE d = "no" \/ differs
  BY <1>1, <1>2, <1>3, <1>8 DEF Answers
<1>9. CASE d = "yes" /\ ~differs
  <2>1. RequestMatches(sub, request, msg, key) = Decide(outcomes, "no")
    BY <1>1, <1>9
  <2>2. CASE \A i \in DOMAIN outcomes : outcomes[i] = "no"
    <3>1. Decide(outcomes, "no") = "no"
      BY <1>6, <2>2, Decided
    <3>2. ~\E i \in DOMAIN request.keys : Stands(request.keys[i], key)
      BY <1>4, <1>6, <2>2
    <3>3. QED
      BY <1>7, <2>1, <3>1, <3>2 DEF Answers
  <2>3. CASE \E i \in DOMAIN outcomes : outcomes[i] = Decide(outcomes, "no") /\ Decide(outcomes, "no") # "no"
    <3>1. PICK i \in DOMAIN outcomes : outcomes[i] = Decide(outcomes, "no") /\ Decide(outcomes, "no") # "no"
      BY <2>3
    <3>2. outcomes[i] = "yes"
      <4>1. i \in DOMAIN request.keys /\ outcomes[i] # "no"
        BY <1>6, <3>1
      <4>2. outcomes[i] # "panic"
        BY <2>1, <3>1
      <4>3. outcomes[i] \in {"yes", "no", "panic"}
        BY <1>5, <4>1
      <4>4. QED
        BY <4>1, <4>2, <4>3
    <3>3. request.keys[i] # Null /\ Stands(request.keys[i], key)
      <4>1. i \in DOMAIN request.keys
        BY <1>6, <3>1
      <4>2. QED
        BY <1>12, <3>2, <4>1
    <3>4. \E rkey \in ToSet(request.keys) : rkey # Null /\ Stands(rkey, key)
      BY <1>6, <1>7, <3>1, <3>3
    <3>5. RequestMatches(sub, request, msg, key) = "yes"
      BY <2>1, <3>1, <3>2
    <3>6. QED
      BY <1>0, <1>2, <1>3, <1>9, <3>4, <3>5 DEF Answers
  <2>4. QED
    BY <1>6, <2>2, <2>3, Decided
<1>10. QED
  BY <1>2, <1>8, <1>9

\* The outcomes of a request are those of the tests it makes.
LEMMA RequestOutcome ==
  ASSUME NEW Name, Wildcard \notin Name, NEW sub, NEW request, NEW msg, NEW key, NEW S,
         sub.domain \in Seq(Nullable(Name)), msg.domain \in Seq(Nullable(Name)),
         Wellformed(request, Name, S)
  PROVE  RequestMatches(sub, request, msg, key) \in {"yes", "no", "panic"}
<1> SUFFICES ASSUME request # Null
             PROVE  RequestMatches(sub, request, msg, key) \in {"yes", "no", "panic"}
  BY DEF RequestMatches
<1> DEFINE d == DomainMatches(sub.domain, request.subDomain, msg.domain)
           outcomes == [i \in DOMAIN request.keys |-> Match(request.keys[i], key)]
<1>1. RequestMatches(sub, request, msg, key) \in {d, "no", Decide(outcomes, "no")}
  BY DEF RequestMatches
<1>2. d \in {"yes", "no", "panic"}
  <2>1. Wildcard \notin Nullable(Name)
    BY NullAssumption DEF Nullable
  <2>2. request.subDomain # Null => request.subDomain \in Seq(Nullable(Name) \cup {Wildcard})
    BY DEF Wellformed
  <2>3. QED
    BY <2>1, <2>2, DomainRight
<1>3. DOMAIN outcomes \subseteq Nat /\ \A i \in DOMAIN outcomes : outcomes[i] \in {"yes", "no", "panic"}
  BY MatchOutcome DEF Wellformed
<1> HIDE DEF d, outcomes
<1>4. Decide(outcomes, "no") \in {"yes", "no", "panic"}
  BY <1>3, Decided
<1>5. QED
  BY <1>1, <1>2, <1>4

\* matches, as broker/handler.go runs it when a provider publishes, finds what the
\* rules it quotes ask for whenever it returns: a loop that stops at the first request,
\* or the first key, that decides misses nothing, whatever the subscription, and
\* whichever of its names, requests and keys are NULL.
THEOREM MatchesRules ==
  ASSUME NEW Name, Wildcard \notin Name, NEW S, NEW sub, NEW msg, NEW key,
         sub.domain \in Seq(Nullable(Name)), msg.domain \in Seq(Nullable(Name)),
         DOMAIN sub.entities \subseteq Nat,
         \A i \in DOMAIN sub.entities : Wellformed(sub.entities[i], Name, S),
         Matches(sub, msg, key) # "panic"
  PROVE  Matches(sub, msg, key) = "yes" <=> Asked(sub, msg, key)
<1> DEFINE outcomes == [i \in DOMAIN sub.entities |-> RequestMatches(sub, sub.entities[i], msg, key)]
<1>1. /\ msg.session # sub.session => Matches(sub, msg, key) = "no"
      /\ msg.session = sub.session => Matches(sub, msg, key) = Decide(outcomes, "no")
  BY DEF Matches
<1>2. \A i \in DOMAIN sub.entities :
        outcomes[i] # "panic" => (outcomes[i] = "yes" <=> Answers(sub.entities[i], sub, msg, key))
  BY RequestRight
<1>3. \A i \in DOMAIN sub.entities : outcomes[i] \in {"yes", "no", "panic"}
  BY RequestOutcome
<1>4. DOMAIN outcomes = DOMAIN sub.entities /\ DOMAIN outcomes \subseteq Nat
  OBVIOUS
<1>5. Asked(sub, msg, key) <=>
        msg.session = sub.session /\ \E i \in DOMAIN sub.entities : Answers(sub.entities[i], sub, msg, key)
  <2>1. (\E r \in ToSet(sub.entities) : Answers(r, sub, msg, key))
          <=> \E i \in DOMAIN sub.entities : Answers(sub.entities[i], sub, msg, key)
    BY DEF ToSet
  <2>2. QED
    BY <2>1 DEF Asked
<1> HIDE DEF outcomes
<1>6. CASE msg.session # sub.session
  BY <1>1, <1>5, <1>6
<1>7. CASE msg.session = sub.session /\ \A i \in DOMAIN outcomes : outcomes[i] = "no"
  <2>1. Matches(sub, msg, key) = "no"
    BY <1>1, <1>4, <1>7, Decided
  <2>2. QED
    BY <1>2, <1>4, <1>5, <1>7, <2>1
<1>8. CASE msg.session = sub.session
           /\ \E i \in DOMAIN outcomes : outcomes[i] = Decide(outcomes, "no") /\ Decide(outcomes, "no") # "no"
  <2>1. PICK i \in DOMAIN outcomes : outcomes[i] = Decide(outcomes, "no") /\ Decide(outcomes, "no") # "no"
    BY <1>8
  <2>2. outcomes[i] = "yes"
    BY <1>1, <1>3, <1>4, <1>8, <2>1
  <2>3. QED
    BY <1>1, <1>2, <1>4, <1>5, <1>8, <2>1, <2>2
<1>9. QED
  BY <1>4, <1>6, <1>7, <1>8, Decided

\* When that comparison panics, a request shows why: it is NULL; it names a subdomain,
\* but the domain that this makes is empty or ends with a NULL name (handler.go:80); one
\* of the names that are compared is NULL (handler.go:92); one of its keys is NULL; or
\* a key names a value for a sub-key that the update has NULL.
Unguarded(r, sub, msg, key) ==
  LET whole == IF r.subDomain = Null THEN sub.domain ELSE sub.domain \o r.subDomain IN
  \/ r = Null
  \/ r.subDomain # Null /\ (whole = <<>> \/ Last(whole) = Null)
  \/ \E i \in DOMAIN whole \cap DOMAIN msg.domain : Null \in {whole[i], msg.domain[i]}
  \/ Null \in ToSet(r.keys)
  \/ \E rkey \in ToSet(r.keys) \ {Null} : \E i \in DOMAIN rkey :
       rkey[i] \notin {Null, Wildcard} /\ key[i] = Null

\* When the names of two domains cannot be compared, one of them is NULL.
LEMMA NamesPanic ==
  ASSUME NEW Names, NEW s \in Seq(Names), NEW d \in Seq(Names), NEW all,
         NamesMatch(s, all, d) = "panic"
  PROVE  \E i \in DOMAIN s \cap DOMAIN d : Null \in {s[i], d[i]}
<1> DEFINE outcomes == [i \in DOMAIN s |-> NameMatches(s[i], d[i])]
<1>1. ~(Len(d) < Len(s)) /\ Decide(outcomes, "yes") = "panic"
  BY DEF NamesMatch, Outcome
<1>2. DOMAIN outcomes = DOMAIN s /\ DOMAIN outcomes \subseteq Nat
  OBVIOUS
<1>3. \A i \in DOMAIN s : outcomes[i] = NameMatches(s[i], d[i])
  OBVIOUS
<1>4. DOMAIN s \subseteq DOMAIN d
  BY <1>1
<1> HIDE DEF outcomes
<1>5. PICK i \in DOMAIN s : NameMatches(s[i], d[i]) = "panic"
  BY <1>1, <1>2, <1>3, Decided
<1>6. QED
  BY <1>4, <1>5 DEF NameMatches, Outcome

LEMMA DomainPanics ==
  ASSUME NEW Names, NEW domain \in Seq(Names), NEW d \in Seq(Names), NEW subdomain,
         subdomain # Null => subdomain \in Seq(Names),
         DomainMatches(domain, subdomain, d) = "panic"
  PROVE  LET whole == IF subdomain = Null THEN domain ELSE domain \o subdomain IN
         \/ subdomain # Null /\ (whole = <<>> \/ Last(whole) = Null)
         \/ \E i \in DOMAIN whole \cap DOMAIN d : Null \in {whole[i], d[i]}
<1> DEFINE whole == IF subdomain = Null THEN domain ELSE domain \o subdomain
           all == subdomain # Null /\ Last(whole) = Wildcard
           required == IF all THEN Front(whole) ELSE whole
<1>1. whole \in Seq(Names)
  OBVIOUS
<1>2. SUFFICES ASSUME ~(subdomain # Null /\ (whole = <<>> \/ Last(whole) = Null))
               PROVE  \E i \in DOMAIN whole \cap DOMAIN d : Null \in {whole[i], d[i]}
  OBVIOUS
<1>3. NamesMatch(required, all, d) = "panic"
  BY <1>2 DEF DomainMatches
<1>4. all => subdomain # Null /\ whole # <<>>
  BY <1>2
<1> HIDE DEF whole
<1>5. /\ required \in Seq(Names)
      /\ DOMAIN required \subseteq DOMAIN whole
      /\ \A i \in DOMAIN required : required[i] = whole[i]
  BY <1>1, <1>4 DEF Front
<1> HIDE DEF required, all
<1>6. QED
  BY <1>3, <1>5, NamesPanic

\* For everything that decodes from a message, there is no other reason.
THEOREM PanicsExplained ==
  ASSUME NEW Name, NEW S, NEW sub, NEW msg, NEW key,
         sub.domain \in Seq(Nullable(Name)), msg.domain \in Seq(Nullable(Name)),
         DOMAIN sub.entities \subseteq Nat,
         \A i \in DOMAIN sub.entities : Wellformed(sub.entities[i], Name, S),
         Matches(sub, msg, key) = "panic"
  PROVE  \E i \in DOMAIN sub.entities : Unguarded(sub.entities[i], sub, msg, key)
<1> DEFINE outcomes == [i \in DOMAIN sub.entities |-> RequestMatches(sub, sub.entities[i], msg, key)]
<1>1. \E i \in DOMAIN sub.entities : RequestMatches(sub, sub.entities[i], msg, key) = "panic"
  <2>1. Decide(outcomes, "no") = "panic" /\ DOMAIN outcomes = DOMAIN sub.entities
    BY DEF Matches
  <2>2. \A i \in DOMAIN sub.entities : outcomes[i] = RequestMatches(sub, sub.entities[i], msg, key)
    OBVIOUS
  <2> HIDE DEF outcomes
  <2>3. QED
    BY <2>1, <2>2, Decided
<1>2. PICK i \in DOMAIN sub.entities : RequestMatches(sub, sub.entities[i], msg, key) = "panic"
  BY <1>1
<1> DEFINE r == sub.entities[i]
           found == [j \in DOMAIN r.keys |-> Match(r.keys[j], key)]
<1>3. SUFFICES ASSUME r # Null PROVE Unguarded(r, sub, msg, key)
  BY <1>2 DEF Unguarded
<1>4. /\ r.subDomain # Null => r.subDomain \in Seq(Nullable(Name) \cup {Wildcard})
      /\ r.keys \in Seq(Nullable(Seq(S)))
  BY <1>2, <1>3 DEF Wellformed
<1>5. CASE DomainMatches(sub.domain, r.subDomain, msg.domain) = "panic"
  <2> DEFINE Names == Nullable(Name) \cup {Wildcard}
  <2> HIDE DEF r
  <2>1. sub.domain \in Seq(Names) /\ msg.domain \in Seq(Names)
    OBVIOUS
  <2> HIDE DEF Names
  <2>2. r.subDomain # Null => r.subDomain \in Seq(Names)
    BY <1>4 DEF Names
  <2>3. QED
    BY <1>5, <2>1, <2>2, DomainPanics DEF Unguarded
<1>6. CASE DomainMatches(sub.domain, r.subDomain, msg.domain) # "panic"
  <2>1. Decide(found, "no") = "panic" /\ DOMAIN found = DOMAIN r.keys
    BY <1>2, <1>3, <1>6 DEF RequestMatches
  <2>2. \A j \in DOMAIN r.keys : found[j] = Match(r.keys[j], key)
    OBVIOUS
  <2> HIDE DEF found, r
  <2>3. DOMAIN r.keys \subseteq Nat
    BY <1>4
  <2>4. PICK j \in DOMAIN r.keys : Match(r.keys[j], key) = "panic"
    BY <2>1, <2>2, <2>3, Decided
  <2> DEFINE rkey == r.keys[j]
             outs == [k \in DOMAIN rkey |-> MatchSubKey(rkey[k], key[k])]
  <2>5. rkey \in ToSet(r.keys)
    BY <2>4 DEF ToSet
  <2>6. CASE rkey = Null
    BY <2>5, <2>6 DEF Unguarded
  <2>7. CASE rkey # Null
    <3>1. rkey \in Seq(S)
      BY <1>4, <2>4, <2>7 DEF Nullable
    <3>2. Decide(outs, "yes") = "panic" /\ DOMAIN outs = DOMAIN rkey /\ DOMAIN rkey \subseteq Nat
      BY <2>4, <2>7, <3>1 DEF Match
    <3>3. \A k \in DOMAIN rkey : outs[k] = MatchSubKey(rkey[k], key[k])
      OBVIOUS
    <3> HIDE DEF outs, rkey
    <3>4. PICK k \in DOMAIN rkey : MatchSubKey(rkey[k], key[k]) = "panic"
      BY <3>2, <3>3, Decided
    <3>5. rkey[k] \notin {Null, Wildcard} /\ key[k] = Null
      BY <3>4 DEF MatchSubKey, Outcome
    <3>6. QED
      BY <2>5, <2>7, <3>4, <3>5 DEF Unguarded
  <2>8. QED
    BY <2>6, <2>7
<1>7. QED
  BY <1>5, <1>6

-----------------------------------------------------------------------------
(* The bounded inputs of MCEntityMatching. *)

InputKnown == input \in Inputs \cup {None}

SomeKey == {a, b, Null, Wildcard}

LEMMA ShortSequences ==
  ASSUME NEW T
  PROVE  /\ <<>> \in Seq(T)
         /\ \A x \in T : <<x>> \in Seq(T)
         /\ \A x, y \in T : <<x, y>> \in Seq(T)
         /\ \A x, y, z \in T : <<x, y, z>> \in Seq(T)
  OBVIOUS

LEMMA InputsWellformed ==
  ASSUME NEW in \in Inputs
  PROVE  /\ in.sub.domain \in Seq(Nullable({a, b})) /\ in.msg.domain \in Seq(Nullable({a, b}))
         /\ DOMAIN in.sub.entities \subseteq Nat
         /\ \A i \in DOMAIN in.sub.entities : Wellformed(in.sub.entities[i], {a, b}, SomeKey)
<1>1. /\ in.sub.domain \in {<<>>, <<a>>, <<Null>>} /\ in.msg.domain \in Domains
      /\ \/ in.sub.entities \in {<<r>> : r \in OneRequest}
         \/ in.sub.entities \in FewRequests \X FewRequests
  BY DEF Inputs
<1>2. in.sub.domain \in Seq(Nullable({a, b})) /\ in.msg.domain \in Seq(Nullable({a, b}))
  <2>1. a \in Nullable({a, b}) /\ b \in Nullable({a, b}) /\ Null \in Nullable({a, b})
    BY DEF Nullable
  <2>2. Domains \subseteq Seq(Nullable({a, b}))
    BY <2>1, ShortSequences DEF Domains
  <2>3. {<<>>, <<a>>, <<Null>>} \subseteq Seq(Nullable({a, b}))
    BY <2>1, ShortSequences
  <2>4. QED
    BY <1>1, <2>2, <2>3
<1> DEFINE Names == Nullable({a, b}) \cup {Wildcard}
<1>6. SubDomains \ {Null} \subseteq Seq(Names) /\ <<a, Wildcard>> \in Seq(Names)
  <2>1. a \in Names /\ Wildcard \in Names /\ Null \in Names
    BY DEF Nullable
  <2> HIDE DEF Names
  <2>2. QED
    BY <2>1, ShortSequences DEF SubDomains
<1>7. EntityKeys \subseteq Seq(SomeKey)
  <2>1. \A k \in EntityKeys : \E x, y \in SomeKey : k = <<x, y>>
    BY DEF EntityKeys, SubKeys, SomeKey
  <2>2. QED
    BY <2>1, ShortSequences
<1>3. \A r \in OneRequest : Wellformed(r, {a, b}, SomeKey)
  <2>1. ASSUME NEW r \in OneRequest PROVE Wellformed(r, {a, b}, SomeKey)
    <3>1. r.subDomain \in SubDomains /\ r.keys \in {<<k>> : k \in EntityKeys}
      BY DEF OneRequest
    <3>2. r.subDomain # Null => r.subDomain \in Seq(Names)
      BY <1>6, <3>1
    <3>3. r.keys \in Seq(Nullable(Seq(SomeKey)))
      BY <1>7, <3>1, ShortSequences DEF Nullable
    <3>4. QED
      BY <3>2, <3>3 DEF Wellformed
  <2>2. QED
    BY <2>1
<1>4. \A r \in FewRequests : Wellformed(r, {a, b}, SomeKey)
  <2>1. ASSUME NEW r \in FewRequests, r # Null PROVE Wellformed(r, {a, b}, SomeKey)
    <3>1. r.subDomain \in {Null, <<a, Wildcard>>} /\ r.keys \in SomeKeys
      BY <2>1 DEF FewRequests
    <3>2. r.subDomain # Null => r.subDomain \in Seq(Names)
      BY <1>6, <3>1
    <3>3. r.keys \in Seq(Nullable(Seq(SomeKey)))
      <4> DEFINE Keys == Seq(SomeKey)
      <4>1. \A x, y \in SomeKey : <<x, y>> \in Keys
        BY ShortSequences
      <4>2. /\ <<Wildcard, a>> \in Keys /\ <<a, Null>> \in Keys
            /\ <<b, Wildcard>> \in Keys /\ <<Null, Null>> \in Keys
        BY <4>1 DEF SomeKey
      <4> HIDE DEF Keys
      <4>3. r.keys \in Seq(Nullable(Keys))
        <5>1. Keys \subseteq Nullable(Keys) /\ Null \in Nullable(Keys)
          BY DEF Nullable
        <5>2. QED
          BY <3>1, <4>2, <5>1, ShortSequences DEF SomeKeys
      <4>4. QED
        BY <4>3 DEF Keys
    <3>4. QED
      BY <3>2, <3>3 DEF Wellformed
  <2>2. QED
    BY <2>1 DEF Wellformed
<1>5. CASE in.sub.entities \in {<<r>> : r \in OneRequest}
  <2>1. PICK r \in OneRequest : in.sub.entities = <<r>>
    BY <1>5
  <2>2. DOMAIN in.sub.entities = {1} /\ in.sub.entities[1] = r
    BY <2>1
  <2>3. Wellformed(in.sub.entities[1], {a, b}, SomeKey)
    BY <1>3, <2>2
  <2>4. \A i \in DOMAIN in.sub.entities : Wellformed(in.sub.entities[i], {a, b}, SomeKey)
    BY <2>2, <2>3
  <2>5. DOMAIN in.sub.entities \subseteq Nat
    BY <2>2
  <2>6. QED
    BY <1>2, <2>4, <2>5
<1>8. CASE in.sub.entities \in FewRequests \X FewRequests
  <2>1. PICK r \in FewRequests, q \in FewRequests : in.sub.entities = <<r, q>>
    BY <1>8
  <2>2. DOMAIN in.sub.entities = {1, 2} /\ in.sub.entities[1] = r /\ in.sub.entities[2] = q
    BY <2>1
  <2>3. Wellformed(in.sub.entities[1], {a, b}, SomeKey) /\ Wellformed(in.sub.entities[2], {a, b}, SomeKey)
    BY <1>4, <2>2
  <2>4. \A i \in DOMAIN in.sub.entities : Wellformed(in.sub.entities[i], {a, b}, SomeKey)
    BY <2>2, <2>3
  <2>5. DOMAIN in.sub.entities \subseteq Nat
    BY <2>2
  <2>6. QED
    BY <1>2, <2>4, <2>5
<1>9. QED
  BY <1>1, <1>5, <1>8

\* What TLC checks of these inputs.
THEOREM MatchesTrue == Spec => []MatchesExact
<1>1. Init => InputKnown
  BY DEF Init, InputKnown
<1>2. InputKnown /\ [Pick]_input => InputKnown'
  BY DEF InputKnown, Pick
<1>3. InputKnown => MatchesExact
  <2>1. SUFFICES ASSUME input \in Inputs, Found # "panic"
                 PROVE  Found = "yes" <=> Asked(input.sub, input.msg, input.key)
    BY DEF InputKnown, MatchesExact
  <2>2. QED
    BY <2>1, InputsWellformed, MatchesRules, NameAssumption DEF Found
<1>4. QED
  BY <1>1, <1>2, <1>3, PTL DEF Spec
=============================================================================
