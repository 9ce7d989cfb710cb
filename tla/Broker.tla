------------------------------- MODULE Broker -------------------------------
(***************************************************************************)
(* The broker of src/mal/broker/handler.go, with the update values of its  *)
(* BlobUpdateValueHandler.  Its handlers run in the goroutine of the MAL   *)
(* Context, or each in its own after SetConcurrency(true); a local broker's *)
(* application publishes from a goroutine of its own.  They share the      *)
(* tables of subscribers and publishers and one UpdateValueHandler.        *)
(*                                                                         *)
(* A step ends at each use of a table, each call of the UpdateValueHandler *)
(* (the loop that selects the updates of one subscriber is one) and each   *)
(* message sent.  An update value is <<p, i>>: the i-th one of publication *)
(* p.                                                                      *)
(***************************************************************************)
EXTENDS Integers, Sequences, FiniteSets

CONSTANTS
  Consumer,     \* URIs of the consumers, SubId their subscription identifiers:
  SubId,        \*   sequences of the names between the slashes
  Request,      \* the lists of EntityRequests
  Publisher,    \* URIs of the remote publishers
  Here,         \* the broker's own URI, as which a local broker publishes
  Pub,          \* the publications, each made once
  From,         \* From[p]: the publisher of p
  Headers,      \* Headers[p]: how many update headers it carries,
  Values,       \* Values[p]: and how many update values
  Undecodable,  \* the publications whose values DecodeUpdateValueList refuses
  Selects,      \* Selects[r][p]: the headers of p that sub.matches for request r
  Handler,      \* the goroutines that handle messages
  Local,        \* those of the application that publish
  MaxRequests,  \* bound on the messages other than PUBLISH
  NoSub, NoPub

ASSUME PubAssumption ==
  /\ NoPub \notin Pub /\ Undecodable \subseteq Pub
  /\ From \in [Pub -> Publisher \cup {Here}] /\ Here \notin Publisher
  /\ Headers \in [Pub -> Nat] /\ Values \in [Pub -> Nat]
  /\ \A r \in Request : \A p \in Pub : Selects[r][p] \subseteq 1 .. Headers[p]
ASSUME HandlerAssumption == Handler \cap Local = {} /\ MaxRequests \in Nat

VARIABLES
  subs,       \* handler.subs, by subkey
  pubs,       \* the keys of handler.pubs
  list,       \* updtHandler.list: the publication whose values it holds
  values,     \* updtHandler.values: those appended
  task,       \* what each goroutine does
  asked,      \* the messages handled other than PUBLISH, which number the transactions
  published,  \* the publications made
  outbox,     \* the messages sent, in order
  panicked

vars == <<subs, pubs, list, values, task, asked, published, outbox, panicked>>

Goroutine == Handler \cup Local

Subscriber == Consumer \X SubId

\* subkey: the URI and the identifier with a slash between them.
IdOnly(x) == x[2]   \* mutant: the identifier alone
Subkey(x) == x[1] \o x[2]
Keys == {Subkey(x) : x \in Subscriber}

\* BrokerSub: its transaction is the REGISTER message's sender and number.
BrokerSub == [owner : Subscriber, tid : 1 .. MaxRequests, request : Request]

ASSUME NoSubAssumption ==
  NoSub \notin BrokerSub /\ NoSub \notin [tid : 1 .. MaxRequests, request : Request]

Value == Pub \X Nat

\* The messages it sends.
Acks == [stage : {"REGISTER_ACK", "DEREGISTER_ACK", "PUBLISH_REGISTER_ACK",
                  "PUBLISH_DEREGISTER_ACK"},
         to : Consumer \cup Publisher, tid : 1 .. MaxRequests, error : BOOLEAN]
Notifies == [stage : {"NOTIFY"}, to : Consumer, tid : 1 .. MaxRequests, pub : Pub,
             headers : SUBSET Nat, body : SUBSET Value]
Errors == [stage : {"PUBLISH_ERROR"}, to : Publisher \cup {Here}, pub : Pub]

\* What a goroutine does: the end of OnRegister etc., a publication, and the loop
\* of doPublish, where it is to produce must and has produced seen.
Idle == [pc |-> "idle"]
Acking == [pc : {"ack"}, reply : Acks]
Starting == [pc : {"check", "error"}, pub : Pub]
Ranging == [pc : {"range"}, pub : Pub, must : SUBSET Keys, seen : SUBSET Keys]
Encoding == [pc : {"encode"}, pub : Pub, must : SUBSET Keys, seen : SUBSET Keys,
             sub : BrokerSub, headers : SUBSET Nat]
Notifying == [pc : {"notify"}, pub : Pub, must : SUBSET Keys, seen : SUBSET Keys,
              sub : BrokerSub, headers : SUBSET Nat, body : SUBSET Value]

Publishing(g) == task[g].pc \in {"range", "encode", "notify"}

\* Every variable has its type.
TypeOK ==
  /\ subs \in [Keys -> BrokerSub \cup {NoSub}]
  /\ pubs \subseteq Publisher \cup {Here}
  /\ list \in Pub \cup {NoPub}
  /\ values \subseteq Value
  /\ task \in [Goroutine -> {Idle} \cup Acking \cup Starting \cup Ranging
                              \cup Encoding \cup Notifying]
  /\ asked \in 0 .. MaxRequests
  /\ published \subseteq Pub
  /\ outbox \in Seq(Acks \cup Notifies \cup Errors)
  /\ panicked \in BOOLEAN

Init ==
  /\ subs = [k \in Keys |-> NoSub]
  /\ pubs = {}
  /\ list = NoPub
  /\ values = {}
  /\ task = [g \in Goroutine |-> Idle]
  /\ asked = 0
  /\ published = {}
  /\ outbox = <<>>
  /\ panicked = FALSE

-----------------------------------------------------------------------------
(* Registrations.                                                          *)

\* Goroutine g handles a request of uri and will answer it.
Handles(g, stage, uri, error) ==
  /\ task[g].pc = "idle"
  /\ asked < MaxRequests
  /\ asked' = asked + 1
  /\ task' = [task EXCEPT ![g] =
       [pc |-> "ack", reply |-> [stage |-> stage, to |-> uri, tid |-> asked + 1, error |-> error]]]

LastTransaction(x, r) == [owner |-> x, tid |-> asked, request |-> r]   \* mutant
NewSub(x, r) == [owner |-> x, tid |-> asked + 1, request |-> r]

\* OnRegister, unless the body does not decode: the entry is added or replaced,
\* which an iteration of another goroutine may or may not see.
Register(g, x, r) ==
  /\ Handles(g, "REGISTER_ACK", x[1], FALSE)
  /\ subs' = [subs EXCEPT ![Subkey(x)] = NewSub(x, r)]
  /\ UNCHANGED <<pubs, list, values, published, outbox, panicked>>

RegisterFails(g, u) ==
  /\ Handles(g, "REGISTER_ACK", u, TRUE)
  /\ UNCHANGED <<subs, pubs, list, values, published, outbox, panicked>>

\* An iteration forgets the entries that are deleted: they are not produced any
\* more, and one that is added again may be.
Forget(t, K) ==
  IF t.pc \in {"range", "encode", "notify"}
  THEN [t EXCEPT !.must = @ \ K, !.seen = @ \ K] ELSE t

\* OnDeregister, with the list of identifiers it decodes (none, if it does not),
\* which is acknowledged with an error in any case.
Deregister(g, u, S) ==
  LET K == {Subkey(<<u, s>>) : s \in S} IN
  /\ task[g].pc = "idle"
  /\ asked < MaxRequests
  /\ asked' = asked + 1
  /\ subs' = [k \in Keys |-> IF k \in K THEN NoSub ELSE subs[k]]
  /\ task' = [h \in Goroutine |->
       IF h = g
       THEN [pc |-> "ack", reply |-> [stage |-> "DEREGISTER_ACK", to |-> u,
                                      tid |-> asked + 1, error |-> TRUE]]
       ELSE Forget(task[h], K)]
  /\ UNCHANGED <<pubs, list, values, published, outbox, panicked>>

\* OnPublishRegister and OnPublishDeregister.
PublishRegister(g, u, error) ==
  /\ Handles(g, "PUBLISH_REGISTER_ACK", u, error)
  /\ pubs' = IF error THEN pubs ELSE pubs \cup {u}
  /\ UNCHANGED <<subs, list, values, published, outbox, panicked>>

PublishDeregister(g, u) ==
  /\ Handles(g, "PUBLISH_DEREGISTER_ACK", u, TRUE)
  /\ pubs' = pubs \ {u}
  /\ UNCHANGED <<subs, list, values, published, outbox, panicked>>

OnlyErrors(reply) == IF reply.error THEN Append(outbox, reply) ELSE outbox   \* mutant
Sent(reply) == Append(outbox, reply)

\* transaction.AckRegister, AckDeregister.
Ack(g) ==
  /\ task[g].pc = "ack"
  /\ outbox' = Sent(task[g].reply)
  /\ task' = [task EXCEPT ![g] = Idle]
  /\ UNCHANGED <<subs, pubs, list, values, asked, published, panicked>>

\* LocalPublishRegister and LocalPublishDeregister.
LocalPublishRegister(g) ==
  /\ task[g].pc = "idle"
  /\ pubs' \in {pubs \cup {Here}, pubs \ {Here}}
  /\ UNCHANGED <<subs, list, values, task, asked, published, outbox, panicked>>

-----------------------------------------------------------------------------
(* Publications.                                                           *)

KeepValues == UNCHANGED values   \* mutant: the values encoded are kept
ResetValues == values' = {}

\* DecodeUpdateValueList or InitUpdateValueList, whose error is ignored.
DecodeUpdateValueList(p) ==
  IF p \in Undecodable THEN UNCHANGED <<list, values>>
  ELSE list' = p /\ ResetValues

\* OnPublish, and LocalPublish of the local broker.
Publish(g, p) ==
  /\ task[g].pc = "idle"
  /\ p \notin published
  /\ published' = published \cup {p}
  /\ DecodeUpdateValueList(p)
  /\ task' = [task EXCEPT ![g] = [pc |-> "check", pub |-> p]]
  /\ UNCHANGED <<subs, pubs, asked, outbox, panicked>>

\* The headers do not decode.
PublishFails(g, p) ==
  /\ task[g].pc = "idle"
  /\ p \notin published
  /\ published' = published \cup {p}
  /\ task' = [task EXCEPT ![g] = [pc |-> "error", pub |-> p]]
  /\ UNCHANGED <<subs, pubs, list, values, asked, outbox, panicked>>

\* UpdateValueListSize: -1 for the nil list.
UpdateValueListSize == IF list = NoPub THEN -1 ELSE Values[list]

Accepted(p) == UpdateValueListSize = Headers[p] /\ From[p] \in pubs

\* doPublish returns an error, which LocalPublish gives to the application and
\* OnPublish sends to the publisher, or begins its loop over the subscribers.
Check(g) ==
  LET p == task[g].pub IN
  /\ task[g].pc = "check"
  /\ task' = [task EXCEPT ![g] =
       IF Accepted(p)
       THEN [pc |-> "range", pub |-> p, must |-> {k \in Keys : subs[k] # NoSub}, seen |-> {}]
       ELSE IF g \in Local THEN Idle ELSE [pc |-> "error", pub |-> p]]
  /\ UNCHANGED <<subs, pubs, list, values, asked, published, outbox, panicked>>

\* AppendValue for each of them, or ResetValues if there is none.
AppendValues(S) == IF S = {} THEN ResetValues ELSE values' = values \cup S

\* The next subscriber of the loop: the updates it asks for.  Appending one the
\* list does not have panics.
Select(g, k) ==
  LET t == task[g]
      S == Selects[subs[k].request][t.pub]
      seen == [t EXCEPT !.must = @ \ {k}, !.seen = @ \cup {k}]
  IN
  /\ t.pc = "range"
  /\ subs[k] # NoSub /\ k \notin t.seen
  /\ IF \E i \in S : i > UpdateValueListSize
     THEN panicked' = TRUE /\ UNCHANGED <<values, task>>
     ELSE /\ AppendValues({<<list, i>> : i \in S})
          /\ task' = [task EXCEPT ![g] =
               IF S = {} THEN seen
               ELSE [pc |-> "encode", pub |-> t.pub, must |-> seen.must, seen |-> seen.seen,
                     sub |-> subs[k], headers |-> S]]
          /\ UNCHANGED panicked
  /\ UNCHANGED <<subs, pubs, list, asked, published, outbox>>

\* EncodeUpdateValueList: what was appended, by whomever.
Encode(g) ==
  LET t == task[g] IN
  /\ t.pc = "encode"
  /\ task' = [task EXCEPT ![g] =
       [pc |-> "notify", pub |-> t.pub, must |-> t.must, seen |-> t.seen,
        sub |-> t.sub, headers |-> t.headers, body |-> values]]
  /\ ResetValues
  /\ UNCHANGED <<subs, pubs, list, asked, published, outbox, panicked>>

BackToRange(t) == [pc |-> "range", pub |-> t.pub, must |-> t.must, seen |-> t.seen]
Return(t) == Idle   \* mutant: return in place of continue
AfterNotify(t) == BackToRange(t)

\* sub.transaction.Notify, whatever has become of the subscription.
Notify(g) ==
  LET t == task[g] IN
  /\ t.pc = "notify"
  /\ outbox' = Append(outbox, [stage |-> "NOTIFY", to |-> t.sub.owner[1], tid |-> t.sub.tid,
                               pub |-> t.pub, headers |-> t.headers, body |-> t.body])
  /\ task' = [task EXCEPT ![g] = AfterNotify(t)]
  /\ UNCHANGED <<subs, pubs, list, values, asked, published, panicked>>

\* The loop ends when it has produced every entry but those added meanwhile.
RangeEnds(g) ==
  /\ task[g].pc = "range"
  /\ task[g].must = {}
  /\ task' = [task EXCEPT ![g] = Idle]
  /\ UNCHANGED <<subs, pubs, list, values, asked, published, outbox, panicked>>

\* OnPublish answers an error, through the entry of the publisher, which is nil
\* if it is not registered.
PublishError(g) ==
  LET p == task[g].pub IN
  /\ task[g].pc = "error"
  /\ IF From[p] \in pubs
     THEN /\ outbox' = Append(outbox, [stage |-> "PUBLISH_ERROR", to |-> From[p], pub |-> p])
          /\ task' = [task EXCEPT ![g] = Idle]
          /\ UNCHANGED panicked
     ELSE panicked' = TRUE /\ UNCHANGED <<outbox, task>>
  /\ UNCHANGED <<subs, pubs, list, values, asked, published>>

\* The tables have no lock: Go stops a program whose map is written while
\* another goroutine uses it, when it notices.
MapRace(g) ==
  /\ task[g].pc = "idle"
  /\ asked < MaxRequests
  /\ \E h \in Goroutine \ {g} : task[h].pc \in {"check", "range"}
  /\ panicked' = TRUE
  /\ UNCHANGED <<subs, pubs, list, values, task, asked, published, outbox>>

-----------------------------------------------------------------------------
HandleRequest(g) ==
  \/ \E x \in Subscriber, r \in Request : Register(g, x, r)
  \/ \E u \in Consumer : \/ RegisterFails(g, u)
                         \/ \E S \in SUBSET SubId : Deregister(g, u, S)
  \/ \E u \in Publisher : \/ \E error \in BOOLEAN : PublishRegister(g, u, error)
                          \/ PublishDeregister(g, u)

Remote == {p \in Pub : From[p] # Here}

Next ==
  /\ ~panicked
  /\ \/ \E g \in Handler : \/ HandleRequest(g)
                           \/ MapRace(g)
                           \/ Ack(g)
                           \/ \E p \in Remote : Publish(g, p) \/ PublishFails(g, p)
                           \/ PublishError(g)
     \/ \E g \in Local : \/ LocalPublishRegister(g)
                         \/ \E p \in Pub \ Remote : Publish(g, p)
     \/ \E g \in Goroutine : \/ Check(g)
                             \/ \E k \in Keys : Select(g, k)
                             \/ Encode(g) \/ Notify(g) \/ RangeEnds(g)

Spec == Init /\ [][Next]_vars
-----------------------------------------------------------------------------
(* Properties.                                                             *)

Notifications == {i \in DOMAIN outbox : outbox[i].stage = "NOTIFY"}

\* A NOTIFY carries the values of the headers it carries, and no others, although
\* the UpdateValueHandler that collects them is shared by all publications.
UpdatesIntact ==
  \A i \in Notifications :
    outbox[i].body = {<<outbox[i].pub, h>> : h \in outbox[i].headers}

\* The answer by which the consumer whose REGISTER has this number is registered.
Accepts(m, tid) == m.stage = "REGISTER_ACK" /\ m.tid = tid /\ ~m.error

\* A consumer's first NOTIFY comes after the REGISTER_ACK it waits for: it does not
\* hold, the subscription is in the table before OnRegister answers.
AckedFirst ==
  \A i \in Notifications :
    \E j \in DOMAIN outbox : j < i /\ Accepts(outbox[j], outbox[i].tid)

\* How far that can go: a REGISTER whose transaction is notified has been answered
\* without an error, or a goroutine has that answer to send, whatever became of the
\* subscription while another goroutine published.
Promised(tid) ==
  \/ \E j \in DOMAIN outbox : Accepts(outbox[j], tid)
  \/ \E g \in Goroutine : task[g].pc = "ack" /\ Accepts(task[g].reply, tid)

NotifiedAccepted == \A i \in Notifications : Promised(outbox[i].tid)

\* "the URI of the consumer and the subscription identifier shall form the unique
\* identifier of the subscription": only a message of its own consumer changes a
\* subscription.
OthersUntouched ==
  [][\A k \in Keys : subs[k] # NoSub /\ subs'[k] # subs[k] =>
       \E g \in Handler : /\ task[g].pc = "idle" /\ task'[g].pc = "ack"
                          /\ task'[g].reply.to = subs[k].owner[1]]_vars

\* "Returns a PublishError MAL message to publisher": no publication stops the
\* broker.
NoPanic == ~panicked

\* What PubSub sees of the broker.
Active(x) == LET s == subs[Subkey(x)] IN
  IF s = NoSub THEN NoSub
  ELSE IF s.owner = x THEN [tid |-> s.tid, request |-> s.request] ELSE NoSub

WantedPubs == [r \in Request |-> {p \in Pub : Selects[r][p] # {}}]

Owed(g) ==
  LET t == task[g] IN
  IF ~Publishing(g) THEN {}
  ELSE {<<s.owner, s.tid, t.pub>> :
          s \in {b \in {subs[k] : k \in t.must} : t.pub \in WantedPubs[b.request]}}
       \cup (IF t.pc = "range" THEN {} ELSE {<<t.sub.owner, t.sub.tid, t.pub>>})

P == INSTANCE PubSub WITH
       Registration <- [tid : 1 .. MaxRequests, request : Request],
       Wanted       <- WantedPubs,
       active       <- [x \in Subscriber |-> Active(x)],
       open         <- {task[g].pub : g \in {h \in Goroutine : Publishing(h)}},
       owed         <- UNION {Owed(g) : g \in Goroutine},
       told         <- {<<outbox[i].tid, outbox[i].pub>> : i \in Notifications}

\* The broker does what PubSub promises, whatever registrations come meanwhile.
PubSubSpec == P!Spec
=============================================================================
