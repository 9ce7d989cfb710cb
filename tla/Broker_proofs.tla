--------------------------- MODULE Broker_proofs ---------------------------
(***************************************************************************)
(* Theorems about Broker: its types, that only its owner changes a         *)
(* subscription and that it implements PubSub, for any goroutines, and,    *)
(* for the handlers of one Context, what a subscriber is sent.             *)
(***************************************************************************)
EXTENDS Broker, TLAPS

\* What a task is, by its pc.
LEMMA TaskOf ==
  ASSUME TypeOK, NEW g \in Goroutine
  PROVE  /\ task[g].pc = "ack" => task[g] \in Acking
         /\ task[g].pc \in {"check", "error"} => task[g] \in Starting
         /\ task[g].pc = "range" => task[g] \in Ranging
         /\ task[g].pc = "encode" => task[g] \in Encoding
         /\ task[g].pc = "notify" => task[g] \in Notifying
         /\ task[g].pc \in {"idle", "ack", "check", "error", "range", "encode", "notify"}
  BY DEF TypeOK, Idle, Acking, Starting, Ranging, Encoding, Notifying

\* The next transaction has a number.
LEMMA NextTransaction ==
  ASSUME TypeOK, asked < MaxRequests
  PROVE  asked + 1 \in 0 .. MaxRequests /\ asked + 1 \in 1 .. MaxRequests
  BY HandlerAssumption DEF TypeOK

\* A subscriber's key is a key.
LEMMA KeyOf == \A x \in Subscriber : Subkey(x) \in Keys
  BY DEF Keys

-----------------------------------------------------------------------------
(* Types.                                                                  *)

Task == {Idle} \cup Acking \cup Starting \cup Ranging \cup Encoding \cup Notifying
Message == Acks \cup Notifies \cup Errors

\* A goroutine's task is replaced by another.
LEMMA TaskUpdate ==
  ASSUME NEW f \in [Goroutine -> Task], NEW g \in Goroutine, NEW t \in Task
  PROVE  [f EXCEPT ![g] = t] \in [Goroutine -> Task]
  OBVIOUS

\* The initial state is well typed.
LEMMA TypeInit == Init => TypeOK
<1> SUFFICES ASSUME Init PROVE TypeOK
  OBVIOUS
<1>1. asked \in 0 .. MaxRequests
  BY HandlerAssumption DEF Init
<1>2. task \in [Goroutine -> Task]
  BY DEF Init, Task
<1>3. outbox \in Seq(Message)
  BY DEF Init
<1>4. subs \in [Keys -> BrokerSub \cup {NoSub}]
  BY DEF Init
<1>5. QED
  BY <1>1, <1>2, <1>3, <1>4 DEF Init, TypeOK, Task, Message

\* A request that is handled leaves an acknowledgement to send.
LEMMA HandlesType ==
  ASSUME TypeOK, NEW g \in Goroutine, NEW error \in BOOLEAN,
         NEW uri \in Consumer \cup Publisher,
         NEW stage \in {"REGISTER_ACK", "DEREGISTER_ACK", "PUBLISH_REGISTER_ACK",
                        "PUBLISH_DEREGISTER_ACK"},
         Handles(g, stage, uri, error)
  PROVE  asked' \in 0 .. MaxRequests /\ task' \in [Goroutine -> Task]
<1> DEFINE r == [stage |-> stage, to |-> uri, tid |-> asked + 1, error |-> error]
<1>1. asked + 1 \in 0 .. MaxRequests /\ asked + 1 \in 1 .. MaxRequests
  BY NextTransaction DEF Handles
<1>2. r \in Acks
  BY <1>1 DEF Acks
<1>3. [pc |-> "ack", reply |-> r] \in Task
  BY <1>2 DEF Acking, Task
<1>4. task \in [Goroutine -> Task]
  BY DEF TypeOK, Task
<1>5. QED
  BY <1>1, <1>3, <1>4, TaskUpdate DEF Handles

\* Registrations keep the types.
LEMMA TypeRequest ==
  ASSUME TypeOK, NEW g \in Handler, HandleRequest(g)
  PROVE  TypeOK'
<1> g \in Goroutine
  BY DEF Goroutine
<1>1. ASSUME NEW x \in Subscriber, NEW r \in Request, Register(g, x, r)
      PROVE  TypeOK'
  <2>1. asked' \in 0 .. MaxRequests /\ task' \in [Goroutine -> Task]
    BY <1>1, HandlesType DEF Register, Subscriber
  <2>2. NewSub(x, r) \in BrokerSub
    BY <1>1, NextTransaction DEF Register, Handles, NewSub, BrokerSub
  <2>3. subs' \in [Keys -> BrokerSub \cup {NoSub}]
    BY <1>1, <2>2 DEF Register, TypeOK
  <2>4. QED
    BY <1>1, <2>1, <2>3 DEF Register, TypeOK, Task
<1>2. ASSUME NEW u \in Consumer, RegisterFails(g, u)
      PROVE  TypeOK'
  <2>1. asked' \in 0 .. MaxRequests /\ task' \in [Goroutine -> Task]
    BY <1>2, HandlesType DEF RegisterFails
  <2>2. QED
    BY <1>2, <2>1 DEF RegisterFails, TypeOK, Task
<1>3. ASSUME NEW u \in Consumer, NEW S \in SUBSET SubId, Deregister(g, u, S)
      PROVE  TypeOK'
  <2> DEFINE K == {Subkey(<<u, s>>) : s \in S}
             r == [stage |-> "DEREGISTER_ACK", to |-> u, tid |-> asked + 1, error |-> TRUE]
  <2>1. asked' \in 0 .. MaxRequests /\ asked + 1 \in 1 .. MaxRequests
    BY <1>3, NextTransaction DEF Deregister
  <2>2. r \in Acks
    BY <2>1 DEF Acks
  <2>3. [pc |-> "ack", reply |-> r] \in Task
    BY <2>2 DEF Acking, Task
  <2>4. ASSUME NEW h \in Goroutine
        PROVE  Forget(task[h], K) \in Task
    <3>1. CASE task[h].pc = "range"
      BY <2>4, <3>1, TaskOf DEF Forget, Ranging, Task
    <3>2. CASE task[h].pc = "encode"
      BY <2>4, <3>2, TaskOf DEF Forget, Encoding, Task
    <3>3. CASE task[h].pc = "notify"
      BY <2>4, <3>3, TaskOf DEF Forget, Notifying, Task
    <3>4. CASE task[h].pc \notin {"range", "encode", "notify"}
      BY <2>4, <3>4 DEF Forget, TypeOK, Task
    <3>5. QED
      BY <3>1, <3>2, <3>3, <3>4
  <2>5. task' \in [Goroutine -> Task]
    BY <1>3, <2>3, <2>4 DEF Deregister
  <2>6. subs' \in [Keys -> BrokerSub \cup {NoSub}]
    BY <1>3 DEF Deregister, TypeOK
  <2>7. QED
    BY <1>3, <2>1, <2>5, <2>6 DEF Deregister, TypeOK, Task
<1>4. ASSUME NEW u \in Publisher, NEW error \in BOOLEAN, PublishRegister(g, u, error)
      PROVE  TypeOK'
  <2>1. asked' \in 0 .. MaxRequests /\ task' \in [Goroutine -> Task]
    BY <1>4, HandlesType DEF PublishRegister
  <2>2. QED
    BY <1>4, <2>1 DEF PublishRegister, TypeOK, Task
<1>5. ASSUME NEW u \in Publisher, PublishDeregister(g, u)
      PROVE  TypeOK'
  <2>1. asked' \in 0 .. MaxRequests /\ task' \in [Goroutine -> Task]
    BY <1>5, HandlesType DEF PublishDeregister
  <2>2. QED
    BY <1>5, <2>1 DEF PublishDeregister, TypeOK, Task
<1>6. QED
  BY <1>1, <1>2, <1>3, <1>4, <1>5 DEF HandleRequest

\* The steps of a publication keep the types.
LEMMA TypePublication ==
  ASSUME TypeOK, NEW g \in Goroutine,
         \/ Ack(g) \/ Check(g) \/ Encode(g) \/ Notify(g) \/ RangeEnds(g) \/ PublishError(g)
         \/ \E p \in Pub : Publish(g, p) \/ PublishFails(g, p)
         \/ \E k \in Keys : Select(g, k)
  PROVE  TypeOK'
<1>0. task \in [Goroutine -> Task] /\ Idle \in Task
  BY DEF TypeOK, Task
<1>1. CASE Ack(g)
  <2>1. task[g].reply \in Acks
    BY <1>1, TaskOf DEF Ack, Acking
  <2>2. outbox' \in Seq(Message)
    BY <1>1, <2>1 DEF Ack, Sent, TypeOK, Message
  <2>3. task' \in [Goroutine -> Task]
    BY <1>0, <1>1, TaskUpdate DEF Ack
  <2>4. QED
    BY <1>1, <2>2, <2>3 DEF Ack, TypeOK, Task, Message
<1>2. CASE Check(g)
  <2> DEFINE p == task[g].pub
             t == IF Accepted(p)
                  THEN [pc |-> "range", pub |-> p, must |-> {k \in Keys : subs[k] # NoSub},
                        seen |-> {}]
                  ELSE IF g \in Local THEN Idle ELSE [pc |-> "error", pub |-> p]
  <2>1. p \in Pub
    BY <1>2, TaskOf DEF Check, Starting
  <2>2. t \in Task
    BY <2>1 DEF Ranging, Starting, Task
  <2>3. task' \in [Goroutine -> Task]
    BY <1>0, <1>2, <2>2, TaskUpdate DEF Check
  <2>4. QED
    BY <1>2, <2>3 DEF Check, TypeOK, Task
<1>3. CASE Encode(g)
  <2> DEFINE t == task[g]
             n == [pc |-> "notify", pub |-> t.pub, must |-> t.must, seen |-> t.seen,
                   sub |-> t.sub, headers |-> t.headers, body |-> values]
  <2>1. t \in Encoding
    BY <1>3, TaskOf DEF Encode
  <2>2. n \in Task
    BY <2>1 DEF Encoding, Notifying, Task, TypeOK
  <2>3. task' \in [Goroutine -> Task]
    BY <1>0, <1>3, <2>2, TaskUpdate DEF Encode
  <2>4. QED
    BY <1>3, <2>3 DEF Encode, ResetValues, TypeOK, Task
<1>4. CASE Notify(g)
  <2> DEFINE t == task[g]
             m == [stage |-> "NOTIFY", to |-> t.sub.owner[1], tid |-> t.sub.tid,
                   pub |-> t.pub, headers |-> t.headers, body |-> t.body]
  <2>1. t \in Notifying
    BY <1>4, TaskOf DEF Notify
  <2>2. t.sub.owner[1] \in Consumer /\ t.sub.tid \in 1 .. MaxRequests
    BY <2>1 DEF Notifying, BrokerSub, Subscriber
  <2>3. m \in Message
    BY <2>1, <2>2 DEF Notifying, Notifies, Message
  <2>4. outbox' \in Seq(Message)
    BY <1>4, <2>3 DEF Notify, TypeOK, Message
  <2>5. BackToRange(t) \in Task
    BY <2>1 DEF Notifying, BackToRange, Ranging, Task
  <2>6. task' \in [Goroutine -> Task]
    BY <1>0, <1>4, <2>5, TaskUpdate DEF Notify, AfterNotify
  <2>7. QED
    BY <1>4, <2>4, <2>6 DEF Notify, TypeOK, Task, Message
<1>5. CASE RangeEnds(g)
  <2>1. task' \in [Goroutine -> Task]
    BY <1>0, <1>5, TaskUpdate DEF RangeEnds
  <2>2. QED
    BY <1>5, <2>1 DEF RangeEnds, TypeOK, Task
<1>6. CASE PublishError(g)
  <2> DEFINE p == task[g].pub
  <2>1. p \in Pub
    BY <1>6, TaskOf DEF PublishError, Starting
  <2>2. CASE From[p] \in pubs
    <3>1. [stage |-> "PUBLISH_ERROR", to |-> From[p], pub |-> p] \in Message
      BY <2>1, PubAssumption DEF Errors, Message
    <3>2. outbox' \in Seq(Message) /\ panicked' = panicked
      BY <1>6, <2>2, <3>1 DEF PublishError, TypeOK, Message
    <3>3. task' \in [Goroutine -> Task]
      BY <1>0, <1>6, <2>2, TaskUpdate DEF PublishError
    <3>4. QED
      BY <1>6, <3>2, <3>3 DEF PublishError, TypeOK, Task, Message
  <2>3. CASE From[p] \notin pubs
    BY <1>6, <2>3 DEF PublishError, TypeOK
  <2>4. QED
    BY <2>2, <2>3
<1>7. ASSUME NEW p \in Pub, Publish(g, p)
      PROVE  TypeOK'
  <2>1. [pc |-> "check", pub |-> p] \in Task
    BY DEF Starting, Task
  <2>2. task' \in [Goroutine -> Task]
    BY <1>0, <1>7, <2>1, TaskUpdate DEF Publish
  <2>3. list' \in Pub \cup {NoPub} /\ values' \subseteq Value
    BY <1>7 DEF Publish, DecodeUpdateValueList, ResetValues, TypeOK
  <2>4. QED
    BY <1>7, <2>2, <2>3 DEF Publish, TypeOK, Task
<1>8. ASSUME NEW p \in Pub, PublishFails(g, p)
      PROVE  TypeOK'
  <2>1. [pc |-> "error", pub |-> p] \in Task
    BY DEF Starting, Task
  <2>2. task' \in [Goroutine -> Task]
    BY <1>0, <1>8, <2>1, TaskUpdate DEF PublishFails
  <2>3. QED
    BY <1>8, <2>2 DEF PublishFails, TypeOK, Task
<1>9. ASSUME NEW k \in Keys, Select(g, k)
      PROVE  TypeOK'
  <2> DEFINE t == task[g]
             S == Selects[subs[k].request][t.pub]
             seen == [t EXCEPT !.must = @ \ {k}, !.seen = @ \cup {k}]
             n == IF S = {} THEN seen
                  ELSE [pc |-> "encode", pub |-> t.pub, must |-> seen.must, seen |-> seen.seen,
                        sub |-> subs[k], headers |-> S]
  <2>1. t \in Ranging /\ subs[k] \in BrokerSub
    BY <1>9, TaskOf DEF Select, TypeOK
  <2>2. S \subseteq 1 .. Headers[t.pub] /\ Headers[t.pub] \in Nat
    BY <2>1, PubAssumption DEF Ranging, BrokerSub
  <2>3. S \subseteq Nat
    BY <2>2
  <2>4. CASE \E i \in S : i > UpdateValueListSize
    BY <1>9, <2>4 DEF Select, TypeOK
  <2>5. CASE ~ \E i \in S : i > UpdateValueListSize
    <3>1. seen \in Ranging /\ seen.must \in SUBSET Keys /\ seen.seen \in SUBSET Keys
      BY <2>1 DEF Ranging
    <3>2. n \in Task
      <4>1. CASE S = {}
        BY <3>1, <4>1 DEF Task
      <4>2. CASE S # {}
        <5> HIDE DEF S, seen
        <5>1. t.pub \in Pub
          BY <2>1 DEF Ranging
        <5>2. n \in Encoding
          BY <2>1, <2>3, <3>1, <4>2, <5>1 DEF Encoding
        <5>3. QED
          BY <5>2 DEF Task
      <4>3. QED
        BY <4>1, <4>2
    <3>3. task' = [task EXCEPT ![g] = n] /\ AppendValues({<<list, i>> : i \in S})
      BY <1>9, <2>5 DEF Select
    <3>4. task' \in [Goroutine -> Task]
      BY <1>0, <3>2, <3>3, TaskUpdate
    <3>5. list \in Pub \/ S = {}
      <4>1. CASE list = NoPub
        BY <2>3, <2>5, <4>1 DEF UpdateValueListSize
      <4>2. QED
        BY <4>1 DEF TypeOK
    <3>6. values' \subseteq Value
      BY <2>3, <3>3, <3>5 DEF AppendValues, ResetValues, TypeOK, Value
    <3>7. QED
      BY <1>9, <2>5, <3>4, <3>6 DEF Select, TypeOK, Task
  <2>6. QED
    BY <2>4, <2>5
<1>10. QED
  BY <1>1, <1>2, <1>3, <1>4, <1>5, <1>6, <1>7, <1>8, <1>9

\* Every step keeps the types.
LEMMA TypeNext == ASSUME TypeOK, Next PROVE TypeOK'
<1>1. ASSUME NEW g \in Handler, MapRace(g) PROVE TypeOK'
  BY <1>1 DEF MapRace, TypeOK
<1>2. ASSUME NEW g \in Local, LocalPublishRegister(g) PROVE TypeOK'
  BY <1>2 DEF LocalPublishRegister, TypeOK
<1>3. Handler \subseteq Goroutine /\ Local \subseteq Goroutine /\ Remote \subseteq Pub
  BY DEF Goroutine, Remote
<1>4. QED
  BY <1>1, <1>2, <1>3, TypeRequest, TypePublication DEF Next

\* Every variable has its type in every reachable state, however many goroutines
\* share the tables and the UpdateValueHandler of handler.go.
THEOREM TypeCorrect == Spec => []TypeOK
<1>1. ASSUME TypeOK, UNCHANGED vars PROVE TypeOK'
  BY <1>1 DEF vars, TypeOK
<1>2. TypeOK /\ [Next]_vars => TypeOK'
  BY <1>1, TypeNext
<1>3. QED
  BY TypeInit, <1>2, PTL DEF Spec

-----------------------------------------------------------------------------
(* The updates of a notification.                                          *)

\* The values of publication p at the positions of S.
Of(p, S) == {<<p, i>> : i \in S}

\* While a goroutine publishes, the UpdateValueHandler is its own: it holds the
\* values of its publication, and between two subscribers none is appended.
Collecting(g) ==
  LET t == task[g] IN
  /\ t.pc = "check" \/ Publishing(g) => list = t.pub
  /\ t.pc = "encode" => values = Of(t.pub, t.headers)
  /\ t.pc = "notify" => t.body = Of(t.pub, t.headers)
  /\ t.pc # "encode" => values = {}

Collected == \A g \in Goroutine : Collecting(g)

\* One goroutine handles the messages and publishes, and every value decodes.
Serial ==
  /\ \A g, h \in Goroutine : g = h
  /\ Undecodable = {}

\* Nothing is appended before the first publication.
LEMMA CollectedInit == Init => Collected /\ UpdatesIntact
  BY DEF Init, Collected, Collecting, Idle, Publishing, UpdatesIntact, Notifications

\* A message that is no NOTIFY, or one that carries its own values, is sent.
LEMMA IntactAppend ==
  ASSUME TypeOK, UpdatesIntact, NEW m \in Message,
         m.stage = "NOTIFY" => m.body = Of(m.pub, m.headers),
         outbox' = Append(outbox, m)
  PROVE  UpdatesIntact'
<1> SUFFICES ASSUME NEW i \in DOMAIN outbox', outbox'[i].stage = "NOTIFY"
             PROVE  outbox'[i].body = {<<outbox'[i].pub, h>> : h \in outbox'[i].headers}
  BY DEF UpdatesIntact, Notifications
<1>1. outbox \in Seq(Message)
  BY DEF TypeOK, Message
<1>2. CASE i \in DOMAIN outbox
  <2>1. outbox'[i] = outbox[i]
    BY <1>1, <1>2
  <2>2. QED
    BY <1>2, <2>1 DEF UpdatesIntact, Notifications
<1>3. CASE i \notin DOMAIN outbox
  <2>1. outbox'[i] = m
    BY <1>1, <1>3
  <2>2. QED
    BY <2>1 DEF Of
<1>4. QED
  BY <1>2, <1>3

\* A goroutine that is alone keeps its values to itself.
LEMMA CollectedNext ==
  ASSUME Serial, TypeOK, Collected, UpdatesIntact, Next
  PROVE  Collected' /\ UpdatesIntact'
<1>0. task \in [Goroutine -> Task]
  BY DEF TypeOK, Task
<1>1. ASSUME outbox' = outbox PROVE UpdatesIntact'
  BY <1>1 DEF UpdatesIntact, Notifications
<1>2. ASSUME NEW g \in Goroutine, Collecting(g)' PROVE Collected'
  BY <1>2 DEF Serial, Collected
<1>3. ASSUME NEW g \in Handler, HandleRequest(g)
      PROVE  Collected' /\ UpdatesIntact'
  <2>1. g \in Goroutine
    BY DEF Goroutine
  <2>2. task[g].pc = "idle" /\ task'[g].pc = "ack" /\ values' = values /\ outbox' = outbox
    <3>1. ASSUME NEW stage, NEW u, NEW error, Handles(g, stage, u, error)
          PROVE  task[g].pc = "idle" /\ task'[g].pc = "ack"
      BY <1>0, <2>1, <3>1 DEF Handles
    <3>2. ASSUME NEW x \in Subscriber, NEW r \in Request, Register(g, x, r)
          PROVE  task[g].pc = "idle" /\ task'[g].pc = "ack" /\ values' = values /\ outbox' = outbox
      BY <3>1, <3>2 DEF Register
    <3>3. ASSUME NEW u \in Consumer, RegisterFails(g, u)
          PROVE  task[g].pc = "idle" /\ task'[g].pc = "ack" /\ values' = values /\ outbox' = outbox
      BY <3>1, <3>3 DEF RegisterFails
    <3>4. ASSUME NEW u \in Consumer, NEW S \in SUBSET SubId, Deregister(g, u, S)
          PROVE  task[g].pc = "idle" /\ task'[g].pc = "ack" /\ values' = values /\ outbox' = outbox
      BY <2>1, <3>4 DEF Deregister
    <3>5. ASSUME NEW u \in Publisher, NEW error \in BOOLEAN, PublishRegister(g, u, error)
          PROVE  task[g].pc = "idle" /\ task'[g].pc = "ack" /\ values' = values /\ outbox' = outbox
      BY <3>1, <3>5 DEF PublishRegister
    <3>6. ASSUME NEW u \in Publisher, PublishDeregister(g, u)
          PROVE  task[g].pc = "idle" /\ task'[g].pc = "ack" /\ values' = values /\ outbox' = outbox
      BY <3>1, <3>6 DEF PublishDeregister
    <3>7. QED
      BY <1>3, <3>2, <3>3, <3>4, <3>5, <3>6 DEF HandleRequest
  <2>3. values' = {}
    BY <2>1, <2>2 DEF Collected, Collecting
  <2>4. Collecting(g)'
    BY <2>2, <2>3 DEF Collecting, Publishing
  <2>5. QED
    BY <1>1, <1>2, <2>1, <2>2, <2>4
<1>4. ASSUME NEW g \in Goroutine, Ack(g)
      PROVE  Collected' /\ UpdatesIntact'
  <2>1. task[g].reply \in Acks
    BY <1>4, TaskOf DEF Ack, Acking
  <2>2. task[g].reply \in Message /\ task[g].reply.stage # "NOTIFY"
    BY <2>1 DEF Acks, Message
  <2>3. UpdatesIntact'
    BY <1>4, <2>2, IntactAppend DEF Ack, Sent
  <2>4. values' = {} /\ task'[g] = Idle
    BY <1>0, <1>4 DEF Ack, Collected, Collecting
  <2>5. Collecting(g)'
    BY <2>4 DEF Collecting, Publishing, Idle
  <2>6. QED
    BY <1>2, <2>3, <2>5
<1>5. ASSUME NEW g \in Goroutine, NEW p \in Pub, Publish(g, p)
      PROVE  Collected' /\ UpdatesIntact'
  <2>1. list' = p /\ values' = {}
    BY <1>5 DEF Publish, DecodeUpdateValueList, ResetValues, Serial
  <2>2. task'[g] = [pc |-> "check", pub |-> p]
    BY <1>0, <1>5 DEF Publish
  <2>3. Collecting(g)'
    BY <2>1, <2>2 DEF Collecting, Publishing
  <2>4. QED
    BY <1>1, <1>2, <1>5, <2>3 DEF Publish
<1>6. ASSUME NEW g \in Goroutine, NEW p \in Pub, PublishFails(g, p)
      PROVE  Collected' /\ UpdatesIntact'
  <2>1. values' = {}
    BY <1>6 DEF PublishFails, Collected, Collecting
  <2>2. task'[g] = [pc |-> "error", pub |-> p]
    BY <1>0, <1>6 DEF PublishFails
  <2>3. Collecting(g)'
    BY <2>1, <2>2 DEF Collecting, Publishing
  <2>4. QED
    BY <1>1, <1>2, <1>6, <2>3 DEF PublishFails
<1>7. ASSUME NEW g \in Goroutine, Check(g)
      PROVE  Collected' /\ UpdatesIntact'
  <2>1. values' = {} /\ list' = task[g].pub
    BY <1>7 DEF Check, Collected, Collecting
  <2>2. \/ task'[g] = Idle
        \/ task'[g].pc = "range" /\ task'[g].pub = task[g].pub
        \/ task'[g].pc = "error"
    BY <1>0, <1>7 DEF Check
  <2>3. Collecting(g)'
    BY <2>1, <2>2 DEF Collecting, Publishing, Idle
  <2>4. QED
    BY <1>1, <1>2, <1>7, <2>3 DEF Check
<1>8. ASSUME NEW g \in Goroutine, NEW k \in Keys, Select(g, k)
      PROVE  Collected' /\ UpdatesIntact'
  <2> DEFINE t == task[g]
             S == Selects[subs[k].request][t.pub]
  <2>1. values = {} /\ list' = list /\ list = t.pub
    BY <1>8 DEF Select, Collected, Collecting, Publishing
  <2>2. CASE \E i \in S : i > UpdateValueListSize
    <3>1. values' = values /\ task' = task
      BY <1>8, <2>2 DEF Select
    <3>2. Collecting(g)'
      BY <2>1, <3>1 DEF Collected, Collecting, Publishing
    <3>3. QED
      BY <1>1, <1>2, <1>8, <3>2 DEF Select
  <2>3. CASE ~ \E i \in S : i > UpdateValueListSize
    <3>1. CASE S = {}
      <4>1. values' = {}
        BY <1>8, <2>3, <3>1 DEF Select, AppendValues, ResetValues
      <4>2. t \in Ranging
        BY <1>8, TaskOf DEF Select
      <4>3. task'[g] = [t EXCEPT !.must = @ \ {k}, !.seen = @ \cup {k}]
        BY <1>0, <1>8, <2>3, <3>1 DEF Select
      <4>4. task'[g].pc = "range" /\ task'[g].pub = t.pub
        BY <4>2, <4>3 DEF Ranging
      <4>5. Collecting(g)'
        BY <2>1, <4>1, <4>4 DEF Collecting, Publishing
      <4>6. QED
        BY <1>1, <1>2, <1>8, <4>5 DEF Select
    <3>2. CASE S # {}
      <4>1. values' = Of(t.pub, S)
        <5>1. values' = values \cup {<<list, i>> : i \in S}
          <6> DEFINE V == {<<list, i>> : i \in S}
          <6>1. AppendValues(V)
            BY <1>8, <2>3 DEF Select
          <6>2. V # {}
            BY <3>2
          <6>3. QED
            BY <6>1, <6>2 DEF AppendValues
        <5>2. QED
          BY <2>1, <5>1 DEF Of
      <4>2. task'[g].pc = "encode" /\ task'[g].pub = t.pub /\ task'[g].headers = S
        BY <1>0, <1>8, <2>3, <3>2 DEF Select
      <4>3. Collecting(g)'
        BY <2>1, <4>1, <4>2 DEF Collecting, Publishing
      <4>4. QED
        BY <1>1, <1>2, <1>8, <4>3 DEF Select
    <3>3. QED
      BY <3>1, <3>2
  <2>4. QED
    BY <2>2, <2>3
<1>9. ASSUME NEW g \in Goroutine, Encode(g)
      PROVE  Collected' /\ UpdatesIntact'
  <2>1. values = Of(task[g].pub, task[g].headers) /\ list = task[g].pub
    BY <1>9 DEF Encode, Collected, Collecting, Publishing
  <2>2. /\ task'[g].pc = "notify" /\ task'[g].pub = task[g].pub
        /\ task'[g].headers = task[g].headers /\ task'[g].body = values
    BY <1>0, <1>9 DEF Encode
  <2>3. values' = {} /\ list' = list
    BY <1>9 DEF Encode, ResetValues
  <2>4. Collecting(g)'
    BY <2>1, <2>2, <2>3 DEF Collecting, Publishing
  <2>5. QED
    BY <1>1, <1>2, <1>9, <2>4 DEF Encode
<1>10. ASSUME NEW g \in Goroutine, Notify(g)
       PROVE  Collected' /\ UpdatesIntact'
  <2> DEFINE t == task[g]
             m == [stage |-> "NOTIFY", to |-> t.sub.owner[1], tid |-> t.sub.tid,
                   pub |-> t.pub, headers |-> t.headers, body |-> t.body]
  <2>1. t \in Notifying
    BY <1>10, TaskOf DEF Notify
  <2>2. t.sub.owner[1] \in Consumer /\ t.sub.tid \in 1 .. MaxRequests
    BY <2>1 DEF Notifying, BrokerSub, Subscriber
  <2>3. m \in Message
    BY <2>1, <2>2 DEF Notifying, Notifies, Message
  <2>4. t.body = Of(t.pub, t.headers) /\ values = {} /\ list = t.pub
    BY <1>10 DEF Notify, Collected, Collecting, Publishing
  <2>5. outbox' = Append(outbox, m)
    BY <1>10 DEF Notify
  <2>6. UpdatesIntact'
    BY <2>3, <2>4, <2>5, IntactAppend
  <2>7. task'[g].pc = "range" /\ task'[g].pub = t.pub /\ values' = values /\ list' = list
    BY <1>0, <1>10 DEF Notify, AfterNotify, BackToRange
  <2>8. Collecting(g)'
    BY <2>4, <2>7 DEF Collecting, Publishing
  <2>9. QED
    BY <1>2, <2>6, <2>8
<1>11. ASSUME NEW g \in Goroutine, RangeEnds(g)
       PROVE  Collected' /\ UpdatesIntact'
  <2>1. task'[g] = Idle /\ values' = {}
    BY <1>0, <1>11 DEF RangeEnds, Collected, Collecting
  <2>2. Collecting(g)'
    BY <2>1 DEF Collecting, Publishing, Idle
  <2>3. QED
    BY <1>1, <1>2, <1>11, <2>2 DEF RangeEnds
<1>12. ASSUME NEW g \in Goroutine, PublishError(g)
       PROVE  Collected' /\ UpdatesIntact'
  <2>1. task[g].pub \in Pub /\ task[g].pc = "error" /\ values' = {}
    BY <1>12, TaskOf DEF PublishError, Starting, Collected, Collecting
  <2>2. CASE From[task[g].pub] \in pubs
    <3>1. [stage |-> "PUBLISH_ERROR", to |-> From[task[g].pub], pub |-> task[g].pub] \in Message
      BY <2>1, PubAssumption DEF Errors, Message
    <3>2. UpdatesIntact'
      BY <1>12, <2>2, <3>1, IntactAppend DEF PublishError
    <3>3. task'[g] = Idle
      BY <1>0, <1>12, <2>2 DEF PublishError
    <3>4. Collecting(g)'
      BY <2>1, <3>3 DEF Collecting, Publishing, Idle
    <3>5. QED
      BY <1>2, <3>2, <3>4
  <2>3. CASE From[task[g].pub] \notin pubs
    <3>1. task' = task /\ outbox' = outbox
      BY <1>12, <2>3 DEF PublishError
    <3>2. Collecting(g)'
      BY <2>1, <3>1 DEF Collecting, Publishing
    <3>3. QED
      BY <1>1, <1>2, <3>1, <3>2
  <2>4. QED
    BY <2>2, <2>3
<1>13. ASSUME NEW g \in Goroutine, MapRace(g) \/ LocalPublishRegister(g)
       PROVE  Collected' /\ UpdatesIntact'
  <2>1. UNCHANGED <<list, values, task, outbox>>
    BY <1>13 DEF MapRace, LocalPublishRegister
  <2>2. QED
    BY <1>1, <2>1 DEF Collected, Collecting, Publishing
<1>14. Handler \subseteq Goroutine /\ Local \subseteq Goroutine /\ Remote \subseteq Pub
  BY DEF Goroutine, Remote
<1>15. QED
  BY <1>3, <1>4, <1>5, <1>6, <1>7, <1>8, <1>9, <1>10, <1>11, <1>12, <1>13, <1>14 DEF Next

\* With one goroutine and values that decode, every NOTIFY carries the values of
\* its headers, for any subscriptions, publications and errors between them.
THEOREM UpdatesKept == Serial => (Spec => []UpdatesIntact)
<1> SUFFICES ASSUME Serial PROVE Spec => []UpdatesIntact
  OBVIOUS
<1> DEFINE Kept == TypeOK /\ Collected /\ UpdatesIntact
<1>1. Init => Kept
  BY TypeInit, CollectedInit
<1>2. Kept /\ [Next]_vars => Kept'
  <2>1. ASSUME Kept, Next PROVE Kept'
    BY <2>1, TypeNext, CollectedNext
  <2>2. ASSUME Kept, UNCHANGED vars PROVE Kept'
    BY <2>2 DEF vars, TypeOK, Collected, Collecting, Publishing, UpdatesIntact, Notifications
  <2>3. QED
    BY <2>1, <2>2
<1>3. QED
  BY <1>1, <1>2, PTL DEF Spec

-----------------------------------------------------------------------------
(* Acknowledgements and notifications.                                     *)

\* Every subscription of the table, and every one that a goroutine has read there
\* to notify it, was registered by a REGISTER that is accepted.
Known(k) == subs[k] # NoSub => Promised(subs[k].tid)
Greeted(g) == task[g].pc \in {"encode", "notify"} => Promised(task[g].sub.tid)

Promising ==
  (\A k \in Keys : Known(k)) /\ (\A g \in Goroutine : Greeted(g)) /\ NotifiedAccepted

\* A step sends nothing, or a message that is no NOTIFY of a refused registration.
Sends ==
  \/ outbox' = outbox
  \/ \E m \in Message : /\ outbox' = Append(outbox, m)
                        /\ m.stage = "NOTIFY" => Promised(m.tid)

\* What is promised stays promised.
Keeps == \A tid : Promised(tid) => Promised(tid)'

\* A message that was sent stays sent.
LEMMA SentStays ==
  ASSUME TypeOK, Sends, NEW i \in DOMAIN outbox
  PROVE  i \in DOMAIN outbox' /\ outbox'[i] = outbox[i]
<1>1. outbox \in Seq(Message)
  BY DEF TypeOK, Message
<1>2. CASE outbox' = outbox
  BY <1>2
<1>3. CASE \E m \in Message : outbox' = Append(outbox, m)
  BY <1>1, <1>3
<1>4. QED
  BY <1>2, <1>3 DEF Sends

\* An answer that is sent, or that a goroutine has to send and goes on having,
\* is not taken back.
LEMMA PromisedStays ==
  ASSUME TypeOK, Sends,
         \A h \in Goroutine : task[h].pc = "ack" => task'[h] = task[h]
  PROVE  Keeps
<1> SUFFICES ASSUME NEW tid, Promised(tid) PROVE Promised(tid)'
  BY DEF Keeps
<1>1. CASE \E j \in DOMAIN outbox : Accepts(outbox[j], tid)
  <2>1. PICK j \in DOMAIN outbox : Accepts(outbox[j], tid)
    BY <1>1
  <2>2. j \in DOMAIN outbox' /\ outbox'[j] = outbox[j]
    BY SentStays
  <2>3. QED
    BY <2>1, <2>2 DEF Promised
<1>2. CASE \E g \in Goroutine : task[g].pc = "ack" /\ Accepts(task[g].reply, tid)
  BY <1>2 DEF Promised
<1>3. QED
  BY <1>1, <1>2 DEF Promised

\* The goroutine that had an answer to send has sent it.
LEMMA PromiseKept ==
  ASSUME TypeOK, NEW g \in Goroutine, Ack(g)
  PROVE  Sends /\ Keeps
<1>0. task \in [Goroutine -> Task] /\ outbox \in Seq(Message)
  BY DEF TypeOK, Task, Message
<1>1. task[g].reply \in Acks /\ outbox' = Append(outbox, task[g].reply)
  BY TaskOf DEF Ack, Acking, Sent
<1>2. Sends
  BY <1>1 DEF Sends, Message, Acks
<1> SUFFICES ASSUME NEW tid, Promised(tid) PROVE Promised(tid)'
  BY <1>2 DEF Keeps
<1>3. CASE \E j \in DOMAIN outbox : Accepts(outbox[j], tid)
  <2>1. PICK j \in DOMAIN outbox : Accepts(outbox[j], tid)
    BY <1>3
  <2>2. j \in DOMAIN outbox' /\ outbox'[j] = outbox[j]
    BY <1>2, SentStays
  <2>3. QED
    BY <2>1, <2>2 DEF Promised
<1>4. CASE \E h \in Goroutine : task[h].pc = "ack" /\ Accepts(task[h].reply, tid)
  <2>1. PICK h \in Goroutine : task[h].pc = "ack" /\ Accepts(task[h].reply, tid)
    BY <1>4
  <2>2. CASE h = g
    <3>1. task[g].reply \in Message
      BY <1>1 DEF Message
    <3>2. Len(outbox) + 1 \in DOMAIN outbox' /\ outbox'[Len(outbox) + 1] = task[g].reply
      BY <1>0, <1>1, <3>1
    <3>3. QED
      BY <2>1, <2>2, <3>2 DEF Promised
  <2>3. CASE h # g
    <3>1. task'[h] = task[h]
      BY <1>0, <2>3 DEF Ack
    <3>2. QED
      BY <2>1, <3>1 DEF Promised
  <2>4. QED
    BY <2>2, <2>3
<1>5. QED
  BY <1>3, <1>4 DEF Promised

\* What is notified remains accepted.
LEMMA NotifiedStays ==
  ASSUME TypeOK, NotifiedAccepted, Sends, Keeps
  PROVE  NotifiedAccepted'
<1> SUFFICES ASSUME NEW i \in DOMAIN outbox', outbox'[i].stage = "NOTIFY",
                    NEW tid, tid = outbox'[i].tid
             PROVE  Promised(tid)'
  BY DEF NotifiedAccepted, Notifications, Promised
<1>1. CASE i \in DOMAIN outbox
  <2>1. outbox'[i] = outbox[i]
    BY <1>1, SentStays
  <2>2. Promised(outbox[i].tid)
    BY <1>1, <2>1 DEF NotifiedAccepted, Notifications
  <2>3. QED
    BY <2>1, <2>2 DEF Keeps
<1>2. CASE i \notin DOMAIN outbox
  <2>1. PICK m \in Message : outbox' = Append(outbox, m) /\ (m.stage = "NOTIFY" => Promised(m.tid))
    BY <1>2 DEF Sends
  <2>2. outbox \in Seq(Message)
    BY DEF TypeOK, Message
  <2>3. outbox'[i] = m
    BY <1>2, <2>1, <2>2
  <2>4. QED
    BY <2>1, <2>3 DEF Keeps
<1>3. QED
  BY <1>1, <1>2

\* Goroutine g, which has no answer to send, leaves the table alone, and notifies
\* at most a subscription that it has read there.
LEMMA PromisingQuiet ==
  ASSUME TypeOK, Promising, Sends, UNCHANGED subs, NEW g \in Goroutine,
         task[g].pc # "ack", \A h \in Goroutine \ {g} : task'[h] = task[h],
         task'[g].pc \in {"encode", "notify"} => Promised(task'[g].sub.tid)
  PROVE  Promising'
<1>1. Keeps
  BY PromisedStays
<1>2. NotifiedAccepted'
  BY <1>1, NotifiedStays DEF Promising
<1>3. ASSUME NEW k \in Keys PROVE Known(k)'
  BY <1>1 DEF Promising, Known, Keeps
<1>4. ASSUME NEW h \in Goroutine PROVE Greeted(h)'
  BY <1>1 DEF Promising, Greeted, Keeps
<1>5. QED
  BY <1>2, <1>3, <1>4 DEF Promising

\* A handler reads its request and has an answer to send, which accepts what it
\* enters into the table.
LEMMA PromisingRequest ==
  ASSUME TypeOK, Promising, UNCHANGED outbox, NEW g \in Goroutine,
         task[g].pc # "ack", task'[g].pc = "ack",
         \A h \in Goroutine \ {g} :
           /\ task[h].pc = "ack" => task'[h] = task[h]
           /\ task'[h].pc = task[h].pc
           /\ task[h].pc \in {"encode", "notify"} => task'[h].sub = task[h].sub,
         \A k \in Keys : \/ subs'[k] \in {NoSub, subs[k]}
                         \/ Accepts(task'[g].reply, subs'[k].tid)
  PROVE  Promising'
<1>1. Sends /\ Keeps
  BY PromisedStays DEF Sends
<1>2. NotifiedAccepted'
  BY <1>1, NotifiedStays DEF Promising
<1>3. ASSUME NEW k \in Keys PROVE Known(k)'
  <2>1. CASE subs'[k] \in {NoSub, subs[k]}
    BY <1>1, <2>1 DEF Promising, Known, Keeps
  <2>2. CASE Accepts(task'[g].reply, subs'[k].tid)
    BY <2>2 DEF Known, Promised
  <2>3. QED
    BY <2>1, <2>2
<1>4. ASSUME NEW h \in Goroutine PROVE Greeted(h)'
  <2>1. CASE h = g
    BY <2>1 DEF Greeted
  <2>2. CASE h # g
    BY <1>1, <2>2 DEF Promising, Greeted, Keeps
  <2>3. QED
    BY <2>1, <2>2
<1>5. QED
  BY <1>2, <1>3, <1>4 DEF Promising

\* Every step keeps its promises.
LEMMA PromisingNext ==
  ASSUME TypeOK, Promising, Next
  PROVE  Promising'
<1>0. task \in [Goroutine -> Task]
  BY DEF TypeOK, Task
<1>1. ASSUME NEW g \in Goroutine, NEW stage, NEW u, NEW error, Handles(g, stage, u, error)
      PROVE  /\ task[g].pc # "ack" /\ task'[g].pc = "ack"
             /\ \A h \in Goroutine \ {g} : task'[h] = task[h]
             /\ task'[g].reply = [stage |-> stage, to |-> u, tid |-> asked + 1, error |-> error]
  BY <1>0, <1>1 DEF Handles
<1>2. ASSUME NEW g \in Goroutine, NEW x \in Subscriber, NEW r \in Request, Register(g, x, r)
      PROVE  Promising'
  <2>1. Handles(g, "REGISTER_ACK", x[1], FALSE) /\ UNCHANGED outbox
    BY <1>2 DEF Register
  <2>2. /\ task[g].pc # "ack" /\ task'[g].pc = "ack"
        /\ \A h \in Goroutine \ {g} : task'[h] = task[h]
    BY <1>1, <2>1
  <2>3. task'[g].reply = [stage |-> "REGISTER_ACK", to |-> x[1], tid |-> asked + 1, error |-> FALSE]
    BY <1>0, <2>1 DEF Handles
  <2>4. ASSUME NEW k \in Keys PROVE subs'[k] = subs[k] \/ Accepts(task'[g].reply, subs'[k].tid)
    <3>1. subs'[k] = subs[k] \/ subs'[k].tid = asked + 1
      BY <1>2 DEF Register, NewSub, TypeOK
    <3>2. QED
      BY <2>3, <3>1 DEF Accepts
  <2>5. QED
    BY <2>1, <2>2, <2>4, PromisingRequest
<1>3. ASSUME NEW g \in Goroutine, NEW u, NEW error \in BOOLEAN,
             RegisterFails(g, u) \/ PublishRegister(g, u, error) \/ PublishDeregister(g, u)
      PROVE  Promising'
  <2>1. UNCHANGED <<subs, outbox>>
    BY <1>3 DEF RegisterFails, PublishRegister, PublishDeregister
  <2>2. PICK stage, e : Handles(g, stage, u, e)
    BY <1>3 DEF RegisterFails, PublishRegister, PublishDeregister
  <2>3. /\ task[g].pc # "ack" /\ task'[g].pc = "ack"
        /\ \A h \in Goroutine \ {g} : task'[h] = task[h]
    BY <1>1, <2>2
  <2>4. QED
    BY <2>1, <2>3, PromisingRequest
<1>4. ASSUME NEW g \in Goroutine, NEW u \in Consumer, NEW S \in SUBSET SubId, Deregister(g, u, S)
      PROVE  Promising'
  <2>1. task[g].pc # "ack" /\ task'[g].pc = "ack" /\ UNCHANGED outbox
    BY <1>4 DEF Deregister
  <2>2. ASSUME NEW k \in Keys PROVE subs'[k] \in {NoSub, subs[k]}
    BY <1>4 DEF Deregister
  <2>3. ASSUME NEW h \in Goroutine \ {g}
        PROVE  /\ task[h].pc = "ack" => task'[h] = task[h]
               /\ task'[h].pc = task[h].pc
               /\ task[h].pc \in {"encode", "notify"} => task'[h].sub = task[h].sub
    <3>1. PICK K : task'[h] = Forget(task[h], K)
      BY <1>4 DEF Deregister
    <3>2. CASE task[h].pc \in {"range", "encode", "notify"}
      <4>1. task[h] \in Ranging \cup Encoding \cup Notifying
        BY <3>2, TaskOf
      <4>2. task'[h] = [task[h] EXCEPT !.must = @ \ K, !.seen = @ \ K]
        BY <3>1, <3>2 DEF Forget
      <4>3. QED
        BY <3>2, <4>1, <4>2 DEF Ranging, Encoding, Notifying
    <3>3. CASE task[h].pc \notin {"range", "encode", "notify"}
      BY <3>1, <3>3 DEF Forget
    <3>4. QED
      BY <3>2, <3>3
  <2>4. QED
    BY <2>1, <2>2, <2>3, PromisingRequest
<1>5. ASSUME NEW g \in Goroutine, Ack(g)
      PROVE  Promising'
  <2>1. Sends /\ Keeps
    BY <1>5, PromiseKept
  <2>2. UNCHANGED subs /\ task' = [task EXCEPT ![g] = Idle]
    BY <1>5 DEF Ack
  <2>3. NotifiedAccepted'
    BY <2>1, NotifiedStays DEF Promising
  <2>4. ASSUME NEW k \in Keys PROVE Known(k)'
    BY <2>1, <2>2 DEF Promising, Known, Keeps
  <2>5. ASSUME NEW h \in Goroutine PROVE Greeted(h)'
    <3>1. task'[h] = task[h] \/ task'[h] = Idle
      BY <1>0, <2>2
    <3>2. QED
      BY <2>1, <3>1 DEF Promising, Greeted, Keeps, Idle
  <2>6. QED
    BY <2>3, <2>4, <2>5 DEF Promising
<1>6. ASSUME NEW g \in Goroutine, NEW p \in Pub, Publish(g, p) \/ PublishFails(g, p)
      PROVE  Promising'
  <2>1. task'[g].pc \in {"check", "error"} /\ task[g].pc # "ack" /\ UNCHANGED <<subs, outbox>>
    BY <1>0, <1>6 DEF Publish, PublishFails
  <2>2. \A h \in Goroutine \ {g} : task'[h] = task[h]
    BY <1>0, <1>6 DEF Publish, PublishFails
  <2>3. QED
    BY <2>1, <2>2, PromisingQuiet DEF Sends
<1>7. ASSUME NEW g \in Goroutine, Check(g) \/ RangeEnds(g)
      PROVE  Promising'
  <2>1. task'[g].pc \in {"range", "idle", "error"}
    BY <1>0, <1>7 DEF Check, RangeEnds, Idle
  <2>2. task[g].pc # "ack" /\ UNCHANGED <<subs, outbox>>
    BY <1>7 DEF Check, RangeEnds
  <2>3. \A h \in Goroutine \ {g} : task'[h] = task[h]
    BY <1>0, <1>7 DEF Check, RangeEnds
  <2>4. QED
    BY <2>1, <2>2, <2>3, PromisingQuiet DEF Sends
<1>8. ASSUME NEW g \in Goroutine, NEW k \in Keys, Select(g, k)
      PROVE  Promising'
  <2> DEFINE t == task[g]
             S == Selects[subs[k].request][t.pub]
  <2>1. t \in Ranging /\ t.pc = "range" /\ UNCHANGED <<subs, outbox>>
    BY <1>8, TaskOf DEF Select
  <2>2. Promised(subs[k].tid)
    BY <1>8 DEF Select, Promising, Known
  <2>3. \A h \in Goroutine \ {g} : task'[h] = task[h]
    BY <1>0, <1>8 DEF Select
  <2>4. task'[g].pc \in {"encode", "notify"} => task'[g].sub = subs[k]
    <3>1. CASE \E i \in S : i > UpdateValueListSize
      <4>1. UNCHANGED task
        BY <1>8, <3>1 DEF Select
      <4>2. QED
        BY <2>1, <4>1
    <3>2. CASE S = {}
      <4>1. task'[g] = [t EXCEPT !.must = @ \ {k}, !.seen = @ \cup {k}]
        BY <1>0, <1>8, <3>2 DEF Select
      <4>2. QED
        BY <2>1, <4>1 DEF Ranging
    <3>3. CASE ~(\E i \in S : i > UpdateValueListSize) /\ S # {}
      BY <1>0, <1>8, <3>3 DEF Select
    <3>4. QED
      BY <3>1, <3>2, <3>3
  <2>5. QED
    BY <2>1, <2>2, <2>3, <2>4, PromisingQuiet DEF Sends
<1>9. ASSUME NEW g \in Goroutine, Encode(g)
      PROVE  Promising'
  <2>1. task'[g].sub = task[g].sub /\ task[g].pc = "encode" /\ UNCHANGED <<subs, outbox>>
    BY <1>0, <1>9 DEF Encode
  <2>2. \A h \in Goroutine \ {g} : task'[h] = task[h]
    BY <1>0, <1>9 DEF Encode
  <2>3. Promised(task'[g].sub.tid)
    BY <2>1 DEF Promising, Greeted
  <2>4. QED
    BY <2>1, <2>2, <2>3, PromisingQuiet DEF Sends
<1>10. ASSUME NEW g \in Goroutine, Notify(g)
       PROVE  Promising'
  <2> DEFINE t == task[g]
             m == [stage |-> "NOTIFY", to |-> t.sub.owner[1], tid |-> t.sub.tid,
                   pub |-> t.pub, headers |-> t.headers, body |-> t.body]
  <2>1. t \in Notifying /\ t.pc = "notify"
    BY <1>10, TaskOf DEF Notify
  <2>2. t.sub.owner[1] \in Consumer /\ t.sub.tid \in 1 .. MaxRequests
    BY <2>1 DEF Notifying, BrokerSub, Subscriber
  <2>3. m \in Message
    BY <2>1, <2>2 DEF Notifying, Notifies, Message
  <2>4. Promised(m.tid)
    BY <2>1 DEF Promising, Greeted
  <2>5. outbox' = Append(outbox, m) /\ UNCHANGED subs
    BY <1>10 DEF Notify
  <2>6. Sends
    BY <2>3, <2>4, <2>5 DEF Sends
  <2>7. task'[g].pc = "range" /\ \A h \in Goroutine \ {g} : task'[h] = task[h]
    BY <1>0, <1>10 DEF Notify, AfterNotify, BackToRange
  <2>8. QED
    BY <2>1, <2>5, <2>6, <2>7, PromisingQuiet
<1>11. ASSUME NEW g \in Goroutine, PublishError(g)
       PROVE  Promising'
  <2>1. task[g].pub \in Pub /\ task[g].pc = "error" /\ UNCHANGED subs
    BY <1>11, TaskOf DEF PublishError, Starting
  <2>2. \A h \in Goroutine \ {g} : task'[h] = task[h]
    BY <1>0, <1>11 DEF PublishError
  <2>3. task'[g].pc \in {"idle", "error"}
    BY <1>0, <1>11, <2>1 DEF PublishError, Idle
  <2>4. Sends
    <3> DEFINE m == [stage |-> "PUBLISH_ERROR", to |-> From[task[g].pub], pub |-> task[g].pub]
    <3>1. m \in Message /\ m.stage # "NOTIFY"
      BY <2>1, PubAssumption DEF Errors, Message
    <3>2. outbox' \in {outbox, Append(outbox, m)}
      BY <1>11 DEF PublishError
    <3>3. QED
      BY <3>1, <3>2 DEF Sends
  <2>5. QED
    BY <2>1, <2>2, <2>3, <2>4, PromisingQuiet
<1>12. ASSUME NEW g \in Goroutine, MapRace(g) \/ LocalPublishRegister(g)
       PROVE  Promising'
  <2>1. task[g].pc = "idle" /\ UNCHANGED <<subs, task, outbox>>
    BY <1>12 DEF MapRace, LocalPublishRegister
  <2>2. QED
    BY <2>1, PromisingQuiet DEF Sends
<1>13. Handler \subseteq Goroutine /\ Local \subseteq Goroutine /\ Remote \subseteq Pub
  BY DEF Goroutine, Remote
<1>14. ASSUME NEW g \in Handler, HandleRequest(g)
       PROVE  Promising'
  BY <1>2, <1>3, <1>4, <1>13, <1>14 DEF HandleRequest
<1>15. QED
  BY <1>5, <1>6, <1>7, <1>8, <1>9, <1>10, <1>11, <1>12, <1>13, <1>14 DEF Next

\* Whatever handlers and publishers do at once, a REGISTER whose transaction is
\* notified has been answered without an error, or is about to be.
THEOREM OnlyAccepted == Spec => []NotifiedAccepted
<1> DEFINE Kept == TypeOK /\ Promising
<1>1. Init => Kept
  <2> SUFFICES ASSUME Init PROVE Promising
    BY TypeInit
  <2>1. NotifiedAccepted
    BY DEF Init, NotifiedAccepted, Notifications
  <2>2. QED
    BY <2>1 DEF Init, Promising, Known, Greeted, Idle
<1>2. Kept /\ [Next]_vars => Kept'
  <2>1. ASSUME Kept, Next PROVE Kept'
    BY <2>1, TypeNext, PromisingNext
  <2>2. ASSUME Kept, UNCHANGED vars PROVE Kept'
    BY <2>2 DEF vars, TypeOK, Promising, Known, Greeted, Promised, NotifiedAccepted, Notifications
  <2>3. QED
    BY <2>1, <2>2
<1>3. Kept => NotifiedAccepted
  BY DEF Promising
<1>4. QED
  BY <1>1, <1>2, <1>3, PTL DEF Spec

-----------------------------------------------------------------------------
(* Subscriptions.                                                          *)

\* No two subscribers have one key.
KeysApart == \A x, y \in Subscriber : Subkey(x) = Subkey(y) => x = y

\* A subscription is found under its owner's key.
Owned == \A k \in Keys : subs[k] # NoSub =>
  subs[k].owner \in Subscriber /\ Subkey(subs[k].owner) = k

OnlyOwner(k) == subs[k] # NoSub /\ subs'[k] # subs[k] =>
  \E g \in Handler : /\ task[g].pc = "idle" /\ task'[g].pc = "ack"
                     /\ task'[g].reply.to = subs[k].owner[1]

\* A step keeps the subscriptions under their keys and changes those of its sender.
LEMMA OwnedNext ==
  ASSUME KeysApart, TypeOK, Owned, Next
  PROVE  Owned' /\ \A k \in Keys : OnlyOwner(k)
<1>0. task \in [Goroutine -> Task] /\ Handler \subseteq Goroutine
  BY DEF TypeOK, Task, Goroutine
<1>1. ASSUME UNCHANGED subs PROVE Owned' /\ \A k \in Keys : OnlyOwner(k)
  BY <1>1 DEF Owned, OnlyOwner
<1>2. ASSUME NEW g \in Handler, NEW x \in Subscriber, NEW r \in Request, Register(g, x, r)
      PROVE  Owned' /\ \A k \in Keys : OnlyOwner(k)
  <2>1. task[g].pc = "idle" /\ task'[g].pc = "ack" /\ task'[g].reply.to = x[1]
    BY <1>0, <1>2 DEF Register, Handles
  <2>2. subs'[Subkey(x)].owner = x
    BY <1>2, KeyOf DEF Register, NewSub, TypeOK
  <2>3. \A k \in Keys : k # Subkey(x) => subs'[k] = subs[k]
    BY <1>2 DEF Register, TypeOK
  <2>4. Owned'
    BY <2>2, <2>3 DEF Owned
  <2>5. ASSUME NEW k \in Keys PROVE OnlyOwner(k)
    BY <2>1, <2>3 DEF OnlyOwner, Owned, KeysApart
  <2>6. QED
    BY <2>4, <2>5
<1>3. ASSUME NEW g \in Handler, NEW u \in Consumer, NEW S \in SUBSET SubId, Deregister(g, u, S)
      PROVE  Owned' /\ \A k \in Keys : OnlyOwner(k)
  <2>1. task[g].pc = "idle" /\ task'[g].pc = "ack" /\ task'[g].reply.to = u
    BY <1>0, <1>3 DEF Deregister
  <2>2. \A k \in Keys : \/ subs'[k] = subs[k]
                        \/ subs'[k] = NoSub /\ \E s \in S : k = Subkey(<<u, s>>)
    <3> DEFINE K == {Subkey(<<u, s>>) : s \in S}
    <3>1. subs' = [k \in Keys |-> IF k \in K THEN NoSub ELSE subs[k]]
      BY <1>3 DEF Deregister
    <3>2. ASSUME NEW k \in Keys
          PROVE  subs'[k] = IF k \in K THEN NoSub ELSE subs[k]
      BY <3>1
    <3>3. \A k \in K : \E s \in S : k = Subkey(<<u, s>>)
      OBVIOUS
    <3> HIDE DEF K
    <3>4. ASSUME NEW k \in Keys
          PROVE  subs'[k] = subs[k] \/ (subs'[k] = NoSub /\ \E s \in S : k = Subkey(<<u, s>>))
      <4>1. CASE k \in K
        <5>1. subs'[k] = NoSub
          BY <3>2, <4>1
        <5>2. \E s \in S : k = Subkey(<<u, s>>)
          BY <3>3, <4>1
        <5>3. QED
          BY <5>1, <5>2
      <4>2. CASE k \notin K
        BY <3>2, <4>2
      <4>3. QED
        BY <4>1, <4>2
    <3>5. QED
      BY <3>4
  <2>3. Owned'
    BY <2>2 DEF Owned
  <2>4. ASSUME NEW k \in Keys, NEW s \in S, k = Subkey(<<u, s>>), subs[k] # NoSub
        PROVE  subs[k].owner[1] = u
    <3>1. <<u, s>> \in Subscriber
      BY DEF Subscriber
    <3>2. subs[k].owner = <<u, s>>
      BY <2>4, <3>1 DEF Owned, KeysApart
    <3>3. QED
      BY <3>2
  <2>5. QED
    BY <2>1, <2>2, <2>3, <2>4 DEF OnlyOwner
<1>4. ASSUME NEW g \in Handler, HandleRequest(g)
      PROVE  Owned' /\ \A k \in Keys : OnlyOwner(k)
  BY <1>1, <1>2, <1>3, <1>4
  DEF HandleRequest, RegisterFails, PublishRegister, PublishDeregister
<1>5. CASE \A g \in Handler : ~HandleRequest(g)
  <2>1. UNCHANGED subs
    BY <1>5 DEF Next, MapRace, Ack, Publish, PublishFails, PublishError, LocalPublishRegister,
                Check, Select, Encode, Notify, RangeEnds
  <2>2. QED
    BY <1>1, <2>1
<1>6. QED
  BY <1>4, <1>5

\* As long as no two subscribers have one key, only its own consumer's messages
\* change a subscription, however many goroutines there are.
THEOREM OnlyOwnersChange == KeysApart => (Spec => OthersUntouched)
<1> SUFFICES ASSUME KeysApart PROVE Spec => OthersUntouched
  OBVIOUS
<1> DEFINE Kept == TypeOK /\ Owned
<1>1. Init => Kept
  BY TypeInit DEF Init, Owned
<1>2. Kept /\ [Next]_vars => Kept'
  <2>1. ASSUME Kept, UNCHANGED vars PROVE Kept'
    BY <2>1 DEF vars, TypeOK, Owned
  <2>2. QED
    BY <2>1, TypeNext, OwnedNext
<1>3. Kept /\ [Next]_vars => [\A k \in Keys : OnlyOwner(k)]_vars
  BY OwnedNext
<1>4. OthersUntouched <=> [][\A k \in Keys : OnlyOwner(k)]_vars
  <2>1. (\A k \in Keys : OnlyOwner(k)) <=>
        \A k \in Keys : subs[k] # NoSub /\ subs'[k] # subs[k] =>
          \E g \in Handler : /\ task[g].pc = "idle" /\ task'[g].pc = "ack"
                             /\ task'[g].reply.to = subs[k].owner[1]
    BY DEF OnlyOwner
  <2>2. QED
    BY <2>1, PTL DEF OthersUntouched
<1>5. QED
  BY <1>1, <1>2, <1>3, <1>4, PTL DEF Spec

-----------------------------------------------------------------------------
(* The broker implements PubSub.                                           *)

\* What PubSub's variables are: the registrations,
Actives == [x \in Subscriber |-> Active(x)]
Registered(s) == [tid |-> s.tid, request |-> s.request]

\* the publications under way,
OpenPubs == {task[g].pub : g \in {h \in Goroutine : Publishing(h)}}

\* what is to be notified, for an entry of the table or for the one in hand,
Due(s, p) == <<s.owner, s.tid, p>>
ByEntry(g, o) ==
  \E k \in task[g].must : /\ task[g].pub \in WantedPubs[subs[k].request]
                          /\ o = Due(subs[k], task[g].pub)
InHand(g) == task[g].pc \in {"encode", "notify"}
ByHand(g, o) == InHand(g) /\ o = Due(task[g].sub, task[g].pub)
Owing == UNION {Owed(g) : g \in Goroutine}

\* and what was notified.
Told == {<<outbox[i].tid, outbox[i].pub>> : i \in Notifications}

LEMMA OwingIs ==
  /\ \A o : o \in Owing <=> \E g \in Goroutine : Publishing(g) /\ (ByEntry(g, o) \/ ByHand(g, o))
  /\ \A o : o \in Owing' <=> \E g \in Goroutine : Publishing(g)' /\ (ByEntry(g, o)' \/ ByHand(g, o)')
<1>1. \A g \in Goroutine : \A o : o \in Owed(g) <=> Publishing(g) /\ (ByEntry(g, o) \/ ByHand(g, o))
  BY DEF Owed, Publishing, ByEntry, ByHand, InHand, Due
<1>2. \A g \in Goroutine : \A o : o \in Owed(g)' <=> Publishing(g)' /\ (ByEntry(g, o)' \/ ByHand(g, o)')
  BY DEF Owed, Publishing, ByEntry, ByHand, InHand, Due
<1>3. QED
  BY <1>1, <1>2 DEF Owing

\* A message sent is one more notification, if it is one.
LEMMA ToldAppend ==
  ASSUME TypeOK, NEW m, outbox' = Append(outbox, m)
  PROVE  Told' = IF m.stage = "NOTIFY" THEN Told \cup {<<m.tid, m.pub>>} ELSE Told
<1>1. /\ DOMAIN outbox' = 1 .. Len(outbox) + 1 /\ DOMAIN outbox = 1 .. Len(outbox)
      /\ Len(outbox) \in Nat
      /\ \A i \in 1 .. Len(outbox) : outbox'[i] = outbox[i]
      /\ outbox'[Len(outbox) + 1] = m
  BY DEF TypeOK
<1>2. \A i : i \in Notifications' <=> i \in Notifications \/ (i = Len(outbox) + 1 /\ m.stage = "NOTIFY")
  BY <1>1 DEF Notifications
<1>3. \A i \in Notifications : outbox'[i] = outbox[i]
  BY <1>1 DEF Notifications
<1>4. QED
  BY <1>1, <1>2, <1>3 DEF Told

\* The registration of a subscriber is that of its entry.
LEMMA ActiveIs ==
  ASSUME KeysApart, TypeOK, Owned
  PROVE  \A x \in Subscriber :
           /\ Subkey(x) \in Keys
           /\ subs[Subkey(x)] = NoSub => Active(x) = NoSub
           /\ subs[Subkey(x)] # NoSub =>
                /\ subs[Subkey(x)] \in BrokerSub
                /\ subs[Subkey(x)].owner = x
                /\ Active(x) = Registered(subs[Subkey(x)])
<1>1. TAKE x \in Subscriber
<1>2. Subkey(x) \in Keys
  BY KeyOf
<1>3. subs[Subkey(x)] # NoSub => subs[Subkey(x)] \in BrokerSub /\ subs[Subkey(x)].owner = x
  BY <1>2 DEF TypeOK, Owned, KeysApart
<1>4. QED
  BY <1>2, <1>3 DEF Active, Registered

\* A publication is the business of one goroutine.
Busy(g) == task[g].pc \in {"check", "error", "range", "encode", "notify"}
OnePublisher ==
  /\ \A g \in Goroutine : Busy(g) => task[g].pub \in published
  /\ \A g, h \in Goroutine : Busy(g) /\ Busy(h) /\ task[g].pub = task[h].pub => g = h

\* The transactions of subscriptions and notifications have numbers of their own.
Numbered ==
  /\ \A k \in Keys : subs[k] # NoSub => subs[k].tid <= asked
  /\ \A j, k \in Keys :
       subs[j] # NoSub /\ subs[k] # NoSub /\ subs[j].tid = subs[k].tid => j = k
  /\ \A g \in Goroutine : InHand(g) => task[g].sub.tid <= asked
  /\ \A d \in Told : d[1] <= asked /\ d[2] \in published

\* A loop that has not begun has told nobody; one under way is to produce entries
\* that are there and that it has not produced, and it has produced those of which
\* a notification was sent or is in hand, which was not sent before.
Untold == \A g \in Goroutine : task[g].pc = "check" => \A d \in Told : d[2] # task[g].pub
Owe(g) ==
  /\ task[g].must \subseteq Keys
  /\ \A k \in task[g].must : subs[k] # NoSub /\ k \notin task[g].seen
  /\ \A k \in Keys : subs[k] # NoSub =>
       /\ <<subs[k].tid, task[g].pub>> \in Told => k \in task[g].seen
       /\ InHand(g) /\ task[g].sub.tid = subs[k].tid => k \in task[g].seen
  /\ InHand(g) => <<task[g].sub.tid, task[g].pub>> \notin Told
Produced == \A g \in Goroutine : Publishing(g) => Owe(g)

Notified == TypeOK /\ Owned /\ OnePublisher /\ Numbered /\ Untold /\ Produced

\* Tasks that publish, by pc.
LEMMA PublishingTask ==
  ASSUME TypeOK, NEW g \in Goroutine
  PROVE  /\ Publishing(g) => /\ Busy(g) /\ task[g].pub \in Pub
                             /\ task[g].must \subseteq Keys /\ task[g].seen \subseteq Keys
         /\ InHand(g) => Publishing(g) /\ task[g].sub \in BrokerSub
         /\ Busy(g) => task[g].pub \in Pub
         /\ Publishing(g) => (task[g].pc = "range" <=> ~InHand(g))
  BY TaskOf DEF Publishing, Busy, InHand, Starting, Ranging, Encoding, Notifying

\* No table and no loop changes, and no notification is sent.
Silent ==
  /\ UNCHANGED subs /\ Told' = Told /\ asked' \in Nat /\ asked <= asked'
  /\ published \subseteq published'
  /\ \A g \in Goroutine : Publishing(g) \/ Publishing(g)' => task'[g] = task[g]

LEMMA SilentView ==
  ASSUME Silent
  PROVE  UNCHANGED P!vars
<1>1. \A g \in Goroutine : /\ Publishing(g)' <=> Publishing(g)
                           /\ Publishing(g) => task'[g] = task[g]
  BY DEF Silent, Publishing
<1>2. Actives' = Actives
  BY DEF Silent, Actives, Active
<1>3. OpenPubs' = OpenPubs
  BY <1>1 DEF OpenPubs
<1>4. Owing' = Owing
  <2>1. \A g \in Goroutine : \A o : Publishing(g) =>
          /\ ByEntry(g, o)' <=> ByEntry(g, o)
          /\ ByHand(g, o)' <=> ByHand(g, o)
    BY <1>1 DEF Silent, ByEntry, ByHand, InHand, Due
  <2>2. \A o : o \in Owing' <=> o \in Owing
    BY <1>1, <2>1, OwingIs
  <2>3. QED
    BY <2>2 DEF Owing
<1>5. QED
  BY <1>2, <1>3, <1>4 DEF Silent, P!vars, Actives, OpenPubs, Owing, Told

LEMMA SilentKept ==
  ASSUME Notified, Silent, TypeOK',
         \A g \in Goroutine :
           task'[g].pc = "check" => task'[g] = task[g] \/ task'[g].pub \notin published
  PROVE  Numbered' /\ Untold' /\ Produced'
<1>1. \A g \in Goroutine : /\ Publishing(g)' => Publishing(g) /\ task'[g] = task[g]
                           /\ InHand(g)' => InHand(g) /\ task'[g] = task[g]
  BY DEF Silent, Publishing, InHand
<1>2. /\ asked \in Nat /\ asked' \in Nat /\ asked <= asked'
      /\ \A k \in Keys : subs[k] # NoSub => subs[k].tid \in Nat
  BY HandlerAssumption DEF Silent, Notified, TypeOK, BrokerSub
<1>3. \A d \in Told : d[1] \in Nat
  <2>1. \A i \in Notifications : outbox[i].tid \in Nat
    BY DEF Notified, TypeOK, Notifications, Notifies, Acks, Errors
  <2>2. QED
    BY <2>1 DEF Told
<1>4. Numbered'
  <2>1. \A k \in Keys : subs'[k] # NoSub => subs'[k].tid <= asked'
    BY <1>2 DEF Silent, Notified, Numbered
  <2>2. \A g \in Goroutine : InHand(g)' => task'[g].sub.tid <= asked'
    <3>1. \A g \in Goroutine : InHand(g) => task[g].sub.tid \in Nat
      BY PublishingTask DEF Notified, BrokerSub
    <3>2. QED
      BY <1>1, <1>2, <3>1 DEF Notified, Numbered
  <2>3. \A d \in Told' : d[1] <= asked' /\ d[2] \in published'
    BY <1>2, <1>3 DEF Silent, Notified, Numbered
  <2>4. QED
    BY <2>1, <2>2, <2>3 DEF Silent, Notified, Numbered
<1>5. Untold'
  BY DEF Silent, Notified, Numbered, Untold
<1>6. Produced'
  BY <1>1 DEF Silent, Notified, Produced, Owe, InHand
<1>7. QED
  BY <1>4, <1>5, <1>6

\* A goroutine keeps its publication or drops it.
LEMMA SamePublisher ==
  ASSUME Notified, published \subseteq published',
         \A h \in Goroutine : Busy(h)' => Busy(h) /\ task'[h].pub = task[h].pub
  PROVE  OnePublisher'
  BY DEF Notified, OnePublisher

\* The tasks of the others.
Becomes(g, t) == task'[g] = t /\ \A h \in Goroutine : h # g => task'[h] = task[h]

LEMMA TaskBecomes ==
  ASSUME TypeOK, NEW g \in Goroutine, NEW t, task' = [task EXCEPT ![g] = t]
  PROVE  Becomes(g, t)
  BY DEF TypeOK, Becomes

\* What is to be notified was not yet.
LEMMA OwingUntold ==
  /\ Produced => \A o \in Owing : <<o[2], o[3]>> \notin Told
  /\ Produced' => \A o \in Owing' : <<o[2], o[3]>> \notin Told'
<1>1. ASSUME Produced, NEW o \in Owing PROVE <<o[2], o[3]>> \notin Told
  <2>1. PICK g \in Goroutine : Publishing(g) /\ (ByEntry(g, o) \/ ByHand(g, o))
    BY <1>1, OwingIs
  <2>2. Owe(g)
    BY <1>1, <2>1 DEF Produced
  <2>3. CASE ByEntry(g, o)
    BY <2>2, <2>3 DEF ByEntry, Due, Owe
  <2>4. CASE ByHand(g, o)
    BY <2>2, <2>4 DEF ByHand, Due, Owe
  <2>5. QED
    BY <2>1, <2>3, <2>4
<1>2. ASSUME Produced', NEW o \in Owing' PROVE <<o[2], o[3]>> \notin Told'
  <2>1. PICK g \in Goroutine : Publishing(g)' /\ (ByEntry(g, o)' \/ ByHand(g, o)')
    BY <1>2, OwingIs
  <2>2. Owe(g)'
    BY <1>2, <2>1 DEF Produced
  <2>3. CASE ByEntry(g, o)'
    BY <2>2, <2>3 DEF ByEntry, Due, Owe
  <2>4. CASE ByHand(g, o)'
    BY <2>2, <2>4 DEF ByHand, Due, Owe
  <2>5. QED
    BY <2>1, <2>3, <2>4
<1>3. QED
  BY <1>1, <1>2

\* The steps of PubSub, of its variables as defined here.
LEMMA SubscribeView ==
  ASSUME NEW x, NEW r,
         \A d \in Told : d[1] # r.tid,
         Actives' = [Actives EXCEPT ![x] = r],
         Owing' \ {o \in Owing : o[1] # x} \subseteq
           {x} \X ({r.tid} \cup {o[2] : o \in Owing}) \X OpenPubs,
         {o \in Owing : o[1] # x} \subseteq Owing',
         \A o \in Owing' : <<o[2], o[3]>> \notin Told,
         OpenPubs' = OpenPubs, Told' = Told
  PROVE  P!Subscribe(x, r)
  BY Zenon DEF P!Subscribe, P!Others, Actives, OpenPubs, Owing, Told

LEMMA UnsubscribeView ==
  ASSUME NEW X,
         Actives' = [x \in Subscriber |-> IF x \in X THEN NoSub ELSE Actives[x]],
         Owing' \subseteq Owing,
         \A o \in Owing \ Owing' : o[1] \in X,
         OpenPubs' = OpenPubs, Told' = Told
  PROVE  P!Unsubscribe(X)
  BY Zenon DEF P!Unsubscribe, Actives, OpenPubs, Owing, Told

LEMMA WantsView ==
  \A x, p : P!Wants(x, p) <=> Actives[x] # NoSub /\ p \in WantedPubs[Actives[x].request]
  BY Zenon DEF P!Wants, Actives

LEMMA PublishView ==
  ASSUME NEW p, p \notin OpenPubs, \A d \in Told : d[2] # p,
         OpenPubs' = OpenPubs \cup {p},
         Owing' = Owing \cup {<<x, Actives[x].tid, p>> : x \in {y \in Subscriber : P!Wants(y, p)}},
         Actives' = Actives, Told' = Told
  PROVE  P!Publish(p)
  BY Zenon DEF P!Publish, Actives, OpenPubs, Owing, Told

LEMMA ReachView ==
  ASSUME NEW x, NEW p, p \in OpenPubs, P!Wants(x, p), <<Actives[x].tid, p>> \notin Told,
         Owing' = Owing \cup {<<x, Actives[x].tid, p>>},
         Actives' = Actives, OpenPubs' = OpenPubs, Told' = Told
  PROVE  P!Reach(x, p)
  BY Zenon DEF P!Reach, Actives, OpenPubs, Owing, Told

LEMMA NotifyView ==
  ASSUME NEW o, o \in Owing, Owing' = Owing \ {o}, Told' = Told \cup {<<o[2], o[3]>>},
         Actives' = Actives, OpenPubs' = OpenPubs
  PROVE  P!Notify(o)
  BY Zenon DEF P!Notify, Actives, OpenPubs, Owing, Told

LEMMA FinishView ==
  ASSUME NEW p, p \in OpenPubs, \A o \in Owing : o[3] # p, OpenPubs' = OpenPubs \ {p},
         Actives' = Actives, Owing' = Owing, Told' = Told
  PROVE  P!Finish(p)
  BY Zenon DEF P!Finish, Actives, OpenPubs, Owing, Told

LEMMA StutterView ==
  ASSUME Actives' = Actives, OpenPubs' = OpenPubs, Owing' = Owing, Told' = Told
  PROVE  UNCHANGED P!vars
  BY Zenon DEF P!vars, Actives, OpenPubs, Owing, Told

\* A new registration: nobody has been told of it.
LEMMA RegisterSubscribes ==
  ASSUME KeysApart, Notified, NEW g \in Handler, NEW x \in Subscriber, NEW r \in Request,
         Register(g, x, r), TypeOK', Owned'
  PROVE  /\ OnePublisher' /\ Numbered' /\ Untold' /\ Produced'
         /\ P!Subscribe(x, Registered(NewSub(x, r)))
<1> DEFINE K == Subkey(x)
           n == NewSub(x, r)
<1>0. g \in Goroutine /\ TypeOK /\ Owned /\ K \in Keys
  BY KeyOf DEF Notified, Goroutine
<1>1. /\ task[g].pc = "idle" /\ task'[g].pc = "ack"
      /\ \A h \in Goroutine : h # g => task'[h] = task[h]
  BY <1>0 DEF Register, Handles, TypeOK
<1>2. asked' = asked + 1 /\ asked \in Nat
  BY <1>0, HandlerAssumption DEF Register, Handles, TypeOK
<1>3. n \in BrokerSub /\ n.owner = x /\ n.tid = asked + 1 /\ n.request = r
  BY <1>0, NextTransaction DEF Register, Handles, NewSub, BrokerSub
<1> HIDE DEF n
<1>4. n # NoSub
  BY <1>3, NoSubAssumption
<1>5. subs'[K] = n /\ \A k \in Keys : k # K => subs'[k] = subs[k]
  BY <1>0 DEF Register, TypeOK, n
<1>6. Told' = Told /\ published' = published
  BY DEF Register, Told, Notifications
<1>7. \A h \in Goroutine : /\ Busy(h)' => Busy(h) /\ task'[h] = task[h]
                           /\ Publishing(h)' => Publishing(h) /\ task'[h] = task[h]
                           /\ Publishing(h) => Publishing(h)' /\ task'[h] = task[h]
                           /\ InHand(h)' => InHand(h) /\ task'[h] = task[h]
  BY <1>1 DEF Busy, Publishing, InHand
<1>8. OnePublisher'
  BY <1>6, <1>7, SamePublisher
<1>9. /\ \A k \in Keys : subs[k] # NoSub => subs[k].tid \in Nat /\ subs[k].tid <= asked
      /\ \A h \in Goroutine : InHand(h) => task[h].sub.tid \in Nat /\ task[h].sub.tid <= asked
      /\ \A d \in Told : d[1] # asked + 1
  <2>1. \A k \in Keys : subs[k] # NoSub => subs[k].tid \in Nat
    BY <1>0 DEF TypeOK, BrokerSub
  <2>2. \A h \in Goroutine : InHand(h) => task[h].sub.tid \in Nat
    BY <1>0, PublishingTask DEF BrokerSub
  <2>3. \A d \in Told : d[1] # asked + 1
    BY <1>2 DEF Notified, Numbered
  <2>4. QED
    BY <2>1, <2>2, <2>3 DEF Notified, Numbered
<1>10. Numbered'
  <2>1. \A k \in Keys : subs'[k] # NoSub => subs'[k].tid <= asked'
    BY <1>2, <1>3, <1>5, <1>9
  <2>2. \A j, k \in Keys :
          subs'[j] # NoSub /\ subs'[k] # NoSub /\ subs'[j].tid = subs'[k].tid => j = k
    BY <1>2, <1>3, <1>5, <1>9 DEF Notified, Numbered
  <2>3. \A h \in Goroutine : InHand(h)' => task'[h].sub.tid <= asked'
    BY <1>2, <1>7, <1>9
  <2>4. \A d \in Told' : d[1] <= asked' /\ d[2] \in published'
    <3>1. \A d \in Told : d[1] \in Nat
      <4>1. \A i \in Notifications : outbox[i].tid \in Nat
        BY <1>0 DEF TypeOK, Notifications, Notifies, Acks, Errors
      <4>2. QED
        BY <4>1 DEF Told
    <3>2. QED
      BY <1>2, <1>6, <3>1 DEF Notified, Numbered
  <2>5. QED
    BY <2>1, <2>2, <2>3, <2>4 DEF Numbered
<1>11. Untold'
  BY <1>1, <1>6 DEF Notified, Untold
<1>12. Produced'
  <2>1. SUFFICES ASSUME NEW h \in Goroutine, Publishing(h), task'[h] = task[h] PROVE Owe(h)'
    BY <1>7 DEF Produced
  <2>2. Owe(h)
    BY <2>1 DEF Notified, Produced
  <2>3. \A k \in task[h].must : subs'[k] # NoSub
    BY <1>4, <1>5, <2>2 DEF Owe
  <2>4. <<n.tid, task[h].pub>> \notin Told /\ (InHand(h) => task[h].sub.tid # n.tid)
    BY <1>2, <1>3, <1>9
  <2>5. InHand(h)' <=> InHand(h)
    BY <2>1 DEF InHand
  <2>6. \A k \in Keys : subs'[k] # NoSub =>
          /\ <<subs'[k].tid, task[h].pub>> \in Told => k \in task[h].seen
          /\ InHand(h) /\ task[h].sub.tid = subs'[k].tid => k \in task[h].seen
    BY <1>5, <2>2, <2>4 DEF Owe
  <2>7. QED
    BY <1>6, <2>1, <2>2, <2>3, <2>5, <2>6 DEF Owe
<1>13. Actives' = [Actives EXCEPT ![x] = Registered(n)]
  <2>1. ASSUME NEW y \in Subscriber PROVE Active(y)' = IF y = x THEN Registered(n) ELSE Active(y)
    <3>1. CASE y = x
      BY <1>3, <1>4, <1>5, <3>1 DEF Active, Registered
    <3>2. CASE y # x
      <4>1. Subkey(y) # K /\ Subkey(y) \in Keys
        BY <3>2, KeyOf DEF KeysApart
      <4>2. subs'[Subkey(y)] = subs[Subkey(y)]
        BY <1>5, <4>1
      <4>3. QED
        BY <3>2, <4>2 DEF Active
    <3>3. QED
      BY <3>1, <3>2
  <2>2. QED
    BY <2>1 DEF Actives
<1>14. ASSUME NEW o \in Owing', o \notin {d \in Owing : d[1] # x}
       PROVE  o \in {x} \X ({n.tid} \cup {d[2] : d \in Owing}) \X OpenPubs
  <2>1. PICK h \in Goroutine : Publishing(h)' /\ (ByEntry(h, o)' \/ ByHand(h, o)')
    BY <1>14, OwingIs
  <2>2. Publishing(h) /\ task'[h] = task[h] /\ task[h].pub \in OpenPubs
    BY <1>7, <2>1 DEF OpenPubs
  <2>3. CASE ByHand(h, o)'
    <3>1. ByHand(h, o)
      BY <2>2, <2>3 DEF ByHand, InHand
    <3>2. o \in Owing
      BY <2>2, <3>1, OwingIs
    <3>3. o[1] = x
      BY <1>14, <3>2
    <3>4. o = <<x, o[2], task[h].pub>>
      BY <3>1, <3>3 DEF ByHand, Due
    <3>5. QED
      BY <2>2, <3>2, <3>4
  <2>4. CASE ByEntry(h, o)'
    <3>1. PICK k \in task[h].must : /\ task[h].pub \in WantedPubs[subs'[k].request]
                                    /\ o = Due(subs'[k], task[h].pub)
      BY <2>2, <2>4 DEF ByEntry, Due
    <3>2. k \in Keys
      BY <2>2 DEF Notified, Produced, Owe
    <3>3. CASE k = K
      BY <1>3, <1>5, <2>2, <3>1, <3>3 DEF Due
    <3>4. CASE k # K
      <4>1. subs'[k] = subs[k] /\ subs[k] # NoSub
        BY <1>5, <2>2, <3>2, <3>4 DEF Notified, Produced, Owe
      <4>2. ByEntry(h, o)
        BY <3>1, <4>1 DEF ByEntry
      <4>3. o \in Owing
        BY <2>2, <4>2, OwingIs
      <4>4. subs[k].owner # x
        BY <1>0, <3>2, <3>4, <4>1 DEF Owned
      <4>5. o[1] # x
        BY <3>1, <4>1, <4>4 DEF Due
      <4>6. QED
        BY <1>14, <4>3, <4>5
    <3>5. QED
      BY <3>3, <3>4
  <2>5. QED
    BY <2>1, <2>3, <2>4
<1>15. ASSUME NEW o \in Owing, o[1] # x PROVE o \in Owing'
  <2>1. PICK h \in Goroutine : Publishing(h) /\ (ByEntry(h, o) \/ ByHand(h, o))
    BY <1>15, OwingIs
  <2>2. Publishing(h)' /\ task'[h] = task[h]
    BY <1>7, <2>1
  <2>3. CASE ByHand(h, o)
    <3>1. ByHand(h, o)'
      BY <2>2, <2>3 DEF ByHand, InHand, Due
    <3>2. QED
      BY <2>2, <3>1, OwingIs
  <2>4. CASE ByEntry(h, o)
    <3>1. PICK k \in task[h].must : /\ task[h].pub \in WantedPubs[subs[k].request]
                                    /\ o = Due(subs[k], task[h].pub)
      BY <2>4 DEF ByEntry
    <3>2. k \in Keys /\ subs[k] # NoSub
      BY <2>1 DEF Notified, Produced, Owe
    <3>3. k # K
      BY <1>0, <1>15, <3>1, <3>2, ActiveIs DEF Due
    <3>4. subs'[k] = subs[k]
      BY <1>5, <3>2, <3>3
    <3>5. ByEntry(h, o)'
      BY <2>2, <3>1, <3>4 DEF ByEntry, Due
    <3>6. QED
      BY <2>2, <3>5, OwingIs
  <2>5. QED
    BY <2>1, <2>3, <2>4
<1>16. OpenPubs' = OpenPubs
  BY <1>7 DEF OpenPubs
<1>17. Registered(n).tid = n.tid
  BY DEF Registered
<1>18. P!Subscribe(x, Registered(n))
  <2>1. \A o \in Owing' : <<o[2], o[3]>> \notin Told'
    BY <1>12, OwingUntold
  <2>2. \A o \in Owing' : <<o[2], o[3]>> \notin Told
    BY <1>6, <2>1
  <2>3. \A d \in Told : d[1] # Registered(n).tid
    BY <1>3, <1>9, <1>17
  <2>4. Owing' \ {o \in Owing : o[1] # x} \subseteq
          {x} \X ({Registered(n).tid} \cup {o[2] : o \in Owing}) \X OpenPubs
    BY <1>14, <1>17
  <2>5. {o \in Owing : o[1] # x} \subseteq Owing'
    BY <1>15
  <2>6. QED
    BY Zenon, <1>6, <1>13, <1>16, <2>2, <2>3, <2>4, <2>5, SubscribeView
<1>19. QED
  BY <1>8, <1>10, <1>11, <1>12, <1>18 DEF n

\* The loops under way forget the entries of K.
LEMMA Forgotten ==
  ASSUME TypeOK, NEW h \in Goroutine, NEW K
  PROVE  /\ ~Publishing(h) => Forget(task[h], K) = task[h]
         /\ Forget(task[h], K).pc = task[h].pc
         /\ Publishing(h) => /\ Forget(task[h], K).pub = task[h].pub
                             /\ Forget(task[h], K).must = task[h].must \ K
                             /\ Forget(task[h], K).seen = task[h].seen \ K
         /\ InHand(h) => Forget(task[h], K).sub = task[h].sub
<1>1. CASE task[h].pc = "range"
  BY <1>1, TaskOf DEF Forget, Ranging, Publishing, InHand
<1>2. CASE task[h].pc = "encode"
  BY <1>2, TaskOf DEF Forget, Encoding, Publishing, InHand
<1>3. CASE task[h].pc = "notify"
  BY <1>3, TaskOf DEF Forget, Notifying, Publishing, InHand
<1>4. CASE task[h].pc \notin {"range", "encode", "notify"}
  BY <1>4 DEF Forget, Publishing, InHand
<1>5. QED
  BY <1>1, <1>2, <1>3, <1>4

\* Registrations dropped are not to be notified any more, but for the one in hand.
LEMMA DeregisterUnsubscribes ==
  ASSUME KeysApart, Notified, NEW g \in Handler, NEW u \in Consumer, NEW S \in SUBSET SubId,
         Deregister(g, u, S), TypeOK'
  PROVE  /\ OnePublisher' /\ Numbered' /\ Untold' /\ Produced'
         /\ P!Unsubscribe({<<u, s>> : s \in S})
<1> DEFINE K == {Subkey(<<u, s>>) : s \in S}
           X == {<<u, s>> : s \in S}
<1>0. g \in Goroutine /\ TypeOK /\ Owned
  BY DEF Notified, Goroutine
<1>1. /\ task[g].pc = "idle" /\ task'[g].pc = "ack"
      /\ \A h \in Goroutine : h # g => task'[h] = Forget(task[h], K)
  BY <1>0 DEF Deregister
<1>2. asked' = asked + 1 /\ asked \in Nat
  BY <1>0, HandlerAssumption DEF Deregister, TypeOK
<1>3. Told' = Told /\ published' = published
  BY DEF Deregister, Told, Notifications
<1>4. \A k \in Keys : subs'[k] = IF k \in K THEN NoSub ELSE subs[k]
  BY Zenon DEF Deregister
<1>5. X \subseteq Subscriber /\ \A x \in Subscriber : Subkey(x) \in K <=> x \in X
  <2>1. X \subseteq Subscriber
    BY DEF Subscriber
  <2>2. QED
    BY <2>1 DEF KeysApart
<1> HIDE DEF K, X
<1>6. \A h \in Goroutine :
        /\ Publishing(h)' <=> Publishing(h)
        /\ Busy(h)' => Busy(h) /\ task'[h].pub = task[h].pub /\ task'[h].pc = task[h].pc
        /\ InHand(h)' <=> InHand(h)
        /\ InHand(h) => task'[h].sub = task[h].sub
        /\ Publishing(h) => /\ task'[h].pub = task[h].pub
                            /\ task'[h].must = task[h].must \ K
                            /\ task'[h].seen = task[h].seen \ K
  <2>1. TAKE h \in Goroutine
  <2>2. CASE h = g
    BY <1>1, <2>2 DEF Publishing, Busy, InHand
  <2>3. CASE h # g
    <3> DEFINE f == Forget(task[h], K)
    <3>1. task'[h] = f
      BY <1>1, <2>3
    <3>2. /\ ~Publishing(h) => f = task[h]
          /\ f.pc = task[h].pc
          /\ Publishing(h) => /\ f.pub = task[h].pub
                              /\ f.must = task[h].must \ K
                              /\ f.seen = task[h].seen \ K
          /\ InHand(h) => f.sub = task[h].sub
      BY <1>0, Forgotten
    <3> HIDE DEF f
    <3>3. task'[h].pc = task[h].pc
      BY <3>1, <3>2
    <3>4. CASE Publishing(h)
      BY <3>1, <3>2, <3>3, <3>4 DEF Publishing, Busy, InHand
    <3>5. CASE ~Publishing(h)
      BY <3>1, <3>2, <3>5 DEF Publishing, Busy, InHand
    <3>6. QED
      BY <3>4, <3>5
  <2>4. QED
    BY <2>2, <2>3
<1>7. OnePublisher'
  BY <1>3, <1>6, SamePublisher
<1>8. Numbered'
  <2>1. \A k \in Keys : subs[k] # NoSub => subs[k].tid \in Nat
    BY <1>0 DEF TypeOK, BrokerSub
  <2>2. \A k \in Keys : subs'[k] # NoSub => subs'[k].tid <= asked'
    BY <1>2, <1>4, <2>1 DEF Notified, Numbered
  <2>3. \A j, k \in Keys :
          subs'[j] # NoSub /\ subs'[k] # NoSub /\ subs'[j].tid = subs'[k].tid => j = k
    BY <1>4 DEF Notified, Numbered
  <2>4. \A h \in Goroutine : InHand(h)' => task'[h].sub.tid <= asked'
    <3>1. \A h \in Goroutine : InHand(h) => task[h].sub.tid \in Nat
      BY <1>0, PublishingTask DEF BrokerSub
    <3>2. QED
      BY <1>2, <1>6, <3>1 DEF Notified, Numbered
  <2>5. \A d \in Told' : d[1] <= asked' /\ d[2] \in published'
    <3>1. \A d \in Told : d[1] \in Nat
      <4>1. \A i \in Notifications : outbox[i].tid \in Nat
        BY <1>0 DEF TypeOK, Notifications, Notifies, Acks, Errors
      <4>2. QED
        BY <4>1 DEF Told
    <3>2. QED
      BY <1>2, <1>3, <3>1 DEF Notified, Numbered
  <2>6. QED
    BY <2>2, <2>3, <2>4, <2>5 DEF Numbered
<1>9. Untold'
  BY <1>3, <1>6 DEF Notified, Untold, Busy
<1>10. ASSUME NEW h \in Goroutine, Publishing(h) PROVE Owe(h)'
  <2>1. Owe(h)
    BY <1>10 DEF Notified, Produced
  <2>2. \A k \in task'[h].must : k \in Keys /\ k \notin K /\ subs'[k] = subs[k]
    BY <1>4, <1>6, <1>10, <2>1 DEF Owe
  <2>3. \A k \in Keys : subs'[k] # NoSub => k \notin K /\ subs'[k] = subs[k]
    BY <1>4
  <2>4. /\ task'[h].must \subseteq Keys
        /\ \A k \in task'[h].must : subs'[k] # NoSub /\ k \notin task'[h].seen
    BY <1>6, <1>10, <2>1, <2>2 DEF Owe
  <2>5. \A k \in Keys : subs'[k] # NoSub =>
          /\ <<subs'[k].tid, task'[h].pub>> \in Told' => k \in task'[h].seen
          /\ InHand(h)' /\ task'[h].sub.tid = subs'[k].tid => k \in task'[h].seen
    BY <1>3, <1>6, <1>10, <2>1, <2>3 DEF Owe
  <2>6. InHand(h)' => <<task'[h].sub.tid, task'[h].pub>> \notin Told'
    BY <1>3, <1>6, <1>10, <2>1 DEF Owe
  <2>7. QED
    BY <2>4, <2>5, <2>6 DEF Owe
<1>11. Produced'
  BY <1>6, <1>10 DEF Produced
<1>12. Actives' = [x \in Subscriber |-> IF x \in X THEN NoSub ELSE Actives[x]]
  <2>1. ASSUME NEW x \in Subscriber PROVE Active(x)' = IF x \in X THEN NoSub ELSE Active(x)
    BY <1>4, <1>5, KeyOf DEF Active
  <2>2. QED
    BY <2>1 DEF Actives
<1>13. OpenPubs' = OpenPubs
  BY <1>6 DEF OpenPubs
<1>14. \A h \in Goroutine : \A o : Publishing(h) => (ByHand(h, o)' <=> ByHand(h, o))
  BY <1>6 DEF ByHand, Due
<1>15. ASSUME NEW o \in Owing' PROVE o \in Owing
  <2>1. PICK h \in Goroutine : Publishing(h)' /\ (ByEntry(h, o)' \/ ByHand(h, o)')
    BY <1>15, OwingIs
  <2>2. Publishing(h)
    BY <1>6, <2>1
  <2>3. CASE ByHand(h, o)'
    BY <1>14, <2>2, <2>3, OwingIs
  <2>4. CASE ByEntry(h, o)'
    <3>1. PICK k \in task'[h].must : /\ task'[h].pub \in WantedPubs[subs'[k].request]
                                     /\ o = Due(subs'[k], task'[h].pub)
      BY <2>4 DEF ByEntry, Due
    <3>2. k \in task[h].must /\ subs'[k] = subs[k]
      BY <1>4, <1>6, <2>2, <3>1, ZenonT(30) DEF Notified, Produced, Owe
    <3>3. ByEntry(h, o)
      BY <1>6, <2>2, <3>1, <3>2 DEF ByEntry
    <3>4. QED
      BY <2>2, <3>3, OwingIs
  <2>5. QED
    BY <2>1, <2>3, <2>4
<1>16. ASSUME NEW o \in Owing, o \notin Owing' PROVE o[1] \in X
  <2>1. PICK h \in Goroutine : Publishing(h) /\ (ByEntry(h, o) \/ ByHand(h, o))
    BY <1>16, OwingIs
  <2>2. Publishing(h)'
    BY <1>6, <2>1
  <2>3. ~ByHand(h, o) /\ ~ByEntry(h, o)'
    BY <1>14, <1>16, <2>1, <2>2, OwingIs
  <2>4. PICK k \in task[h].must : /\ task[h].pub \in WantedPubs[subs[k].request]
                                  /\ o = Due(subs[k], task[h].pub)
    BY <2>1, <2>3 DEF ByEntry
  <2>5. k \in Keys /\ subs[k] # NoSub
    BY <2>1 DEF Notified, Produced, Owe
  <2>6. k \in K
    <3>1. SUFFICES ASSUME k \notin K PROVE ByEntry(h, o)'
      BY <2>3
    <3>2. k \in task'[h].must /\ subs'[k] = subs[k] /\ task'[h].pub = task[h].pub
      BY <1>4, <1>6, <2>1, <2>5, <3>1
    <3>3. QED
      BY <2>4, <3>2 DEF ByEntry, Due
  <2>7. subs[k].owner \in Subscriber /\ Subkey(subs[k].owner) = k
    BY <1>0, <2>5 DEF Owned
  <2>8. QED
    BY <1>5, <2>4, <2>6, <2>7 DEF Due
<1>17. P!Unsubscribe(X)
  <2>1. Owing' \subseteq Owing
    BY <1>15
  <2>2. \A o \in Owing \ Owing' : o[1] \in X
    BY <1>16
  <2>3. QED
    BY Zenon, <1>3, <1>12, <1>13, <2>1, <2>2, UnsubscribeView
<1>18. QED
  BY <1>7, <1>8, <1>9, <1>11, <1>17 DEF X

\* What the others owe does not change with the task of g.
Bystanders(g) == \A h \in Goroutine : h # g =>
  /\ task'[h] = task[h]
  /\ Publishing(h)' <=> Publishing(h)
  /\ Busy(h)' <=> Busy(h)
  /\ InHand(h)' <=> InHand(h)
  /\ \A o : (ByEntry(h, o)' <=> ByEntry(h, o)) /\ (ByHand(h, o)' <=> ByHand(h, o))

LEMMA OneMoves ==
  ASSUME NEW g \in Goroutine, NEW t, Becomes(g, t), UNCHANGED subs
  PROVE  Bystanders(g) /\ Actives' = Actives
<1>1. ASSUME NEW h \in Goroutine, h # g
      PROVE  /\ task'[h] = task[h]
             /\ Publishing(h)' <=> Publishing(h)
             /\ Busy(h)' <=> Busy(h)
             /\ InHand(h)' <=> InHand(h)
             /\ \A o : (ByEntry(h, o)' <=> ByEntry(h, o)) /\ (ByHand(h, o)' <=> ByHand(h, o))
  <2>1. task'[h] = task[h]
    BY <1>1 DEF Becomes
  <2>2. \A o : ByEntry(h, o)' <=> ByEntry(h, o)
    BY <2>1 DEF ByEntry, Due
  <2>3. \A o : ByHand(h, o)' <=> ByHand(h, o)
    BY <2>1 DEF ByHand, InHand, Due
  <2>4. QED
    BY <2>1, <2>2, <2>3 DEF Publishing, Busy, InHand
<1>2. Actives' = Actives
  BY DEF Actives, Active
<1>3. QED
  BY <1>1, <1>2 DEF Bystanders

\* An accepted publication is owed to every entry that wants it.
LEMMA CheckPublishes ==
  ASSUME KeysApart, Notified, NEW g \in Goroutine, NEW p, p = task[g].pub, Check(g), Accepted(p),
         TypeOK'
  PROVE  /\ OnePublisher' /\ Numbered' /\ Untold' /\ Produced'
         /\ P!Publish(p)
<1> DEFINE all == {k \in Keys : subs[k] # NoSub}
           t == [pc |-> "range", pub |-> p, must |-> all, seen |-> {}]
<1>0. TypeOK /\ Owned /\ task[g].pc = "check" /\ p \in Pub
  BY PublishingTask DEF Notified, Check, Busy
<1>1. Becomes(g, t)
  <2>1. task' = [task EXCEPT ![g] = t]
    BY DEF Check
  <2> HIDE DEF t
  <2>2. QED
    BY <1>0, <2>1, TaskBecomes
<1>2. UNCHANGED subs /\ asked' = asked /\ published' = published /\ Told' = Told
  BY DEF Check, Told, Notifications
<1>3. Bystanders(g) /\ Actives' = Actives
  <2> HIDE DEF t
  <2>1. QED
    BY <1>1, <1>2, OneMoves
<1>4. /\ task'[g].pc = "range" /\ task'[g].pub = p /\ task'[g].must = all /\ task'[g].seen = {}
      /\ Busy(g) /\ ~Publishing(g) /\ ~InHand(g)
      /\ Busy(g)' /\ Publishing(g)' /\ ~InHand(g)'
  BY <1>0, <1>1 DEF Becomes, Busy, Publishing, InHand
<1> HIDE DEF t
<1>5. OnePublisher'
  <2>1. \A h \in Goroutine : Busy(h)' => Busy(h) /\ task'[h].pub = task[h].pub
    BY <1>3, <1>4 DEF Bystanders
  <2>2. QED
    BY <1>2, <2>1, SamePublisher
<1>6. Numbered'
  <2>1. \A h \in Goroutine : InHand(h)' => InHand(h) /\ task'[h] = task[h]
    BY <1>3, <1>4 DEF Bystanders
  <2>2. QED
    BY <1>2, <2>1 DEF Notified, Numbered
<1>7. Untold'
  <2>1. \A h \in Goroutine : task'[h].pc = "check" => task'[h] = task[h]
    BY <1>3, <1>4 DEF Bystanders
  <2>2. QED
    BY <1>2, <2>1 DEF Notified, Untold
<1>8. \A d \in Told : d[2] # p
  BY <1>0 DEF Notified, Untold
<1>9. Produced'
  <2>1. Owe(g)'
    <3>1. \A k \in Keys : <<subs'[k].tid, p>> \notin Told'
      BY <1>2, <1>8
    <3>2. all \subseteq Keys /\ \A k \in all : subs'[k] # NoSub
      BY <1>2
    <3>3. QED
      BY <1>4, <3>1, <3>2 DEF Owe
  <2>2. \A h \in Goroutine : h # g /\ Publishing(h)' => Owe(h)'
    BY <1>2, <1>3 DEF Notified, Produced, Owe, Bystanders
  <2>3. QED
    BY <2>1, <2>2 DEF Produced
<1>10. \A h \in Goroutine : Publishing(h) => task[h].pub # p
  BY <1>4 DEF Notified, OnePublisher, Publishing, Busy
<1>11. p \notin OpenPubs /\ OpenPubs' = OpenPubs \cup {p}
  <2>1. p \notin OpenPubs
    BY <1>10 DEF OpenPubs
  <2>2. \A q : q \in OpenPubs' <=> \E h \in Goroutine : Publishing(h)' /\ q = task'[h].pub
    BY DEF OpenPubs
  <2>3. \A q : q \in OpenPubs <=> \E h \in Goroutine : Publishing(h) /\ q = task[h].pub
    BY DEF OpenPubs
  <2>4. \A q : q \in OpenPubs' <=> q \in OpenPubs \/ q = p
    BY <1>3, <1>4, <2>2, <2>3 DEF Bystanders
  <2>5. QED
    BY <2>1, <2>4
<1> DEFINE new == {<<x, Actives[x].tid, p>> : x \in {y \in Subscriber : P!Wants(y, p)}}
<1>12. \A o : o \in new <=> ByEntry(g, o)'
  <2>1. ASSUME NEW o, ByEntry(g, o)' PROVE o \in new
    <3>1. PICK k \in all : p \in WantedPubs[subs[k].request] /\ o = Due(subs[k], p)
      BY <1>2, <1>4, <2>1 DEF ByEntry, Due
    <3> DEFINE x == subs[k].owner
    <3>2. x \in Subscriber /\ Subkey(x) = k
      BY <1>0, <3>1 DEF Owned
    <3>3. Active(x) = Registered(subs[k]) /\ Active(x) # NoSub
      BY <1>0, <3>1, <3>2, ActiveIs, NoSubAssumption DEF Registered, BrokerSub
    <3>4. P!Wants(x, p) /\ Actives[x].tid = subs[k].tid
      BY <3>1, <3>2, <3>3, WantsView DEF Actives, Registered
    <3>5. o = <<x, Actives[x].tid, p>>
      BY <3>1, <3>4 DEF Due
    <3>6. QED
      BY <3>2, <3>4, <3>5
  <2>2. ASSUME NEW o \in new PROVE ByEntry(g, o)'
    <3>1. PICK x \in Subscriber : P!Wants(x, p) /\ o = <<x, Actives[x].tid, p>>
      BY <2>2
    <3>2. Active(x) # NoSub /\ p \in WantedPubs[Active(x).request] /\ o = <<x, Active(x).tid, p>>
      BY <3>1, WantsView DEF Actives
    <3> DEFINE k == Subkey(x)
    <3>3. k \in all /\ subs[k].owner = x /\ Active(x) = Registered(subs[k])
      BY <1>0, <3>2, ActiveIs
    <3>4. p \in WantedPubs[subs'[k].request] /\ o = Due(subs'[k], p)
      BY <1>2, <3>2, <3>3 DEF Registered, Due
    <3>5. QED
      BY <1>4, <3>3, <3>4 DEF ByEntry, Due
  <2>3. QED
    BY <2>1, <2>2
<1> HIDE DEF new
<1>13. Owing' = Owing \cup new
  <2>1. \A o : o \in Owing' <=> o \in Owing \/ o \in new
    BY <1>3, <1>4, <1>12, OwingIs DEF Bystanders, ByHand
  <2>2. QED
    BY <2>1
<1>14. P!Publish(p)
  BY Zenon, <1>2, <1>3, <1>8, <1>11, <1>13, PublishView DEF new
<1>15. QED
  BY <1>5, <1>6, <1>7, <1>9, <1>14

\* The loop produces an entry, of a registration that is owed the publication or,
\* if it was made meanwhile, reached by it.
LEMMA SelectReaches ==
  ASSUME KeysApart, Notified, NEW g \in Goroutine, NEW k \in Keys, NEW p, p = task[g].pub,
         Select(g, k), ~panicked', TypeOK'
  PROVE  /\ OnePublisher' /\ Numbered' /\ Untold' /\ Produced'
         /\ UNCHANGED P!vars \/ \E x \in Subscriber : P!Reach(x, p)
<1> DEFINE wanted == Selects[subs[k].request][p] # {}
           t == task'[g]
<1>0. /\ TypeOK /\ Owned /\ Owe(g) /\ p \in Pub
      /\ task[g].pc = "range" /\ task[g] \in Ranging
      /\ subs[k] \in BrokerSub /\ subs[k] # NoSub /\ k \notin task[g].seen
      /\ Busy(g) /\ Publishing(g) /\ ~InHand(g)
  <2>1. /\ TypeOK /\ Owned /\ Produced
        /\ task[g].pc = "range" /\ subs[k] # NoSub /\ k \notin task[g].seen
    BY DEF Notified, Select
  <2>2. task[g] \in Ranging /\ subs[k] \in BrokerSub
    BY <2>1, TaskOf DEF TypeOK
  <2>3. Busy(g) /\ Publishing(g) /\ ~InHand(g)
    BY <2>1 DEF Busy, Publishing, InHand
  <2>4. QED
    BY <2>1, <2>2, <2>3 DEF Produced, Ranging
<1>1. /\ Becomes(g, t)
      /\ t.pub = p /\ t.must = task[g].must \ {k} /\ t.seen = task[g].seen \cup {k}
      /\ wanted => t.pc = "encode" /\ t.sub = subs[k]
      /\ ~wanted => t.pc = "range"
  <2>1. task' = [task EXCEPT ![g] =
           IF ~wanted THEN [task[g] EXCEPT !.must = @ \ {k}, !.seen = @ \cup {k}]
           ELSE [pc |-> "encode", pub |-> task[g].pub, must |-> task[g].must \ {k},
                 seen |-> task[g].seen \cup {k}, sub |-> subs[k],
                 headers |-> Selects[subs[k].request][p]]]
    <3>1. CASE \E i \in Selects[subs[k].request][p] : i > UpdateValueListSize
      BY <3>1 DEF Select
    <3>2. CASE ~ \E i \in Selects[subs[k].request][p] : i > UpdateValueListSize
      BY <1>0, <3>2 DEF Select, Ranging
    <3>3. QED
      BY <3>1, <3>2
  <2>2. Becomes(g, t)
    BY <1>0, <2>1 DEF TypeOK, Becomes
  <2>3. CASE wanted
    BY <1>0, <2>1, <2>2, <2>3 DEF TypeOK
  <2>4. CASE ~wanted
    BY <1>0, <2>1, <2>2, <2>4 DEF TypeOK, Ranging
  <2>5. QED
    BY <2>2, <2>3, <2>4
<1>2. UNCHANGED subs /\ asked' = asked /\ published' = published /\ Told' = Told
  BY DEF Select, Told, Notifications
<1>3. Bystanders(g) /\ Actives' = Actives
  <2> HIDE DEF t
  <2>1. QED
    BY <1>1, <1>2, OneMoves
<1> HIDE DEF wanted
<1>4. Busy(g)' /\ Publishing(g)' /\ (InHand(g)' <=> wanted) /\ task'[g].pc # "check"
  BY <1>1 DEF Busy, Publishing, InHand
<1>5. OnePublisher'
  <2>1. \A h \in Goroutine : Busy(h)' => Busy(h) /\ task'[h].pub = task[h].pub
    BY <1>0, <1>1, <1>3 DEF Bystanders
  <2>2. QED
    BY <1>2, <2>1, SamePublisher
<1>6. subs[k].tid <= asked /\ \A j \in Keys : subs[j] # NoSub /\ subs[j].tid = subs[k].tid => j = k
  BY <1>0 DEF Notified, Numbered
<1>7. Numbered'
  <2>1. \A h \in Goroutine : h # g /\ InHand(h)' => InHand(h) /\ task'[h] = task[h]
    BY <1>3 DEF Bystanders
  <2>2. InHand(g)' => task'[g].sub = subs[k]
    BY <1>1, <1>4
  <2>3. QED
    BY <1>2, <1>6, <2>1, <2>2 DEF Notified, Numbered
<1>8. Untold'
  <2>1. \A h \in Goroutine : task'[h].pc = "check" => task'[h] = task[h]
    BY <1>3, <1>4 DEF Bystanders
  <2>2. QED
    BY <1>2, <2>1 DEF Notified, Untold
<1>9. <<subs[k].tid, p>> \notin Told
  BY <1>0 DEF Owe
<1>10. Produced'
  <2>1. Owe(g)'
    <3>1. /\ task'[g].must \subseteq Keys
          /\ \A j \in task'[g].must : subs'[j] # NoSub /\ j \notin task'[g].seen
      BY <1>0, <1>1, <1>2 DEF Owe
    <3>2. \A j \in Keys : subs'[j] # NoSub =>
            /\ <<subs'[j].tid, task'[g].pub>> \in Told' => j \in task'[g].seen
            /\ InHand(g)' /\ task'[g].sub.tid = subs'[j].tid => j \in task'[g].seen
      BY <1>0, <1>1, <1>2, <1>4, <1>6 DEF Owe
    <3>3. InHand(g)' => <<task'[g].sub.tid, task'[g].pub>> \notin Told'
      BY <1>1, <1>2, <1>4, <1>9
    <3>4. QED
      BY <3>1, <3>2, <3>3 DEF Owe
  <2>2. \A h \in Goroutine : h # g /\ Publishing(h)' => Owe(h)'
    BY <1>2, <1>3 DEF Notified, Produced, Owe, Bystanders
  <2>3. QED
    BY <2>1, <2>2 DEF Produced
<1>11. OpenPubs' = OpenPubs /\ p \in OpenPubs
  <2>1. \A h \in Goroutine : /\ Publishing(h)' <=> Publishing(h)
                             /\ Publishing(h) => task'[h].pub = task[h].pub
    BY <1>0, <1>1, <1>3, <1>4 DEF Bystanders
  <2>2. QED
    BY <1>0, <2>1 DEF OpenPubs
<1>12. wanted <=> p \in WantedPubs[subs[k].request]
  BY <1>0 DEF wanted, WantedPubs, BrokerSub
<1>13. \A o : ByEntry(g, o)' <=> \E j \in task[g].must \ {k} :
         p \in WantedPubs[subs[j].request] /\ o = Due(subs[j], p)
  BY <1>1, <1>2 DEF ByEntry, Due
<1>14. \A o : ByEntry(g, o) <=> \E j \in task[g].must :
         p \in WantedPubs[subs[j].request] /\ o = Due(subs[j], p)
  BY DEF ByEntry
<1>15. \A o : ByHand(g, o)' <=> wanted /\ o = Due(subs[k], p)
  BY <1>1, <1>4 DEF ByHand, Due
<1>16. \A o : ~ByHand(g, o)
  BY <1>0 DEF ByHand
<1>17. \A o : o \in Owing' <=> o \in Owing \/ (wanted /\ o = Due(subs[k], p))
  <2>1. \A o : ByEntry(g, o)' => ByEntry(g, o)
    BY <1>13, <1>14
  <2>2. \A o : ByEntry(g, o) => ByEntry(g, o)' \/ ByHand(g, o)'
    BY <1>12, <1>13, <1>14, <1>15
  <2>3. QED
    BY <1>0, <1>3, <1>4, <1>15, <1>16, <2>1, <2>2, OwingIs DEF Bystanders
<1>18. CASE ~wanted
  <2>1. Owing' = Owing
    BY <1>17, <1>18
  <2>2. UNCHANGED P!vars
    BY Zenon, <1>2, <1>3, <1>11, <2>1, StutterView
  <2>3. QED
    BY <1>5, <1>7, <1>8, <1>10, <2>2
<1>19. CASE wanted
  <2>1. PICK x \in Subscriber : x = subs[k].owner /\ Subkey(x) = k
    BY <1>0 DEF Owned
  <2>2. Active(x) = Registered(subs[k]) /\ Active(x) # NoSub
    BY <1>0, <2>1, ActiveIs, NoSubAssumption DEF Registered, BrokerSub
  <2>3. P!Wants(x, p) /\ Actives[x].tid = subs[k].tid
    BY <1>12, <1>19, <2>1, <2>2, WantsView DEF Actives, Registered
  <2>4. Owing' = Owing \cup {<<x, Actives[x].tid, p>>}
    BY <1>17, <1>19, <2>1, <2>3 DEF Due
  <2>5. <<Actives[x].tid, p>> \notin Told
    BY <1>9, <2>3
  <2>6. P!Reach(x, p)
    BY Zenon, <1>2, <1>3, <1>11, <2>3, <2>4, <2>5, ReachView
  <2>7. QED
    BY <1>5, <1>7, <1>8, <1>10, <2>6
<1>20. QED
  BY <1>18, <1>19

\* Encoding is not seen.
LEMMA EncodeStutters ==
  ASSUME Notified, NEW g \in Goroutine, Encode(g), TypeOK'
  PROVE  /\ OnePublisher' /\ Numbered' /\ Untold' /\ Produced'
         /\ UNCHANGED P!vars
<1>0. TypeOK /\ Owe(g) /\ task[g].pc = "encode" /\ Busy(g) /\ Publishing(g) /\ InHand(g)
  BY DEF Notified, Produced, Encode, Busy, Publishing, InHand
<1>1. /\ Becomes(g, task'[g]) /\ task'[g].pc = "notify" /\ task'[g].pub = task[g].pub
      /\ task'[g].must = task[g].must /\ task'[g].seen = task[g].seen
      /\ task'[g].sub = task[g].sub
  BY <1>0 DEF Encode, TypeOK, Becomes
<1>2. UNCHANGED subs /\ asked' = asked /\ published' = published /\ Told' = Told
  BY DEF Encode, Told, Notifications
<1>3. Bystanders(g) /\ Actives' = Actives
  BY <1>1, <1>2, OneMoves
<1>4. Busy(g)' /\ Publishing(g)' /\ InHand(g)' /\ task'[g].pc # "check"
  BY <1>1 DEF Busy, Publishing, InHand
<1>5. OnePublisher'
  <2>1. \A h \in Goroutine : Busy(h)' => Busy(h) /\ task'[h].pub = task[h].pub
    BY <1>0, <1>1, <1>3 DEF Bystanders
  <2>2. QED
    BY <1>2, <2>1, SamePublisher
<1>6. Numbered'
  <2>1. \A h \in Goroutine : InHand(h)' => InHand(h) /\ task'[h].sub = task[h].sub
    BY <1>0, <1>1, <1>3 DEF Bystanders
  <2>2. QED
    BY <1>2, <2>1 DEF Notified, Numbered
<1>7. Untold'
  <2>1. \A h \in Goroutine : task'[h].pc = "check" => task'[h] = task[h]
    BY <1>3, <1>4 DEF Bystanders
  <2>2. QED
    BY <1>2, <2>1 DEF Notified, Untold
<1>8. Produced'
  <2>1. Owe(g)'
    BY <1>0, <1>1, <1>2, <1>4 DEF Owe
  <2>2. \A h \in Goroutine : h # g /\ Publishing(h)' => Owe(h)'
    BY <1>2, <1>3 DEF Notified, Produced, Owe, Bystanders
  <2>3. QED
    BY <2>1, <2>2 DEF Produced
<1>9. OpenPubs' = OpenPubs
  <2>1. \A h \in Goroutine : /\ Publishing(h)' <=> Publishing(h)
                             /\ Publishing(h) => task'[h].pub = task[h].pub
    BY <1>0, <1>1, <1>3, <1>4 DEF Bystanders
  <2>2. QED
    BY <2>1 DEF OpenPubs
<1>10. Owing' = Owing
  <2>1. \A o : (ByEntry(g, o)' <=> ByEntry(g, o)) /\ (ByHand(g, o)' <=> ByHand(g, o))
    BY <1>0, <1>1, <1>2, <1>4 DEF ByEntry, ByHand, Due
  <2>2. \A o : o \in Owing' <=> o \in Owing
    BY <1>0, <1>3, <1>4, <2>1, OwingIs DEF Bystanders
  <2>3. QED
    BY <2>2
<1>11. UNCHANGED P!vars
  BY Zenon, <1>2, <1>3, <1>9, <1>10, StutterView
<1>12. QED
  BY <1>5, <1>6, <1>7, <1>8, <1>11

\* The entry in hand is notified.
LEMMA NotifyNotifies ==
  ASSUME Notified, NEW g \in Goroutine, NEW p, p = task[g].pub, NEW b, b = task[g].sub,
         Notify(g), TypeOK'
  PROVE  /\ OnePublisher' /\ Numbered' /\ Untold' /\ Produced'
         /\ P!Notify(Due(b, p)) /\ Due(b, p) \in Owing
<1>0. /\ TypeOK /\ Owe(g) /\ p \in Pub /\ b \in BrokerSub
      /\ task[g].pc = "notify" /\ task[g] \in Notifying
      /\ Busy(g) /\ Publishing(g) /\ InHand(g)
  <2>1. TypeOK /\ Produced /\ task[g].pc = "notify"
    BY DEF Notified, Notify
  <2>2. task[g] \in Notifying
    BY <2>1, TaskOf
  <2>3. Busy(g) /\ Publishing(g) /\ InHand(g)
    BY <2>1 DEF Busy, Publishing, InHand
  <2>4. QED
    BY <2>1, <2>2, <2>3 DEF Produced, Notifying
<1>1. /\ Becomes(g, task'[g]) /\ task'[g].pc = "range" /\ task'[g].pub = p
      /\ task'[g].must = task[g].must /\ task'[g].seen = task[g].seen
  BY <1>0 DEF Notify, AfterNotify, BackToRange, TypeOK, Becomes
<1>2. UNCHANGED subs /\ asked' = asked /\ published' = published
  BY DEF Notify
<1>3. Told' = Told \cup {<<b.tid, p>>}
  <2> DEFINE m == [stage |-> "NOTIFY", to |-> b.owner[1], tid |-> b.tid,
                   pub |-> p, headers |-> task[g].headers, body |-> task[g].body]
  <2>1. outbox' = Append(outbox, m)
    BY DEF Notify
  <2>2. m.stage = "NOTIFY" /\ m.tid = b.tid /\ m.pub = p
    OBVIOUS
  <2> HIDE DEF m
  <2>3. QED
    BY <1>0, <2>1, <2>2, ToldAppend
<1>4. Bystanders(g) /\ Actives' = Actives
  BY <1>1, <1>2, OneMoves
<1>5. Busy(g)' /\ Publishing(g)' /\ ~InHand(g)' /\ task'[g].pc # "check"
  BY <1>1 DEF Busy, Publishing, InHand
<1>6. OnePublisher'
  <2>1. \A h \in Goroutine : Busy(h)' => Busy(h) /\ task'[h].pub = task[h].pub
    BY <1>0, <1>1, <1>4 DEF Bystanders
  <2>2. QED
    BY <1>2, <2>1, SamePublisher
<1>7. b.tid <= asked /\ p \in published
  BY <1>0 DEF Notified, Numbered, OnePublisher
<1>8. Numbered'
  <2>1. \A h \in Goroutine : InHand(h)' => InHand(h) /\ task'[h] = task[h]
    BY <1>4, <1>5 DEF Bystanders
  <2>2. \A d \in Told' : d[1] <= asked /\ d[2] \in published
    BY <1>3, <1>7 DEF Notified, Numbered
  <2>3. QED
    BY <1>2, <2>1, <2>2 DEF Notified, Numbered
<1>9. \A h \in Goroutine : h # g /\ Busy(h) => task[h].pub # p
  BY <1>0 DEF Notified, OnePublisher
<1>10. Untold'
  <2>1. \A h \in Goroutine : task'[h].pc = "check" =>
          task'[h] = task[h] /\ task[h].pub # p
    BY <1>4, <1>5, <1>9 DEF Bystanders, Busy
  <2>2. QED
    BY <1>3, <2>1 DEF Notified, Untold
<1>11. Produced'
  <2>1. Owe(g)'
    <3>1. \A k \in Keys : subs'[k] # NoSub =>
            (<<subs'[k].tid, task'[g].pub>> \in Told' => k \in task'[g].seen)
      BY <1>0, <1>1, <1>2, <1>3 DEF Owe
    <3>2. QED
      BY <1>0, <1>1, <1>2, <1>5, <3>1 DEF Owe
  <2>2. ASSUME NEW h \in Goroutine, h # g, Publishing(h)' PROVE Owe(h)'
    <3>1. task'[h] = task[h] /\ Publishing(h) /\ Owe(h) /\ (InHand(h)' <=> InHand(h))
      BY <1>4, <2>2 DEF Bystanders, Notified, Produced
    <3>2. task[h].pub # p
      BY <1>9, <2>2, <3>1 DEF Busy, Publishing
    <3>3. \A i : <<i, task[h].pub>> \in Told' <=> <<i, task[h].pub>> \in Told
      BY <1>3, <3>2
    <3>4. QED
      BY <1>2, <3>1, <3>3 DEF Owe
  <2>3. QED
    BY <2>1, <2>2 DEF Produced
<1>12. OpenPubs' = OpenPubs
  <2>1. \A h \in Goroutine : /\ Publishing(h)' <=> Publishing(h)
                             /\ Publishing(h) => task'[h].pub = task[h].pub
    BY <1>0, <1>1, <1>4, <1>5 DEF Bystanders
  <2>2. QED
    BY <2>1 DEF OpenPubs
<1> DEFINE due == Due(b, p)
<1>13. due[2] = b.tid /\ due[3] = p
  BY DEF Due
<1>14. due \in Owing
  BY <1>0, OwingIs DEF ByHand
<1>15. \A o : ByHand(g, o) => o = due
  BY DEF ByHand
<1>16. \A o : ~ByHand(g, o)'
  BY <1>5 DEF ByHand
<1>17. \A o : ByEntry(g, o)' <=> ByEntry(g, o)
  BY <1>1, <1>2 DEF ByEntry, Due
<1> HIDE DEF due
<1>18. Owing' = Owing \ {due}
  <2>1. ASSUME NEW o \in Owing' PROVE o \in Owing
    BY <1>0, <1>4, <1>16, <1>17, OwingIs DEF Bystanders
  <2>2. due \notin Owing'
    <3>1. \A o \in Owing' : <<o[2], o[3]>> \notin Told'
      BY <1>11, OwingUntold
    <3>2. <<due[2], due[3]>> \in Told'
      BY <1>3, <1>13
    <3>3. QED
      BY <3>1, <3>2
  <2>3. ASSUME NEW o \in Owing, o # due PROVE o \in Owing'
    BY <1>4, <1>5, <1>15, <1>17, <2>3, OwingIs DEF Bystanders
  <2>4. QED
    BY <2>1, <2>2, <2>3
<1>19. Told' = Told \cup {<<due[2], due[3]>>}
  BY <1>3, <1>13
<1>20. P!Notify(due)
  BY Zenon, <1>4, <1>12, <1>14, <1>18, <1>19, NotifyView
<1>21. QED
  BY <1>6, <1>8, <1>10, <1>11, <1>14, <1>20 DEF due

\* A publication ends when it is owed to nobody.
LEMMA RangeEndsFinishes ==
  ASSUME Notified, NEW g \in Goroutine, NEW p, p = task[g].pub, RangeEnds(g), TypeOK'
  PROVE  /\ OnePublisher' /\ Numbered' /\ Untold' /\ Produced'
         /\ P!Finish(p)
<1>0. /\ TypeOK /\ task[g].pc = "range" /\ task[g].must = {}
      /\ Busy(g) /\ Publishing(g) /\ ~InHand(g)
  BY DEF Notified, RangeEnds, Busy, Publishing, InHand
<1>1. Becomes(g, Idle) /\ task'[g].pc = "idle"
  BY <1>0 DEF RangeEnds, TypeOK, Becomes, Idle
<1>2. UNCHANGED subs /\ asked' = asked /\ published' = published /\ Told' = Told
  BY DEF RangeEnds, Told, Notifications
<1>3. Bystanders(g) /\ Actives' = Actives
  BY <1>1, <1>2, OneMoves
<1>4. ~Busy(g)' /\ ~Publishing(g)' /\ ~InHand(g)'
  BY <1>1 DEF Busy, Publishing, InHand
<1>5. OnePublisher'
  <2>1. \A h \in Goroutine : Busy(h)' => Busy(h) /\ task'[h].pub = task[h].pub
    BY <1>3, <1>4 DEF Bystanders
  <2>2. QED
    BY <1>2, <2>1, SamePublisher
<1>6. Numbered'
  <2>1. \A h \in Goroutine : InHand(h)' => InHand(h) /\ task'[h] = task[h]
    BY <1>3, <1>4 DEF Bystanders
  <2>2. QED
    BY <1>2, <2>1 DEF Notified, Numbered
<1>7. Untold'
  <2>1. \A h \in Goroutine : task'[h].pc = "check" => task'[h] = task[h]
    BY <1>1, <1>3 DEF Bystanders
  <2>2. QED
    BY <1>2, <2>1 DEF Notified, Untold
<1>8. Produced'
  BY <1>2, <1>3, <1>4 DEF Notified, Produced, Owe, Bystanders
<1>9. \A h \in Goroutine : h # g /\ Publishing(h) => task[h].pub # p
  BY <1>0 DEF Notified, OnePublisher, Publishing, Busy
<1>10. p \in OpenPubs /\ OpenPubs' = OpenPubs \ {p}
  <2>1. \A q : q \in OpenPubs' <=> \E h \in Goroutine : Publishing(h)' /\ q = task'[h].pub
    BY DEF OpenPubs
  <2>2. \A q : q \in OpenPubs <=> \E h \in Goroutine : Publishing(h) /\ q = task[h].pub
    BY DEF OpenPubs
  <2>3. \A q : q \in OpenPubs' <=> q \in OpenPubs /\ q # p
    BY <1>3, <1>4, <1>9, <2>1, <2>2 DEF Bystanders
  <2>4. QED
    BY <1>0, <2>2, <2>3
<1>11. \A o : ~ByEntry(g, o) /\ ~ByHand(g, o)
  BY <1>0 DEF ByEntry, ByHand
<1>12. \A o \in Owing : o[3] # p
  <2>1. TAKE o \in Owing
  <2>2. PICK h \in Goroutine : Publishing(h) /\ (ByEntry(h, o) \/ ByHand(h, o))
    BY OwingIs
  <2>3. task[h].pub # p
    BY <1>9, <1>11, <2>2
  <2>4. QED
    BY <2>2, <2>3 DEF ByEntry, ByHand, Due
<1>13. Owing' = Owing
  <2>1. \A o : o \in Owing' <=> o \in Owing
    BY <1>3, <1>4, <1>11, OwingIs DEF Bystanders
  <2>2. QED
    BY <2>1
<1>14. P!Finish(p)
  BY Zenon, <1>2, <1>3, <1>10, <1>12, <1>13, FinishView
<1>15. QED
  BY <1>5, <1>6, <1>7, <1>8, <1>14

\* A goroutine does something that PubSub does not see.
Quiet(g) ==
  /\ UNCHANGED subs /\ Told' = Told /\ asked' \in Nat /\ asked <= asked'
  /\ \A h \in Goroutine : h # g => task'[h] = task[h]
  /\ task'[g] = task[g] \/ (~Publishing(g) /\ ~Publishing(g)')

\* It keeps its publication, if it has one, or begins a new one.
KeepsPub(g) ==
  /\ published' = published
  /\ Busy(g)' => Busy(g) /\ task'[g].pub = task[g].pub
  /\ task'[g].pc = "check" => task'[g] = task[g]
BeginsPub(g) ==
  /\ task'[g].pub \notin published
  /\ published' = published \cup {task'[g].pub}

LEMMA QuietKept ==
  ASSUME Notified, TypeOK', NEW g \in Goroutine, Quiet(g), KeepsPub(g) \/ BeginsPub(g)
  PROVE  OnePublisher' /\ Numbered' /\ Untold' /\ Produced' /\ UNCHANGED P!vars
<1>1. published \subseteq published'
  BY DEF KeepsPub, BeginsPub
<1>2. \A h \in Goroutine : Publishing(h) \/ Publishing(h)' => task'[h] = task[h]
  BY DEF Quiet
<1>3. Silent
  BY <1>1, <1>2 DEF Silent, Quiet
<1>4. \A h \in Goroutine :
        task'[h].pc = "check" => task'[h] = task[h] \/ task'[h].pub \notin published
  BY DEF Quiet, KeepsPub, BeginsPub
<1>5. \A h \in Goroutine : h # g => (Busy(h)' <=> Busy(h)) /\ task'[h].pub = task[h].pub
  BY DEF Quiet, Busy
<1>6. OnePublisher'
  <2>1. CASE KeepsPub(g)
    <3>1. \A h \in Goroutine : Busy(h)' => Busy(h) /\ task'[h].pub = task[h].pub
      BY <1>5, <2>1 DEF KeepsPub
    <3>2. QED
      BY <1>1, <3>1, SamePublisher
  <2>2. CASE BeginsPub(g)
    <3>1. \A h \in Goroutine : h # g /\ Busy(h)' =>
            task'[h].pub \in published /\ task'[h].pub # task'[g].pub
      BY <1>5, <2>2 DEF Notified, OnePublisher, BeginsPub
    <3>2. \A h \in Goroutine : Busy(h)' => task'[h].pub \in published'
      BY <2>2, <3>1 DEF BeginsPub
    <3>3. \A h, i \in Goroutine : Busy(h)' /\ Busy(i)' /\ task'[h].pub = task'[i].pub => h = i
      BY <1>5, <3>1 DEF Notified, OnePublisher
    <3>4. QED
      BY <3>2, <3>3 DEF OnePublisher
  <2>3. QED
    BY <2>1, <2>2
<1>7. QED
  BY <1>3, <1>4, <1>6, SilentKept, SilentView

\* The steps that PubSub does not see.
LEMMA QuietSteps ==
  ASSUME Notified, TypeOK', NEW g \in Goroutine,
         \/ \E stage, u, error : Handles(g, stage, u, error) /\ UNCHANGED <<subs, published, outbox>>
         \/ Ack(g) \/ PublishError(g) \/ MapRace(g) \/ LocalPublishRegister(g)
         \/ \E p \in Pub : Publish(g, p) \/ PublishFails(g, p)
         \/ Check(g) /\ ~Accepted(task[g].pub)
         \/ ~panicked /\ panicked' /\ \E k \in Keys : Select(g, k)
  PROVE  OnePublisher' /\ Numbered' /\ Untold' /\ Produced' /\ UNCHANGED P!vars
<1>0. TypeOK /\ asked \in Nat
  BY HandlerAssumption DEF Notified, TypeOK
<1>1. UNCHANGED outbox => Told' = Told
  BY DEF Told, Notifications
<1>2. SUFFICES Quiet(g) /\ (KeepsPub(g) \/ BeginsPub(g))
  BY QuietKept
<1>3. ASSUME UNCHANGED <<subs, asked, published, task>>, Told' = Told
      PROVE  Quiet(g) /\ (KeepsPub(g) \/ BeginsPub(g))
  BY <1>0, <1>3 DEF Quiet, KeepsPub, Busy
<1>4. ASSUME NEW t, Becomes(g, t), ~Publishing(g), t.pc \in {"idle", "ack"},
             UNCHANGED <<subs, published>>, Told' = Told, asked' \in {asked, asked + 1}
      PROVE  Quiet(g) /\ (KeepsPub(g) \/ BeginsPub(g))
  BY <1>0, <1>4 DEF Quiet, KeepsPub, Busy, Publishing, Becomes
<1>5. ASSUME NEW stage, NEW u, NEW error, Handles(g, stage, u, error),
             UNCHANGED <<subs, published, outbox>>
      PROVE  Quiet(g) /\ (KeepsPub(g) \/ BeginsPub(g))
  <2>1. /\ ~Publishing(g) /\ asked' = asked + 1 /\ task'[g].pc = "ack"
        /\ \A h \in Goroutine : h # g => task'[h] = task[h]
    BY <1>0, <1>5 DEF Handles, Publishing, TypeOK
  <2>2. QED
    BY <1>0, <1>1, <1>5, <2>1 DEF Quiet, KeepsPub, Busy, Publishing
<1>6. CASE Ack(g)
  <2>1. task[g].reply \in Acks /\ ~Publishing(g)
    BY <1>0, <1>6, TaskOf DEF Ack, Acking, Publishing
  <2>2. Told' = Told
    <3>1. outbox' = Append(outbox, task[g].reply) /\ task[g].reply.stage # "NOTIFY"
      BY <1>6, <2>1 DEF Ack, Sent, Acks
    <3>2. QED
      BY <1>0, <3>1, ToldAppend
  <2>3. Becomes(g, Idle)
    BY <1>0, <1>6, TaskBecomes DEF Ack
  <2>4. QED
    BY <1>4, <1>6, <2>1, <2>2, <2>3 DEF Ack, Idle
<1>7. CASE PublishError(g)
  <2> DEFINE m == [stage |-> "PUBLISH_ERROR", to |-> From[task[g].pub], pub |-> task[g].pub]
  <2>1. CASE From[task[g].pub] \in pubs
    <3>1. ~Publishing(g) /\ Becomes(g, Idle)
      BY <1>0, <1>7, <2>1, TaskBecomes DEF PublishError, Publishing
    <3>2. Told' = Told
      <4>1. outbox' = Append(outbox, m) /\ m.stage # "NOTIFY"
        BY <1>7, <2>1 DEF PublishError
      <4> HIDE DEF m
      <4>2. QED
        BY <1>0, <4>1, ToldAppend
    <3>3. QED
      BY <1>4, <1>7, <3>1, <3>2 DEF PublishError, Idle
  <2>2. CASE From[task[g].pub] \notin pubs
    BY <1>1, <1>3, <1>7, <2>2 DEF PublishError
  <2>3. QED
    BY <2>1, <2>2
<1>8. CASE MapRace(g) \/ LocalPublishRegister(g)
  BY <1>1, <1>3, <1>8 DEF MapRace, LocalPublishRegister
<1>9. ASSUME NEW p \in Pub, Publish(g, p) \/ PublishFails(g, p)
      PROVE  Quiet(g) /\ (KeepsPub(g) \/ BeginsPub(g))
  <2>1. /\ ~Publishing(g) /\ task'[g].pc \in {"check", "error"} /\ task'[g].pub = p
        /\ \A h \in Goroutine : h # g => task'[h] = task[h]
    BY <1>0, <1>9 DEF Publish, PublishFails, Publishing, TypeOK
  <2>2. UNCHANGED <<subs, asked, outbox>> /\ p \notin published /\ published' = published \cup {p}
    BY <1>9 DEF Publish, PublishFails
  <2>3. QED
    BY <1>0, <1>1, <2>1, <2>2 DEF Quiet, BeginsPub, Publishing
<1>10. CASE Check(g) /\ ~Accepted(task[g].pub)
  <2>1. /\ task[g].pc = "check"
        /\ task'[g].pc \in {"idle", "error"}
        /\ task'[g].pc = "error" => task'[g].pub = task[g].pub
        /\ \A h \in Goroutine : h # g => task'[h] = task[h]
    BY <1>0, <1>10 DEF Check, TypeOK, Idle
  <2>2. UNCHANGED <<subs, asked, outbox, published>>
    BY <1>10 DEF Check
  <2>3. QED
    BY <1>0, <1>1, <2>1, <2>2 DEF Quiet, KeepsPub, Busy, Publishing
<1>11. ASSUME NEW k \in Keys, Select(g, k), ~panicked, panicked'
       PROVE  Quiet(g) /\ (KeepsPub(g) \/ BeginsPub(g))
  BY <1>1, <1>3, <1>11 DEF Select
<1>12. QED
  BY <1>5, <1>6, <1>7, <1>8, <1>9, <1>10, <1>11

\* Every step of the broker is one of PubSub or none.
LEMMA NotifiedNext ==
  ASSUME KeysApart, Notified, Next
  PROVE  Notified' /\ [P!Next]_(P!vars)
<1>0. TypeOK' /\ Owned'
  BY TypeNext, OwnedNext DEF Notified
<1>1. SUFFICES /\ OnePublisher' /\ Numbered' /\ Untold' /\ Produced'
               /\ P!Next \/ UNCHANGED P!vars
  BY <1>0 DEF Notified
<1>2. ASSUME NEW g \in Handler, HandleRequest(g)
      PROVE  /\ OnePublisher' /\ Numbered' /\ Untold' /\ Produced'
             /\ P!Next \/ UNCHANGED P!vars
  <2>1. ASSUME NEW x \in Subscriber, NEW r \in Request, Register(g, x, r)
        PROVE  /\ OnePublisher' /\ Numbered' /\ Untold' /\ Produced'
               /\ P!Next
    <3>1. /\ OnePublisher' /\ Numbered' /\ Untold' /\ Produced'
          /\ P!Subscribe(x, Registered(NewSub(x, r)))
      BY <1>0, <2>1, RegisterSubscribes
    <3>2. Registered(NewSub(x, r)) \in [tid : 1 .. MaxRequests, request : Request]
      BY <2>1, NextTransaction DEF Notified, Register, Handles, NewSub, Registered
    <3>3. P!Next
      BY Zenon, <3>1, <3>2 DEF P!Next
    <3>4. QED
      BY <3>1, <3>3
  <2>2. ASSUME NEW u \in Consumer, NEW S \in SUBSET SubId, Deregister(g, u, S)
        PROVE  /\ OnePublisher' /\ Numbered' /\ Untold' /\ Produced'
               /\ P!Next
    <3> DEFINE X == {<<u, s>> : s \in S}
    <3>1. /\ OnePublisher' /\ Numbered' /\ Untold' /\ Produced'
          /\ P!Unsubscribe(X)
      BY <1>0, <2>2, DeregisterUnsubscribes
    <3>2. X \in SUBSET Subscriber
      BY DEF Subscriber
    <3> HIDE DEF X
    <3>3. P!Next
      BY Zenon, <3>1, <3>2 DEF P!Next
    <3>4. QED
      BY <3>1, <3>3
  <2>3. CASE /\ \A x \in Subscriber, r \in Request : ~Register(g, x, r)
             /\ \A u \in Consumer, S \in SUBSET SubId : ~Deregister(g, u, S)
    <3>1. \E stage, u, error : Handles(g, stage, u, error) /\ UNCHANGED <<subs, published, outbox>>
      BY <1>2, <2>3 DEF HandleRequest, RegisterFails, PublishRegister, PublishDeregister
    <3>2. QED
      BY <1>0, <3>1, QuietSteps DEF Goroutine
  <2>4. QED
    BY <2>1, <2>2, <2>3
<1>3. ASSUME NEW g \in Goroutine, Check(g)
      PROVE  /\ OnePublisher' /\ Numbered' /\ Untold' /\ Produced'
             /\ P!Next \/ UNCHANGED P!vars
  <2>1. PICK p \in Pub : p = task[g].pub
    BY <1>3, PublishingTask DEF Notified, Check, Busy
  <2>2. CASE Accepted(p)
    <3>1. /\ OnePublisher' /\ Numbered' /\ Untold' /\ Produced'
          /\ P!Publish(p)
      BY <1>0, <1>3, <2>1, <2>2, CheckPublishes
    <3>2. P!Next
      BY Zenon, <3>1 DEF P!Next
    <3>3. QED
      BY <3>1, <3>2
  <2>3. CASE ~Accepted(p)
    BY <1>0, <1>3, <2>1, <2>3, QuietSteps
  <2>4. QED
    BY <2>2, <2>3
<1>4. ASSUME NEW g \in Goroutine, NEW k \in Keys, Select(g, k)
      PROVE  /\ OnePublisher' /\ Numbered' /\ Untold' /\ Produced'
             /\ P!Next \/ UNCHANGED P!vars
  <2>1. PICK p \in Pub : p = task[g].pub
    BY <1>4, PublishingTask DEF Notified, Select, Busy
  <2>2. CASE ~panicked'
    <3>1. /\ OnePublisher' /\ Numbered' /\ Untold' /\ Produced'
          /\ UNCHANGED P!vars \/ \E x \in Subscriber : P!Reach(x, p)
      BY <1>0, <1>4, <2>1, <2>2, SelectReaches
    <3>2. (\E x \in Subscriber : P!Reach(x, p)) => P!Next
      BY Zenon DEF P!Next
    <3>3. QED
      BY <3>1, <3>2
  <2>3. CASE panicked'
    <3>1. ~panicked
      BY DEF Next
    <3>2. QED
      BY <1>0, <1>4, <2>3, <3>1, QuietSteps
  <2>4. QED
    BY <2>2, <2>3
<1>5. ASSUME NEW g \in Goroutine, Encode(g)
      PROVE  /\ OnePublisher' /\ Numbered' /\ Untold' /\ Produced'
             /\ P!Next \/ UNCHANGED P!vars
  BY <1>0, <1>5, EncodeStutters
<1>6. ASSUME NEW g \in Goroutine, Notify(g)
      PROVE  /\ OnePublisher' /\ Numbered' /\ Untold' /\ Produced'
             /\ P!Next \/ UNCHANGED P!vars
  <2>1. PICK p, b : p = task[g].pub /\ b = task[g].sub
    OBVIOUS
  <2>2. /\ OnePublisher' /\ Numbered' /\ Untold' /\ Produced'
        /\ P!Notify(Due(b, p)) /\ Due(b, p) \in Owing
    BY <1>0, <1>6, <2>1, NotifyNotifies
  <2>3. P!Next
    BY Zenon, <2>2 DEF P!Next, Owing
  <2>4. QED
    BY <2>2, <2>3
<1>7. ASSUME NEW g \in Goroutine, RangeEnds(g)
      PROVE  /\ OnePublisher' /\ Numbered' /\ Untold' /\ Produced'
             /\ P!Next \/ UNCHANGED P!vars
  <2>1. PICK p \in Pub : p = task[g].pub
    BY <1>7, PublishingTask DEF Notified, RangeEnds, Busy
  <2>2. /\ OnePublisher' /\ Numbered' /\ Untold' /\ Produced'
        /\ P!Finish(p)
    BY <1>0, <1>7, <2>1, RangeEndsFinishes
  <2>3. P!Next
    BY Zenon, <2>2 DEF P!Next
  <2>4. QED
    BY <2>2, <2>3
<1>8. ASSUME NEW g \in Goroutine,
             \/ Ack(g) \/ PublishError(g) \/ MapRace(g) \/ LocalPublishRegister(g)
             \/ \E p \in Pub : Publish(g, p) \/ PublishFails(g, p)
      PROVE  /\ OnePublisher' /\ Numbered' /\ Untold' /\ Produced'
             /\ P!Next \/ UNCHANGED P!vars
  BY <1>0, <1>8, QuietSteps
<1>9. Handler \subseteq Goroutine /\ Local \subseteq Goroutine /\ Remote \subseteq Pub
  BY DEF Goroutine, Remote
<1>10. QED
  <2>1. \/ \E g \in Handler : HandleRequest(g)
        \/ \E g \in Goroutine :
             \/ Ack(g) \/ PublishError(g) \/ MapRace(g) \/ LocalPublishRegister(g)
             \/ \E p \in Pub : Publish(g, p) \/ PublishFails(g, p)
        \/ \E g \in Goroutine : \/ Check(g) \/ Encode(g) \/ Notify(g) \/ RangeEnds(g)
                                \/ \E k \in Keys : Select(g, k)
    BY Zenon, <1>9 DEF Next
  <2>2. QED
    BY <1>2, <1>3, <1>4, <1>5, <1>6, <1>7, <1>8, <2>1

\* At first nobody is registered and nothing is published.
LEMMA NotifiedInit == Init => Notified /\ P!Init
<1> SUFFICES ASSUME Init PROVE Notified /\ P!Init
  OBVIOUS
<1>1. \A g \in Goroutine : task[g].pc = "idle"
  BY DEF Init, Idle
<1>2. Told = {} /\ \A k \in Keys : subs[k] = NoSub
  BY DEF Init, Told, Notifications
<1>3. \A g \in Goroutine : ~Busy(g) /\ ~Publishing(g) /\ ~InHand(g)
  BY <1>1 DEF Busy, Publishing, InHand
<1>4. TypeOK /\ Owned /\ OnePublisher /\ Untold /\ Produced
  BY <1>1, <1>2, <1>3, TypeInit DEF Owned, OnePublisher, Untold, Produced
<1>5. Numbered
  BY <1>2, <1>3 DEF Numbered
<1>6. Actives = [x \in Subscriber |-> NoSub]
  BY <1>2, KeyOf DEF Actives, Active
<1>7. OpenPubs = {} /\ Owing = {}
  BY <1>3, OwingIs DEF OpenPubs
<1>8. P!Init
  BY Zenon, <1>2, <1>6, <1>7 DEF P!Init, Actives, OpenPubs, Owing, Told
<1>9. QED
  BY <1>4, <1>5, <1>8 DEF Notified

\* As long as no two subscribers have one key, the broker does what PubSub promises,
\* with any number of goroutines and whatever registrations come during the loop of
\* doPublish: an accepted publication is notified once to each registration that
\* stays and asks for some of its updates, and to nobody else.
THEOREM ImplementsPubSub == KeysApart => (Spec => PubSubSpec)
<1> SUFFICES ASSUME KeysApart PROVE Spec => PubSubSpec
  OBVIOUS
<1>1. Notified /\ [Next]_vars => Notified' /\ [P!Next]_(P!vars)
  <2>1. ASSUME Notified, UNCHANGED vars PROVE Notified' /\ UNCHANGED P!vars
    <3>1. Silent
      BY <2>1, HandlerAssumption DEF vars, Silent, Told, Notifications, Notified, TypeOK
    <3>2. TypeOK' /\ Owned' /\ OnePublisher'
      BY <2>1 DEF vars, Notified, TypeOK, Owned, OnePublisher, Busy
    <3>3. Numbered' /\ Untold' /\ Produced'
      BY <2>1, <3>1, <3>2, SilentKept DEF vars
    <3>4. QED
      BY <3>1, <3>2, <3>3, SilentView DEF Notified
  <2>2. QED
    BY <2>1, NotifiedNext
<1>2. QED
  BY <1>1, NotifiedInit, PTL DEF Spec, PubSubSpec, P!Spec

=============================================================================
