------------------------ MODULE ArchiveService_proofs ------------------------
(***************************************************************************)
(* Theorems about ArchiveService, for any number of calls, of updates and  *)
(* of faults and any size of the channel of a Query, with applications     *)
(* that keep to the service (Habits = {}).                                 *)
(***************************************************************************)
EXTENDS ArchiveService, TLAPS

-----------------------------------------------------------------------------
(* What goes round. *)

Reasons == [how : {"error"}, code : Codes, info : {"UIntegerList", "String"}]
Bodies == {<<>>} \cup {Operation[k].out : k \in Kinds}
Messages == [n : Nat, stage : {"ack", "update", "response"}, error : {TRUE}, body : Reasons]
            \cup [n : Nat, stage : {"ack", "update", "response"}, error : {FALSE}, body : Bodies]
Ended == {End(how) : how \in {"none", "values", "unencodable", "undecodable"}}
         \cup [how : {"error"}, code : Codes, info : {"UIntegerList", "String", "unreadable"}]
Outcomes == [updates : Nat, end : Ended]

\* The messages between the provider and the consumer, the oldest first: those in
\* the channel of the operation, the one the Context waits with, and the others.
Chain(b, h, r) == b \o (IF h = NoMessage THEN <<>> ELSE <<h>>) \o r
Stream == Chain(buffer, held, replies)

StagesOf(kind) == Helper[kind].stages
Acknowledged(kind) == Len(StagesOf(kind)) > 1   \* its acknowledgement is not its end

Finished == provider.at = "none" \/ (provider.at = "implementation" /\ provider.done = Len(Stages))
Settled == requests = <<>> /\ Stream = <<>> /\ Finished

-----------------------------------------------------------------------------
(* Chains of messages. *)

\* What a chain is made of.
LEMMA ChainTyped ==
  ASSUME NEW b \in Seq(Messages), NEW r \in Seq(Messages), NEW h \in Messages \cup {NoMessage}
  PROVE  /\ Chain(b, h, r) \in Seq(Messages)
         /\ Chain(b, h, r) = <<>> <=> b = <<>> /\ h = NoMessage /\ r = <<>>
  BY DEF Chain

\* A message is never the mark for none.
LEMMA MessageIsOne ==
  NoMessage \notin Messages /\ Bad \notin Messages /\ NoMessage # Bad
  BY DEF NoMessage, Bad, Messages

\* The provider adds a message at the end.
LEMMA ChainGrows ==
  ASSUME NEW b \in Seq(Messages), NEW r \in Seq(Messages), NEW h \in Messages \cup {NoMessage}, NEW m \in Messages
  PROVE  Chain(b, h, Append(r, m)) = Append(Chain(b, h, r), m)
<1> DEFINE x == IF h = NoMessage THEN <<>> ELSE <<h>>
<1>1. x \in Seq(Messages)
  OBVIOUS
<1> HIDE DEF x
<1>2. b \o x \in Seq(Messages)
  BY <1>1
<1>3. (b \o x) \o Append(r, m) = Append((b \o x) \o r, m)
  BY <1>2
<1>4. QED
  BY <1>3 DEF Chain, x

\* The Context moves a message within it.
LEMMA ChainMoves ==
  ASSUME NEW b \in Seq(Messages), NEW r \in Seq(Messages)
  PROVE  /\ r # <<>> => /\ Chain(Append(b, Head(r)), NoMessage, Tail(r)) = Chain(b, NoMessage, r)
                        /\ Chain(b, Head(r), Tail(r)) = Chain(b, NoMessage, r)
         /\ \A h \in Messages : Chain(Append(b, h), NoMessage, r) = Chain(b, h, r)
<1>1. ASSUME NEW h \in Messages PROVE Chain(Append(b, h), NoMessage, r) = Chain(b, h, r)
  <2>1. Append(b, h) \o <<>> = Append(b, h) /\ b \o <<h>> = Append(b, h) /\ h # NoMessage
    BY MessageIsOne
  <2>2. QED
    BY <2>1 DEF Chain
<1>2. ASSUME r # <<>> PROVE Chain(b, Head(r), Tail(r)) = Chain(b, NoMessage, r)
  <2>1. Head(r) \in Messages /\ Tail(r) \in Seq(Messages)
    BY <1>2
  <2>2. b \o <<>> = b /\ b \o <<Head(r)>> = Append(b, Head(r)) /\ Head(r) # NoMessage
    BY <2>1, MessageIsOne
  <2>3. Append(b, Head(r)) \o Tail(r) = b \o r
    BY <1>2
  <2>4. QED
    BY <2>2, <2>3 DEF Chain
<1>3. ASSUME r # <<>> PROVE Chain(Append(b, Head(r)), NoMessage, Tail(r)) = Chain(b, NoMessage, r)
  <2>1. Head(r) \in Messages /\ Tail(r) \in Seq(Messages)
    BY <1>3
  <2>2. Append(b, Head(r)) \o <<>> = Append(b, Head(r)) /\ b \o <<>> = b
    BY <2>1
  <2>3. Append(b, Head(r)) \o Tail(r) = b \o r
    BY <1>3
  <2>4. QED
    BY <2>2, <2>3 DEF Chain
<1>4. QED
  BY <1>1, <1>2, <1>3

\* The consumer takes the first one.
LEMMA ChainTaken ==
  ASSUME NEW b \in Seq(Messages), NEW r \in Seq(Messages), NEW h \in Messages \cup {NoMessage}
  PROVE  /\ b # <<>> => Chain(Tail(b), h, r) = Tail(Chain(b, h, r)) /\ Chain(b, h, r)[1] = Head(b)
         /\ h # NoMessage => Chain(<<>>, NoMessage, r) = Tail(Chain(<<>>, h, r)) /\ Chain(<<>>, h, r)[1] = h
<1> DEFINE x == IF h = NoMessage THEN <<>> ELSE <<h>>
<1>1. x \in Seq(Messages) /\ b \o x \in Seq(Messages) /\ <<>> \o x = x
  OBVIOUS
<1>2. ASSUME b # <<>> PROVE Chain(Tail(b), h, r) = Tail(Chain(b, h, r)) /\ Chain(b, h, r)[1] = Head(b)
  <2>1. Tail(b) \o x = Tail(b \o x) /\ (b \o x)[1] = Head(b) /\ b \o x # <<>>
    BY <1>1, <1>2, SMTT(30)
  <2>2. Tail(b \o x) \o r = Tail((b \o x) \o r) /\ ((b \o x) \o r)[1] = Head(b \o x) /\ Head(b \o x) = (b \o x)[1]
    BY <1>1, <2>1
  <2>3. QED
    BY <2>1, <2>2 DEF Chain
<1>3. ASSUME h # NoMessage
      PROVE  Chain(<<>>, NoMessage, r) = Tail(Chain(<<>>, h, r)) /\ Chain(<<>>, h, r)[1] = h
  BY <1>3 DEF Chain
<1>4. QED
  BY <1>2, <1>3

-----------------------------------------------------------------------------
(* What is particular to an operation. *)

LEMMA KindFacts ==
  ASSUME NEW k \in Kinds
  PROVE  /\ Handler[k] = Operation[k].in /\ Helper[k].out = Operation[k].out
         /\ \/ /\ k = "Query" /\ StagesOf(k) = <<"ack", "update", "response">>
               /\ Helper[k].early = "ack" /\ Helper[k].late = "update"
            \/ /\ k \in {"Retrieve", "Count"} /\ StagesOf(k) = <<"ack", "response">>
               /\ Helper[k].early = "ack" /\ Helper[k].late = "response"
            \/ /\ k \in {"Store", "Delete"} /\ StagesOf(k) = <<"response">>
               /\ Helper[k].early = "response" /\ Helper[k].late = "response"
            \/ /\ k = "Update" /\ StagesOf(k) = <<"ack">> /\ Operation[k].out = <<>>
               /\ Helper[k].early = "ack" /\ Helper[k].late = "ack"
<1>1. Kinds = {"Retrieve", "Query", "Count", "Store", "Update", "Delete"}
  BY DEF Kinds, Operation
<1>2. CASE k = "Retrieve"
  BY <1>2 DEF Handler, Operation, Helper, StagesOf, RetrieveHandler, RetrieveOperation, RetrieveHelper, Selection
<1>3. CASE k = "Query"
  BY <1>3 DEF Handler, Operation, Helper, StagesOf, QueryHandler, QueryOperation, QueryHelper, Objects
<1>4. CASE k = "Count"
  BY <1>4 DEF Handler, Operation, Helper, StagesOf, CountHandler, CountOperation, CountHelper
<1>5. CASE k = "Store"
  BY <1>5 DEF Handler, Operation, Helper, StagesOf, StoreHandler, StoreOperation, StoreHelper, Objects
<1>6. CASE k = "Update"
  BY <1>6 DEF Handler, Operation, Helper, StagesOf, UpdateHandler, UpdateOperation, UpdateHelper, Objects
<1>7. CASE k = "Delete"
  BY <1>7 DEF Handler, Operation, Helper, StagesOf, DeleteHandler, DeleteOperation, DeleteHelper, Selection
<1>8. QED
  BY <1>1, <1>2, <1>3, <1>4, <1>5, <1>6, <1>7

\* The errors of an operation have information.
LEMMA KindInfo ==
  ASSUME NEW k \in Kinds
  PROVE  \E lists : Operation[k].info = Info(lists)
<1>1. Kinds = {"Retrieve", "Query", "Count", "Store", "Update", "Delete"}
  BY DEF Kinds, Operation
<1>2. QED
  BY <1>1 DEF Operation, RetrieveOperation, QueryOperation, CountOperation, StoreOperation, UpdateOperation, DeleteOperation

\* The stages of an operation: after an acknowledgement come its updates, if it has
\* some, and then its end.
LEMMA StageFacts ==
  ASSUME NEW k \in Kinds
  PROVE  LET s == StagesOf(k)
         IN  /\ Len(s) \in 1 .. 3 /\ 0 < Len(s) /\ DOMAIN s = 1 .. Len(s)
             /\ \A j \in 1 .. Len(s) : s[j] \in {"ack", "update", "response"} /\ (s[j] = "update" => j = 2 /\ k = "Query")
             /\ \A j \in 1 .. Len(s) :
                  j < Len(s) => (j = 1 /\ s[j] = "ack") \/ (j = 2 /\ s[j] = "update" /\ k = "Query")
             /\ s[Len(s)] # "update" /\ (s[Len(s)] = "ack" => Operation[k].out = <<>>)
<1> DEFINE s == StagesOf(k)
<1>1. CASE k = "Query" /\ s = <<"ack", "update", "response">>
  <2>1. Len(s) = 3 /\ DOMAIN s = 1 .. 3 /\ s[1] = "ack" /\ s[2] = "update" /\ s[3] = "response"
    BY <1>1
  <2> HIDE DEF s
  <2>2. \A j \in 1 .. Len(s) : j = 1 \/ j = 2 \/ j = 3
    BY <2>1
  <2>3. QED
    <3>1. k = "Query"
      BY <1>1
    <3>2. QED
      BY <2>1, <2>2, <3>1 DEF s
<1>2. CASE k \in {"Retrieve", "Count"} /\ s = <<"ack", "response">>
  <2>1. Len(s) = 2 /\ DOMAIN s = 1 .. 2 /\ s[1] = "ack" /\ s[2] = "response"
    BY <1>2
  <2> HIDE DEF s
  <2>2. \A j \in 1 .. Len(s) : j = 1 \/ j = 2
    BY <2>1
  <2>3. QED
    <3>1. k \in {"Retrieve", "Count"}
      BY <1>2
    <3>2. QED
      BY <2>1, <2>2, <3>1 DEF s
<1>3. CASE k \in {"Store", "Delete"} /\ s = <<"response">>
  <2>1. Len(s) = 1 /\ DOMAIN s = 1 .. 1 /\ s[1] = "response"
    BY <1>3
  <2> HIDE DEF s
  <2>2. \A j \in 1 .. Len(s) : j = 1
    BY <2>1
  <2>3. QED
    BY <1>3, <2>1, <2>2 DEF s
<1>4. CASE k = "Update" /\ s = <<"ack">> /\ Operation[k].out = <<>>
  <2>1. Len(s) = 1 /\ DOMAIN s = 1 .. 1 /\ s[1] = "ack"
    BY <1>4
  <2> HIDE DEF s
  <2>2. \A j \in 1 .. Len(s) : j = 1
    BY <2>1
  <2>3. QED
    BY <1>4, <2>1, <2>2 DEF s
<1>5. QED
  BY <1>1, <1>2, <1>3, <1>4, KindFacts

-----------------------------------------------------------------------------
(* The messages of an operation.  The first one that its consumer gets is    *)
(* the opening one.                                                          *)

Opening(i) == op.status = "INITIATED" /\ i = 1

\* A message after which others come: an acknowledgement or an update.
Intermediate(i) ==
  LET m == Stream[i]
  IN  ~m.error /\ IF Opening(i) THEN m.stage = "ack" /\ Acknowledged(op.kind)
                  ELSE m.stage = "update" /\ op.kind = "Query"

\* A message says how the implementation ended the call.
Conclusive(m) ==
  \/ m.error /\ m.body \in Reasons /\ given[op.n].end = m.body
  \/ ~m.error /\ m.body = Operation[op.kind].out /\ given[op.n].end = End("values")

LastStage(i) ==
  LET m == Stream[i]
      h == Helper[op.kind]
  IN  m.stage = IF m.error THEN IF Opening(i) THEN h.early ELSE h.late ELSE h.stages[Len(h.stages)]

\* The updates read and those under way, when all but "others" messages are updates.
Counted(others) ==
  op.kind = "Query" /\ "swallowed" \notin faults =>
    given[op.n].updates + others = got[op.n].updates + Len(Stream)
Openings == IF op.status = "INITIATED" /\ Stream # <<>> THEN 1 ELSE 0

Ongoing == \A i \in 1 .. Len(Stream) : Intermediate(i)
Concluded ==
  LET l == Len(Stream)
  IN  /\ Stream # <<>> /\ \A i \in 1 .. l - 1 : Intermediate(i)
      /\ Conclusive(Stream[l]) /\ LastStage(l)
      /\ ~Stream[l].error => IF Opening(l) THEN ~Acknowledged(op.kind)
                            ELSE Acknowledged(op.kind) /\ Counted(Openings + 1)

Started == Stream # <<>> \/ op.status # "INITIATED"

Untouched(n) == got[n] = Nothing /\ given[n] = Nothing

RequestWaits ==
  /\ requests = <<[n |-> op.n, kind |-> op.kind, body |-> Operation[op.kind].in]>>
  /\ Finished /\ Stream = <<>> /\ op.status = "INITIATED" /\ Untouched(op.n)
RequestServed ==
  /\ requests = <<>> /\ provider.at \in {"implementation", "error"}
  /\ provider.n = op.n /\ provider.kind = op.kind /\ provider.done < Len(Stages)
  /\ (provider.acked <=> Started) /\ (provider.acked <=> provider.done > 0)
  /\ provider.at = "error" => provider.error \in Reasons /\ given[op.n].end = provider.error
  /\ Ongoing /\ Counted(Openings)
RequestOver == requests = <<>> /\ Finished /\ (Concluded \/ Ongoing)
UnderWay == RequestWaits \/ RequestServed \/ RequestOver

-----------------------------------------------------------------------------
(* The invariant, by the place where the consumer is. *)

MessagesTyped ==
  /\ buffer \in Seq(Messages) /\ replies \in Seq(Messages) /\ held \in Messages \cup {NoMessage}
  /\ op.n > 0 /\ op.kind # "Query" => buffer = <<>>
  /\ \A i \in 1 .. Len(Stream) : Stream[i].n = op.n
HistoryTyped == given \in [1 .. MaxUsed -> Outcomes] /\ got \in [1 .. MaxUsed -> Outcomes]

ProviderTyped ==
  \/ provider = [at |-> "none"]
  \/ provider \in [at : {"implementation", "error"}, n : 1 .. MaxUsed, kind : Kinds, acked : BOOLEAN, done : Nat,
                   error : Reasons]

OpTyped ==
  \/ op = [n |-> 0] /\ frame.at = "idle"
  \/ op \in [n : 1 .. MaxUsed, kind : Kinds, registered : BOOLEAN, response : Messages \cup {NoMessage},
             status : {"CREATED", "INITIATED", "ACKNOWLEDGED", "PROGRESSING", "FINAL"}]
FrameTyped == frame \in [at : {"idle", "call", "wait", "read", "finalize"},
                         method : {"none", "first", "GetUpdate", "GetResponse"}, msg : Messages \cup {NoMessage}]

Typed == MessagesTyped /\ HistoryTyped /\ ProviderTyped /\ OpTyped /\ FrameTyped

Open == got[op.n].end = End("none")

Idle == frame.at = "idle" => Settled
Calling == frame.at = "call" => op.status = "CREATED" /\ op.response = NoMessage /\ Settled /\ Untouched(op.n)

\* After the opening message the consumer reads with the methods of its pattern.
Progressing ==
  /\ op.status \in {"ACKNOWLEDGED", "PROGRESSING"} /\ Acknowledged(op.kind)
  /\ op.status = "PROGRESSING" => op.kind = "Query"
WaitingFor ==
  frame.at = "wait" =>
    /\ op.registered /\ op.response = NoMessage /\ Open /\ UnderWay
    /\ \/ frame.method = "first" /\ op.status = "INITIATED"
       \/ /\ frame.method = IF op.kind = "Query" THEN "GetUpdate" ELSE "GetResponse"
          /\ Progressing

AllRead == op.kind = "Query" /\ "swallowed" \notin faults => given[op.n].updates = got[op.n].updates
Reading ==
  frame.at = "read" =>
    /\ Open
    /\ \/ op.registered /\ op.response = NoMessage /\ Progressing /\ UnderWay
       \/ /\ op.status = "FINAL" /\ op.kind = "Query" /\ Settled
          /\ op.response \in Messages /\ Conclusive(op.response) /\ (~op.response.error => AllRead)
Finalizing ==
  frame.at = "finalize" =>
    /\ frame.msg \in Messages /\ Conclusive(frame.msg) /\ (~frame.msg.error => AllRead) /\ Settled /\ Open
    /\ frame.method = "GetUpdate" => op.kind = "Query"

\* What a call gave is what the implementation did.
True(n) ==
  LET g == got[n].end IN
  /\ g.how # "undecodable"
  /\ g.how = "values" => given[n].end.how = "values" /\ ("swallowed" \in faults \/ got[n].updates = given[n].updates)
  /\ g.how = "error" => given[n].end.how = "error" /\ given[n].end.code = g.code

\* Only a Query has updates; the calls to come have no history.
Histories ==
  /\ \A n \in 1 .. MaxUsed : n > op.n => Untouched(n)
  /\ op.n > 0 /\ op.kind # "Query" => got[op.n].updates = 0 /\ given[op.n].updates = 0

Going == Typed /\ Idle /\ Calling /\ WaitingFor /\ Reading /\ Finalizing /\ Histories
Inv == Truthful /\ NoPanic /\ (alive => Going)

-----------------------------------------------------------------------------
(* What the invariant says when something is under way. *)

LEMMA StreamTyped ==
  ASSUME Typed
  PROVE  /\ Stream \in Seq(Messages) /\ Len(Stream) \in Nat /\ (Stream = <<>> <=> Len(Stream) = 0)
         /\ \A i \in 1 .. Len(Stream) : Stream[i] \in Messages
         /\ Stream = <<>> <=> buffer = <<>> /\ held = NoMessage /\ replies = <<>>
<1>1. Stream \in Seq(Messages) /\ (Stream = <<>> <=> buffer = <<>> /\ held = NoMessage /\ replies = <<>>)
  BY ChainTyped DEF Stream, Typed, MessagesTyped
<1>2. QED
  BY <1>1

\* An operation that was made.
LEMMA MadeOp ==
  ASSUME Typed, frame.at # "idle"
  PROVE  /\ op \in [n : 1 .. MaxUsed, kind : Kinds, registered : BOOLEAN, response : Messages \cup {NoMessage},
                    status : {"CREATED", "INITIATED", "ACKNOWLEDGED", "PROGRESSING", "FINAL"}]
         /\ op.n \in 1 .. MaxUsed /\ op.n \in Nat /\ op.n > 0 /\ op.kind \in Kinds /\ MaxUsed \in Nat
<1>1. MaxUsed \in Nat
  BY BoundAssumption
<1>2. QED
  BY <1>1 DEF Typed, OpTyped

\* The consumer waits for the messages of its operation, or is about to read.
Expecting ==
  /\ frame.at \in {"wait", "read"} /\ UnderWay /\ Open /\ op.registered /\ op.response = NoMessage
  /\ op.status \in {"INITIATED", "ACKNOWLEDGED", "PROGRESSING"}

LEMMA Busy ==
  ASSUME Going, requests # <<>> \/ Stream # <<>> \/ ~Finished
  PROVE  Expecting
<1>1. ~Settled
  BY DEF Settled
<1>2. frame.at \in {"wait", "read"}
  BY <1>1 DEF Going, Typed, FrameTyped, Idle, Calling, Finalizing
<1>3. CASE frame.at = "wait"
  BY <1>3 DEF Going, WaitingFor, Expecting, Progressing
<1>4. CASE frame.at = "read"
  BY <1>1, <1>4 DEF Going, Reading, Expecting, Progressing
<1>5. QED
  BY <1>2, <1>3, <1>4

\* The request is with the provider.
LEMMA Served ==
  ASSUME Going, ~Finished
  PROVE  RequestServed
<1>1. UnderWay
  BY Busy DEF Expecting
<1>2. QED
  BY <1>1 DEF UnderWay, RequestWaits, RequestOver

\* A step of another than the consumer keeps the invariant when it keeps what the
\* consumer expects.
LEMMA OthersStep ==
  ASSUME Going, Truthful, Expecting, UNCHANGED <<op, frame, got, alive>>, Typed', UnderWay',
         \A n \in 1 .. MaxUsed : n # op.n => given'[n] = given[n],
         op.kind # "Query" => given'[op.n].updates = 0, faults \subseteq faults'
  PROVE  Going' /\ Truthful'
<1>1. op.n \in 1 .. MaxUsed /\ op.n \in Nat
  BY MadeOp DEF Going, Expecting
<1>2. Truthful'
  <2>1. ASSUME NEW n \in 1 .. MaxUsed PROVE True(n)'
    <3>1. CASE n = op.n
      <4>1. got'[n].end.how = "none"
        BY <3>1 DEF Expecting, Open, End
      <4>2. QED
        BY <4>1 DEF True
    <3>2. CASE n # op.n
      <4>1. True(n)
        BY DEF Truthful, True
      <4>2. QED
        BY <3>2, <4>1 DEF True
    <3>3. QED
      BY <3>1, <3>2
  <2>2. QED
    BY <2>1 DEF Truthful, True
<1>3. Idle' /\ Calling' /\ Finalizing'
  BY DEF Expecting, Idle, Calling, Finalizing
<1>4. Open' /\ Progressing' = Progressing
  BY DEF Expecting, Open, Progressing
<1>5. WaitingFor'
  BY <1>4 DEF Going, WaitingFor, Expecting
<1>6. Reading'
  <2>1. frame.at = "read" => Progressing
    BY MessageIsOne DEF Going, Reading, Expecting
  <2>2. QED
    BY <1>4, <2>1 DEF Reading, Expecting
<1>7. Histories'
  BY <1>1 DEF Going, Histories, Untouched
<1>8. QED
  BY <1>2, <1>3, <1>5, <1>6, <1>7 DEF Going

-----------------------------------------------------------------------------
(* The steps that move no message but within the chain. *)

\* Such a step, whoever makes it.
LEMMA SameStream ==
  ASSUME Going, Truthful, Stream' = Stream, UNCHANGED <<op, frame, got, alive, requests, given, faults>>, Typed',
         Finished => Finished', ~Finished => UNCHANGED provider
  PROVE  Going' /\ Truthful'
<1>1. Truthful'
  BY DEF Truthful
<1>2. Settled => Settled'
  BY DEF Settled
<1>3. \A i, m : /\ Opening(i)' = Opening(i) /\ Intermediate(i)' = Intermediate(i) /\ LastStage(i)' = LastStage(i)
                /\ Conclusive(m)' = Conclusive(m) /\ Counted(i)' = Counted(i)
  BY DEF Opening, Intermediate, LastStage, Conclusive, Counted
<1>4. Openings' = Openings /\ (Started' <=> Started) /\ (Untouched(op.n)' <=> Untouched(op.n)) /\ (AllRead' <=> AllRead)
  BY DEF Openings, Started, Untouched, AllRead
<1>5. (Ongoing => Ongoing') /\ (Concluded => Concluded')
  BY DEF Ongoing, Concluded, Opening, Intermediate, LastStage, Conclusive, Counted, Openings
<1>6. UnderWay => UnderWay'
  <2>1. RequestWaits => RequestWaits'
    BY <1>4 DEF RequestWaits
  <2>2. RequestOver => RequestOver'
    BY <1>5 DEF RequestOver
  <2>3. CASE RequestServed /\ ~Finished
    <3>1. RequestServed'
      BY <1>3, <1>4, <1>5, <2>3 DEF RequestServed, Stages
    <3>2. QED
      BY <3>1 DEF UnderWay
  <2>4. RequestServed => ~Finished
    BY DEF RequestServed, Finished
  <2>5. QED
    BY <2>1, <2>2, <2>3, <2>4 DEF UnderWay
<1>7. Idle' /\ Calling'
  BY <1>2 DEF Going, Idle, Calling, Untouched
<1>8. WaitingFor' /\ Reading'
  BY <1>2, <1>3, <1>4, <1>6 DEF Going, WaitingFor, Reading, Open, Progressing
<1>9. Finalizing'
  BY <1>2, <1>3, <1>4 DEF Going, Finalizing, Open
<1>10. Histories'
  BY DEF Going, Histories, Untouched
<1>11. QED
  BY <1>1, <1>7, <1>8, <1>9, <1>10 DEF Going

\* The Context gives a message to the channel of its operation, or waits with it:
\* a message that arrives is always for the operation that the consumer uses.
LEMMA DeliverKeeps ==
  ASSUME Going, Truthful, Deliver
  PROVE  Going' /\ Truthful'
<1> DEFINE m == Head(replies)
           to == op.n = m.n /\ op.registered
<1>1. buffer \in Seq(Messages) /\ replies \in Seq(Messages) /\ held = NoMessage /\ replies # <<>>
  BY DEF Going, Typed, MessagesTyped, Deliver
<1>2. m \in Messages /\ Tail(replies) \in Seq(Messages)
  BY <1>1
<1>3. Stream # <<>> /\ Expecting
  <2>1. Stream # <<>>
    BY <1>1, StreamTyped DEF Going
  <2>2. QED
    BY <2>1, Busy
<1>4. buffer' \in Seq(Messages) /\ replies' \in Seq(Messages) /\ held' \in Messages \cup {NoMessage}
  BY <1>1, <1>2 DEF Deliver
<1>5. op.n \in 1 .. MaxUsed /\ op.n > 0
  BY <1>3, MadeOp DEF Going, Expecting
<1>6. to
  <2>1. \E i \in 1 .. Len(Stream) : Stream[i] = m
    <3>1. Stream = Chain(buffer, NoMessage, replies) /\ Chain(buffer, NoMessage, replies) = buffer \o replies
      BY <1>1 DEF Stream, Chain
    <3>2. \A b \in Seq(Messages), r \in Seq(Messages) : r # <<>> => \E i \in 1 .. Len(b \o r) : (b \o r)[i] = Head(r)
      <4>1. ASSUME NEW b \in Seq(Messages), NEW r \in Seq(Messages), r # <<>>
            PROVE  Len(b) + 1 \in 1 .. Len(b \o r) /\ (b \o r)[Len(b) + 1] = Head(r)
        BY <4>1
      <4>2. QED
        BY <4>1
    <3>3. QED
      BY <1>1, <3>1, <3>2
  <2>2. QED
    BY <1>3, <2>1 DEF Going, Typed, MessagesTyped, Expecting
<1>7. Stream' = Stream
  <2>1. HasRoom => Stream' = Chain(Append(buffer, m), NoMessage, Tail(replies))
    BY <1>1, <1>6 DEF Deliver, Stream
  <2>2. ~HasRoom => Stream' = Chain(buffer, m, Tail(replies))
    BY <1>6 DEF Deliver, Stream
  <2>3. QED
    BY <1>1, <2>1, <2>2, ChainMoves DEF Stream
<1>8. Typed'
  <2>1. MessagesTyped'
    BY <1>4, <1>7 DEF Going, Typed, MessagesTyped, Deliver, consumer, HasRoom, Buffered
  <2>2. QED
    BY <2>1 DEF Going, Typed, HistoryTyped, ProviderTyped, OpTyped, FrameTyped, Deliver, consumer
<1>9. QED
  BY <1>7, <1>8, SameStream DEF Deliver, consumer, Finished, Stages

LEMMA UnblockKeeps ==
  ASSUME Going, Truthful, Unblock
  PROVE  Going' /\ Truthful'
<1>1. buffer \in Seq(Messages) /\ replies \in Seq(Messages) /\ held \in Messages
  BY DEF Going, Typed, MessagesTyped, Unblock
<1>2. buffer' = Append(buffer, held) /\ held' = NoMessage /\ replies' = replies
  BY DEF Unblock
<1>3. Stream' = Stream
  BY <1>1, <1>2, ChainMoves DEF Stream
<1>4. Typed'
  <2>1. MessagesTyped'
    BY <1>1, <1>2, <1>3 DEF Going, Typed, MessagesTyped, Unblock, consumer, HasRoom, Buffered
  <2>2. QED
    BY <2>1 DEF Going, Typed, HistoryTyped, ProviderTyped, OpTyped, FrameTyped, Unblock, consumer
<1>5. QED
  BY <1>3, <1>4, SameStream DEF Unblock, consumer, Finished, Stages

\* The handler of a request that was answered returns.
LEMMA ReturnKeeps ==
  ASSUME Going, Truthful, Finished, provider' = [at |-> "none"],
         UNCHANGED <<consumer, channels, requests, replies, given, alive, faults>>
  PROVE  Going' /\ Truthful'
<1>1. Stream' = Stream /\ Finished'
  BY DEF channels, Stream, Finished
<1>2. Typed'
  BY <1>1 DEF Going, Typed, MessagesTyped, HistoryTyped, ProviderTyped, OpTyped, FrameTyped, consumer, channels
<1>3. QED
  BY <1>1, <1>2, SameStream DEF consumer

-----------------------------------------------------------------------------
(* The provider. *)

LEMMA PlainIsReason == Plain \in Reasons
  BY DEF Plain, Error, Reasons, Codes

\* A message more at the end of the stream.
LEMMA StreamGrows ==
  ASSUME Typed, NEW m \in Messages, m.n = op.n, replies' = Append(replies, m), UNCHANGED <<op, buffer, held>>
  PROVE  /\ Len(Stream') = Len(Stream) + 1 /\ Stream' # <<>> /\ Stream'[Len(Stream) + 1] = m
         /\ \A j \in 1 .. Len(Stream) : Stream'[j] = Stream[j]
         /\ Ongoing => \A j \in 1 .. Len(Stream) : Intermediate(j)'
         /\ MessagesTyped'
<1>1. Stream' = Append(Stream, m)
  BY ChainGrows DEF Stream, Typed, MessagesTyped
<1>2. Stream \in Seq(Messages)
  BY StreamTyped
<1>3. /\ Len(Stream') = Len(Stream) + 1 /\ Stream' # <<>> /\ Stream'[Len(Stream) + 1] = m
      /\ \A j \in 1 .. Len(Stream) : Stream'[j] = Stream[j]
  BY <1>1, <1>2
<1>4. Ongoing => \A j \in 1 .. Len(Stream) : Intermediate(j)'
  BY <1>3 DEF Ongoing, Intermediate, Opening
<1>5. MessagesTyped'
  <2>1. replies' \in Seq(Messages)
    BY DEF Typed, MessagesTyped
  <2>2. \A i \in 1 .. Len(Stream') : Stream'[i].n = op.n
    <3>1. \A i \in 1 .. Len(Stream) + 1 : i \in 1 .. Len(Stream) \/ i = Len(Stream) + 1
      BY <1>2
    <3>2. QED
      BY <1>3, <3>1 DEF Typed, MessagesTyped
  <2>3. QED
    BY <2>1, <2>2 DEF Typed, MessagesTyped
<1>6. QED
  BY <1>3, <1>4, <1>5

\* The request of the call is decoded, and served.
LEMMA HandleKeeps ==
  ASSUME Going, Truthful, Handle
  PROVE  Going' /\ Truthful'
<1>1. Expecting /\ RequestWaits
  <2>1. requests # <<>>
    BY DEF Handle
  <2>2. Expecting
    BY <2>1, Busy
  <2>3. QED
    BY <2>1, <2>2 DEF Expecting, UnderWay, RequestServed, RequestOver
<1>2. op.n \in 1 .. MaxUsed /\ op.kind \in Kinds
  BY <1>1, MadeOp DEF Going, Expecting
<1>3. Head(requests) = [n |-> op.n, kind |-> op.kind, body |-> Operation[op.kind].in] /\ Tail(requests) = <<>>
  BY <1>1 DEF RequestWaits
<1>4. Head(requests).body = Handler[Head(requests).kind]
  BY <1>2, <1>3, KindFacts
<1>5. /\ requests' = <<>> /\ given' = given
      /\ provider' = [at |-> "implementation", n |-> op.n, kind |-> op.kind, acked |-> FALSE, done |-> 0, error |-> Plain]
  <2> DEFINE r == Head(requests)
  <2>1. r.n = op.n /\ r.kind = op.kind /\ r.body = Handler[r.kind]
    BY <1>3, <1>4
  <2>2. requests' = Tail(requests) /\ given' = given
    BY <2>1 DEF Handle
  <2>3. provider' = [at |-> "implementation", n |-> r.n, kind |-> r.kind, acked |-> FALSE, done |-> 0, error |-> Plain]
    BY <2>1 DEF Handle
  <2> HIDE DEF r
  <2>4. QED
    BY <1>3, <2>1, <2>2, <2>3
<1>6. Stream' = Stream /\ UNCHANGED <<op, frame, got, alive, faults>>
  BY DEF Handle, consumer, channels, Stream
<1>7. Typed'
  <2>1. ProviderTyped'
    BY <1>2, <1>5, PlainIsReason DEF ProviderTyped
  <2>2. MessagesTyped'
    BY <1>6 DEF Going, Typed, MessagesTyped, Handle, channels
  <2>3. QED
    BY <1>5, <1>6, <2>1, <2>2 DEF Going, Typed, HistoryTyped, OpTyped, FrameTyped
<1>8. RequestServed'
  <2>1. Stages' = StagesOf(op.kind) /\ 0 < Len(StagesOf(op.kind))
    <3>1. 0 < Len(StagesOf(op.kind))
      BY <1>2, StageFacts
    <3>2. QED
      BY <1>5, <3>1 DEF Stages, StagesOf
  <2>2. Stream' = <<>> /\ Len(Stream') = 0 /\ op.status = "INITIATED"
    BY <1>1, <1>6 DEF RequestWaits
  <2>3. Ongoing' /\ ~Started' /\ Openings' = 0
    BY <1>6, <2>2 DEF Ongoing, Started, Openings
  <2>4. Counted(0)'
    BY <1>1, <1>5, <1>6, <2>2 DEF Counted, RequestWaits, Untouched, Nothing
  <2>5. QED
    BY <1>5, <1>6, <2>1, <2>3, <2>4 DEF RequestServed
<1>9. op.kind # "Query" => given'[op.n].updates = 0
  BY <1>2, <1>5 DEF Going, Histories
<1>10. QED
  BY <1>1, <1>5, <1>6, <1>7, <1>8, <1>9, OthersStep DEF UnderWay

\* What the implementation may answer next: the first answer is the opening one.
LEMMA NextStage ==
  ASSUME Going, RequestServed, NEW i, MayAnswer(i)
  PROVE  /\ Stages = StagesOf(op.kind) /\ i \in 1 .. Len(Stages) /\ op.kind \in Kinds /\ op.n \in 1 .. MaxUsed
         /\ provider.done \in Nat /\ provider.done < i + 1
         /\ Expecting /\ Len(Stream) \in Nat
         /\ Opening(Len(Stream) + 1) <=> i = 1
         /\ i = 1 <=> ~Started
<1>1. ~Finished
  BY DEF RequestServed, Finished
<1>2. Expecting /\ Len(Stream) \in Nat /\ (Stream = <<>> <=> Len(Stream) = 0)
  BY <1>1, Busy, StreamTyped DEF Going
<1>3. op.kind \in Kinds /\ op.n \in 1 .. MaxUsed
  BY <1>2, MadeOp DEF Going, Expecting
<1>4. Stages = StagesOf(op.kind)
  BY DEF Stages, StagesOf, RequestServed
<1>5. provider.done \in Nat
  BY DEF RequestServed, Going, Typed, ProviderTyped
<1>6. /\ DOMAIN Stages = 1 .. Len(Stages) /\ Len(Stages) \in Nat
      /\ \A j \in 1 .. Len(Stages) : Stages[j] = "update" => j = 2
  BY <1>3, <1>4, StageFacts
<1>7. i \in 1 .. Len(Stages) /\ provider.done < i + 1 /\ (i = 1 <=> provider.done = 0)
  <2>1. i \in 1 .. Len(Stages)
    BY <1>6 DEF MayAnswer
  <2>2. CASE i = provider.done + 1
    BY <1>5, <2>1, <2>2
  <2>3. CASE Stages[i] = "update" /\ provider.done = i
    BY <1>5, <1>6, <2>1, <2>3
  <2>4. CASE i = provider.done + 2 /\ Stages[i - 1] = "update"
    <3>1. i - 1 \in 1 .. Len(Stages)
      BY <1>5, <2>1, <2>4
    <3>2. i - 1 = 2
      BY <1>6, <2>4, <3>1
    <3>3. QED
      BY <1>5, <2>1, <2>4, <3>2
  <2>5. QED
    BY <2>1, <2>2, <2>3, <2>4 DEF MayAnswer
<1>8. i = 1 <=> ~Started
  BY <1>5, <1>7 DEF RequestServed
<1>9. Opening(Len(Stream) + 1) <=> ~Started
  BY <1>2 DEF Opening, Started
<1>10. QED
  BY <1>2, <1>3, <1>4, <1>5, <1>7, <1>8, <1>9

\* The implementation answers while the request is served.
LEMMA Answering ==
  ASSUME Going, NEW i, MayAnswer(i), provider.at = "implementation"
  PROVE  RequestServed
<1>1. CASE Finished
  <2>1. provider.done = Len(Stages) /\ provider.kind \in Kinds /\ Stages = StagesOf(provider.kind) /\ provider.done \in Nat
    BY <1>1 DEF Finished, Going, Typed, ProviderTyped, Stages, StagesOf
  <2>2. DOMAIN Stages = 1 .. Len(Stages) /\ Len(Stages) \in Nat /\ Stages[Len(Stages)] # "update"
    BY <2>1, StageFacts
  <2>3. ~(i = provider.done + 1 /\ i \in DOMAIN Stages) /\ ~(i = provider.done + 2 /\ i \in DOMAIN Stages)
    BY <2>1, <2>2
  <2>4. QED
    BY <2>1, <2>2, <2>3 DEF MayAnswer
<1>2. QED
  BY <1>1, Served

\* The history of an answer.
LEMMA AnsweredHistory ==
  ASSUME Going, RequestServed, NEW i, MayAnswer(i), Answered(i)
  PROVE  /\ given' \in [1 .. MaxUsed -> Outcomes] /\ given[op.n].updates \in Nat
         /\ \A n \in 1 .. MaxUsed : n # op.n => given'[n] = given[n]
         /\ given'[op.n].updates = given[op.n].updates + (IF Stages[i] = "update" THEN 1 ELSE 0)
         /\ given'[op.n].end = IF i = Len(Stages) THEN End("values") ELSE given[op.n].end
         /\ op.kind # "Query" => given'[op.n].updates = 0
<1> DEFINE u == IF Stages[i] = "update" THEN 1 ELSE 0
           h == IF i = Len(Stages) THEN End("values") ELSE given[op.n].end
<1>1. given \in [1 .. MaxUsed -> Outcomes] /\ provider.n = op.n /\ op.n \in 1 .. MaxUsed /\ op.kind \in Kinds
      /\ i \in 1 .. Len(Stages) /\ Stages = StagesOf(op.kind)
  BY NextStage DEF Going, Typed, HistoryTyped, RequestServed
<1>2. given[op.n].updates \in Nat /\ given[op.n].end \in Ended
  BY <1>1 DEF Outcomes
<1>3. h \in Ended /\ u \in Nat
  BY <1>2 DEF Ended
<1>4. given' = [given EXCEPT ![op.n] = [updates |-> given[op.n].updates + u, end |-> h]]
  BY <1>1 DEF Answered
<1> HIDE DEF u, h
<1>5. [updates |-> given[op.n].updates + u, end |-> h] \in Outcomes
  BY <1>2, <1>3 DEF Outcomes
<1>6. /\ given' \in [1 .. MaxUsed -> Outcomes] /\ given'[op.n].updates = given[op.n].updates + u
      /\ given'[op.n].end = h /\ \A n \in 1 .. MaxUsed : n # op.n => given'[n] = given[n]
  BY <1>1, <1>4, <1>5
<1>7. op.kind # "Query" => u = 0 /\ given[op.n].updates = 0
  <2>1. op.kind # "Query" => Stages[i] # "update"
    BY <1>1, StageFacts
  <2>2. QED
    BY <1>1, <2>1 DEF Going, Histories, u
<1>8. QED
  BY <1>2, <1>6, <1>7 DEF u, h

LEMMA OpeningsTyped == Openings \in Nat
  BY DEF Openings

\* A method of the helper sends a message, the last one or not.
LEMMA AnswerKeeps ==
  ASSUME Going, Truthful, NEW i, AnswerWith(i)
  PROVE  Going' /\ Truthful'
<1>0. PICK m, l : /\ m = [n |-> provider.n, stage |-> Stages[i], error |-> FALSE, body |-> Body(Stages[i])]
                  /\ l = Len(Stream)
  OBVIOUS
<1>1. RequestServed /\ provider.at = "implementation" /\ MayAnswer(i)
  <2>1. MayAnswer(i) /\ provider.at = "implementation"
    BY DEF AnswerWith, Serving
  <2>2. QED
    BY <2>1, Answering
<1>2. /\ Stages = StagesOf(op.kind) /\ i \in 1 .. Len(Stages) /\ op.kind \in Kinds /\ op.n \in 1 .. MaxUsed
      /\ Expecting /\ l \in Nat /\ (Opening(l + 1) <=> i = 1) /\ (i = 1 <=> ~Started)
  BY <1>0, <1>1, NextStage
<1>3. Answered(i)
  BY DEF AnswerWith
<1>4. /\ given' \in [1 .. MaxUsed -> Outcomes] /\ given[op.n].updates \in Nat
      /\ \A n \in 1 .. MaxUsed : n # op.n => given'[n] = given[n]
      /\ given'[op.n].updates = given[op.n].updates + (IF Stages[i] = "update" THEN 1 ELSE 0)
      /\ given'[op.n].end = IF i = Len(Stages) THEN End("values") ELSE given[op.n].end
      /\ op.kind # "Query" => given'[op.n].updates = 0
  BY <1>1, <1>3, AnsweredHistory
<1>5. m \in Messages /\ m.n = op.n
  <2>1. Stages[i] \in {"ack", "update", "response"}
    BY <1>2, StageFacts
  <2>2. Body(Stages[i]) \in Bodies /\ op.n \in Nat
    <3>1. Helper[provider.kind].out = Operation[op.kind].out
      BY <1>1, <1>2, KindFacts DEF RequestServed
    <3>2. QED
      BY <1>2, <3>1 DEF Body, Bodies
  <2>3. QED
    BY <1>0, <1>1, <2>1, <2>2 DEF Messages, RequestServed
<1>6. replies' = Append(replies, m) /\ UNCHANGED <<op, frame, got, buffer, held, requests, alive, faults>>
      /\ provider' = [provider EXCEPT !.done = i, !.acked = TRUE]
  BY <1>0 DEF AnswerWith, Answer, consumer, channels
<1>7. /\ Len(Stream') = l + 1 /\ Stream' # <<>> /\ Stream'[l + 1] = m
      /\ \A j \in 1 .. l : Intermediate(j)'
      /\ MessagesTyped'
  BY <1>0, <1>1, <1>5, <1>6, StreamGrows DEF Going, RequestServed
<1>8. provider \in [at : {"implementation", "error"}, n : 1 .. MaxUsed, kind : Kinds, acked : BOOLEAN, done : Nat, error : Reasons]
  BY <1>1 DEF Going, Typed, ProviderTyped
<1>9. /\ provider' \in [at : {"implementation", "error"}, n : 1 .. MaxUsed, kind : Kinds, acked : BOOLEAN, done : Nat, error : Reasons]
      /\ provider'.at = "implementation" /\ provider'.n = op.n /\ provider'.kind = op.kind
      /\ provider'.acked /\ provider'.done = i /\ i \in Nat /\ i > 0
  <2>1. provider.n = op.n /\ provider.kind = op.kind /\ i \in Nat /\ i > 0
    BY <1>1, <1>2 DEF RequestServed
  <2>2. QED
    BY <1>1, <1>6, <1>8, <2>1
<1>10. Typed'
  BY <1>4, <1>6, <1>7, <1>9 DEF Going, Typed, HistoryTyped, ProviderTyped, OpTyped, FrameTyped
<1>11. Stages' = Stages
  BY <1>2, <1>9 DEF Stages, StagesOf
<1>12. (Opening(l + 1)' <=> i = 1) /\ Started'
  BY <1>2, <1>6, <1>7 DEF Opening, Started
<1>13. Openings' = IF op.status = "INITIATED" THEN 1 ELSE 0
  BY <1>6, <1>7 DEF Openings
<1>14. i # 1 => Openings' = Openings
  BY <1>2, <1>13 DEF Openings, Started
<1>15. i = 1 => Openings' = 1 /\ Openings = 0
  BY <1>2, <1>13 DEF Openings, Started
<1>16. CASE i < Len(Stages)
  <2>1. \/ i = 1 /\ Stages[i] = "ack" /\ Acknowledged(op.kind)
        \/ i = 2 /\ Stages[i] = "update" /\ op.kind = "Query"
    BY <1>2, <1>16, StageFacts DEF Acknowledged
  <2>2. Intermediate(l + 1)'
    BY <1>0, <1>6, <1>7, <1>12, <2>1 DEF Intermediate
  <2>3. Ongoing'
    <3>1. \A j \in 1 .. l + 1 : j \in 1 .. l \/ j = l + 1
      BY <1>2
    <3>2. QED
      BY <1>7, <2>2, <3>1 DEF Ongoing
  <2>4. Counted(Openings)'
    <3>1. ASSUME op.kind = "Query", "swallowed" \notin faults
          PROVE  given'[op.n].updates + Openings' = got[op.n].updates + (l + 1)
      <4>1. given[op.n].updates + Openings = got[op.n].updates + l
        BY <1>0, <1>1, <3>1 DEF RequestServed, Counted
      <4>2. got[op.n].updates \in Nat
        BY <1>2 DEF Going, Typed, HistoryTyped, Outcomes
      <4>3. CASE i = 1
        <5>1. given'[op.n].updates = given[op.n].updates /\ Openings' = 1 /\ Openings = 0
          BY <1>4, <1>15, <2>1, <4>3
        <5>2. given[op.n].updates \in Nat /\ l \in Nat
          BY <1>2, <1>4
        <5>3. QED
          BY <4>1, <4>2, <5>1, <5>2
      <4>4. CASE i = 2
        <5>1. given'[op.n].updates = given[op.n].updates + 1 /\ Openings' = Openings
          BY <1>4, <1>14, <2>1, <4>4
        <5>2. given[op.n].updates \in Nat /\ l \in Nat
          BY <1>2, <1>4
        <5>3. QED
          BY <4>1, <4>2, <5>1, <5>2, OpeningsTyped
      <4>5. QED
        BY <2>1, <4>3, <4>4
    <3>2. QED
      BY <1>2, <1>6, <1>7, <3>1 DEF Counted
  <2>5. RequestServed'
    BY <1>1, <1>6, <1>9, <1>11, <1>12, <1>16, <2>3, <2>4 DEF RequestServed
  <2>6. QED
    BY <1>2, <1>4, <1>6, <1>10, <2>5, OthersStep DEF UnderWay
<1>17. CASE i = Len(Stages)
  <2>1. m.body = Operation[op.kind].out
    <3>1. Helper[provider.kind].out = Operation[op.kind].out
      BY <1>1, <1>2, KindFacts DEF RequestServed
    <3>2. Stages[i] = "ack" => Operation[op.kind].out = <<>>
      BY <1>2, <1>17, StageFacts
    <3>3. QED
      BY <1>0, <3>1, <3>2 DEF Body
  <2>2. Conclusive(m)'
    BY <1>0, <1>4, <1>6, <1>17, <2>1 DEF Conclusive
  <2>3. LastStage(l + 1)'
    <3>1. m.stage = Helper[op.kind].stages[Len(Helper[op.kind].stages)] /\ ~m.error
      BY <1>0, <1>2, <1>17 DEF StagesOf
    <3>2. QED
      BY <1>6, <1>7, <3>1 DEF LastStage
  <2>4. i = 1 <=> ~Acknowledged(op.kind)
    <3>1. Len(StagesOf(op.kind)) \in 1 .. 3
      BY <1>2, StageFacts
    <3>2. i = Len(StagesOf(op.kind))
      BY <1>2, <1>17
    <3>3. \A x \in 1 .. 3 : x = 1 <=> ~(x > 1)
      OBVIOUS
    <3>4. QED
      BY <3>1, <3>2, <3>3 DEF Acknowledged
  <2>5. i # 1 => Counted(Openings + 1)'
    <3>1. ASSUME op.kind = "Query", "swallowed" \notin faults, i # 1
          PROVE  given'[op.n].updates + (Openings' + 1) = got[op.n].updates + (l + 1)
      <4>1. given[op.n].updates + Openings = got[op.n].updates + l
        BY <1>0, <1>1, <3>1 DEF RequestServed, Counted
      <4>2. got[op.n].updates \in Nat
        BY <1>2 DEF Going, Typed, HistoryTyped, Outcomes
      <4>3. Stages[i] # "update"
        BY <1>2, <1>17, StageFacts
      <4>4. QED
        <5>1. given'[op.n].updates = given[op.n].updates /\ Openings' = Openings
          BY <1>4, <1>14, <3>1, <4>3
        <5>2. given[op.n].updates \in Nat /\ l \in Nat
          BY <1>2, <1>4
        <5>3. QED
          BY <4>1, <4>2, <5>1, <5>2, OpeningsTyped
    <3>2. QED
      BY <1>2, <1>6, <1>7, <3>1 DEF Counted
  <2>6. Concluded'
    <3>1. (l + 1) - 1 = l
      BY <1>2
    <3>2. QED
      BY <1>0, <1>6, <1>7, <1>12, <2>2, <2>3, <2>4, <2>5, <3>1 DEF Concluded
  <2>7. Finished'
    BY <1>9, <1>11, <1>17 DEF Finished
  <2>8. RequestOver'
    BY <1>1, <1>6, <2>6, <2>7 DEF RequestOver, RequestServed
  <2>9. QED
    BY <1>2, <1>4, <1>6, <1>10, <2>8, OthersStep DEF UnderWay
<1>18. QED
  BY <1>2, <1>16, <1>17

\* The implementation returns an error before its last answer.
LEMMA FailKeeps ==
  ASSUME Going, Truthful, RequestServed, NEW e \in Reasons, Fail(e),
         UNCHANGED <<consumer, channels, requests, replies, alive>>, faults \subseteq faults'
  PROVE  Going' /\ Truthful'
<1>1. Expecting /\ ~Finished
  <2>1. ~Finished
    BY DEF RequestServed, Finished
  <2>2. QED
    BY <2>1, Busy
<1>2. op.n \in 1 .. MaxUsed /\ op.kind \in Kinds /\ provider.n = op.n /\ provider.kind = op.kind
  BY <1>1, MadeOp DEF Going, Expecting, RequestServed
<1>3. UNCHANGED <<op, frame, got, buffer, held, Stream>>
  BY DEF consumer, channels, Stream
<1>4. provider \in [at : {"implementation", "error"}, n : 1 .. MaxUsed, kind : Kinds, acked : BOOLEAN, done : Nat, error : Reasons]
  BY DEF RequestServed, Going, Typed, ProviderTyped
<1>5. /\ provider' \in [at : {"implementation", "error"}, n : 1 .. MaxUsed, kind : Kinds, acked : BOOLEAN, done : Nat, error : Reasons]
      /\ provider'.at = "error" /\ provider'.n = provider.n /\ provider'.kind = provider.kind
      /\ provider'.acked = provider.acked /\ provider'.done = provider.done /\ provider'.error = e
  BY <1>4 DEF Fail
<1>6. given \in [1 .. MaxUsed -> Outcomes] /\ given' = [given EXCEPT ![op.n].end = e]
  BY <1>2 DEF Fail, RequestServed, Going, Typed, HistoryTyped, Stages
<1>7. /\ given' \in [1 .. MaxUsed -> Outcomes]
      /\ given'[op.n].end = e /\ given'[op.n].updates = given[op.n].updates
      /\ \A n \in 1 .. MaxUsed : n # op.n => given'[n] = given[n]
  <2>1. given[op.n] \in Outcomes /\ e \in Ended
    BY <1>2, <1>6 DEF Ended, Reasons
  <2>2. [given[op.n] EXCEPT !.end = e] \in Outcomes
    BY <2>1 DEF Outcomes
  <2>3. QED
    BY <1>2, <1>6, <2>1, <2>2 DEF Outcomes
<1>8. Typed'
  <2>1. MessagesTyped'
    BY <1>3 DEF Going, Typed, MessagesTyped
  <2>2. QED
    BY <1>3, <1>5, <1>7, <2>1 DEF Going, Typed, HistoryTyped, ProviderTyped, OpTyped, FrameTyped
<1>9. RequestServed'
  <2>1. Stages' = Stages
    BY <1>5 DEF Stages
  <2>2. Ongoing' /\ (Started' <=> Started) /\ Openings' = Openings
    BY <1>3 DEF RequestServed, Ongoing, Intermediate, Opening, Started, Openings
  <2>3. Counted(Openings)'
    BY <1>3, <1>7, <2>2 DEF RequestServed, Counted
  <2>4. QED
    BY <1>2, <1>3, <1>5, <1>7, <2>1, <2>2, <2>3 DEF RequestServed
<1>10. op.kind # "Query" => given'[op.n].updates = 0
  BY <1>2, <1>7 DEF Going, Histories
<1>11. QED
  BY <1>1, <1>3, <1>7, <1>8, <1>9, <1>10, OthersStep DEF UnderWay

\* An answer that is swallowed, or refused by the transport.
LEMMA AnswerFailsKeeps ==
  ASSUME Going, Truthful, NEW i, AnswerFails(i)
  PROVE  Going' /\ Truthful'
<1>1. MayAnswer(i) /\ provider.at = "implementation" /\ RequestServed
  BY Answering DEF AnswerFails, Serving
<1>2. faults \subseteq faults' /\ UNCHANGED <<consumer, channels, requests, replies, alive>>
  BY DEF AnswerFails, Fails
<1>3. CASE Fail(Plain)
  BY <1>1, <1>2, <1>3, FailKeeps, PlainIsReason
<1>4. CASE /\ Stages[i] # "ack" /\ Fails("swallowed") /\ Answered(i)
           /\ provider' = [provider EXCEPT !.done = i]
  <2>1. /\ Stages = StagesOf(op.kind) /\ i \in 1 .. Len(Stages) /\ op.kind \in Kinds /\ op.n \in 1 .. MaxUsed
        /\ Expecting /\ (i = 1 <=> ~Started)
    BY <1>1, NextStage
  <2>2. /\ given' \in [1 .. MaxUsed -> Outcomes]
        /\ \A n \in 1 .. MaxUsed : n # op.n => given'[n] = given[n]
        /\ op.kind # "Query" => given'[op.n].updates = 0
    BY <1>1, <1>4, AnsweredHistory
  <2>3. UNCHANGED <<op, frame, got, buffer, held, Stream>>
    BY <1>2 DEF consumer, channels, Stream
  <2>4. provider \in [at : {"implementation", "error"}, n : 1 .. MaxUsed, kind : Kinds, acked : BOOLEAN, done : Nat, error : Reasons]
    BY <1>1 DEF RequestServed, Going, Typed, ProviderTyped
  <2>5. /\ provider' \in [at : {"implementation", "error"}, n : 1 .. MaxUsed, kind : Kinds, acked : BOOLEAN, done : Nat, error : Reasons]
        /\ provider'.at = "implementation" /\ provider'.n = op.n /\ provider'.kind = op.kind
        /\ provider'.acked = provider.acked /\ provider'.done = i /\ i \in Nat /\ i > 0
    BY <1>1, <1>4, <2>1, <2>4 DEF RequestServed
  <2>6. Typed'
    <3>1. MessagesTyped'
      BY <1>2, <2>3 DEF Going, Typed, MessagesTyped
    <3>2. QED
      BY <2>2, <2>3, <2>5, <3>1 DEF Going, Typed, HistoryTyped, ProviderTyped, OpTyped, FrameTyped
  <2>7. Stages' = Stages
    BY <2>1, <2>5 DEF Stages, StagesOf
  <2>8. Ongoing' /\ (Started' <=> Started) /\ requests' = <<>>
    BY <1>1, <1>2, <2>3 DEF RequestServed, Ongoing, Intermediate, Opening, Started
  <2>9. "swallowed" \in faults'
    BY <1>4 DEF Fails
  <2>10. CASE i < Len(Stages)
    <3>1. i # 1
      BY <1>4, <2>1, <2>10, StageFacts
    <3>2. Started
      BY <2>1, <3>1
    <3>3. Counted(Openings)'
      BY <2>9 DEF Counted
    <3>4. RequestServed'
      BY <1>1, <2>3, <2>5, <2>7, <2>8, <2>10, <3>2, <3>3 DEF RequestServed
    <3>5. QED
      BY <1>2, <2>1, <2>2, <2>3, <2>6, <3>4, OthersStep DEF UnderWay
  <2>11. CASE i = Len(Stages)
    <3>1. RequestOver'
      BY <2>5, <2>7, <2>8, <2>11 DEF RequestOver, Finished
    <3>2. QED
      BY <1>2, <2>1, <2>2, <2>3, <2>6, <3>1, OthersStep DEF UnderWay
  <2>12. QED
    BY <2>1, <2>10, <2>11
<1>5. QED
  BY <1>3, <1>4 DEF AnswerFails

\* The implementation ends after its last answer, or errs before it.
LEMMA ImplementationKeeps ==
  ASSUME Habits = {}, Going, Truthful, Implementation
  PROVE  Going' /\ Truthful'
<1>1. CASE provider.done = Len(Stages) /\ provider' = [at |-> "none"] /\ UNCHANGED given
  BY <1>1, ReturnKeeps DEF Implementation, Serving, Finished
<1>2. CASE provider.done < Len(Stages) /\ \E e \in Errors(provider.kind) : Fail(e)
  <2>1. PICK e \in Errors(provider.kind) : Fail(e)
    BY <1>2
  <2>2. ~Finished /\ provider.kind \in Kinds
    BY <1>2 DEF Implementation, Serving, Finished, Going, Typed, ProviderTyped
  <2>3. RequestServed
    BY <2>2, Served
  <2>4. e \in Reasons
    <3>1. \A c \in Codes : Operation[provider.kind].info[c] \in {"UIntegerList", "String"}
      <4>1. \A lists : \A c \in Codes : Info(lists)[c] \in {"UIntegerList", "String"}
        BY DEF Info
      <4>2. \E lists : Operation[provider.kind].info = Info(lists)
        BY <2>2, KindInfo
      <4>3. QED
        BY <4>1, <4>2
    <3>2. e = Plain \/ \E c \in Codes : e = Error(c, Operation[provider.kind].info[c])
      BY <2>1 DEF Errors
    <3>3. QED
      BY <3>1, <3>2, PlainIsReason DEF Error, Reasons
  <2>5. QED
    BY <2>1, <2>3, <2>4, FailKeeps DEF Implementation
<1>3. QED
  BY <1>1, <1>2 DEF Implementation

\* The error of the implementation is sent, or lost.
LEMMA ReturnErrorKeeps ==
  ASSUME Going, Truthful, ReturnError
  PROVE  Going' /\ Truthful'
<1>0. PICK m, l : /\ m = [n |-> provider.n, stage |-> ErrorStage, error |-> TRUE, body |-> provider.error]
                  /\ l = Len(Stream)
  OBVIOUS
<1>1. RequestServed /\ provider.at = "error"
  <2>1. provider.at = "error"
    BY DEF ReturnError, Serving
  <2>2. ~Finished
    BY <2>1 DEF Finished
  <2>3. QED
    BY <2>1, <2>2, Served
<1>2. Expecting /\ l \in Nat /\ (Stream = <<>> <=> l = 0)
  BY <1>0, <1>1, Busy, StreamTyped DEF Going, RequestServed, Finished
<1>3. /\ op.n \in 1 .. MaxUsed /\ op.kind \in Kinds /\ provider.n = op.n /\ provider.kind = op.kind
      /\ provider.error \in Reasons /\ given[op.n].end = provider.error /\ (provider.acked <=> Started)
  BY <1>1, <1>2, MadeOp DEF Going, Expecting, RequestServed
<1>4. UNCHANGED <<op, frame, got, buffer, held, given, alive, requests>> /\ provider' = [at |-> "none"]
      /\ faults \subseteq faults' /\ Finished'
  <2>1. provider.error.info # "nil"
    BY <1>3 DEF Reasons
  <2>2. alive' = TRUE /\ alive
    BY <2>1 DEF ReturnError, Serving
  <2>3. QED
    BY <2>2 DEF ReturnError, consumer, channels, Fails, Finished
<1>5. ASSUME MessagesTyped' PROVE Typed'
  BY <1>4, <1>5 DEF Going, Typed, HistoryTyped, ProviderTyped, OpTyped, FrameTyped
<1>6. ASSUME MessagesTyped', Concluded' \/ Ongoing' PROVE Going' /\ Truthful'
  <2>1. RequestOver'
    BY <1>1, <1>4, <1>6 DEF RequestOver, RequestServed
  <2>2. op.kind # "Query" => given'[op.n].updates = 0
    BY <1>3, <1>4 DEF Going, Histories
  <2>3. QED
    BY <1>2, <1>4, <1>5, <1>6, <2>1, <2>2, OthersStep DEF UnderWay
<1>7. CASE UNCHANGED replies
  <2>1. Stream' = Stream
    BY <1>4, <1>7 DEF Stream
  <2>2. MessagesTyped' /\ Ongoing'
    BY <1>1, <1>4, <1>7, <2>1 DEF Going, Typed, MessagesTyped, RequestServed, Ongoing, Intermediate, Opening
  <2>3. QED
    BY <1>6, <2>2
<1>8. CASE replies' = Append(replies, m)
  <2>1. m \in Messages /\ m.n = op.n /\ m.error /\ m.body = provider.error
    <3>1. ErrorStage \in {"ack", "update", "response"}
      BY <1>3, KindFacts DEF ErrorStage
    <3>2. op.n \in Nat
      BY <1>3
    <3>3. QED
      BY <1>0, <1>3, <3>1, <3>2 DEF Messages
  <2>2. /\ Len(Stream') = l + 1 /\ Stream' # <<>> /\ Stream'[l + 1] = m
        /\ \A j \in 1 .. l : Intermediate(j)'
        /\ MessagesTyped'
    BY <1>0, <1>1, <1>4, <1>8, <2>1, StreamGrows DEF Going, RequestServed
  <2>3. Conclusive(m)'
    BY <1>3, <1>4, <2>1 DEF Conclusive
  <2>4. Opening(l + 1)' <=> ~Started
    BY <1>2, <1>4 DEF Opening, Started
  <2>5. LastStage(l + 1)'
    <3>1. m.stage = IF Started THEN Helper[op.kind].late ELSE Helper[op.kind].early
      BY <1>0, <1>3 DEF ErrorStage
    <3>2. QED
      BY <1>4, <2>1, <2>2, <2>4, <3>1 DEF LastStage
  <2>6. Concluded'
    <3>1. (l + 1) - 1 = l
      BY <1>2
    <3>2. QED
      BY <2>1, <2>2, <2>3, <2>5, <3>1 DEF Concluded
  <2>7. QED
    BY <1>6, <2>2, <2>6
<1>9. QED
  BY <1>0, <1>7, <1>8 DEF ReturnError, Answer

-----------------------------------------------------------------------------
(* The consumer. *)

\* The history of the calls that are over, or to come.
LEMMA HistoryKept ==
  ASSUME Truthful, UNCHANGED <<given, got>>, faults \subseteq faults'
  PROVE  Truthful'
  BY DEF Truthful

\* A panic that has its reason.
LEMMA PanicKeeps ==
  ASSUME Inv, alive, Panic, UNCHANGED given, faults \subseteq faults', faults' \cap {"refused", "closed"} # {}
  PROVE  Inv'
  BY HistoryKept DEF Inv, Panic, consumer, NoPanic

LEMMA NewOperationKeeps ==
  ASSUME Going, Truthful, NEW kind \in Kinds, NewOperation(kind)
  PROVE  Going' /\ Truthful'
<1>1. Settled /\ frame.at = "idle" /\ op.n < MaxUsed
  BY DEF NewOperation, At, Going, Idle
<1>2. requests = <<>> /\ Finished /\ buffer = <<>> /\ held = NoMessage /\ replies = <<>>
  BY <1>1, StreamTyped DEF Settled, Going
<1>3. UNCHANGED <<buffer, held, replies, requests, provider, given, got, faults>>
  BY <1>2 DEF NewOperation
<1>4. op.n \in Nat /\ op.n + 1 \in 1 .. MaxUsed
  <2>1. op.n \in Nat
    BY DEF Going, Typed, OpTyped
  <2>2. QED
    BY <1>1, <2>1, BoundAssumption
<1>5. /\ op' = [n |-> op.n + 1, kind |-> kind, status |-> "CREATED", response |-> NoMessage, registered |-> FALSE]
      /\ frame' = [at |-> "call", method |-> "none", msg |-> NoMessage]
  BY DEF NewOperation, Go
<1>6. Stream' = Stream /\ Stream = <<>> /\ Settled'
  BY <1>1, <1>3 DEF Stream, Settled, Finished, Stages
<1>7. Typed'
  <2>1. MessagesTyped'
    BY <1>2, <1>3, <1>6, StreamTyped DEF Going, Typed, MessagesTyped
  <2>2. OpTyped' /\ FrameTyped'
    BY <1>4, <1>5 DEF OpTyped, FrameTyped
  <2>3. QED
    BY <1>3, <2>1, <2>2 DEF Going, Typed, HistoryTyped, ProviderTyped
<1>8. Untouched(op.n + 1)
  BY <1>4 DEF Going, Histories
<1>9. Calling'
  BY <1>3, <1>5, <1>6, <1>8 DEF Calling, Untouched
<1>10. Histories'
  BY <1>3, <1>4, <1>5, <1>8 DEF Going, Histories, Untouched, Nothing
<1>11. Idle' /\ WaitingFor' /\ Reading' /\ Finalizing'
  BY <1>5 DEF Idle, WaitingFor, Reading, Finalizing
<1>12. QED
  BY <1>3, <1>7, <1>9, <1>10, <1>11, HistoryKept DEF Going

\* The request is sent, to a provider that is through with the request before.
LEMMA CallKeeps ==
  ASSUME Going, Truthful, Call
  PROVE  Going' /\ Truthful'
<1>1. op.response = NoMessage /\ Settled /\ Untouched(op.n) /\ frame.at = "call"
  BY DEF Call, At, Going, Calling
<1>2. op.n \in 1 .. MaxUsed /\ op.kind \in Kinds /\ op.n > 0
  BY <1>1, MadeOp DEF Going
<1>3. UNCHANGED <<buffer, held, replies, provider, given, got, faults>>
  BY DEF Call, channels
<1>4. /\ op' \in [n : 1 .. MaxUsed, kind : Kinds, registered : BOOLEAN, response : Messages \cup {NoMessage},
                  status : {"CREATED", "INITIATED", "ACKNOWLEDGED", "PROGRESSING", "FINAL"}]
      /\ op'.n = op.n /\ op'.kind = op.kind /\ op'.response = NoMessage /\ op'.status = "INITIATED" /\ op'.registered
  <2>1. op \in [n : 1 .. MaxUsed, kind : Kinds, registered : BOOLEAN, response : Messages \cup {NoMessage},
                status : {"CREATED", "INITIATED", "ACKNOWLEDGED", "PROGRESSING", "FINAL"}]
    BY <1>1, MadeOp DEF Going
  <2>2. op' = [op EXCEPT !.status = "INITIATED", !.registered = TRUE]
    BY DEF Call
  <2>3. QED
    BY <1>1, <2>1, <2>2
<1>5. frame' = [at |-> "wait", method |-> "first", msg |-> NoMessage]
  BY DEF Call, Go
<1>6. Stream' = Stream /\ Stream = <<>> /\ requests = <<>> /\ Finished'
  BY <1>1, <1>3 DEF Stream, Settled, Finished, Stages
<1>7. requests' = <<[n |-> op.n, kind |-> op.kind, body |-> Operation[op.kind].in]>>
  BY <1>6 DEF Call
<1>8. RequestWaits'
  BY <1>1, <1>3, <1>4, <1>6, <1>7 DEF RequestWaits, Untouched
<1>9. Typed'
  <2>1. MessagesTyped'
    BY <1>3, <1>4, <1>6, StreamTyped DEF Going, Typed, MessagesTyped
  <2>2. OpTyped' /\ FrameTyped'
    BY <1>4, <1>5 DEF OpTyped, FrameTyped
  <2>3. QED
    BY <1>3, <2>1, <2>2 DEF Going, Typed, HistoryTyped, ProviderTyped
<1>10. WaitingFor'
  <2>1. Open'
    BY <1>1, <1>3, <1>4 DEF Open, Untouched, Nothing
  <2>2. QED
    BY <1>4, <1>5, <1>8, <2>1 DEF WaitingFor, UnderWay
<1>11. Histories'
  BY <1>2, <1>3, <1>4 DEF Going, Histories, Untouched
<1>12. Idle' /\ Calling' /\ Reading' /\ Finalizing'
  BY <1>5 DEF Idle, Calling, Reading, Finalizing
<1>13. QED
  BY <1>3, <1>9, <1>10, <1>11, <1>12, HistoryKept DEF Going

\* A call ends, with what it was given.
LEMMA EndKeeps ==
  ASSUME Going, Truthful, Settled', op.n \in 1 .. MaxUsed, op.n > 0,
         NEW e \in Ended, Ends(e), e.how # "undecodable",
         e.how = "values" => given[op.n].end.how = "values" /\ AllRead,
         e.how = "error" => given[op.n].end.how = "error" /\ given[op.n].end.code = e.code,
         op'.n = op.n, op'.kind = op.kind, OpTyped', MessagesTyped', ProviderTyped', given' = given, faults \subseteq faults'
  PROVE  Going' /\ Truthful'
<1>1. got \in [1 .. MaxUsed -> Outcomes] /\ got' = [got EXCEPT ![op.n].end = e]
      /\ frame' = [at |-> "idle", method |-> "none", msg |-> NoMessage]
  BY DEF Going, Typed, HistoryTyped, Ends, Go
<1>2. /\ got' \in [1 .. MaxUsed -> Outcomes] /\ got'[op.n].end = e /\ got'[op.n].updates = got[op.n].updates
      /\ \A n \in 1 .. MaxUsed : n # op.n => got'[n] = got[n]
  <2>1. got[op.n] \in Outcomes
    BY <1>1
  <2>2. [got[op.n] EXCEPT !.end = e] \in Outcomes
    BY <2>1 DEF Outcomes
  <2>3. QED
    BY <1>1, <2>1, <2>2 DEF Outcomes
<1>3. op.kind # "Query" => got[op.n].updates = 0 /\ given[op.n].updates = 0
  BY DEF Going, Histories
<1>4. Truthful'
  <2>1. ASSUME NEW n \in 1 .. MaxUsed PROVE True(n)'
    <3>1. CASE n = op.n
      BY <1>2, <1>3, <3>1 DEF True, AllRead
    <3>2. CASE n # op.n
      <4>1. True(n)
        BY DEF Truthful, True
      <4>2. QED
        BY <1>2, <3>2, <4>1 DEF True
    <3>3. QED
      BY <3>1, <3>2
  <2>2. QED
    BY <2>1 DEF Truthful, True
<1>5. Typed'
  BY <1>1, <1>2 DEF Going, Typed, HistoryTyped, FrameTyped
<1>6. Idle' /\ Calling' /\ WaitingFor' /\ Reading' /\ Finalizing'
  BY <1>1 DEF Idle, Calling, WaitingFor, Reading, Finalizing
<1>7. Histories'
  <2>1. \A n \in 1 .. MaxUsed : n > op.n => Untouched(n)' /\ n # op.n
    BY <1>2 DEF Going, Histories, Untouched
  <2>2. QED
    BY <1>2, <1>3, <2>1 DEF Histories
<1>8. QED
  BY <1>4, <1>5, <1>6, <1>7 DEF Going

LEMMA CallFailsKeeps ==
  ASSUME Inv, alive, CallFails
  PROVE  Inv'
<1>1. Going /\ Truthful /\ UNCHANGED <<requests, replies, buffer, held, provider, given>>
  BY DEF Inv, CallFails, channels
<1>2. CASE Fails("refused") /\ Panic
  BY <1>1, <1>2, PanicKeeps DEF Fails
<1>3. CASE Fails("unencodable") /\ Ends(End("unencodable")) /\ UNCHANGED <<op, alive>>
  <2>1. Settled /\ frame.at = "call"
    BY <1>1 DEF CallFails, At, Going, Calling
  <2>2. op.n \in 1 .. MaxUsed /\ op.n > 0
    BY <1>1, <2>1, MadeOp DEF Going
  <2>3. Stream' = Stream /\ Settled'
    BY <1>1, <2>1 DEF Stream, Settled, Finished, Stages
  <2>4. MessagesTyped' /\ ProviderTyped'
    BY <1>1, <1>3, <2>3 DEF Going, Typed, MessagesTyped, ProviderTyped
  <2>5. OpTyped'
    BY <1>1, <1>3, <2>1, <2>2, MadeOp DEF Going, OpTyped
  <2>6. End("unencodable") \in Ended /\ End("unencodable").how = "unencodable"
    BY DEF Ended, End
  <2>7. Going' /\ Truthful'
    BY <1>1, <1>3, <2>2, <2>3, <2>4, <2>5, <2>6, EndKeeps DEF Fails
  <2>8. QED
    BY <1>3, <2>7 DEF Inv, NoPanic
<1>4. QED
  BY <1>2, <1>3 DEF CallFails

\* What a method returns for the last message is what the implementation did.
LEMMA ResultOf ==
  ASSUME NEW m \in Messages, Conclusive(m), op.kind \in Kinds
  PROVE  /\ Result(m) \in Ended /\ Result(m).how # "undecodable"
         /\ Result(m).how = "values" => ~m.error /\ given[op.n].end.how = "values"
         /\ Result(m).how = "error" => given[op.n].end.how = "error" /\ given[op.n].end.code = Result(m).code
<1>1. CASE m.error
  <2>1. m.body \in Reasons /\ given[op.n].end = m.body /\ Result(m) = DecodeError(m.body)
    BY <1>1 DEF Conclusive, Result
  <2>2. DecodeError(m.body) = m.body \/ DecodeError(m.body) = [m.body EXCEPT !.info = "unreadable"]
    BY DEF DecodeError
  <2>3. Result(m) \in Ended /\ Result(m).how = "error" /\ Result(m).code = m.body.code /\ m.body.how = "error"
    BY <2>1, <2>2 DEF Reasons, Ended
  <2>4. QED
    BY <2>1, <2>3
<1>2. CASE ~m.error
  <2>1. Result(m) = End("values") /\ given[op.n].end = End("values")
    BY <1>2 DEF Conclusive, Result
  <2>2. QED
    BY <1>2, <2>1 DEF Ended, End
<1>3. QED
  BY <1>1, <1>2 DEF Messages

\* The application reads: it waits for the next message, or has the response that
\* GetUpdate kept.
LEMMA ReadKeeps ==
  ASSUME Habits = {}, Inv, alive, NEW method \in {"GetUpdate", "GetResponse"}, Read(method)
  PROVE  Inv'
<1>1. Going /\ Truthful /\ frame.at = "read" /\ MayRead(method)
      /\ UNCHANGED <<requests, replies, buffer, held, provider, given, faults>>
  BY DEF Inv, Read, At, channels
<1>2. op.n \in 1 .. MaxUsed /\ op.n > 0 /\ op.kind \in Kinds
  BY <1>1, MadeOp DEF Going
<1>3. Stream' = Stream
  BY <1>1 DEF Stream
<1>4. CASE op.response = NoMessage /\ op.registered /\ Progressing /\ UnderWay
  <2>1. Open
    BY <1>1 DEF Going, Reading
  <2>2. UNCHANGED <<op, got, alive>> /\ frame' = [at |-> "wait", method |-> method, msg |-> NoMessage]
    BY <1>4 DEF Read, Progressing, Go
  <2>3. method = IF op.kind = "Query" THEN "GetUpdate" ELSE "GetResponse"
    BY <1>1, <1>4 DEF MayRead
  <2>4. UnderWay'
    <3>1. RequestWaits => RequestWaits'
      BY <1>1, <1>3, <2>2 DEF RequestWaits, Finished, Stages, Untouched
    <3>2. RequestServed => RequestServed'
      BY <1>1, <1>3, <2>2 DEF RequestServed, Stages, Started, Ongoing, Intermediate, Opening, Counted, Openings
    <3>3. RequestOver => RequestOver'
      BY <1>1, <1>3, <2>2 DEF RequestOver, Finished, Stages, Ongoing, Concluded, Intermediate, Opening, LastStage,
                              Conclusive, Counted, Openings
    <3>4. QED
      BY <1>4, <3>1, <3>2, <3>3 DEF UnderWay
  <2>5. Typed'
    <3>1. MessagesTyped'
      BY <1>1, <1>3, <2>2 DEF Going, Typed, MessagesTyped
    <3>2. FrameTyped'
      BY <2>2 DEF FrameTyped
    <3>3. OpTyped'
      BY <1>1, <2>2, MadeOp DEF Going, OpTyped
    <3>4. QED
      BY <1>1, <2>2, <3>1, <3>2, <3>3 DEF Going, Typed, HistoryTyped, ProviderTyped
  <2>6. WaitingFor'
    <3>1. Open' /\ Progressing'
      BY <1>4, <2>1, <2>2 DEF Open, Progressing
    <3>2. QED
      BY <1>4, <2>2, <2>3, <2>4, <3>1 DEF WaitingFor
  <2>7. Histories'
    BY <1>1, <2>2 DEF Going, Histories, Untouched
  <2>8. Idle' /\ Calling' /\ Reading' /\ Finalizing'
    BY <2>2 DEF Idle, Calling, Reading, Finalizing
  <2>9. Going' /\ Truthful'
    BY <1>1, <2>2, <2>5, <2>6, <2>7, <2>8, HistoryKept DEF Going
  <2>10. QED
    BY <2>2, <2>9 DEF Inv, NoPanic
<1>5. CASE /\ op.status = "FINAL" /\ op.kind = "Query" /\ Settled
           /\ op.response \in Messages /\ Conclusive(op.response) /\ (~op.response.error => AllRead)
  <2>1. op.response # NoMessage /\ method = "GetResponse"
    BY <1>1, <1>5, MessageIsOne DEF MayRead
  <2>2. Ends(Result(op.response)) /\ UNCHANGED <<op, alive>>
    BY <1>5, <2>1 DEF Read
  <2>3. frame'.at = "idle"
    BY <2>2 DEF Ends, Go
  <2>4. Settled' /\ MessagesTyped' /\ ProviderTyped' /\ OpTyped'
    <3>1. Settled'
      BY <1>1, <1>3, <1>5 DEF Settled, Finished, Stages
    <3>2. MessagesTyped' /\ ProviderTyped'
      BY <1>1, <1>3, <2>2 DEF Going, Typed, MessagesTyped, ProviderTyped
    <3>3. OpTyped'
      BY <1>1, <2>2, MadeOp DEF Going, OpTyped
    <3>4. QED
      BY <3>1, <3>2, <3>3
  <2>5. /\ Result(op.response) \in Ended /\ Result(op.response).how # "undecodable"
        /\ Result(op.response).how = "values" => ~op.response.error /\ given[op.n].end.how = "values"
        /\ Result(op.response).how = "error" => given[op.n].end.how = "error" /\ given[op.n].end.code = Result(op.response).code
    BY <1>2, <1>5, ResultOf
  <2>6. Going' /\ Truthful'
    BY <1>1, <1>2, <1>5, <2>2, <2>4, <2>5, EndKeeps
  <2>7. QED
    BY <2>2, <2>6 DEF Inv, NoPanic
<1>6. QED
  BY <1>1, <1>4, <1>5 DEF Going, Reading

\* The consumer deregisters its operation: the message it has is the last one.
LEMMA FinalizeKeeps ==
  ASSUME Inv, alive, Finalize
  PROVE  Inv'
<1>0. PICK m : m = frame.msg
  OBVIOUS
<1>1. /\ Going /\ Truthful /\ frame.at = "finalize" /\ UNCHANGED <<requests, replies, buffer, held, provider, given, faults>>
      /\ m \in Messages /\ Conclusive(m) /\ (~m.error => AllRead) /\ Settled /\ Open
      /\ frame.method = "GetUpdate" => op.kind = "Query"
  BY <1>0 DEF Inv, Finalize, At, channels, Going, Finalizing
<1>2. /\ op.n \in 1 .. MaxUsed /\ op.n > 0 /\ op.kind \in Kinds /\ m # Bad
      /\ op \in [n : 1 .. MaxUsed, kind : Kinds, registered : BOOLEAN, response : Messages \cup {NoMessage},
                 status : {"CREATED", "INITIATED", "ACKNOWLEDGED", "PROGRESSING", "FINAL"}]
  BY <1>1, MadeOp, MessageIsOne DEF Going
<1>3. Stream' = Stream
  BY <1>1 DEF Stream
<1>4. Settled'
  BY <1>1, <1>3 DEF Settled, Finished, Stages
<1>5. alive'
  BY <1>0, <1>2 DEF Finalize
<1>6. /\ op' \in [n : 1 .. MaxUsed, kind : Kinds, registered : BOOLEAN, response : Messages \cup {NoMessage},
                  status : {"CREATED", "INITIATED", "ACKNOWLEDGED", "PROGRESSING", "FINAL"}]
      /\ op'.n = op.n /\ op'.kind = op.kind /\ op'.status = "FINAL"
      /\ frame.method = "GetUpdate" /\ m.stage = "response" => op'.response = m
  <2>1. PICK r \in Messages \cup {NoMessage} : /\ op' = [op EXCEPT !.status = "FINAL", !.registered = FALSE, !.response = r]
                                               /\ frame.method = "GetUpdate" /\ m.stage = "response" => r = m
    <3>1. op.response \in Messages \cup {NoMessage}
      BY <1>2
    <3>2. CASE frame.method = "GetUpdate" /\ m.stage = "response"
      BY <1>0, <1>1, <3>2 DEF Finalize
    <3>3. CASE ~(frame.method = "GetUpdate" /\ m.stage = "response")
      BY <1>0, <3>1, <3>3 DEF Finalize
    <3>4. QED
      BY <3>2, <3>3
  <2>2. QED
    BY <1>2, <2>1
<1>7. MessagesTyped' /\ ProviderTyped' /\ OpTyped'
  BY <1>1, <1>3, <1>6 DEF Going, Typed, MessagesTyped, ProviderTyped, OpTyped
<1>8. CASE frame.method = "GetUpdate" /\ m.stage = "response"
  <2>1. frame' = [at |-> "read", method |-> "none", msg |-> NoMessage] /\ got' = got
    BY <1>0, <1>8 DEF Finalize, Go
  <2>2. Typed'
    BY <1>1, <1>7, <2>1 DEF Going, Typed, HistoryTyped, FrameTyped
  <2>3. Reading'
    BY <1>1, <1>4, <1>6, <1>8, <2>1 DEF Reading, Open, Conclusive, AllRead
  <2>4. Idle' /\ Calling' /\ WaitingFor' /\ Finalizing'
    BY <2>1 DEF Idle, Calling, WaitingFor, Finalizing
  <2>5. Histories'
    BY <1>1, <1>6, <2>1 DEF Going, Histories, Untouched
  <2>6. Going' /\ Truthful'
    BY <1>1, <2>1, <2>2, <2>3, <2>4, <2>5, HistoryKept DEF Going
  <2>7. QED
    BY <1>5, <2>6 DEF Inv, NoPanic
<1>9. CASE ~(frame.method = "GetUpdate" /\ m.stage = "response")
  <2>1. Ends(Result(m))
    BY <1>0, <1>2, <1>9 DEF Finalize
  <2>2. /\ Result(m) \in Ended /\ Result(m).how # "undecodable"
        /\ Result(m).how = "values" => ~m.error /\ given[op.n].end.how = "values"
        /\ Result(m).how = "error" => given[op.n].end.how = "error" /\ given[op.n].end.code = Result(m).code
    BY <1>1, <1>2, ResultOf
  <2>3. Going' /\ Truthful'
    BY <1>1, <1>2, <1>4, <1>6, <1>7, <2>1, <2>2, EndKeeps
  <2>4. QED
    BY <1>5, <2>3 DEF Inv, NoPanic
<1>10. QED
  BY <1>8, <1>9

\* The message that the consumer takes is the first one.
LEMMA TakesFirst ==
  ASSUME Going, Receive
  PROVE  /\ Stream # <<>> /\ NextMessage = Stream[1] /\ Stream' = Tail(Stream)
         /\ replies' = replies /\ buffer' \in Seq(Messages) /\ held' \in Messages \cup {NoMessage}
         /\ op.n > 0 /\ op.kind # "Query" => buffer' = <<>>
<1>1. buffer \in Seq(Messages) /\ replies \in Seq(Messages) /\ held \in Messages \cup {NoMessage}
  BY DEF Going, Typed, MessagesTyped
<1>2. frame.at = "wait" /\ replies' = replies
  BY DEF Receive, At
<1>3. op.n > 0
  BY <1>2, MadeOp DEF Going
<1>4. CASE op.kind = "Query"
  <2>1. buffer # <<>> /\ NextMessage = Head(buffer) /\ buffer' = Tail(buffer) /\ held' = held
    BY <1>4 DEF Receive, Available, Buffered, NextMessage, Take
  <2>2. Chain(Tail(buffer), held, replies) = Tail(Chain(buffer, held, replies))
        /\ Chain(buffer, held, replies)[1] = Head(buffer) /\ Chain(buffer, held, replies) # <<>>
    BY <1>1, <2>1, ChainTaken, ChainTyped
  <2>3. QED
    BY <1>1, <1>2, <1>4, <2>1, <2>2 DEF Stream
<1>5. CASE op.kind # "Query"
  <2>1. held # NoMessage /\ NextMessage = held /\ held' = NoMessage /\ buffer' = buffer /\ buffer = <<>>
    BY <1>3, <1>5 DEF Receive, Available, Buffered, NextMessage, Take, Going, Typed, MessagesTyped
  <2>2. Chain(<<>>, NoMessage, replies) = Tail(Chain(<<>>, held, replies))
        /\ Chain(<<>>, held, replies)[1] = held /\ Chain(buffer, held, replies) # <<>>
    BY <1>1, <2>1, ChainTaken, ChainTyped
  <2>3. QED
    BY <1>1, <1>2, <2>1, <2>2 DEF Stream
<1>6. QED
  BY <1>4, <1>5

\* The opening message and the last one.
LEMMA EndsOfStages ==
  ASSUME NEW k \in Kinds
  PROVE  LET s == StagesOf(k)
         IN  /\ Head(s) = Helper[k].early /\ (k = "Query" => Acknowledged(k))
             /\ Acknowledged(k) => /\ Head(s) = "ack" /\ k # "Update" /\ s[Len(s)] = "response"
                                   /\ Helper[k].late = "response" \/ (Helper[k].late = "update" /\ k = "Query")
             /\ ~Acknowledged(k) => s[Len(s)] = Head(s) /\ (Head(s) = "response" \/ k = "Update")
<1>1. CASE k = "Query" /\ StagesOf(k) = <<"ack", "update", "response">> /\ Helper[k].early = "ack" /\ Helper[k].late = "update"
  <2>1. Len(StagesOf(k)) = 3 /\ Head(StagesOf(k)) = "ack" /\ StagesOf(k)[3] = "response"
    BY <1>1
  <2>2. QED
    BY <1>1, <2>1 DEF Acknowledged
<1>2. CASE k \in {"Retrieve", "Count"} /\ StagesOf(k) = <<"ack", "response">> /\ Helper[k].early = "ack" /\ Helper[k].late = "response"
  <2>1. Len(StagesOf(k)) = 2 /\ Head(StagesOf(k)) = "ack" /\ StagesOf(k)[2] = "response"
    BY <1>2
  <2>2. QED
    BY <1>2, <2>1 DEF Acknowledged
<1>3. CASE k \in {"Store", "Delete"} /\ StagesOf(k) = <<"response">> /\ Helper[k].early = "response"
  <2>1. Len(StagesOf(k)) = 1 /\ Head(StagesOf(k)) = "response" /\ StagesOf(k)[1] = "response"
    BY <1>3
  <2>2. QED
    BY <1>3, <2>1 DEF Acknowledged
<1>4. CASE k = "Update" /\ StagesOf(k) = <<"ack">> /\ Helper[k].early = "ack"
  <2>1. Len(StagesOf(k)) = 1 /\ Head(StagesOf(k)) = "ack" /\ StagesOf(k)[1] = "ack"
    BY <1>4
  <2>2. QED
    BY <1>4, <2>1 DEF Acknowledged
<1>5. QED
  BY <1>1, <1>2, <1>3, <1>4, KindFacts

\* The first message is one of those that the method expects, and the last one
\* exactly when the operation takes it for it.
LEMMA FirstExpected ==
  ASSUME Going, Receive
  PROVE  /\ Stream[1].stage \in Expected /\ (RequestServed \/ RequestOver)
         /\ \/ IsLast(Stream[1]) /\ RequestOver /\ Concluded /\ Len(Stream) = 1
            \/ ~IsLast(Stream[1]) /\ Intermediate(1)
<1> DEFINE m == Stream[1]
<1>1. Stream # <<>> /\ Stream \in Seq(Messages) /\ Len(Stream) \in Nat \ {0} /\ m \in Messages
  <2>1. Stream # <<>>
    BY TakesFirst
  <2>2. QED
    BY <2>1, StreamTyped DEF Going
<1>2. /\ frame.at = "wait" /\ UnderWay
      /\ \/ frame.method = "first" /\ op.status = "INITIATED"
         \/ /\ frame.method = IF op.kind = "Query" THEN "GetUpdate" ELSE "GetResponse"
            /\ Progressing
  BY DEF Receive, At, Going, WaitingFor
<1>3. op.kind \in Kinds
  BY <1>2, MadeOp DEF Going
<1>4. RequestServed \/ RequestOver
  BY <1>1, <1>2 DEF UnderWay, RequestWaits
<1>5. Intermediate(1) \/ (RequestOver /\ Concluded /\ Len(Stream) = 1)
  <2>1. Ongoing => Intermediate(1)
    BY <1>1 DEF Ongoing
  <2>2. Concluded /\ Len(Stream) # 1 => Intermediate(1)
    <3>1. \A l \in Nat \ {0} : l # 1 => 1 \in 1 .. l - 1
      OBVIOUS
    <3>2. QED
      BY <1>1, <3>1 DEF Concluded
  <2>3. QED
    BY <1>4, <2>1, <2>2 DEF RequestServed, RequestOver
<1>6. (Opening(1) <=> op.status = "INITIATED") /\ (Progressing => ~Opening(1))
  BY DEF Opening, Progressing
<1>7. CASE Intermediate(1)
  <2>1. CASE Opening(1)
    <3>1. m.stage = "ack" /\ Acknowledged(op.kind) /\ ~m.error
      BY <1>7, <2>1 DEF Intermediate
    <3>2. Head(StagesOf(op.kind)) = "ack" /\ op.kind # "Update"
      BY <1>3, <3>1, EndsOfStages
    <3>3. frame.method = "first"
      BY <1>2, <1>6, <2>1
    <3>4. QED
      BY <1>7, <1>4, <3>1, <3>2, <3>3 DEF Expected, IsLast, StagesOf
  <2>2. CASE ~Opening(1)
    <3>1. m.stage = "update" /\ op.kind = "Query" /\ ~m.error
      BY <1>7, <2>2 DEF Intermediate
    <3>2. frame.method = "GetUpdate"
      BY <1>2, <1>6, <2>2, <3>1
    <3>3. QED
      BY <1>7, <1>4, <3>1, <3>2 DEF Expected, IsLast
  <2>3. QED
    BY <2>1, <2>2
<1>8. CASE RequestOver /\ Concluded /\ Len(Stream) = 1
  <2>1. Conclusive(m) /\ LastStage(1) /\ (~m.error => IF Opening(1) THEN ~Acknowledged(op.kind) ELSE Acknowledged(op.kind))
    BY <1>8 DEF Concluded
  <2>2. m.stage = IF m.error THEN IF Opening(1) THEN Helper[op.kind].early ELSE Helper[op.kind].late
                  ELSE StagesOf(op.kind)[Len(StagesOf(op.kind))]
    BY <2>1 DEF LastStage, StagesOf
  <2>3. CASE Opening(1)
    <3>1. frame.method = "first"
      BY <1>2, <1>6, <2>3
    <3>2. m.stage = Head(StagesOf(op.kind)) /\ (m.error \/ m.stage = "response" \/ op.kind = "Update")
      BY <1>3, <2>1, <2>2, <2>3, EndsOfStages
    <3>3. QED
      BY <1>8, <3>1, <3>2 DEF Expected, IsLast, StagesOf
  <2>4. CASE ~Opening(1)
    <3>1. Progressing /\ frame.method = IF op.kind = "Query" THEN "GetUpdate" ELSE "GetResponse"
      BY <1>2, <1>6, <2>4
    <3>2. Acknowledged(op.kind)
      BY <3>1 DEF Progressing
    <3>3. /\ m.stage = "response" \/ (op.kind = "Query" /\ m.stage = "update")
          /\ m.error \/ m.stage = "response"
      BY <1>3, <2>1, <2>2, <2>4, <3>2, EndsOfStages
    <3>4. QED
      BY <1>8, <3>1, <3>3 DEF Expected, IsLast
  <2>5. QED
    BY <2>3, <2>4
<1>9. QED
  BY <1>5, <1>7, <1>8

\* What the operation takes for its last message is the last one.
LEMMA ReceivesLast ==
  ASSUME Going, Truthful, Receive, IsLast(Stream[1])
  PROVE  Going' /\ Truthful'
<1>0. PICK m : m = Stream[1]
  OBVIOUS
<1>1. /\ Stream # <<>> /\ NextMessage = m /\ Stream' = Tail(Stream) /\ m.stage \in Expected
      /\ RequestOver /\ Concluded /\ Len(Stream) = 1
      /\ replies' = replies /\ buffer' \in Seq(Messages) /\ held' \in Messages \cup {NoMessage}
      /\ op.n > 0 /\ op.kind # "Query" => buffer' = <<>>
  BY <1>0, TakesFirst, FirstExpected
<1>2. UNCHANGED <<op, got, requests, provider, given, alive, faults>>
      /\ frame' = [at |-> "finalize", method |-> frame.method, msg |-> m] /\ frame.at = "wait"
  <2>1. IsLast(m)
    BY <1>0
  <2>2. QED
    BY <1>1, <2>1 DEF Receive, Go, At
<1>3. Stream \in Seq(Messages) /\ m \in Messages
  BY <1>0, <1>1, StreamTyped DEF Going
<1>4. Stream' = <<>> /\ Len(Stream') = 0
  BY <1>1, <1>3
<1>5. op.kind \in Kinds /\ op.n \in 1 .. MaxUsed /\ op.n > 0
  BY <1>2, MadeOp DEF Going
<1>6. Typed'
  <2>1. MessagesTyped'
    <3>1. replies \in Seq(Messages)
      BY DEF Going, Typed, MessagesTyped
    <3>2. \A i \in 1 .. Len(Stream') : FALSE
      BY <1>4
    <3>3. QED
      BY <1>1, <1>2, <3>1, <3>2 DEF MessagesTyped
  <2>2. FrameTyped'
    BY <1>2, <1>3 DEF Going, Typed, FrameTyped
  <2>3. OpTyped'
    BY <1>2, MadeOp DEF Going, OpTyped
  <2>4. QED
    BY <1>2, <2>1, <2>2, <2>3 DEF Going, Typed, HistoryTyped, ProviderTyped
<1>7. Conclusive(m) /\ (~m.error => AllRead)
  <2>1. Conclusive(m) /\ (~m.error => IF Opening(1) THEN ~Acknowledged(op.kind) ELSE Counted(Openings + 1))
    BY <1>0, <1>1 DEF Concluded
  <2>2. CASE Opening(1)
    <3>1. ~Acknowledged(op.kind) => op.kind # "Query"
      BY <1>5, EndsOfStages
    <3>2. QED
      BY <2>1, <2>2, <3>1 DEF AllRead
  <2>3. CASE ~Opening(1)
    <3>1. Openings + 1 = 1
      BY <2>3 DEF Openings, Opening
    <3>2. given[op.n].updates \in Nat /\ got[op.n].updates \in Nat
      BY <1>5 DEF Going, Typed, HistoryTyped, Outcomes
    <3>3. Counted(1) => AllRead
      BY <1>1, <3>2 DEF Counted, AllRead
    <3>4. QED
      BY <2>1, <2>3, <3>1, <3>3
  <2>4. QED
    BY <2>2, <2>3
<1>8. Finalizing'
  <2>1. Open /\ (frame.method = "GetUpdate" => op.kind = "Query")
    BY <1>2 DEF Going, WaitingFor
  <2>2. Settled'
    BY <1>1, <1>2, <1>4 DEF Settled, RequestOver, Finished, Stages
  <2>3. QED
    BY <1>2, <1>3, <1>7, <2>1, <2>2 DEF Finalizing, Conclusive, AllRead, Open
<1>9. Idle' /\ Calling' /\ WaitingFor' /\ Reading'
  BY <1>2 DEF Idle, Calling, WaitingFor, Reading
<1>10. Histories'
  BY <1>2 DEF Going, Histories, Untouched
<1>11. QED
  BY <1>2, <1>6, <1>8, <1>9, <1>10, HistoryKept DEF Going

\* The operation as another message leaves it, and the update that is read.
LEMMA NextRead ==
  ASSUME Going, Receive, ~IsLast(Stream[1])
  PROVE  /\ UNCHANGED <<requests, provider, given, alive, faults>>
         /\ frame' = [at |-> "read", method |-> "none", msg |-> NoMessage]
         /\ op' \in [n : 1 .. MaxUsed, kind : Kinds, registered : BOOLEAN, response : Messages \cup {NoMessage},
                     status : {"CREATED", "INITIATED", "ACKNOWLEDGED", "PROGRESSING", "FINAL"}]
         /\ op'.n = op.n /\ op'.kind = op.kind /\ op'.registered /\ op'.response = NoMessage
         /\ op'.status # "INITIATED" /\ Progressing'
         /\ got' \in [1 .. MaxUsed -> Outcomes]
         /\ \A n \in 1 .. MaxUsed : got'[n].end = got[n].end /\ (n # op.n => got'[n] = got[n])
         /\ got'[op.n].updates + Openings = got[op.n].updates + 1
         /\ op.kind # "Query" => got' = got
<1>0. PICK m : m = Stream[1]
  OBVIOUS
<1>1. Stream # <<>> /\ NextMessage = m /\ m.stage \in Expected /\ Intermediate(1) /\ ~IsLast(m)
  BY <1>0, TakesFirst, FirstExpected
<1>2. /\ UNCHANGED <<requests, provider, given, alive, faults>> /\ frame.at = "wait"
      /\ frame' = [at |-> "read", method |-> "none", msg |-> NoMessage]
      /\ op' = [op EXCEPT !.status = IF m.stage = "ack" THEN "ACKNOWLEDGED" ELSE "PROGRESSING"]
      /\ got' = IF m.stage = "update" THEN [got EXCEPT ![op.n].updates = @ + 1] ELSE got
  BY <1>1 DEF Receive, Go, At
<1>3. /\ op \in [n : 1 .. MaxUsed, kind : Kinds, registered : BOOLEAN, response : Messages \cup {NoMessage},
                 status : {"CREATED", "INITIATED", "ACKNOWLEDGED", "PROGRESSING", "FINAL"}]
      /\ op.n \in 1 .. MaxUsed /\ op.registered /\ op.response = NoMessage /\ (Progressing \/ op.status = "INITIATED")
  BY <1>2, MadeOp DEF Going, WaitingFor
<1>4. got \in [1 .. MaxUsed -> Outcomes] /\ got[op.n] \in Outcomes /\ got[op.n].updates \in Nat
  BY <1>3 DEF Going, Typed, HistoryTyped, Outcomes
<1>5. CASE op.status = "INITIATED"
  <2>1. m.stage = "ack" /\ Acknowledged(op.kind) /\ Openings = 1
    BY <1>0, <1>1, <1>5 DEF Intermediate, Opening, Openings
  <2>2. op' = [op EXCEPT !.status = "ACKNOWLEDGED"] /\ got' = got
    BY <1>2, <2>1
  <2>3. Progressing'
    BY <1>3, <2>1, <2>2 DEF Progressing
  <2>4. QED
    BY <1>2, <1>3, <1>4, <2>1, <2>2, <2>3
<1>6. CASE op.status # "INITIATED"
  <2>1. m.stage = "update" /\ op.kind = "Query" /\ Openings = 0 /\ Acknowledged(op.kind)
    BY <1>0, <1>1, <1>3, <1>6 DEF Intermediate, Opening, Openings, Progressing
  <2>2. op' = [op EXCEPT !.status = "PROGRESSING"] /\ got' = [got EXCEPT ![op.n].updates = @ + 1]
    BY <1>2, <2>1
  <2>3. Progressing'
    BY <1>3, <2>1, <2>2 DEF Progressing
  <2>4. [got[op.n] EXCEPT !.updates = @ + 1] \in Outcomes
    BY <1>4 DEF Outcomes
  <2>5. got' \in [1 .. MaxUsed -> Outcomes] /\ got'[op.n].updates = got[op.n].updates + 1
        /\ \A n \in 1 .. MaxUsed : got'[n].end = got[n].end /\ (n # op.n => got'[n] = got[n])
    BY <1>3, <1>4, <2>2, <2>4 DEF Outcomes
  <2>6. got'[op.n].updates + Openings = got[op.n].updates + 1
    BY <1>4, <2>1, <2>5
  <2>7. QED
    BY <1>2, <1>3, <2>1, <2>2, <2>3, <2>5, <2>6
<1>7. QED
  BY <1>5, <1>6

\* The rest of the stream, when its first message is read.
LEMMA NextRemains ==
  ASSUME Going, Receive, ~IsLast(Stream[1])
  PROVE  /\ Stream' = Tail(Stream) /\ Len(Stream') = Len(Stream) - 1 /\ Len(Stream) \in Nat \ {0}
         /\ \A i \in 1 .. Len(Stream') : i + 1 \in 1 .. Len(Stream) /\ Stream'[i] = Stream[i + 1]
         /\ \A i \in 1 .. Len(Stream') : (Intermediate(i + 1) => Intermediate(i)') /\ (LastStage(i + 1) => LastStage(i)')
         /\ \A x : Conclusive(x) => Conclusive(x)'
         /\ (Counted(Openings) => Counted(Openings)') /\ (Counted(Openings + 1) => Counted(Openings + 1)')
<1>1. /\ op'.n = op.n /\ op'.kind = op.kind /\ op'.status # "INITIATED" /\ UNCHANGED <<given, faults>>
      /\ got' \in [1 .. MaxUsed -> Outcomes] /\ got'[op.n].updates + Openings = got[op.n].updates + 1
  BY NextRead
<1>2. Stream' = Tail(Stream) /\ Stream # <<>>
  BY TakesFirst
<1>3. Stream \in Seq(Messages)
  BY StreamTyped DEF Going
<1>4. Len(Stream') = Len(Stream) - 1 /\ Len(Stream) \in Nat \ {0}
      /\ \A i \in 1 .. Len(Stream') : i \in Nat /\ i + 1 \in 1 .. Len(Stream) /\ i + 1 # 1 /\ Stream'[i] = Stream[i + 1]
  BY <1>2, <1>3
<1>5. ASSUME NEW i \in 1 .. Len(Stream') PROVE (Intermediate(i + 1) => Intermediate(i)') /\ (LastStage(i + 1) => LastStage(i)')
  <2>1. Stream'[i] = Stream[i + 1] /\ ~Opening(i + 1) /\ ~Opening(i)'
    BY <1>1, <1>4 DEF Opening
  <2>2. QED
    BY <1>1, <2>1 DEF Intermediate, LastStage
<1>6. \A x : Conclusive(x) => Conclusive(x)'
  BY <1>1 DEF Conclusive
<1>7. Openings' = 0 /\ Openings \in Nat
  BY <1>1 DEF Openings, Opening
<1>8. (Counted(Openings) => Counted(Openings)') /\ (Counted(Openings + 1) => Counted(Openings + 1)')
  <2>1. op.n \in 1 .. MaxUsed
    BY MadeOp DEF Going, Receive, At
  <2>2. PICK g, s, l, o : g = given[op.n].updates /\ s = got[op.n].updates /\ l = Len(Stream) /\ o = Openings
    OBVIOUS
  <2>3. g \in Nat /\ s \in Nat /\ l \in Nat /\ o \in Nat
    BY <1>4, <1>7, <2>1, <2>2 DEF Going, Typed, HistoryTyped, Outcomes
  <2>4. PICK t : t = got'[op.n].updates
    OBVIOUS
  <2>5. t \in Nat /\ t + o = s + 1
    BY <1>1, <2>1, <2>2, <2>4 DEF Outcomes
  <2>6. g + o = s + l => g + 0 = t + (l - 1)
    BY <2>3, <2>5
  <2>7. g + (o + 1) = s + l => g + (0 + 1) = t + (l - 1)
    BY <2>3, <2>5
  <2>8. QED
    BY <1>1, <1>4, <1>7, <2>2, <2>4, <2>6, <2>7 DEF Counted
<1>9. QED
  BY <1>1, <1>2, <1>4, <1>5, <1>6, <1>7, <1>8

LEMMA ReceivesNext ==
  ASSUME Going, Truthful, Receive, ~IsLast(Stream[1])
  PROVE  Going' /\ Truthful'
<1>1. /\ UNCHANGED <<requests, provider, given, alive, faults>>
      /\ frame' = [at |-> "read", method |-> "none", msg |-> NoMessage]
      /\ op' \in [n : 1 .. MaxUsed, kind : Kinds, registered : BOOLEAN, response : Messages \cup {NoMessage},
                  status : {"CREATED", "INITIATED", "ACKNOWLEDGED", "PROGRESSING", "FINAL"}]
      /\ op'.n = op.n /\ op'.kind = op.kind /\ op'.registered /\ op'.response = NoMessage
      /\ op'.status # "INITIATED" /\ Progressing'
      /\ got' \in [1 .. MaxUsed -> Outcomes]
      /\ \A n \in 1 .. MaxUsed : got'[n].end = got[n].end /\ (n # op.n => got'[n] = got[n])
      /\ op.kind # "Query" => got' = got
  BY NextRead
<1>2. /\ Stream' = Tail(Stream) /\ Len(Stream') = Len(Stream) - 1 /\ Len(Stream) \in Nat \ {0}
      /\ \A i \in 1 .. Len(Stream') : i + 1 \in 1 .. Len(Stream) /\ Stream'[i] = Stream[i + 1]
      /\ \A i \in 1 .. Len(Stream') : (Intermediate(i + 1) => Intermediate(i)') /\ (LastStage(i + 1) => LastStage(i)')
      /\ \A x : Conclusive(x) => Conclusive(x)'
      /\ (Counted(Openings) => Counted(Openings)') /\ (Counted(Openings + 1) => Counted(Openings + 1)')
  BY NextRemains
<1>3. frame.at = "wait" /\ Open /\ op.n \in 1 .. MaxUsed /\ op.n > 0 /\ op.kind \in Kinds
  BY MadeOp DEF Receive, At, Going, WaitingFor
<1>4. Intermediate(1) /\ (RequestServed \/ RequestOver)
  BY FirstExpected
<1>5. Typed'
  <2>1. \A i \in 1 .. Len(Stream') : Stream'[i].n = op.n
    BY <1>2 DEF Going, Typed, MessagesTyped
  <2>2. MessagesTyped'
    <3>1. replies \in Seq(Messages)
      BY DEF Going, Typed, MessagesTyped
    <3>2. QED
      BY <1>1, <1>3, <2>1, <3>1, TakesFirst DEF MessagesTyped
  <2>3. FrameTyped' /\ OpTyped'
    BY <1>1 DEF FrameTyped, OpTyped
  <2>4. QED
    BY <1>1, <2>2, <2>3 DEF Going, Typed, HistoryTyped, ProviderTyped
<1>6. Ongoing => Ongoing'
  BY <1>2 DEF Ongoing
<1>7. Concluded => Concluded'
  <2> SUFFICES ASSUME Concluded PROVE Concluded'
    OBVIOUS
  <2>1. Len(Stream) # 1
    <3>1. ASSUME Len(Stream) = 1 PROVE FALSE
      <4>1. LastStage(1) /\ (~Stream[1].error => IF Opening(1) THEN ~Acknowledged(op.kind) ELSE Acknowledged(op.kind))
        BY <3>1 DEF Concluded
      <4>2. ~Opening(1) /\ Stream[1].stage = "update" /\ Acknowledged(op.kind)
        BY <1>4, <4>1 DEF Intermediate
      <4>3. Stream[1].stage = StagesOf(op.kind)[Len(StagesOf(op.kind))]
        BY <1>4, <4>1 DEF LastStage, Intermediate, StagesOf
      <4>4. QED
        BY <1>3, <4>2, <4>3, EndsOfStages
    <3>2. QED
      BY <3>1
  <2>2. PICK k \in Nat \ {0} : Len(Stream) = k + 1
    <3>1. \A l \in Nat \ {0} : l # 1 => l - 1 \in Nat \ {0} /\ l = (l - 1) + 1
      OBVIOUS
    <3>2. QED
      BY <1>2, <2>1, <3>1
  <2>3. Len(Stream') = k /\ k \in 1 .. k /\ (k + 1) - 1 = k /\ k + 1 # 1
    BY <1>2, <2>2
  <2>4. Stream' # <<>> /\ Stream'[k] = Stream[k + 1]
    BY <1>2, <2>2, <2>3
  <2>5. ~Opening(k + 1) /\ ~Opening(k)'
    BY <1>1, <2>3 DEF Opening
  <2>6. Conclusive(Stream[k + 1]) /\ LastStage(k + 1)
        /\ (~Stream[k + 1].error => Acknowledged(op.kind) /\ Counted(Openings + 1))
        /\ \A i \in 1 .. k : Intermediate(i)
    BY <2>2, <2>3, <2>5 DEF Concluded
  <2>7. \A i \in 1 .. k - 1 : Intermediate(i)'
    <3>1. \A i \in 1 .. k - 1 : i \in 1 .. k /\ i + 1 \in 1 .. k
      OBVIOUS
    <3>2. QED
      BY <1>2, <2>3, <2>6, <3>1
  <2>8. LastStage(k)'
    BY <1>2, <2>3, <2>6
  <2>9. Conclusive(Stream[k])'
    <3>1. Conclusive(Stream[k + 1]) => \E x : x = Stream[k + 1] /\ Conclusive(x)
      OBVIOUS
    <3>2. PICK x : x = Stream[k + 1] /\ Conclusive(x)
      BY <2>6
    <3>3. Conclusive(x)' /\ x = Stream'[k]
      BY <1>2, <2>4, <3>2
    <3>4. QED
      BY <3>3 DEF Conclusive
  <2>10. ~Stream'[k].error => Acknowledged(op.kind)' /\ Counted(Openings + 1)'
    BY <1>1, <1>2, <2>4, <2>6 DEF Acknowledged
  <2>11. QED
    BY <2>3, <2>4, <2>5, <2>7, <2>8, <2>9, <2>10 DEF Concluded
<1>8. UnderWay'
  <2>1. CASE RequestServed
    <3>1. Started /\ Started'
      BY <1>1, <1>2 DEF Started
    <3>3. RequestServed'
      BY <1>1, <1>2, <1>6, <2>1, <3>1 DEF RequestServed, Stages
    <3>4. QED
      BY <3>3 DEF UnderWay
  <2>2. CASE RequestOver
    <3>1. RequestOver'
      BY <1>1, <1>6, <1>7, <2>2 DEF RequestOver, Finished, Stages
    <3>2. QED
      BY <3>1 DEF UnderWay
  <2>3. QED
    BY <1>4, <2>1, <2>2
<1>9. Reading'
  BY <1>1, <1>3, <1>8 DEF Reading, Open
<1>10. Idle' /\ Calling' /\ WaitingFor' /\ Finalizing'
  BY <1>1 DEF Idle, Calling, WaitingFor, Finalizing
<1>11. Histories'
  <2>1. \A n \in 1 .. MaxUsed : n > op.n => n # op.n
    BY <1>3
  <2>2. QED
    BY <1>1, <2>1 DEF Going, Histories, Untouched
<1>12. Truthful'
  <2>1. ASSUME NEW n \in 1 .. MaxUsed PROVE True(n)'
    <3>1. CASE n = op.n
      <4>1. got'[n].end.how = "none"
        BY <1>1, <1>3, <3>1 DEF Open, End
      <4>2. QED
        BY <4>1 DEF True
    <3>2. CASE n # op.n
      <4>1. True(n)
        BY DEF Truthful, True
      <4>2. QED
        BY <1>1, <3>2, <4>1 DEF True
    <3>3. QED
      BY <3>1, <3>2
  <2>2. QED
    BY <2>1 DEF Truthful, True
<1>13. QED
  BY <1>5, <1>8, <1>9, <1>10, <1>11, <1>12 DEF Going
LEMMA CloseKeeps ==
  ASSUME Inv, alive, Close
  PROVE  Inv'
  BY PanicKeeps DEF Close, Fails

-----------------------------------------------------------------------------
(* The invariant, and what follows. *)

LEMMA InvInit ==
  ASSUME Init
  PROVE  Inv
<1>1. Stream = <<>> /\ Settled
  BY DEF Init, Stream, Chain, Settled, Finished
<1>2. MaxUsed \in Nat /\ Nothing \in Outcomes /\ Nothing.end.how = "none" /\ End("none").how = "none"
  BY BoundAssumption DEF Nothing, Outcomes, Ended, End
<1>3. op = [n |-> 0] /\ op.n = 0 /\ frame.at = "idle" /\ frame = [at |-> "idle", method |-> "none", msg |-> NoMessage]
  BY DEF Init
<1>4. Typed
  <2>1. MessagesTyped
    <3>1. Len(Stream) = 0 /\ \A i \in 1 .. Len(Stream) : FALSE
      BY <1>1
    <3>2. QED
      BY <1>3, <3>1 DEF Init, MessagesTyped
  <2>2. HistoryTyped
    BY <1>2 DEF Init, HistoryTyped
  <2>3. ProviderTyped /\ OpTyped /\ FrameTyped
    BY <1>3 DEF Init, ProviderTyped, OpTyped, FrameTyped
  <2>4. QED
    BY <2>1, <2>2, <2>3 DEF Typed
<1>5. Idle /\ Calling /\ WaitingFor /\ Reading /\ Finalizing
  BY <1>1, <1>3 DEF Idle, Calling, WaitingFor, Reading, Finalizing
<1>6. Histories
  BY <1>3 DEF Init, Histories, Untouched
<1>7. Truthful /\ NoPanic
  BY <1>2 DEF Init, Truthful, NoPanic, Nothing
<1>8. QED
  BY <1>4, <1>5, <1>6, <1>7 DEF Inv, Going

\* A step that keeps what holds while the service goes on.
LEMMA GoesOn ==
  ASSUME Inv, alive' = alive, faults \subseteq faults', Going' /\ Truthful'
  PROVE  Inv'
  BY DEF Inv, NoPanic

\* Nothing happens after a panic.
LEMMA OnlyAlive ==
  ASSUME Next
  PROVE  alive
<1>1. Consume => alive
  BY DEF Consume, Call, Receive, Finalize, Read, At
<1>2. Serve => alive
  BY DEF Serve, Handle, Implementation, ReturnError, AnswerWith, Serving
<1>3. (Deliver => alive) /\ (Unblock => alive) /\ (CallFails => alive) /\ (Close => alive)
  BY DEF Deliver, Unblock, CallFails, Close, At
<1>4. (\E kind \in Kinds : NewOperation(kind)) => alive
  BY DEF NewOperation, At
<1>5. (\E i \in 1 .. 3 : AnswerFails(i)) => alive
  BY DEF AnswerFails, Serving
<1>6. QED
  BY <1>1, <1>2, <1>3, <1>4, <1>5 DEF Next

LEMMA ConsumeKeeps ==
  ASSUME Habits = {}, Inv, alive, Consume
  PROVE  Inv'
<1>1. Going /\ Truthful
  BY DEF Inv
<1>2. CASE Call
  BY <1>1, <1>2, CallKeeps, GoesOn DEF Call
<1>3. CASE Receive
  BY <1>1, <1>3, ReceivesLast, ReceivesNext, GoesOn DEF Receive
<1>4. CASE Finalize
  BY <1>4, FinalizeKeeps
<1>5. CASE \E method \in {"GetUpdate", "GetResponse"} : Read(method)
  BY <1>5, ReadKeeps
<1>6. QED
  BY <1>2, <1>3, <1>4, <1>5 DEF Consume
LEMMA ServeKeeps ==
  ASSUME Habits = {}, Inv, alive, Serve
  PROVE  Inv'
<1>1. Going /\ Truthful
  BY DEF Inv
<1>2. CASE Handle
  BY <1>1, <1>2, HandleKeeps, GoesOn DEF Handle
<1>3. CASE Implementation
  BY <1>1, <1>3, ImplementationKeeps, GoesOn DEF Implementation
<1>4. CASE ReturnError
  <2>1. RequestServed /\ provider.at = "error"
    BY <1>1, <1>4, Served DEF ReturnError, Serving, Finished
  <2>2. provider.error.info # "nil"
    BY <2>1 DEF RequestServed, Reasons
  <2>3. alive' = alive /\ faults \subseteq faults'
    BY <1>4, <2>2 DEF ReturnError, Fails
  <2>4. QED
    BY <1>1, <1>4, <2>3, ReturnErrorKeeps, GoesOn
<1>5. CASE \E i \in 1 .. 3 : AnswerWith(i)
  <2>1. PICK i \in 1 .. 3 : AnswerWith(i)
    BY <1>5
  <2>2. alive' = alive /\ faults \subseteq faults'
    BY <2>1 DEF AnswerWith
  <2>3. QED
    BY <1>1, <2>1, <2>2, AnswerKeeps, GoesOn
<1>6. QED
  BY <1>2, <1>3, <1>4, <1>5 DEF Serve

LEMMA StutterKeeps ==
  ASSUME Inv, UNCHANGED vars
  PROVE  Inv'
<1>1. UNCHANGED <<op, frame, got, held, buffer, requests, replies, provider, given, alive, faults>>
  BY DEF vars, consumer, channels
<1>2. Stream' = Stream
  BY <1>1 DEF Stream
<1>3. Truthful' /\ (NoPanic => NoPanic')
  BY <1>1 DEF Inv, Truthful, NoPanic
<1>4. ASSUME Going PROVE Going'
  <2>1. Typed'
    <3>1. MessagesTyped'
      BY <1>1, <1>2, <1>4 DEF Going, Typed, MessagesTyped
    <3>2. QED
      BY <1>1, <1>4, <3>1 DEF Going, Typed, HistoryTyped, ProviderTyped, OpTyped, FrameTyped
  <2>2. Finished' = Finished /\ Truthful
    BY <1>1 DEF Inv, Finished, Stages
  <2>3. QED
    BY <1>1, <1>2, <1>4, <2>1, <2>2, SameStream
<1>5. QED
  BY <1>1, <1>3, <1>4 DEF Inv

LEMMA InvNext ==
  ASSUME Habits = {}, Inv, [Next]_vars
  PROVE  Inv'
<1>1. CASE UNCHANGED vars
  BY <1>1, StutterKeeps
<1>2. CASE Next
  <2>1. alive /\ Going /\ Truthful
    BY <1>2, OnlyAlive DEF Inv
  <2>2. CASE Consume
    BY <2>1, <2>2, ConsumeKeeps
  <2>3. CASE Serve
    BY <2>1, <2>3, ServeKeeps
  <2>4. CASE Deliver
    BY <2>1, <2>4, DeliverKeeps, GoesOn DEF Deliver
  <2>5. CASE Unblock
    BY <2>1, <2>5, UnblockKeeps, GoesOn DEF Unblock
  <2>6. CASE CallFails
    BY <2>1, <2>6, CallFailsKeeps
  <2>7. CASE Close
    BY <2>1, <2>7, CloseKeeps
  <2>8. CASE \E kind \in Kinds : NewOperation(kind)
    <3>1. PICK kind \in Kinds : NewOperation(kind)
      BY <2>8
    <3>2. alive' = alive /\ faults \subseteq faults'
      BY <3>1 DEF NewOperation
    <3>3. QED
      BY <2>1, <3>1, <3>2, NewOperationKeeps, GoesOn
  <2>9. CASE \E i \in 1 .. 3 : AnswerFails(i)
    <3>1. PICK i \in 1 .. 3 : AnswerFails(i)
      BY <2>9
    <3>2. alive' = alive /\ faults \subseteq faults'
      BY <3>1 DEF AnswerFails, Fails
    <3>3. QED
      BY <2>1, <3>1, <3>2, AnswerFailsKeeps, GoesOn
  <2>10. QED
    BY <1>2, <2>2, <2>3, <2>4, <2>5, <2>6, <2>7, <2>8, <2>9 DEF Next
<1>3. QED
  BY <1>1, <1>2

\* With applications that keep to the service, the invariant holds for ever.
THEOREM Invariant ==
  ASSUME Habits = {}
  PROVE  Spec => []Inv
<1>1. Init => Inv
  BY InvInit
<1>2. Inv /\ [Next]_vars => Inv'
  BY InvNext
<1>3. QED
  BY <1>1, <1>2, PTL DEF Spec

\* A call ends with values only when the implementation gave its last answer, and
\* a Query then has read every update that was sent; it ends with an error only
\* when the implementation ended with it, and with the code of it (the operations
\* of consumer.go, the handlers and helpers of provider.go): whatever fails.
THEOREM AnswersTrue ==
  ASSUME Habits = {}
  PROVE  Spec => []Truthful
<1>1. Inv => Truthful
  BY DEF Inv
<1>2. QED
  BY <1>1, Invariant, PTL

\* resp.IsErrorMessage() of consumer.go is called without a message only when the
\* request was refused or the context was closed under the call.
THEOREM OnlyFaultsPanic ==
  ASSUME Habits = {}
  PROVE  Spec => []NoPanic
<1>1. Inv => NoPanic
  BY DEF Inv
<1>2. QED
  BY <1>1, Invariant, PTL
=============================================================================
