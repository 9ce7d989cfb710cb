--------------------------- MODULE MCMessageBody ---------------------------
(***************************************************************************)
(* MessageBody for one sender and one receiver that follow a script: two   *)
(* parameters, an encoding, a transport and a header.                      *)
(***************************************************************************)
EXTENDS MessageBody

VARIABLE script

\* The bytes of the scheme, of "://" and of "/".
Scheme == <<1, 2>>
SchemeEnd == <<3>>
PathStart == <<4>>

Num(t, n) == Value(t, n, <<>>, <<>>)
Text(t, s) == Value(t, 0, s, <<>>)
Comp(t, v) == Value(t, 0, <<>>, v)

\* The least and the greatest number of a type, and some about zero.
Numbers(t) ==
  LET m == Size[Widths[t]]
  IN  IF t \in Signeds THEN {-(m \div 2), -1, 0, (m \div 2) - 1} ELSE {0, Group, m - 1}

LastInstant == Size[ShortBytes] * Day - 1
Half == Size[LongBytes] \div 2

\* The last ones are past what a timestamp holds: read as long ago, and as Day.
Instants == {-3, 0, Day + 3, LastInstant, LastInstant + 1, Half - 1, Half, Size[LongBytes] + Day}

AttributeValues(t) ==
  CASE t = "Boolean" -> {Num(t, 0), Num(t, 1)}
    [] t \in Texts -> {Text(t, <<>>), Text(t, <<7>>), Text(t, [i \in 1 .. Group + 1 |-> 1])}
    [] t \in {"Time", "FineTime"} -> {Num(t, n) : n \in Instants}
    [] OTHER -> {Num(t, n) : n \in Numbers(t)}

\* One value of each type, with all its parts.
RECURSIVE Full(_)
FullField(field) == IF field[1] = "nullableAttribute" THEN Num("Short", -1) ELSE Full(field[2])

Full(t) ==
  LET type == Types[t]
  IN  CASE t = "FineTime" -> Num(t, Day + 3)
        [] t = "Time" -> Num(t, Day + PerMilli)
        [] t \in Texts -> Text(t, <<7>>)
        [] type.kind = "attribute" /\ t \notin Texts \cup {"Time", "FineTime"} -> Num(t, 1)
        [] type.kind = "enumeration" -> Num(t, 2)
        [] type.kind = "composite" -> Comp(t, [i \in DOMAIN type.enc |-> FullField(type.enc[i])])
        [] type.kind = "list" -> Comp(t, <<Full(type.item)>>)

Optional(field) == field[1] \in {"nullable", "nullableAttribute"}

\* A composite without one of its parts, and without all the optional ones.
CompositeValues(t) ==
  LET fields == Types[t].enc
      without(S) == Comp(t, [i \in DOMAIN fields |-> IF i \in S THEN Null ELSE Full(t).v[i]])
      optional == {i \in DOMAIN fields : Optional(fields[i])}
  IN  {without({})} \cup {without({i}) : i \in optional} \cup {without(optional)}

ListValues(t) == LET x == Full(Types[t].item)
                 IN  {Comp(t, <<>>), Comp(t, <<x>>), Comp(t, <<Null, x, Null>>), Comp(t, <<x, x>>)}

\* An archive entry whose instant is too late, alone and in a list.
Late(n) == Comp("ArchiveDetails", <<Num("Long", n), Comp("ObjectDetails", <<Null, Null>>), Null,
                                    Num("FineTime", LastInstant + 1), Null>>)
LateList == Comp("ArchiveDetailsList", <<Late(1), Full("ArchiveDetails")>>)

\* Octets enough for a bit field of several bytes, and the values of no enumeration.
Others ==
  {Comp("EntityKeyList", [i \in 1 .. 2 * Bits |-> IF i % 3 = 0 THEN Null ELSE Full("EntityKey")]),
   Comp("BooleanList", [i \in 1 .. 2 * Bits |-> IF i % 3 = 0 THEN Null ELSE Num("Boolean", i % 2)]),
   Comp("TimeList", <<Num("Time", LastInstant + 1), Null>>), Late(1), LateList,
   Num("QoSLevel", 9), Num("ExpressionOperator", 9), Comp("QoSLevelList", <<Num("QoSLevel", 9)>>),
   Comp("Pair", <<Full("Blob"), Full("FineTime")>>)}

ValuesOf(t) ==
  LET kind == Types[t].kind
  IN  CASE kind = "attribute" -> AttributeValues(t)
        [] kind = "enumeration" -> {Num(t, 1), Num(t, Types[t].size)}
        [] kind = "composite" -> CompositeValues(t)
        [] kind = "list" -> ListValues(t)

Elements == (UNION {ValuesOf(t) : t \in DOMAIN Types}) \cup Others

Mark == Num("Long", 5)

-----------------------------------------------------------------------------
(* The scripts. *)

Domain == Comp("IdentifierList", <<Text("Identifier", <<1>>), Text("Identifier", <<2, 3>>)>>)
Peer == <<9, 9>>
Own == MALTCP \o Separator \o <<8>>
Uri(service) == Own \o Slash \o service

Plainest ==
  [from |-> MALTCP \o Separator \o Peer \o Slash \o <<4>>, to |-> Uri(<<5>>), auth |-> <<>>,
   encodingId |-> 0, timestamp |-> Day, qos |-> 2, priority |-> 1, domain |-> Domain, zone |-> <<6>>,
   session |-> 1, sessionName |-> <<7>>, it |-> "SUBMIT", stage |-> 1, tid |-> 3, area |-> 200,
   service |-> 1, operation |-> 2, version |-> 1, isError |-> FALSE, body |-> <<>>]

InteractionKinds ==
  {<<it, stage>> : it \in ToSet(Interactions), stage \in 1 .. PubSubStages}

\* Every kind of message and every flag; the least and the greatest of each field.
Headers ==
  {[Plainest EXCEPT !.it = k[1], !.stage = k[2]] : k \in InteractionKinds \cap ToSet(SDUs)}
  \cup {[Plainest EXCEPT !.qos = q, !.session = s, !.isError = e] :
          q \in 1 .. 5, s \in 1 .. 4, e \in BOOLEAN}
  \cup {[Plainest EXCEPT !.timestamp = n] : n \in Instants}
  \cup {[Plainest EXCEPT !.tid = Size[LongBytes] - 1, !.priority = Size[IntegerBytes] - 1,
                         !.area = Size[ShortBytes] - 1, !.service = Size[ShortBytes] - 1,
                         !.operation = Size[ShortBytes] - 1, !.version = ByteSize - 1,
                         !.encodingId = ByteSize - 1, !.auth = [i \in 1 .. Group |-> i]],
        [Plainest EXCEPT !.domain = Comp("IdentifierList", <<>>), !.zone = <<>>, !.sessionName = <<>>],
        [Plainest EXCEPT !.from = <<4>>, !.to = <<5>>],
        [Plainest EXCEPT !.it = "PUBSUB", !.stage = 11], [Plainest EXCEPT !.it = "INVOKE", !.stage = 9]}

Script(transport, enc, abstract, e, msg) ==
  [transport |-> transport, enc |-> enc, abstract |-> abstract, e |-> e, msg |-> msg]

\* Every element with every encoding, as an abstract last parameter after a mark
\* or as a first one before it, by one of the transports; and every header.
Scripts ==
  {Script(tr, enc, tr = "invm", e, Plainest) : tr \in {"tcp", "invm"}, enc \in Encodings, e \in Elements}
  \cup {Script("tcp", "fixed", FALSE, Mark, msg) : msg \in Headers}

Params == IF script.abstract THEN <<Mark, script.e>> ELSE <<script.e, Mark>>

\* The message of the sender starts afresh with the encoding of the script.
Prepare ==
  /\ Params # <<>> /\ ~moved /\ sent = <<>>
  /\ \/ body.factory # script.enc /\ SetEncodingFactory(script.enc)
     \/ body.factory = script.enc /\ body.b.enc # script.enc /\ Reset(TRUE)

Ready == body.b.enc = script.enc

Encode1 == Ready /\ sent = <<>> /\ EncodeParameter(Params[1])
Encode2 == Ready /\ Len(sent) = 1 /\ status = "ok" /\ EncodeLastParameter(Params[2], script.abstract)

\* Only a message whose parameters are all encoded is sent, once.
Complete == Len(sent) = 2 /\ status = "ok" /\ ~moved

Transmit ==
  /\ Complete
  /\ \/ script.transport = "invm" /\ TransmitInVM
     \/ script.transport = "tcp" /\ TransmitTcp(script.msg, Peer, Own)

\* The receiver reads with the encoding of the script.
Receive ==
  /\ moved /\ results = <<>>
  /\ \/ body.factory # script.enc /\ SetEncodingFactory(script.enc)
     \/ body.factory = script.enc /\ body.b.enc # script.enc /\ Reset(FALSE)

Decode1 == moved /\ Ready /\ results = <<>> /\ DecodeParameter(Params[1].t)
Decode2 == Len(results) = 1 /\ status = "ok" /\ DecodeLastParameter(Params[2].t, script.abstract)

MCInit == Init /\ script \in Scripts
MCNext ==
  /\ UNCHANGED script
  /\ Prepare \/ Encode1 \/ Encode2 \/ Transmit \/ Receive \/ Decode1 \/ Decode2
Spec == MCInit /\ [][MCNext]_<<vars, script>>

-----------------------------------------------------------------------------
(* Properties. *)

\* Some part of an element, itself included, satisfies P.
RECURSIVE Some(_, _)
Some(P(_), e) == P(e) \/ \E i \in DOMAIN e.v : Some(P, e.v[i])

\* An instant that the sender refuses, and one of no 16-bit day that it does not:
\* before the epoch, or wrapped.
TooLate(e) == e.t \in {"Time", "FineTime"} /\ Timestamp(e.n) > LastInstant
Unrefused(e) == /\ e.t \in {"Time", "FineTime"} /\ e.n \notin 0 .. LastInstant
                /\ ~TooLate(e)

Invalid(e) == e.t \in {"InteractionType", "SessionType", "QoSLevel", "UpdateType"}
              /\ e.n \notin 1 .. Types[e.t].size

\* What the receiver of an element reads: Time keeps only milliseconds.
RECURSIVE Rounded(_)
Rounded(e) ==
  CASE e.t = "Time" -> [e EXCEPT !.n = e.n - (e.n % PerMilli)]
    [] e.t = "ExpressionOperator" -> [e EXCEPT !.n = IF e.n \in 1 .. 8 THEN e.n ELSE 1]
    [] OTHER -> [e EXCEPT !.v = [i \in DOMAIN e.v |-> Rounded(e.v[i])]]

\* The lists that ignore the errors of their items.
Lossy(e) == e.t \in DOMAIN Types /\ Types[e.t].drops
            /\ \E i \in DOMAIN e.v : Some(TooLate, e.v[i]) \/ Some(Invalid, e.v[i])
OldPair(e) == e.t \in {"NamedValue", "IdBooleanPair"}

\* What the code is known to misread; the runs of the findings show each.
Misread(e) == Some(Lossy, e) \/ Some(OldPair, e) \/ Some(Unrefused, e)

\* Types: the buffer holds bytes, an offset never passes its end, nor the reader of
\* a bit field the bits that were written.
TypeOK ==
  /\ status \in {"ok", "error", "panic"} /\ moved \in BOOLEAN
  /\ body.factory \in Encodings /\ body.writable \in BOOLEAN
  /\ body.b.buf \in Seq(0 .. ByteSize - 1) /\ body.b.offset \in 0 .. Len(body.b.buf)
  /\ body.b.idx \in 0 .. Len(body.b.bits) /\ body.b.blen \in 0 .. Len(body.b.bits)
  /\ Len(sent) <= 2 /\ Len(results) <= 2

\* The receiver that reads the parameters in order, with the encoding that wrote
\* them, gets each of them back, whatever the encoding and the transport.
ReadBack ==
  ~Misread(script.e) =>
    \A i \in DOMAIN results : results[i].st = "ok" /\ results[i].v = Rounded(Params[i])

\* And nothing is left of the body afterwards.
NothingLeft == ~Misread(script.e) /\ Len(results) = 2 => Remaining(body.b) = <<>>

\* The error of an element that has no encoding is the sender's: the call that
\* encodes it says so, and no other does.
ErrorsExact ==
  ~moved /\ sent # <<>> /\ script.msg = Plainest =>
    LET e == sent[Len(sent)].e
    IN  (status = "error") <=> (Some(TooLate, e) \/ Some(Invalid, e)) /\ ~Some(Lossy, e)

\* The receiver sees the header that the sender gave, but for the nanoseconds and
\* for URIs that the receiver completes; one that has no encoding is not sent.
Known(msg) ==
  /\ msg.timestamp \in 0 .. LastInstant /\ msg.qos \in 1 .. 4 /\ msg.session \in 1 .. 3
  /\ <<msg.it, msg.stage>> \in ToSet(SDUs)

HeaderKept ==
  /\ moved /\ script.transport = "tcp" /\ Known(script.msg) =>
       header = [script.msg EXCEPT !.timestamp = @ - (@ % PerMilli),
                                   !.from = Completed(@, MALTCP \o Separator \o Peer),
                                   !.to = Completed(@, Own)]
  /\ moved /\ script.transport = "tcp" =>
       Timestamp(script.msg.timestamp) <= LastInstant /\ Enumerated(script.msg)

Splits(bytes) ==
  FirstMessage(bytes \o bytes) = bytes /\ NextMessages(bytes \o bytes) = bytes

\* Two messages one after the other on a connection are read as these two.
Framing ==
  moved /\ script.transport = "tcp" =>
    Splits(Framed(EncodeMessage([script.msg EXCEPT !.body = body.content]).buf))

Empty == NewBuffer(script.enc, <<>>)

\* An element list, encoded as an abstract element and by its own Encode, against
\* the other ways of encoding and decoding it.
WaysAgree(e, item, abstract, list) ==
  Ok(list) =>
    /\ e.v # <<>> => EncodeElementList(Empty, item, e.v) = abstract
    /\ EncodeList(Empty, e) = list
    /\ DecodeElementList(NewDecoder(script.enc, Body(abstract))).v = Rounded(e).v
    /\ DecodeList(NewDecoder(script.enc, Body(list)), item).v = Rounded(e)

\* The ways of encoding a list agree: as a slice of elements it is the abstract
\* list, and as an ElementList it is the list; and so do those of decoding one.
ListsAgree ==
  Types[script.e.t].kind = "list" /\ ~Misread(script.e) /\ sent = <<>> =>
    WaysAgree(script.e, Types[script.e.t].item, EncodeAbstract(Empty, script.e),
              EncodeElement(Empty, script.e))

\* "Decodes an instance of this element type using the supplied decoder"
\* (mal/namedvalue.go:100): for the two pairs too.
PairsReadBack ==
  ~Some(Lossy, script.e) /\ ~Some(Unrefused, script.e) =>
    \A i \in DOMAIN results : results[i].st = "ok" /\ results[i].v = Rounded(Params[i])
=============================================================================
