------------------------------ MODULE TcpCodec ------------------------------
(***************************************************************************)
(* The messages of the TCP transport as bytes (transport/tcp/encoder.go,   *)
(* decoder.go, helper.go); TcpFraming puts them on a connection.           *)
(*                                                                         *)
(* The transport sends every optional field of the header, and URIs whole, *)
(* which is how tcp.go sets its flags.                                     *)
(***************************************************************************)
EXTENDS Elements, TcpFraming

CONSTANTS MALTCP,      \* "maltcp", the scheme of the transport's URIs
          Separator,   \* "://"
          Slash,       \* "/"
          Version      \* the version of the protocol

Interactions == <<"SEND", "SUBMIT", "REQUEST", "INVOKE", "PROGRESS", "PUBSUB">>

\* The kinds of messages in the order of their SDU types.
Stages == [SEND |-> 1, SUBMIT |-> 2, REQUEST |-> 2, INVOKE |-> 3, PROGRESS |-> 4]

PubSubStages == 10

SDUs ==
  LET of(it) == [i \in 1 .. IF it = "PUBSUB" THEN PubSubStages ELSE Stages[it] |-> <<it, i>>]
  IN  FlattenSeq([i \in 1 .. Len(Interactions) |-> of(Interactions[i])])

\* encodeSDU: a stage it does not know is taken for the last one, but for PUBSUB.
SDUOf(it, stage) == {i \in DOMAIN SDUs : SDUs[i] = <<it, stage>>}
LastSDU(it) == CHOOSE i \in DOMAIN SDUs : SDUs[i] = <<it, Stages[it]>>

EncodeSDU(it, stage) ==
  CASE SDUOf(it, stage) # {} -> CHOOSE i \in SDUOf(it, stage) : TRUE
    [] SDUOf(it, stage) = {} /\ it \in DOMAIN Stages -> LastSDU(it)
    [] OTHER -> 0

AllFlags == ByteSize - 1

QosFromOne(msg) ==   \* mutant: the ordinal is not one less
  (IF msg.isError THEN Group ELSE 0) + (msg.qos % 4) * 16 + (msg.session - 1)

\* The error bit, the quality of service and the session.
FlagsByte(msg) == (IF msg.isError THEN Group ELSE 0) + (msg.qos - 1) * 16 + (msg.session - 1)

Enumerated(msg) == msg.qos \in 1 .. QoSLevel.size /\ msg.session \in 1 .. SessionType.size

FixedPart(msg) ==
  LET b == WriteFixed(NewBuffer("fixed", <<>>), EncodeSDU(msg.it, msg.stage) - 1 + Version * 32, 1)
      area == EncodeNumber(b, "UShort", msg.area)
      service == EncodeNumber(area, "UShort", msg.service)
      operation == EncodeNumber(service, "UShort", msg.operation)
      flags == WriteFixed(EncodeNumber(operation, "UOctet", msg.version), FlagsByte(msg), 1)
      tid == EncodeNumber(flags, "ULong", msg.tid)
  IN  WriteFixed(EncodeNumber(WriteFixed(tid, AllFlags, 1), "UOctet", msg.encodingId), 0, IntegerBytes)

VariablePart(fixed, msg) ==
  LET uris == EncodeText(EncodeText([fixed EXCEPT !.enc = "varint"], msg.from), msg.to)
      times == EncodeTime(EncodeNumber(uris, "UInteger", msg.priority), "Time", msg.timestamp)
      names == EncodeText(EncodeText(times, msg.zone), msg.sessionName)
  IN  EncodeText(EncodeElement(names, msg.domain), msg.auth)

\* encode: the header and the body; an enumeration or an instant that has no
\* encoding is an error.
EncodeMessage(msg) ==
  LET b == VariablePart(FixedPart(msg), msg)
  IN  IF EncodeSDU(msg.it, msg.stage) = 0 \/ ~Enumerated(msg) THEN Fail(NewBuffer("fixed", <<>>), "error")
      ELSE WriteBytes(b, msg.body)

-----------------------------------------------------------------------------
(* decode, over a whole message. *)

HasPrefix(bytes) == IsPrefix(MALTCP, bytes)

\* A URI that is only the name of a service is completed with a host.
Completed(uri, host) == IF HasPrefix(uri) THEN uri ELSE host \o Slash \o uri

\* The fields of the header in their order, the variable part always as varints.
InEncoding(enc, types) == [i \in DOMAIN types |-> [enc |-> enc, t |-> types[i]]]

\* SDU type and version, area, service, operation, area version, flags,
\* transaction, presence flags, encoding and length.
FixedFields ==
  InEncoding("fixed", <<"UOctet", "UShort", "UShort", "UShort", "UOctet", "UOctet", "ULong",
                        "UOctet", "UOctet", "UInteger">>)

\* From, to, priority, timestamp, zone, session name, domain and authentication.
VariableFields ==
  InEncoding("varint", <<"URI", "URI", "UInteger", "Time", "Identifier", "Identifier",
                         "IdentifierList", "Blob">>)

\* The numbers of the fixed part, once it is read, must name something.
QoSOf(flags) == (flags \div 16) % (Group \div 16)
Named(v) == /\ v[1].n \div 32 = Version /\ v[1].n % 32 < Len(SDUs)
            /\ QoSOf(v[6].n) < QoSLevel.size /\ v[6].n % 16 < SessionType.size
Checked(r) == IF Len(r.v) # Len(FixedFields) \/ Named(r.v) THEN r
              ELSE Result(Fail(r.b, "error"), r.v)

DecodeHeaderField(acc, field) ==
  Checked(Extend(acc, DecodeElement([acc.b EXCEPT !.enc = field.enc], field.t)))

\* "from" is the peer's address and "uri" the transport's own.
MessageOf(v, body, from, uri) ==
  LET kind == SDUs[(v[1].n % 32) + 1]
  IN  [it |-> kind[1], stage |-> kind[2], area |-> v[2].n, service |-> v[3].n,
       operation |-> v[4].n, version |-> v[5].n, isError |-> v[6].n >= Group,
       qos |-> QoSOf(v[6].n) + 1, session |-> (v[6].n % 16) + 1, tid |-> v[7].n,
       encodingId |-> v[9].n, from |-> Completed(v[11].s, MALTCP \o Separator \o from),
       to |-> Completed(v[12].s, uri), priority |-> v[13].n, timestamp |-> v[14].n,
       zone |-> v[15].s, sessionName |-> v[16].s, domain |-> v[17], auth |-> v[18].s, body |-> body]

WholeMessage(r, from, uri) ==
  Result(r.b, IF Ok(r.b) THEN MessageOf(r.v, Remaining(r.b), from, uri) ELSE <<>>)

DecodeMessage(bytes, from, uri) ==
  WholeMessage(FoldLeft(DecodeHeaderField, Result(NewBuffer("fixed", bytes), <<>>),
                        FixedFields \o VariableFields), from, uri)
=============================================================================
