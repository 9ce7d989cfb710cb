---------------------------- MODULE MessageBody ----------------------------
(***************************************************************************)
(* A message from the application that writes its body to the one that     *)
(* reads it (TCPBody and InVMBody, the two Transmit methods, encode and    *)
(* decode).  "body" is the body that the application holds: the sender's,  *)
(* and once "moved" the receiver's.                                        *)
(***************************************************************************)
EXTENDS TcpCodec

VARIABLES body,     \* factory, content and the encoder or decoder over it
          moved,    \* the message is with the receiver
          status,   \* how the last call ended
          sent,     \* the parameters that EncodeParameter was called with
          results,  \* what DecodeParameter returned
          header    \* the header as received

vars == <<body, moved, status, sent, results, header>>

NoHeader == [to |-> <<>>]

\* Reset: a new encoder or decoder over the content, with the current factory.
BodyReset(x, writable) ==
  [x EXCEPT !.writable = writable,
            !.b = IF writable THEN NewBuffer(x.factory, x.content) ELSE NewDecoder(x.factory, x.content)]

\* NewTCPBody and NewInVMBody.
NewBody(content, writable) ==
  BodyReset([factory |-> "fixed", content |-> content, writable |-> writable,
             b |-> NewBuffer("fixed", <<>>)], writable)

Init ==
  /\ body = NewBody(<<>>, TRUE) /\ moved = FALSE /\ status = "ok"
  /\ sent = <<>> /\ results = <<>> /\ header = NoHeader

\* A panic ends the program.
Alive == status # "panic"

SetEncodingFactory(f) ==
  /\ Alive
  /\ body' = [body EXCEPT !.factory = f]
  /\ UNCHANGED <<moved, status, sent, results, header>>

Reset(writable) ==
  /\ Alive
  /\ body' = BodyReset(body, writable) /\ status' = body'.b.st
  /\ sent' = IF writable THEN <<>> ELSE sent
  /\ UNCHANGED <<moved, results, header>>

\* What a call leaves in the buffer stays there; its error is returned.
Encoded(b) ==
  /\ status' = IF body.writable THEN b.st ELSE "panic"
  /\ body' = IF body.writable THEN [body EXCEPT !.b = [b EXCEPT !.st = "ok"]] ELSE body
  /\ UNCHANGED <<moved, results, header>>

Parameter(e, abstract) == [e |-> e, abstract |-> abstract, enc |-> body.b.enc]

EncodeParameter(e) ==
  /\ Alive /\ ~moved
  /\ Encoded(EncodeNullable(body.b, e)) /\ sent' = Append(sent, Parameter(e, FALSE))

EncodeLastParameter(e, abstract) ==
  /\ Alive /\ ~moved
  /\ Encoded(IF abstract THEN EncodeNullableAbstract(body.b, e) ELSE EncodeNullable(body.b, e))
  /\ sent' = Append(sent, Parameter(e, abstract))

\* InVM: the very body is made readable and handed to the other Context.
TransmitInVM ==
  /\ Alive /\ ~moved
  /\ IF ~body.writable THEN status' = "panic" /\ UNCHANGED <<body, moved>>
     ELSE /\ body' = BodyReset([body EXCEPT !.content = Body(body.b)], FALSE)
          /\ moved' = TRUE /\ status' = body'.b.st
  /\ UNCHANGED <<sent, results, header>>

Content == IF body.writable THEN Body(body.b) ELSE body.content

\* TCP: the message crosses the wire, and its body is one of the fixed encoding.
\* A message that cannot be encoded is not sent.
Crossed(b, from, uri) ==
  IF Ok(b) THEN DecodeMessage(FirstMessage(Framed(b.buf)), from, uri) ELSE Result(b, <<>>)

Delivered(r) ==
  /\ IF Ok(r.b)
     THEN /\ body' = NewBody(r.v.body, FALSE) /\ moved' = TRUE
          /\ header' = [r.v EXCEPT !.body = <<>>]
     ELSE UNCHANGED <<body, moved, header>>
  /\ status' = r.b.st /\ UNCHANGED <<sent, results>>

TransmitTcp(msg, from, uri) ==
  /\ Alive /\ ~moved
  /\ Delivered(Crossed(EncodeMessage([msg EXCEPT !.body = Content]), from, uri))

\* DecodeParameter and DecodeLastParameter, for an element of the type t.
Decoded(r) ==
  /\ Alive /\ moved /\ ~body.writable
  /\ body' = [body EXCEPT !.b = [r.b EXCEPT !.st = "ok"]]
  /\ status' = r.b.st /\ results' = Append(results, [st |-> r.b.st, v |-> r.v, enc |-> r.b.enc])
  /\ UNCHANGED <<moved, sent, header>>

DecodeParameter(t) == Decoded(DecodeNullable(body.b, t))
DecodeLastParameter(t, abstract) ==
  Decoded(IF abstract THEN DecodeNullableAbstract(body.b) ELSE DecodeNullable(body.b, t))
=============================================================================
