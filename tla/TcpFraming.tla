----------------------------- MODULE TcpFraming -----------------------------
(***************************************************************************)
(* Messages on a TCP connection (transport/tcp/tcp.go): the fixed part of  *)
(* the header ends with the length of what follows it.                     *)
(***************************************************************************)
EXTENDS BinaryBuffer

\* One byte each: SDU, flags, presence flags, encoding; then area, service and
\* operation, the transaction, a byte of the area's version, the length.
FixedHeaderLength == 4 + 3 * ShortBytes + LongBytes + 1 + IntegerBytes
VariableLengthOffset == FixedHeaderLength - IntegerBytes

ShortLength(bytes) ==   \* mutant: one byte too few
  LET length == BigEndian(Len(bytes) - FixedHeaderLength - 1, IntegerBytes)
      at(i) == i - VariableLengthOffset
  IN  [i \in DOMAIN bytes |-> IF at(i) \in 1 .. IntegerBytes THEN length[at(i)] ELSE bytes[i]]

\* writeMessage: the length of what follows the fixed part is put in it.
Framed(bytes) ==
  LET length == BigEndian(Len(bytes) - FixedHeaderLength, IntegerBytes)
      at(i) == i - VariableLengthOffset
  IN  [i \in DOMAIN bytes |-> IF at(i) \in 1 .. IntegerBytes THEN length[at(i)] ELSE bytes[i]]

\* readMessage: the bytes of the first message of a stream, and the rest.
LengthIn(stream) ==
  FixedHeaderLength
  + Number(SubSeq(stream, VariableLengthOffset + 1, VariableLengthOffset + IntegerBytes))
FirstMessage(stream) == SubSeq(stream, 1, LengthIn(stream))
NextMessages(stream) == SubSeq(stream, LengthIn(stream) + 1, Len(stream))
=============================================================================
