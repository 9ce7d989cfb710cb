--------------------------- MODULE BinaryEncoding ---------------------------
(***************************************************************************)
(* How the encoders and the decoders of encoding/binary write and read the *)
(* MAL attributes; the split encoder and decoder are the varint ones over  *)
(* another buffer.                                                         *)
(*                                                                         *)
(* A number is a value of its type's range; the value of a Float, a Double *)
(* or a Duration is its bit pattern as a signed number.  Text (String,     *)
(* Identifier, URI, Blob) is a sequence of bytes.  An instant counts units *)
(* of which PerMilli make a millisecond, from the CCSDS epoch: the         *)
(* nanoseconds that Time drops and FineTime keeps.  It is any integer; the *)
(* code counts it in a signed number of LongBytes.                         *)
(***************************************************************************)
EXTENDS BinaryBuffer

CONSTANTS MillisInDay,  \* milliseconds of a day
          PerMilli      \* units of time of a millisecond

ASSUME TimeAssumption ==
  /\ MillisInDay \in Nat \ {0} /\ PerMilli \in Nat \ {0}
  /\ MillisInDay <= Size[IntegerBytes] /\ PerMilli <= Size[IntegerBytes]

\* A timestamp holds the instants of every day that is written.
ASSUME TimestampAssumption ==
  2 * (Size[ShortBytes] * (MillisInDay * PerMilli)) <= Size[LongBytes]

Widths == [Octet |-> 1, UOctet |-> 1, Short |-> ShortBytes, UShort |-> ShortBytes,
           Integer |-> IntegerBytes, UInteger |-> IntegerBytes, Float |-> IntegerBytes,
           Long |-> LongBytes, ULong |-> LongBytes, Double |-> LongBytes, Duration |-> LongBytes]

Texts == {"String", "Identifier", "URI", "Blob"}
ZigZags == {"Short", "Integer", "Long", "Float", "Double"}
Signeds == ZigZags \cup {"Octet", "Duration"}
Varints == ZigZags \cup {"UShort", "UInteger", "ULong"}

Varint(b) == b.enc # "fixed"

\* (value << 1) ^ (value >> (w - 1)), of w bits, for a modulus m of 2^w.
ZigZag(m, x) == LET shifted == (2 * x) % m IN IF x < 0 THEN m - 1 - shifted ELSE shifted

\* A number of the modulus m as a signed one.
Signed(m, n) == LET u == n % m IN IF 2 * u >= m THEN u - m ELSE u

\* (value >> 1), complemented when the lowest bit is set.
UnZigZag(m, u) ==
  LET half == Signed(m, u \div 2) IN IF u % 2 = 1 THEN -half - 1 ELSE half

HalfAccepted(t) == Size[Widths[t]] \div 2   \* mutant: as many as positive values

\* The values of a varint that the decoder accepts.
Accepted(t) ==
  CASE t \in {"Short", "Integer"} -> 2 * Size[Widths[t]]
    [] OTHER -> Size[Widths[t]]

\* Go's quotient and remainder, which round towards zero.
Quotient(a, d) == IF a >= 0 THEN a \div d ELSE -((-a) \div d)
Remainder(a, d) == a - d * Quotient(a, d)

-----------------------------------------------------------------------------
(* Writing. *)

WriteLength(b, n) == IF Varint(b) THEN WriteUVarInt(b, n) ELSE WriteFixed(b, n, IntegerBytes)

EncodeText(b, bytes) == WriteBytes(WriteLength(b, Len(bytes)), bytes)

EncodeNumber(b, t, n) ==
  CASE Varint(b) /\ t \in ZigZags -> WriteUVarInt(b, ZigZag(Size[Widths[t]], n))
    [] Varint(b) /\ t \in Varints \ ZigZags -> WriteUVarInt(b, n)
    [] OTHER -> WriteFixed(b, n, Widths[t])

Day == MillisInDay * PerMilli

\* UnixNano, and the offset of the epoch added to it, wrap.
Timestamp(n) == Signed(Size[LongBytes], n)

AlwaysFine(b, t, n) ==   \* mutant: Time is written as FineTime is
  LET days == Quotient(Timestamp(n), Day)
      rest == Remainder(Timestamp(n), Day)
      short == WriteFixed(WriteFixed(b, days, ShortBytes), Quotient(rest, PerMilli), IntegerBytes)
  IN  IF days >= Size[ShortBytes] THEN Fail(b, "error")
      ELSE WriteFixed(short, Remainder(rest, PerMilli), IntegerBytes)

\* The days are a 16-bit number; only too many of them are refused.
EncodeTime(b, t, n) ==
  LET timestamp == Timestamp(n)
      days == Quotient(timestamp, Day)
      millis == Quotient(Remainder(timestamp, Day), PerMilli)
      picos == Remainder(Remainder(timestamp, Day), PerMilli)
      short == WriteFixed(WriteFixed(b, days, ShortBytes), millis, IntegerBytes)
  IN  CASE days >= Size[ShortBytes] -> Fail(b, "error")
        [] days < Size[ShortBytes] /\ t = "Time" -> short
        [] OTHER -> WriteFixed(short, picos, IntegerBytes)

\* The methods Encode<Attribute>, by the type of the attribute.
EncodeValue(b, a) ==
  CASE a.t = "Boolean" -> WriteFlag(b, a.n = 1)
    [] a.t \in Texts -> EncodeText(b, a.s)
    [] a.t \in {"Time", "FineTime"} -> EncodeTime(b, a.t, a.n)
    [] OTHER -> EncodeNumber(b, a.t, a.n)

-----------------------------------------------------------------------------
(* Reading. *)

\* A value of a type: n its number, s its text and v its parts.
Value(t, n, s, v) == [t |-> t, n |-> n, s |-> s, v |-> v]
Null == Value("Null", 0, <<>>, <<>>)

\* A number beyond what its type holds is an error.
Limited(r, limit) == IF r.v < limit THEN r ELSE Result(Fail(r.b, "error"), 0)
DecodeVarint(b, limit) == Limited(ReadUVarInt(b), limit)

\* The bits that were read, as a number of the type.
Interpreted(t, r) ==
  LET m == Size[Widths[t]]
  IN  CASE Varint(r.b) /\ t \in ZigZags -> Result(r.b, UnZigZag(m, r.v))
        [] t \in Signeds /\ ~(Varint(r.b) /\ t \in ZigZags) -> Result(r.b, Signed(m, r.v))
        [] OTHER -> r

DecodeNumber(b, t) ==
  Interpreted(t, IF Varint(b) /\ t \in Varints THEN DecodeVarint(b, Accepted(t))
                 ELSE ReadFixed(b, Widths[t]))

DecodeLength(b) ==
  IF Varint(b) THEN DecodeVarint(b, Size[IntegerBytes]) ELSE ReadFixed(b, IntegerBytes)

DecodeText(b) == ReadCounted(DecodeLength(b))

\* A number of k bytes that counts units of time is added to the instant.
Plus(acc, unit, r) == Result(r.b, acc.v + unit * r.v)
AddUnits(acc, unit, k) == Plus(acc, unit, ReadFixed(acc.b, k))

DecodeTime(b, t) ==
  LET short == AddUnits(AddUnits(Result(b, 0), Day, ShortBytes), PerMilli, IntegerBytes)
  IN  IF t = "Time" THEN short ELSE AddUnits(short, 1, IntegerBytes)

\* The value that was read, or Null with the failure.
ValueOf(t, r) ==
  Result(r.b, CASE ~Ok(r.b) -> Null
                [] Ok(r.b) /\ t = "Boolean" -> Value(t, IF r.v THEN 1 ELSE 0, <<>>, <<>>)
                [] Ok(r.b) /\ t \in Texts -> Value(t, 0, r.v, <<>>)
                [] OTHER -> Value(t, r.v, <<>>, <<>>))

\* The methods Decode<Attribute>.
DecodeValue(b, t) ==
  ValueOf(t, CASE t = "Boolean" -> ReadFlag(b)
               [] t \in Texts -> DecodeText(b)
               [] t \in {"Time", "FineTime"} -> DecodeTime(b, t)
               [] OTHER -> DecodeNumber(b, t))
=============================================================================
