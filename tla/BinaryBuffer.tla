---------------------------- MODULE BinaryBuffer ----------------------------
(***************************************************************************)
(* The buffer that messages are encoded to and decoded from                *)
(* (encoding/binary/buffer.go), with the separate bit field of the split   *)
(* binary encoding (encoding/splitbinary/buffer.go).                       *)
(*                                                                         *)
(* A buffer is a record: "enc" is the encoding ("fixed", "varint" or       *)
(* "split"), "buf" and "offset" are Buf and Offset, "bits" and "blen" the  *)
(* flags of Bitfield and Bitfield_len, and "idx" is Bitfield_idx.  "st"    *)
(* tells how the call ends: "ok", "error" (the caller returns the error at *)
(* once, so nothing more happens to the buffer) or "panic".                *)
(*                                                                         *)
(* The widths are parameters, 8 bits to a byte and 2, 4 and 8 bytes in the *)
(* code: TLC's own integers have only 32 bits.                             *)
(***************************************************************************)
EXTENDS Integers, Sequences, FiniteSetsExt, SequencesExt

CONSTANTS Bits,          \* bits of a byte
          ShortBytes,    \* bytes of a 16-bit number
          IntegerBytes,  \* bytes of a 32-bit number
          LongBytes      \* bytes of a 64-bit number

ASSUME WidthAssumption ==
  /\ Bits \in Nat \ {0, 1}
  /\ ShortBytes \in Nat \ {0} /\ IntegerBytes \in Nat \ {0} /\ LongBytes \in Nat \ {0}
  /\ ShortBytes <= IntegerBytes /\ IntegerBytes <= LongBytes

Encodings == {"fixed", "varint", "split"}

\* The powers of 2, and the number of values of k bytes.
Power[i \in Nat] == IF i = 0 THEN 1 ELSE 2 * Power[i - 1]

ByteSize == Power[Bits]
Size[k \in Nat] == IF k = 0 THEN 1 ELSE ByteSize * Size[k - 1]

\* The continuation bit of a varint byte is its highest one.
Group == ByteSize \div 2

NewBuffer(enc, bytes) ==
  [enc |-> enc, buf |-> bytes, offset |-> 0, bits |-> <<>>, idx |-> 0, blen |-> 0, st |-> "ok"]

Ok(b) == b.st = "ok"
Fail(b, how) == IF Ok(b) THEN [b EXCEPT !.st = how] ELSE b

BigEndian(n, k) == [i \in 1 .. k |-> (n \div Size[k - i]) % ByteSize]
Number(bytes) ==
  LET value[i \in 0 .. Len(bytes)] == IF i = 0 THEN 0 ELSE value[i - 1] * ByteSize + bytes[i]
  IN  value[Len(bytes)]

\* WriteUVarInt: the low bits first, seven to a byte.
UVarInt[n \in Nat] == IF n < Group THEN <<n>> ELSE <<Group + (n % Group)>> \o UVarInt[n \div Group]

-----------------------------------------------------------------------------
(* Writing. *)

WriteBytes(b, bytes) == IF Ok(b) THEN [b EXCEPT !.buf = @ \o bytes] ELSE b

\* Write, Write16, Write32 and Write64.
WriteFixed(b, n, k) == WriteBytes(b, BigEndian(n, k))
WriteUVarInt(b, n) == WriteBytes(b, UVarInt[n])

LongField(b, value) ==   \* mutant: the field is a bit too long
  CASE ~Ok(b) -> b
    [] Ok(b) /\ b.enc = "split" -> [b EXCEPT !.bits = Append(@, value), !.idx = @ + 1,
                                             !.blen = IF value THEN b.idx + 2 ELSE @]
    [] OTHER -> WriteFixed(b, IF value THEN 1 ELSE 0, 1)

\* The split encoding sets a bit of the field, and only a true flag makes the
\* field longer.
WriteFlag(b, value) ==
  CASE ~Ok(b) -> b
    [] Ok(b) /\ b.enc = "split" -> [b EXCEPT !.bits = Append(@, value), !.idx = @ + 1,
                                             !.blen = IF value THEN b.idx + 1 ELSE @]
    [] OTHER -> WriteFixed(b, IF value THEN 1 ELSE 0, 1)

\* The bytes of the bit field, the first flag in the lowest bit.
Packed(b) ==
  LET bit(i) == IF i <= Len(b.bits) /\ b.bits[i] THEN 1 ELSE 0
      byte(k) == LET low[j \in 0 .. Bits] ==
                       IF j = 0 THEN 0 ELSE low[j - 1] + bit((k - 1) * Bits + j) * Power[j - 1]
                 IN  low[Bits]
  IN  [k \in 1 .. (IF b.blen = 0 THEN 0 ELSE (b.blen - 1) \div Bits + 1) |-> byte(k)]

\* All the bytes encoded: with the split encoding the field and its size first.
Body(b) == IF b.enc = "split" THEN UVarInt[Len(Packed(b))] \o Packed(b) \o b.buf ELSE b.buf

-----------------------------------------------------------------------------
(* Reading: a pair of the buffer afterwards and the value. *)

Result(b, v) == [b |-> b, v |-> v]

\* A read beyond the buffer is an index out of range.
ReadBytes(b, k) ==
  CASE ~Ok(b) -> Result(b, <<>>)
    [] Ok(b) /\ b.offset + k > Len(b.buf) -> Result(Fail(b, "panic"), <<>>)
    [] OTHER -> Result([b EXCEPT !.offset = @ + k], SubSeq(b.buf, b.offset + 1, b.offset + k))

\* As many bytes as a size that was read before them.
ReadCounted(size) == ReadBytes(size.b, size.v)

Numbered(r) == Result(r.b, Number(r.v))
ReadFixed(b, k) == Numbered(ReadBytes(b, k))

\* What is shifted beyond the 64 bits is lost.
FromGroups(r) ==
  LET high(n) == n % (Size[LongBytes] \div Group)
      groups == Len(r.v)
      value[i \in 0 .. groups] ==
        IF i = 0 THEN 0 ELSE high(value[i - 1]) * Group + (r.v[groups + 1 - i] % Group)
  IN  Result(r.b, value[groups])

ReadUVarInt(b) ==
  LET ends == {i \in 1 .. Len(b.buf) - b.offset : b.buf[b.offset + i] < Group}
  IN  FromGroups(ReadBytes(b, IF ends = {} THEN Len(b.buf) + 1 ELSE Min(ends)))

\* A flag of its own byte is 0 or 1.
Flag(r) == Result(IF r.v \in {0, 1} THEN r.b ELSE Fail(r.b, "error"), r.v = 1)

\* The split encoding reads false after the end of the bit field.
ReadFlag(b) ==
  CASE b.enc # "split" -> Flag(ReadFixed(b, 1))
    [] b.enc = "split" /\ (~Ok(b) \/ b.idx >= b.blen) -> Result(b, FALSE)
    [] OTHER -> Result([b EXCEPT !.idx = @ + 1], b.bits[b.idx + 1])

WithBits(field) ==
  LET bit(i) == (field.v[(i - 1) \div Bits + 1] \div Power[(i - 1) % Bits]) % 2 = 1
  IN  [field.b EXCEPT !.blen = Len(field.v) * Bits,
                      !.bits = [i \in 1 .. Len(field.v) * Bits |-> bit(i)]]

\* A decoder over bytes: the split one takes the bit field first.
NewDecoder(enc, bytes) ==
  IF enc = "split" THEN WithBits(ReadCounted(ReadUVarInt(NewBuffer(enc, bytes))))
  ELSE NewBuffer(enc, bytes)

Remaining(b) == SubSeq(b.buf, b.offset + 1, Len(b.buf))
=============================================================================
