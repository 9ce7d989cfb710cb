------------------------------ MODULE Elements ------------------------------
(***************************************************************************)
(* The generic part of the encoders and the decoders (mal/encoder.go,      *)
(* mal/decoder.go): elements that may be null, abstract elements found by  *)
(* their short form, attributes of any type, and the composites and lists  *)
(* of DataTypes.                                                           *)
(*                                                                         *)
(* An element is a Value of BinaryEncoding.  A null pointer of a type is   *)
(* Null, and a nil interface, which has no type at all, is NilElement.     *)
(***************************************************************************)
EXTENDS BinaryEncoding, DataTypes

CONSTANT MaxItems   \* a list that says it is longer does not fit the memory

NilElement == Value("nil", 0, <<>>, <<>>)
Nulls == {Null, NilElement}

-----------------------------------------------------------------------------
(* Encoding. *)

\* Encode of an enumeration: GetOrdinalValue, then an octet.
EncodeEnumeration(b, type, n) ==
  CASE n \in 1 .. type.size -> EncodeNumber(b, "UOctet", n - 1)
    [] n \notin 1 .. type.size /\ type.strict -> Fail(b, "error")
    [] OTHER -> EncodeNumber(b, "UOctet", 0)

\* The error of an item is dropped: the loop goes on with the next one.
Drop(b) == IF b.st = "error" THEN [b EXCEPT !.st = "ok"] ELSE b

RECURSIVE EncodeElement(_, _)

\* EncodeNullable<Attribute> and EncodeNullableElement, which asks the element
\* for its null value first.
EncodeNullable(b, e) ==
  CASE e = NilElement -> Fail(b, "panic")
    [] e = Null -> WriteFlag(b, FALSE)
    [] OTHER -> EncodeElement(WriteFlag(b, TRUE), e)

EncodeAttribute(b, e) ==
  IF e \in Nulls THEN Fail(b, "panic")
  ELSE EncodeValue(WriteFixed(b, Types[e.t].sf % TypePart, 1), e)

EncodeNullableAttribute(b, e) ==
  IF e \in Nulls THEN WriteFlag(b, FALSE) ELSE EncodeAttribute(WriteFlag(b, TRUE), e)

EncodeField(b, field, e) ==
  CASE field[1] = "plain" -> EncodeElement(b, e)
    [] field[1] = "nullableAttribute" -> EncodeNullableAttribute(b, e)
    [] OTHER -> EncodeNullable(b, e)

AlwaysDrop(b, type, e) == Drop(EncodeNullable(b, e))   \* mutant: in every list

EncodeItem(b, type, e) == IF type.drops THEN Drop(EncodeNullable(b, e)) ELSE EncodeNullable(b, e)

\* The Encode method of the element.
EncodeElement(b, e) ==
  LET type == Types[e.t]
      size == EncodeNumber(b, "UInteger", Len(e.v))
      field(acc, i) == EncodeField(acc, type.enc[i], e.v[i])
  IN  CASE ~Ok(b) -> b
        [] Ok(b) /\ e \in Nulls -> Fail(b, "panic")
        [] OTHER ->
             CASE type.kind = "attribute" -> EncodeValue(b, e)
               [] type.kind = "enumeration" -> EncodeEnumeration(b, type, e.n)
               [] type.kind = "composite" -> FoldLeft(field, b, [i \in 1 .. Len(e.v) |-> i])
               [] type.kind = "list" -> FoldLeft(LAMBDA acc, x : EncodeItem(acc, type, x), size, e.v)

EncodeAbstract(b, e) ==
  IF e \in Nulls THEN Fail(b, "panic") ELSE EncodeElement(EncodeNumber(b, "Long", Types[e.t].sf), e)

EncodeNullableAbstract(b, e) ==
  CASE e = NilElement -> Fail(b, "panic")
    [] e = Null -> WriteFlag(b, FALSE)
    [] OTHER -> EncodeAbstract(WriteFlag(b, TRUE), e)

FormOfItem(b, item, items) ==   \* mutant: the short form of the item
  LET header == EncodeNumber(EncodeNumber(b, "Long", Types[item].sf), "UInteger", Len(items))
  IN  IF items = <<>> THEN Fail(b, "panic")
      ELSE FoldLeft(LAMBDA acc, x : Drop(EncodeNullable(acc, x)), header, items)

\* EncodeElementList of a slice, whose first item has the type "item": the short
\* form of the list and the items, whose errors are ignored.
EncodeElementList(b, item, items) ==
  LET header == EncodeNumber(EncodeNumber(b, "Long", ListForm(Types[item].sf)), "UInteger", Len(items))
  IN  IF items = <<>> THEN Fail(b, "panic")
      ELSE FoldLeft(LAMBDA acc, x : Drop(EncodeNullable(acc, x)), header, items)

-----------------------------------------------------------------------------
(* Decoding. *)

RECURSIVE DecodeElement(_, _)

Present(flag) == Ok(flag.b) /\ flag.v

\* IsNull, then the element.
NullableFrom(flag, t) == IF Present(flag) THEN DecodeElement(flag.b, t) ELSE Result(flag.b, Null)
DecodeNullable(b, t) == NullableFrom(ReadFlag(b), t)

\* A type number of no attribute is an error.
AttributeFrom(number) ==
  LET found == AttributeOf(number.v)
  IN  IF Ok(number.b) /\ found # {} THEN DecodeValue(number.b, CHOOSE t \in found : TRUE)
      ELSE Result(Fail(number.b, "error"), Null)
DecodeAttribute(b) == AttributeFrom(ReadFixed(b, 1))

NullableAttributeFrom(flag) ==
  IF Present(flag) THEN DecodeAttribute(flag.b) ELSE Result(flag.b, Null)
DecodeNullableAttribute(b) == NullableAttributeFrom(ReadFlag(b))

\* The type assertion on an element comes before the test of the error.
Asserted(b, r) == IF r.b.st = "error" THEN Result(Fail(b, "panic"), Null) ELSE r

DecodeField(b, field) ==
  CASE field[1] = "plain" -> DecodeElement(b, field[2])
    [] field[1] = "attribute" -> DecodeAttribute(b)
    [] field[1] = "nullableAttribute" -> DecodeNullableAttribute(b)
    [] field[1] = "nullable" -> DecodeNullable(b, field[2])
    [] field[1] = "unchecked" -> Asserted(b, DecodeNullable(b, field[2]))

EnumeratedBy(t, type, r) ==
  IF Ok(r.b) /\ r.v < type.size THEN Result(r.b, Value(t, r.v + 1, <<>>, <<>>))
  ELSE Result(Fail(r.b, "error"), Null)

\* The next one of some parts, unless one before it failed.
Extend(acc, r) == IF Ok(acc.b) THEN Result(r.b, Append(acc.v, r.v)) ELSE acc

\* The fields of a composite, one after the other.
DecodeMore(acc, field) == Extend(acc, DecodeField(acc.b, field))
DecodeFields(b, fields) == FoldLeft(DecodeMore, Result(b, <<>>), fields)

\* The list of a size, whose items are decoded while they can be.
DecodeItems(size, item) ==
  LET more(acc, i) == Extend(acc, DecodeNullable(acc.b, item))
  IN  IF size.v > MaxItems THEN Result(Fail(size.b, "panic"), <<>>)
      ELSE FoldLeft(more, Result(size.b, <<>>), [i \in 1 .. size.v |-> i])

Whole(t, r) == Result(r.b, IF Ok(r.b) THEN Value(t, 0, <<>>, r.v) ELSE Null)

\* The Decode method of the type.
DecodeAs(b, t, type) ==
  CASE type.kind = "attribute" -> DecodeValue(b, t)
    [] type.kind = "enumeration" -> EnumeratedBy(t, type, ReadFixed(b, 1))
    [] type.kind = "composite" -> Whole(t, DecodeFields(b, type.dec))
    [] type.kind = "list" -> Whole(t, DecodeItems(DecodeNumber(b, "UInteger"), type.item))
DecodeElement(b, t) == DecodeAs(b, t, Types[t])

\* An unknown short form gives a nil element, whose Decode is called.
AbstractFrom(sf, found) ==
  IF Ok(sf.b) /\ found # {} THEN DecodeElement(sf.b, CHOOSE t \in found : TRUE)
  ELSE Result(Fail(sf.b, "panic"), Null)
RegisteredFrom(sf) == AbstractFrom(sf, Registered(sf.v))
DecodeAbstract(b) == RegisteredFrom(DecodeNumber(b, "Long"))

NullableAbstractFrom(flag) ==
  IF Present(flag) THEN DecodeAbstract(flag.b) ELSE Result(flag.b, NilElement)
DecodeNullableAbstract(b) == NullableAbstractFrom(ReadFlag(b))

\* DecodeElementList: a slice of the items of a list of a registered type.
SliceOf(found, size) ==
  CASE ~Ok(size.b) \/ size.v = 0 -> Result(size.b, <<>>)
    [] Ok(size.b) /\ size.v > 0 /\ found = {} -> Result(Fail(size.b, "panic"), <<>>)
    [] OTHER -> DecodeItems(size, CHOOSE t \in found : TRUE)
SliceFrom(sf) == SliceOf(Registered(ListForm(sf.v)), DecodeNumber(sf.b, "UInteger"))
DecodeElementList(b) == SliceFrom(DecodeNumber(b, "Long"))

-----------------------------------------------------------------------------
(* The ElementList interface: EncodeList and DecodeList, of any list type. *)

EncodeList(b, list) ==
  FoldLeft(LAMBDA acc, x : Drop(EncodeNullable(acc, x)), EncodeNumber(b, "UInteger", Len(list.v)), list.v)

\* The list is of the type registered for lists of the items' type.
ListFrom(items, found) ==
  IF Ok(items.b) /\ found # {} THEN Whole(CHOOSE t \in found : TRUE, items)
  ELSE Result(Fail(items.b, "panic"), Null)
DecodeList(b, item) ==
  ListFrom(DecodeItems(DecodeNumber(b, "UInteger"), item), Registered(ListForm(Types[item].sf)))
=============================================================================
