----------------------------- MODULE DataTypes -----------------------------
(***************************************************************************)
(* The MAL and COM data types as the encoders see them: their short forms  *)
(* and the calls that their Encode and Decode methods make, in order.      *)
(*                                                                         *)
(* A field of a composite is a pair of the method that encodes or decodes  *)
(* it and its type: "plain" (EncodeElement, or the method of the           *)
(* attribute), "nullable" (a presence flag first), "attribute" or          *)
(* "nullableAttribute" (any MAL attribute, with its type), "unchecked" (a  *)
(* nullable one whose error is looked at after the result is used).        *)
(***************************************************************************)
EXTENDS Integers, Sequences

CONSTANT TypePart   \* the numbers of the type in a short form: 2^24 in the code

\* Area, service, version (always 1) and type of a short form. The code has 16,
\* 16, 8 and 24 bits for them; here the service has two and the version one.
ShortForm(area, service, type) == ((area * 4 + service) * 2 + 1) * TypePart + (type % TypePart)

\* The services of the COM area.
Event == 1
Archive == 2
ActivityTracking == 3

Type(kind, sf) ==
  [kind |-> kind, sf |-> sf, enc |-> <<>>, dec |-> <<>>, item |-> "", drops |-> FALSE, size |-> 0,
   strict |-> TRUE]

MAL(type) == ShortForm(1, 0, type)
COM(service, type) == ShortForm(2, service, type)

Attribute(type) == Type("attribute", MAL(type))

\* An enumeration of the numeric values 1 .. size, encoded as an octet one less.
Enumeration(sf, size) == [Type("enumeration", sf) EXCEPT !.size = size]

Composite(sf, fields) == [Type("composite", sf) EXCEPT !.enc = fields, !.dec = fields]

\* The list's type number is the opposite of its items'. The lists of the
\* enumerations and of the COM types ignore the errors of their items.
ListForm(sf) == (sf \div TypePart) * TypePart + ((-sf) % TypePart)
ListOf(item, type) == [Type("list", ListForm(type.sf)) EXCEPT !.item = item]
LaxListOf(item, type) == [ListOf(item, type) EXCEPT !.drops = TRUE]

Plain(t) == <<"plain", t>>
Nullable(t) == <<"nullable", t>>
AnyAttribute == <<"attribute", "">>
NullableAttribute == <<"nullableAttribute", "">>

-----------------------------------------------------------------------------
(* The attributes and their lists. *)

Blob == Attribute(1)
Boolean == Attribute(2)
Duration == Attribute(3)
Float == Attribute(4)
Double == Attribute(5)
Identifier == Attribute(6)
Octet == Attribute(7)
UOctet == Attribute(8)
Short == Attribute(9)
UShort == Attribute(10)
Integer == Attribute(11)
UInteger == Attribute(12)
Long == Attribute(13)
ULong == Attribute(14)
String == Attribute(15)
Time == Attribute(16)
FineTime == Attribute(17)
URI == Attribute(18)

BlobList == ListOf("Blob", Blob)
BooleanList == ListOf("Boolean", Boolean)
DurationList == ListOf("Duration", Duration)
FloatList == ListOf("Float", Float)
DoubleList == ListOf("Double", Double)
IdentifierList == ListOf("Identifier", Identifier)
OctetList == ListOf("Octet", Octet)
UOctetList == ListOf("UOctet", UOctet)
ShortList == ListOf("Short", Short)
UShortList == ListOf("UShort", UShort)
IntegerList == ListOf("Integer", Integer)
UIntegerList == ListOf("UInteger", UInteger)
LongList == ListOf("Long", Long)
ULongList == ListOf("ULong", ULong)
StringList == ListOf("String", String)
TimeList == ListOf("Time", Time)
FineTimeList == ListOf("FineTime", FineTime)
URIList == ListOf("URI", URI)

-----------------------------------------------------------------------------
(* The enumerations of the MAL. *)

InteractionType == Enumeration(MAL(19), 6)
SessionType == Enumeration(MAL(20), 3)
QoSLevel == Enumeration(MAL(21), 4)
UpdateType == Enumeration(MAL(22), 4)

InteractionTypeList == LaxListOf("InteractionType", InteractionType)
SessionTypeList == LaxListOf("SessionType", SessionType)
QoSLevelList == LaxListOf("QoSLevel", QoSLevel)
UpdateTypeList == LaxListOf("UpdateType", UpdateType)

-----------------------------------------------------------------------------
(* The composites of the MAL. *)

Subscription == Composite(MAL(23), <<Plain("Identifier"), Plain("EntityRequestList")>>)

EntityRequest ==
  Composite(MAL(24), <<Nullable("IdentifierList"), Plain("Boolean"), Plain("Boolean"),
                       Plain("Boolean"), Plain("Boolean"), Plain("EntityKeyList")>>)

EntityKey ==
  Composite(MAL(25), <<Nullable("Identifier"), Nullable("Long"), Nullable("Long"), Nullable("Long")>>)

UpdateHeader ==
  Composite(MAL(26), <<Plain("Time"), Plain("URI"), Plain("UpdateType"), Plain("EntityKey")>>)

\* Decode takes no presence flag for the value that Encode gives one.
IdBooleanPair ==
  [Composite(MAL(27), <<Nullable("Identifier"), Nullable("Boolean")>>) EXCEPT
     !.dec = <<Nullable("Identifier"), Plain("Boolean")>>]

Pair == Composite(MAL(28), <<NullableAttribute, NullableAttribute>>)

\* As for IdBooleanPair.
NamedValue ==
  [Composite(MAL(29), <<Nullable("Identifier"), NullableAttribute>>) EXCEPT
     !.dec = <<Nullable("Identifier"), AnyAttribute>>]

\* DecodeFile uses the metadata before it looks at the error.
File ==
  LET first == <<Plain("Identifier"), Nullable("String"), Nullable("Time"), Nullable("Time"),
                 Nullable("ULong"), Nullable("Blob")>>
  IN  [Composite(MAL(30), first \o <<Nullable("NamedValueList")>>) EXCEPT
         !.dec = first \o << <<"unchecked", "NamedValueList">> >>]

SubscriptionList == ListOf("Subscription", Subscription)
EntityRequestList == ListOf("EntityRequest", EntityRequest)
EntityKeyList == ListOf("EntityKey", EntityKey)
UpdateHeaderList == ListOf("UpdateHeader", UpdateHeader)
IdBooleanPairList == ListOf("IdBooleanPair", IdBooleanPair)
PairList == ListOf("Pair", Pair)
NamedValueList == ListOf("NamedValue", NamedValue)
FileList == ListOf("File", File)

-----------------------------------------------------------------------------
(* The types of the COM area and of its services. *)

ObjectType == Composite(COM(0, 1), <<Plain("UShort"), Plain("UShort"), Plain("UOctet"), Plain("UShort")>>)
ObjectKey == Composite(COM(0, 2), <<Plain("IdentifierList"), Plain("Long")>>)
ObjectId == Composite(COM(0, 3), <<Plain("ObjectType"), Plain("ObjectKey")>>)
ObjectDetails == Composite(COM(0, 4), <<Nullable("Long"), Nullable("ObjectId")>>)
InstanceBooleanPair == Composite(COM(0, 5), <<Plain("Long"), Plain("Boolean")>>)

ArchiveDetails ==
  Composite(COM(Archive, 1), <<Plain("Long"), Plain("ObjectDetails"), Nullable("Identifier"),
                               Nullable("FineTime"), Nullable("URI")>>)
ArchiveQuery ==
  Composite(COM(Archive, 2), <<Nullable("IdentifierList"), Nullable("Identifier"), Nullable("URI"),
                               Plain("Long"), Nullable("ObjectId"), Nullable("FineTime"),
                               Nullable("FineTime"), Nullable("Boolean"), Nullable("String")>>)
CompositeFilter ==
  Composite(COM(Archive, 3), <<Plain("String"), Plain("ExpressionOperator"), NullableAttribute>>)
CompositeFilterSet == Composite(COM(Archive, 4), <<Plain("CompositeFilterList")>>)

\* A value that is none of the enumeration is encoded as the first one.
ExpressionOperator == [Enumeration(COM(Archive, 5), 8) EXCEPT !.strict = FALSE]

ActivityTransfer ==
  Composite(COM(ActivityTracking, 1), <<Plain("Boolean"), Nullable("Duration"), Nullable("URI")>>)
ActivityAcceptance == Composite(COM(ActivityTracking, 2), <<Plain("Boolean")>>)
ActivityExecution ==
  Composite(COM(ActivityTracking, 3), <<Plain("Boolean"), Plain("UInteger"), Plain("UInteger")>>)
OperationActivity == Composite(COM(ActivityTracking, 4), <<Plain("InteractionType")>>)

ObjectTypeList == LaxListOf("ObjectType", ObjectType)
ObjectKeyList == LaxListOf("ObjectKey", ObjectKey)
ObjectIdList == LaxListOf("ObjectId", ObjectId)
ObjectDetailsList == LaxListOf("ObjectDetails", ObjectDetails)
InstanceBooleanPairList == LaxListOf("InstanceBooleanPair", InstanceBooleanPair)
ArchiveDetailsList == LaxListOf("ArchiveDetails", ArchiveDetails)
ArchiveQueryList == LaxListOf("ArchiveQuery", ArchiveQuery)
CompositeFilterList == LaxListOf("CompositeFilter", CompositeFilter)
CompositeFilterSetList == LaxListOf("CompositeFilterSet", CompositeFilterSet)
ExpressionOperatorList == LaxListOf("ExpressionOperator", ExpressionOperator)
ActivityTransferList == LaxListOf("ActivityTransfer", ActivityTransfer)
ActivityAcceptanceList == LaxListOf("ActivityAcceptance", ActivityAcceptance)
ActivityExecutionList == LaxListOf("ActivityExecution", ActivityExecution)
OperationActivityList == LaxListOf("OperationActivity", OperationActivity)

-----------------------------------------------------------------------------
(* The registry of types (mal/element.go), by name. *)

Types ==
  [Blob |-> Blob, BlobList |-> BlobList, Boolean |-> Boolean, BooleanList |-> BooleanList,
   Duration |-> Duration, DurationList |-> DurationList, Float |-> Float, FloatList |-> FloatList,
   Double |-> Double, DoubleList |-> DoubleList, Identifier |-> Identifier,
   IdentifierList |-> IdentifierList, Octet |-> Octet, OctetList |-> OctetList, UOctet |-> UOctet,
   UOctetList |-> UOctetList, Short |-> Short, ShortList |-> ShortList, UShort |-> UShort,
   UShortList |-> UShortList, Integer |-> Integer, IntegerList |-> IntegerList,
   UInteger |-> UInteger, UIntegerList |-> UIntegerList, Long |-> Long, LongList |-> LongList,
   ULong |-> ULong, ULongList |-> ULongList, String |-> String, StringList |-> StringList,
   Time |-> Time, TimeList |-> TimeList, FineTime |-> FineTime, FineTimeList |-> FineTimeList,
   URI |-> URI, URIList |-> URIList, InteractionType |-> InteractionType,
   InteractionTypeList |-> InteractionTypeList, SessionType |-> SessionType,
   SessionTypeList |-> SessionTypeList, QoSLevel |-> QoSLevel, QoSLevelList |-> QoSLevelList,
   UpdateType |-> UpdateType, UpdateTypeList |-> UpdateTypeList, Subscription |-> Subscription,
   SubscriptionList |-> SubscriptionList, EntityRequest |-> EntityRequest,
   EntityRequestList |-> EntityRequestList, EntityKey |-> EntityKey,
   EntityKeyList |-> EntityKeyList, UpdateHeader |-> UpdateHeader,
   UpdateHeaderList |-> UpdateHeaderList, IdBooleanPair |-> IdBooleanPair,
   IdBooleanPairList |-> IdBooleanPairList, Pair |-> Pair, PairList |-> PairList,
   NamedValue |-> NamedValue, NamedValueList |-> NamedValueList, File |-> File,
   FileList |-> FileList, ObjectType |-> ObjectType, ObjectTypeList |-> ObjectTypeList,
   ObjectKey |-> ObjectKey, ObjectKeyList |-> ObjectKeyList, ObjectId |-> ObjectId,
   ObjectIdList |-> ObjectIdList, ObjectDetails |-> ObjectDetails,
   ObjectDetailsList |-> ObjectDetailsList, InstanceBooleanPair |-> InstanceBooleanPair,
   InstanceBooleanPairList |-> InstanceBooleanPairList, ArchiveDetails |-> ArchiveDetails,
   ArchiveDetailsList |-> ArchiveDetailsList, ArchiveQuery |-> ArchiveQuery,
   ArchiveQueryList |-> ArchiveQueryList, CompositeFilter |-> CompositeFilter,
   CompositeFilterList |-> CompositeFilterList, CompositeFilterSet |-> CompositeFilterSet,
   CompositeFilterSetList |-> CompositeFilterSetList, ExpressionOperator |-> ExpressionOperator,
   ExpressionOperatorList |-> ExpressionOperatorList, ActivityTransfer |-> ActivityTransfer,
   ActivityTransferList |-> ActivityTransferList, ActivityAcceptance |-> ActivityAcceptance,
   ActivityAcceptanceList |-> ActivityAcceptanceList, ActivityExecution |-> ActivityExecution,
   ActivityExecutionList |-> ActivityExecutionList, OperationActivity |-> OperationActivity,
   OperationActivityList |-> OperationActivityList]

\* LookupMALElement: the types registered with a short form.
Registered(sf) == {t \in DOMAIN Types : Types[t].sf = sf}

\* DecodeAttribute's switch: the attribute of a type number.
AttributeOf(number) ==
  {t \in DOMAIN Types : Types[t].kind = "attribute" /\ Types[t].sf = MAL(number)}
=============================================================================
