------------------------------ MODULE Encoding -------------------------------
(***************************************************************************)
(* How an Arrow column becomes a column of the PostgreSQL protocol: the    *)
(* type it is announced with (arrow-pg/src/datatypes.rs) and what its      *)
(* cells are written as (encoder.rs, list_encoder.rs, struct_encoder.rs).  *)
(*                                                                         *)
(* A field is [kind, alias, of]: the variant of DataType, the OID alias in *)
(* its metadata and its element, value or member fields.  A cell is        *)
(* [null, fits, items]: fits is FALSE for a value PostgreSQL cannot hold,  *)
(* such as a date beyond its calendar.                                     *)
(***************************************************************************)
EXTENDS Integers, Sequences, Functions

CONSTANT Nesting  \* how deep types nest

ASSUME NestingAssumption == Nesting \in Nat

NoAlias == "-"
Field(kind, of) == [kind |-> kind, alias |-> NoAlias, of |-> of]
Plain(kind) == Field(kind, <<>>)
AliasOf(alias) == [kind |-> "Int32", alias |-> alias, of |-> <<>>]

PgType(name, of) == [name |-> name, of |-> of]
NoType == PgType("unsupported", <<>>)

OidAliases == {"oid", "regclass", "regtype", "regproc"}

Timestamp ==
  [Second |-> "TimestampSecond", Millisecond |-> "TimestampMillisecond",
   Microsecond |-> "TimestampMicrosecond", Nanosecond |-> "TimestampNanosecond"]
TimestampTz ==
  [Second |-> "TimestampTzSecond", Millisecond |-> "TimestampTzMillisecond",
   Microsecond |-> "TimestampTzMicrosecond", Nanosecond |-> "TimestampTzNanosecond"]
Units == DOMAIN Timestamp
Intervals == {"IntervalYearMonth", "IntervalDayTime", "IntervalMonthDayNano"}

ListKinds == {"List", "FixedSizeList", "LargeList", "ListView", "LargeListView"}

\* A value of each of these is made of others.
Containers == ListKinds \union {"Dictionary", "Struct"}

\* Mutant: UInt32 is announced like the signed type of its width.
PgNumbersSameWidth ==
  [Int8 |-> "INT2", Int16 |-> "INT2", UInt8 |-> "INT2", Int32 |-> "INT4", UInt16 |-> "INT4",
   Int64 |-> "INT8", UInt32 |-> "INT4", UInt64 |-> "NUMERIC", Float16 |-> "FLOAT4",
   Float32 |-> "FLOAT4", Float64 |-> "FLOAT8", Decimal128 |-> "NUMERIC"]

\* An unsigned type is announced as the next wider signed one.
PgNumbers ==
  [Int8 |-> "INT2", Int16 |-> "INT2", UInt8 |-> "INT2", Int32 |-> "INT4", UInt16 |-> "INT4",
   Int64 |-> "INT8", UInt32 |-> "INT8", UInt64 |-> "NUMERIC", Float16 |-> "FLOAT4",
   Float32 |-> "FLOAT4", Float64 |-> "FLOAT8", Decimal128 |-> "NUMERIC"]

PgOthers ==
  [Null |-> "UNKNOWN", Boolean |-> "BOOL", Time64 |-> "TIME", Date32 |-> "DATE",
   Binary |-> "BYTEA", FixedSizeBinary |-> "BYTEA", Utf8 |-> "TEXT", LargeUtf8 |-> "TEXT"]
Spans == Intervals \union {"Duration"}

Known ==
  DOMAIN PgNumbers \union DOMAIN PgOthers \union Spans \union Range(Timestamp) \union Range(TimestampTz)
PgName(kind) ==
  CASE kind \in DOMAIN PgNumbers -> PgNumbers[kind]
    [] kind \in DOMAIN PgOthers -> PgOthers[kind]
    [] kind \in Spans -> "INTERVAL"
    [] kind \in Range(Timestamp) -> "TIMESTAMP"
    [] kind \in Range(TimestampTz) -> "TIMESTAMPTZ"

\* Types that have no counterpart, and that of a placeholder nothing is known of.
Unannounced ==
  {"Decimal32", "Decimal64", "Decimal256", "Union", "Map", "RunEndEncoded", "untyped"}

\* The fields of types that nest at most d deep; the catalog tables put an alias
\* on columns that are Int32.
PlainFields ==
  [kind : Known \union Unannounced, alias : {NoAlias}, of : {<<>>}]
    \union [kind : {"Int32"}, alias : OidAliases \union {"other"}, of : {<<>>}]
FieldsOver(S) ==
  [kind : ListKinds \union {"Dictionary"}, alias : {NoAlias}, of : [{1} -> S]]
    \union [kind : {"Struct"}, alias : {NoAlias}, of : Seq(S)]
FieldsAt[d \in 0 .. Nesting] ==
  PlainFields \union (IF d = 0 THEN {} ELSE FieldsOver(FieldsAt[d - 1]))
Fields == FieldsAt[Nesting]

\* The types they are announced with, and others that clients name.
PgNames ==
  {PgName(kind) : kind \in Known} \union OidAliases \union
    {"CHAR", "UUID", "JSON", "JSONB", "MONEY", "INET", "MACADDR", "none", NoType.name}
PlainPgTypes == [name : PgNames, of : {<<>>}]
PgTypesOver(S) == [name : {"ARRAY"}, of : [{1} -> S]] \union [name : {"RECORD"}, of : Seq(S)]
PgTypesAt[d \in 0 .. Nesting] ==
  PlainPgTypes \union (IF d = 0 THEN {} ELSE PgTypesOver(PgTypesAt[d - 1]))
PgTypes == PgTypesAt[Nesting]

\* The type a field is announced with, NoType if that is an error; types are those
\* of the fields in it.
IntoPgTypeOf(f, types) ==
  CASE f.kind \in Known -> PgType(PgName(f.kind), <<>>)
    [] f.kind \in ListKinds ->
         LET element == f.of[1] IN
         IF element.kind = "Null" THEN PgType("ARRAY", <<PgType("TEXT", <<>>)>>)
         ELSE IF element.kind \in Known THEN PgType("ARRAY", <<PgType(PgName(element.kind), <<>>)>>)
         ELSE IF element.kind = "Struct" /\ types[1] # NoType THEN PgType("ARRAY", <<types[1]>>)
         ELSE NoType
    [] f.kind = "Dictionary" -> types[1]
    [] f.kind = "Struct" -> IF NoType \in Range(types) THEN NoType ELSE PgType("RECORD", types)
    [] OTHER -> NoType

\* An alias in the metadata wins over the physical type.
FieldIntoPgTypeOf(f, types) ==
  IF f.alias \in OidAliases THEN PgType(f.alias, <<>>) ELSE IntoPgTypeOf(f, types)

FieldIntoPgType[f \in Fields] ==
  FieldIntoPgTypeOf(f, [i \in DOMAIN f.of |-> FieldIntoPgType[f.of[i]]])
IntoPgType(f) == IntoPgTypeOf(f, [i \in DOMAIN f.of |-> FieldIntoPgType[f.of[i]]])

-----------------------------------------------------------------------------
(* Cells *)

Cell(null, fits, items) == [null |-> null, fits |-> fits, items |-> items]

PlainCells == [null : BOOLEAN, fits : BOOLEAN, items : {<<>>}]
CellsOver(S) == [null : {FALSE}, fits : {TRUE}, items : Seq(S)]
CellsAt[d \in 0 .. Nesting] ==
  PlainCells \union (IF d = 0 THEN {} ELSE CellsOver(CellsAt[d - 1]))
Cells == CellsAt[Nesting]

\* The cells a column may have: a NULL has no items, a list any number of them
\* and a record one for each member.
CellsOfOf(f, cells) ==
  IF f.kind = "Dictionary" THEN cells[1]
  ELSE {v \in Cells :
         /\ v.null \/ f.kind \notin Containers => v.items = <<>>
         /\ ~v.null /\ f.kind \in ListKinds => \A i \in DOMAIN v.items : v.items[i] \in cells[1]
         /\ ~v.null /\ f.kind = "Struct" =>
              /\ DOMAIN v.items = DOMAIN f.of
              /\ \A i \in DOMAIN f.of : v.items[i] \in cells[i]}

CellsOf[f \in Fields] == CellsOfOf(f, [i \in DOMAIN f.of |-> CellsOf[f.of[i]]])

-----------------------------------------------------------------------------
(* What is written for a cell: a value of some type with its parts, NULL,  *)
(* an error, a panic, or a product that overflows, which is a wrong value, *)
(* or a panic in a build that checks for it.                               *)

\* over says whether there is such a product in it.
Wrote(name, parts) ==
  [as |-> name, parts |-> parts, over |-> name = "overflow" \/ \E i \in DOMAIN parts : parts[i].over]

PlainWritten == [as : PgNames \union {"NULL", "error", "panic", "overflow"}, parts : {<<>>}, over : BOOLEAN]
WrittenOver(S) == [as : {"ARRAY", "RECORD"}, parts : Seq(S), over : BOOLEAN]
WrittenAt[d \in 0 .. Nesting] ==
  PlainWritten \union (IF d = 0 THEN {} ELSE WrittenOver(WrittenAt[d - 1]))
AllWritten == WrittenAt[Nesting]

Nothing == Wrote("NULL", <<>>)
Error == Wrote("error", <<>>)
Panic == Wrote("panic", <<>>)
Overflow == Wrote("overflow", <<>>)

\* What the value of a number is widened to; an i8 is written as a "char".
WrittenNumber ==
  [Int8 |-> "CHAR", Int16 |-> "INT2", UInt8 |-> "INT2", Int32 |-> "INT4", UInt16 |-> "INT4",
   Int64 |-> "INT8", UInt32 |-> "INT8", UInt64 |-> "NUMERIC",
   Float32 |-> "FLOAT4", Float64 |-> "FLOAT8"]
Written(kind) == IF kind \in DOMAIN WrittenNumber THEN WrittenNumber[kind] ELSE PgName(kind)

\* What is converted to a date and a time; nanoseconds always have one.
Instants == UNION {{Timestamp[u], TimestampTz[u]} : u \in Units \ {"Nanosecond"}}
Calendar == {"Date32", "Time64"} \union Instants

\* Mutant: the value under a null bit is read as well.
GetterUnchecked(kind, v) ==
  IF kind \in Calendar /\ ~v.fits THEN Nothing ELSE Wrote(Written(kind), <<>>)

\* The getters: what is NULL, and what no calendar has, is read as NULL.
Getter(kind, v) ==
  IF v.null \/ (kind \in Calendar /\ ~v.fits) THEN Nothing ELSE Wrote(Written(kind), <<>>)

NumericGetter(v) ==
  IF v.null THEN Nothing ELSE IF v.fits THEN Wrote("NUMERIC", <<>>) ELSE Error

\* Seconds and milliseconds are multiplied.
DurationGetter(v) ==
  IF v.null THEN Nothing ELSE IF v.fits THEN Wrote("INTERVAL", <<>>) ELSE Overflow

\* The value is read whatever the null bit says.
IntervalGetter(v) == Wrote("INTERVAL", <<>>)

\* The arms of encode_value for types without parts.
NotEncoded == {"Float16", "FixedSizeBinary"}
PlainKinds == Known \ (NotEncoded \union {"Null", "Decimal128"} \union Spans)
EncodePlain(kind, v) ==
  CASE kind \in PlainKinds -> Getter(kind, v)
    [] kind = "Null" -> Nothing
    [] kind = "Decimal128" -> NumericGetter(v)
    [] kind = "Duration" -> DurationGetter(v)
    [] kind \in Intervals -> IntervalGetter(v)
    [] OTHER -> Error

\* In a list an interval that is NULL stays NULL.
EncodeSpan(kind, v) ==
  IF v.null THEN Nothing ELSE IF kind = "Duration" THEN DurationGetter(v) ELSE IntervalGetter(v)

\* The arms of encode_list, an element at a time.  A decimal that does not fit is
\* not an error here.
EncodeItem(kind, v) ==
  CASE kind \in PlainKinds -> Getter(kind, v)
    [] kind = "Null" -> Nothing
    [] kind = "Decimal128" -> IF v.null \/ v.fits THEN NumericGetter(v) ELSE Panic
    [] kind \in Spans -> EncodeSpan(kind, v)

\* One value of several parts, unless a part goes wrong.
Whole(name, parts) ==
  IF Panic \in Range(parts) THEN Panic ELSE Wrote(name, parts)

\* What is written for the cells of the members, for those of one record.  An
\* error in a member is unwrapped.
EncodeStruct(written, items) ==
  LET parts == [i \in DOMAIN written |-> written[i][items[i]]] IN
  IF Error \in Range(parts) THEN Panic ELSE Whole("RECORD", parts)

\* A record in a list is written like one on its own.
EncodeList(element, written, items) ==
  IF element.kind \in Known \ NotEncoded
  THEN Whole("ARRAY", [i \in DOMAIN items |-> EncodeItem(element.kind, items[i])])
  ELSE IF element.kind = "Struct" THEN Whole("ARRAY", [i \in DOMAIN items |-> written[1][items[i]]])
  ELSE Error

\* encode_value, for a field that has been announced.
EncodeCell(f, written, v) ==
  IF f.kind \notin Containers THEN EncodePlain(f.kind, v)
  ELSE IF f.kind \in {"ListView", "LargeListView"} THEN Error
  ELSE IF v.null THEN Nothing
  ELSE CASE f.kind = "List" -> EncodeList(f.of[1], written, v.items)
         [] f.kind \in {"FixedSizeList", "LargeList"} -> Panic
         [] f.kind = "Struct" -> EncodeStruct(written, v.items)
         [] f.kind = "Dictionary" -> written[1][v]

EncodeValueOf(f, written) == [v \in CellsOf[f] |-> EncodeCell(f, written, v)]
EncodeValue[f \in Fields] == EncodeValueOf(f, [i \in DOMAIN f.of |-> EncodeValue[f.of[i]]])

-----------------------------------------------------------------------------
(* What a client makes of it *)

\* A value in binary can be read as the type it was written as, a product that
\* overflowed as the interval it became.  One Int8 is written as a byte where two
\* are announced; it is let through.
ReadableAsOf(type, readable) ==
  {w \in AllWritten :
    \/ w = Nothing
    \/ w = Overflow /\ type.name = "INTERVAL"
    \/ w.as = type.name /\ type.of = <<>>
    \/ w.as = "INT4" /\ type.name \in OidAliases
    \/ w.as = "CHAR" /\ type.name = "INT2"
    \/ /\ w.as = type.name /\ w.as \in {"ARRAY", "RECORD"}
       /\ \A i \in DOMAIN w.parts : w.parts[i] \in readable[IF w.as = "ARRAY" THEN 1 ELSE i]}

ReadableAs[type \in PgTypes] == ReadableAsOf(type, [i \in DOMAIN type.of |-> ReadableAs[type.of[i]]])

\* NULL where the cell is NULL and only there, and every part is there; but for
\* values no calendar has, and intervals that are NULL outside of a list.
Keeps(f, kept, v, w) ==
  /\ \/ (v.null \/ f.kind = "Null") <=> w = Nothing
     \/ f.kind \in Calendar /\ ~v.fits /\ w = Nothing
     \/ f.kind \in Intervals /\ v.null
  /\ w.as \in {"ARRAY", "RECORD"} =>
       /\ DOMAIN w.parts = DOMAIN v.items
       /\ \A i \in DOMAIN w.parts : w.parts[i] \in kept[IF w.as = "ARRAY" THEN 1 ELSE i][v.items[i]]

NullsKeptOf(f, kept) ==
  [v \in CellsOf[f] |->
     IF f.kind = "Dictionary" THEN kept[1][v] ELSE {w \in AllWritten : Keeps(f, kept, v, w)}]
NullsKept[f \in Fields] == NullsKeptOf(f, [i \in DOMAIN f.of |-> NullsKept[f.of[i]]])
=============================================================================
