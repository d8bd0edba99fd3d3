----------------------------- MODULE Parameters ------------------------------
(***************************************************************************)
(* The parameters of a prepared statement: the type each is inferred to    *)
(* have (planner.rs, handlers.rs) and the literal a bound value becomes    *)
(* (deserialize_parameters of arrow-pg/src/datatypes/df.rs).               *)
(*                                                                         *)
(* A value is [is, n], the kind of a client's value and its parts:         *)
(*   number    <<h>>, h sixty-fourths, so that there are fractions         *)
(*   instant   <<u>>, u microseconds; span <<months, days, microseconds>>  *)
(*   array     the numbers of its items; text, braces, bool, bytes, ...    *)
(* Widths are scaled down: 8, 16, 32 and 64 bits to 2, 3, 5 and 8, the 24  *)
(* and 53 bits of a float to 4 and 6 (16 and 64 sixty-fourths are the last *)
(* before there are gaps), a thousand to 2, a decimal place to a binary    *)
(* one.  A float is finite, and a decimal has no zeros behind it.          *)
(***************************************************************************)
EXTENDS Encoding, FiniteSets

ValueKinds ==
  {"null", "number", "instant", "span", "array", "text", "braces", "bool", "bytes", "date", "time"}
Value(is, n) == [is |-> is, n |-> n]
NullValue == Value("null", <<>>)
One == 64
Number(h) == Value("number", <<h>>)

IntRange ==
  [Int8 |-> -2..1, Int16 |-> -4..3, Int32 |-> -16..15, Int64 |-> -128..127,
   UInt8 |-> 0..3, UInt16 |-> 0..7, UInt32 |-> 0..31, UInt64 |-> 0..255]
Ints == DOMAIN IntRange
Mantissa == [Float32 |-> 16, Float64 |-> 64]
Floats == DOMAIN Mantissa

\* From 1 to the next double.
Epsilon == 2

Thousand == 2
PerSecond == [Second |-> 1, Millisecond |-> 2, Microsecond |-> 4, Nanosecond |-> 8]

-----------------------------------------------------------------------------
(* Inferred types.  A plan has [context, casts]: the type DataFusion gives *)
(* each placeholder from where it stands, or Untyped, and the casts of     *)
(* placeholders in the order the plan is walked.                           *)

Untyped == Plain("untyped")

\* The last cast decides.
CastType(plan, k) ==
  LET casts == {i \in DOMAIN plan.casts : plan.casts[i].param = k} IN
  IF casts = {} THEN Untyped ELSE plan.casts[CHOOSE i \in casts : \A j \in casts : j <= i].type

\* Casts only count for a placeholder whose place does not give its type.
InferredTypes(plan) ==
  [k \in DOMAIN plan.context |->
     IF plan.context[k] # Untyped THEN plan.context[k] ELSE CastType(plan, k)]

\* The types in the order of the placeholders; gaps close up.
OrderedParamTypes(plan) ==
  LET types == InferredTypes(plan)
      Before(k) == Cardinality({j \in DOMAIN types : j < k})
  IN [i \in 1 .. Cardinality(DOMAIN types) |-> types[CHOOSE k \in DOMAIN types : Before(k) = i - 1]]

\* What Describe says of a type.
DescribedType(type) == IF type = Untyped THEN PgType("UNKNOWN", <<>>) ELSE IntoPgType(type)

-----------------------------------------------------------------------------
(* Literals: [type, value], a failure, none, a panic, or one that          *)
(* overflowed: a wrong value, or a panic in a build that checks for it.    *)

Literal(type, value) == [type |-> type, value |-> value]
LiteralOf(kind, value) == Literal(Plain(kind), value)
Refused == LiteralOf("refused", NullValue)
Dropped == LiteralOf("dropped", NullValue)
Panicked == LiteralOf("panicked", NullValue)
Overflowed(kind) == LiteralOf(kind, Value("overflow", <<>>))

Size(h) == IF h < 0 THEN -h ELSE h
Truncated(h) == IF h >= 0 THEN h \div One ELSE -((-h) \div One)
IsWhole(h) == h % One = 0
Wrapped(n) == ((n + 16) % 32) - 16

\* The nearest number a float of that size has; ties go to even.
RoundTo(mantissa, h) ==
  LET steps == {s \in {1, 2, 4, 8, 16, 32, 64, 128, 256, 512, 1024} : Size(h) <= mantissa * s}
      step == CHOOSE s \in steps : \A t \in steps : s <= t
      low == h - (h % step)
  IN IF 2 * (h % step) < step \/ (2 * (h % step) = step /\ (low \div step) % 2 = 0)
     THEN low ELSE low + step
Float(kind, v) == LiteralOf(kind, IF v = NullValue THEN v ELSE Number(RoundTo(Mantissa[kind], v.n[1])))

\* Mutant: the number is cut to the width.
CheckedIntCut(n, kind) ==
  LET S == IntRange[kind]
      size == Cardinality(S)
  IN LiteralOf(kind, Number(One * (CHOOSE m \in S : (n - m) % size = 0)))

CheckedInt(n, kind) == IF n \in IntRange[kind] THEN LiteralOf(kind, Number(One * n)) ELSE Refused

CoerceInt(v, kind) ==
  IF kind \in Ints THEN IF v = NullValue THEN LiteralOf(kind, v) ELSE CheckedInt(v.n[1] \div One, kind)
  ELSE IF kind \in Floats THEN Float(kind, v)
  ELSE LET units == {u \in Units : kind \in {Timestamp[u], TimestampTz[u]}} IN
       IF units = {} THEN Refused
       ELSE LET unit == CHOOSE u \in units : TRUE
                scaled == (v.n[1] \div One) * PerSecond[unit]
            IN IF v = NullValue THEN LiteralOf(Timestamp[unit], v)
               ELSE IF scaled \notin IntRange.Int64 THEN Overflowed(Timestamp[unit])
               ELSE LiteralOf(Timestamp[unit], Value("instant", <<scaled>>))

\* The float is cut to an i64 and must not be further from it than Epsilon.
Saturated(n) == IF n > 127 THEN 127 ELSE IF n < -128 THEN -128 ELSE n
CheckedFloat(v, kind) ==
  LET n == Saturated(Truncated(v.n[1])) IN
  IF Size(RoundTo(Mantissa.Float64, One * n) - v.n[1]) > Epsilon THEN Refused ELSE CheckedInt(n, kind)

CoerceFloat(v, kind) ==
  IF kind \in Ints THEN IF v = NullValue THEN LiteralOf(kind, v) ELSE CheckedFloat(v, kind)
  ELSE IF kind \in Floats THEN Float(kind, v)
  ELSE Refused

\* Whole units since the epoch; nanoseconds that do not fit are NULL.
InUnit(v, unit) ==
  LET nanos == v.n[1] * Thousand IN
  IF v = NullValue THEN v
  ELSE CASE unit = "Second" -> Value("instant", <<v.n[1] \div (Thousand * Thousand)>>)
         [] unit = "Millisecond" -> Value("instant", <<v.n[1] \div Thousand>>)
         [] unit = "Microsecond" -> v
         [] unit = "Nanosecond" ->
              IF nanos \in IntRange.Int64 THEN Value("instant", <<nanos>>) ELSE NullValue

\* The time zone of the target is left out.
CoerceTimestamp(v, kind) ==
  LET units == {u \in Units : kind \in {Timestamp[u], TimestampTz[u]}} IN
  IF units = {} THEN Refused
  ELSE LET unit == CHOOSE u \in units : TRUE IN LiteralOf(Timestamp[unit], InUnit(v, unit))

CoerceTimestampTz(v, kind) ==
  LET units == {u \in Units : kind \in {Timestamp[u], TimestampTz[u]}} IN
  IF units = {} THEN Refused
  ELSE LiteralOf(kind, InUnit(v, CHOOSE u \in units : TRUE))

\* Microseconds become nanoseconds.
MonthDayNano(v) ==
  IF v = NullValue THEN LiteralOf("IntervalMonthDayNano", v)
  ELSE IF v.n[3] * Thousand \notin IntRange.Int64 THEN Overflowed("IntervalMonthDayNano")
  ELSE LiteralOf("IntervalMonthDayNano", Value("span", <<v.n[1], v.n[2], v.n[3] * Thousand>>))

CoerceInterval(v, kind) ==
  CASE kind = "IntervalYearMonth" ->
         IF v # NullValue /\ (v.n[2] # 0 \/ v.n[3] # 0) THEN Refused
         ELSE LiteralOf(kind, IF v = NullValue THEN v ELSE Value("span", <<v.n[1], 0, 0>>))
    [] kind = "IntervalDayTime" ->
         IF v = NullValue THEN LiteralOf(kind, v)
         ELSE IF v.n[1] # 0 \/ v.n[3] % Thousand # 0 THEN Refused
         ELSE LiteralOf(kind, Value("span", <<0, v.n[2], Wrapped(v.n[3] \div Thousand)>>))
    [] kind \in {"IntervalMonthDayNano", "Duration"} -> MonthDayNano(v)
    [] OTHER -> Refused

\* A decimal of the inferred type has no places; a half is rounded away from zero.
Rescaled(v) ==
  IF v = NullValue THEN v
  ELSE LET whole == ((2 * Size(v.n[1]) + One) \div (2 * One)) * One
       IN Number(IF v.n[1] < 0 THEN -whole ELSE whole)

\* The fraction is cut; NULL if the rest is out of range, and below zero for u64.
CutToInt(v, kind) ==
  IF \/ v = NullValue \/ Truncated(v.n[1]) \notin IntRange[kind]
     \/ v.n[1] < 0 /\ kind \in {"UInt64", "UInt32"}
  THEN NullValue ELSE Number(One * Truncated(v.n[1]))

CoerceNumeric(v, kind) ==
  CASE kind = "Decimal128" -> LiteralOf(kind, Rescaled(v))
    [] kind \in {"UInt64", "UInt32", "Int64", "Int32"} -> LiteralOf(kind, CutToInt(v, kind))
    [] kind \in Floats -> Float(kind, v)
    [] OTHER -> Refused

-----------------------------------------------------------------------------
(* One parameter *)

\* The client's type comes first, then the inferred one.
NoHint == PgType("none", <<>>)
ParameterType(hint, inferred) == IF hint # NoHint THEN hint ELSE DescribedType(inferred)

NumberKinds ==
  [INT2 |-> "Int16", INT4 |-> "Int32", INT8 |-> "Int64", FLOAT4 |-> "Float32", FLOAT8 |-> "Float64"]
OwnKind ==
  [BOOL |-> "Boolean", CHAR |-> "Int8", BYTEA |-> "Binary", DATE |-> "Date32", TIME |-> "Time64",
   UUID |-> "Utf8", JSON |-> "Utf8", JSONB |-> "Utf8", MONEY |-> "Int64", INET |-> "Utf8",
   MACADDR |-> "Utf8", TIMESTAMP |-> "TimestampMicrosecond", TIMESTAMPTZ |-> "TimestampMicrosecond",
   NUMERIC |-> "Decimal128"]
ItemKind ==
  [BOOL |-> "Boolean", INT2 |-> "Int16", INT4 |-> "Int32", INT8 |-> "Int64", FLOAT4 |-> "Float32",
   FLOAT8 |-> "Float64", TEXT |-> "Utf8", INTERVAL |-> "IntervalMonthDayNano"]

\* What a client can send as a value of a type; numbers are bounded by MaxNumber.
MaxNumber == 256 * One
NullItem == 1000 * MaxNumber
Representable(name, h) ==
  IF NumberKinds[name] \in Floats THEN RoundTo(Mantissa[NumberKinds[name]], h) = h
  ELSE IsWhole(h) /\ h \div One \in IntRange[NumberKinds[name]]
WellFormed(type, v) ==
  \/ v = NullValue
  \/ /\ v.is = "number" /\ v = Number(v.n[1]) /\ v.n[1] \in -MaxNumber .. MaxNumber
     /\ type.name = "NUMERIC" \/ (type.name \in DOMAIN NumberKinds /\ Representable(type.name, v.n[1]))
  \/ /\ type.name \in {"TIMESTAMP", "TIMESTAMPTZ"}
     /\ v.is = "instant" /\ v = Value("instant", <<v.n[1]>>) /\ v.n[1] \in IntRange.Int64
  \/ type.name = "INTERVAL" /\ v \in [is : {"span"}, n : Int \X Int \X Int]
  \/ type.name = "ARRAY" /\ v \in [is : {"array"}, n : Seq((-MaxNumber .. MaxNumber) \union {NullItem})]
  \/ /\ type.name \notin DOMAIN NumberKinds \union {"NUMERIC", "TIMESTAMP", "TIMESTAMPTZ", "INTERVAL", "ARRAY"}
     /\ v \in [is : {"text", "braces", "bool", "bytes", "date", "time"}, n : Seq(Int)]

\* Types whose values become the same literal whatever is inferred.
AsTheyAre ==
  DOMAIN OwnKind \ {"TIMESTAMP", "TIMESTAMPTZ", "NUMERIC"}

Coerced(name, v, kind) ==
  CASE name \in {"INT2", "INT4", "INT8"} -> CoerceInt(v, kind)
    [] name \in {"FLOAT4", "FLOAT8"} -> CoerceFloat(v, kind)
    [] name = "NUMERIC" -> CoerceNumeric(v, kind)
    [] name = "TIMESTAMP" -> CoerceTimestamp(v, kind)
    [] name = "TIMESTAMPTZ" -> CoerceTimestampTz(v, kind)
    [] name = "INTERVAL" -> CoerceInterval(v, kind)

\* Neither the client nor the plan has a type that is known: the text is the
\* value, or an array if it looks like one.
Guessed(v) ==
  CASE v = NullValue -> Dropped
    [] v.is = "braces" -> Literal(Field("List", <<Plain("Utf8")>>), v)
    [] OTHER -> LiteralOf("Utf8", v)

Uncoerced(name, v) ==
  CASE name \in DOMAIN NumberKinds -> LiteralOf(NumberKinds[name], v)
    [] name \in {"TIMESTAMP", "TIMESTAMPTZ", "NUMERIC"} -> LiteralOf(OwnKind[name], v)
    [] name = "INTERVAL" -> MonthDayNano(v)

NumericArray(type) == type.name = "ARRAY" /\ type.of[1].name = "NUMERIC"
ArrayLiteral(item, value) == Literal(Field("List", <<item>>), value)

\* Each number of an array on its own, as the inferred list has them.
NumericItems(v, kind) ==
  LET Of(h) == CoerceNumeric(IF h = NullItem THEN NullValue ELSE Number(h), kind).value IN
  Value("array", [i \in DOMAIN v.n |-> IF Of(v.n[i]) = NullValue THEN NullItem ELSE Of(v.n[i]).n[1]])
NumericItem(inferred) ==
  IF inferred.of[1].kind \in {"Decimal128", "UInt64", "Float64", "Float32"}
  THEN inferred.of[1].kind ELSE "Decimal128"

\* The last place a decimal has a digit at.
LastPlace(h) ==
  LET places == {u \in {1, 2, 4, 8, 16, 32, 64} : h % u = 0} IN
  CHOOSE u \in places : \A w \in places : w <= u

\* No list is inferred: the digits of each number are read with the places of the
\* first.  That one gives the array its precision, too, and there is no array if
\* it has none or has more places than digits.
FirstScale(v) ==
  [i \in DOMAIN v.n |->
     IF v.n[i] = NullItem THEN NullItem ELSE (v.n[i] \div LastPlace(v.n[i])) * LastPlace(v.n[1])]
Unscaled(v) ==
  /\ v.n # <<>>
  /\ v.n[1] = NullItem \/ (v.n[1] # 0 /\ 2 * Size(v.n[1]) < One)

NumericList(v, inferred) ==
  CASE v = NullValue -> ArrayLiteral(Plain("Decimal128"), v)
    [] v # NullValue /\ inferred.kind = "List" ->
         ArrayLiteral(IF v.n = <<>> THEN [inferred.of[1] EXCEPT !.alias = NoAlias] ELSE Plain(NumericItem(inferred)),
                NumericItems(v, NumericItem(inferred)))
    [] v # NullValue /\ inferred.kind # "List" ->
         IF Unscaled(v) THEN Panicked ELSE ArrayLiteral(Plain("Decimal128"), Value("array", FirstScale(v)))

Deserialized(hint, inferred, v) ==
  LET type == ParameterType(hint, inferred) IN
  CASE type.name \in AsTheyAre -> LiteralOf(OwnKind[type.name], v)
    [] type.name = "TEXT" ->
         LiteralOf(IF inferred = Plain("LargeUtf8") THEN "LargeUtf8" ELSE "Utf8", v)
    [] type.name \in DOMAIN NumberKinds \union {"TIMESTAMP", "TIMESTAMPTZ", "NUMERIC", "INTERVAL"} ->
         IF inferred = Untyped THEN Uncoerced(type.name, v) ELSE Coerced(type.name, v, inferred.kind)
    [] type.name = "ARRAY" /\ type.of[1].name \in DOMAIN ItemKind ->
         ArrayLiteral(Plain(ItemKind[type.of[1].name]), v)
    [] NumericArray(type) -> NumericList(v, inferred)
    [] type = NoType -> Refused
    [] OTHER -> Guessed(v)

-----------------------------------------------------------------------------
(* All parameters of a portal *)

TypeAt(types, i, absent) == IF i \in DOMAIN types THEN types[i] ELSE absent

\* A NULL that has no type is left out, and those behind it move up.
KeptLiterals(literals) ==
  LET kept == {i \in DOMAIN literals : literals[i] # Dropped}
      Before(i) == Cardinality({j \in kept : j < i})
  IN [n \in 1 .. Cardinality(kept) |-> literals[CHOOSE i \in kept : Before(i) = n - 1]]

DeserializeParameters(values, hints, plan) ==
  LET types == OrderedParamTypes(plan) IN
  [i \in DOMAIN values |-> Deserialized(TypeAt(hints, i, NoHint), TypeAt(types, i, Untyped), values[i])]

\* The type the value of $i is read as.
TypeOfParameter(hints, plan, i) ==
  ParameterType(TypeAt(hints, i, NoHint), TypeAt(OrderedParamTypes(plan), i, Untyped))
=============================================================================
