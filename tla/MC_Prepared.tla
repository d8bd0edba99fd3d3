----------------------------- MODULE MC_Prepared ----------------------------
(***************************************************************************)
(* Instances of Prepared for TLC.  Next to the messages of MC_SqlRewrite   *)
(* clients send statements that are planned: each is named by a word, and  *)
(* a number among its columns leads from the rewritten statement to its    *)
(* plans.                                                                  *)
(***************************************************************************)
EXTENDS MC_SqlRewrite, Prepared

\* A statement with parameters in its items and in its condition.
Marked(mark, params) ==
  Query(Select(<<Item(Leaf("number", mark))>>, <<N>>,
    [i \in DOMAIN params |-> Leaf("param", params[i])]), <<>>)

Dollars == <<"$1", "$2", "$3", "$4", "$5", "$6", "$7", "$8", "$9", "$10">>
Prepareds ==
  "one" :> Marked("one", <<"$1">>)
  @@ "ten" :> Marked("ten", Dollars)
  @@ "two" :> Marked("two", <<"$1", "$2">>)
  @@ "rows" :> Marked("rows", <<>>)
  @@ "others" :> Marked("others", <<>>)
  @@ "gone" :> [Marked("gone", <<"$2">>) EXCEPT !.args[1].args[1].args =
                  Append(@, Item(Cast("regclass", Leaf("param", "$1"))))]

PreparedTree[words \in Seq(STRING)] ==
  IF Len(words) = 1 /\ words[1] \in DOMAIN Prepareds THEN Prepareds[words[1]] ELSE MCTree[words]
PreparedGrammar(words) == PreparedTree[words]

Numbers(s) == {k \in DOMAIN Dollars : Dollars[k] \in ParametersOf(s)}
Shown(f) == [field |-> f, param |-> Computed]
Placed(k) == [field |-> Plain("Null"), param |-> k]
Plan(kind, context, columns, batches) ==
  [kind |-> kind, context |-> context, casts |-> <<>>, columns |-> columns, batches |-> batches]

RowsBatch(rows) == [fails |-> FALSE, rows |-> rows]
Good == Cell(FALSE, TRUE, <<>>)
Misfit == Cell(FALSE, FALSE, <<>>)
NullCell == Cell(TRUE, TRUE, <<>>)
Some(items) == Cell(FALSE, TRUE, items)

\* Fields with their cells.
Simple ==
  {Plain(k) : k \in Known \union {"Decimal256"}} \union {AliasOf("regclass"), AliasOf("other")}
Members == <<Plain("Int32"), AliasOf("oid"), Plain("Decimal128")>>
Nested ==
  {Field("List", <<Plain(k)>>) : k \in {"Null", "Int8", "UInt32", "Float16", "Decimal128", "Duration",
                                        "IntervalDayTime", "Date32"}}
    \union {Field(k, <<Plain("Int32")>>) : k \in ListKinds \union {"Dictionary"}}
    \union {Field("List", <<Field("Dictionary", <<Plain("Int32")>>)>>)}
Records ==
  {Field("Struct", Members), Field("List", <<Field("Struct", Members)>>),
   Field("Dictionary", <<Field("Struct", Members)>>)}
Member(c) == Some(<<Good, NullCell, c>>)
MCCells(f) ==
  IF f \in Simple THEN {Good, NullCell, Misfit}
  ELSE IF f \in Nested
  THEN IF f.kind = "Dictionary" THEN {Good, NullCell}
       ELSE {NullCell} \union {Some(s) : s \in {<<>>, <<Good>>, <<NullCell, Misfit>>}}
  ELSE IF f.kind = "List"
  THEN {Some(<<Member(Good), NullCell, Member(NullCell)>>), Some(<<Member(Misfit)>>)}
  ELSE {NullCell, Member(Good), Member(Misfit)}

RowPlans ==
  UNION {UNION {{Plan("query", <<>>, <<Shown(f), Shown(Plain("Int32"))>>,
                <<RowsBatch(<<<<c, Good>>, <<NullCell, NullCell>>>>), last>>) :
             last \in {RowsBatch(<<<<c, Good>>>>)} \union (IF f = Plain("Utf8") THEN {BatchError} ELSE {})} :
             c \in MCCells(f)} :
             f \in Simple \union Nested \union Records}

Contexts ==
  {"Int8", "Int32", "Int64", "UInt8", "UInt32", "UInt64"} \union Floats \union Intervals \union
    {"Decimal128", "Utf8", "LargeUtf8", "Boolean", "Duration", "Decimal256", "TimestampSecond",
     "TimestampNanosecond", "TimestampTzSecond", "TimestampTzNanosecond"}

MCPlans(s, v) ==
  LET Is(mark) == Leaf("number", mark) \in Nodes(s)
      Each == {Plan("query", [k \in Numbers(s) |-> Plain(c)], <<>>, <<RowsBatch(<<<<>>>>)>>) : c \in Contexts}
  IN CASE Is("one") -> Each \union
            {Plan("query", [k \in Numbers(s) |-> t], <<>>, <<RowsBatch(<<<<>>>>)>>) :
               t \in {Field("List", <<Plain("UInt64")>>), Field("List", <<Plain("Int32")>>)}}
       [] Is("ten") ->
            {Plan("query", [k \in Numbers(s) |-> Plain(IF k = 2 THEN "Utf8" ELSE IF k = 10 THEN "Int64" ELSE "Int32")],
                  <<>>, <<RowsBatch(<<<<>>>>)>>)}
       [] Is("two") ->
            {[Plan("query", [k \in Numbers(s) |-> IF k = 1 THEN Untyped ELSE Plain("Int32")],
                   <<Placed(1), Shown(Plain("Int32"))>>, <<RowsBatch(<<<<Good, Good>>>>)>>) EXCEPT !.casts = c] :
               c \in {<<>>, <<[param |-> 1, type |-> Plain("Utf8")], [param |-> 1, type |-> Plain("Int16")]>>}}
       [] Is("gone") ->
            {Plan("query", [k \in Numbers(s) |-> Plain("Int32")], <<Shown(Plain("Utf8"))>>, <<RowsBatch(<<<<NullCell>>>>)>>)}
       [] Is("rows") ->
            IF v = 2 THEN {Plan("query", <<>>, <<Shown(Plain("Utf8"))>>, <<RowsBatch(<<<<Good>>>>)>>)} ELSE RowPlans
       [] Is("others") ->
            {Plan(k, <<>>, <<Shown(Plain("UInt64"))>>, b) :
               k \in {"insert", "delete", "ddl"}, b \in {<<>>, <<RowsBatch(<<<<Good>>>>)>>, <<BatchError>>}}
       [] OTHER -> {}

Type(name) == PgType(name, <<>>)
MCHints(p) ==
  IF Cardinality(DOMAIN p.context) = 1
  THEN {<<t>> : t \in {NoHint, Type("UNKNOWN"), PgType("ARRAY", <<Type("NUMERIC")>>),
                       PgType("ARRAY", <<Type("TEXT")>>)}
                  \union {Type(n) : n \in {"INT2", "INT4", "INT8", "FLOAT4", "FLOAT8", "NUMERIC", "TEXT",
                                           "BOOL", "TIMESTAMP", "TIMESTAMPTZ", "INTERVAL"}}}
  ELSE {<<>>}

\* Values that are well-formed for a type, those at its edges among them.
Whole1 == {Number(One * n) : n \in {-128, -16, -1, 0, 1, 15, 16, 127}}
Offers(type) ==
  CASE type.name = "INT2" -> {v \in Whole1 : v.n[1] \div One \in IntRange.Int16}
    [] type.name = "INT4" -> {v \in Whole1 : v.n[1] \div One \in IntRange.Int32}
    [] type.name = "INT8" -> Whole1
    [] type.name = "FLOAT4" -> {Number(h) : h \in {-128 * One, 1, 32, 7 * One, 128 * One}}
    [] type.name = "FLOAT8" -> {Number(h) : h \in {-128 * One, -2, 3, One + Epsilon, 30 * One, 128 * One}}
    [] type.name = "NUMERIC" -> {Number(h) : h \in {-96, -1, 96, 15 * One, 31 * One, 127 * One - 32, 128 * One}}
    [] type.name \in {"TIMESTAMP", "TIMESTAMPTZ"} -> {Value("instant", <<u>>) : u \in {-70, -1, 63}}
    [] type.name = "INTERVAL" ->
         {Value("span", s) : s \in {<<1, 0, 0>>, <<0, 1, 2>>, <<0, 0, 3>>, <<0, 0, 80>>}}
    [] type.name = "TEXT" -> {Value("text", <<>>)}
    [] type.name = "BOOL" -> {Value("bool", <<>>)}
    [] NumericArray(type) -> {Value("array", s) : s \in {<<96, NullItem, -One, 32>>, <<NullItem>>, <<16>>, <<>>}}
    [] type.name = "ARRAY" -> {Value("array", <<>>)}
    [] OTHER -> {Value("text", <<>>), Value("braces", <<1, 2>>)}

MCValues(p, h) ==
  LET n == Cardinality(DOMAIN p.context)
      Offered(k) == {NullValue} \union Offers(TypeOfParameter(h, p, k))
  IN CASE n = 0 -> {<<>>}
       [] n = 1 -> {<<v>> : v \in Offered(1)}
       [] n = 2 -> {<<v, w>> : v \in Offered(1), w \in Offered(2)}
       [] OTHER -> {[k \in 1 .. n |-> IF k = 2 THEN Value("text", <<>>) ELSE Number(One * k)],
                    [k \in 1 .. n |-> NullValue]}

\* What the rules leave of them: the cast of a parameter is gone.
MCStatements ==
  {Prepareds[w] : w \in DOMAIN Prepareds \ {"gone"}}
    \union {[Marked("gone", <<"$2">>) EXCEPT !.args[1].args[1].args = Append(@, Item(Null))]}

PreparedWords == MCWords \union DOMAIN Prepareds
PreparedMessages == MCMessages \union {<<w>> : w \in DOMAIN Prepareds} \union {<<"rows", ";", "one">>, <<";">>}
=============================================================================
