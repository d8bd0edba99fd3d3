------------------------------- MODULE Portal --------------------------------
(***************************************************************************)
(* A statement from its plan to the last row of its portals: it is planned *)
(* and kept (Parser::parse_sql), described, bound to values (Parameters)   *)
(* and executed (ExtendedQueryHandler::do_query), and the rows of the      *)
(* record batches that come back are encoded one at a time (Encoding).     *)
(* The statements here are those no query hook answers.                    *)
(*                                                                         *)
(* Planning is DataFusion's.  A plan is [kind, context, casts, columns,    *)
(* batches]: kind is query, insert, delete or ddl, a column is [field,     *)
(* param] with the placeholder it shows, or Computed, and a batch is       *)
(* [fails, rows], its rows sequences of cells.                             *)
(***************************************************************************)
EXTENDS Parameters

CONSTANTS
  Statements,   \* the statements that are ever planned
  Plans(_, _),  \* the plans of one for a version of the tables, {} if that fails
  Hints(_),     \* the parameter types clients send with a plan's statement
  Values(_, _), \* the values they bind, for a plan and such types
  Formats,      \* the formats they want the columns in
  MaxBinds      \* bound on the portals of the statement

Computed == 0
BatchError == [fails |-> TRUE, rows |-> <<>>]
Versions == {1, 2}

\* A type DataFusion has; an alias is metadata, and only fields have it.
DataTypes == {f \in Fields : f.alias = NoAlias}

\* What DataFusion hands over: the types fit the cells.
IsPlan(p) ==
  /\ p.kind \in {"query", "insert", "delete", "ddl"}
  /\ DOMAIN p.context \subseteq Nat \ {0} /\ IsFiniteSet(DOMAIN p.context)
  /\ \A k \in DOMAIN p.context : p.context[k] \in DataTypes
  /\ p.casts \in Seq([param : Nat, type : DataTypes])
  /\ p.columns \in Seq([field : Fields, param : Nat])
  /\ p.batches \in Seq([fails : BOOLEAN, rows : Seq(Seq(Cells))])
  /\ \A b \in Range(p.batches) : \A cells \in Range(b.rows) :
       /\ DOMAIN cells = DOMAIN p.columns
       /\ \A i \in DOMAIN cells :
            p.columns[i].param = Computed => cells[i] \in CellsOf[p.columns[i].field]

ASSUME FormatAssumption == Formats \subseteq {"text", "binary"}
ASSUME MaxBindsAssumption == MaxBinds \in Nat
ASSUME PlansAssumption ==
  \A s \in Statements, v \in Versions : \A p \in Plans(s, v) : IsPlan(p)
\* The values are well-formed for the types they are read as.
ASSUME ClientAssumption ==
  \A s \in Statements, v \in Versions : \A p \in Plans(s, v) : \A h \in Hints(p) :
    /\ h \in Seq(PgTypes)
    /\ \A values \in Values(p, h) :
         /\ values \in Seq([is : ValueKinds, n : Seq(Int)])
         /\ \A i \in DOMAIN values : WellFormed(TypeOfParameter(h, p, i), values[i])

VARIABLES
  version,    \* of the tables
  statement,  \* the prepared statement, kept by its portals; <<>> if the message was empty
  plan,       \* of it
  hints,      \* the types that came with it
  described,  \* what a client was last told: [params, columns]
  bound,      \* the values of the portal
  format,     \* the format of its columns
  literals,   \* what the values became
  phase,      \* of the portal
  batch,      \* the record batch that is read
  row,        \* the rows of it that are sent
  sent,       \* what the client got for the portal
  binds       \* portals so far

portalVars ==
  <<version, statement, plan, hints, described, bound, format, literals, phase, batch, row, sent, binds>>

NoPlan == [kind |-> "none", context |-> <<>>, casts |-> <<>>, columns |-> <<>>, batches |-> <<>>]
EmptyPlan == [NoPlan EXCEPT !.kind = "empty"]
NotDescribed == [params |-> <<>>, columns |-> <<>>, told |-> FALSE]

PortalInit ==
  /\ version = 1
  /\ statement = <<>> /\ plan = NoPlan /\ hints = <<>> /\ described = NotDescribed
  /\ bound = <<>> /\ format = "text" /\ literals = <<>>
  /\ phase = "unprepared"
  /\ batch = 1 /\ row = 0 /\ sent = <<>> /\ binds = 0

-----------------------------------------------------------------------------
(* Parse and Describe *)

CanBePlanned(s) == s \in Statements /\ Plans(s, version) # {}

Prepare(s) ==
  /\ phase = "unprepared"
  /\ s \in Statements
  /\ \E p \in Plans(s, version) : \E h \in Hints(p) : plan' = p /\ hints' = h
  /\ statement' = <<s>>
  /\ phase' = "prepared"
  /\ UNCHANGED <<version, described, bound, format, literals, batch, row, sent, binds>>

PrepareEmpty ==
  /\ phase = "unprepared"
  /\ plan' = EmptyPlan
  /\ phase' = "prepared"
  /\ UNCHANGED <<version, statement, hints, described, bound, format, literals, batch, row, sent, binds>>

\* The message does not parse, or its first statement cannot be planned.
PrepareFails ==
  /\ phase = "unprepared"
  /\ phase' = "refused"
  /\ UNCHANGED <<version, statement, plan, hints, described, bound, format, literals, batch, row, sent, binds>>

\* Mutant: "$10" comes before "$2".
TextBefore(j, k) == IF (j > 9) = (k > 9) THEN j < k ELSE IF j > 9 THEN k > 1 ELSE j = 1
ParameterTypesAsText(p) ==
  LET types == InferredTypes(p)
      Before(k) == Cardinality({j \in DOMAIN types : TextBefore(j, k)})
  IN [i \in 1 .. Cardinality(DOMAIN types) |->
        DescribedType(types[CHOOSE k \in DOMAIN types : Before(k) = i - 1])]

ParameterTypes(p) ==
  LET types == OrderedParamTypes(p) IN [i \in DOMAIN types |-> DescribedType(types[i])]

ResultSchema(p) ==
  IF p.kind # "query" THEN <<>>
  ELSE [i \in DOMAIN p.columns |-> FieldIntoPgType[p.columns[i].field]]

\* Describe of the statement; a type that has no counterpart is an error.
Describe ==
  /\ phase \in {"prepared", "bound"}
  /\ NoType \notin Range(ParameterTypes(plan)) \union Range(ResultSchema(plan))
  /\ described' = [params |-> ParameterTypes(plan), columns |-> ResultSchema(plan), told |-> TRUE]
  /\ UNCHANGED <<version, statement, plan, hints, bound, format, literals, phase, batch, row, sent, binds>>

DescribeFails ==
  /\ phase \in {"prepared", "bound"}
  /\ NoType \in Range(ParameterTypes(plan)) \union Range(ResultSchema(plan))
  /\ phase' = "failed"
  /\ UNCHANGED <<version, statement, plan, hints, described, bound, format, literals, batch, row, sent, binds>>

\* Another connection replaces the tables by others.
Redefine ==
  /\ version = 1 /\ phase \notin {"unprepared", "refused"}
  /\ version' = 2
  /\ UNCHANGED <<statement, plan, hints, described, bound, format, literals, phase, batch, row, sent, binds>>

-----------------------------------------------------------------------------
(* Bind and Execute *)

Bind ==
  /\ phase \in {"prepared", "bound", "done", "failed"}
  /\ binds < MaxBinds
  /\ bound' \in Values(plan, hints)
  /\ format' \in Formats
  /\ phase' = "bound"
  /\ binds' = binds + 1
  /\ literals' = <<>> /\ sent' = <<>> /\ batch' = 1 /\ row' = 0
  /\ UNCHANGED <<version, statement, plan, hints, described>>

ExecuteEmpty ==
  /\ phase = "bound" /\ plan.kind = "empty"
  /\ phase' = "done"
  /\ UNCHANGED <<version, statement, plan, hints, described, bound, format, literals, batch, row, sent, binds>>

Deserialize == DeserializeParameters(bound, hints, plan)

\* The field of a column in the plan whose placeholders are literals.
FieldIn(lits, column) ==
  IF column.param = Computed THEN column.field ELSE lits[column.param].type

\* DataFusion looks up the n-th literal for $n.
Replaceable(lits) == DOMAIN plan.context \subseteq DOMAIN lits

Announced(lits) == \A i \in DOMAIN plan.columns : FieldIntoPgType[FieldIn(lits, plan.columns[i])] # NoType

\* Mutant: the statement is planned again for the tables of now.
PlanToExecuteNow ==
  IF statement # <<>> /\ CanBePlanned(statement[1])
  THEN CHOOSE p \in Plans(statement[1], version) : p.context = plan.context ELSE plan

\* The plan of Parse; the placeholders are replaced in a copy of it.
PlanToExecute == plan

\* The first value that is no literal decides.
FirstWrong(how) ==
  \E i \in DOMAIN Deserialize :
    Deserialize[i] = how /\ \A j \in 1 .. i - 1 : Deserialize[j] \notin {Refused, Panicked}

\* Every value is a literal and every placeholder has one.
Substitutable ==
  {Refused, Panicked} \intersect Range(Deserialize) = {} /\ Replaceable(KeptLiterals(Deserialize))

Execute ==
  /\ phase = "bound" /\ plan.kind # "empty"
  /\ Substitutable
  /\ plan.kind # "insert" => Announced(KeptLiterals(Deserialize))
  /\ literals' = KeptLiterals(Deserialize)
  /\ plan' = PlanToExecute
  /\ phase' = "executing"
  /\ UNCHANGED <<version, statement, hints, described, bound, format, batch, row, sent, binds>>

\* Also when planning takes longer than the statement timeout.
ExecuteFails ==
  /\ phase = "bound" /\ plan.kind # "empty"
  /\ ~FirstWrong(Panicked)
  /\ phase' = "failed"
  /\ UNCHANGED <<version, statement, plan, hints, described, bound, format, literals, batch, row, sent, binds>>

\* An array that cannot be built, or an overflow in a build that checks for it.
ExecutePanics ==
  /\ phase = "bound" /\ plan.kind # "empty"
  /\ \/ FirstWrong(Panicked)
     \/ \E l \in Range(Deserialize) : l.value.is = "overflow" /\ FirstWrong(l)
  /\ phase' = "lost"
  /\ UNCHANGED <<version, statement, plan, hints, described, bound, format, literals, batch, row, sent, binds>>

-----------------------------------------------------------------------------
(* Rows *)

CellIn(i, column) ==
  IF column.param = Computed THEN plan.batches[batch].rows[row + 1][i]
  ELSE Cell(literals[column.param].value = NullValue, TRUE, <<>>)

\* A row, column by column.
EncodedRow ==
  [i \in DOMAIN plan.columns |->
     EncodeValue[FieldIn(literals, plan.columns[i])][CellIn(i, plan.columns[i])]]

Streaming == phase = "executing" /\ plan.kind # "insert"
Batch == plan.batches[batch]
InBatch == batch \in DOMAIN plan.batches /\ ~Batch.fails /\ row < Len(Batch.rows)

\* The first column that goes wrong decides; an overflow may go unnoticed.
Wrong(cells) == {i \in DOMAIN cells : cells[i] \in {Error, Panic}}
GoesWrong(cells, how) ==
  \E i \in Wrong(cells) : cells[i] = how /\ \A j \in Wrong(cells) : i <= j
MayOverflow(cells) ==
  \E i \in DOMAIN cells : cells[i].over /\ \A j \in Wrong(cells) : i <= j

\* Mutant: the encoder stays at the row.
RowAfterKept == row

RowAfter == row + 1

SendRow ==
  /\ Streaming /\ InBatch
  /\ Wrong(EncodedRow) = {}
  /\ sent' = Append(sent, EncodedRow)
  /\ row' = RowAfter
  /\ UNCHANGED <<version, statement, plan, hints, described, bound, format, literals, phase, batch, binds>>

\* Mutant: the row is tried again.
RowFailsRetried ==
  /\ Streaming /\ InBatch
  /\ GoesWrong(EncodedRow, Error)
  /\ UNCHANGED portalVars

RowFails ==
  /\ Streaming /\ InBatch
  /\ GoesWrong(EncodedRow, Error)
  /\ phase' = "failed"
  /\ UNCHANGED <<version, statement, plan, hints, described, bound, format, literals, batch, row, sent, binds>>

RowPanics ==
  /\ Streaming /\ InBatch
  /\ GoesWrong(EncodedRow, Panic) \/ MayOverflow(EncodedRow)
  /\ phase' = "lost"
  /\ UNCHANGED <<version, statement, plan, hints, described, bound, format, literals, batch, row, sent, binds>>

NextBatch ==
  /\ Streaming /\ batch \in DOMAIN plan.batches
  /\ ~Batch.fails /\ row = Len(Batch.rows)
  /\ batch' = batch + 1 /\ row' = 0
  /\ UNCHANGED <<version, statement, plan, hints, described, bound, format, literals, phase, sent, binds>>

BatchFails ==
  /\ Streaming /\ batch \in DOMAIN plan.batches
  /\ Batch.fails
  /\ phase' = "failed"
  /\ UNCHANGED <<version, statement, plan, hints, described, bound, format, literals, batch, row, sent, binds>>

LastRow ==
  /\ Streaming /\ batch \notin DOMAIN plan.batches
  /\ phase' = "done"
  /\ UNCHANGED <<version, statement, plan, hints, described, bound, format, literals, batch, row, sent, binds>>

\* All of an INSERT runs before it is answered with the number of its rows.
Insert ==
  /\ phase = "executing" /\ plan.kind = "insert"
  /\ phase' = IF \E b \in Range(plan.batches) : b.fails THEN "failed" ELSE "done"
  /\ UNCHANGED <<version, statement, plan, hints, described, bound, format, literals, batch, row, sent, binds>>

Parse == (\E s \in Statements : Prepare(s)) \/ PrepareEmpty \/ PrepareFails
Run == SendRow \/ RowFails \/ RowPanics \/ NextBatch \/ BatchFails \/ LastRow \/ Insert
Client ==
  \/ Describe \/ DescribeFails \/ Redefine \/ Bind \/ ExecuteEmpty
  \/ Execute \/ ExecuteFails \/ ExecutePanics

PortalNext == Parse \/ Run \/ Client
PortalSpec == PortalInit /\ [][PortalNext]_portalVars

-----------------------------------------------------------------------------
(* Properties *)

\* Placeholders $1 to $n, none left out.
Contiguous == DOMAIN plan.context = 1 .. Cardinality(DOMAIN plan.context)

\* A client is told the type of $k at position k, also beyond $9
\* (Parser::get_parameter_types).
DescribedByNumber ==
  described.told /\ Contiguous =>
    /\ Len(described.params) = Cardinality(DOMAIN plan.context)
    /\ \A k \in DOMAIN plan.context :
         described.params[k] = DescribedType(IF plan.context[k] = Untyped THEN CastType(plan, k)
                                             ELSE plan.context[k])

\* What may become of a number h that arrives as an integer n of 64ths: an integer
\* stays, a float moves by Epsilon at most, but for the one beyond the greatest i64,
\* and a numeric loses its fraction.
ArrivesAsInt(name, h, n) ==
  /\ IsWhole(n)
  /\ name \in {"INT2", "INT4", "INT8"} => n = h
  /\ name \in {"FLOAT4", "FLOAT8"} => Size(n - h) <= Epsilon \/ (h = One * 128 /\ n = One * 127)
  /\ name = "NUMERIC" => Size(n) <= Size(h) /\ Size(h - n) < One

\* A value, the PostgreSQL type it is read as, the inferred type, the literal.
Arrives(v, type, inferred, l) ==
  /\ v = NullValue => l.value = NullValue
  /\ l.value = NullValue =>
       \/ v = NullValue
       \/ /\ type.name = "NUMERIC" /\ inferred.kind \in Ints
          /\ v.n[1] \div One \notin IntRange[inferred.kind]
       \/ /\ inferred.kind \in {Timestamp.Nanosecond, TimestampTz.Nanosecond}
          /\ v.n[1] * Thousand \notin IntRange.Int64
  /\ v.is = "number" /\ l.value # NullValue =>
       /\ inferred.kind \in Ints => l.type = inferred /\ ArrivesAsInt(type.name, v.n[1], l.value.n[1])
       /\ type.name = "NUMERIC" /\ inferred.kind = "Decimal128" =>
            IsWhole(l.value.n[1]) /\ 2 * Size(l.value.n[1] - v.n[1]) <= One
  /\ v.is = "number" /\ inferred.kind \in Floats =>
       /\ l.type = inferred
       /\ RoundTo(Mantissa[inferred.kind], l.value.n[1]) = l.value.n[1]
       /\ \A h \in {v.n[1] - 1, v.n[1], v.n[1] + 1} :
            RoundTo(Mantissa[inferred.kind], h) = h => l.value.n[1] \in {v.n[1] - 1, v.n[1], v.n[1] + 1}
  /\ inferred = Untyped /\ type.name # "INTERVAL" /\ ~NumericArray(type) => l.value = v
  /\ NumericArray(type) /\ v # NullValue =>
       /\ DOMAIN l.value.n = DOMAIN v.n
       /\ inferred.kind # "List" =>
            \A i \in DOMAIN v.n :
              IF v.n[i] # NullItem /\ LastPlace(v.n[i]) = LastPlace(v.n[1]) THEN l.value.n[i] = v.n[i]
              ELSE (l.value.n[i] = NullItem) = (v.n[i] = NullItem)

\* Each placeholder gets the value that was bound at its position, as the type that
\* is inferred for it (deserialize_parameters).  NULL stays NULL, and nothing else
\* is NULL but a numeric and a timestamp that do not fit into an integer or into
\* nanoseconds.  An integer arrives as another unchanged, a float as an integer it
\* equals up to EPSILON; a numeric loses its fraction.  Where nothing is inferred a
\* value stays what it is, but the items of a NUMERIC[] do only if they have as many
\* places as the first.  A NULL without any type takes the place of none, so the
\* positions behind it are not looked at.
ValuesArrive ==
  phase \in {"executing", "done"} /\ plan.kind # "empty" /\ Contiguous =>
    \A k \in DOMAIN plan.context :
      (\A j \in 1 .. k : Deserialize[j] # Dropped) =>
        Arrives(bound[k], TypeOfParameter(hints, plan, k), InferredTypes(plan)[k], literals[k])

\* Every row can be read by what the client was told of the columns, whatever
\* became of the tables since (get_result_schema, encode_dataframe).  A bare
\* placeholder is not looked at, for it has the type of its literal, and an Int8
\* is the byte it is written as; DELETE is told to return no row.
ReadAsDescribed ==
  described.told /\ plan.kind = "query" =>
    \A r \in DOMAIN sent :
      /\ DOMAIN sent[r] = DOMAIN described.columns
      /\ \A i \in DOMAIN plan.columns :
           plan.columns[i].param = Computed /\ format = "binary"
             => sent[r][i] \in ReadableAs[described.columns[i]]

\* The rows of the first n batches.
RowsUpTo(batches, n) ==
  LET rows[k \in 0 .. Len(batches)] == IF k = 0 THEN <<>> ELSE rows[k - 1] \o batches[k].rows
  IN rows[n]

\* Those that were sent before row r + 1 of batch b.
RowsBefore(batches, b, r) ==
  RowsUpTo(batches, b - 1) \o (IF b \in DOMAIN batches THEN SubSeq(batches[b].rows, 1, r) ELSE <<>>)
RowsRead == RowsBefore(plan.batches, batch, row)

\* The client gets the rows of the batches in their order, each once and all of
\* them before it is told the statement is complete, with NULL where the cell is
\* NULL (RowEncoder::next_row, encode_value).
RowsFaithful ==
  phase \in {"executing", "done", "failed"} /\ plan.kind \notin {"insert", "empty"} =>
    /\ Len(sent) = Len(RowsRead)
    /\ phase = "done" => batch > Len(plan.batches) /\ \A b \in Range(plan.batches) : ~b.fails
    /\ \A r \in DOMAIN sent : \A i \in DOMAIN plan.columns :
         plan.columns[i].param = Computed =>
           sent[r][i] \in NullsKept[plan.columns[i].field][RowsRead[r][i]]
=============================================================================
