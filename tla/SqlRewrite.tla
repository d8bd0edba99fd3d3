----------------------------- MODULE SqlRewrite ------------------------------
(***************************************************************************)
(* PostgresCompatibilityParser: the message is scanned token by token      *)
(* (TokenRewrite), the statements in what comes out are parsed, and each   *)
(* of them runs through the rewrite rules, one rule after the other.       *)
(*                                                                         *)
(* A statement is a tree of nodes [kind, qual, name, alias, args], where   *)
(* kind is the variant of sqlparser's Expr, TableFactor, SelectItem or     *)
(* SetExpr, qual a schema or table qualifier and args the children:        *)
(*   query         <<body, order>>, the body a select or another kind; its *)
(*                 name is its LIMIT, OFFSET or FETCH, if it has one       *)
(*   select        <<items, from, where>>, lists of nodes                  *)
(*   string, braces, digits   string literals: a name, '{a,b}' with its    *)
(*                            elements in args, and '16417'                *)
(* What is recursive over trees is a function on Trees, the trees that are *)
(* not too deep for the parser.                                            *)
(***************************************************************************)
EXTENDS TokenRewrite, FiniteSets

CONSTANTS
  Grammar(_),  \* the statement that tokens form, or no tree
  Names,       \* names, operators and literals, as they stand in a node
  MaxDepth     \* the levels of a tree; the parser refuses what is deeper

\* The names that the rules write.
RuleNames ==
  {"", "__alias_", "pg_catalog", "array_contains", "current_schema", "session_user",
   "current_database", "parse_ident", "parts", "text", "version", "limit", "and", "=",
   "pg_class", "pg_namespace", "pg_type", "pg_proc", "c", "n", "oid", "relname", "nspname",
   "typname", "proname"}

ASSUME DepthAssumption == MaxDepth \in Nat
ASSUME NamesAssumption == RuleNames \subseteq Names

VARIABLES
  stage,       \* "scan", "rewrite", "ready" or "failed"
  statements,  \* the statements of the message
  current,     \* the statement being rewritten
  rule,        \* the rule that is next
  parsed       \* history: the statements as they were parsed

rewriteVars == <<tokenVars, stage, current, rule, statements, parsed>>

-----------------------------------------------------------------------------
(* Nodes *)

None == ""
Node(kind, qual, name, alias, args) ==
  [kind |-> kind, qual |-> qual, name |-> name, alias |-> alias, args |-> args]
Leaf(kind, name) == Node(kind, None, name, None, <<>>)
Column(table, name) == Node("column", table, name, None, <<>>)
Call(name, args) == Node("call", None, name, None, args)
Binary(op, left, right) == Node("binary", None, op, None, <<left, right>>)
TableAs(schema, name, alias) == Node("table", schema, name, alias, <<>>)
Item(e) == Node("unnamed", None, None, None, <<e>>)
ItemAs(e, alias) == Node("aliased", None, None, alias, <<e>>)
ListOf(kind, nodes) == Node(kind, None, None, None, nodes)
Select(items, from, where) ==
  Node("select", None, None, None,
    <<ListOf("items", items), ListOf("sources", from), ListOf("list", where)>>)
Query(body, order) == Node("query", None, None, None, <<body, ListOf("list", order)>>)
Subquery(query) == Node("subquery", None, None, None, <<query>>)
Null == Leaf("null", None)
NotParsed == Leaf("notparsed", None)

WithArgs(node, args) == [node EXCEPT !.args = args]
WithArg(node, i, arg) == WithArgs(node, [node.args EXCEPT ![i] = arg])

IsSelect(query) == query.args[1].kind = "select"
Items(query) == query.args[1].args[1].args
From(query) == query.args[1].args[2].args
Where(query) == query.args[1].args[3]
Order(query) == query.args[2]
WithItems(query, items) ==
  WithArg(query, 1, WithArg(query.args[1], 1, WithArgs(query.args[1].args[1], items)))

ItemExpr(item) == item.args[1]

\* The items that stand for all columns of a table.
Wildcards(query) == {k \in DOMAIN Items(query) : Items(query)[k].kind = "tablewildcard"}

\* Only tables and table functions are looked at, not derived tables.
TableAliases(query) ==
  {From(query)[k].alias : k \in {j \in DOMAIN From(query) :
     From(query)[j].kind \in {"table", "tablefunction"}}} \ {None}

StringKinds == {"string", "braces", "digits"}
IsString(e) == e.kind \in StringKinds

\* The elements of an array that is written as a string.
Elements(e) == IF e.kind = "braces" THEN e.args ELSE <<e>>

-----------------------------------------------------------------------------
(* Trees *)

ItemKinds == {"unnamed", "aliased", "wildcard", "tablewildcard"}
SourceKinds == {"table", "tablefunction", "derived"}
BodyKinds == {"select", "union", "values", "query", "insert"}
LeafKinds ==
  {"string", "digits", "null", "ident", "column", "param", "number", "register", "wildcard",
   "tablewildcard", "table", "rollback"}
UnaryKinds == {"cast", "castas", "collate", "unnamed", "aliased", "subquery", "derived"}
BinaryKinds == {"any", "all", "binary"}
Lists == {"items", "sources", "list"}
Kinds ==
  LeafKinds \union UnaryKinds \union BinaryKinds \union ItemKinds \union SourceKinds
    \union BodyKinds \union StringKinds
    \union Lists \union {"call", "array", "not"}

\* What stands without parentheses although it is a function.
Registers == {"current_user", "current_catalog", "session_user"}

ChildKinds(kind, i) ==
  CASE kind = "braces" -> {"string"}
    [] kind = "items" -> ItemKinds
    [] kind = "sources" -> SourceKinds
    [] kind = "select" -> {<<"items", "sources", "list">>[i]}
    [] kind = "query" -> IF i = 1 THEN BodyKinds ELSE {"list"}
    [] kind \in {"subquery", "derived"} -> {"query"}
    [] OTHER -> Kinds \ Lists

Shape(n) ==
  /\ n.kind \in LeafKinds => n.args = <<>>
  /\ n.kind \in UnaryKinds => Len(n.args) = 1
  /\ n.kind \in BinaryKinds \union {"query"} => Len(n.args) = 2
  /\ n.kind = "select" => Len(n.args) = 3
  /\ n.kind = "register" => n.name \in Registers
  /\ \A i \in DOMAIN n.args : n.args[i].kind \in ChildKinds(n.kind, i)

\* A rule may put more levels into the place of one of these; they are counted
\* from the start, so that what a rule makes of a tree is one again.
RegTypes == {"regclass", "regnamespace", "regtype", "regproc"}
Growth == 11
Grows(n) ==
  \/ n.kind = "all"
  \/ /\ n.kind \in {"cast", "castas"}
     /\ IF n.alias = "array" THEN n.args[1].kind # "array" ELSE n.name \in RegTypes

Below(d, levels) == IF d < levels THEN 0 ELSE d - levels
NodesOver(args) ==
  {n \in [kind : Kinds, qual : Names, name : Names, alias : Names, args : Seq(args)] : Shape(n)}
TreesAt[d \in 0 .. MaxDepth] ==
  IF d = 0 THEN {}
  ELSE {n \in NodesOver(TreesAt[d - 1]) :
          Grows(n) => \A i \in DOMAIN n.args : n.args[i] \in TreesAt[Below(d, Growth)]}
Trees == TreesAt[MaxDepth]

\* The nodes of a tree that a walk from its root comes to.
MayGo(e) ==
  \/ e.kind \in {"subquery", "collate"}
  \/ e.kind \in {"cast", "castas"} /\ e.name \in RegTypes
Stops(walk, n) ==
  CASE walk = "compared" -> n.kind \notin {"binary", "list"}
    [] walk = "kept" -> n.kind \in {"unnamed", "aliased"} /\ MayGo(ItemExpr(n))
    [] OTHER -> FALSE
Reached(walk) ==
  LET reached[n \in Trees] ==
        {n} \union IF Stops(walk, n) THEN {} ELSE UNION {reached[n.args[i]] : i \in DOMAIN n.args}
  IN reached
Nodes(n) == Reached("all")[n]

-----------------------------------------------------------------------------
(* The rules.  Two look at the statement itself, the others are visitors.  *)

\* A column that an unqualified or a qualified wildcard brings in once more.
Duplicated(query, e) ==
  \/ /\ e.kind = "ident"
     /\ \E k \in DOMAIN Items(query) : Items(query)[k].kind \in {"tablewildcard", "wildcard"}
  \/ e.kind = "column" /\ \E k \in Wildcards(query) : Items(query)[k].qual = e.qual

\* The alias is the column's name behind this prefix; nothing looks at the name.
DuplicateAlias == "__alias_"
AliasDuplicated(query) ==
  LET Alias(item) ==
        IF item.kind = "unnamed" /\ Duplicated(query, ItemExpr(item))
        THEN ItemAs(ItemExpr(item), DuplicateAlias) ELSE item
  IN WithItems(query, [k \in DOMAIN Items(query) |-> Alias(Items(query)[k])])

ProjectionAliases(query) ==
  {Items(query)[k].alias : k \in {j \in DOMAIN Items(query) : Items(query)[j].kind = "aliased"}}
    \union {ItemExpr(Items(query)[k]).name : k \in {j \in DOMAIN Items(query) :
              Items(query)[j].kind = "unnamed" /\ ItemExpr(Items(query)[j]).kind = "ident"}}

\* Bare names of comparisons, in WHERE and ORDER BY.
WithTable(table, known, e, parts) ==
  CASE e.kind = "ident" /\ e.name \notin known -> Column(table, e.name)
    [] e.kind = "binary" -> WithArgs(e, parts)
    [] OTHER -> e
Qualified(table, known) ==
  LET qualified[e \in Trees] ==
        WithTable(table, known, e, [i \in DOMAIN e.args |-> qualified[e.args[i]]])
  IN qualified
QualifyAll(list, table, known) ==
  WithArgs(list, [i \in DOMAIN list.args |-> Qualified(table, known)[list.args[i]]])

OneTable(query) == TableAliases(query) # {} /\ \E k \in Wildcards(query) : Wildcards(query) = {k}
ResolveUnqualified(query) ==
  IF ~OneTable(query) THEN query
  ELSE LET table == Items(query)[CHOOSE k \in Wildcards(query) : TRUE].qual
           known == TableAliases(query) \union ProjectionAliases(query)
       IN WithArg(
            WithArg(query, 1, WithArg(query.args[1], 3, QualifyAll(Where(query), table, known))),
            2, QualifyAll(Order(query), table, known))

ArrayOf(elements) == Node("array", None, None, None, elements)
ArrayContains(e) ==
  LET array == IF e.args[2].kind = "braces" THEN ArrayOf(Elements(e.args[2])) ELSE e.args[2]
  IN Call("array_contains", <<array, e.args[1]>>)

\* = ANY and <> ALL are membership; the two others are left alone.
ArrayAnyAll(e) ==
  CASE e.kind = "any" /\ e.name = "=" -> ArrayContains(e)
    [] e.kind = "all" /\ e.name = "<>" -> Node("not", None, None, None, <<ArrayContains(e)>>)
    [] OTHER -> e

CatalogTables == {"pg_class", "pg_type", "pg_namespace"}
PrependCatalog(f) ==
  IF f.kind = "table" /\ f.qual = None /\ f.name \in CatalogTables
  THEN [f EXCEPT !.qual = "pg_catalog"] ELSE f

StripCallable(n) ==
  IF n.kind \in {"call", "tablefunction"} THEN [n EXCEPT !.qual = None] ELSE n

TextTypes == {"text", "varchar"}
ArrayString(e) == e.kind = "cast" /\ e.alias = "array" /\ IsString(e.args[1])
FixArray(e) ==
  LET Element(s) == IF e.qual = None /\ e.name \in TextTypes THEN s ELSE Leaf("number", s.name)
      elements == Elements(e.args[1])
  IN IF ArrayString(e)
     THEN WithArg(e, 1, ArrayOf([i \in DOMAIN elements |-> Element(elements[i])])) ELSE e

\* Registers stand without parentheses; only those of SQL may stay so.
CurrentUser(e) ==
  CASE e.kind = "ident" /\ e.name = "current_schema" -> Call("current_schema", <<>>)
    [] e.kind \in {"register", "call"} /\ e.name = "current_user" ->
         [e EXCEPT !.name = "session_user", !.qual = None]
    [] e.kind \in {"register", "call"} /\ e.name = "current_catalog" ->
         Call("current_database", e.args)
    [] OTHER -> e

StripCollate(e) == IF e.kind = "collate" THEN e.args[1] ELSE e

RegexOperators == {"~", "!~"}
BareOperator(e) ==
  IF e.kind = "binary" /\ e.qual = "pg_catalog" /\ e.name \in RegexOperators
  THEN [e EXCEPT !.qual = None] ELSE e

-----------------------------------------------------------------------------
(* Casts of names to OIDs.  The operand takes the template's placeholder.  *)

ClassTemplate(operand) ==
  Query(Select(<<Item(Column("c", "oid"))>>,
          <<TableAs("pg_catalog", "pg_class", "c"), TableAs("pg_catalog", "pg_namespace", "n"),
            Node("derived", None, None, None,
              <<Query(Select(<<ItemAs(Call("parse_ident",
                   <<Node("cast", None, "text", None, <<operand>>)>>), "parts")>>,
                   <<>>, <<>>), <<>>)>>)>>,
          <<Binary("and", Binary("=", Column("n", "nspname"), Call("current_schema", <<>>)),
                          Binary("=", Column("c", "relname"), Leaf("ident", "parts")))>>),
        <<>>)
NameTemplate(table, column, operand) ==
  Query(Select(<<Item(Leaf("ident", "oid"))>>, <<TableAs("pg_catalog", table, None)>>,
          <<Binary("=", Leaf("ident", column), operand)>>), <<>>)
Template(type, operand) ==
  CASE type = "regclass" -> ClassTemplate(operand)
    [] type = "regnamespace" -> NameTemplate("pg_namespace", "nspname", operand)
    [] type = "regtype" -> NameTemplate("pg_type", "typname", operand)
    [] OTHER -> NameTemplate("pg_proc", "proname", operand)

RegCast(e) ==
  /\ e.kind \in {"cast", "castas"}
  /\ e.alias = None /\ e.qual \in {None, "pg_catalog"} /\ e.name \in RegTypes
  /\ IsString(e.args[1]) \/ e.args[1].kind = "param"

\* Mutant: the template is used as it is.
LookUpUnbound(type, operand) == Subquery(Template(type, Leaf("param", "$1")))

\* A number in quotes is the OID itself.
LookUp(type, operand) ==
  IF operand.kind = "digits" THEN Leaf("number", operand.name) ELSE Subquery(Template(type, operand))

RegCastToSubquery(e) == IF RegCast(e) THEN LookUp(e.name, e.args[1]) ELSE e

-----------------------------------------------------------------------------
(* Subqueries in a projection *)

Correlated(query) ==
  /\ IsSelect(query)
  /\ \E n \in Nodes(query) :
       \/ n.kind = "param"
       \/ n.kind = "column" /\ n.qual \notin TableAliases(query)

\* An OFFSET alone is a limit clause too, and a FETCH counts as one.
HasLimit(query) == query.name # None

\* Mutant: LIMIT 1 takes the place of the limit that the client gave.
LimitedAnew(query) == [query EXCEPT !.name = "limit"]

Limited(query) == IF HasLimit(query) THEN query ELSE [query EXCEPT !.name = "limit"]
Scalar(e) ==
  IF e.kind # "subquery" THEN e
  ELSE IF Correlated(e.args[1]) THEN Null ELSE WithArg(e, 1, Limited(e.args[1]))

TopSelect(s) == s.kind = "query" /\ IsSelect(s)

\* Mutant: subqueries with an alias are left alone.
RemoveSubqueryUnnamed(query) ==
  LET Expr(i) == IF i.kind = "unnamed" THEN WithArg(i, 1, Scalar(ItemExpr(i))) ELSE i IN
  IF TopSelect(query)
  THEN WithItems(query, [k \in DOMAIN Items(query) |-> Expr(Items(query)[k])]) ELSE query

RemoveSubquery(query) ==
  LET Expr(i) ==
        IF i.kind \in {"unnamed", "aliased"} THEN WithArg(i, 1, Scalar(ItemExpr(i))) ELSE i
  IN IF TopSelect(query)
     THEN WithItems(query, [k \in DOMAIN Items(query) |-> Expr(Items(query)[k])]) ELSE query

FixVersion(query) ==
  LET Named(i) == IF i = Item(Call("version", <<>>)) THEN ItemAs(ItemExpr(i), "version") ELSE i IN
  IF TopSelect(query)
  THEN WithItems(query, [k \in DOMAIN Items(query) |-> Named(Items(query)[k])]) ELSE query

-----------------------------------------------------------------------------
(* Parsing and rewriting a message *)

PreVisit(name, n) ==
  CASE name = "anyall" -> ArrayAnyAll(n)
    [] name = "catalog" -> PrependCatalog(n)
    [] name = "callable" -> StripCallable(n)
    [] name = "array" -> FixArray(n)
    [] name = "user" -> CurrentUser(n)
    [] name = "collate" -> StripCollate(n)
    [] name = "operator" -> BareOperator(n)
    [] name = "regcast" -> RegCastToSubquery(n)
    [] name = "subquery" -> RemoveSubquery(n)
    [] OTHER -> FixVersion(n)

\* What VisitorMut does: a node first, then the children of what it became.
Visited(name) ==
  LET visited[n \in Trees] ==
        LET m == PreVisit(name, n)
        IN WithArgs(m, [i \in DOMAIN m.args |-> visited[m.args[i]]])
  IN visited

Apply(name, s) ==
  CASE name = "alias" -> IF TopSelect(s) THEN AliasDuplicated(s) ELSE s
    [] name = "resolve" -> IF TopSelect(s) THEN ResolveUnqualified(s) ELSE s
    [] OTHER -> Visited(name)[s]

\* Mutant: names are resolved before duplicates have their aliases.
RuleOrderResolveFirst ==
  <<"resolve", "alias", "anyall", "catalog", "callable", "array", "user",
    "collate", "operator", "regcast", "subquery", "version">>

\* Mutant: casts become subqueries after the projection was looked at.
RuleOrderCastsLate ==
  <<"alias", "resolve", "anyall", "catalog", "callable", "array", "user",
    "collate", "operator", "subquery", "regcast", "version">>

RuleOrder ==
  <<"alias", "resolve", "anyall", "catalog", "callable", "array", "user",
    "collate", "operator", "regcast", "subquery", "version">>

\* Statements lie between semicolons.
Starts(words) ==
  {i \in DOMAIN words : words[i] # Semicolon /\ (i = 1 \/ words[i - 1] = Semicolon)}
Parts(words) ==
  LET starts == Starts(words)
      Start(k) == CHOOSE i \in starts : Cardinality({j \in starts : j <= i}) = k
      End(i) == FirstOf({j \in i .. Len(words) + 1 : j > Len(words) \/ words[j] = Semicolon})
  IN [k \in 1 .. Cardinality(starts) |-> SubSeq(words, Start(k), End(Start(k)) - 1)]

Parsed(words) ==
  LET parts == Parts(words) IN [k \in DOMAIN parts |-> Grammar(parts[k])]

\* A statement is no expression.
StatementKinds == {"query", "insert", "rollback"}
AreStatements(parts) == \A k \in DOMAIN parts : parts[k] \in Trees /\ parts[k].kind \in StatementKinds

RewriteInit ==
  /\ TokenInit
  /\ stage = "scan"
  /\ statements = <<>> /\ parsed = <<>>
  /\ current = 1 /\ rule = 1

ScanToken ==
  /\ stage = "scan"
  /\ TokenNext
  /\ UNCHANGED <<stage, statements, current, rule, parsed>>

ParseTokens ==
  /\ stage = "scan" /\ Scanned
  /\ AreStatements(Parsed(output))
  /\ statements' = Parsed(output)
  /\ parsed' = Parsed(output)
  /\ stage' = "rewrite"
  /\ UNCHANGED <<tokenVars, current, rule>>

\* One statement that does not parse, or is too deep, refuses the message.
FailParse ==
  /\ stage = "scan" /\ Scanned
  /\ ~AreStatements(Parsed(output))
  /\ stage' = "failed"
  /\ UNCHANGED <<tokenVars, statements, current, rule, parsed>>

\* Mutant: the rules go on where the last statement left them.
RuleAfterKept == IF rule = Len(RuleOrder) THEN rule ELSE rule + 1

RuleAfter == IF rule = Len(RuleOrder) THEN 1 ELSE rule + 1

ApplyRule ==
  /\ stage = "rewrite"
  /\ current \in DOMAIN statements
  /\ statements' = [statements EXCEPT ![current] = Apply(RuleOrder[rule], @)]
  /\ rule' = RuleAfter
  /\ current' = IF rule = Len(RuleOrder) THEN current + 1 ELSE current
  /\ UNCHANGED <<tokenVars, stage, parsed>>

Finish ==
  /\ stage = "rewrite"
  /\ current > Len(statements)
  /\ stage' = "ready"
  /\ UNCHANGED <<tokenVars, statements, current, rule, parsed>>

RewriteNext == ScanToken \/ ParseTokens \/ FailParse \/ ApplyRule \/ Finish
RewriteSpec == RewriteInit /\ [][RewriteNext]_rewriteVars

-----------------------------------------------------------------------------
(* Properties *)

\* COLLATE is taken away after other rules have looked at what stands around
\* it.  A COLLATE on the result of another: the visitor goes on below the one it
\* took away and leaves the other.
CollatedTwice(n) == n.kind = "collate" /\ n.args[1].kind = "collate"

\* An array in a string that the rule for these did not see below its COLLATE.
CollatedArray(n) ==
  n.kind = "cast" /\ n.alias = "array" /\ n.args[1].kind = "collate" /\ IsString(n.args[1].args[1])

\* An item, or a part of a comparison, that is a name below a COLLATE.
CollatedName(n) ==
  /\ n.kind \in {"unnamed", "binary", "list"}
  /\ \E i \in DOMAIN n.args :
       n.args[i].kind = "collate" /\ n.args[i].args[1].kind \in {"ident", "column", "binary"}

\* The statements that are through; they stay as they are once all of them are.
Rewritten == {i \in DOMAIN statements : stage = "rewrite" /\ current > i}

\* Up to what COLLATE hides, no rule has anything left to do in a statement that
\* the rules went over once (PostgresCompatibilityParser::rewrite): a client that
\* sends back what it got, or a server that parses it again, sees no change.
Fixpoint ==
  \A i \in Rewritten :
    \/ \E n \in Nodes(parsed[i]) : CollatedTwice(n) \/ CollatedArray(n) \/ CollatedName(n)
    \/ \A k \in DOMAIN RuleOrder : Apply(RuleOrder[k], statements[i]) = statements[i]

\* Nothing that a rule is there to remove is left anywhere in a statement, in a
\* subquery, or in what another rule put there.
Plannable(n) ==
  /\ n.kind # "collate"
  /\ n.kind \in {"call", "tablefunction"} => n.qual = None
  /\ n.kind = "call" => n.name \notin {"current_user", "current_catalog"}
  /\ n.kind # "register" \/ n.name = "session_user"
  /\ n.kind # "any" \/ n.name # "="
  /\ n.kind # "all" \/ n.name # "<>"
  /\ n.kind = "binary" => n.qual # "pg_catalog" \/ n.name \notin RegexOperators
  /\ ~RegCast(n)
  /\ ~(n.kind = "ident" /\ n.name = "current_schema")
  /\ ~ArrayString(n)
  /\ n.kind = "table" /\ n.qual = None => n.name \notin CatalogTables

\* Up to what COLLATE hides, DataFusion meets none of the constructs it cannot
\* plan after the last rule (the rewrite rules of sql/rules.rs).
PlannableInTheEnd ==
  \A i \in Rewritten :
    \/ \E n \in Nodes(parsed[i]) : CollatedTwice(n) \/ CollatedArray(n)
    \/ \A n \in Nodes(statements[i]) : Plannable(n)

\* Names a query uses bare in its comparisons.
BareNames(list) == {e.name : e \in {n \in Reached("compared")[list] : n.kind = "ident"}}

\* In a query with one table's wildcard, WHERE and ORDER BY name columns of the
\* finished projection or qualify them: the aliases that keep a duplicated
\* column apart hide its name (ResolveUnqualifiedIdentifier).
NamesResolve ==
  \A i \in Rewritten :
    \/ \E n \in Nodes(parsed[i]) : CollatedName(n)
    \/ LET s == statements[i] IN
       TopSelect(s) /\ OneTable(s) =>
         BareNames(Where(s)) \union BareNames(Order(s))
           \subseteq ProjectionAliases(s) \union TableAliases(s)

\* The subqueries that are columns of a query.
ItemSubquery(item) == item.kind \in {"unnamed", "aliased"} /\ ItemExpr(item).kind = "subquery"
Subqueries(query) ==
  {ItemExpr(Items(query)[k]) : k \in {j \in DOMAIN Items(query) : ItemSubquery(Items(query)[j])}}

\* No subquery that a SELECT has as a column returns all of its rows, be it the
\* client's or one that a cast to regclass became: it has the limit that the
\* client gave it, and LIMIT 1 where the client gave none.  Such a cast of a name
\* is never dropped.  The branches of a UNION are no such SELECT
\* (RemoveSubqueryFromProjection, has_limit).
ScalarSubqueries ==
  \A i \in Rewritten :
    /\ \A q \in Nodes(statements[i]) :
         TopSelect(q) => \A e \in Subqueries(q) : HasLimit(e.args[1])
    /\ TopSelect(parsed[i]) =>
         \A k \in DOMAIN Items(parsed[i]) :
           LET old == Items(parsed[i])[k] new == Items(statements[i])[k] IN
           /\ old.kind = "unnamed" /\ RegCast(ItemExpr(old)) /\ IsString(ItemExpr(old).args[1])
                => ItemExpr(new).kind # "null"
           /\ ItemSubquery(old) =>
                \/ ItemExpr(new).kind = "null"
                \/ ItemExpr(new).args[1].name =
                     IF HasLimit(ItemExpr(old).args[1]) THEN ItemExpr(old).args[1].name ELSE "limit"

ParametersIn(nodes) == {m.name : m \in {n \in nodes : n.kind = "param"}}
ParametersOf(s) == ParametersIn(Nodes(s))

\* No rule invents a parameter, and all stay but those below a column that may
\* be dropped: the client binds its values by number
\* (RewriteRegCastToSubquery::create_subquery).
ParametersBound ==
  \A i \in Rewritten :
    /\ ParametersOf(statements[i]) \subseteq ParametersOf(parsed[i])
    /\ ParametersIn(Reached("kept")[parsed[i]]) \subseteq ParametersOf(statements[i])
=============================================================================
