---------------------------- MODULE MC_SqlRewrite ---------------------------
(***************************************************************************)
(* Instances of SqlRewrite for TLC.  The words are phrases: a message is   *)
(* SELECT, up to two columns, a table and optionally a condition and an    *)
(* order.  The grammar puts their trees together.                          *)
(***************************************************************************)
EXTENDS SqlRewrite, SequencesExt

MCNames == STRING

Ident(n) == Leaf("ident", n)
Str(n) == Leaf("string", n)
Cast(type, e) == Node("cast", None, type, None, <<e>>)
Collate(e) == Node("collate", None, "C", None, <<e>>)
Braces == Node("braces", None, "{1,2}", None, <<Leaf("string", "1"), Leaf("string", "2")>>)
Wild(table) == Node("tablewildcard", table, None, None, <<>>)
N == TableAs("s", "t", "n")

Items1 ==
  "oid" :> Item(Ident("oid"))
  @@ "n.oid" :> Item(Column("n", "oid"))
  @@ "n.*" :> Wild("n")
  @@ "*" :> Node("wildcard", None, None, None, <<>>)
  @@ "'c'::regclass" :> Item(Cast("regclass", Str("c")))
  @@ "'7'::regtype" :> Item(Cast("regtype", Leaf("digits", "7")))
  @@ "$1::regclass" :> Item(Cast("regclass", Leaf("param", "$1")))
  @@ "(SELECT oid FROM pg_type)" :>
       ItemAs(Subquery(Query(Select(<<Item(Ident("oid"))>>, <<TableAs(None, "pg_type", None)>>, <<>>), <<>>)), "x")
  @@ "(SELECT oid FROM pg_type OFFSET 2)" :>
       Item(Subquery([Query(Select(<<Item(Ident("oid"))>>, <<TableAs(None, "pg_type", None)>>, <<>>), <<>>)
                        EXCEPT !.name = "OFFSET 2"]))
  @@ "(SELECT n.oid FROM t)" :>
       Item(Subquery(Query(Select(<<Item(Column("n", "oid"))>>, <<TableAs(None, "t", None)>>, <<>>), <<>>)))
  @@ "pg_catalog.version()" :> Item([Call("version", <<>>) EXCEPT !.qual = "pg_catalog"])
  @@ "current_user" :> Item(Leaf("register", "current_user"))
  @@ "current_catalog" :> Item(Leaf("register", "current_catalog"))
  @@ "'{1,2}'::int[]" :> Item(Node("cast", None, "int", "array", <<Braces>>))
  @@ "'r'::regnamespace" :> Item(Cast("regnamespace", Str("r")))
  @@ "oid COLLATE C" :> Item(Collate(Ident("oid")))
  @@ "('{1,2}' COLLATE C)::int[]" :> Item(Node("cast", None, "int", "array", <<Collate(Braces)>>))
  @@ "'{1,2}'::text[]" :> Item(Node("cast", None, "text", "array", <<Braces>>))

Tables ==
  "FROM s.t n" :> N
  @@ "FROM pg_class c" :> TableAs(None, "pg_class", "c")
  @@ "FROM t" :> TableAs(None, "t", None)
  @@ "FROM pg_catalog.f() n" :> Node("tablefunction", "pg_catalog", "f", "n", <<>>)
  @@ "FROM (SELECT $3::regtype) n" :>
       Node("derived", None, None, "n",
         <<Query(Select(<<Item(Cast("regtype", Leaf("param", "$3")))>>, <<>>, <<>>), <<>>)>>)

Conditions ==
  "WHERE oid = $2" :> Binary("=", Ident("oid"), Leaf("param", "$2"))
  @@ "WHERE x = ANY('{1,2}')" :> Node("any", None, "=", None, <<Ident("x"), Braces>>)
  @@ "WHERE x <> ALL(y)" :> Node("all", None, "<>", None, <<Collate(Ident("x")), Ident("y")>>)
  @@ "WHERE x OPERATOR(pg_catalog.~) 'a' COLLATE C" :>
       [Binary("~", Ident("x"), Collate(Str("a"))) EXCEPT !.qual = "pg_catalog"]
  @@ "WHERE x COLLATE C = $1::regproc" :>
       Binary("=", Collate(Ident("x")), Cast("regproc", Leaf("param", "$1")))
  @@ "WHERE x IN (SELECT $2::regtype)" :>
       Binary("in", Ident("x"), Subquery(Query(Select(<<Item(Ident("current_schema"))>>, <<>>,
         <<Cast("regtype", Leaf("param", "$2"))>>), <<>>)))

Orders == "ORDER BY oid" :> Ident("oid") @@ "ORDER BY version" :> Ident("version")

Others ==
  "SELECT 'c'::regclass UNION SELECT 1" :>
     Query(Node("union", None, None, None,
       <<Select(<<Item(Cast("regclass", Str("c")))>>, <<>>, <<>>),
         Select(<<Item(Leaf("number", "1"))>>, <<>>, <<>>)>>), <<>>)
  @@ "ROLLBACK" :> Leaf("rollback", None)
  @@ "VALUES ($1 COLLATE C COLLATE C)" :>
       Query(Node("values", None, None, None, <<Collate(Collate(Leaf("param", "$1")))>>), <<>>)
  @@ "INSERT INTO u SELECT 'c'::regclass" :>
       Node("insert", None, "u", None,
         <<Query(Select(<<Item(Cast("regclass", Str("c")))>>, <<>>, <<>>), <<>>)>>)

\* The trees of the phrases of a kind, in their order.
Trees1(words, S) ==
  LET places == {i \in DOMAIN words : words[i] \in DOMAIN S}
  IN [k \in 1 .. Cardinality(places) |->
        S[words[CHOOSE i \in places : Cardinality({j \in places : j <= i}) = k]]]

MCTree[words \in Seq(STRING)] ==
  IF Len(words) = 1 /\ words[1] \in DOMAIN Others THEN Others[words[1]]
  ELSE IF words[1] = "SELECT" /\ Trees1(words, Tables) # <<>>
  THEN Query(Select(Trees1(words, Items1), Trees1(words, Tables), Trees1(words, Conditions)),
             Trees1(words, Orders))
  ELSE NotParsed

MCWords ==
  {"SELECT", ";", "ABORT", "pg_description", "x"} \union DOMAIN Items1 \union DOMAIN Tables
    \union DOMAIN Conditions \union DOMAIN Orders \union DOMAIN Others

\* A whole statement of a client, and a part of one.
MCBlacklist ==
  <<[pattern |-> <<"SELECT", "$", "pg_description">>, by |-> <<"SELECT", "*", "FROM t">>],
    [pattern |-> <<"pg_description", "$">>, by |-> <<"n.oid">>]>>

Opt(S) == {<<>>} \union {<<x>> : x \in S}
Second == Opt({"oid", "n.oid", "n.*", "(SELECT oid FROM pg_type)", "$1::regclass"})
\* Each pair of columns with each table, and those with names and wildcards also
\* with each condition or order.
Selects ==
  {<<"SELECT", a>> \o b \o <<f>> : a \in DOMAIN Items1, b \in Second, f \in DOMAIN Tables}
    \union
  {<<"SELECT", a>> \o b \o <<f, last>> :
     a \in {"oid", "n.oid", "n.*", "$1::regclass"}, b \in Opt({"oid", "n.*", "$1::regclass"}),
     f \in DOMAIN Tables, last \in DOMAIN Conditions \union DOMAIN Orders}

Scripts ==
  {a \o <<";">> \o b : a \in {<<>>, <<"ABORT">>, <<"SELECT">>, <<"SELECT", "oid", "pg_description">>},
     b \in {<<>>, <<"ABORT">>, <<"pg_description">>, <<"SELECT", "'c'::regclass", "FROM t">>, <<"x">>}}
    \union {<<"SELECT", "x", ";", "pg_description", ";", "ABORT">>,
            <<"SELECT", "pg_description", ";", "pg_description", "FROM t">>,
            <<"SELECT", "pg_description", ";">>, <<"SELECT", "oid", "pg_description">>}
    \union {<<s, ";">> \o <<"SELECT", "n.*", "FROM s.t n">> : s \in DOMAIN Others}

MCMessages == Selects \union Scripts
=============================================================================
