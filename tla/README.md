# A TLA+ verification of datafusion-postgres

datafusion-postgres puts the PostgreSQL wire protocol and a `pg_catalog` in front
of DataFusion. This directory models the parts of it whose correctness depends on
order, sharing and failure, checks them with TLC on small instances and proves
the central theorems with TLAPS for every value of the constants. Paths below are
relative to the repository root; `PROJECT.json` maps every definition to the lines
it translates.

Check a run with `tlc -config OidCatalog_scans.cfg MC_OidCatalog`, a proof
with `tlapm OidCatalog_proofs.tla`.

## The system

| part | source | state | operations | hard behaviour |
|---|---|---|---|---|
| OID catalog | `datafusion-pg-catalog/src/pg_catalog.rs`, `pg_catalog/pg_{class,namespace,database,attribute}.rs` | one OID counter, one OID cache behind a tokio `RwLock`, shared by four tables of every connection | a scan of each table; `resolve_oid` | DDL between the awaits of a scan, aborted scans, partial enumerations that reconcile a shared cache |
| session | `datafusion-postgres/src/handlers.rs`, `hooks/` | transaction status, portals and cursors, prepared statements, client metadata | simple queries, Parse/Bind/Execute/Sync, the three default hooks | several statements in a message, late errors of streams, order of the hooks, pipelined errors |
| settings | `hooks/set_show.rs`, `client.rs` | metadata of a connection, config of the shared `SessionContext` | SET, SHOW | two stores for one variable, one of them shared |
| roles | `auth.rs`, `hooks/permissions.rs`, `pg_catalog/context.rs`, `pg_roles.rs` | users and roles behind two `RwLock`s | create, grant, revoke, inherit, check | recursion over inheritance, check-then-act between locks |
| server | `lib.rs` | connection semaphore | accept, TLS set-up, serve, end | permits on every path a connection can end |
| SQL compatibility | `datafusion-pg-catalog/src/sql/parser.rs`, `rules.rs` | none | token substitution, twelve rewrite rules | semicolons inside a match, order of rules, rewriting what was rewritten |
| parameters | `planner.rs`, `handlers.rs`, `arrow-pg/src/datatypes/df.rs` | the plan and types of a prepared statement | inference and order of `$n` types, bound values to literals | gaps and order of placeholders, widths, NULLs |
| encoding | `arrow-pg/src` | the row a `RowEncoder` is at | announced types, cell, list and record encoders, rows of batches | announced and written types disagree, errors and panics in the middle of a result |
| numeric functions | `datafusion-pg-functions/src/numeric` | none | width_bucket, div, mod and others | boundaries, signs, overflow |
| catalog functions, static tables, CLI | the rest | none | look-ups, formatting, file registration | little |

The parts meet as follows. The accept loop hands each connection to a task that
runs pgwire's protocol loop over a `DfSessionService`; all of them share one
`SessionContext`, hence its catalogs, its configuration and one OID catalog. A
statement is parsed and rewritten by the compatibility parser, offered to the hooks in
order, and otherwise planned and run by DataFusion, with the values a client bound in
place of the placeholders; the batches that come back are encoded row by row. When it names a `pg_catalog` table
that is a scan of the OID catalog. pgwire owns the transaction status and the
portal store of a connection and updates the status from the responses the
service returns.

What makes each part correct:

* OID catalog: an OID names one object for ever; an object keeps its OID while it
  exists; dropped objects leave the cache; no scan keeps the lock.
* session: the client's idea of the transaction block is the server's; a failed
  block changes no table and is never committed; every statement of a message is
  answered, in order, or the message fails; the connection gets ready again.
* settings: SHOW returns what SET stored; one connection's SET stays its own.
* roles: a permission check grants what was granted and ends.
* server: never more connections than permits, and permits come back.
* SQL compatibility: every listed statement is replaced as a whole, nothing else is
  touched; when the last rule has run, nothing any rule is there to remove is left,
  names still mean what they meant and parameters keep their numbers.
* parameters: a client is told the type of `$k` at position k; a bound value reaches
  its placeholder as the type inferred for it, and what cannot be had of it there is
  refused, NULL, or a fraction that is left off, as `ValuesArrive` says.
* encoding: a client can read every cell by the type it was told, gets every row once
  and in order, and NULL exactly where there is NULL.

## Modules

| module | what it is |
|---|---|
| `OidRegistry` | abstract: what clients may rely on about OIDs |
| `OidCatalog` | the counter, the cache, the four scans, DDL, aborts |
| `OidCatalog_proofs` | theorems about it |
| `MC_OidCatalog` | bounds for TLC |
| `TxBlock` | abstract: PostgreSQL's transaction block as a client sees it |
| `Session` | one connection: pgwire, query handlers, hooks |
| `Session_proofs` | theorems about it |
| `MC_Session` | command groups for TLC |
| `Roles` | AuthManager: users, roles, permission checks, predefined roles, pg_roles |
| `Roles_proofs` | theorems about it |
| `MC_Roles` | names, roles and grants for TLC |
| `Server` | the accept loop and its connection limit |
| `Settings` | SET, SHOW and formatted rows on the connections of `Server` |
| `Settings_proofs` | theorems about both |
| `MC_Settings` | clients and the statements they send for TLC |
| `TokenRewrite` | the token scan that replaces the statements of client tools |
| `TokenRewrite_proofs` | theorems about it |
| `SqlRewrite` | parsing and the twelve rewrite rules on top of `TokenRewrite` |
| `SqlRewrite_proofs` | theorems about it |
| `MC_SqlRewrite` | phrases, messages and the grammar for TLC |
| `Encoding` | announced types and written cells, as operators |
| `Encoding_proofs` | theorems about them |
| `Parameters` | parameter types and the literals values become, as operators on `Encoding` |
| `Portal` | a statement from its plan to the last row of its portals, on `Parameters` |
| `Portal_proofs` | theorems about it |
| `Prepared` | a prepared statement from its message: `SqlRewrite`, then `Portal` |
| `MC_Prepared` | plans, values and messages for TLC |

### OidCatalog

`cache` and `counter` are `oid_cache` and `oid_counter` of
`PgCatalogSchemaProvider`. A scan is the `get_data` of one of the four tables:
`Acquire` takes the write lock and lists the catalogs, `VisitCatalog`,
`VisitSchema` and `VisitTable` are the bodies of the three nested loops (each
names are listed when the walk gets there, as in the code), and
`FinishClass`, `FinishNamespace`, `FinishAttribute`, `FinishDatabase` reconcile
the cache with the scan's map `found` and return the rows. They differ exactly
where the code does: which keys are resolved, and which keys a builder drops from
the cache (`ClassDrops` all of them, `NamespaceDrops` schemas and the tables of
schemas it did not meet, and so on). `Abort` is an error or a dropped future: the
lock guard and the map go, the counter stays where it was. DDL is DataFusion's
and external; it may happen between any two steps of a scan because the walk does
not lock the catalog. The walk's order is left open (the code iterates over
name lists whose order the catalog provider decides).

`pinned` and `seen` are history: the OID each existing object was last shown
with, and everything ever shown.

Left out: the other columns of the rows; the OIDs that other tables
compute from the cache without changing it; a second provider in the same
context, which has a counter of its own.

### Session

`Query` receives a simple message of n statements; `RunStatement` is one turn of
the loop in `do_query`; a statement is offered to the hooks in the order of
`DfSessionService::new` (`Run`) and otherwise planned (`Plan`). Responses are
collected in `results`, then pgwire sends them (`SendResponse`), moving
`pending`, its local copy of the status, and `EndQuery` stores it and sends
ReadyForQuery. That is the order that matters: all statements of a message see
the status the message began with. `FailMessage` is pgwire's answer to any `Err`.
A SELECT is answered with a stream, read while it is sent, so `StreamFails` can
come after later statements of the message took effect.

`Parse`, `Bind`, `ExecuteBound`, `ExecuteEmpty`, `ExecuteMissing`, `Sync` are the
extended protocol; there the status follows each response at once, and after an
error the rest is discarded until Sync (`FailExtended`). Cursors of DECLARE and
portals of Bind live in the same store, `portals`.

The query of a cursor need not be one for rows (`Declarations`). DECLARE plans it, which is
when a SELECT INTO creates its table, and stores a stream nobody has read; the stream of an INSERT,
UPDATE or DELETE (`Writer`) writes when FETCH reads its first row, the count. No step
of that asks for the transaction status. Changes to tables are counted apart: `writes` by
statements that were planned, `cursorWrites` by the queries of cursors.

`asked`, `sent`, `failed`, `view`, `said` are history: what the client of the
last message got, and the block state it concludes from command tags and errors.

pgwire is external. What is assumed of it is what the code relies on:
`on_query` sends the responses in order and maps a response that starts or ends a
transaction to the status (`After`); an error answers ErrorResponse and moves
the status with `to_error_state` (`ToError`); extended messages after an error
are discarded until Sync; `fetch` on a portal reads its rows eagerly.

Left out or left open: row limits of Execute and executing a portal that was
suspended (here it runs again, which allows more than pgwire does); executing a
cursor of DECLARE by Bind's protocol message; FETCH from a portal of Bind
answers rows or an error; the decoding of parameters; the contents of rows. A
statement is a command with a name and a small argument. The statement timeout is
one of the ways `Plan` fails, before or after the statement took effect. A client
sends a simple query only when the connection is ready for one. One connection is
modelled: connections share tables and the `SessionContext` config, neither of
which the properties of the block depend on.

### Roles

`users` and `roles` are the two maps of `AuthManager`. A permission check reads the
user once (`StartCheck`) and then walks the inheritance graph: every frame of
`checks[k].stack` is the loop of one `check_role_permission` call, as the set of
roles it has left; `VisitRole` is one call up to its own loop, `ReturnFalse` the end
of a loop. Each visit takes the lock of the role map by itself, so any change may
come between two visits. The changes are the code's: `CreateRole` replaces a role of
that name with all its grants, `Grant`, `Revoke`, `Inherit` and `Disinherit` want
the role to exist, and nothing asks whether a parent exists or inherits from its
child. `create_predefined_roles` is its nine locked steps (`PredefinedSteps`), and two
callers may overlap. A pg_roles scan lists the names and then looks each one up
again (`ListRoles`, `ScanRole`); `SharedProvider` says that the provider is an
`Arc`, whose implementation calls itself (`DelegateRoles`). A recursion that needs
more than `StackBound` calls ends the process (`crashed`).

`held`, `grown` and `shrunk` in a check are history: whether the permission was held
when the check began, and whether the roles gained or lost anything since.

The order in which a call tries the roles of a set is left open (the code has lists;
the order decides nothing the properties tell apart). Left out: passwords and
`authenticate`, which read a user and change nothing; the `has_privilege` functions,
which always answer true; the resources and permissions no run asks for.

### Server and Settings

`conn` is how far the task of each accepted socket is, `permits` what the semaphore
has left. `Accept` spawns the task, `Admit` and `Refuse` are the two results of
`try_acquire`, `StartUp` is pgwire's handshake, `End` the return of
`process_socket` for any reason, at any point, which drops the permit.

`Settings` extends `Server`: `sessions[c]` is the metadata pgwire keeps for the
connection (and drops with it), the message in progress and what was collected for
it. `RunSet` is `try_respond_set_statements` for a variable told to clients: one that
formats rows, and the time zone. The forms of a value matter because the code treats
them apart: a string is stored, a number has no string value and an empty text is
stored, and a bare name (`SET datestyle TO ISO`) is no value at all, is handed to
DataFusion, fails there and is answered with SET all the same. `RunSetTimeout` is
SET statement_timeout with the suffixes in the order they are tried (`Suffixes`; "5ms"
ends with both "ms" and "s") and the u64 multiplication, whose width is `Width`.
`RunSelect` fixes the format options, `SendResponse` encodes rows with them later, after
the rest of the message; `FailSelect` and `StreamFails` drop the responses and
keep what was set. `told` is what ParameterStatus messages made the client believe;
`asked`, `before`, `got` and `lastTimeout` are history.

External, and assumed of pgwire: it creates the metadata with a connection and drops
them with it, sends what is collected in order, and tells the client at start-up
the same defaults SHOW answers. Left out: settings given as start-up parameters; the
configuration of the shared `SessionContext`, which SET of any other variable
changes for everyone and SET TIME ZONE changes in a copy; cursors, whose DECLARE
encodes with default formats; the extended protocol, which calls the same functions
one statement at a time.

### TokenRewrite and SqlRewrite

`TokenRewrite` is `maybe_replace_tokens`: `position` is `i`, `output` is `result`, and one
step is one turn of the outer loop. `ReplaceStatement` uses the first entry of the list that
matches (`Matching`, `FirstOf`), `KeepToken` copies a token. `Behind` is the inner loop as a
recursive function: where the scan stands after the first k tokens of the pattern, having
skipped the semicolons before each. `pieces` is history: what was taken at a time, and
by which entry. Tokens are names and white space is gone; `ABORT` has become
`ROLLBACK` before the scan.

`SqlRewrite` extends it. `ParseTokens` cuts the output at semicolons and has the `Grammar`,
sqlparser's part, turn each piece into a tree, or refuses the message
(`FailParse`); what it returns are statements (`StatementKinds`), so the root of a tree is never an
expression. `ApplyRule` is one rule on one statement, in the order of
`PostgresCompatibilityParser::new` (`RuleOrder`); each rule is an operator on trees, most of
them visitors (`Visited`: a node first, then the children of what it became, as sqlparser's
`VisitorMut` does in `pre_visit`). Trees have the node kinds the rules tell apart and an opaque
leaf for the rest.

`Trees` are given level by level (`TreesAt[d]` are the trees at most d levels deep, over the strings
`Names`) up to the constant `MaxDepth`, which stands for the depth at which sqlparser refuses a
statement; what is recursive over them (`Visited`, `Qualified`, `Reached`) is a recursive function.
Some rules put more levels in the place of a node (a cast becomes a query), which no parser counts
again. The levels those take (`Growth`) are counted where such a node stands from the start, so that
what a rule makes of a tree is a tree.

A query carries its limit clause, LIMIT, OFFSET or FETCH, as a name of its own. The last
visitor but one gives LIMIT 1 to a subquery that is a column and has none (`HasLimit`, `Limited`), so
`ScalarSubqueries` speaks of a limit and not of one row: `(SELECT oid FROM pg_type LIMIT 2)`
keeps its two rows.

COLLATE is taken away by the eighth rule, after others have looked at what stands around it. Three
properties leave out the statements in which that hides something: a COLLATE on a COLLATE, of which
the visitor leaves one (`CollatedTwice`); an array cast of a string below a COLLATE
(`CollatedArray`); and a name below a COLLATE that is a column or part of a comparison
(`CollatedName`).

Left out: the expressions, statements and clauses no rule looks at; the length of
`PG_CATALOG_TABLES` (three stand for all) and of the two rename lists; the case of
identifiers.

### Parameters and Encoding

These are operators without state. `OrderedParamTypes` is `ordered_param_types` with
`get_inferred_parameter_types` under it: the type DataFusion gives a placeholder, which is an
input, else the last cast of it; sorted by number. `Deserialized` is one turn of the loop of
`deserialize_parameters`: the hint decides the PostgreSQL type, the inferred type what the
value is coerced to (`CoerceInt`, `CoerceFloat`, `CoerceNumeric`, `CoerceTimestamp`,
`CoerceTimestampTz`, `CoerceInterval`). A literal is `Refused` when the code returns an
error, `Dropped` when it pushes none, and an overflow of a product is a value of its own
because what happens depends on the build. Widths are scaled: 8, 16, 32 and 64
bits are 2, 3, 5 and 8 bits, a thousand is 2, and the mantissas of floats are 4 and 6 bits,
so that every boundary lies within a few hundred units and floats still lose integers. Numbers
are 64ths (`One`), fine enough for the last doubles before and behind 1 and what `EPSILON` lets
through: a unit is a float of its own and within `Epsilon`, two of them, of 0. Decimal places are
binary ones here, and a decimal has no zeros behind its last digit (`LastPlace`).

A NUMERIC[] without an inferred list (`FirstScale`, `Unscaled`) gives each item the precision and
scale it was written with and makes one array of them. Arrow takes the type of that from the first
item and the digits of the others as they are, so 1.5 and 2.25 become 1.5 and 22.5; where the first
item is NULL or has more places than digits the array is refused and the unwrap panics
(`Panicked`, `ExecutePanics`).

`Encoding` has the two matches that must agree: `FieldIntoPgType` (what a column is announced
as) and `EncodeValue`, with `EncodeList` and `EncodeStruct` under it (what a cell is written as,
or `Nothing`, `Error`, `Panic`, `Overflow`). `ReadableAs` and `NullsKept` say what a client
makes of it.

Fields, types, cells and what is written nest. Each of these sets is given level by level
(`FieldsAt[d]` are the fields that nest at most d deep) up to the constant `Nesting`, and what the
code computes by recursion is a recursive function on it: `FieldIntoPgType[f]` is
`FieldIntoPgTypeOf` applied to f and to the types of the fields in it, and so on. The conversions
between scalar kinds are records (`PgNumbers`, `PgOthers`, `WrittenNumber`).

Left out: the bytes, which are pgwire's, geometry and types behind a feature flag, arrays of
parameters other than of numbers and text, time zones of targets, NaN and infinities (the code
refuses them), decimals written with zeros at the end, the precision and scale of a Decimal128
that is inferred (it has no places here).

### Portal and Prepared

`Portal` is one prepared statement and its portals. `Prepare` is the end of `Parser::parse_sql`,
`Describe` is `get_parameter_types` and
`get_result_schema`, `Bind` is pgwire's, `Execute` is the branch of `do_query` for statements no
hook answers: values to literals, literals into a copy of the plan of Parse, the columns
announced. `SendRow`, `RowFails`, `RowPanics`, `NextBatch`, `BatchFails`, `LastRow` are the
`RowEncoder` under the stream of record batches; `Insert` is `map_rows_affected_for_insert`,
which answers when it has read everything. `Redefine` is another connection that replaces the
tables, at any time after Parse. `phase = "lost"` is a task that panicked.

`Prepared` puts the rewriting in front: the first statement of the rewritten message is the one
that is prepared (`ParseFirst`), the rest is dropped. Every step of it is one of `SqlRewrite`
that leaves `portalVars` alone, or one of `Portal` that leaves `rewriteVars` alone, so
its behaviours, restricted to `portalVars`, are behaviours of `PortalSpec` and
what is proved of that holds of them.

Planning is DataFusion's: `Plans` is what it may make of a statement for a version of the
tables, including no plan. `PlansAssumption` is what the code relies on there: a cell has the type
of its column, a placeholder the number it has in the text. `ClientAssumption` says the values a
client binds are well-formed for the types they are read as (pgwire decodes them and refuses
others). Left out: the hooks and the transaction status, which `Session` has,
and row limits.

## Runs

| run | question | properties | states |
|---|---|---|---|
| `oid_scans` | two scans of any catalog table compete for the lock, are cancelled at any step and overlap with DDL; or one scanner meets a second catalog named like the default database | `TypeOK`, `UniqueOids`, `NoOidReuse`, `IndInv`, `StableOids`, `ScansPrune`, `ImplementsRegistry`, `ScansEnd` | 136 thousand |
| `oid_default` | is the OID of database "postgres" stable? **No** | `DefaultDatabaseStable` | violated |
| `session_blocks` | one statement per message, both protocols | `TypeOK`, `InStep`, `StatusFollowsAnswers`, `ImplementsTxBlock` | 177 thousand |
| `session_messages` | transactions, cursors, settings, DDL, up to two statements per message, both protocols | `AnsweredInFull`, `FailedBlockIsInert`, `Responsive` | 474 thousand |
| `session_status` | does the status follow the answers in a message of two? **No** | `StatusFollowsAnswers` | violated |
| `session_ignored` | does a failed block ignore every command, a FETCH that writes among them? **No** | `FailedBlockIgnoresCommands` | violated |
| `roles_checks` | a check and a pg_roles scan while two roles are created, granted, linked and revoked under them | `TypeOK`, `CheckInv`, `AnswersAreRight`, `ChecksAnswered`, `ScansAnswered` | 180 thousand |
| `roles_predefined` | two overlapping calls of `create_predefined_roles` | `PredefinedInForce` | 2 thousand |
| `roles_cycle` | is a check answered when two roles inherit from each other? **No** | `ChecksAnswered` | violated |
| `roles_listing` | is pg_roles answered when its provider is an `Arc`? **No** | `ScansAnswered` | violated |
| `settings` | connections come, are refused, fail and end while settings are set and shown | `TypeOK`, `ToldIsStored`, `AnswersInOrder`, `TimeoutAsSet`, `LimitRespected`, `RefusedOnlyWhenFull` | 480 thousand |
| `prepared` | messages are rewritten, their first statement is prepared, described, bound twice and read to the end or an error, while the tables are replaced | `TokenTypeOK`, `PiecesMatch`, `PiecesCover`, `Fixpoint`, `PlannableInTheEnd`, `NamesResolve`, `ScalarSubqueries`, `ParametersBound`, `DescribedByNumber`, `ValuesArrive`, `ReadAsDescribed`, `RowsFaithful`, `Answered` | 101 thousand |

Bounds. `OidBound` stops requests of new scans once the counter has reached it, so
that scans in progress always finish. Two
allocations show every pair of live and dropped objects a scan can
tell apart; scans that allocate nothing are not bounded. Two scanners are needed for
the lock's waiters and only there, because the lock makes scans sequential: `MC_OidCatalog`
has two scenes, one with both scanners over one catalog, one with a single scanner and both
catalogs. A scene only keeps DDL and requests out; it says nothing about scans in progress.
`WriteBound` stops statements being sent after so many writes,
`BatchBound` limits a message: two statements show every effect of an earlier
statement on a later one. One name is enough for a cursor and a portal to collide. The runs of
`Session` differ in the commands they send, so that each stays small: `session_blocks` has those that
move or meet the status, each kind of cursor among them (`TxCommands`); `session_messages` has
cursors of rows and of writes, settings and DDL (`MessageCommands`).
`ChangeBound` limits the changes of roles under one check: two can undo each other
or act on two visits. Two changing roles, a superuser role and a role that may not
exist give chains of inheritance of length three. `AllowCycles` is a flag because a
cycle ends the process: `roles_checks` shows everything else, `roles_cycle` the cycle.

`settings` has three sockets for two permits, so that one is refused while any two are
at any point of their life. The first client uses every statement in messages of up to
two (a SET on either side of a SELECT or SHOW), the second sets what the first reads,
the third only connects. `Width` is 2^17 in place of 2^64: two seconds fit, three
minutes do not.

`prepared` takes words for whole phrases (a column, a table with its alias, a condition), so
that a message of five words is a query: each pair of the columns a rule looks at with each kind
of table, and the ones with names and wildcards with each condition or order. Two
semicolons, statements that are listed, cut off or do not parse are in the scripts. A plan has one,
two or ten placeholders (ten, for "$10" against "$2"), values lie at the edges of each
scaled width and one beyond, and results have two batches, a batch that fails, and each
Arrow type with a cell that fits, one that does not and NULL. `Nesting` is three, one more than
lists and dictionaries of records of plain members need.
`MaxBinds` is two: a portal
after another of the same statement, on either side of `Redefine`. No action looks at `format`, and
only binary columns depend on what was described, so portals ask for those.

Deadlock is checked except where the process may end (`roles_cycle`, `roles_listing`
and `roles_predefined`, whose stack bound lets the recursion of pg_roles overflow) and in
`prepared`, whose client may stop at any time.

## What the violations show

* `oid_default`: `pg_class` replaces the whole cache by what it enumerated, and it
  does not enumerate the database `postgres` that `pg_database` adds when no
  catalog has that name; the next `pg_database` query shows it under a new OID.
* `session_status`: the hooks of one message read a status that moves only after
  the message. `BEGIN; SELECT` whose stream fails acknowledges BEGIN and ends
  outside a block; `ROLLBACK; SELECT 1` in a failed block is refused as a whole.
* `session_ignored`: the cursor and SET/SHOW hooks are asked before the
  transaction hook, so their commands run in a failed block. The run sends cursors only and
  shows the worst of it: one declared for an INSERT, UPDATE or DELETE writes when FETCH reads
  it, although the block has failed in between. (With SET among the commands the first trace is a
  setting that changes.)
* `roles_cycle`: `add_role_inheritance` accepts a cycle and the check keeps no set of
  visited roles, so it recurses until the stack is used up.
* `roles_listing`: `roles()` for `Arc<T>` resolves to itself and recurses the same way.

Smaller deviations met while modelling the pure parts. The properties of `prepared` name the
ones they have to step around; the rest are outside what any of them says.

* Rules: a COLLATE on the result of another survives (`CollatedTwice`); the branches of a
  UNION get no LIMIT 1 for their subqueries; a subquery with an OFFSET and no LIMIT counts as
  limited; `current_schema` in WHERE of a query with a wildcard is qualified like a column before it
  is recognised; a CTE named like a catalog table gets the `pg_catalog` qualifier where it is used; `'{a}'::pg_catalog.text[]` turns its
  elements into numbers; a column named `abort` becomes ROLLBACK; `$1::regclass` in a
  projection becomes NULL and its value is bound to nothing (rules.rs:1120).
* Extended protocol: Parse keeps the first statement of a message and drops the others; a
  NULL of unknown type pushes no literal and moves the later ones forward (df.rs:857); a
  bare `SELECT $1` is described before the type of its literal is known.
* Literals: a NUMERIC out of range of an integer and a timestamp out of range of
  nanoseconds become NULL, integers and intervals that are scaled may overflow, the
  milliseconds of an `IntervalDayTime` are cut to 32 bits, and a float of 2^63
  passes the check for i64 and arrives as 2^63 - 1. A float is taken for an integer up to
  `f64::EPSILON`: 1e-17 arrives as 0 and 1 + 2^-52 as 1 (df.rs:133). A NUMERIC loses its
  fraction where an integer is inferred. The items of a NUMERIC[] without an inferred list are read
  with the scale of the first, or there is a panic (df.rs:797).
* Encoding: Int8 is announced as INT2 and written as one byte; `FixedSizeList` and
  `LargeList` are announced and panic; `Float16`, `FixedSizeBinary` and the list views are
  announced and fail; an interval that is NULL outside a list is written as a
  value (encoder.rs:412); an error in a member of a record is unwrapped (struct_encoder.rs).
* DELETE is described as returning nothing and returns a row.

## Fairness

`OidCatalog`: weak fairness of the holder's next step (the runtime keeps polling the
task that holds the lock, and in-memory catalogs always answer) and strong
fairness of each waiter's `Acquire` (tokio's `RwLock` is first come, first
served). `Session`: weak fairness of `Serve`, the steps of a simple message; none
of what the client sends. `Roles`: weak fairness of each check's and each scan's next
step; none of the changes. `Prepared`: weak
fairness of `Server`, the rewriting, planning and sending a message needs; none of the
client's messages and not of `Redefine`.

## Proofs

`OidCatalog_proofs` proves for all catalogs, schemas, tables and numbers of scans,
and without the bound on the counter mattering: type correctness, `UniqueOids`, `NoOidReuse`,
`StableOids` and that `OidCatalog` implements `OidRegistry`. All follow from
the inductive invariant `IndInv`, proved action by action:

* `AssignedOnce`: an OID in the cache, in a running scan's map or ever shown has
  one owner and is behind the counter. Uniqueness of the cache alone is not
  inductive: the OIDs an aborted scan consumed, and those of evicted keys, must be
  remembered as used, which `< counter` does.
* `FoundIsCached`: while a scan holds the lock the cache does not change, so its map
  agrees with the cache; reconciling never changes an OID.
* `ReportedAreCached`: an object a client knows is in the cache. This is what a
  builder could break by dropping keys it did not meet; it needs
* `ReportedAreMet`: a running scan has met, or still comes to, whatever keeps a
  reported object in the cache. DDL that creates an object behind the walk is
  harmless because a created object is unreported, and nothing is reported while the
  lock is held.
* `LiveNested`: schemas are in registered catalogs, tables in schemas.

`ScansPrune` needs one more: `WalkExists`, that while no DDL overlaps a scan, what it has listed
and what it has entered in its map exist.

`Session_proofs` proves for every set of names and commands and messages of any
size: type correctness, `FailedBlockIsInert` and `AnsweredInFull`. The first says that nothing
that reaches the planner changes a table in a failed block; the queries of cursors do
(`session_ignored`), and neither it nor the mapping to `TxBlock` has them. For messages of
one statement (`BatchBound = 1`) it proves `InStep`, and from it
`StatusFollowsAnswers` and that `Session` implements `TxBlock`: server status and
client view differ by at most the one response that is not yet sent, and that
response agrees with the block it was made in (`Coherent`). The violated runs show
that the restriction is needed.

`Roles_proofs` proves for all users, roles, resources, grants and numbers of tasks, with
cyclic inheritance and any changes between two visits: type correctness and
`AnswersAreRight`. `Reach(S)` is the least set around S closed under inheritance, defined
without recursion; the lemmas say that it is closed, least and monotonic, and that
a change that only adds (or only removes) moves what is reached and held one way. The
invariant `CheckInv` relates the stack to reachability: while nothing was taken away, the
roles some frame has left are reachable from the user's roles, and if the permission
was held at the start it still follows from those roles; while nothing was
added it follows from them only if it was held at the start. A visit keeps this because
a role that grants nothing can be replaced by what it inherits.

It also proves `PredefinedInForce` for any number of overlapping calls. The calls undo each
other's work (creating a role again drops its grants), so no caller's progress says what a role
has. The invariant `PredefinedInv` says why it comes right: a caller always has a suffix of the
nine steps left (`Rest`), and a known predefined role has each of its grants or some caller still
has that grant among its steps (`Waits`), because whoever replaces the role is by `GrantsFollow` in
front of all its grants. When every caller has returned, none waits.

`Settings_proofs` proves for any sockets, limit, values and sizes of messages: that
`Settings` is an implementation of `Server` (`RunsOnServer`), that permits and
connections in process add up to the limit (`PermitsCount`, the invariant behind
`LimitRespected` and `RefusedOnlyWhenFull`), type correctness, `ToldIsStored`,
`AnswersInOrder` and `TimeoutAsSet`. The invariant behind `AnswersInOrder` is `OrderInv`:
while a message runs, what is stored is what its next statement is to find
(`Expected`), and the responses that wait belong to the statements right after those
that were answered; `ExpectedNext` says that expectation moves with a statement as the
metadata do. `TimeoutAsSet` rests on `SuffixFound`: trying "ms" before "s" finds the
whole unit.

`TokenRewrite_proofs` proves for every list of statements, set of placeholders and message: type
correctness, `PiecesCover`, and `PiecesMatch`, that the loop of counters and the statement it
computes agree: a piece of the message is replaced if and only if the tokens of an entry lie in it in
order with nothing but semicolons between them (`LiesAt`), and by the first such entry.
One direction constructs the places of the tokens from `Behind` (`FoundLies`); the other
says that where tokens lie, the scan finds them at the same places (`LyingIsFound`), because
skipping semicolons leaves it no choice (`NextWordFound`, `BehindGrows`). The inductions over the
length of a pattern, the existence of the recursive function among them, are by a least
counterexample (`LeastNumber`).

`SqlRewrite_proofs` proves for every `Grammar`, set of names, `MaxDepth`, list of statements and
message the five properties of what comes out of the rules: `PlannableInTheEnd`, `ParametersBound`,
`ScalarSubqueries`, `NamesResolve` and `Fixpoint`. The inductive invariant is `RewriteInv`: each
statement is what the rules before the next one made of what was parsed, that is the end of a chain
of trees each of which is one rule applied to the one before (`Chain`). The properties speak of
the end only, and none is inductive. The rest is about chains, that is about trees and rules alone:

* Recursion. That `TreesAt`, `Reached`, `Qualified` and each `Visited(rule)` exist, so that their
  equations hold, is shown level by level (`UpTo`), as is what holds of all trees when it passes
  from the children of a node to the node (`TreeInduction`). Every rule makes a tree of a tree
  (`PreVisitTree`, `VisitedTree`), which is where `Growth` is needed. `All(S)` are the trees all
  nodes of which are in S; `VisitNodes` is how a visitor is reasoned about: if what holds of
  every node before is A, the nodes a rule makes are in A (`Puts`), and a visited node is in B, then
  all nodes of the result are in B.
* `StatementsPlannable`: a visitor leaves nothing of what it removes (`Gone`), in what later rules
  write neither (`MadeGone`), and no later rule brings it back, COLLATE in the middle excepted
  (`Hidden`). `Rid(k)` are the nodes rid of what the rules up to k remove, and `RidStep` passes from
  one to the next.
* `StatementsBound`: no rule writes a parameter (`NoneInvented`), and each keeps those that the walk
  `"kept"` comes to (the lemmas on `KeptIn`, one per rule).
* `StatementsScalar`: after the ninth visitor a column that is a subquery has a limit, the client's own
  if there was one, and names only tables of its own (`OneValue`), and the last visitor keeps that. A column that was cast to an
  OID is followed through the chain (`At`): it stays the cast up to `regcast`, is then a number or
  the template's query, which names its own tables only (`TemplateUncorrelated`), and is therefore
  not replaced by NULL.
* `StatementsNamed`: `resolve` makes it true (`NamesResolved`); the later visitors keep the aliases
  of the projection and of the tables (`ItemKept`, `AliasesVisited`) and make no bare name in a
  comparison (`BareVisited`). The names `current_schema`, which `user` turns into calls, go on both
  sides at once. Up to the eighth rule the trees must have no name below a COLLATE (`PlainBefore`):
  the visitor for COLLATE would uncover it.
* `StatementsFixed`: one reason per rule why it has nothing to do. `alias`: no duplicated column
  without an alias is left, and none comes later (`NoneTwice`); `resolve`: `NamesKnown` says all
  names it looks at are known; the eight visitors up to `regcast`: `Rid(12)`; `subquery`: the
  subqueries of columns are limited and not correlated (the second half of `OneValue`, which
  `ScalarSubqueries` does not mention, is needed here); `version`: no column is left that is just
  `version()` (`VersionsNamed`). A visitor that has nothing to do at any node is the identity
  (`VisitIdentity`).

What COLLATE hides is left out of the theorems exactly as in the properties.

`Encoding_proofs` proves for every `Nesting`, every field and every cell of it: what is written can
be read as the type that was announced (`WrittenReadable`), and it is NULL where the cell is and has
all its parts (`WrittenKeepsNulls`). The two matches over Arrow types, and the third one for the
elements of lists, are compared arm by arm (`FaithfulPlain`, `FaithfulList`,
`FaithfulDictionary`, `FaithfulStruct`), for one level of nesting given the level below;
`FaithfulFields` puts the levels on each other. As the prover has no
induction over data, `UpTo` does that (what holds at 0 and passes from d - 1 to d holds up to
`Nesting`), and so it is for the recursive functions themselves: that each exists, so that its
equation holds, is shown level by level, before anything is said of its values.

`Portal_proofs` proves for all statements, plans, types, values and numbers of portals, and any
interleaving with `Redefine`:

* `DescribedByNumber`, from `PlanInv` (the plan stays the one Parse made and the values are ones
  the client binds for it) and `ToldInv` (what the client was told is what that plan says);
  sorting by number puts `$k` at position k because just k - 1 numbers are before it
  (`OrderedByNumber`).
* `RowsFaithful` and `ReadAsDescribed`, from `PlaceInv` (the encoder is at a row of the batches, all
  batches before it were good, and a portal that is done is behind the last) and `SentInv`
  (what was sent are the encodings of the rows before that place, each of a field that has a type).
  `RowsFaithful` alone is not inductive: it does not say that row r + 1 is the next one.
  The two theorems about `Encoding` then say of each row what the properties ask.
* `ValuesArrive`, from `PlanInv` and `LiteralsInv` (a portal that runs has the literals of its
  values, none of them refused and one for each placeholder). The rest is about the conversions:
  `LiteralArrives` goes through the types of `deserialize_parameters`; an integer that passes the
  check is the one that was bound (`CheckedIntArrives`), a float is within `Epsilon` of it, but for
  the last one (`CheckedFloatArrives`); what is cut or rounded off a NUMERIC is a fraction
  (`NumericsArrive`), and items with the places of the first keep their value
  (`Reread`, `ListsArrive`); rounding to a float leaves a float alone (`RoundIdempotent`) and
  passes no float on its way (`RoundNear`). `KeptInPlace` says that a literal is at its position when
  no NULL was dropped before it. The widths are the scaled ones of `Parameters`.

The assumptions are the named ASSUMEs of the modules: filler values are not
names, `pg_catalog` is a schema name, the predefined roles are role names, what
administrators change is among users, roles and permits, sockets are finitely many,
clients send statements, what DataFusion and clients hand over fits together (`PlansAssumption`,
`ClientAssumption`), bounds are natural numbers, and the names the rules write are among `Names`.

Every safety property and refinement that a passing run checks is proved. Only model-checked are the
liveness properties `ScansEnd`, `Responsive`, `ChecksAnswered`, `ScansAnswered` and `Answered` (the
prover has no rule for liveness under fairness). That `Prepared` as a whole has the properties of
`SqlRewrite` and `Portal` is checked by its run and follows from the theorems by the argument of
the section on it; it is no theorem of its own.

## Not modelled

* The numeric functions, the scalar functions of pg_catalog and the views: each is a function of one
  row without state or order, and the unit tests beside them enumerate their edges.
* The static tables and the command line server: data, argument parsing and file registration.
* TLS, authentication and the bytes of messages: pgwire's.
* A second catalog provider in one `SessionContext`, with a counter of its own, and the configuration
  all connections share: nothing in the repository says what should hold of either.

## Plan

Done: `OidRegistry`, `OidCatalog`, `TxBlock`, `Session`, `Roles`, `Server`, `Settings`,
`TokenRewrite`, `SqlRewrite`, `Encoding`, `Parameters`, `Portal`, `Prepared` and the proofs of every
safety property. What would come next, in this order:

1. Two providers in one context (`OidCatalog` twice), whose counters know nothing of
   each other.
2. The extended protocol and cursors in `Settings`, and row limits of Execute in `Session`.
3. An abstract specification of permission checks that `Roles` implements.
4. The exact trees for which `Fixpoint` fails: the theorem leaves out every statement in which COLLATE
   hides something, and some of those are fixed points too.
