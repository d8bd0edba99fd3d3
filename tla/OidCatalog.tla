----------------------------- MODULE OidCatalog -----------------------------
(***************************************************************************)
(* The OID catalog of datafusion-pg-catalog.  One PgCatalogSchemaProvider  *)
(* owns one OID counter and one OID cache; the four dynamic catalog tables *)
(* pg_class, pg_namespace, pg_database and pg_attribute share both.  Every *)
(* scan of such a table takes the write lock of the cache, walks the live  *)
(* catalog (catalogs, their schemas, their tables, each looked up when the *)
(* walk reaches it), resolves an OID for the objects it meets, reconciles  *)
(* the cache with what it found and hands the rows to the client.  DDL of  *)
(* other connections changes the live catalog between any two steps, and a *)
(* scan may stop half way, by an error or because its future is dropped.   *)
(***************************************************************************)
EXTENDS Naturals

CONSTANTS
  Catalogs,      \* catalog names that may be registered
  Schemas,       \* schema names
  Tables,        \* table names
  MainCatalog,   \* the catalog setup_pg_catalog installs pg_catalog in
  PgCatalog,     \* the schema name "pg_catalog"
  SystemTables,  \* the tables of that schema
  DefaultDb,     \* the database name "postgres"
  NoName,        \* filler for the parts of a key that do not apply
  Scanners,      \* executions of a query over a dynamic catalog table
  Nobody,        \* no scanner
  OidBound       \* bound on the counter: no scan is requested beyond it

ASSUME CatalogAssumption == MainCatalog \in Catalogs
ASSUME NameAssumption ==
  /\ PgCatalog \in Schemas
  /\ SystemTables \subseteq Tables
  /\ NoName \notin Schemas \union Tables
ASSUME ScannerAssumption == Nobody \notin Scanners
ASSUME BoundAssumption == OidBound \in Nat

VARIABLES
  catalogs, schemas, tables,   \* the live catalog of the SessionContext
  cache,                       \* oid_cache: key -> OID, NoOid where absent
  counter,                     \* oid_counter: the next OID to hand out
  want,                        \* the catalog table each scanner is scanning
  holder,                      \* the scanner that holds the cache's write lock
  todoCatalogs, catalog,       \* catalogs left to walk, the one being walked
  todoSchemas, schema,         \* schemas left in it, the one being walked
  todoTables,                  \* tables left in that schema
  found,                       \* the scan's own map: swap_cache, *_oid_cache
  rows,                        \* keys whose OID is in the rows collected
  quiet,                       \* no DDL ran since the holder took the lock
  pinned,                      \* OID shown for an object since it was created
  seen                         \* every (OID, key) pair ever shown to a client

live == <<catalogs, schemas, tables>>
walk == <<todoCatalogs, catalog, todoSchemas, schema, todoTables>>
history == <<pinned, seen>>
vars == <<live, cache, counter, want, holder, walk, found, rows, quiet, history>>

-----------------------------------------------------------------------------
(* Keys and OIDs *)

NoOid == 0        \* no OID; the counter never comes near it
FixedOid == 11    \* PG_CATALOG_NAMESPACE_OID
FirstOid == 16384 \* where the counter starts

CatalogNames == Catalogs \union {DefaultDb}

CatalogKey(c) == [kind |-> "catalog", cat |-> c, sch |-> NoName, tab |-> NoName]
SchemaKey(c, s) == [kind |-> "schema", cat |-> c, sch |-> s, tab |-> NoName]
TableKey(c, s, t) == [kind |-> "table", cat |-> c, sch |-> s, tab |-> t]

CatalogKeys == {CatalogKey(c) : c \in CatalogNames}
SchemaKeys == {SchemaKey(c, s) : c \in CatalogNames, s \in Schemas}
TableKeys == {TableKey(c, s, t) : c \in CatalogNames, s \in Schemas, t \in Tables}
Keys == CatalogKeys \union SchemaKeys \union TableKeys

Kinds == {"class", "namespace", "database", "attribute"}

\* fixed_oid: every schema named pg_catalog, whatever its catalog.
Fixed(k) == k.kind = "schema" /\ k.sch = PgCatalog

\* The object a key names is in the live catalog.
Exists(k) ==
  \/ k.kind = "catalog" /\ k.cat \in catalogs
  \/ k.kind = "schema" /\ <<k.cat, k.sch>> \in schemas
  \/ k.kind = "table" /\ <<k.cat, k.sch, k.tab>> \in tables

SchemasOf(c) == {s \in Schemas : <<c, s>> \in schemas}
TablesOf(c, s) == {t \in Tables : <<c, s, t>> \in tables}

-----------------------------------------------------------------------------
(* resolve_oid *)

\* Mutant: the lowest OID nobody holds any more.
FreshOidRecycled ==
  LET InUse(n) == \E k \in Keys : n \in {cache[k], found[k]}
  IN  CHOOSE n \in FirstOid .. counter :
        ~InUse(n) /\ \A m \in FirstOid .. (n - 1) : InUse(m)

FreshOid == counter

ResolveOid(k) ==
  IF Fixed(k) THEN FixedOid
  ELSE IF cache[k] # NoOid THEN cache[k] ELSE FreshOid

\* Mutant: the counter is read and not advanced.
CounterAfterLost(k) == counter

CounterAfter(k) ==
  IF Fixed(k) \/ cache[k] # NoOid THEN counter ELSE counter + 1

\* Mutant: a cached OID is not copied into the scan's map.
ResolveNewOnly(k) ==
  /\ found' = IF cache[k] # NoOid THEN found ELSE [found EXCEPT ![k] = ResolveOid(k)]
  /\ counter' = CounterAfter(k)

\* One call of resolve_oid and the insertion of its result in the scan's map.
Resolve(k) ==
  /\ found' = [found EXCEPT ![k] = ResolveOid(k)]
  /\ counter' = CounterAfter(k)

SkipResolve == UNCHANGED <<found, counter>>

-----------------------------------------------------------------------------
Init ==
  /\ catalogs = {MainCatalog}
  /\ schemas = {<<MainCatalog, PgCatalog>>}
  /\ tables = {<<MainCatalog, PgCatalog, t>> : t \in SystemTables}
  /\ cache = [k \in Keys |-> NoOid]
  /\ counter = FirstOid
  /\ want = [b \in Scanners |-> "none"]
  /\ holder = Nobody
  /\ todoCatalogs = {} /\ catalog = NoName
  /\ todoSchemas = {} /\ schema = NoName
  /\ todoTables = {}
  /\ found = [k \in Keys |-> NoOid]
  /\ rows = {}
  /\ quiet = TRUE
  /\ pinned = [k \in Keys |-> NoOid]
  /\ seen = {}

-----------------------------------------------------------------------------
(* A scan *)

Request(b, kind) ==
  /\ want[b] = "none"
  /\ counter < OidBound
  /\ want' = [want EXCEPT ![b] = kind]
  /\ UNCHANGED <<live, cache, counter, holder, walk, found, rows, quiet, history>>

\* The write lock is granted and catalog_names() is read.
Acquire(b) ==
  /\ want[b] # "none"
  /\ holder = Nobody
  /\ holder' = b
  /\ todoCatalogs' = catalogs
  /\ UNCHANGED <<live, cache, counter, want, catalog, todoSchemas, schema,
                 todoTables, found, rows, quiet, history>>

Scanning(kinds) == holder # Nobody /\ want[holder] \in kinds

\* The walk reaches catalog c; all scans but pg_database's list its schemas.
VisitCatalog(c) ==
  /\ Scanning(Kinds)
  /\ todoSchemas = {} /\ todoTables = {}
  /\ c \in todoCatalogs
  /\ todoCatalogs' = todoCatalogs \ {c}
  /\ catalog' = c
  /\ todoSchemas' = IF Scanning({"database"}) THEN {} ELSE SchemasOf(c)
  /\ IF Scanning({"class", "database"}) THEN Resolve(CatalogKey(c)) ELSE SkipResolve
  /\ rows' = IF Scanning({"database"}) THEN rows \union {CatalogKey(c)} ELSE rows
  /\ UNCHANGED <<live, cache, want, holder, schema, todoTables, quiet, history>>

\* The walk reaches schema s; pg_class and pg_attribute list its tables.
VisitSchema(s) ==
  LET key == SchemaKey(catalog, s) IN
  /\ Scanning(Kinds)
  /\ todoTables = {}
  /\ s \in todoSchemas
  /\ todoSchemas' = todoSchemas \ {s}
  /\ schema' = s
  /\ todoTables' = IF Scanning({"class", "attribute"}) THEN TablesOf(catalog, s) ELSE {}
  /\ IF Scanning({"class", "namespace"}) THEN Resolve(key) ELSE SkipResolve
  /\ rows' = IF Scanning({"namespace"}) THEN rows \union {key} ELSE rows
  /\ UNCHANGED <<live, cache, want, holder, todoCatalogs, catalog, quiet, history>>

\* The walk reaches table t.  Its OID is resolved and kept even when the table
\* is gone by now; its rows are emitted only if table_schema() still finds it.
VisitTable(t) ==
  LET key == TableKey(catalog, schema, t)
      row == IF Scanning({"class"}) THEN {key, SchemaKey(catalog, schema)} ELSE {key}
  IN
  /\ Scanning({"class", "attribute"})
  /\ t \in todoTables
  /\ todoTables' = todoTables \ {t}
  /\ Resolve(key)
  /\ rows' = IF Exists(key) THEN rows \union row ELSE rows
  /\ UNCHANGED <<live, cache, want, holder, todoCatalogs, catalog, todoSchemas,
                 schema, quiet, history>>

\* Keys each builder drops from the cache unless its own map holds them.
ClassDrops == Keys
NamespaceDropsNone == {}            \* Mutant: extend without retain
NamespaceDropsAll == Keys           \* Mutant: swap, as pg_class does
NamespaceDrops ==
  SchemaKeys \union {k \in TableKeys : found[SchemaKey(k.cat, k.sch)] = NoOid}
AttributeDropsAll == Keys           \* Mutant: the swap of issue #389
AttributeDrops == TableKeys
DatabaseDropsAll(map) == Keys       \* Mutant: swap, as pg_class does
DatabaseDrops(map) ==
  CatalogKeys \union {k \in Keys : map[CatalogKey(k.cat)] = NoOid}

\* retain, then extend (or the swap, which drops everything).
Reconcile(drops, map) ==
  [k \in Keys |-> IF map[k] # NoOid THEN map[k]
                  ELSE IF k \in drops THEN NoOid ELSE cache[k]]

\* The lock guard and the scan's local state go out of scope.
Release ==
  /\ holder' = Nobody
  /\ todoCatalogs' = {} /\ catalog' = NoName
  /\ todoSchemas' = {} /\ schema' = NoName
  /\ todoTables' = {}
  /\ found' = [k \in Keys |-> NoOid]
  /\ rows' = {}
  /\ quiet' = TRUE

\* The scan returns its batch.
Deliver(keys, map) ==
  /\ seen' = seen \union {[oid |-> map[k], key |-> k] : k \in keys}
  /\ pinned' = [k \in Keys |-> IF k \in keys /\ Exists(k) THEN map[k] ELSE pinned[k]]
  /\ want' = [want EXCEPT ![holder] = "none"]
  /\ Release
  /\ UNCHANGED live

WalkDone == todoCatalogs = {} /\ todoSchemas = {} /\ todoTables = {}

FinishClass ==
  /\ Scanning({"class"}) /\ WalkDone
  /\ cache' = Reconcile(ClassDrops, found)
  /\ Deliver(rows, found)
  /\ UNCHANGED counter

FinishNamespace ==
  /\ Scanning({"namespace"}) /\ WalkDone
  /\ cache' = Reconcile(NamespaceDrops, found)
  /\ Deliver(rows, found)
  /\ UNCHANGED counter

FinishAttribute ==
  /\ Scanning({"attribute"}) /\ WalkDone
  /\ cache' = Reconcile(AttributeDrops, found)
  /\ Deliver(rows, found)
  /\ UNCHANGED counter

\* pg_database adds the row of the database "postgres" when no catalog has
\* that name.
FinishDatabase ==
  LET default == CatalogKey(DefaultDb)
      listed == found[default] # NoOid
      map == IF listed THEN found ELSE [found EXCEPT ![default] = ResolveOid(default)]
  IN
  /\ Scanning({"database"}) /\ WalkDone
  /\ counter' = IF listed THEN counter ELSE CounterAfter(default)
  /\ cache' = Reconcile(DatabaseDrops(map), map)
  /\ Deliver(rows \union {default}, map)

\* Mutant: the lock outlives the scan that was cancelled.
AbortKeepsLock(b) ==
  /\ want[b] # "none"
  /\ want' = [want EXCEPT ![b] = "none"]
  /\ UNCHANGED <<live, cache, counter, holder, walk, found, rows, quiet, history>>

\* An error of the walk, or the future dropped while it runs or waits for the
\* lock: the guard and the scan's map go, the cache and the counter stay.
Abort(b) ==
  /\ want[b] # "none"
  /\ want' = [want EXCEPT ![b] = "none"]
  /\ IF holder = b THEN Release ELSE UNCHANGED <<holder, walk, found, rows, quiet>>
  /\ UNCHANGED <<live, cache, counter, history>>

-----------------------------------------------------------------------------
(* DDL of other connections, as DataFusion's catalog applies it *)

\* A dropped object takes the OID it was known by with it.
Changed ==
  /\ quiet' = (holder = Nobody)
  /\ pinned' = [k \in Keys |-> IF Exists(k)' THEN pinned[k] ELSE NoOid]
  /\ UNCHANGED <<cache, counter, want, holder, walk, found, rows, seen>>

RegisterCatalog(c) ==
  /\ c \notin catalogs
  /\ catalogs' = catalogs \union {c}
  /\ UNCHANGED <<schemas, tables>>
  /\ Changed

Reserved(c, s) == c = MainCatalog /\ s = PgCatalog

CreateSchema(c, s) ==
  /\ c \in catalogs
  /\ <<c, s>> \notin schemas
  /\ schemas' = schemas \union {<<c, s>>}
  /\ UNCHANGED <<catalogs, tables>>
  /\ Changed

DropSchema(c, s) ==
  /\ <<c, s>> \in schemas /\ ~Reserved(c, s)
  /\ schemas' = schemas \ {<<c, s>>}
  /\ tables' = tables \ {<<c, s, t>> : t \in Tables}
  /\ UNCHANGED catalogs
  /\ Changed

CreateTable(c, s, t) ==
  /\ <<c, s>> \in schemas /\ ~Reserved(c, s)
  /\ <<c, s, t>> \notin tables
  /\ tables' = tables \union {<<c, s, t>>}
  /\ UNCHANGED <<catalogs, schemas>>
  /\ Changed

DropTable(c, s, t) ==
  /\ <<c, s, t>> \in tables /\ ~Reserved(c, s)
  /\ tables' = tables \ {<<c, s, t>>}
  /\ UNCHANGED <<catalogs, schemas>>
  /\ Changed

Ddl ==
  \E c \in Catalogs :
    \/ RegisterCatalog(c)
    \/ \E s \in Schemas :
         \/ CreateSchema(c, s)
         \/ DropSchema(c, s)
         \/ \E t \in Tables : CreateTable(c, s, t) \/ DropTable(c, s, t)

-----------------------------------------------------------------------------
Walk ==
  \/ \E c \in Catalogs : VisitCatalog(c)
  \/ \E s \in Schemas : VisitSchema(s)
  \/ \E t \in Tables : VisitTable(t)

Finish == FinishClass \/ FinishNamespace \/ FinishAttribute \/ FinishDatabase

Next ==
  \/ \E b \in Scanners : \/ \E kind \in Kinds : Request(b, kind)
                         \/ Acquire(b)
                         \/ Abort(b)
  \/ Walk
  \/ Finish
  \/ Ddl

Spec == Init /\ [][Next]_vars

\* The runtime keeps polling the scan that holds the lock, and tokio's RwLock
\* queues its waiters first come, first served.
FairSpec ==
  /\ Spec
  /\ WF_vars(Walk \/ Finish)
  /\ \A b \in Scanners : SF_vars(Acquire(b))

-----------------------------------------------------------------------------
Oids == {NoOid, FixedOid} \union {n \in Nat : n >= FirstOid}

LiveType ==
  /\ catalogs \subseteq Catalogs
  /\ schemas \subseteq Catalogs \X Schemas
  /\ tables \subseteq Catalogs \X Schemas \X Tables

OidType ==
  /\ cache \in [Keys -> Oids] /\ found \in [Keys -> Oids]
  /\ counter \in Nat /\ counter >= FirstOid

ScanType ==
  /\ want \in [Scanners -> Kinds \union {"none"}]
  /\ holder \in Scanners \union {Nobody}
  /\ holder # Nobody => want[holder] # "none"
  /\ todoCatalogs \subseteq Catalogs /\ catalog \in Catalogs \union {NoName}
  /\ todoSchemas \subseteq Schemas /\ schema \in Schemas \union {NoName}
  /\ todoTables \subseteq Tables
  /\ todoSchemas # {} => catalog \in Catalogs
  /\ todoTables # {} => catalog \in Catalogs /\ schema \in Schemas
  /\ todoTables # {} /\ Scanning({"class"}) => found[SchemaKey(catalog, schema)] # NoOid
  /\ rows \subseteq {k \in Keys : found[k] # NoOid}
  /\ holder = Nobody => WalkDone /\ \A k \in Keys : found[k] = NoOid
  /\ quiet \in BOOLEAN

HistoryType ==
  /\ pinned \in [Keys -> Oids]
  /\ seen \subseteq [oid : Oids \ {NoOid}, key : Keys]

\* Every variable has its type, the lock holder is a scan in progress, the rows
\* collected have their OID in the scan's map, and a scan leaves nothing behind
\* when the lock is free.
TypeOK == LiveType /\ OidType /\ ScanType /\ HistoryType

\* An OID in the cache or in a running scan's map belongs to one object, was
\* handed out by the counter, and only pg_catalog namespaces have the fixed one
\* (fixed_oid: "they never collide with an OID handed out dynamically").
UniqueOids ==
  \A k1, k2 \in Keys :
    \A o1 \in {cache[k1], found[k1]}, o2 \in {cache[k2], found[k2]} :
      /\ o1 # NoOid /\ o1 = o2 => k1 = k2 \/ (Fixed(k1) /\ Fixed(k2))
      /\ o1 # NoOid => (o1 = FixedOid <=> Fixed(k1)) /\ o1 < counter

\* Over the life of the server an OID a client was shown for one object is
\* never shown for another: evicting a key from the cache does not recycle it.
NoOidReuse ==
  \A p, q \in seen : p.oid = q.oid => p.key = q.key \/ (Fixed(p.key) /\ Fixed(q.key))

\* As long as an object exists it keeps the OID it was first reported with,
\* whatever catalog tables are scanned, aborted or interleaved with DDL
\* (resolve_oid: "keeping OIDs stable across catalog queries").
StableOids ==
  [][\A k \in Keys : pinned[k] # NoOid => pinned'[k] \in {pinned[k], NoOid}]_vars

-----------------------------------------------------------------------------
(* Why the properties hold *)

\* Schemas are in registered catalogs, tables in existing schemas.
LiveNested ==
  /\ \A c \in Catalogs, s \in Schemas : <<c, s>> \in schemas => c \in catalogs
  /\ \A c \in Catalogs, s \in Schemas, t \in Tables :
       <<c, s, t>> \in tables => <<c, s>> \in schemas

\* The OIDs key k has in the cache, in a running scan or with a client.
OidsOf(k) ==
  ({cache[k], found[k]} \union {p.oid : p \in {q \in seen : q.key = k}}) \ {NoOid}

\* Such an OID has one owner and is behind the counter.
AssignedOnce ==
  \A k1 \in Keys : \A o \in OidsOf(k1) :
    /\ o < counter
    /\ o = FixedOid <=> Fixed(k1)
    /\ \A k2 \in Keys : o \in OidsOf(k2) => k1 = k2 \/ o = FixedOid

\* The cache does not change under a scan, so the scan copies what it caches.
FoundIsCached ==
  \A k \in Keys : found[k] # NoOid /\ cache[k] # NoOid => found[k] = cache[k]

\* A reported object that still exists is in the cache under that OID.
ReportedAreCached ==
  \A k \in Keys : pinned[k] # NoOid => Exists(k) /\ cache[k] = pinned[k]

\* The running scan has met a catalog, schema or table, or still comes to it.
CatalogSafe(c) == found[CatalogKey(c)] # NoOid \/ c \in todoCatalogs
SchemaAhead(c, s) == c \in todoCatalogs \/ (c = catalog /\ s \in todoSchemas)
SchemaSafe(c, s) == found[SchemaKey(c, s)] # NoOid \/ SchemaAhead(c, s)
TableSafe(c, s, t) ==
  \/ found[TableKey(c, s, t)] # NoOid
  \/ SchemaAhead(c, s)
  \/ c = catalog /\ s = schema /\ t \in todoTables

\* No scan ends without meeting what keeps a reported object in the cache.
ReportedAreMet ==
  \A k \in Keys : pinned[k] # NoOid =>
    /\ Scanning({"class"}) =>
         /\ k.kind = "catalog" => CatalogSafe(k.cat)
         /\ k.kind = "schema" => SchemaSafe(k.cat, k.sch)
         /\ k.kind = "table" => TableSafe(k.cat, k.sch, k.tab)
    /\ Scanning({"namespace"}) /\ k.kind # "catalog" => SchemaSafe(k.cat, k.sch)
    /\ Scanning({"attribute"}) /\ k.kind = "table" => TableSafe(k.cat, k.sch, k.tab)
    /\ Scanning({"database"}) => CatalogSafe(k.cat)

\* The inductive invariant.
IndInv ==
  /\ TypeOK /\ LiveNested /\ AssignedOnce /\ FoundIsCached
  /\ ReportedAreCached /\ ReportedAreMet

-----------------------------------------------------------------------------
\* What clients see of the catalog is a registry: the counter, the cache and its
\* evictions, aborted scans and DDL never show through.
Registry ==
  INSTANCE OidRegistry WITH
    Objects <- Keys, Sharing <- {k \in Keys : Fixed(k)}, Unknown <- NoOid,
    known <- pinned, shown <- seen
ImplementsRegistry == Registry!Spec

\* A pg_class scan no DDL overlapped leaves only existing objects in the cache
\* and a pg_namespace scan only existing schemas, so the cache does not collect
\* dropped objects (pg_class: "drop the original one in case that schemas or
\* tables were dropped").
ScansPrune ==
  [][/\ FinishClass /\ quiet => \A k \in Keys : cache'[k] # NoOid => Exists(k)
     /\ FinishNamespace /\ quiet =>
          \A k \in SchemaKeys : cache'[k] # NoOid => Exists(k)]_vars

\* The lock is always released: a requested scan eventually returns or stops.
ScansEnd == \A b \in Scanners : want[b] # "none" ~> want[b] = "none"

\* The database "postgres" is in every answer of pg_database, so the OID a
\* client reads for it should not change either ("keeping OIDs stable across
\* catalog queries").
DefaultDatabaseStable ==
  \A p, q \in seen :
    p.key = CatalogKey(DefaultDb) /\ q.key = p.key => p.oid = q.oid
=============================================================================
