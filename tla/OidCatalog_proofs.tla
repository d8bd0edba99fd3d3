------------------------- MODULE OidCatalog_proofs --------------------------
(* Theorems about OidCatalog, for every value of its constants. *)
EXTENDS OidCatalog, TLAPS

-----------------------------------------------------------------------------
(* Keys *)

\* Keys of different kinds or with different parts differ; a key determines
\* its kind and its catalog.
LEMMA KeyKinds ==
  /\ \A c \in CatalogNames : CatalogKey(c) \in CatalogKeys
  /\ \A c \in CatalogNames, s \in Schemas : SchemaKey(c, s) \in SchemaKeys
  /\ \A c \in CatalogNames, s \in Schemas, t \in Tables : TableKey(c, s, t) \in TableKeys
  /\ \A k \in CatalogKeys : k.kind = "catalog" /\ k.cat \in CatalogNames /\ k = CatalogKey(k.cat)
  /\ \A k \in SchemaKeys : /\ k.kind = "schema" /\ k.cat \in CatalogNames /\ k.sch \in Schemas
                           /\ k = SchemaKey(k.cat, k.sch)
  /\ \A k \in TableKeys : /\ k.kind = "table" /\ k.cat \in CatalogNames /\ k.sch \in Schemas
                          /\ k.tab \in Tables /\ k = TableKey(k.cat, k.sch, k.tab)
  /\ Keys = CatalogKeys \union SchemaKeys \union TableKeys
BY DEF CatalogKeys, SchemaKeys, TableKeys, CatalogKey, SchemaKey, TableKey, Keys

-----------------------------------------------------------------------------
(* Types *)

\* resolve_oid returns an OID and moves the counter forward.
LEMMA ResolveType ==
  ASSUME OidType, NEW k \in Keys
  PROVE  /\ ResolveOid(k) \in Oids \ {NoOid}
         /\ CounterAfter(k) \in Nat /\ CounterAfter(k) >= counter
BY DEF OidType, ResolveOid, FreshOid, CounterAfter, Oids, NoOid, FixedOid, FirstOid

\* A resolution enters the key in the scan's map and keeps the other entries.
LEMMA ResolveStep ==
  ASSUME OidType, UNCHANGED cache, NEW k \in Keys, Resolve(k)
  PROVE  /\ OidType'
         /\ found'[k] # NoOid
         /\ \A x \in Keys : found[x] # NoOid => found'[x] # NoOid
BY ResolveType DEF OidType, Resolve, FirstOid

\* Reconciling two maps of OIDs gives a map of OIDs.
LEMMA ReconcileType ==
  ASSUME OidType, NEW map \in [Keys -> Oids], NEW drops
  PROVE  Reconcile(drops, map) \in [Keys -> Oids]
BY DEF OidType, Reconcile, Oids

\* Delivering a batch keeps the types of what it changes.
LEMMA DeliverType ==
  ASSUME TypeOK, holder # Nobody, NEW map \in [Keys -> Oids],
         NEW keys \in SUBSET {k \in Keys : map[k] # NoOid},
         cache' \in [Keys -> Oids], counter' \in Nat, counter' >= FirstOid,
         Deliver(keys, map)
  PROVE  TypeOK'
<1>1. LiveType'
  BY DEF TypeOK, LiveType, Deliver, live
<1>2. OidType'
  BY DEF OidType, Deliver, Release, Oids
<1>3. ScanType'
  BY DEF TypeOK, ScanType, Deliver, Release, WalkDone
<1>4. seen' \subseteq [oid : Oids \ {NoOid}, key : Keys]
  BY DEF TypeOK, HistoryType, Deliver
<1>5. pinned' \in [Keys -> Oids]
  BY DEF TypeOK, HistoryType, Deliver
<1> QED
  BY <1>1, <1>2, <1>3, <1>4, <1>5 DEF TypeOK, HistoryType

LEMMA TypeInit == Init => TypeOK
<1> SUFFICES ASSUME Init PROVE TypeOK
  OBVIOUS
<1>1. LiveType
  BY CatalogAssumption, NameAssumption DEF Init, LiveType
<1>2. OidType
  BY DEF Init, OidType, Oids, FirstOid
<1>3. ScanType
  BY DEF Init, ScanType, WalkDone
<1>4. HistoryType
  BY DEF Init, HistoryType, Oids
<1> QED
  BY <1>1, <1>2, <1>3, <1>4 DEF TypeOK

LEMMA TypeNext == TypeOK /\ [Next]_vars => TypeOK'
<1> SUFFICES ASSUME TypeOK, [Next]_vars PROVE TypeOK'
  OBVIOUS
<1> USE ScannerAssumption DEF TypeOK
<1>1. ASSUME NEW b \in Scanners, NEW kind \in Kinds, Request(b, kind)
      PROVE  TypeOK'
  <2>1. LiveType' /\ OidType' /\ HistoryType'
    BY <1>1 DEF Request, LiveType, OidType, HistoryType, live, history
  <2>2. ScanType'
    BY <1>1 DEF Request, ScanType, Scanning, walk, WalkDone
  <2> QED
    BY <2>1, <2>2
<1>2. ASSUME NEW b \in Scanners, Acquire(b)
      PROVE  TypeOK'
  <2>1. LiveType' /\ OidType' /\ HistoryType'
    BY <1>2 DEF Acquire, LiveType, OidType, HistoryType, live, history
  <2>2. ScanType'
    BY <1>2 DEF Acquire, ScanType, Scanning, LiveType, WalkDone
  <2> QED
    BY <2>1, <2>2
<1>3. ASSUME NEW b \in Scanners, Abort(b)
      PROVE  TypeOK'
  <2>1. LiveType' /\ OidType' /\ HistoryType'
    BY <1>3 DEF Abort, Release, LiveType, OidType, HistoryType, live, history, Oids
  <2>2. ScanType'
    BY <1>3 DEF Abort, Release, ScanType, Scanning, walk, WalkDone
  <2> QED
    BY <2>1, <2>2
<1>4. ASSUME NEW c \in Catalogs, VisitCatalog(c)
      PROVE  TypeOK'
  <2>1. CatalogKey(c) \in Keys
    BY KeyKinds DEF CatalogNames
  <2>2. /\ OidType'
        /\ \A k \in Keys : found[k] # NoOid => found'[k] # NoOid
        /\ Scanning({"class", "database"}) => found'[CatalogKey(c)] # NoOid
    BY <1>4, <2>1, ResolveStep DEF VisitCatalog, SkipResolve, OidType
  <2>3. rows' \subseteq {k \in Keys : found'[k] # NoOid}
    BY <1>4, <2>1, <2>2 DEF VisitCatalog, ScanType, Scanning
  <2>4. LiveType' /\ HistoryType'
    BY <1>4 DEF VisitCatalog, LiveType, HistoryType, live, history
  <2>5. ScanType'
    BY <1>4, <2>3 DEF VisitCatalog, ScanType, Scanning, SchemasOf
  <2> QED
    BY <2>2, <2>4, <2>5
<1>5. ASSUME NEW s \in Schemas, VisitSchema(s)
      PROVE  TypeOK'
  <2>0. catalog \in Catalogs
    BY <1>5 DEF VisitSchema, ScanType
  <2>1. SchemaKey(catalog, s) \in Keys
    BY <2>0, KeyKinds DEF CatalogNames
  <2>2. /\ OidType'
        /\ \A k \in Keys : found[k] # NoOid => found'[k] # NoOid
        /\ Scanning({"class", "namespace"}) => found'[SchemaKey(catalog, s)] # NoOid
    BY <1>5, <2>1, ResolveStep DEF VisitSchema, SkipResolve, OidType
  <2>3. rows' \subseteq {k \in Keys : found'[k] # NoOid}
    BY <1>5, <2>1, <2>2 DEF VisitSchema, ScanType, Scanning
  <2>4. LiveType' /\ HistoryType'
    BY <1>5 DEF VisitSchema, LiveType, HistoryType, live, history
  <2>5. ScanType'
    BY <1>5, <2>0, <2>2, <2>3 DEF VisitSchema, ScanType, Scanning, TablesOf
  <2> QED
    BY <2>2, <2>4, <2>5
<1>6. ASSUME NEW t \in Tables, VisitTable(t)
      PROVE  TypeOK'
  <2> DEFINE key == TableKey(catalog, schema, t)
  <2>0. catalog \in Catalogs /\ schema \in Schemas
    BY <1>6 DEF VisitTable, ScanType
  <2>1. key \in Keys /\ SchemaKey(catalog, schema) \in Keys
    BY <2>0, KeyKinds DEF CatalogNames
  <2>2. /\ OidType'
        /\ \A k \in Keys : found[k] # NoOid => found'[k] # NoOid
        /\ found'[key] # NoOid
    BY <1>6, <2>1, ResolveStep DEF VisitTable
  <2>3. rows' \subseteq {k \in Keys : found'[k] # NoOid}
    BY <1>6, <2>1, <2>2 DEF VisitTable, ScanType, Scanning
  <2>4. LiveType' /\ HistoryType'
    BY <1>6 DEF VisitTable, LiveType, HistoryType, live, history
  <2>5. ScanType'
    BY <1>6, <2>0, <2>1, <2>2, <2>3 DEF VisitTable, ScanType, Scanning
  <2> QED
    BY <2>2, <2>4, <2>5
<1>7. ASSUME Finish
      PROVE  TypeOK'
  <2> USE DEF ScanType, OidType
  <2>1. CASE FinishClass
    BY <2>1, ReconcileType, DeliverType DEF FinishClass, Scanning
  <2>2. CASE FinishNamespace
    BY <2>2, ReconcileType, DeliverType DEF FinishNamespace, Scanning
  <2>3. CASE FinishAttribute
    BY <2>3, ReconcileType, DeliverType DEF FinishAttribute, Scanning
  <2>4. CASE FinishDatabase
    <3> DEFINE default == CatalogKey(DefaultDb)
               listed == found[default] # NoOid
               map == IF listed THEN found
                      ELSE [found EXCEPT ![default] = ResolveOid(default)]
    <3>1. default \in Keys
      BY KeyKinds DEF CatalogNames
    <3>2. /\ map \in [Keys -> Oids]
          /\ map[default] # NoOid
          /\ \A k \in Keys : found[k] # NoOid => map[k] # NoOid
      BY <3>1, ResolveType
    <3>3. /\ Deliver(rows \union {default}, map)
          /\ cache' = Reconcile(DatabaseDrops(map), map)
          /\ counter' = IF listed THEN counter ELSE CounterAfter(default)
          /\ holder # Nobody
      BY <2>4 DEF FinishDatabase, Scanning
    <3>4. rows \union {default} \in SUBSET {k \in Keys : map[k] # NoOid}
      BY <3>1, <3>2
    <3>5. counter' \in Nat /\ counter' >= FirstOid
      BY <3>1, <3>3, ResolveType DEF FirstOid
    <3>6. cache' \in [Keys -> Oids]
      BY <3>2, <3>3, ReconcileType
    <3> HIDE DEF map, default
    <3> QED
      BY <3>2, <3>3, <3>4, <3>5, <3>6, DeliverType
  <2> QED
    BY <1>7, <2>1, <2>2, <2>3, <2>4 DEF Finish
<1>8. ASSUME Ddl
      PROVE  TypeOK'
  <2>1. LiveType'
    <3>1. CASE \E c \in Catalogs : RegisterCatalog(c)
      BY <3>1 DEF RegisterCatalog, LiveType
    <3>2. CASE \E c \in Catalogs, s \in Schemas : CreateSchema(c, s) \/ DropSchema(c, s)
      BY <3>2 DEF CreateSchema, DropSchema, LiveType
    <3>3. CASE \E c \in Catalogs, s \in Schemas, t \in Tables :
                 CreateTable(c, s, t) \/ DropTable(c, s, t)
      BY <3>3 DEF CreateTable, DropTable, LiveType
    <3> QED
      BY <1>8, <3>1, <3>2, <3>3 DEF Ddl
  <2>2. Changed
    BY <1>8 DEF Ddl, RegisterCatalog, CreateSchema, DropSchema, CreateTable, DropTable
  <2>3. OidType' /\ HistoryType'
    BY <2>2 DEF Changed, OidType, HistoryType, Oids
  <2>4. ScanType'
    BY <2>2 DEF Changed, ScanType, Scanning, walk, WalkDone
  <2> QED
    BY <2>1, <2>3, <2>4
<1>9. CASE UNCHANGED vars
  BY <1>9 DEF LiveType, OidType, ScanType, Scanning, HistoryType, vars, live, walk, history, WalkDone
<1> QED
  BY <1>1, <1>2, <1>3, <1>4, <1>5, <1>6, <1>7, <1>8, <1>9 DEF Next, Walk

\* Every variable keeps its type, and the state of a scan is empty while
\* nobody holds the cache's lock.
THEOREM TypeCorrect == Spec => []TypeOK
<1>1. Init => TypeOK
  BY TypeInit
<1>2. TypeOK /\ [Next]_vars => TypeOK'
  BY TypeNext
<1> QED
  BY <1>1, <1>2, PTL DEF Spec

-----------------------------------------------------------------------------
(* One owner per OID *)

\* The members of OidsOf.
LEMMA OidsOfMember ==
  ASSUME NEW k, NEW o
  PROVE  o \in OidsOf(k) <=>
           /\ o # NoOid
           /\ o = cache[k] \/ o = found[k] \/ \E p \in seen : p.key = k /\ p.oid = o
BY DEF OidsOf

\* ... and of OidsOf in the next state.
LEMMA OidsOfMemberNext ==
  ASSUME NEW k, NEW o
  PROVE  o \in OidsOf(k)' <=>
           /\ o # NoOid
           /\ o = cache'[k] \/ o = found'[k] \/ \E p \in seen' : p.key = k /\ p.oid = o
BY DEF OidsOf

\* OIDs are numbers.
LEMMA OidsAreNumbers ==
  ASSUME OidType, HistoryType, NEW k \in Keys
  PROVE  OidsOf(k) \subseteq Nat
BY OidsOfMember DEF OidType, HistoryType, Oids, NoOid, FixedOid

\* A step that gives nobody an OID keeps the owners.
LEMMA NoNewOwner ==
  ASSUME AssignedOnce, counter' = counter,
         \A k \in Keys : OidsOf(k)' \subseteq OidsOf(k)
  PROVE  AssignedOnce'
BY DEF AssignedOnce

\* A step that gives one key the OID resolve_oid returns for it does too: that
\* OID is fixed, or cached under this key, or nobody has had it yet.
LEMMA OneNewOwner ==
  ASSUME AssignedOnce, OidType, HistoryType, NEW k \in Keys, counter' = CounterAfter(k),
         \A x \in Keys : OidsOf(x)' \subseteq
           OidsOf(x) \union (IF x = k THEN {ResolveOid(k)} ELSE {})
  PROVE  AssignedOnce'
<1> USE DEF NoOid, FixedOid, FirstOid, OidType
<1>2. CASE Fixed(k)
  <2>1. ResolveOid(k) = FixedOid /\ counter' = counter
    BY <1>2 DEF ResolveOid, CounterAfter
  <2> QED
    BY <1>2, <2>1 DEF AssignedOnce
<1>3. CASE ~Fixed(k) /\ cache[k] # NoOid
  <2>1. ResolveOid(k) \in OidsOf(k)
    BY <1>3, OidsOfMember DEF ResolveOid
  <2>2. counter' = counter
    BY <1>3 DEF CounterAfter
  <2> QED
    BY <2>1, <2>2, NoNewOwner
<1>4. CASE ~Fixed(k) /\ cache[k] = NoOid
  <2>1. ResolveOid(k) = counter /\ counter' = counter + 1
    BY <1>4 DEF ResolveOid, FreshOid, CounterAfter
  <2>2. \A x \in Keys : counter \notin OidsOf(x)
    BY DEF AssignedOnce
  <2>3. \A x \in Keys : \A o \in OidsOf(x)' : o \in OidsOf(x) \/ (x = k /\ o = counter)
    BY <2>1
  <2>4. \A x \in Keys : \A o \in OidsOf(x) : o \in Nat /\ o < counter
    BY OidsAreNumbers DEF AssignedOnce
  <2>5. \A x \in Keys : \A o \in OidsOf(x)' : o < counter' /\ (o = FixedOid <=> Fixed(x))
    BY <1>4, <2>1, <2>3, <2>4 DEF AssignedOnce
  <2>6. \A x, y \in Keys : \A o \in OidsOf(x)' :
          o \in OidsOf(y)' => x = y \/ o = FixedOid
    BY <2>2, <2>3 DEF AssignedOnce
  <2> QED
    BY <2>5, <2>6 DEF AssignedOnce
<1> QED
  BY <1>2, <1>3, <1>4

\* A visit gives an OID to the key it resolves only.
LEMMA ResolveOwner ==
  ASSUME AssignedOnce, OidType, HistoryType, NEW k \in Keys, Resolve(k), UNCHANGED <<cache, seen>>
  PROVE  AssignedOnce'
<1>1. \A x \in Keys : OidsOf(x)' \subseteq
        OidsOf(x) \union (IF x = k THEN {ResolveOid(k)} ELSE {})
  BY OidsOfMember, OidsOfMemberNext DEF Resolve, OidType
<1> QED
  BY <1>1, OneNewOwner DEF Resolve

\* A delivery gives a key no OID but the one in the map it delivers.
LEMMA DeliverOwner ==
  ASSUME NEW map, NEW drops, NEW keys \in SUBSET Keys,
         cache' = Reconcile(drops, map), Deliver(keys, map)
  PROVE  \A x \in Keys : OidsOf(x)' \subseteq OidsOf(x) \union ({map[x]} \ {NoOid})
<1> SUFFICES ASSUME NEW x \in Keys, NEW o \in OidsOf(x)'
             PROVE  o \in OidsOf(x) \/ (o = map[x] /\ o # NoOid)
  OBVIOUS
<1>1. o # NoOid /\ (o = cache'[x] \/ o = found'[x] \/ \E p \in seen' : p.key = x /\ p.oid = o)
  BY OidsOfMemberNext
<1>2. CASE o = cache'[x]
  BY <1>1, <1>2, OidsOfMember DEF Reconcile
<1>3. CASE o = found'[x]
  BY <1>1, <1>3 DEF Deliver, Release
<1>4. ASSUME NEW p \in seen', p.key = x, p.oid = o
      PROVE  o \in OidsOf(x) \/ (o = map[x] /\ o # NoOid)
  <2>1. p \in seen \/ \E k \in keys : p = [oid |-> map[k], key |-> k]
    BY DEF Deliver
  <2> QED
    BY <1>1, <1>4, <2>1, OidsOfMember
<1> QED
  BY <1>1, <1>2, <1>3, <1>4

LEMMA OwnerNext == TypeOK /\ AssignedOnce /\ [Next]_vars => AssignedOnce'
<1> SUFFICES ASSUME TypeOK, AssignedOnce, [Next]_vars PROVE AssignedOnce'
  OBVIOUS
<1> USE DEF TypeOK
<1>1. ASSUME UNCHANGED <<cache, counter, seen>>,
             \A k \in Keys : found'[k] \in {found[k], NoOid}
      PROVE  AssignedOnce'
  <2>1. \A k \in Keys : OidsOf(k)' \subseteq OidsOf(k)
    BY <1>1, OidsOfMember, OidsOfMemberNext
  <2> QED
    BY <1>1, <2>1, NoNewOwner
<1>2. ASSUME NEW b \in Scanners,
             (\E kind \in Kinds : Request(b, kind)) \/ Acquire(b) \/ Abort(b)
      PROVE  AssignedOnce'
  BY <1>1, <1>2 DEF Request, Acquire, Abort, Release, history
<1>3. ASSUME NEW c \in Catalogs, VisitCatalog(c)
      PROVE  AssignedOnce'
  <2>1. CatalogKey(c) \in Keys
    BY KeyKinds DEF CatalogNames
  <2> QED
    BY <1>1, <1>3, <2>1, ResolveOwner DEF VisitCatalog, SkipResolve, history
<1>4. ASSUME NEW s \in Schemas, VisitSchema(s)
      PROVE  AssignedOnce'
  <2>1. SchemaKey(catalog, s) \in Keys
    BY <1>4, KeyKinds DEF VisitSchema, ScanType, CatalogNames
  <2> QED
    BY <1>1, <1>4, <2>1, ResolveOwner DEF VisitSchema, SkipResolve, history
<1>5. ASSUME NEW t \in Tables, VisitTable(t)
      PROVE  AssignedOnce'
  <2>1. TableKey(catalog, schema, t) \in Keys
    BY <1>5, KeyKinds DEF VisitTable, ScanType, CatalogNames
  <2> QED
    BY <1>5, <2>1, ResolveOwner DEF VisitTable, history
<1>6. ASSUME FinishClass \/ FinishNamespace \/ FinishAttribute
      PROVE  AssignedOnce'
  <2>1. PICK drops : cache' = Reconcile(drops, found)
    BY <1>6 DEF FinishClass, FinishNamespace, FinishAttribute
  <2>2. Deliver(rows, found) /\ counter' = counter /\ rows \in SUBSET Keys
    BY <1>6 DEF FinishClass, FinishNamespace, FinishAttribute, ScanType
  <2>3. \A x \in Keys : OidsOf(x)' \subseteq OidsOf(x) \union ({found[x]} \ {NoOid})
    BY <2>1, <2>2, DeliverOwner
  <2>4. \A x \in Keys : OidsOf(x)' \subseteq OidsOf(x)
    BY <2>3, OidsOfMember
  <2> QED
    BY <2>2, <2>4, NoNewOwner
<1>7. ASSUME FinishDatabase
      PROVE  AssignedOnce'
  <2> DEFINE default == CatalogKey(DefaultDb)
             listed == found[default] # NoOid
             map == IF listed THEN found
                    ELSE [found EXCEPT ![default] = ResolveOid(default)]
  <2>1. default \in Keys
    BY KeyKinds DEF CatalogNames
  <2>2. /\ Deliver(rows \union {default}, map)
        /\ cache' = Reconcile(DatabaseDrops(map), map)
        /\ counter' = IF listed THEN counter ELSE CounterAfter(default)
    BY <1>7 DEF FinishDatabase
  <2>3. rows \union {default} \in SUBSET Keys
    BY <2>1 DEF ScanType
  <2> HIDE DEF map
  <2>4. \A x \in Keys : OidsOf(x)' \subseteq OidsOf(x) \union ({map[x]} \ {NoOid})
    BY <2>2, <2>3, DeliverOwner
  <2>5. CASE listed
    <3>1. map = found
      BY <2>5 DEF map
    <3>2. \A x \in Keys : OidsOf(x)' \subseteq OidsOf(x)
      BY <2>4, <3>1, OidsOfMember
    <3> QED
      BY <2>2, <2>5, <3>2, NoNewOwner
  <2>6. CASE ~listed
    <3>1. \A x \in Keys : map[x] = IF x = default THEN ResolveOid(default) ELSE found[x]
      BY <2>1, <2>6 DEF map, OidType
    <3>2. \A x \in Keys : OidsOf(x)' \subseteq
            OidsOf(x) \union (IF x = default THEN {ResolveOid(default)} ELSE {})
      BY <2>4, <3>1, OidsOfMember
    <3> HIDE DEF default
    <3> QED
      BY <2>1, <2>2, <2>6, <3>2, OneNewOwner
  <2> QED
    BY <2>5, <2>6
<1>8. ASSUME Ddl
      PROVE  AssignedOnce'
  <2>1. Changed
    BY <1>8 DEF Ddl, RegisterCatalog, CreateSchema, DropSchema, CreateTable, DropTable
  <2> QED
    BY <1>1, <2>1 DEF Changed
<1>9. CASE UNCHANGED vars
  BY <1>1, <1>9 DEF vars, history
<1> QED
  BY <1>2, <1>3, <1>4, <1>5, <1>6, <1>7, <1>8, <1>9 DEF Next, Walk, Finish

-----------------------------------------------------------------------------
(* An object keeps its OID *)

\* The catalog of an existing object is registered, the schema of an existing
\* table exists.
LEMMA ExistsNested ==
  ASSUME LiveType, LiveNested, NEW k \in Keys, Exists(k)
  PROVE  /\ k.cat \in catalogs
         /\ k.kind # "catalog" => k.sch \in SchemasOf(k.cat)
         /\ k.kind = "table" => k.tab \in TablesOf(k.cat, k.sch)
BY KeyKinds DEF LiveType, LiveNested, Exists, SchemasOf, TablesOf

LEMMA NestedNext == TypeOK /\ LiveNested /\ [Next]_vars => LiveNested'
<1> SUFFICES ASSUME TypeOK, LiveNested, [Next]_vars PROVE LiveNested'
  OBVIOUS
<1>1. CASE UNCHANGED live
  BY <1>1 DEF LiveNested, live
<1>2. ASSUME NEW c \in Catalogs, RegisterCatalog(c)
      PROVE  LiveNested'
  BY <1>2 DEF RegisterCatalog, LiveNested
<1>3. ASSUME NEW c \in Catalogs, NEW s \in Schemas, CreateSchema(c, s)
      PROVE  LiveNested'
  BY <1>3 DEF CreateSchema, LiveNested
<1>4. ASSUME NEW c \in Catalogs, NEW s \in Schemas, DropSchema(c, s)
      PROVE  LiveNested'
  BY <1>4 DEF DropSchema, LiveNested
<1>5. ASSUME NEW c \in Catalogs, NEW s \in Schemas, NEW t \in Tables,
             CreateTable(c, s, t) \/ DropTable(c, s, t)
      PROVE  LiveNested'
  BY <1>5 DEF CreateTable, DropTable, LiveNested
<1>6. CASE \E b \in Scanners : (\E kind \in Kinds : Request(b, kind)) \/ Acquire(b) \/ Abort(b)
  BY <1>1, <1>6 DEF Request, Acquire, Abort
<1>7. CASE Walk
  BY <1>1, <1>7 DEF Walk, VisitCatalog, VisitSchema, VisitTable
<1>8. CASE Finish
  BY <1>1, <1>8 DEF Finish, FinishClass, FinishNamespace, FinishAttribute, FinishDatabase, Deliver
<1> QED
  BY <1>1, <1>2, <1>3, <1>4, <1>5, <1>6, <1>7, <1>8 DEF Next, Ddl, vars

\* What resolve_oid returns for a cached key is what the cache holds.
LEMMA ResolveCached ==
  ASSUME AssignedOnce, NEW k \in Keys, cache[k] # NoOid
  PROVE  ResolveOid(k) = cache[k]
<1>1. cache[k] \in OidsOf(k)
  BY OidsOfMember
<1> QED
  BY <1>1 DEF AssignedOnce, ResolveOid

LEMMA FoundResolve ==
  ASSUME OidType, AssignedOnce, FoundIsCached, UNCHANGED cache, NEW k \in Keys, Resolve(k)
  PROVE  FoundIsCached'
BY ResolveCached DEF OidType, FoundIsCached, Resolve

LEMMA FoundNext == TypeOK /\ AssignedOnce /\ FoundIsCached /\ [Next]_vars => FoundIsCached'
<1> SUFFICES ASSUME TypeOK, AssignedOnce, FoundIsCached, [Next]_vars PROVE FoundIsCached'
  OBVIOUS
<1> USE DEF TypeOK
<1>1. ASSUME UNCHANGED <<cache, found>>
      PROVE  FoundIsCached'
  BY <1>1 DEF FoundIsCached
<1>2. ASSUME \A k \in Keys : found'[k] = NoOid
      PROVE  FoundIsCached'
  BY <1>2 DEF FoundIsCached
<1>3. ASSUME NEW b \in Scanners,
             (\E kind \in Kinds : Request(b, kind)) \/ Acquire(b) \/ Abort(b)
      PROVE  FoundIsCached'
  BY <1>1, <1>2, <1>3 DEF Request, Acquire, Abort, Release
<1>4. ASSUME NEW c \in Catalogs, VisitCatalog(c)
      PROVE  FoundIsCached'
  <2>1. CatalogKey(c) \in Keys
    BY KeyKinds DEF CatalogNames
  <2> QED
    BY <1>1, <1>4, <2>1, FoundResolve DEF VisitCatalog, SkipResolve
<1>5. ASSUME NEW s \in Schemas, VisitSchema(s)
      PROVE  FoundIsCached'
  <2>1. SchemaKey(catalog, s) \in Keys
    BY <1>5, KeyKinds DEF VisitSchema, ScanType, CatalogNames
  <2> QED
    BY <1>1, <1>5, <2>1, FoundResolve DEF VisitSchema, SkipResolve
<1>6. ASSUME NEW t \in Tables, VisitTable(t)
      PROVE  FoundIsCached'
  <2>1. TableKey(catalog, schema, t) \in Keys
    BY <1>6, KeyKinds DEF VisitTable, ScanType, CatalogNames
  <2> QED
    BY <1>6, <2>1, FoundResolve DEF VisitTable
<1>7. ASSUME Finish
      PROVE  FoundIsCached'
  BY <1>2, <1>7 DEF Finish, FinishClass, FinishNamespace, FinishAttribute, FinishDatabase,
                    Deliver, Release
<1>8. ASSUME Ddl
      PROVE  FoundIsCached'
  BY <1>1, <1>8 DEF Ddl, RegisterCatalog, CreateSchema, DropSchema, CreateTable, DropTable,
                    Changed
<1>9. CASE UNCHANGED vars
  BY <1>1, <1>9 DEF vars
<1> QED
  BY <1>3, <1>4, <1>5, <1>6, <1>7, <1>8, <1>9 DEF Next, Walk

\* A delivery leaves every reported object its OID, if it does not drop a
\* reported object the scan has not met and its map agrees with the cache.
LEMMA DeliverReported ==
  ASSUME OidType, HistoryType, ReportedAreCached, NEW map \in [Keys -> Oids],
         NEW keys \in SUBSET {k \in Keys : map[k] # NoOid}, NEW drops,
         Deliver(keys, map), cache' = Reconcile(drops, map),
         \A k \in Keys : map[k] # NoOid /\ cache[k] # NoOid => map[k] = cache[k],
         \A k \in Keys : k \in drops /\ pinned[k] # NoOid => map[k] # NoOid
  PROVE  /\ ReportedAreCached'
         /\ \A k \in Keys : pinned[k] # NoOid => pinned'[k] = pinned[k]
<1>1. \A k \in Keys : pinned'[k] = IF k \in keys /\ Exists(k) THEN map[k] ELSE pinned[k]
  BY DEF Deliver
<1>2. \A k \in Keys : pinned[k] # NoOid => cache'[k] = pinned[k] /\ Exists(k)
  BY DEF Reconcile, ReportedAreCached
<1>3. \A k \in keys : cache'[k] = map[k]
  BY DEF Reconcile
<1>4. \A k \in Keys : Exists(k)' <=> Exists(k)
  BY DEF Deliver, Exists, live
<1>5. ReportedAreCached'
  BY <1>1, <1>2, <1>3, <1>4 DEF ReportedAreCached
<1>6. \A k \in Keys : pinned[k] # NoOid => pinned'[k] = pinned[k]
  BY <1>1 DEF ReportedAreCached
<1> QED
  BY <1>5, <1>6

\* A scan that has walked everything has met all it answers for.
LEMMA WalkedIsMet ==
  ASSUME ReportedAreMet, WalkDone, NEW k \in Keys, pinned[k] # NoOid
  PROVE  /\ Scanning({"class"}) => found[k] # NoOid
         /\ Scanning({"namespace"}) /\ k.kind # "catalog" => found[SchemaKey(k.cat, k.sch)] # NoOid
         /\ Scanning({"attribute"}) /\ k.kind = "table" => found[k] # NoOid
         /\ Scanning({"database"}) => found[CatalogKey(k.cat)] # NoOid
<1>1. /\ k.kind = "catalog" => k = CatalogKey(k.cat)
      /\ k.kind = "schema" => k = SchemaKey(k.cat, k.sch)
      /\ k.kind = "table" => k = TableKey(k.cat, k.sch, k.tab)
      /\ k.kind \in {"catalog", "schema", "table"}
  BY KeyKinds
<1> QED
  BY <1>1 DEF ReportedAreMet, WalkDone, CatalogSafe, SchemaSafe, SchemaAhead, TableSafe

\* What every answer of a catalog query does to the objects reported before.
LEMMA FinishReported ==
  ASSUME IndInv, Finish
  PROVE  /\ ReportedAreCached'
         /\ \A k \in Keys : pinned[k] # NoOid => pinned'[k] = pinned[k]
<1> USE DEF IndInv, TypeOK
<1>0. \A k \in Keys : /\ k \in CatalogKeys => k.kind = "catalog" /\ k = CatalogKey(k.cat)
                      /\ k \in SchemaKeys => k.kind = "schema" /\ k = SchemaKey(k.cat, k.sch)
                      /\ k \in TableKeys => k.kind = "table"
  BY KeyKinds
<1>1. CASE FinishClass
  <2>1. \A k \in Keys : k \in ClassDrops /\ pinned[k] # NoOid => found[k] # NoOid
    BY <1>1, WalkedIsMet DEF FinishClass
  <2> QED
    BY <1>1, <2>1, DeliverReported DEF FinishClass, FoundIsCached, OidType, ScanType
<1>2. CASE FinishNamespace
  <2>1. \A k \in Keys : k \in NamespaceDrops /\ pinned[k] # NoOid => found[k] # NoOid
    BY <1>0, <1>2, WalkedIsMet DEF FinishNamespace, NamespaceDrops
  <2> QED
    BY <1>2, <2>1, DeliverReported DEF FinishNamespace, FoundIsCached, OidType, ScanType
<1>3. CASE FinishAttribute
  <2>1. \A k \in Keys : k \in AttributeDrops /\ pinned[k] # NoOid => found[k] # NoOid
    BY <1>0, <1>3, WalkedIsMet DEF FinishAttribute, AttributeDrops
  <2> QED
    BY <1>3, <2>1, DeliverReported DEF FinishAttribute, FoundIsCached, OidType, ScanType
<1>4. CASE FinishDatabase
  <2> DEFINE default == CatalogKey(DefaultDb)
             listed == found[default] # NoOid
             map == IF listed THEN found
                    ELSE [found EXCEPT ![default] = ResolveOid(default)]
  <2>1. default \in Keys
    BY KeyKinds DEF CatalogNames
  <2>2. /\ Deliver(rows \union {default}, map)
        /\ cache' = Reconcile(DatabaseDrops(map), map)
        /\ Scanning({"database"}) /\ WalkDone
    BY <1>4 DEF FinishDatabase
  <2>3. /\ map \in [Keys -> Oids]
        /\ map[default] # NoOid
        /\ \A k \in Keys : found[k] # NoOid => map[k] # NoOid
    BY <2>1, ResolveType DEF OidType
  <2>4. rows \union {default} \in SUBSET {k \in Keys : map[k] # NoOid}
    BY <2>1, <2>3 DEF ScanType
  <2>5. \A k \in Keys : map[k] # NoOid /\ cache[k] # NoOid => map[k] = cache[k]
    BY <2>1, ResolveCached DEF FoundIsCached, OidType
  <2>6. \A k \in Keys : pinned[k] # NoOid => map[CatalogKey(k.cat)] # NoOid
    <3>1. ASSUME NEW k \in Keys, pinned[k] # NoOid
          PROVE  map[CatalogKey(k.cat)] # NoOid
      <4>1. found[CatalogKey(k.cat)] # NoOid
        BY <2>2, <3>1, WalkedIsMet
      <4>2. CatalogKey(k.cat) \in Keys
        BY KeyKinds
      <4> QED
        BY <2>3, <4>1, <4>2
    <3> QED
      BY <3>1
  <2> HIDE DEF map
  <2>7. \A k \in Keys : k \in DatabaseDrops(map) /\ pinned[k] # NoOid => map[k] # NoOid
    BY <1>0, <2>6 DEF DatabaseDrops
  <2> QED
    BY <2>2, <2>3, <2>4, <2>5, <2>7, DeliverReported
<1> QED
  BY <1>1, <1>2, <1>3, <1>4 DEF Finish

\* DDL forgets the objects it drops and nothing else.
LEMMA ChangedReported ==
  ASSUME ReportedAreCached, HistoryType, Changed
  PROVE  /\ ReportedAreCached'
         /\ \A k \in Keys : pinned'[k] \in {pinned[k], NoOid}
<1>1. \A k \in Keys : pinned'[k] = IF Exists(k)' THEN pinned[k] ELSE NoOid
  BY DEF Changed
<1> QED
  BY <1>1 DEF Changed, ReportedAreCached

LEMMA ReportedNext ==
  ASSUME IndInv, [Next]_vars
  PROVE  /\ ReportedAreCached'
         /\ \A k \in Keys : pinned[k] # NoOid => pinned'[k] \in {pinned[k], NoOid}
<1> USE DEF IndInv, TypeOK
<1>1. CASE UNCHANGED <<live, cache, pinned>>
  BY <1>1 DEF ReportedAreCached, Exists, live
<1>2. CASE \E b \in Scanners : (\E kind \in Kinds : Request(b, kind)) \/ Acquire(b) \/ Abort(b)
  BY <1>1, <1>2 DEF Request, Acquire, Abort, history
<1>3. CASE Walk
  BY <1>1, <1>3 DEF Walk, VisitCatalog, VisitSchema, VisitTable, history
<1>4. CASE Finish
  BY <1>4, FinishReported
<1>5. CASE Ddl
  <2>1. Changed
    BY <1>5 DEF Ddl, RegisterCatalog, CreateSchema, DropSchema, CreateTable, DropTable
  <2> QED
    BY <2>1, ChangedReported
<1>6. CASE UNCHANGED vars
  BY <1>1, <1>6 DEF vars, history
<1> QED
  BY <1>2, <1>3, <1>4, <1>5, <1>6 DEF Next

\* Being met or ahead depends on the scan's state only.
LEMMA MetUnchanged ==
  ASSUME ReportedAreMet, UNCHANGED <<holder, found, walk>>,
         holder # Nobody => want'[holder] = want[holder],
         \A k \in Keys : pinned'[k] # NoOid => pinned[k] # NoOid
  PROVE  ReportedAreMet'
BY DEF ReportedAreMet, Scanning, CatalogSafe, SchemaSafe, SchemaAhead, TableSafe, walk

\* Nothing is at stake while no scan runs.
LEMMA MetIdle ==
  ASSUME holder' = Nobody
  PROVE  ReportedAreMet'
BY DEF ReportedAreMet, Scanning

\* At its start everything is ahead of a scan.
LEMMA MetAcquire ==
  ASSUME IndInv, NEW b \in Scanners, Acquire(b)
  PROVE  ReportedAreMet'
<1>1. \A k \in Keys : pinned'[k] # NoOid => k.cat \in todoCatalogs'
  BY ExistsNested DEF Acquire, IndInv, TypeOK, ReportedAreCached, history
<1> QED
  BY <1>1 DEF ReportedAreMet, CatalogSafe, SchemaSafe, SchemaAhead, TableSafe

\* Moving to a catalog puts its existing schemas ahead; those of the catalog
\* left behind have all been visited.
LEMMA MetCatalog ==
  ASSUME IndInv, NEW c \in Catalogs, VisitCatalog(c)
  PROVE  ReportedAreMet'
<1> USE DEF IndInv, TypeOK
<1>1. /\ todoSchemas = {} /\ todoTables = {}
      /\ todoCatalogs' = todoCatalogs \ {c} /\ catalog' = c
      /\ UNCHANGED <<want, holder, pinned>>
      /\ ~Scanning({"database"}) => todoSchemas' = SchemasOf(c)
  BY DEF VisitCatalog, history
<1>2. CatalogKey(c) \in Keys
  BY KeyKinds DEF CatalogNames
<1>3. /\ \A k \in Keys : found[k] # NoOid => found'[k] # NoOid
      /\ Scanning({"class", "database"}) => found'[CatalogKey(c)] # NoOid
  BY <1>2, ResolveStep DEF VisitCatalog, SkipResolve
<1>4. ASSUME NEW k \in Keys, pinned[k] # NoOid
      PROVE  /\ CatalogKey(k.cat) \in Keys
             /\ k.kind # "catalog" => SchemaKey(k.cat, k.sch) \in Keys
             /\ k.kind = "table" => TableKey(k.cat, k.sch, k.tab) \in Keys
             /\ k.kind # "catalog" => k.sch \in SchemasOf(k.cat)
  BY <1>4, KeyKinds, ExistsNested DEF ReportedAreCached
<1>5. ASSUME NEW k \in Keys, pinned[k] # NoOid
      PROVE  /\ Scanning({"class", "database"}) /\ CatalogSafe(k.cat) => CatalogSafe(k.cat)'
             /\ ~Scanning({"database"}) /\ k.kind # "catalog" /\ SchemaSafe(k.cat, k.sch)
                  => SchemaSafe(k.cat, k.sch)'
             /\ ~Scanning({"database"}) /\ k.kind = "table" /\ TableSafe(k.cat, k.sch, k.tab)
                  => TableSafe(k.cat, k.sch, k.tab)'
  BY <1>1, <1>3, <1>4, <1>5 DEF CatalogSafe, SchemaSafe, SchemaAhead, TableSafe
<1> QED
  BY <1>1, <1>5 DEF ReportedAreMet, Scanning

\* Moving to a schema puts its existing tables ahead.
LEMMA MetSchema ==
  ASSUME IndInv, NEW s \in Schemas, VisitSchema(s)
  PROVE  ReportedAreMet'
<1> USE DEF IndInv, TypeOK
<1>1. /\ todoTables = {} /\ todoSchemas' = todoSchemas \ {s} /\ schema' = s
      /\ UNCHANGED <<todoCatalogs, catalog, want, holder, pinned>>
      /\ Scanning({"class", "attribute"}) => todoTables' = TablesOf(catalog, s)
  BY DEF VisitSchema, history
<1>2. SchemaKey(catalog, s) \in Keys
  BY KeyKinds DEF VisitSchema, ScanType, CatalogNames
<1>3. /\ \A k \in Keys : found[k] # NoOid => found'[k] # NoOid
      /\ Scanning({"class", "namespace"}) => found'[SchemaKey(catalog, s)] # NoOid
  BY <1>2, ResolveStep DEF VisitSchema, SkipResolve
<1>4. ASSUME NEW k \in Keys, pinned[k] # NoOid
      PROVE  /\ CatalogKey(k.cat) \in Keys
             /\ k.kind # "catalog" => SchemaKey(k.cat, k.sch) \in Keys
             /\ k.kind = "table" => /\ TableKey(k.cat, k.sch, k.tab) \in Keys
                                    /\ k.tab \in TablesOf(k.cat, k.sch)
  BY <1>4, KeyKinds, ExistsNested DEF ReportedAreCached
<1>5. ASSUME NEW k \in Keys, pinned[k] # NoOid
      PROVE  /\ CatalogSafe(k.cat) => CatalogSafe(k.cat)'
             /\ Scanning({"class", "namespace"}) /\ k.kind # "catalog" /\ SchemaSafe(k.cat, k.sch)
                  => SchemaSafe(k.cat, k.sch)'
             /\ /\ Scanning({"class", "attribute"}) /\ k.kind = "table"
                /\ TableSafe(k.cat, k.sch, k.tab)
                => TableSafe(k.cat, k.sch, k.tab)'
  BY <1>1, <1>3, <1>4, <1>5 DEF CatalogSafe, SchemaSafe, SchemaAhead, TableSafe
<1> QED
  BY <1>1, <1>5 DEF ReportedAreMet, Scanning

\* A visited table has been met.
LEMMA MetTable ==
  ASSUME IndInv, NEW t \in Tables, VisitTable(t)
  PROVE  ReportedAreMet'
<1> USE DEF IndInv, TypeOK
<1>1. /\ todoTables' = todoTables \ {t}
      /\ UNCHANGED <<todoCatalogs, catalog, todoSchemas, schema, want, holder, pinned>>
  BY DEF VisitTable, history
<1>2. TableKey(catalog, schema, t) \in Keys
  BY KeyKinds DEF VisitTable, ScanType, CatalogNames
<1>3. /\ \A k \in Keys : found[k] # NoOid => found'[k] # NoOid
      /\ found'[TableKey(catalog, schema, t)] # NoOid
  BY <1>2, ResolveStep DEF VisitTable
<1>4. ASSUME NEW k \in Keys
      PROVE  /\ CatalogKey(k.cat) \in Keys
             /\ k.kind # "catalog" => SchemaKey(k.cat, k.sch) \in Keys
             /\ k.kind = "table" => TableKey(k.cat, k.sch, k.tab) \in Keys
  BY KeyKinds
<1>5. ASSUME NEW k \in Keys
      PROVE  /\ CatalogSafe(k.cat) => CatalogSafe(k.cat)'
             /\ k.kind # "catalog" /\ SchemaSafe(k.cat, k.sch) => SchemaSafe(k.cat, k.sch)'
             /\ k.kind = "table" /\ TableSafe(k.cat, k.sch, k.tab)
                  => TableSafe(k.cat, k.sch, k.tab)'
  BY <1>1, <1>3, <1>4 DEF CatalogSafe, SchemaSafe, SchemaAhead, TableSafe
<1> QED
  BY <1>1, <1>5 DEF ReportedAreMet, Scanning

LEMMA MetNext ==
  ASSUME IndInv, [Next]_vars
  PROVE  ReportedAreMet'
<1> USE DEF IndInv, TypeOK
<1>1. ASSUME NEW b \in Scanners, NEW kind \in Kinds, Request(b, kind)
      PROVE  ReportedAreMet'
  BY <1>1, MetUnchanged DEF Request, ScanType, history
<1>2. ASSUME NEW b \in Scanners, Acquire(b)
      PROVE  ReportedAreMet'
  BY <1>2, MetAcquire
<1>3. ASSUME NEW b \in Scanners, Abort(b)
      PROVE  ReportedAreMet'
  BY <1>3, MetUnchanged, MetIdle DEF Abort, Release, ScanType, history
<1>4. CASE Walk
  BY <1>4, MetCatalog, MetSchema, MetTable DEF Walk
<1>5. CASE Finish
  BY <1>5, MetIdle DEF Finish, FinishClass, FinishNamespace, FinishAttribute,
                       FinishDatabase, Deliver, Release
<1>6. CASE Ddl
  <2>1. Changed
    BY <1>6 DEF Ddl, RegisterCatalog, CreateSchema, DropSchema, CreateTable, DropTable
  <2>2. \A k \in Keys : pinned'[k] # NoOid => pinned[k] # NoOid
    BY <2>1, ChangedReported
  <2> QED
    BY <2>1, <2>2, MetUnchanged DEF Changed
<1>7. CASE UNCHANGED vars
  BY <1>7, MetUnchanged DEF vars, history
<1> QED
  BY <1>1, <1>2, <1>3, <1>4, <1>5, <1>6, <1>7 DEF Next

-----------------------------------------------------------------------------
(* The theorems *)

LEMMA IndInit == Init => IndInv
<1> SUFFICES ASSUME Init PROVE IndInv
  OBVIOUS
<1>1. TypeOK
  BY TypeInit
<1>2. LiveNested
  BY CatalogAssumption, NameAssumption DEF Init, LiveNested
<1>3. AssignedOnce
  BY OidsOfMember DEF Init, AssignedOnce
<1>4. FoundIsCached /\ ReportedAreCached /\ ReportedAreMet
  BY DEF Init, FoundIsCached, ReportedAreCached, ReportedAreMet
<1> QED
  BY <1>1, <1>2, <1>3, <1>4 DEF IndInv

LEMMA IndNext == IndInv /\ [Next]_vars => IndInv'
<1> SUFFICES ASSUME IndInv, [Next]_vars PROVE IndInv'
  OBVIOUS
<1>1. TypeOK' /\ LiveNested' /\ AssignedOnce' /\ FoundIsCached'
  BY TypeNext, NestedNext, OwnerNext, FoundNext DEF IndInv
<1>2. ReportedAreCached' /\ ReportedAreMet'
  BY ReportedNext, MetNext
<1> QED
  BY <1>1, <1>2 DEF IndInv

\* The inductive invariant holds for every number of catalogs, schemas, tables
\* and concurrent scans.
THEOREM Inductive == Spec => []IndInv
BY IndInit, IndNext, PTL DEF Spec

\* An OID in the cache or in a running scan belongs to one object and is behind
\* the counter; only pg_catalog namespaces have the fixed OID.
THEOREM Unique == Spec => []UniqueOids
<1>1. IndInv => UniqueOids
  <2> SUFFICES ASSUME IndInv, NEW k1 \in Keys, NEW k2 \in Keys,
                      NEW o1 \in {cache[k1], found[k1]}, NEW o2 \in {cache[k2], found[k2]},
                      o1 # NoOid
               PROVE  /\ o1 = o2 => k1 = k2 \/ (Fixed(k1) /\ Fixed(k2))
                      /\ (o1 = FixedOid <=> Fixed(k1)) /\ o1 < counter
    BY DEF UniqueOids
  <2>1. o1 \in OidsOf(k1) /\ (o2 # NoOid => o2 \in OidsOf(k2))
    BY OidsOfMember
  <2> QED
    BY <2>1 DEF IndInv, AssignedOnce
<1> QED
  BY <1>1, Inductive, PTL

\* An OID shown to clients for one object is never shown for another.
LEMMA SeenOnce == IndInv => NoOidReuse
<1> SUFFICES ASSUME IndInv, NEW p \in seen, NEW q \in seen, p.oid = q.oid
             PROVE  p.key = q.key \/ (Fixed(p.key) /\ Fixed(q.key))
  BY DEF NoOidReuse
<1>1. p.key \in Keys /\ q.key \in Keys /\ p.oid # NoOid
  BY DEF IndInv, TypeOK, HistoryType
<1>2. p.oid \in OidsOf(p.key) /\ p.oid \in OidsOf(q.key)
  BY <1>1, OidsOfMember
<1> QED
  BY <1>1, <1>2 DEF IndInv, AssignedOnce

THEOREM NeverReused == Spec => []NoOidReuse
BY SeenOnce, Inductive, PTL

\* An object keeps the OID it was reported with until it is dropped.
THEOREM Stable == Spec => StableOids
<1>1. IndInv /\ [Next]_vars =>
        [\A k \in Keys : pinned[k] # NoOid => pinned'[k] \in {pinned[k], NoOid}]_vars
  BY ReportedNext
<1> QED
  BY <1>1, Inductive, PTL DEF Spec, StableOids

-----------------------------------------------------------------------------
(* The catalog implements the registry *)

\* A delivery is an answer of the registry.
LEMMA DeliverAnswers ==
  ASSUME IndInv, IndInv', NEW map \in [Keys -> Oids], NEW keys \in SUBSET Keys,
         Deliver(keys, map),
         \A k \in Keys : k \in keys => map[k] # NoOid,
         \A k \in Keys : map[k] # NoOid /\ cache[k] # NoOid => map[k] = cache[k],
         \A k \in Keys : pinned[k] # NoOid => pinned'[k] = pinned[k]
  PROVE  Registry!Answer
<1>1. seen' = seen \union {[oid |-> map[k], key |-> k] : k \in keys}
  BY DEF Deliver
<1>2. \A p \in seen' : p.key \in Keys
  BY DEF IndInv, TypeOK, HistoryType
<1>3. Registry!Unambiguous(seen')
  <2>1. NoOidReuse'
    BY SeenOnce, PTL
  <2> QED
    BY <1>2, <2>1 DEF NoOidReuse, Registry!Unambiguous
<1>4. ASSUME NEW p \in seen' \ seen
      PROVE  pinned[p.key] \in {NoOid, p.oid}
  <2>1. PICK k \in keys : p = [oid |-> map[k], key |-> k]
    BY <1>1
  <2> QED
    BY <2>1 DEF IndInv, ReportedAreCached
<1>5. ASSUME NEW x \in Keys, pinned'[x] # pinned[x]
      PROVE  pinned[x] = NoOid /\ [oid |-> pinned'[x], key |-> x] \in seen'
  BY <1>1, <1>5 DEF Deliver
<1> QED
  BY <1>1, <1>3, <1>4, <1>5 DEF Registry!Answer

\* Clients see the counter, the cache, its evictions, aborted scans and DDL
\* only as answers and drops of the registry.
THEOREM Implements == Spec => ImplementsRegistry
<1>1. Init => Registry!Init
  BY DEF Init, Registry!Init
<1>2. ASSUME IndInv, IndInv', [Next]_vars
      PROVE  [Registry!Next]_<<pinned, seen>>
  <2> USE DEF IndInv, TypeOK
  <2>1. CASE Finish
    <3>1. \A k \in Keys : pinned[k] # NoOid => pinned'[k] = pinned[k]
      BY <1>2, <2>1, FinishReported
    <3>2. CASE FinishClass \/ FinishNamespace \/ FinishAttribute
      <4>1. Deliver(rows, found)
        BY <3>2 DEF FinishClass, FinishNamespace, FinishAttribute
      <4>2. /\ found \in [Keys -> Oids] /\ rows \in SUBSET Keys
            /\ \A k \in Keys : k \in rows => found[k] # NoOid
            /\ \A k \in Keys : found[k] # NoOid /\ cache[k] # NoOid => found[k] = cache[k]
        BY <1>2 DEF OidType, ScanType, FoundIsCached
      <4>3. Registry!Answer
        BY <1>2, <3>1, <4>1, <4>2, DeliverAnswers
      <4> QED
        BY <4>3 DEF Registry!Next
    <3>3. CASE FinishDatabase
      <4> DEFINE default == CatalogKey(DefaultDb)
                 listed == found[default] # NoOid
                 map == IF listed THEN found
                        ELSE [found EXCEPT ![default] = ResolveOid(default)]
      <4>1. default \in Keys
        BY KeyKinds DEF CatalogNames
      <4>2. Deliver(rows \union {default}, map)
        BY <3>3 DEF FinishDatabase
      <4>3. map \in [Keys -> Oids]
        BY <1>2, <4>1, ResolveType DEF OidType
      <4>4. \A k \in Keys : k \in rows \union {default} => map[k] # NoOid
        BY <1>2, <4>1, ResolveType DEF OidType, ScanType
      <4>5. \A k \in Keys : map[k] # NoOid /\ cache[k] # NoOid => map[k] = cache[k]
        BY <1>2, <4>1, ResolveCached DEF FoundIsCached, OidType
      <4>6. rows \union {default} \in SUBSET Keys
        BY <1>2, <4>1 DEF ScanType
      <4> HIDE DEF map
      <4>7. Registry!Answer
        BY <1>2, <3>1, <4>2, <4>3, <4>4, <4>5, <4>6, DeliverAnswers
      <4> QED
        BY <4>7 DEF Registry!Next
    <3> QED
      BY <2>1, <3>2, <3>3 DEF Finish
  <2>2. CASE Ddl
    <3>1. Changed
      BY <2>2 DEF Ddl, RegisterCatalog, CreateSchema, DropSchema, CreateTable, DropTable
    <3>2. Registry!Forget
      BY <1>2, <3>1 DEF Changed, Registry!Forget, HistoryType
    <3> QED
      BY <3>2 DEF Registry!Next
  <2>3. CASE \E b \in Scanners : (\E kind \in Kinds : Request(b, kind)) \/ Acquire(b) \/ Abort(b)
    BY <2>3 DEF Request, Acquire, Abort, history
  <2>4. CASE Walk
    BY <2>4 DEF Walk, VisitCatalog, VisitSchema, VisitTable, history
  <2>5. CASE UNCHANGED vars
    BY <2>5 DEF vars, history
  <2> QED
    BY <1>2, <2>1, <2>2, <2>3, <2>4, <2>5 DEF Next
<1> QED
  BY <1>1, <1>2, Inductive, PTL DEF Spec, ImplementsRegistry, Registry!Spec, Registry!registry

-----------------------------------------------------------------------------
(* Pruning *)

\* Why: while no DDL overlaps a scan, what it has listed and what it has entered
\* in its map exist.
WalkExists ==
  holder # Nobody /\ quiet =>
    /\ todoCatalogs \subseteq catalogs
    /\ todoSchemas \subseteq SchemasOf(catalog)
    /\ todoTables \subseteq TablesOf(catalog, schema)
    /\ \A k \in Keys : found[k] # NoOid => Exists(k)

\* A step of the walk enters only the object it visits in the scan's map.
LEMMA VisitFinds ==
  ASSUME WalkExists, holder # Nobody, quiet, UNCHANGED live, NEW k \in Keys, found \in [Keys -> Oids],
         \/ UNCHANGED found
         \/ Exists(k) /\ found' = [found EXCEPT ![k] = ResolveOid(k)]
  PROVE  \A x \in Keys : found'[x] # NoOid => Exists(x)'
<1>1. \A x \in Keys : Exists(x)' <=> Exists(x)
  BY DEF Exists, live
<1>2. \A x \in Keys : found'[x] # NoOid => (x = k /\ Exists(k)) \/ found[x] # NoOid
  OBVIOUS
<1> QED BY <1>1, <1>2 DEF WalkExists

LEMMA WalkStepExists ==
  ASSUME TypeOK, WalkExists, Walk
  PROVE  WalkExists'
<1> SUFFICES ASSUME holder' # Nobody, quiet'
             PROVE  /\ todoCatalogs' \subseteq catalogs'
                    /\ todoSchemas' \subseteq SchemasOf(catalog)'
                    /\ todoTables' \subseteq TablesOf(catalog, schema)'
                    /\ \A k \in Keys : found'[k] # NoOid => Exists(k)'
  BY DEF WalkExists
<1>1. ASSUME NEW c \in Catalogs, VisitCatalog(c)
      PROVE  /\ todoCatalogs' \subseteq catalogs'
             /\ todoSchemas' \subseteq SchemasOf(catalog)'
             /\ todoTables' \subseteq TablesOf(catalog, schema)'
             /\ \A k \in Keys : found'[k] # NoOid => Exists(k)'
  <2>1. /\ holder # Nobody /\ quiet /\ UNCHANGED <<live, todoTables>> /\ todoTables = {}
        /\ c \in todoCatalogs /\ todoCatalogs' \subseteq todoCatalogs
        /\ todoSchemas' \subseteq SchemasOf(c) /\ catalog' = c
        /\ Resolve(CatalogKey(c)) \/ UNCHANGED found
    BY <1>1 DEF VisitCatalog, SkipResolve
  <2>2. CatalogKey(c) \in Keys /\ Exists(CatalogKey(c))
    BY <2>1, KeyKinds DEF CatalogNames, WalkExists, Exists, CatalogKey
  <2>3. \A k \in Keys : found'[k] # NoOid => Exists(k)'
    BY <2>1, <2>2, VisitFinds DEF Resolve, TypeOK, OidType
  <2> QED BY <2>1, <2>3 DEF WalkExists, SchemasOf, live
<1>2. ASSUME NEW s \in Schemas, VisitSchema(s)
      PROVE  /\ todoCatalogs' \subseteq catalogs'
             /\ todoSchemas' \subseteq SchemasOf(catalog)'
             /\ todoTables' \subseteq TablesOf(catalog, schema)'
             /\ \A k \in Keys : found'[k] # NoOid => Exists(k)'
  <2>1. /\ holder # Nobody /\ quiet /\ UNCHANGED <<live, todoCatalogs, catalog>>
        /\ s \in todoSchemas /\ todoSchemas' \subseteq todoSchemas
        /\ todoTables' \subseteq TablesOf(catalog, s) /\ schema' = s
        /\ Resolve(SchemaKey(catalog, s)) \/ UNCHANGED found
    BY <1>2 DEF VisitSchema, SkipResolve
  <2>2. catalog \in Catalogs /\ s \in SchemasOf(catalog)
    BY <2>1 DEF TypeOK, ScanType, WalkExists
  <2>3. SchemaKey(catalog, s) \in Keys /\ Exists(SchemaKey(catalog, s))
    BY <2>2, KeyKinds DEF CatalogNames, SchemasOf, Exists, SchemaKey
  <2>4. \A k \in Keys : found'[k] # NoOid => Exists(k)'
    BY <2>1, <2>3, VisitFinds DEF Resolve, TypeOK, OidType
  <2> QED BY <2>1, <2>4 DEF WalkExists, SchemasOf, TablesOf, live
<1>3. ASSUME NEW t \in Tables, VisitTable(t)
      PROVE  /\ todoCatalogs' \subseteq catalogs'
             /\ todoSchemas' \subseteq SchemasOf(catalog)'
             /\ todoTables' \subseteq TablesOf(catalog, schema)'
             /\ \A k \in Keys : found'[k] # NoOid => Exists(k)'
  <2>1. /\ holder # Nobody /\ quiet
        /\ UNCHANGED <<live, todoCatalogs, catalog, todoSchemas, schema>>
        /\ t \in todoTables /\ todoTables' \subseteq todoTables
        /\ Resolve(TableKey(catalog, schema, t))
    BY <1>3 DEF VisitTable
  <2>2. catalog \in Catalogs /\ schema \in Schemas /\ t \in TablesOf(catalog, schema)
    BY <2>1 DEF TypeOK, ScanType, WalkExists
  <2>3. TableKey(catalog, schema, t) \in Keys /\ Exists(TableKey(catalog, schema, t))
    BY <2>2, KeyKinds DEF CatalogNames, TablesOf, Exists, TableKey
  <2>4. \A k \in Keys : found'[k] # NoOid => Exists(k)'
    BY <2>1, <2>3, VisitFinds DEF Resolve, TypeOK, OidType
  <2> QED BY <2>1, <2>4 DEF WalkExists, SchemasOf, TablesOf, live
<1> QED BY <1>1, <1>2, <1>3 DEF Walk

LEMMA WalkExistsNext == TypeOK /\ WalkExists /\ [Next]_vars => WalkExists'
<1> SUFFICES ASSUME TypeOK, WalkExists, [Next]_vars PROVE WalkExists'
  OBVIOUS
<1>1. CASE UNCHANGED <<live, holder, walk, found, quiet>>
  BY <1>1 DEF WalkExists, Exists, SchemasOf, TablesOf, live, walk
<1>2. CASE holder' = Nobody
  BY <1>2 DEF WalkExists
<1>3. ASSUME NEW b \in Scanners, NEW kind \in Kinds, Request(b, kind) PROVE WalkExists'
  BY <1>1, <1>3 DEF Request
<1>4. ASSUME NEW b \in Scanners, Acquire(b) PROVE WalkExists'
  <2>1. /\ todoCatalogs' = catalogs /\ catalogs' = catalogs
        /\ todoSchemas' = {} /\ todoTables' = {}
        /\ \A k \in Keys : found'[k] = NoOid
    BY <1>4 DEF Acquire, live, TypeOK, ScanType, WalkDone
  <2> QED BY <2>1 DEF WalkExists
<1>5. ASSUME NEW b \in Scanners, Abort(b) PROVE WalkExists'
  BY <1>1, <1>2, <1>5 DEF Abort, Release, walk
<1>6. CASE Finish
  BY <1>2, <1>6 DEF Finish, FinishClass, FinishNamespace, FinishAttribute, FinishDatabase,
                    Deliver, Release
<1>7. CASE Ddl
  <2>1. Changed
    BY <1>7 DEF Ddl, RegisterCatalog, CreateSchema, DropSchema, CreateTable, DropTable
  <2> QED BY <2>1 DEF Changed, WalkExists
<1>8. CASE UNCHANGED vars
  BY <1>1, <1>8 DEF vars
<1> QED BY <1>3, <1>4, <1>5, <1>6, <1>7, <1>8, WalkStepExists DEF Next

\* What a finished scan leaves in the cache is what it entered in its map.
LEMMA FinishPrunes ==
  ASSUME TypeOK, WalkExists, [Next]_vars
  PROVE  /\ FinishClass /\ quiet => \A k \in Keys : cache'[k] # NoOid => Exists(k)
         /\ FinishNamespace /\ quiet =>
              \A k \in SchemaKeys : cache'[k] # NoOid => Exists(k)
<1>1. ASSUME FinishClass, quiet, NEW k \in Keys, cache'[k] # NoOid PROVE Exists(k)
  <2>1. cache' = Reconcile(ClassDrops, found) /\ holder # Nobody
    BY <1>1 DEF FinishClass, Scanning
  <2>2. found[k] # NoOid
    BY <1>1, <2>1 DEF Reconcile, ClassDrops
  <2> QED BY <1>1, <2>1, <2>2 DEF WalkExists
<1>2. ASSUME FinishNamespace, quiet, NEW k \in SchemaKeys, cache'[k] # NoOid PROVE Exists(k)
  <2>1. cache' = Reconcile(NamespaceDrops, found) /\ holder # Nobody
    BY <1>2 DEF FinishNamespace, Scanning
  <2>2. k \in Keys /\ found[k] # NoOid
    BY <1>2, <2>1 DEF Reconcile, NamespaceDrops, Keys
  <2> QED BY <1>2, <2>1, <2>2 DEF WalkExists
<1> QED BY <1>1, <1>2

\* A pg_class scan that no DDL overlapped leaves only existing objects in the
\* cache, a pg_namespace scan only existing schemas.
THEOREM Prunes == Spec => ScansPrune
<1>1. Init => WalkExists
  BY DEF Init, WalkExists
<1>2. Spec => [](TypeOK /\ WalkExists)
  BY <1>1, TypeCorrect, WalkExistsNext, PTL DEF Spec
<1>3. TypeOK /\ WalkExists /\ [Next]_vars =>
        [/\ FinishClass /\ quiet => \A k \in Keys : cache'[k] # NoOid => Exists(k)
         /\ FinishNamespace /\ quiet =>
              \A k \in SchemaKeys : cache'[k] # NoOid => Exists(k)]_vars
  BY FinishPrunes
<1> QED BY <1>2, <1>3, PTL DEF Spec, ScansPrune
=============================================================================
