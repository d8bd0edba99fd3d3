\* Two scans compete for the lock over one catalog with a schema next to
\* pg_catalog and one table, and either may be cancelled; or one scanner meets
\* two catalogs, one of them named like the database pg_database adds.
CONSTANTS
  Catalogs = {df, postgres}
  Schemas = {pg_catalog, public}
  Tables = {t}
  MainCatalog = df
  PgCatalog = pg_catalog
  SystemTables = {}
  DefaultDb = postgres
  NoName = NoName
  Scanners = {b1, b2}
  OneScanner = b1
  Nobody = Nobody
  OidBound <- Room2
SPECIFICATION SceneSpec
INVARIANTS TypeOK UniqueOids NoOidReuse IndInv
PROPERTIES StableOids ScansPrune ImplementsRegistry ScansEnd
