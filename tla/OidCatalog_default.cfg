\* The database row postgres that no catalog backs.
CONSTANTS
  Catalogs = {df}
  Schemas = {pg_catalog, public}
  Tables = {t}
  MainCatalog = df
  PgCatalog = pg_catalog
  SystemTables = {}
  DefaultDb = postgres
  NoName = NoName
  Scanners = {b1}
  OneScanner = b1
  Nobody = Nobody
  OidBound <- Room4
SPECIFICATION SceneSpec
INVARIANT DefaultDatabaseStable
