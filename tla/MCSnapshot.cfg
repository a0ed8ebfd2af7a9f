SPECIFICATION Spec
CONSTANTS
  radb = radb
  ripe = ripe
  full = full
  bare = bare
  None = None
  Sources = {radb, ripe}
  Ftp = {radb}
  Skipped = {}
  Unsynced = {radb}
  Dumps = {full, bare}
  Parsable = {full, bare}
  Empty = {bare}
  MaxPublished = 1
  MaxStarts = 2
INVARIANTS TypeOK ArtifactsAgree UploadHoldsRows CacheIsWhole ManifestDescribesCache
PROPERTY FetchEnds
CHECK_DEADLOCK FALSE
