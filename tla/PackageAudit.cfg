CONSTANTS
  NULL = NULL
  Dir = Dir
  Packages <- MCPackages
  Paths <- MCPaths
  Listed <- MCListed
  FirstWord <- MCFirstWord
  Inodes = {1, 2}
  Chunks = {1, 2}
  Contents <- MCContents
  MaxChanges = 2
SPECIFICATION MCSpec
INVARIANTS RowsAreOfOneFile UntouchedFilesAreHashed StopsOnlyWhenVanished
PROPERTIES ProgressTells AuditEnds
CHECK_DEADLOCK FALSE
