SPECIFICATION FilesSpec
CONSTANTS
  Parts = {"workspace", "telemetry", "cache", "experience", "seal"}
  Calls = {"a", "b", "w", "m"}
  Paths <- MCPaths
  Method <- MCMethod
  Entries <- MCEntries
  Dirs <- MCDirs
  Procs = {"p1", "p2"}
  Trees = {"t1", "t2"}
  MaxDeps = 1
  Members = 2
  MAX_ENTRIES = 2
  Ingesters = {"p1", "p2"}
  Logs = {"a", "b", "c"}
  RunIds = {"r1", "r2"}
  Content <- LogContent
  Program <- SealPrograms
  Shape <- SealShapes
  Seeds = {0}
  MaxEdits = 2
  MaxCommands = 2
INVARIANTS
  PublishedIntact
  RollbackSound
  JournalSound
  CacheSound
  StoreSound
  ReplaySound
