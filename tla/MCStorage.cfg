SPECIFICATION StorageSpec
CONSTANTS
  None = None
  DefaultNow = DefaultNow
  DurationWord = 64
  Requests = {r1, r2}
  Times = {1, 2}
  Types = {"SENT", "NOTE_ADDED", "UNKNOWN"}
  Numbers = {None}
  MaxEvents = 3
  Procs = {p1, p2, p3}
  TempIds = {t1, t2, t3}
  MaxCommits = 4
  MayCrash = TRUE
  IoMayFail = TRUE
  Roots <- MCRoots
  Sources <- MCSources
  UnitInputs <- MCUnits
  MaxMigrations = 3
  Syncs = {s1, s2}
  Readers = {reader1}
  Archives <- MCArchives
  MAX_ARCHIVE_ENTRIES = 4
  MAX_FILES = 3
  MAX_FILE_BYTES = 2
  MAX_EXPANDED_BYTES = 4
  ShortNames <- MCShortNames
  Crontabs <- MCCrontabs
  MaxInstalls = 2
  CommandProcs = {cli, mcp}
  ServerProcs = {mcp}
  MaxCommands = 2
  Later = {"execute", "grant", "auto_confirm"}
SYMMETRY Symmetry
INVARIANTS
  TypeOK
  StaleIsDirty
  RebuildHeals
  StoreInv
  OpenSeesLatest
  RegistryCorrect
  CommandsSafe
PROPERTIES
  NeverRolledBack
  ImplementsDurable
  MigrationCorrect
  SchedulerCorrect
