SPECIFICATION ProtocolsSpec
CONSTANTS
  None = None
  DefaultNow = DefaultNow
  DurationWord = 64
  Request = r1
  MaxRows = 3
  Times = {1, 2}
  Types = {"SENT", "CONFIRMED", "REMINDER_SENT", "DEADLINE_REACHED", "DPA_COMPLAINT_DRAFTED", "NOTE_ADDED"}
  Numbers = {40}
  Logs <- MCLogs
  Alphabet = {"[", "]", "{", "}", ",", "q", "e", "1", " "}
  MaxLen = 4
  MaxDepth = 2
  ParseDepth = 1
  Inputs <- MCInputs
  Bodies <- MCBodies
  Recipients <- MCRecipients
  Texts <- MCTexts
  Garbled = Garbled
  Now = 10
  DayHours = 2
  WeekDays = 1
  RECENT = 2
  Databases <- MCDatabases
  CellTexts <- MCCellTexts
  Papers <- MCPapers
  MaxMatches = 4
  MaxOutput = 5
  MaxLiterals = 2
  MaxProfileBytes = 3
  MaxTokens = 6
  MAX_YAML_DEPTH = 2
  MAX_YAML_NODES = 3
  MAX_BROKER_FILES = 3
  MAX_DOCUMENT_BYTES = 3
  MAX_INPUT_BYTES = 4
  MAX_AGGREGATE_YAML_NODES = 3
  MAX_OUTPUT_BROKERS = 3
  Trees <- MCTrees
  Wires <- MCWires
  Catalogues <- MCCatalogues
  Filters <- MCFilters
  Replies <- MCReplies
  Surface <- MCSurface
  Numerals = {"1"}
  Argvs <- MCArgvs
  Keys = {k1, k2}
  Initialisers = {w, v}
  Loaders = {c}
  KeyringReads = {"ok", "fails"}
  Tokens = {t1, t2}
  Callers = {p1, p2}
  Commands = {"execute", "other"}
  MaxTTL = 2
  DEFAULT_TOKEN_TTL = 2
  I64Max = 3
  Seconds = {1, 2, 3}
  Legacy = {}
  Overlap = FALSE
INVARIANTS
  ReplayComputesProjection
  ProtocolCorrect
  SuccessIsDelivery
  ReportingCorrect
  RulesCorrect
  ConsentTypeOK
  SingleUse
  RevokedIsUnused
PROPERTIES
  StreamCorrect
  IdentityCorrect
  RevokesAll
