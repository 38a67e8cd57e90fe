SPECIFICATION ServicesSpec
CONSTANTS
  None = None
  Servers = {s1, s2}
  Conns = {c1, c2}
  MaxConnections = 1
  Keys = {k1, k2}
  Folders <- MCFolders
  Searches <- MCSearches
  States = {"s", "t"}
  Threads = {h1, h2}
  Shared = TRUE
  TTL = 1
  MaxNow = 3
  PipeCapacity = 2
  MaxOutput = 3
  MaxRetries = 3
  Tokens = {t1}
  Callers = {p1, p2, p3}
  Commands = {"execute"}
  MaxTTL = 0
  DEFAULT_TOKEN_TTL = 2
  I64Max = 3
  Seconds = {1, 2}
  Legacy = {t1}
  Overlap = TRUE
INVARIANTS
  KeysCorrect
  StatesAreSingleUse
  ServerSafe
  ImapSafe
  SubprocessSafe
  SingleUse
PROPERTIES
  ServicesEnd
  CallsReturn
