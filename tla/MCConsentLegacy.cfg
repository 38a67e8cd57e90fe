SPECIFICATION ConsentSpec
CONSTANTS
  None = None
  Tokens = {t1}
  Callers = {p1, p2}
  Commands = {"execute"}
  MaxTTL = 0
  DEFAULT_TOKEN_TTL = 2
  I64Max = 3
  Seconds = {1, 2}
  Legacy = {t1}
  Overlap = FALSE
CHECK_DEADLOCK FALSE
PROPERTY
  RevokesAll
