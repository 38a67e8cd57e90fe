SPECIFICATION TriageSpec
CONSTANTS
  None = None
  DefaultNow = DefaultNow
  DurationWord = 64
  Requests = {r1, r2}
  Times = {1, 2}
  Types = {}
  Numbers = {}
  MaxEvents = 4
  Classes = {"ack", "confirmed"}
  ExpectedDays = 1
  MaxReplies = 3
  MaxRebuttals = 1
  MayFail = TRUE
CHECK_DEADLOCK FALSE
INVARIANT
  ClassifiedHasEvent
