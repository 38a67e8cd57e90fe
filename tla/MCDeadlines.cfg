SPECIFICATION DeadlinesSpec
CONSTANTS
  None = None
  DefaultNow = DefaultNow
  DurationWord = 64
  Requests = {r1}
  Times = {1, 2, 3, 4, 5}
  Types = {}
  Numbers = {}
  MaxEvents = 10
  Classes = {"ack", "confirmed"}
  ExpectedDays = 1
  MaxReplies = 1
  MaxRebuttals = 1
  MayFail = TRUE
  REMINDER_DAYS = 1
  DPA_ESCALATION_DAYS = 1
  RESCAN_DAYS = 1
  JurisdictionDays = 1
  Bits = 8
  Half = 128
  Callers = {"cli", "library"}
CHECK_DEADLOCK FALSE
INVARIANTS
  RepliesInv
  ReminderBackoff
PROPERTIES
  ActionsNotStale
