SPECIFICATION FairSpec
CONSTANTS
  None = None
  DefaultNow = DefaultNow
  DurationWord = 64
  Requests = {1, 2}
  Times = {1, 2}
  Types = {}
  Numbers = {}
  MaxEvents = 6
  Procs = {p1}
  Sizes = {0}
  BATCH_LIMIT = 2
  DefaultBatch = 1
  Channels = {"email", "web_form"}
  Options <- ShippedOptions
  Commands = {}
  MayFail = FALSE
  ExpectedDays = 1
  MaxMails = 2
  MaxTasks = 2
PROPERTY
  WebFormReachesUser
