SPECIFICATION CampaignSpec
CONSTANTS
  None = None
  DefaultNow = DefaultNow
  DurationWord = 64
  Requests = {1, 2}
  Times = {1, 2}
  Types = {}
  Numbers = {}
  MaxEvents = 3
  Procs = {p1, p2}
  Sizes = {1, 9}
  BATCH_LIMIT = 2
  DefaultBatch = 2
  Channels = {"email", "web_form"}
  Options <- MCOptions
  Commands = {"run_web_form", "auto_confirm", "complete"}
  MayFail = TRUE
  ExpectedDays = 1
  MaxMails = 2
  MaxTasks = 2
SYMMETRY Symmetry
INVARIANTS
  TasksInv
  ProjectionNeverBehind
  FailedFormHasTask
PROPERTY
  SendsOnlyUnsent
