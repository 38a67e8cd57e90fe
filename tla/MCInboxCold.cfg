SPECIFICATION Spec
CONSTANTS
  None = None
  Folders = {"INBOX"}
  Mails = {"m1", "m2"}
  Delivered <- MCDelivered
  FolderLists <- OneFolder
  max_messages = 1
  U32MAX = 3
  MaxUid = 2
  MaxValidity = 2
  Old = {}
  Unparsable = {}
  Persistent = TRUE
  Storing = TRUE
  Expunged = {"INBOX"}
  Rebuilt = {"INBOX"}
  MayFail = FALSE
CHECK_DEADLOCK FALSE
INVARIANTS
  NoSkip
