SPECIFICATION FairSpec
CONSTANTS
  None = None
  Folders = {"INBOX", "Junk"}
  Mails = {"m1", "m2", "bad"}
  Delivered <- MCDelivered
  FolderLists <- TwoFolders
  max_messages = 1
  U32MAX = 2
  MaxUid = 2
  MaxValidity = 2
  Old = {}
  Unparsable = {"bad"}
  Persistent = TRUE
  Storing = TRUE
  Expunged = {"Junk"}
  Rebuilt = {"INBOX"}
  MayFail = TRUE
CHECK_DEADLOCK FALSE
INVARIANTS
  InboxInv
  NoSkip

  
