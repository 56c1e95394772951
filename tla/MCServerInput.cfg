CONSTANTS
  Endpoint = {0, 1}
  LocalEndpoint = 0
  OwnerId = {"server", "a"}
  LocalOwner = "server"
  ClientOwner = {"a"}
  TrustedOwner = {"a"}
  ScreenLists <- InputLists
  SavedLayouts <- NothingSaved
  MouseSamples <- InputSamples
  ExclusiveOwners = TRUE
  QueueDepth = 1
  None = None
SPECIFICATION Spec
INVARIANTS
  ServerTypeOK
  CursorOnScreen
  ClientWillAgree
PROPERTIES
  InputGoesToTheCursor
