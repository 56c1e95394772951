CONSTANTS
  Endpoint = {0, 1, 2}
  LocalEndpoint = 0
  OwnerId = {"server", "a", "b"}
  LocalOwner = "server"
  ClientOwner = {"a", "b"}
  TrustedOwner = {"a", "b"}
  ScreenLists <- OneScreenLists
  SavedLayouts <- NothingSaved
  MouseSamples <- SessionSamples
  ExclusiveOwners = TRUE
  QueueDepth = 1
  None = None
SPECIFICATION FairSpec
PROPERTIES
  CursorLeavesClosing
  RunReturns
