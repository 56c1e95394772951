CONSTANTS
  Endpoint = {0, 1, 2}
  LocalEndpoint = 0
  OwnerId = {"server", "a", "b"}
  LocalOwner = "server"
  ClientOwner = {"a", "b"}
  ScreenLists <- MCScreenLists
  SavedLayouts <- OneScreenSaved
  ExclusiveOwners = TRUE
SPECIFICATION StoreSpec
INVARIANTS
  LocalScreensRegistered
