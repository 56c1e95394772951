CONSTANTS
  Endpoint = {0, 1, 2}
  LocalEndpoint = 0
  OwnerId = {"server", "a", "b"}
  LocalOwner = "server"
  ClientOwner = {"a", "b"}
  ScreenLists <- OneScreenLists
  SavedLayouts <- NothingSaved
  ExclusiveOwners = TRUE
SPECIFICATION StoreSpec
PROPERTIES
  ClientsFindTheirCells
