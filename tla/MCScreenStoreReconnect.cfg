CONSTANTS
  Endpoint = {0, 1, 2}
  LocalEndpoint = 0
  OwnerId = {"server", "a", "b"}
  LocalOwner = "server"
  ClientOwner = {"a", "b"}
  ScreenLists <- MCScreenLists
  SavedLayouts <- MCSavedLayouts
  ExclusiveOwners = FALSE
SPECIFICATION StoreSpec
PROPERTIES
  RemovalIsLocal
