CONSTANTS
  Descriptor <- MCDescriptor
  AutoName = 0
  MaxChanges = 1
  Path = {A, B}
  NoPath = NoPath
  DefaultPath = A
  ReadOnly = {}
  Absent = Absent
  Bad = Bad
  Screen = {s1}
  Cell = {1}
  NoCell = 0
  MaxIds = 3
  MaxRuns = 2
  Conn = {c1, c2}
  NoConn = NoConn
  MaxPending = 2
  Messages <- SmallMessages
  KnownIds = {1, 2}
  MaxPayload = 2
  MaxAccepted = 4
SPECIFICATION MCSpec
INVARIANTS
  PicksTheFirstSuitable
  RunMatchesWindow
  ScreensHaveAnInjector
PROPERTIES
  RunEnds
  FilesAreTheUsers
  GhostScreensLeave
  ClientRunsEnd
  ChannelPromise
CHECK_DEADLOCK FALSE
