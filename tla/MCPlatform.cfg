CONSTANTS
  Capacity = 2
  Steps <- MCSteps
  MaxMoves = 3
  UiMayEnd = TRUE
  MaxInputs = 3
  Deaths = 1
  MaxActivations = 3
  MaxEvents = 2
  mouse = mouse
  keyboard = keyboard
  Device = {mouse, keyboard}
  Caps <- MCCaps
  MaxNotices = 3
  MaxSessions = 2
  Captures = {"portal", "x11", "win32"}
  Injectors = {"portal", "wlr", "x11", "win32"}
  Keys <- MCKeys
  MaxWire = 2
SPECIFICATION MCSpec
INVARIANTS
  MotionIsConserved
  BeliefsAreTrue
  ReportedOnceInOrder
  CaptureHasAReader
  ActivationIsKnown
  EventsAreTaken
PROPERTIES
  CapturePromise
  ReleaseArrives
  KeysArrive
CHECK_DEADLOCK FALSE
