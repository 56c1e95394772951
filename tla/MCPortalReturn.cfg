CONSTANTS
  MaxActivations = 1
  MaxEvents = 1
SPECIFICATION Spec
PROPERTIES
  ReturnReleases
CHECK_DEADLOCK FALSE
