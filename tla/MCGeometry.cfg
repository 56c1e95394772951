CONSTANTS
  MaxExtent = 5
SPECIFICATION Spec
INVARIANTS
  EntersOnTheBorder
  EntryIsProportional
  CrossingBackIsExact
CHECK_DEADLOCK FALSE
