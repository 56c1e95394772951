SPECIFICATION Spec
CONSTANTS
  Captures = {"win32"}
  Injectors = {"win32"}
  Keys <- MCCommon
  MaxWire = 2
CHECK_DEADLOCK FALSE
INVARIANTS
  DigitsAreDigits
