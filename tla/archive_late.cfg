SPECIFICATION Spec
CONSTANTS
  MaxUsed = 2
  MaxUpdates = 2
  BufferSize = 1
  Faults = {}
  MaxFaults = 1
  Habits = {"late"}
CHECK_DEADLOCK FALSE
PROPERTY CallsEnd
