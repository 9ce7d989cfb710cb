SPECIFICATION Spec
CONSTANTS
  MaxUsed = 2
  MaxUpdates = 2
  BufferSize = 1
  Faults = {"swallowed"}
  MaxFaults = 1
  Habits = {}
CHECK_DEADLOCK FALSE
INVARIANTS ErrorsReadable UpdatesArrive
