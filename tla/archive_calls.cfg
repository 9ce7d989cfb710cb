SPECIFICATION Spec
CONSTANTS
  MaxUsed = 2
  MaxUpdates = 2
  BufferSize = 1
  Faults = {"unencodable", "refused", "closed", "swallowed", "unsent", "lost"}
  MaxFaults = 1
  Habits = {}
CHECK_DEADLOCK FALSE
INVARIANTS
  Truthful
  NoPanic
PROPERTY CallsEnd
