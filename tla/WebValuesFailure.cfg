CONSTANTS
  Request = {"r1", "r2", "r3"}
  Asks <- MCAsks
  Block = {"a", "b", "c"}
  SizeOf <- MCSizeOf
  Limit = 2
  None = None
SPECIFICATION Spec
CHECK_DEADLOCK FALSE
PROPERTIES MergesSimultaneous
