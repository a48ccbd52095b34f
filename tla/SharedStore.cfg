CONSTANTS
  Thread = {t1, t2}
  None = None
  NoValue = NoValue
  Garbled = Garbled
  Count <- MCCount
  Value = {"small", "large"}
  SizeOf <- MCSizeOf
  HeapSize = 6
  Alignment = 2
  MinFree = 0
  MaxCalls = 5
  MaxFreezes = 1
SPECIFICATION Spec
CHECK_DEADLOCK FALSE
INVARIANTS NeverDies
PROPERTIES KeepsValues EveryCallReturns
