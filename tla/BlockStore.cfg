CONSTANTS
  Thread = {t1, t2, t3}
  None = None
  NoValue = NoValue
  Garbled = Garbled
  Count <- MCCount
  Dim <- MCDim
  Value <- MCValue
  SizeOf <- MCSizeOf
  HeapSize = 16
  Alignment = 2
  MinFree = 0
  MaxSlices = 3
SPECIFICATION Spec
CHECK_DEADLOCK FALSE
INVARIANTS HoldsContributions CountedOnceComplete
