\* Three ranks over three slices and what is between them; two slices are saved
SPECIFICATION Spec
CONSTANTS
  Ranks = 3
  FirstSlice = 2
  Save = 1
  MaxLines = 2
  MaxCrashes = 1
INVARIANTS MessagesMeetTheirSlice HeaderAfterBlocks
PROPERTY EverySliceComputed
CHECK_DEADLOCK FALSE
