CONSTANTS
  Quadrants = 2
  Cells = 4
  Turned <- MCTurned
  Line <- MCLine
  FirstPly = 5
  Jobs <- MCJobs
SPECIFICATION Spec
INVARIANTS SliceRight TraverseRight
CHECK_DEADLOCK FALSE
