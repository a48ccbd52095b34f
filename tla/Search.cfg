SPECIFICATION Spec
CONSTANTS
  Quadrants = 3
  Cells = 4
  Turned <- MCTurned
  Line <- MCLine
  FirstPly = 24
  Symmetric <- MCSymmetric
  Slots = 5
  CachedStones = {11}
  Opening = {0, 4, 5}
  super_move_limit = 36
  Requests <- MCRequests
  MaxSearches = 3
INVARIANTS
  EntriesSound
  AnswersRight
CHECK_DEADLOCK FALSE
