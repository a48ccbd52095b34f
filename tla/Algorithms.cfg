\* Every algorithm on a few inputs of each kind
SPECIFICATION Spec
CONSTANTS
  Calls <- MCCalls
  Memory <- MCMemory
  MemoryLimit = 5
  MaxLoads = 5
  MaxRequests = 4
INVARIANTS
  ScoresRight SymmetriesAct SectionsRight PartitionsRight FilesReadBack
  LookupsRight WebAgrees LinesRight
  CacheKeepsRecent RequestsMatched
CHECK_DEADLOCK FALSE
