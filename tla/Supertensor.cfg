CONSTANTS
  Section <- MCSection
  Block <- MCBlock
  SizeOf <- MCSizeOf
  Index = "index"
  Padding <- MCPadding
SPECIFICATION Spec
CHECK_DEADLOCK FALSE
INVARIANTS ValidMeansComplete PlacesDisjoint LeavesCompleteFile
