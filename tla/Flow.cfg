CONSTANTS
  Rank = {0, 1}
  Line = {"l1", "l2", "l3", "l4"}
  InBlock = {"a", "b"}
  OutBlock = {"x", "y"}
  Order <- MCOrder
  Inputs <- MCInputs
  Outputs <- MCOutputs
  Owner <- MCOwner
  Microlines <- MCMicrolines
  Memory <- MCMemory
  MemoryLimit = 4
  GatherLimit = 2
  LineLimit = 2
SPECIFICATION Spec
CHECK_DEADLOCK FALSE
INVARIANTS NoUseAfterFree ComputesOnCompleteInput ResourcesAddUp QuietWhenLeaving
PROPERTIES KeepsPromise
