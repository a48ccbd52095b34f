CONSTANTS
  Ranks = 5
  MaxWork = 1
  BufferedSends = TRUE
  Parent <- MCParent
  Kids <- MCKids
SPECIFICATION Spec
CHECK_DEADLOCK FALSE
INVARIANTS NoFailure DoneMeansFinished NoStrayMessage
PROPERTY ImplementsBarrier
