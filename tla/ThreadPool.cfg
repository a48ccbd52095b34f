CONSTANTS
  c1 = c1
  c2 = c2
  i1 = i1
  Master = master
  Worker <- MCWorker
  Job <- MCJob
  PoolOf <- MCPoolOf
  Children <- MCChildren
  Soon = {"decompress"}
  Roots <- MCRoots
SPECIFICATION Spec
CHECK_DEADLOCK FALSE
INVARIANTS ReturnsWhenComplete ErrorsReachMaster
PROPERTIES MasterGetsAnswer
