CONSTANTS
  Commands = {"check", "graph", "raw", "nodes", "impact", "lock", "guide", "init"}
  Budgets = {4, 9}
  Sizes = {0, 3, 6}
  HintLen <- MCHintLen
  LargeBytes = 5
  FindingLists <- MCFindingLists
  ErrorChains <- MCErrorChains
  StartLens = {80, 200}
  OperandsLookLikeFlags = TRUE
  CountMax = 15
  EventLimit = 100
  StructuredLimit = 62
  Headroom = 8
  DepthLimit = 3
  StdoutLimit = 8
  StderrLimit = 6
  Radix = 2
  Skeleton = 40
  StructuredSkeleton = 20
  TraversalLen <- MCTraversalLen
SPECIFICATION Spec
INVARIANT HintsReachTheReaderOnce
CHECK_DEADLOCK FALSE
