SPECIFICATION Spec
CONSTANTS
  Runs = {r1, r2}
  Listener = Listener
  Empty = Empty
  None = None
  Tasks <- MCTasks
  Project <- MCProject
  Environments <- MCEnvironments
  Changes <- MCChanges
  Justifications <- MCJustifications
SYMMETRY Symmetry
INVARIANTS
  IssueTypeOK
  SpecificationIsOwn
  TwoWorkOnlyAfterCleanup
  LeftLockIsSwapped
PROPERTIES
  MergeRestsOnEarlierList
  RoundLimitIsKept
CHECK_DEADLOCK FALSE
