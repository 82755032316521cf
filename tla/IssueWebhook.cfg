SPECIFICATION Spec
CONSTANTS
  Runs = {r1, r2}
  Listener = Listener
  Empty = Empty
  None = None
  Tasks <- LockTasks
  Project <- MCProject
  Environments <- LockEnvironments
  Changes <- LockChanges
  Justifications <- LockJustifications
INVARIANT DispatchedRunWorks
CHECK_DEADLOCK FALSE
