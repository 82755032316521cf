SPECIFICATION Spec
CONSTANTS
  Loops = {l1, l2}
  Commands = {c1}
  TickWork <- MCTickWork
  CommandWork <- MCCommandWork
  None = None
  Empty = Empty
  Torn = Torn
SYMMETRY Symmetry
INVARIANTS
  ControlTypeOK
  OneOwnerUnlessRaced
  LockLeftOnlyByKill
  UpdatesLostOnlyByOverlap
  RegistryStaysReadable
CHECK_DEADLOCK FALSE
