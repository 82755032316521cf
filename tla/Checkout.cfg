SPECIFICATION Spec
CONSTANTS
  r1 = r1
  r2 = r2
  r3 = r3
  a = a
  b = b
  Runs = {r1, r2, r3}
  Files = {a, b}
  Changes <- ChangesOfThree
  Dev = Dev
  None = None
SYMMETRY Alike
INVARIANTS
  
  AloneDeliversItsWork
CHECK_DEADLOCK FALSE
