CONSTANTS
  s1 = s1
  s2 = s2
  None = None
  Shims = {s1}
  MaxId <- MCLateMaxId
  MaxStarts = 1
  Main = Main
SPECIFICATION Spec
INVARIANT SynchronousClient
CHECK_DEADLOCK FALSE
