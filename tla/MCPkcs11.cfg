CONSTANTS
  t1 = t1
  t2 = t2
  k1 = k1
  k2 = k2
  k3 = k3
  None = None
  Threads = {t1, t2}
  Keys = {k1, k2, k3}
  RawLists <- MCRawLists
  Templates = {"Certificate", "any", "none"}
  Counts = {4}
  IdModulus = 2
SPECIFICATION Spec
INVARIANTS TypeOK OnlyFinalizePanics SignsChosenKey ClosedIsClean FindIsExact ObjectsPair
PROPERTY InitializeReturns
