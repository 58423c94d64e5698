CONSTANTS
  s1 = s1
  s2 = s2
  None = None
  Shims = {s1, s2}
  MaxId <- MCMaxId
  MaxStarts = 2
  Main = Main
SPECIFICATION Spec
INVARIANTS TypeOK ProxyInStep OneLineEach NoStaleShim SignsNamedKey
PROPERTIES ProxyServes SetupEnds
CHECK_DEADLOCK FALSE
