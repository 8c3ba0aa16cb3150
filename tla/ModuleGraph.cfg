SPECIFICATION Spec
CONSTANTS
  Modules = {a, b, c}
  Entry = main
  GoDep = go
  SourcesOf <- AllGraphs
  Files = {f}
  None = None
  Rank <- MCRank
  main = main
  a = a
  b = b
  c = c
  go = go
  f = f
CHECK_DEADLOCK FALSE
INVARIANTS
  TypeOK
  InDegreeExact
  ImportsComeFirst
  OrdersTheAcyclic
  CyclesExact
PROPERTIES
  Termination
