SPECIFICATION Spec
CONSTANTS
  Docs = {d1}
  Garbled = {2}
  Unparsed = {1}
  Handlers = 4
  MaxEdits = 2
  MaxCloses = 1
  MaxRequests = 2
  None = None
  d1 = d1
  d2 = d2
CHECK_DEADLOCK FALSE
INVARIANTS
  TypeOK
  ServesOwnText
  TimersTracked
PROPERTIES
  StaleDiscarded
  Settles
