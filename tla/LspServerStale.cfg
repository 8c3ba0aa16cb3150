SPECIFICATION Spec
CONSTANTS
  Docs = {d1, d2}
  Garbled = {}
  Unparsed = {}
  Handlers = 4
  MaxEdits = 2
  MaxCloses = 0
  MaxRequests = 0
  None = None
  d1 = d1
  d2 = d2
CHECK_DEADLOCK FALSE
INVARIANTS
  ServesCurrentTexts
