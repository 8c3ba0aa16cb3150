SPECIFICATION Spec
CONSTANTS
    Modules <- MCModules
    MaxVersion = 2
    Procs = {p1, p2}
    Starts <- MCStarts
    Imports <- MCImports
    MaxCommands = 2
    MaxSurprises = 1
    Requests <- MCRequests
INVARIANTS TypeOK OneMutation GraphExact AddDeclares SyncRemovesOrphans
PROPERTIES DirectStaysDirect CommandsEnd
