SPECIFICATION Spec
CONSTANTS
    Modules <- MCModules
    MaxVersion = 2
    Procs = {p1}
    Starts <- MCStarts
    Imports <- MCImports
    MaxCommands = 1
    MaxSurprises = 1
    Requests <- MCRequests
INVARIANTS NoOrphansLeft
