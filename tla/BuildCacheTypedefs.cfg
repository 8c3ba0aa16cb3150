SPECIFICATION Spec
CONSTANTS
  Modules <- MCModules
  Entry = "main"
  GoDep = go
  SourcesOf <- GoSources
  Files = {f}
  None = None
  Procs = {p1}
  Typedefs = {v1, v2}
  Manifests = {"valid"}
  Compilers = {c1}
  STDLIB_HASH = v1
  CacheFiles <- MCModules
  CacheFile <- MCCacheFile
  Jobs = {"build"}
  SetupFails = FALSE
  MaxEdits = 1
  MaxSessions = 3
  MaxCrashes = 0
  p1 = p1
  p2 = p2
  f = f
  g = g
  go = go
  v1 = v1
  v2 = v2
  c1 = c1
  c2 = c2
CHECK_DEADLOCK FALSE
INVARIANTS
  CacheSound
