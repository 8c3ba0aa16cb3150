SPECIFICATION Spec
CONSTANTS
  Modules <- MCModules
  Entry = "main"
  GoDep = go
  SourcesOf <- BuildSources
  Files = {f, g}
  None = None
  Procs = {p1, p2}
  Typedefs = {v1, v2}
  Manifests = {"valid", "broken"}
  Compilers = {c1, c2}
  STDLIB_HASH = v1
  CacheFiles <- MCModules
  CacheFile <- MCCacheFile
  Jobs = {"build", "run"}
  SetupFails = FALSE
  MaxEdits = 2
  MaxSessions = 3
  MaxCrashes = 0
  p1 = p1
  p2 = p2
  f = f
  g = g
  go = go
  v1 = v1
  v2 = v2
  c1 = c1
  c2 = c2
SYMMETRY MCSymmetry
CHECK_DEADLOCK FALSE
INVARIANTS
  OutputsFresh
  NoHiddenWarnings
