SPECIFICATION Spec
CONSTANTS
  Modules <- MixedModules
  Entry = "main"
  GoDep = go
  SourcesOf <- MixedSources
  Files = {f}
  None = None
  Procs = {p1, p2}
  Typedefs = {v1}
  Manifests = {"valid"}
  Compilers = {c1}
  STDLIB_HASH = v1
  CacheFiles <- MixedModules
  CacheFile <- MCCacheFile
  Jobs = {"run", "check", "lsp"}
  SetupFails = FALSE
  MaxEdits = 0
  MaxSessions = 3
  MaxCrashes = 1
  p1 = p1
  p2 = p2
  f = f
  g = g
  go = go
  v1 = v1
  v2 = v2
  c1 = c1
  c2 = c2
SYMMETRY MCSymmetry
CHECK_DEADLOCK FALSE
INVARIANTS
  TypeOK
  TargetLockHeld
  CacheSound
  NoHiddenErrors
PROPERTIES
  RunUndisturbed
  ImplementsCleanCompile
