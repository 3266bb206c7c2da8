\* Two tabs that build, evict, select and deploy builds of one example.
SPECIFICATION WebSpec
SYMMETRY TabSymmetry
CONSTANTS
  t1 = t1
  t2 = t2
  x = x
  y = y
  Examples = {x}
  Versions = {"v1", "v2", "bad"}
  Broken = {"bad"}
  Requests = {t1, t2}
  EditsRace = FALSE
  MaxHistory = 2
  MaxBuilds = 3
  None = None
  Chunks <- MCChunks
  BatchSize = 2
  SessionTTL = 0
  MaxTime = 1
INVARIANTS
  EveryChunkLanded
  DeploysOneBuild
  BuildsAreKept
PROPERTIES
  PublishesBuilds
  ServesLiveSessions
