SPECIFICATION FairSpec
CONSTANTS
  p1 = p1
  p2 = p2
  p3 = p3
  Procs <- MCProcs
  Removers <- MCOneRemover
  NumJunks = 2
  MaxIds = 2
INVARIANTS TypeOK CountMeansJunks OneInitialiserUnlessRemoved Inv
PROPERTIES NoReinit CatchesUp
