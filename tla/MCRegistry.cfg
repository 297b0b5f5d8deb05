SPECIFICATION Spec
CONSTANTS
  p1 = p1
  p2 = p2
  a = a
  b = b
  Nul = Nul
  NameSz = 3
  Procs <- MCProcs
  Bytes <- MCBytes
  Names <- MCNames
  NumJunks = 2
INVARIANTS TypeOK OneJunkPerName Inv
PROPERTIES FoundHadName NoneMissed
CONSTRAINT Calm
