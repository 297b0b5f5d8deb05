SPECIFICATION Spec
CONSTANTS
  p1 = p1
  p2 = p2
  l = l
  m = m
  n = n
  NoName = NoName
  Procs <- MCProcs
  Calls <- MCCalls
  Held <- MCHeld
  Names <- MCNames
  Matches <- MCMatches
  NumJunks = 2
  Given <- MCGiven
  Older = l
  NumSlots = 2
  MaxSeq = 1
  MaxPushes = 3
  MaxCalls = 3
INVARIANTS TypeOK
PROPERTIES RoundTrip PushesHarmNoDump
