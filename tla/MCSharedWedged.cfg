SPECIFICATION Spec
CONSTANTS
  p1 = p1
  p2 = p2
  b1 = b1
  b2 = b2
  NoByte = NoByte
  NoHdr = NoHdr
  Procs <- MCProcs
  Bytes <- MCBytes
  Payloads <- MCPayloads
  DeathPoints <- MCDrainedMove
  MaxHarm = 1
  MaxCount = 4
  MaxRemain = 7
  quu_startoffs = 1
  quu_endoffs = 8
  HdrSz = 1
  DataSz = 1
INVARIANT EmptyAccepts
