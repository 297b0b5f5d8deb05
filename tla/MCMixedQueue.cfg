SPECIFICATION Spec
CONSTANTS
  quu_startoffs = 1
  quu_endoffs = 11
  HdrSz = 1
  b1 = b1
  NoByte = NoByte
  NoHdr = NoHdr
  Bytes <- MCBytes
  Payloads <- MCPayloads
PROPERTY PopsOldest
