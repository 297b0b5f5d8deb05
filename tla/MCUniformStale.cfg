SPECIFICATION Spec
CONSTANTS
  quu_startoffs = 3
  quu_endoffs = 21
  HdrSz = 2
  DataSz = 2
  b1 = b1
  b2 = b2
  NoByte = NoByte
  NoHdr = NoHdr
  Bytes <- MCBytes
  Payloads <- MCPayloads
PROPERTY PopReturnsPeeked
