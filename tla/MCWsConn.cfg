CONSTANTS
  Writers = {w1, w2}
  IsClient = TRUE
  Controls = {"ping", "pong", "close"}
  Strays = {"text", "cont", "reserved", "bad"}
  Compression = {TRUE, FALSE}
  MaxEmptyReads = 2
  MaxTraffic = 3
  MaxPieces = 2
  MaxInFlight = 1
  Reader = reader
  None = None
SPECIFICATION FairSpec
INVARIANTS FramesIntact Reassembled
PROPERTY EveryCallReturns
