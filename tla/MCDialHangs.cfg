CONSTANTS
  Requests = {r1}
  Origins = {o1}
  None = None
  Modes <- AllModes
  MaxCloses = 1
  MaxAddrs = 3
  DialJobs <- SixDials
  H3Requests = {h1}
  H3Origins = {o1}
  Plans <- FourPlans
  MaxConns = 2
  MaxStrays = 1
  DialRequests <- AllDials
  UpgradeReplies <- AllUpgrades
  ConnectReplies <- AllConnects
  MaxChatter = 2
  H2Writers = {w1}
  Paddings = {0, 1}
  Sizes = {2}
  InitialWindow = 4
  AckThreshold = 2
  ReadSize = 1
  FramesPerWrite = 2
  MaxFrames = 3
SPECIFICATION DialOnly
CHECK_DEADLOCK FALSE
PROPERTY DirectDialReturns
