SPECIFICATION Spec
CONSTANTS
  w1 = w1
  w2 = w2
  t1 = t1
  t2 = t2
  Workers = {w1, w2}
  Threads = {t1, t2}
  NoWorker = NoWorker
  NumJobs = 2
  Manifest <- PlainManifest
  Capabilities <- PlainCapabilities
  Features = {"gpu"}
  RamLevels = {1}
  LoadLevels = {0}
  AttestedTiers = {}
  AdminTiers = {}
  RequireApproval = FALSE
  LeaseTicks = 2
  GraceTicks = 0
  LiveTicks = 0
  LoadMargin = 15
  MaxDelay = 1
SYMMETRY Symmetry
INVARIANT DisconnectedHoldsNothing
CHECK_DEADLOCK FALSE
