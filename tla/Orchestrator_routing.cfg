SPECIFICATION Spec
CONSTANTS
  w1 = w1
  w2 = w2
  t1 = t1
  t2 = t2
  Workers = {w1}
  Threads = {t1, t2}
  NoWorker = NoWorker
  NumJobs = 2
  Manifest <- RoutedManifest
  Capabilities <- RoutedCapabilities
  Features = {"gpu"}
  RamLevels = {0, 1}
  LoadLevels = {0}
  AttestedTiers = {2}
  AdminTiers = {0, 3}
  RequireApproval = TRUE
  LeaseTicks = 1
  GraceTicks = 0
  LiveTicks = 0
  LoadMargin = 15
  MaxDelay = 0
SYMMETRY Symmetry
PROPERTIES LeaseIsCleared PinnedTierStands
CHECK_DEADLOCK FALSE
