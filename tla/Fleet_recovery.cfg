SPECIFICATION FleetSpec
CONSTANTS
  w1 = w1
  w2 = w2
  Workers = {w1, w2}
  Threads = {1, 2, 3}
  NoThread = NoThread
  NoWorker = NoWorker
  NumJobs = 1
  Manifest <- FleetManifest
  Capabilities <- FleetCapabilities
  Features = {}
  RamLevels = {0}
  LoadLevels = {0, 80}
  AttestedTiers = {}
  AdminTiers = {}
  RequireApproval = TRUE
  LeaseTicks = 2
  GraceTicks = 1
  LiveTicks = 1
  LoadMargin = 15
  MaxDelay = 0
  Advertised <- FleetAdvertised
  Load <- FleetLoad
  Admitting = {w1}
  JobTicks <- ShortJobs
  MaxFaults = 1
INVARIANTS FleetTypeOK LeaseCoversRun
PROPERTY JobsComplete
CHECK_DEADLOCK FALSE
