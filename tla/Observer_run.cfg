SPECIFICATION Spec
CONSTANTS
  Observers = {o1, o2}
  Ids = {i1, i2}
  Nobody = Nobody
  NoId = NoId
  MaxSamples = 5
  MaxPosts = 1
  MaxFaults = 2
  SaveEvery = 2
  PostEvery = 3
  RequireApproval = TRUE
SYMMETRY Symmetry
INVARIANTS TypeOK NothingIsLost OneIdentity SummaryIsDurable RollupKeepsUp
CHECK_DEADLOCK FALSE
