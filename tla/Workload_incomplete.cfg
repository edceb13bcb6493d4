SPECIFICATION Spec
CONSTANTS
  MaxTiles = 5
  Score <- MCScore
  Hits = {2, 3}
  Reply <- MCReply
  Doc <- MCDoc
  NumBins = 3
  Reachable = {"openai"}
  NoLLM = FALSE
  Cores = 2
  ChunkSize = 2
  MaxChunks = 4
  InferLimit = 2
  SynthLimit = 2
  VarLevels = {50, 95}
  Workers = {w1, w2}
  Requests <- MCRequests
  Fleets <- MCFleets
  Bound <- MCBound
  MaxLegacy = 1
INVARIANT CompletedTileIsWhole
CHECK_DEADLOCK FALSE
