SPECIFICATION Spec
CONSTANTS
  d1 = d1
  d2 = d2
  d3 = d3
  op = op
  Devices <- MCDevices
  Keys <- MCKeys
  Legacy <- MCLegacy
  HasGpu <- MCHasGpu
  Operator = op
  Readings <- MCReadings
  Lists <- MCLists
  Pauses <- MCPauses
  Bounds <- MCBounds
  Whole = 30000000
  Hours = 2
  HourLength = 4
  Interval = 2
  HalfMinute = 2
  Stale = 14
  MaxGap = 12
  Day = 10080
  StartTime = 6
  MaxSpan = 9
  Limit = 2
  Window = 3
  Second = 2
  SweepEvery = 2
  MaxClock = 6
  MaxRestarts = 1
INVARIANT GpuRollupIsReport
CHECK_DEADLOCK FALSE
