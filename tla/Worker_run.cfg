SPECIFICATION WorkerSpec
CONSTANTS
  Watchers = {1, 2}
  Sustained = 2
  SlowSamples = FALSE
INVARIANTS TypeOK IsolationTypeOK OneWatcher NothingOutlivesJob BoundaryRespected
PROPERTIES AnswerIsFinal CallsReturn MachineGivenBack ReflexIsImplemented
CHECK_DEADLOCK FALSE
