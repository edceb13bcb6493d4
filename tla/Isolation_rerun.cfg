SPECIFICATION IsolationSpec
PROPERTY FailureIsNotRerun
CHECK_DEADLOCK FALSE
