SPECIFICATION Spec
CONSTANTS
  Messages <- Usual
  LogLength = 2
  Kinds = {"training", "eval"}
  MaxFailures = 1
  MaxCommitFailures = 0
  MaxRestarts = 0
  MaxDeletes = 0
INVARIANTS CommitsOnlyHandled
CHECK_DEADLOCK FALSE
