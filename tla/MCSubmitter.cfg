SPECIFICATION FairSpec
CONSTANTS
  Messages <- UsualOrRefused
  LogLength = 3
  Kinds = {"training", "eval"}
  MaxFailures = 1
  MaxCommitFailures = 1
  MaxRestarts = 1
  MaxDeletes = 1
INVARIANTS CommittedIsHandled CreatedOnce
PROPERTIES CRKeepsItsRequest EveryMessageAnswered
CHECK_DEADLOCK FALSE
