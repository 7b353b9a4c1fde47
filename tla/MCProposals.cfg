\* Pools of up to four proposals of two hosts for two zones.
SPECIFICATION Spec
CONSTANTS
  Host = {1, 2}
  Zone = {"a", "b"}
  MaxPool = 4
INVARIANTS
  LeaderBatchAccepted
  NothingLost
CHECK_DEADLOCK FALSE
