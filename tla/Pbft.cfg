\* Node 3 comes back one block behind and one zone is added, in three phases;
\* any node may restart and the proposer may time out.
SPECIFICATION PbftSpec
CONSTANTS
  N = 4
  Up = {0, 1, 3}
  Byzantine = {}
  Proposal <- WithOld
  InitView <- ViewZero
  Disk <- NodeThreeOneBehind
  DiskSigs = {0, 1, 2}
  BlockMaxSize = 1
  PoolTrigger = 1
  Stamp = {0}
  Ticking = {0}
  Orders <- OneAdd
  Listeners = {0}
  Helpers = {0}
  Timeouts <- OneAdd
  MaxRestarts = 1
  RestartWipes = FALSE
  Redeliver = {}
INVARIANTS
  CommitCertified
  CommitsFollowConfirms
  AnsweredMeansStored
  NothingOverlooked
  RestMeansAnswered
PROPERTIES
  ImplementsBothPhases
CHECK_DEADLOCK FALSE
