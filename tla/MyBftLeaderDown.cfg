\* The leader is down and the proposer times out, under fairness.
SPECIFICATION FairSpec
CONSTANTS
  N = 4
  Up = {1, 2, 3}
  Byzantine = {}
  Proposal <- OneAdd
  InitView <- ViewZero
  Disk <- EmptyDisk
  DiskSigs = {0, 1, 2}
  BlockMaxSize = 1
  PoolTrigger = 1
  Stamp = {0}
  Ticking = {}
  Orders <- OneAdd
  Listeners = {1, 2, 3}
  Helpers = {}
  Timeouts <- OneAdd
  MaxRestarts = 0
  RestartWipes = FALSE
  Redeliver = {}
PROPERTIES
  ViewChangeCleans
CHECK_DEADLOCK FALSE
