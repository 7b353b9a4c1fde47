\* The interrupt goroutine makes the leader put out a second block.
SPECIFICATION Spec
CONSTANTS
  N = 4
  Up = {0, 1, 2}
  Byzantine = {}
  Proposal <- TwoAdds
  InitView <- ViewZero
  Disk <- EmptyDisk
  DiskSigs = {0, 1, 2}
  BlockMaxSize = 1
  PoolTrigger = 2
  Stamp = {0}
  Ticking = {0}
  Orders <- TwoAdds
  Listeners = {0}
  Helpers = {}
  Timeouts = {}
  MaxRestarts = 0
  RestartWipes = FALSE
  Redeliver = {}
INVARIANTS
  Agreement
CHECK_DEADLOCK FALSE
