\* Two hosts add the same zone.
SPECIFICATION Spec
CONSTANTS
  N = 4
  Up = {0, 1, 2}
  Byzantine = {}
  Proposal <- SameZone
  InitView <- ViewZero
  Disk <- EmptyDisk
  DiskSigs = {0, 1, 2}
  BlockMaxSize = 1
  PoolTrigger = 1
  Stamp = {0}
  Ticking = {}
  Orders <- SameZone
  Listeners = {0}
  Helpers = {}
  Timeouts = {}
  MaxRestarts = 0
  RestartWipes = FALSE
  Redeliver = {}
INVARIANTS
  NoZoneTaken
CHECK_DEADLOCK FALSE
