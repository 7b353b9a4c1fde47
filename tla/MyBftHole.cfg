\* Two helpers answer node 3, in either order.
SPECIFICATION Spec
CONSTANTS
  N = 4
  Up = {0, 1, 3}
  Byzantine = {}
  Proposal <- WithOld
  InitView <- ViewZero
  Disk <- NodeThreeBehind
  DiskSigs = {0, 1, 2}
  BlockMaxSize = 1
  PoolTrigger = 1
  Stamp = {0}
  Ticking = {}
  Orders <- OneAdd
  Listeners = {0}
  Helpers = {0, 1}
  Timeouts = {}
  MaxRestarts = 0
  RestartWipes = FALSE
  Redeliver = {}
PROPERTIES
  HoleFilled
CHECK_DEADLOCK FALSE
