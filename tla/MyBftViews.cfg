\* Three nodes, one of them down, left the election with different views: a
\* quorum is one vote, and node 2 can announce its view to node 0.
SPECIFICATION Spec
CONSTANTS
  N = 3
  Up = {0, 2}
  Byzantine = {}
  Proposal <- LocalAdds
  InitView <- SplitViews
  Disk <- EmptyDisk
  DiskSigs = {0}
  BlockMaxSize = 1
  PoolTrigger = 2
  Stamp = {0}
  Ticking = {}
  Orders <- LocalAdds
  Listeners = {0, 2}
  Helpers = {2}
  Timeouts <- LocalAdd
  MaxRestarts = 0
  RestartWipes = FALSE
  Redeliver = {}
INVARIANTS
  NoFreshView
CHECK_DEADLOCK FALSE
