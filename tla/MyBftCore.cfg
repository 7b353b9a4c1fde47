\* Node 3 comes back one block behind and two zones are added; its vote is
\* needed for both.  No timer, no restart.
SPECIFICATION Spec
CONSTANTS
  N = 4
  Up = {0, 1, 3}
  Byzantine = {}
  Proposal <- WithOldTwo
  InitView <- ViewZero
  Disk <- NodeThreeOneBehind
  DiskSigs = {0, 1, 2}
  BlockMaxSize = 1
  PoolTrigger = 1
  Stamp = {0}
  Ticking = {}
  Orders <- TwoMore
  Listeners = {0}
  Helpers = {0}
  Timeouts = {}
  MaxRestarts = 0
  RestartWipes = FALSE
  Redeliver = {}
INVARIANTS
  TypeOK
  Agreement
  OneCertificate
  OneBlockPerHeight
  ConfirmMeansExecuted
  ParentHeldByQuorum
  CacheCoherent
CHECK_DEADLOCK FALSE
