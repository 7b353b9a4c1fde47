\* Node 3 comes back two blocks behind, one zone is added, and any node may
\* restart at any time; under fairness.
SPECIFICATION FairSpec
CONSTANTS
  N = 4
  Up = {0, 1, 3}
  Byzantine = {}
  Proposal <- WithOld
  InitView <- ViewZero
  Disk <- NodeThreeBehind
  DiskSigs = {0, 1, 2}
  BlockMaxSize = 1
  PoolTrigger = 1
  Stamp = {0}
  Ticking = {0}
  Orders <- OneAdd
  Listeners = {0}
  Helpers = {0}
  Timeouts = {}
  MaxRestarts = 1
  RestartWipes = FALSE
  Redeliver = {"Proposal"}
INVARIANTS
  Certified
  MinedOnce
  VotesCast
  NothingStranded
  ReplyMeansOnChain
  ChainUnbroken
PROPERTIES
  EventuallyExecuted
  ImplementsCertChain
CHECK_DEADLOCK FALSE
