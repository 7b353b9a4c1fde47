SPECIFICATION ElectionSpec
CONSTANTS
  N = 4
  Up = {0, 1, 2}
  Dials <- MeshAndBack
  Early <- MeshButOne
  MaxLost = 2
INVARIANTS
  RestMeansElected
  NeverFailed
  LeaderKnown
CHECK_DEADLOCK FALSE
