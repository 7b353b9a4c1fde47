SPECIFICATION PeerSpec
CONSTANTS
  N = 4
  Up = {0, 1, 2, 3}
  Dials <- MeshAndBack
  Early <- Mesh
  MaxLost = 0
  MaxDown = 1
INVARIANT
  PanicMeansTooFew
CHECK_DEADLOCK FALSE
