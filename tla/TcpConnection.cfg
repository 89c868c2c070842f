SPECIFICATION FairSpec
CONSTANTS
  Users = {u1}
  Programs <- MCPrograms
  MaxArrivals = 1
  HighWatermark = 3
  HasCallbacks = TRUE
  IoLoops = {"base", "sub"}
  PeerResets = TRUE
CHECK_DEADLOCK FALSE
INVARIANT NoFault
INVARIANT OutputInv
INVARIANT StreamInOrder
INVARIANT RegistrationInv
PROPERTY ClosedIsFreed
PROPERTY PeerCloseIsSeen
