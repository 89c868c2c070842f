SPECIFICATION Spec
CONSTANTS
  Channels = {c1, c2, c3}
  NoChannel = none
  Fds <- MCFds
  Events = {"R", "W"}
SYMMETRY Symmetry
INVARIANT IndexInv
PROPERTY ImplementsPoller
