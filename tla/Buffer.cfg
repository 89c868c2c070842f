CONSTANTS
  CR = CR
  LF = LF
  Zero = Zero
  Data <- MCData
  kCheapPrepend = 2
  kInitialSize = 2
  ExtraSize = 2
  IntLimit = 3
  MaxContent = 4
  MaxArg = 7
SPECIFICATION Spec
INVARIANT KeepsBytes
INVARIANT FindsFirstLine
