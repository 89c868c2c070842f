SPECIFICATION MemSpec
CONSTANTS
  PAGE_SIZE = 112
  MP_ALIGNMENT = 16
  SizeofPool = 24
  SizeofSmallNode = 32
  SizeofLargeNode = 24
  MaxFailed = 1
  MaxTries = 2
  QuoteMod = 8
  Sizes = {17, 80, 81}
  MaxPages = 3
  Areas = {a1, a2, a3}
  Garbage = {0, 7}
SYMMETRY Perms
CHECK_DEADLOCK FALSE
INVARIANT ChunksApart
INVARIANT Accounted
