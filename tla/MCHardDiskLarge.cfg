\* A drive too large for BLKGETSIZE, on a kernel with BLKGETSIZE64.
SPECIFICATION Spec
CONSTANTS
  Names <- MCNames
  Drives <- MCDrives
  NoDrive = NoDrive
  Attached <- MCLargeAttached
  Kernels = {TRUE}
  LongMax = 5
  FileLimit = 7
  MaxEvents = 0
INVARIANT LargeDrivesAreMeasured
CHECK_DEADLOCK FALSE
