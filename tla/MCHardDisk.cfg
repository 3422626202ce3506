\* Drives unplugged and plugged in while both passes run.
SPECIFICATION FairSpec
CONSTANTS
  Names <- MCNames
  Drives <- MCDrives
  NoDrive = NoDrive
  Attached <- MCAttached
  Kernels = {TRUE, FALSE}
  LongMax = 5
  FileLimit = 7
  MaxEvents = 3
INVARIANTS
  TypeOK
  SizesAreTrue
  DescriptorsAccountedFor
  ReportIsWritten
  StableDrivesAreReported
PROPERTIES
  KeepsInventory
  Terminates
CHECK_DEADLOCK FALSE
