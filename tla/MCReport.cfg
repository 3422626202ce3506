\* Reports of several devices and disks, made at any season.
SPECIFICATION Spec
CONSTANTS
  Year = 192
  Standard = 1
  SummerBegins = 48
  SummerEnds = 144
  UsbMaps <- MCUsbMaps
  DiskMaps <- MCDiskMaps
  Presents <- MCPresents
  NoText = NoText
  Blank = Blank
  NotFound = NotFound
  Unit = 10
  LogQuotient <- MCLogQuotient
  s1 = s1
  s2 = s2
  cruzer = cruzer
  sandisk = sandisk
  model = model
  revision = revision
  sda = sda
  sdb = sdb
  nvme0n1 = nvme0n1
INVARIANTS
  TypeOK
  ReportAgreesWithTerminal
  RowsAreSessions
  StatusAgreesWithTimes
  ReportIsComplete
  TimesAreConverted
CHECK_DEADLOCK FALSE
