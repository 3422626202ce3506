\* The log is read twice, grows until each result is shown, and may be rotated.
SPECIFICATION MainSpec
CONSTANTS
  PortPaths <- MCSockets
  Devices <- MCSticks
  NoDevice = NoDevice
  Faults = {}
  DeviceIds = {1921, 2385, 21863}
  ProductNames = {}
  Manufacturers = {}
  SerialNumbers = {s1, s2}
  NoText = NoText
  Garbage = {7}
  LogLength = 10
  DayOf <- MCDays
  NodeReused = TRUE
  s1 = s1
  s2 = s2
INVARIANTS
  CleanSessionsAreReported
  ReportedSessionsHappened
  AllInterfacesSaved
  NothingGoneIsShown
  ReportContinuesTerminal
PROPERTY MainEnds
CHECK_DEADLOCK FALSE
