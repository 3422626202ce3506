\* Sticks and a mouse, each kind on sockets of its own, nothing lost.
SPECIFICATION BusSpec
CONSTANTS
  PortPaths <- ThreeSockets
  Devices <- SeparateSockets
  NoDevice = NoDevice
  Faults = {}
  DeviceIds = {1921, 5118, 1133, 21863}
  ProductNames = {cruzer, optical}
  Manufacturers = {}
  SerialNumbers = {s1, s2}
  NoText = NoText
  Garbage = {7}
  LogLength = 11
  DayOf <- DaysFrom11
  NodeReused = TRUE
  s1 = s1
  s2 = s2
  cruzer = cruzer
  optical = optical
INVARIANTS
  BusTypeOK
  ReportedSessionsHappened
  SessionsAreReported
  ConnectedMeansPlugged
  DevicesAreDescribed
PROPERTY KeepsLedger
CHECK_DEADLOCK FALSE
