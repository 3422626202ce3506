\* Any log of seven lines about a port, another port and a port behind the first;
\* the iterator of the saving loop may lead anywhere.
SPECIFICATION Spec
CONSTANTS
  PortPaths <- MCPorts
  DeviceIds <- MCDeviceIds
  ProductNames = {}
  Manufacturers = {maker}
  SerialNumbers = {s1, s2}
  NoText = NoText
  Garbage = {7}
  LogLength = 7
  DayOf <- MCDays
  NodeReused = FALSE
  s1 = s1
  s2 = s2
  product = product
  maker = maker
SYMMETRY Symmetry
INVARIANTS
  TypeOK
  SessionsAreIntervals
  NoLineCountedTwice
PROPERTIES
  HistoryKept
  OpenSessionsAreRecorded
CHECK_DEADLOCK FALSE
