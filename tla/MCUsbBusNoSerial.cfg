\* A stick without a serial number, and a mouse in a socket of its own.
SPECIFICATION BusSpec
CONSTANTS
  PortPaths <- ThreeSockets
  Devices <- StickWithoutSerial
  NoDevice = NoDevice
  Faults = {}
  DeviceIds = {1921, 5118, 1133, 21863}
  ProductNames = {cruzer, optical}
  Manufacturers = {}
  SerialNumbers = {s1, s2}
  NoText = NoText
  Garbage = {7}
  LogLength = 9
  DayOf <- DaysFrom11
  NodeReused = TRUE
  s1 = s1
  s2 = s2
  cruzer = cruzer
  optical = optical
INVARIANT ConnectedMeansPlugged
CHECK_DEADLOCK FALSE
