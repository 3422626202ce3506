\* Lines are lost, devices fail or leave early, a mouse uses the same socket.
SPECIFICATION BusSpec
CONSTANTS
  PortPaths <- Sockets
  Devices <- SharedSocket
  NoDevice = NoDevice
  Faults = {"lost", "failed", "early"}
  DeviceIds = {1921, 5118, 1133, 21863}
  ProductNames = {cruzer, optical}
  Manufacturers = {}
  SerialNumbers = {s1, s2}
  NoText = NoText
  Garbage = {7}
  LogLength = 9
  DayOf <- DaysFrom11
  NodeReused = TRUE
  s1 = s1
  s2 = s2
  cruzer = cruzer
  optical = optical
INVARIANT CleanSessionsAreReported
CHECK_DEADLOCK FALSE
