\* A stick behind a hub.
SPECIFICATION BusSpec
CONSTANTS
  PortPaths <- HubPorts
  Devices <- StickBehindHub
  NoDevice = NoDevice
  Faults = {}
  DeviceIds = {1449, 5118, 21863}
  ProductNames = {cruzer, optical}
  Manufacturers = {}
  SerialNumbers = {s1, s2}
  NoText = NoText
  Garbage = {7}
  LogLength = 9
  DayOf <- DaysFrom11
  NodeReused = TRUE
  s1 = s1
  s2 = s2
  cruzer = cruzer
  optical = optical
INVARIANT SessionsAreReported
CHECK_DEADLOCK FALSE
