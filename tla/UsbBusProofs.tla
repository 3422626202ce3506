----------------------------- MODULE UsbBusProofs -----------------------------
(***************************************************************************)
(* Theorems about the log parser reading what a kernel writes, for any     *)
(* ports and devices, any length of the log, and every set of faults.      *)
(***************************************************************************)
EXTENDS UsbBus, UsbLogProofs

PortState ==
  [device : Devices \cup {NoDevice}, announced : 0..5, since : Times, clean : BOOLEAN]

Session == [from : Times, to : Times, clean : BOOLEAN]

-----------------------------------------------------------------------------
(***************************************************************************)
(* Every step of the bus is one of the parser.                             *)
(***************************************************************************)

\* A line the kernel writes is one of the lines the parser is ready for.
LEMMA LineIsNext ==
  ASSUME NEW kind, NEW path \in PortPaths, NEW device \in Devices,
         kind = "product" => device.product # NoText,
         kind = "serial" => device.serial # NoText,
         Line(kind, path, device)
  PROVE  Next
  <1>1. /\ device.vendor \in DeviceIds /\ device.model \in DeviceIds
        /\ device.product \in ProductNames \cup {NoText}
        /\ device.serial \in SerialNumbers \cup {NoText}
    BY DeviceAssumption DEF DeviceAssumption, Serials
  <1>2. AnyLine(path)
    <2>1. CASE kind = "new" /\ CheckIfNewDeviceConnected(path)
      BY <2>1 DEF AnyLine
    <2>2. CASE kind = "ids" /\ IdsFound(path, device.vendor, device.model)
      BY <1>1, <2>2 DEF AnyLine
    <2>3. CASE kind = "product" /\ ProductNameFound(path, device.product)
      BY <1>1, <2>3 DEF AnyLine
    <2>4. CASE kind = "serial" /\ SerialNumberFound(path, device.serial)
      BY <1>1, <2>4 DEF AnyLine
    <2>5. CASE kind = "storage" /\ CheckIfStorageDevice(path)
      BY <2>5 DEF AnyLine
    <2>6. CASE kind = "disconnect" /\ CheckIfDeviceDisconnected(path)
      BY <2>6 DEF AnyLine
    <2> QED
      BY <2>1, <2>2, <2>3, <2>4, <2>5, <2>6 DEF Line
  <1> QED
    BY <1>2 DEF Next

LEMMA LineReads ==
  ASSUME NEW kind, NEW path, NEW device, Line(kind, path, device) \/ OtherLine
  PROVE  ReadLine
  BY DEF Line, OtherLine, CheckIfNewDeviceConnected, IdsFound, ProductNameFound,
         SerialNumberFound, CheckIfStorageDevice, CheckIfDeviceDisconnected

\* A line leaves the entries of other interface ids as they are.
KeptElsewhere(path) ==
  \A id : id # InterfaceId(path) =>
    /\ id \in DOMAIN interfaces' <=> id \in DOMAIN interfaces
    /\ id \in DOMAIN interfaces => interfaces'[id] = interfaces[id]

LEMMA LineKeepsElsewhere ==
  ASSUME NEW kind, NEW path, NEW device, Line(kind, path, device) \/ OtherLine
  PROVE  KeptElsewhere(path)
  <1>1. ASSUME NEW e, interfaces' = Put(interfaces, InterfaceId(path), e)
        PROVE  KeptElsewhere(path)
    BY <1>1 DEF KeptElsewhere, Put
  <1>2. CASE interfaces' = interfaces
    BY <1>2 DEF KeptElsewhere
  <1>3. ASSUME NEW e, Amend(path, e) PROVE KeptElsewhere(path)
    BY <1>1, <1>2, <1>3 DEF Amend
  <1>4. CASE CheckIfNewDeviceConnected(path)
    BY <1>1, <1>2, <1>4 DEF CheckIfNewDeviceConnected
  <1>5. CASE IdsFound(path, device.vendor, device.model)
    BY <1>3, <1>5 DEF IdsFound
  <1>6. CASE ProductNameFound(path, device.product)
    BY <1>3, <1>6 DEF ProductNameFound
  <1>7. CASE SerialNumberFound(path, device.serial)
    BY <1>3, <1>7 DEF SerialNumberFound
  <1>8. CASE CheckIfStorageDevice(path)
    BY <1>3, <1>8 DEF CheckIfStorageDevice
  <1>9. CASE CheckIfDeviceDisconnected(path)
    BY <1>1, <1>2, <1>9 DEF CheckIfDeviceDisconnected, Initialize
  <1>10. CASE OtherLine
    BY <1>2, <1>10 DEF OtherLine
  <1> QED
    BY <1>4, <1>5, <1>6, <1>7, <1>8, <1>9, <1>10 DEF Line

-----------------------------------------------------------------------------
(***************************************************************************)
(* The inductive invariant, in parts.                                      *)
(***************************************************************************)

\* A port is free, or one of the devices is there.
Occupied == \A p \in PortPaths : bus[p] = FreePort \/ bus[p].device \in Devices

\* What a clean session has told so far is what the entry of its port holds:
\* the time of the "new" line, the serial number once it was told, and that it
\* is a storage device once its driver has probed it.
EntryMatches(p) ==
  LET b == bus[p]
      e == EntryOf(p)
  IN  /\ b.device \in Devices
      /\ b.announced >= 1
      /\ MatchesNew(p) /\ IsKnown(p)
      /\ ~e.isEmpty
      /\ e.connectionTime = DateOf(b.since)
      /\ e.serialNumber = IF b.announced >= 4 THEN b.device.serial ELSE NoText
      /\ b.announced >= 5 => e.isStorageDevice

CleanPortsMatch ==
  phase = "reading" => \A p \in PortPaths : bus[p].clean => EntryMatches(p)

BusInv ==
  /\ IInv
  /\ KeyIsSerial
  /\ BusTypeOK
  /\ Occupied
  /\ CleanPortsMatch
  /\ CleanSessionsAreReported

LEMMA FreePortFacts ==
  /\ FreePort \in PortState
  /\ FreePort.clean = FALSE
  /\ [FreePort EXCEPT !.clean = FALSE] = FreePort
  <1>1. FreePort \in PortState
    BY LogAssumption DEF LogAssumption, FreePort, PortState, Times, NoTime
  <1>2. FreePort.clean = FALSE
    BY DEF FreePort
  <1>3. ASSUME NEW b \in PortState, b.clean = FALSE PROVE [b EXCEPT !.clean = FALSE] = b
    BY <1>3, SMT DEF PortState
  <1> QED
    BY <1>1, <1>2, <1>3

LEMMA BusInitInv == BusInit => BusInv
  <1> SUFFICES ASSUME BusInit PROVE BusInv
    OBVIOUS
  <1>1. Init /\ IInv /\ TypeOK
    BY InitInv DEF BusInit, IInv
  <1>2. KeyIsSerial
    BY <1>1 DEF Init, KeyIsSerial
  <1>3. FreePort \in PortState /\ FreePort.clean = FALSE
    BY FreePortFacts
  <1>4. bus \in [PortPaths -> PortState]
    BY <1>3 DEF BusInit
  <1>5. sessions \in [Devices -> Seq(Session)]
    BY DEF BusInit
  <1>6. BusTypeOK
    BY <1>1, <1>4, <1>5 DEF BusTypeOK, PortState, Session
  <1>7. Occupied
    BY DEF BusInit, Occupied
  <1>8. CleanPortsMatch
    BY <1>3 DEF BusInit, CleanPortsMatch
  <1>9. CleanSessionsAreReported
    BY DEF BusInit, CleanSessionsAreReported, StorageDevices
  <1> QED
    BY <1>1, <1>2, <1>6, <1>7, <1>8, <1>9 DEF BusInv

LEMMA BusTypes ==
  ASSUME BusInv
  PROVE  /\ TypeOK
         /\ bus \in [PortPaths -> PortState]
         /\ sessions \in [Devices -> Seq(Session)]
  BY DEF BusInv, BusTypeOK, PortState, Session

\* IsReported, of any usb_map.
InResult(result, d, session) ==
  /\ d.serial \in DOMAIN result
  /\ \E i \in DOMAIN result[d.serial].disconnectionTimes :
       /\ result[d.serial].connectionTimes[i] = DateOf(session.from)
       /\ result[d.serial].disconnectionTimes[i] = DateOf(session.to)

\* A session reported stays reported: histories only grow.
LEMMA StaysReported ==
  ASSUME BusInv, [Next]_vars, NEW d, NEW session, InResult(usbs, d, session)
  PROVE  InResult(usbs', d, session)
  <1> DEFINE s == d.serial
             old == usbs[s]
             new == usbs'[s]
  <1>1. TypeOK /\ TypeOK' /\ KeyIsSerial /\ IInv
    BY TypeStep, BusTypes DEF BusInv
  <1>2. s \in DOMAIN usbs
    BY DEF InResult
  <1>3. s \in DOMAIN usbs' /\ KeepsHistory(new, old)
    BY <1>1, <1>2, HistoryStep
  <1>4. old \in UsbInfo /\ new \in UsbInfo
    BY <1>1, <1>2, <1>3 DEF TypeOK
  <1>5. PICK i \in DOMAIN old.disconnectionTimes :
          /\ old.connectionTimes[i] = DateOf(session.from)
          /\ old.disconnectionTimes[i] = DateOf(session.to)
    BY DEF InResult
  <1>6. s \in Serials /\ ConnectionsOf(s) = old.connectionTimes
        /\ DisconnectionsOf(s) = old.disconnectionTimes
    BY <1>1, <1>2 DEF TypeOK, ConnectionsOf, DisconnectionsOf
  <1>7. Len(old.disconnectionTimes) <= Len(old.connectionTimes)
    BY <1>1, <1>6 DEF IInv, ListsPaired, Paired
  <1>8. /\ old.connectionTimes \in Seq(Times) /\ old.disconnectionTimes \in Seq(Times)
        /\ new.connectionTimes \in Seq(Times) /\ new.disconnectionTimes \in Seq(Times)
    BY <1>4 DEF UsbInfo
  <1>9. /\ Extends(new.connectionTimes, old.connectionTimes)
        /\ Extends(new.disconnectionTimes, old.disconnectionTimes)
    BY <1>3 DEF KeepsHistory
  <1> HIDE DEF old, new
  <1>10. /\ i \in DOMAIN new.disconnectionTimes
         /\ new.disconnectionTimes[i] = old.disconnectionTimes[i]
         /\ new.connectionTimes[i] = old.connectionTimes[i]
    <2>1. i \in DOMAIN old.connectionTimes
      BY <1>5, <1>7, <1>8
    <2> QED
      BY <1>5, <1>8, <1>9, <2>1 DEF Extends
  <1> QED
    BY <1>3, <1>5, <1>10 DEF InResult, new

LEMMA SessionsStayReported ==
  ASSUME BusInv, [Next]_vars, UNCHANGED sessions
  PROVE  CleanSessionsAreReported'
  <1>1. ASSUME NEW d \in StorageDevices, NEW i \in DOMAIN sessions[d], sessions[d][i].clean
        PROVE  InResult(usbs', d, sessions[d][i])
    <2>1. InResult(usbs, d, sessions[d][i])
      BY <1>1 DEF BusInv, CleanSessionsAreReported, IsReported, InResult
    <2> QED
      BY <2>1, StaysReported
  <1> QED
    BY <1>1 DEF CleanSessionsAreReported, IsReported, InResult

-----------------------------------------------------------------------------
(***************************************************************************)
(* What a line leaves alone.                                               *)
(***************************************************************************)

\* The state of one port is set; ports with the same interface id lose their
\* claim to be clean.
LEMMA SetPortTyped ==
  ASSUME BusInv, NEW path \in PortPaths, NEW state \in PortState, SetPort(path, state)
  PROVE  /\ bus' \in [PortPaths -> PortState]
         /\ bus'[path] = state
         /\ \A p \in PortPaths \ {path} :
              /\ bus'[p].device = bus[p].device
              /\ bus[p] = FreePort => bus'[p] = FreePort
              /\ bus'[p].clean => bus'[p] = bus[p] /\ InterfaceId(p) # InterfaceId(path)
  <1>1. \A p \in PortPaths : bus[p] \in PortState
    BY BusTypes
  <1>2. \A b \in PortState : /\ [b EXCEPT !.clean = FALSE] \in PortState
                             /\ [b EXCEPT !.clean = FALSE].device = b.device
                             /\ ~[b EXCEPT !.clean = FALSE].clean
    BY DEF PortState
  <1>3. [FreePort EXCEPT !.clean = FALSE] = FreePort
    BY FreePortFacts
  <1>4. bus' = [p \in PortPaths |->
                  IF p = path THEN state
                  ELSE IF InterfaceId(p) = InterfaceId(path)
                  THEN [bus[p] EXCEPT !.clean = FALSE]
                  ELSE bus[p]]
    BY DEF SetPort
  <1>5. bus' \in [PortPaths -> PortState]
    BY <1>1, <1>2, <1>4
  <1>6. ASSUME NEW p \in PortPaths \ {path}
        PROVE  /\ bus'[p].device = bus[p].device
               /\ bus[p] = FreePort => bus'[p] = FreePort
               /\ bus'[p].clean => bus'[p] = bus[p] /\ InterfaceId(p) # InterfaceId(path)
    <2>1. CASE InterfaceId(p) = InterfaceId(path)
      <3>1. bus'[p] = [bus[p] EXCEPT !.clean = FALSE]
        BY <1>4, <2>1
      <3> QED
        BY <1>1, <1>2, <1>3, <3>1
    <2>2. CASE InterfaceId(p) # InterfaceId(path)
      <3>1. bus'[p] = bus[p]
        BY <1>4, <2>2
      <3> QED
        BY <2>2, <3>1
    <2> QED
      BY <2>1, <2>2
  <1> QED
    BY <1>4, <1>5, <1>6

\* A port that is still clean after a line about another one matches its entry
\* as before.
LEMMA ElsewhereMatches ==
  ASSUME BusInv, phase = "reading", NEW path \in PortPaths, NEW state \in PortState,
         SetPort(path, state), KeptElsewhere(path),
         NEW p \in PortPaths \ {path}, bus'[p].clean
  PROVE  EntryMatches(p)'
  <1>1. bus'[p] = bus[p] /\ InterfaceId(p) # InterfaceId(path)
    BY SetPortTyped
  <1>2. EntryMatches(p)
    BY <1>1 DEF BusInv, CleanPortsMatch
  <1>3. InterfaceId(p) \in DOMAIN interfaces
    BY <1>2 DEF EntryMatches, IsKnown
  <1>4. InterfaceId(p) \in DOMAIN interfaces' /\ interfaces'[InterfaceId(p)] = interfaces[InterfaceId(p)]
    BY <1>1, <1>3 DEF KeptElsewhere
  <1>5. (IsKnown(p) => IsKnown(p)') /\ EntryOf(p)' = EntryOf(p)
    BY <1>4 DEF IsKnown, EntryOf
  <1> QED
    BY <1>1, <1>2, <1>5 DEF EntryMatches

\* What is left to show of a line about a port: that the port, if clean after
\* it, matches its entry, and that the sessions are reported.
LEMMA LineInv ==
  ASSUME BusInv, NEW kind, NEW path \in PortPaths, NEW device,
         Line(kind, path, device) \/ OtherLine, Next,
         NEW state \in PortState, SetPort(path, state),
         state = FreePort \/ state.device \in Devices,
         sessions' \in [Devices -> Seq(Session)],
         state.clean => EntryMatches(path)',
         CleanSessionsAreReported'
  PROVE  BusInv'
  <1>1. IInv' /\ TypeOK'
    BY StepInv DEF BusInv, IInv
  <1>2. KeyIsSerial'
    BY BusTypes, KeyIsSerialStep DEF BusInv
  <1>3. BusTypeOK'
    BY <1>1, SetPortTyped DEF BusTypeOK, PortState, Session
  <1>4. Occupied'
    BY SetPortTyped DEF BusInv, Occupied
  <1>5. phase = "reading" /\ phase' = "reading"
    BY BusTypes, LineReads, ReadLineTyped
  <1>6. KeptElsewhere(path)
    BY LineKeepsElsewhere
  <1>7. CleanPortsMatch'
    <2>1. bus'[path] = state
      BY SetPortTyped
    <2>2. ASSUME NEW p \in PortPaths, bus'[p].clean PROVE EntryMatches(p)'
      BY <1>5, <1>6, <2>1, <2>2, ElsewhereMatches
    <2> QED
      BY <2>2 DEF CleanPortsMatch
  <1> QED
    BY <1>1, <1>2, <1>3, <1>4, <1>7 DEF BusInv

-----------------------------------------------------------------------------
(***************************************************************************)
(* What the lines of a session make of an entry.                           *)
(***************************************************************************)

\* A blank entry is opened by the "new" line, whether the map held it or not.
LEMMA OpensBlankEntry ==
  ASSUME NEW path \in PortPaths, CheckIfNewDeviceConnected(path),
         MatchesNew(path), IsBlank(path)
  PROVE  IsKnown(path)' /\ EntryOf(path)' = AnnouncedNow(EmptyInterface)
  <1> DEFINE entry == IF IsKnown(path) THEN EntryOf(path) ELSE EmptyInterface
  <1>1. entry = EmptyInterface
    BY DEF IsBlank
  <1>2. entry.isEmpty
    BY <1>1 DEF EmptyInterface
  <1>3. interfaces' = Put(interfaces, InterfaceId(path), AnnouncedNow(EmptyInterface))
    BY <1>1, <1>2 DEF CheckIfNewDeviceConnected
  <1>4. MatchesUsb(path)
    BY DEF MatchesNew
  <1> QED
    BY <1>3, <1>4 DEF IsKnown, EntryOf, Put

\* A line about a port the map holds amends its entry.
LEMMA AmendsEntry ==
  ASSUME NEW path \in PortPaths, NEW e, Amend(path, e), IsKnown(path)
  PROVE  IsKnown(path)' /\ EntryOf(path)' = e
  BY DEF Amend, IsKnown, EntryOf, Put

\* A line that did not reach the file: the session is no longer clean.
LEMMA LostInv ==
  ASSUME BusInv, NEW path \in PortPaths, OtherLine,
         NEW state \in PortState, SetPort(path, [state EXCEPT !.clean = FALSE]),
         state.device \in Devices, UNCHANGED sessions
  PROVE  BusInv'
  <1> DEFINE lost == [state EXCEPT !.clean = FALSE]
  <1>1. lost \in PortState /\ lost.device = state.device /\ ~lost.clean
    BY DEF PortState
  <1>2. Next
    BY DEF Next
  <1>3. sessions' \in [Devices -> Seq(Session)]
    BY BusTypes
  <1>4. CleanSessionsAreReported'
    BY <1>2, SessionsStayReported
  <1> HIDE DEF lost
  <1>5. SetPort(path, lost)
    BY DEF lost
  <1> QED
    BY <1>1, <1>2, <1>3, <1>4, <1>5, LineInv

LEMMA PlugInv ==
  ASSUME BusInv, NEW path \in PortPaths, NEW device \in Devices, Plug(path, device)
  PROVE  BusInv'
  <1> DEFINE state == [device |-> device, announced |-> 1, since |-> pos + 1,
                       clean |-> MatchesNew(path) /\ IsBlank(path)]
  <1>1. Write("new", path, device, state) /\ UNCHANGED sessions
    BY DEF Plug
  <1>2. Line("new", path, device) \/ OtherLine
    BY <1>1 DEF Write
  <1>3. pos + 1 \in Times
    BY <1>2, LineReads, BusTypes, ReadLineTyped
  <1>4. state \in PortState
    <2>1. (MatchesNew(path) /\ IsBlank(path)) \in BOOLEAN
      BY DEF MatchesNew, IsBlank
    <2> QED
      BY <1>3, <2>1 DEF PortState
  <1>5. /\ state.device = device /\ state.announced = 1 /\ state.since = pos + 1
        /\ state.clean <=> MatchesNew(path) /\ IsBlank(path)
    OBVIOUS
  <1> HIDE DEF state
  <1>6. CASE Line("new", path, device) /\ SetPort(path, state)
    <2>1. Next
      BY <1>6, LineIsNext
    <2>2. CheckIfNewDeviceConnected(path)
      BY <1>6 DEF Line
    <2>3. ASSUME state.clean PROVE EntryMatches(path)'
      <3>1. MatchesNew(path) /\ IsBlank(path)
        BY <1>5, <2>3
      <3>2. IsKnown(path)' /\ EntryOf(path)' = AnnouncedNow(EmptyInterface)
        BY <2>2, <3>1, OpensBlankEntry
      <3>3. /\ ~AnnouncedNow(EmptyInterface).isEmpty
            /\ AnnouncedNow(EmptyInterface).connectionTime = DateOf(pos + 1)
            /\ AnnouncedNow(EmptyInterface).serialNumber = NoText
        BY DEF AnnouncedNow, EmptyInterface
      <3>4. bus'[path] = state
        BY <1>4, <1>6, SetPortTyped
      <3> QED
        BY <1>5, <3>1, <3>2, <3>3, <3>4 DEF EntryMatches
    <2>4. sessions' \in [Devices -> Seq(Session)] /\ CleanSessionsAreReported'
      BY <1>1, <2>1, BusTypes, SessionsStayReported
    <2> QED
      BY <1>4, <1>5, <1>6, <2>1, <2>3, <2>4, LineInv
  <1>7. CASE OtherLine /\ SetPort(path, [state EXCEPT !.clean = FALSE])
    BY <1>1, <1>4, <1>5, <1>7, LostInv
  <1> QED
    BY <1>1, <1>6, <1>7 DEF Write

\* Of the lines still to be logged the next one is the first of them.
LEMMA AnnounceInv ==
  ASSUME BusInv, NEW path \in PortPaths, Announce(path)
  PROVE  BusInv'
  <1> DEFINE b == bus[path]
             device == b.device
  <1>1. b \in PortState /\ device \in Devices
    BY BusTypes DEF BusInv, Occupied, Announce
  <1>2. b.announced \in 0..5
    BY <1>1 DEF PortState
  <1>3. PICK k \in Remaining(path) :
          /\ \A j \in Remaining(path) : k <= j
          /\ Write(Kinds[k], path, device, [b EXCEPT !.announced = k])
    BY DEF Announce
  <1>4. /\ k \in b.announced + 1..5 /\ Tells(device, k)
        /\ \A j \in b.announced + 1..5 : Tells(device, j) => k <= j
    BY <1>3 DEF Remaining
  <1>5. k \in 1..5 /\ k > b.announced
    BY <1>2, <1>4
  <1> DEFINE state == [b EXCEPT !.announced = k]
             kind == Kinds[k]
  <1>6. /\ state \in PortState
        /\ state.device = device /\ state.announced = k
        /\ state.since = b.since /\ state.clean = b.clean
    BY <1>1, <1>5 DEF PortState
  <1>7. UNCHANGED sessions
    BY DEF Announce
  <1>8. /\ kind = "product" => device.product # NoText
        /\ kind = "serial" => device.serial # NoText
        /\ kind = "storage" => device.storage
    BY <1>4 DEF Tells
  <1>9. /\ k = 1 => kind = "new"
        /\ k = 2 => kind = "ids"
        /\ k = 3 => kind = "product"
        /\ k = 4 => kind = "serial"
        /\ k = 5 => kind = "storage"
    BY DEF Kinds
  <1>10. k = 5 /\ b.announced < 4 => device.serial = NoText
    <2> SUFFICES ASSUME k = 5, b.announced < 4, device.serial # NoText PROVE FALSE
      OBVIOUS
    <2>1. 4 \in b.announced + 1..5
      BY <1>2
    <2>2. Tells(device, 4)
      BY DEF Tells, Kinds
    <2> QED
      BY <1>4, <2>1, <2>2
  <1> HIDE DEF state, kind
  <1>11. CASE Line(kind, path, device) /\ SetPort(path, state)
    <2>1. Next
      BY <1>1, <1>8, <1>11, LineIsNext
    <2>2. phase = "reading"
      BY <1>11, LineReads, BusTypes, ReadLineTyped
    <2>3. ASSUME state.clean PROVE EntryMatches(path)'
      <3> DEFINE e == EntryOf(path)
                 f == EntryOf(path)'
      <3>1. EntryMatches(path)
        BY <1>6, <2>2, <2>3 DEF BusInv, CleanPortsMatch
      <3>2. /\ IsKnown(path) /\ MatchesNew(path) /\ b.announced >= 1
            /\ ~e.isEmpty /\ e.connectionTime = DateOf(b.since)
            /\ e.serialNumber = IF b.announced >= 4 THEN device.serial ELSE NoText
            /\ b.announced >= 5 => e.isStorageDevice
        BY <3>1 DEF EntryMatches
      <3>3. e \in UsbInterface
        BY <3>2, EntryTyped, BusTypes
      <3>4. k \in 2..5
        BY <1>2, <1>5, <3>2
      <3> HIDE DEF e, f
      <3>5. /\ IsKnown(path)' /\ ~f.isEmpty /\ f.connectionTime = e.connectionTime
            /\ f.serialNumber = IF k = 4 THEN device.serial ELSE e.serialNumber
            /\ k = 5 => f.isStorageDevice
        <4>1. CASE k = 2
          <5>1. PICK v, p \in Int : Amend(path, [e EXCEPT !.idVendor = v, !.idProduct = p])
            <6>1. IdsFound(path, device.vendor, device.model)
              BY <1>9, <1>11, <4>1 DEF Line
            <6>2. /\ StringToInt(device.vendor, Garbage) \subseteq Int
                  /\ StringToInt(device.model, Garbage) \subseteq Int
              BY <1>1, StringToIntTyped, DeviceAssumption DEF DeviceAssumption
            <6> QED
              BY <6>1, <6>2 DEF IdsFound, e
          <5>2. IsKnown(path)' /\ f = [e EXCEPT !.idVendor = v, !.idProduct = p]
            BY <3>2, <5>1, AmendsEntry DEF f
          <5> QED
            BY <3>2, <3>3, <4>1, <5>2 DEF UsbInterface
        <4>2. CASE k = 3
          <5>1. Amend(path, [e EXCEPT !.productName = device.product])
            BY <1>9, <1>11, <4>2 DEF Line, ProductNameFound, e
          <5>2. IsKnown(path)' /\ f = [e EXCEPT !.productName = device.product]
            BY <3>2, <5>1, AmendsEntry DEF f
          <5> QED
            BY <3>2, <3>3, <4>2, <5>2 DEF UsbInterface
        <4>3. CASE k = 4
          <5>1. Amend(path, [e EXCEPT !.serialNumber = device.serial])
            BY <1>9, <1>11, <4>3 DEF Line, SerialNumberFound, e
          <5>2. IsKnown(path)' /\ f = [e EXCEPT !.serialNumber = device.serial]
            BY <3>2, <5>1, AmendsEntry DEF f
          <5> QED
            BY <3>2, <3>3, <4>3, <5>2 DEF UsbInterface
        <4>4. CASE k = 5
          <5>1. Amend(path, [e EXCEPT !.isStorageDevice = TRUE])
            BY <1>9, <1>11, <4>4 DEF Line, CheckIfStorageDevice, e
          <5>2. IsKnown(path)' /\ f = [e EXCEPT !.isStorageDevice = TRUE]
            BY <3>2, <5>1, AmendsEntry DEF f
          <5> QED
            BY <3>2, <3>3, <4>4, <5>2 DEF UsbInterface
        <4> QED
          BY <3>4, <4>1, <4>2, <4>3, <4>4
      <3>6. f.serialNumber = IF k >= 4 THEN device.serial ELSE NoText
        BY <1>2, <1>5, <1>10, <3>2, <3>4, <3>5
      <3>7. bus'[path] = state
        BY <1>6, <1>11, SetPortTyped
      <3> QED
        BY <1>1, <1>6, <3>2, <3>4, <3>5, <3>6, <3>7 DEF EntryMatches, e, f
    <2>4. sessions' \in [Devices -> Seq(Session)] /\ CleanSessionsAreReported'
      BY <1>7, <2>1, BusTypes, SessionsStayReported
    <2> QED
      BY <1>1, <1>6, <1>11, <2>1, <2>3, <2>4, LineInv
  <1>12. CASE OtherLine /\ SetPort(path, [state EXCEPT !.clean = FALSE])
    BY <1>1, <1>6, <1>7, <1>12, LostInv
  <1>13. Write(kind, path, device, state)
    BY <1>3 DEF kind, state
  <1> QED
    BY <1>11, <1>12, <1>13 DEF Write

LEMMA GiveUpInv ==
  ASSUME BusInv, NEW path \in PortPaths, GiveUp(path)
  PROVE  BusInv'
  <1>1. OtherLine /\ SetPort(path, FreePort) /\ UNCHANGED sessions
    BY DEF GiveUp
  <1>2. Next
    BY <1>1 DEF Next
  <1>3. sessions' \in [Devices -> Seq(Session)] /\ CleanSessionsAreReported'
    BY <1>1, <1>2, BusTypes, SessionsStayReported
  <1> QED
    BY <1>1, <1>2, <1>3, FreePortFacts, LineInv

-----------------------------------------------------------------------------
(***************************************************************************)
(* Unplugging.                                                             *)
(***************************************************************************)

\* The disconnect line of an entry that is open and of a storage device empties
\* it, and appends its two times to the lists of its device.
LEMMA DisconnectLists ==
  ASSUME BusInv, NEW path \in PortPaths, CheckIfDeviceDisconnected(path),
         IsOpenStorage(path), NEW s, s = EntryOf(path).serialNumber
  PROVE  /\ s \in Serials /\ s \in DOMAIN usbs' /\ DateOf(pos + 1) \in Times
         /\ EntryOf(path).connectionTime \in Times
         /\ ConnectionsOf(s)' = Append(ConnectionsOf(s), EntryOf(path).connectionTime)
         /\ DisconnectionsOf(s)' = Append(DisconnectionsOf(s), DateOf(pos + 1))
         /\ \A r : r # s => /\ ConnectionsOf(r)' = ConnectionsOf(r)
                            /\ DisconnectionsOf(r)' = DisconnectionsOf(r)
         /\ EntryOf(path)' = EmptyInterface
  <1> DEFINE e == EntryOf(path)
             b == UsbOf(e)
             u == Connected(b, e.connectionTime)
             w == Disconnected(u, DateOf(pos + 1))
             c == ConnectionsOf(s)
             d == DisconnectionsOf(s)
  <1>1. TypeOK /\ ReadLine
    BY BusTypes DEF CheckIfDeviceDisconnected
  <1>2. e \in UsbInterface
    BY <1>1, EntryTyped DEF IsOpenStorage
  <1>3. s \in Serials /\ e.connectionTime \in Times
    BY <1>2 DEF UsbInterface
  <1>4. DateOf(pos + 1) \in Times
    BY <1>1, ReadLineTyped, DateOfNext DEF TypeOK
  <1>5. b \in UsbInfo
    BY <1>1, <1>2, UsbOfTyped
  <1>6. u \in UsbInfo
    BY <1>3, <1>5, SessionTyped
  <1>7. b.connectionTimes = c /\ b.disconnectionTimes = d
    BY UsbOfLists
  <1>8. u.connectionTimes = Append(c, e.connectionTime) /\ u.disconnectionTimes = d
    BY <1>5, <1>7, SessionLists
  <1> HIDE DEF u
  <1>9. /\ w.connectionTimes = Append(c, e.connectionTime)
        /\ w.disconnectionTimes = Append(d, DateOf(pos + 1))
    BY <1>6, <1>8, SessionLists
  <1>10. usbs' = Put(usbs, s, w)
    BY DEF CheckIfDeviceDisconnected, GoneNow, u
  <1> HIDE DEF w
  <1>11. s \in DOMAIN usbs'
    BY <1>10 DEF Put
  <1>12. EntryOf(path)' = EmptyInterface
    BY DEF CheckIfDeviceDisconnected, Initialize, EntryOf, Put
  <1>13. /\ ConnectionsOf(s)' = w.connectionTimes
         /\ DisconnectionsOf(s)' = w.disconnectionTimes
         /\ \A r : r # s => /\ ConnectionsOf(r)' = ConnectionsOf(r)
                            /\ DisconnectionsOf(r)' = DisconnectionsOf(r)
    BY <1>10, PutUsbLists
  <1> QED
    BY <1>3, <1>4, <1>9, <1>11, <1>12, <1>13

\* The lists being of one length, the two times come to stand side by side.
LEMMA DisconnectReports ==
  ASSUME BusInv, NEW path \in PortPaths, CheckIfDeviceDisconnected(path),
         IsOpenStorage(path), NEW s, s = EntryOf(path).serialNumber
  PROVE  /\ s \in DOMAIN usbs'
         /\ \E i \in DOMAIN usbs'[s].disconnectionTimes :
              /\ usbs'[s].connectionTimes[i] = EntryOf(path).connectionTime
              /\ usbs'[s].disconnectionTimes[i] = DateOf(pos + 1)
  <1> DEFINE x == EntryOf(path).connectionTime
             c == ConnectionsOf(s)
             d == DisconnectionsOf(s)
  <1>1. /\ s \in Serials /\ s \in DOMAIN usbs' /\ x \in Times /\ DateOf(pos + 1) \in Times
        /\ ConnectionsOf(s)' = Append(c, x)
        /\ DisconnectionsOf(s)' = Append(d, DateOf(pos + 1))
    BY DisconnectLists
  <1>2. phase = "reading"
    BY BusTypes, ReadLineTyped DEF CheckIfDeviceDisconnected
  <1>3. c \in Seq(Times) /\ d \in Seq(Times) /\ Len(c) = Len(d)
    BY <1>1, <1>2, InvTypes DEF BusInv, IInv, ListsPaired
  <1>4. /\ usbs'[s].connectionTimes = Append(c, x)
        /\ usbs'[s].disconnectionTimes = Append(d, DateOf(pos + 1))
    BY <1>1 DEF ConnectionsOf, DisconnectionsOf
  <1> HIDE DEF c, d, x
  <1>5. /\ Len(d) + 1 \in DOMAIN Append(d, DateOf(pos + 1))
        /\ Append(c, x)[Len(d) + 1] = x
        /\ Append(d, DateOf(pos + 1))[Len(d) + 1] = DateOf(pos + 1)
    BY <1>1, <1>3, AppendFacts
  <1> QED
    BY <1>1, <1>4, <1>5 DEF x

\* A session is appended to those of its device: those before are reported as
\* they were, and it is, if it is clean and of a storage device.
LEMMA AppendedSessionsReported ==
  ASSUME BusInv, [Next]_vars, NEW device \in Devices, NEW session \in Session,
         sessions' = [sessions EXCEPT ![device] = Append(@, session)],
         device.storage /\ session.clean => InResult(usbs', device, session)
  PROVE  sessions' \in [Devices -> Seq(Session)] /\ CleanSessionsAreReported'
  <1>1. sessions \in [Devices -> Seq(Session)]
    BY BusTypes
  <1>2. sessions[device] \in Seq(Session)
    BY <1>1
  <1>3. Append(sessions[device], session) \in Seq(Session)
    BY <1>2, AppendFacts
  <1>4. sessions' \in [Devices -> Seq(Session)]
    BY <1>1, <1>3
  <1>5. ASSUME NEW d \in StorageDevices, NEW i \in DOMAIN sessions'[d], sessions'[d][i].clean
        PROVE  InResult(usbs', d, sessions'[d][i])
    <2>1. d \in Devices /\ d.storage
      BY DEF StorageDevices
    <2>2. ASSUME i \in DOMAIN sessions[d], sessions'[d][i] = sessions[d][i]
          PROVE  InResult(usbs', d, sessions'[d][i])
      <3>1. InResult(usbs, d, sessions[d][i])
        BY <1>5, <2>2 DEF BusInv, CleanSessionsAreReported, IsReported, InResult
      <3>2. InResult(usbs', d, sessions[d][i])
        BY <3>1, StaysReported
      <3> QED
        BY <2>2, <3>2
    <2>3. CASE d # device
      <3>1. sessions'[d] = sessions[d]
        BY <1>1, <2>1, <2>3
      <3> QED
        BY <1>5, <2>2, <3>1
    <2>4. CASE d = device
      <3>1. sessions'[d] = Append(sessions[d], session)
        BY <1>1, <2>1, <2>4
      <3>2. i \in 1..Len(sessions[d]) + 1
        BY <1>2, <1>5, <2>4, <3>1, AppendFacts
      <3>3. CASE i \in 1..Len(sessions[d])
        <4>1. i \in DOMAIN sessions[d] /\ sessions'[d][i] = sessions[d][i]
          BY <1>2, <2>4, <3>1, <3>3, AppendFacts
        <4> QED
          BY <2>2, <4>1
      <3>4. CASE i = Len(sessions[d]) + 1
        <4>1. sessions'[d][i] = session
          BY <1>2, <2>4, <3>1, <3>4, AppendFacts
        <4> QED
          BY <1>5, <2>1, <2>4, <4>1
      <3> QED
        BY <1>2, <2>4, <3>2, <3>3, <3>4
    <2> QED
      BY <2>3, <2>4
  <1> QED
    BY <1>4, <1>5 DEF CleanSessionsAreReported, StorageDevices, IsReported, InResult

\* Once all lines of a clean storage session are read, its entry is open, and
\* holds the serial number and the time.
LEMMA AnnouncedEntry ==
  ASSUME BusInv, phase = "reading", NEW path \in PortPaths,
         bus[path].clean, bus[path].device.storage, Announced(path)
  PROVE  /\ IsOpenStorage(path)
         /\ EntryOf(path).connectionTime = DateOf(bus[path].since)
         /\ EntryOf(path).serialNumber = bus[path].device.serial
  <1>1. EntryMatches(path)
    BY DEF BusInv, CleanPortsMatch
  <1>2. bus[path].announced \in 0..5
    BY BusTypes DEF PortState
  <1>3. Tells(bus[path].device, 5)
    BY DEF Tells, Kinds
  <1>4. 5 \notin Remaining(path)
    BY DEF Announced
  <1>5. bus[path].announced = 5
    BY <1>2, <1>3, <1>4 DEF Remaining
  <1> QED
    BY <1>1, <1>5 DEF EntryMatches, IsOpenStorage

LEMMA UnplugInv ==
  ASSUME BusInv, NEW path \in PortPaths, Unplug(path)
  PROVE  BusInv'
  <1> DEFINE b == bus[path]
             device == b.device
  <1>1. b \in PortState /\ device \in Devices /\ b.since \in Times /\ b.clean \in BOOLEAN
    <2>1. b \in PortState /\ device \in Devices
      BY BusTypes DEF BusInv, Occupied, Unplug
    <2> QED
      BY <2>1 DEF PortState
  <1>2. SetPort(path, FreePort)
    BY DEF Unplug
  <1>3. ~FreePort.clean /\ FreePort \in PortState
    BY FreePortFacts
  <1>4. CASE Line("disconnect", path, device)
             /\ sessions' = [sessions EXCEPT ![device] =
                  Append(@, [from |-> b.since, to |-> pos + 1,
                             clean |-> b.clean /\ Announced(path)])]
    <2> DEFINE session == [from |-> b.since, to |-> pos + 1,
                           clean |-> b.clean /\ Announced(path)]
    <2>1. Next
      BY <1>1, <1>4, LineIsNext
    <2>2. phase = "reading" /\ pos + 1 \in Times /\ CheckIfDeviceDisconnected(path)
      BY <1>4, LineReads, BusTypes, ReadLineTyped DEF Line
    <2>3. session \in Session
      <3>1. (b.clean /\ Announced(path)) \in BOOLEAN
        BY DEF Announced
      <3> QED
        BY <1>1, <2>2, <3>1 DEF Session
    <2>4. /\ session.from = b.since /\ session.to = pos + 1
          /\ session.clean => b.clean /\ Announced(path)
      OBVIOUS
    <2>5. sessions' = [sessions EXCEPT ![device] = Append(@, session)]
      BY <1>4
    <2> HIDE DEF session
    <2>6. ASSUME device.storage, session.clean PROVE InResult(usbs', device, session)
      <3> DEFINE e == EntryOf(path)
      <3>1. /\ IsOpenStorage(path)
            /\ e.connectionTime = DateOf(b.since)
            /\ e.serialNumber = device.serial
        BY <2>2, <2>4, <2>6, AnnouncedEntry
      <3> HIDE DEF e
      <3>2. /\ device.serial \in DOMAIN usbs'
            /\ \E i \in DOMAIN usbs'[device.serial].disconnectionTimes :
                 /\ usbs'[device.serial].connectionTimes[i] = DateOf(b.since)
                 /\ usbs'[device.serial].disconnectionTimes[i] = DateOf(pos + 1)
        BY <2>2, <3>1, DisconnectReports DEF e
      <3> QED
        BY <2>4, <3>2 DEF InResult
    <2>7. sessions' \in [Devices -> Seq(Session)] /\ CleanSessionsAreReported'
      BY <1>1, <2>1, <2>3, <2>5, <2>6, AppendedSessionsReported
    <2> QED
      BY <1>2, <1>3, <1>4, <2>1, <2>7, LineInv
  <1>5. CASE OtherLine
             /\ sessions' = [sessions EXCEPT ![device] =
                  Append(@, [from |-> b.since, to |-> pos + 1, clean |-> FALSE])]
    <2> DEFINE session == [from |-> b.since, to |-> pos + 1, clean |-> FALSE]
    <2>1. Next
      BY <1>5 DEF Next
    <2>2. pos + 1 \in Times
      BY <1>5, LineReads, BusTypes, ReadLineTyped
    <2>3. session \in Session /\ ~session.clean
      BY <1>1, <2>2 DEF Session
    <2>4. sessions' = [sessions EXCEPT ![device] = Append(@, session)]
      BY <1>5
    <2> HIDE DEF session
    <2>5. sessions' \in [Devices -> Seq(Session)] /\ CleanSessionsAreReported'
      BY <1>1, <2>1, <2>3, <2>4, AppendedSessionsReported
    <2> QED
      BY <1>2, <1>3, <1>5, <2>1, <2>5, LineInv
  <1> QED
    BY <1>4, <1>5 DEF Unplug

-----------------------------------------------------------------------------
(***************************************************************************)
(* The theorems.                                                           *)
(***************************************************************************)
LEMMA BusStepInv ==
  ASSUME BusInv, [BusNext]_busVars
  PROVE  BusInv'
  <1>1. ASSUME NEW path \in PortPaths, BusLineAt(path) PROVE BusInv'
    BY <1>1, PlugInv, AnnounceInv, GiveUpInv, UnplugInv DEF BusLineAt
  <1>2. CASE (EndOfFile \/ Save) /\ UNCHANGED <<bus, sessions>>
    <2>1. Next
      BY <1>2 DEF Next
    <2>2. IInv' /\ TypeOK' /\ KeyIsSerial'
      BY <2>1, BusTypes, StepInv, KeyIsSerialStep DEF BusInv, IInv
    <2>3. phase' # "reading"
      BY <1>2 DEF EndOfFile, Save, SkipEmptyInterface, SaveInterface, FollowFreedNode,
                  Return, AtOpenEntry
    <2>4. CleanPortsMatch'
      BY <2>3 DEF CleanPortsMatch
    <2>5. CleanSessionsAreReported'
      BY <1>2, <2>1, SessionsStayReported
    <2>6. BusTypeOK' /\ Occupied'
      BY <1>2, <2>2 DEF BusInv, BusTypeOK, Occupied
    <2> QED
      BY <2>2, <2>4, <2>5, <2>6 DEF BusInv
  <1>3. CASE UNCHANGED busVars
    <2>1. UNCHANGED vars /\ UNCHANGED <<bus, sessions>>
      BY <1>3 DEF busVars
    <2>2. UNCHANGED phase /\ UNCHANGED interfaces /\ UNCHANGED usbs
      BY <2>1 DEF vars
    <2>3. IInv' /\ TypeOK' /\ KeyIsSerial'
      BY <2>1, BusTypes, StepInv, KeyIsSerialStep DEF BusInv, IInv
    <2>4. BusTypeOK' /\ Occupied'
      BY <2>1, <2>3 DEF BusInv, BusTypeOK, Occupied
    <2>5. CleanPortsMatch'
      BY <2>1, <2>2 DEF BusInv, CleanPortsMatch, EntryMatches, IsKnown, EntryOf
    <2>6. CleanSessionsAreReported'
      BY <2>1, SessionsStayReported
    <2> QED
      BY <2>3, <2>4, <2>5, <2>6 DEF BusInv
  <1> QED
    BY <1>1, <1>2, <1>3 DEF BusNext

LEMMA BusInvariance == BusSpec => []BusInv
  BY BusInitInv, BusStepInv, PTL DEF BusSpec

LEMMA BusNextIsNext ==
  ASSUME BusInv, [BusNext]_busVars
  PROVE  [Next]_vars
  <1>1. ASSUME NEW path \in PortPaths, NEW device \in Devices, Plug(path, device)
        PROVE  Next
    BY <1>1, LineIsNext DEF Plug, Write, Next
  <1>2. ASSUME NEW path \in PortPaths, Announce(path) PROVE Next
    <2>1. bus[path].device \in Devices
      BY <1>2 DEF BusInv, Occupied, Announce
    <2>2. PICK k \in Remaining(path) : Line(Kinds[k], path, bus[path].device) \/ OtherLine
      BY <1>2 DEF Announce, Write
    <2>3. Tells(bus[path].device, k)
      BY DEF Remaining
    <2> QED
      BY <2>1, <2>2, <2>3, LineIsNext DEF Next, Tells
  <1>3. ASSUME NEW path \in PortPaths, Unplug(path) PROVE Next
    <2>1. bus[path].device \in Devices
      BY <1>3 DEF BusInv, Occupied, Unplug
    <2> QED
      BY <1>3, <2>1, LineIsNext DEF Unplug, Next
  <1>4. ASSUME NEW path \in PortPaths, GiveUp(path) PROVE Next
    BY <1>4 DEF GiveUp, Next
  <1>5. CASE UNCHANGED busVars
    BY <1>5 DEF busVars
  <1> QED
    BY <1>1, <1>2, <1>3, <1>4, <1>5 DEF BusNext, BusLineAt, Next

\* What the kernel writes is a log the parser is ready for: what is proved of
\* the parser for any log holds of it reading the kernel's.
THEOREM BusLogIsALog == BusSpec => Spec
  <1>1. BusInit => Init
    BY DEF BusInit
  <1> QED
    BY <1>1, BusNextIsNext, BusInvariance, PTL DEF BusSpec, Spec

\* Whatever the kernel logs, of any devices on any ports, the maps and the
\* record of what happened hold what their types say.
THEOREM BusTypeCorrect == BusSpec => []BusTypeOK
  <1>1. BusInv => BusTypeOK
    BY DEF BusInv
  <1> QED
    BY <1>1, BusInvariance, PTL

\* Lines lost, devices that fail or leave too early, hubs, ports that share an
\* interface id: none of them takes from getUSBsInfo a storage session that
\* began on a blank entry and whose own lines were all read.
THEOREM CleanSessions == BusSpec => []CleanSessionsAreReported
  <1>1. BusInv => CleanSessionsAreReported
    BY DEF BusInv
  <1> QED
    BY <1>1, BusInvariance, PTL

-----------------------------------------------------------------------------
(***************************************************************************)
(* On an orderly bus every storage session is clean, and nothing else gets *)
(* into the result.                                                        *)
(***************************************************************************)
StoragePort(p) == \E d \in StorageDevices : p \in d.ports

\* A device is where it goes to.
InPlace == \A p \in PortPaths : bus[p] = FreePort \/ p \in bus[p].device.ports

\* A device on a port has had its "new" line.
Begun == \A p \in PortPaths : bus[p] # FreePort => bus[p].announced >= 1

\* A free port is blank.  What is on a port is clean, or the map does not hold
\* the port: the log with its "new" line was rotated away.
StoragePortsClean ==
  phase = "reading" =>
    \A p \in PortPaths : StoragePort(p) =>
      /\ bus[p] = FreePort => IsBlank(p)
      /\ bus[p] # FreePort => bus[p].clean \/ ~IsKnown(p)

\* The entry of a port that takes no storage device is never marked as one.
Unmarked(p) == IsKnown(p) => ~EntryOf(p).isStorageDevice

OtherPortsUnmarked ==
  phase = "reading" => \A p \in PortPaths : StoragePort(p) \/ Unmarked(p)

\* ReportedSessionsHappened, said of the lists.
IntervalsHappened ==
  \A s \in Serials : \A i \in DOMAIN DisconnectionsOf(s) :
    \E d \in StorageDevices : \E j \in DOMAIN sessions[d] :
      /\ d.serial = s
      /\ ConnectionsOf(s)[i] = DateOf(sessions[d][j].from)
      /\ DisconnectionsOf(s)[i] = DateOf(sessions[d][j].to)

OrderlyInv ==
  /\ BusInv
  /\ InPlace
  /\ Begun
  /\ StoragePortsClean
  /\ OtherPortsUnmarked
  /\ IntervalsHappened

LEMMA OrderlyInitInv == BusInit => OrderlyInv
  <1> SUFFICES ASSUME BusInit PROVE OrderlyInv
    OBVIOUS
  <1>1. \A p \in PortPaths : bus[p] = FreePort /\ ~IsKnown(p)
    BY DEF BusInit, Init, IsKnown
  <1>2. \A s : DisconnectionsOf(s) = <<>>
    BY DEF BusInit, Init, DisconnectionsOf
  <1>3. InPlace /\ Begun /\ StoragePortsClean /\ OtherPortsUnmarked
    BY <1>1 DEF InPlace, Begun, StoragePortsClean, OtherPortsUnmarked, IsBlank, Unmarked
  <1>4. IntervalsHappened
    BY <1>2 DEF IntervalsHappened
  <1> QED
    BY <1>3, <1>4, BusInitInv DEF OrderlyInv

\* On an orderly bus a line is about one port and no other.
LEMMA OrderlyElsewhere ==
  ASSUME OrderlyBus, OrderlyInv, phase = "reading",
         NEW path \in PortPaths, NEW state, SetPort(path, state), KeptElsewhere(path),
         state = FreePort \/ (path \in state.device.ports /\ state.announced >= 1),
         StoragePort(path) => /\ state = FreePort => IsBlank(path)'
                              /\ state # FreePort => state.clean \/ ~IsKnown(path)',
         StoragePort(path) \/ Unmarked(path)'
  PROVE  InPlace' /\ Begun' /\ StoragePortsClean' /\ OtherPortsUnmarked'
  <1>1. \A p \in PortPaths \ {path} : InterfaceId(p) # InterfaceId(path)
    BY DEF OrderlyBus
  <1>2. bus'[path] = state /\ \A p \in PortPaths \ {path} : bus'[p] = bus[p]
    BY <1>1 DEF SetPort
  <1>3. ASSUME NEW p \in PortPaths \ {path}
        PROVE  /\ IsKnown(p)' <=> IsKnown(p)
               /\ IsKnown(p) => EntryOf(p)' = EntryOf(p)
    BY <1>1 DEF KeptElsewhere, IsKnown, EntryOf
  <1>4. ASSUME NEW p \in PortPaths \ {path}
        PROVE  /\ IsBlank(p) => IsBlank(p)'
               /\ Unmarked(p) => Unmarked(p)'
    BY <1>3 DEF IsBlank, Unmarked
  <1>5. InPlace' /\ Begun'
    BY <1>2 DEF OrderlyInv, InPlace, Begun
  <1>6. StoragePortsClean'
    BY <1>2, <1>3, <1>4 DEF OrderlyInv, StoragePortsClean, StoragePort
  <1>7. OtherPortsUnmarked'
    BY <1>4 DEF OrderlyInv, OtherPortsUnmarked, StoragePort
  <1> QED
    BY <1>5, <1>6, <1>7

\* No line but that of the storage driver marks an entry, and an entry that is
\* not marked gives nothing to the result.
LEMMA LineUnmarked ==
  ASSUME BusInv, NEW kind, NEW path \in PortPaths, NEW device \in Devices,
         Line(kind, path, device), kind # "storage", Unmarked(path)
  PROVE  Unmarked(path)' /\ usbs' = usbs
  <1>1. IsKnown(path) => EntryOf(path) \in UsbInterface
    BY EntryTyped, BusTypes
  <1>2. ASSUME NEW e, Amend(path, e), IsKnown(path) => e.isStorageDevice = EntryOf(path).isStorageDevice
        PROVE  Unmarked(path)' /\ usbs' = usbs
    <2>1. CASE IsKnown(path)
      BY <1>2, <2>1, AmendsEntry DEF Unmarked, Amend
    <2>2. CASE ~IsKnown(path)
      BY <1>2, <2>2 DEF Unmarked, Amend, IsKnown
    <2> QED
      BY <2>1, <2>2
  <1>3. CASE CheckIfNewDeviceConnected(path)
    <2> DEFINE entry == IF IsKnown(path) THEN EntryOf(path) ELSE EmptyInterface
    <2>1. entry \in UsbInterface /\ ~entry.isStorageDevice
      BY <1>1, EmptyInterfaceTyped DEF Unmarked, EmptyInterface
    <2>2. ~AnnouncedNow(entry).isStorageDevice
      BY <2>1 DEF AnnouncedNow, UsbInterface
    <2> HIDE DEF entry
    <2>3. interfaces' = interfaces \/ interfaces' = Put(interfaces, InterfaceId(path), AnnouncedNow(entry))
      BY <1>3 DEF CheckIfNewDeviceConnected, entry
    <2>4. Unmarked(path)'
      BY <2>2, <2>3 DEF Unmarked, IsKnown, EntryOf, Put
    <2> QED
      BY <1>3, <2>4 DEF CheckIfNewDeviceConnected
  <1>4. CASE IdsFound(path, device.vendor, device.model)
    <2>1. PICK v, p : Amend(path, [EntryOf(path) EXCEPT !.idVendor = v, !.idProduct = p])
      BY <1>4 DEF IdsFound
    <2> QED
      BY <1>1, <1>2, <2>1 DEF UsbInterface
  <1>5. CASE ProductNameFound(path, device.product)
    BY <1>1, <1>2, <1>5 DEF ProductNameFound, UsbInterface
  <1>6. CASE SerialNumberFound(path, device.serial)
    BY <1>1, <1>2, <1>6 DEF SerialNumberFound, UsbInterface
  <1>7. CASE CheckIfDeviceDisconnected(path)
    <2>1. ~IsOpenStorage(path)
      BY DEF Unmarked, IsOpenStorage
    <2> QED
      BY <1>7, <2>1 DEF CheckIfDeviceDisconnected, Unmarked, IsKnown, EntryOf
  <1> QED
    BY <1>3, <1>4, <1>5, <1>6, <1>7 DEF Line

\* While usb_map stays as it is, so does what it tells of the sessions.
LEMMA IntervalsStay ==
  ASSUME IntervalsHappened, UNCHANGED usbs, UNCHANGED sessions
  PROVE  IntervalsHappened'
  BY DEF IntervalsHappened, ConnectionsOf, DisconnectionsOf

LEMMA OrderlyPlug ==
  ASSUME OrderlyBus, OrderlyInv, NEW path \in PortPaths, NEW device \in Devices,
         Plug(path, device)
  PROVE  OrderlyInv'
  <1> DEFINE state == [device |-> device, announced |-> 1, since |-> pos + 1,
                       clean |-> MatchesNew(path) /\ IsBlank(path)]
  <1>1. BusInv /\ BusInv'
    BY PlugInv DEF OrderlyInv
  <1>2. Line("new", path, device) /\ SetPort(path, state) /\ UNCHANGED sessions
    BY DEF Plug, Write, OrderlyBus
  <1>3. path \in device.ports /\ bus[path] = FreePort
    BY DEF Plug
  <1>4. phase = "reading" /\ KeptElsewhere(path) /\ CheckIfNewDeviceConnected(path)
    BY <1>1, <1>2, LineReads, LineKeepsElsewhere, BusTypes, ReadLineTyped DEF Line
  <1>5. UNCHANGED usbs
    BY <1>4 DEF CheckIfNewDeviceConnected
  <1>6. state # FreePort /\ path \in state.device.ports /\ state.announced >= 1
    <2>1. state.announced = 1 /\ FreePort.announced = 0 /\ state.device = device
      BY DEF FreePort
    <2> HIDE DEF state
    <2> QED
      BY <1>3, <2>1
  <1>7. StoragePort(path) => state.clean
    <2> SUFFICES ASSUME StoragePort(path) PROVE state.clean
      OBVIOUS
    <2>1. MatchesNew(path)
      BY DEF StoragePort, OrderlyBus
    <2>2. IsBlank(path)
      BY <1>3, <1>4 DEF OrderlyInv, StoragePortsClean
    <2> QED
      BY <2>1, <2>2
  <1>8. StoragePort(path) \/ Unmarked(path)'
    BY <1>1, <1>2, <1>4, LineUnmarked DEF OrderlyInv, OtherPortsUnmarked
  <1> HIDE DEF state
  <1>9. InPlace' /\ Begun' /\ StoragePortsClean' /\ OtherPortsUnmarked'
    BY <1>2, <1>4, <1>6, <1>7, <1>8, OrderlyElsewhere
  <1>10. IntervalsHappened'
    BY <1>2, <1>5, IntervalsStay DEF OrderlyInv
  <1> QED
    BY <1>1, <1>9, <1>10 DEF OrderlyInv

LEMMA OrderlyAnnounce ==
  ASSUME OrderlyBus, OrderlyInv, NEW path \in PortPaths, Announce(path)
  PROVE  OrderlyInv'
  <1> DEFINE b == bus[path]
  <1>1. BusInv /\ BusInv'
    BY AnnounceInv DEF OrderlyInv
  <1>2. /\ b \in PortState /\ b.device \in Devices /\ b # FreePort
        /\ path \in b.device.ports /\ UNCHANGED sessions
    BY <1>1, BusTypes DEF BusInv, Occupied, OrderlyInv, InPlace, Announce
  <1>3. PICK k \in Remaining(path) :
          Line(Kinds[k], path, b.device) /\ SetPort(path, [b EXCEPT !.announced = k])
    BY DEF Announce, Write, OrderlyBus
  <1> DEFINE state == [b EXCEPT !.announced = k]
  <1>4. k \in b.announced + 1..5 /\ Tells(b.device, k) /\ b.announced \in 0..5
    BY <1>2, <1>3 DEF Remaining, PortState
  <1>5. k \in 1..5
    BY <1>4
  <1>6. /\ state.device = b.device /\ state.clean = b.clean /\ state.announced = k
    BY <1>2, <1>5 DEF PortState
  <1>7. state # FreePort
    <2>1. FreePort.announced = 0
      BY DEF FreePort
    <2> HIDE DEF state
    <2> QED
      BY <1>5, <1>6, <2>1
  <1>8. phase = "reading" /\ KeptElsewhere(path)
    BY <1>1, <1>3, LineReads, LineKeepsElsewhere, BusTypes, ReadLineTyped
  <1>9. StoragePort(path) => b.clean \/ ~IsKnown(path)'
    <2>1. StoragePort(path) => b.clean \/ ~IsKnown(path)
      BY <1>2, <1>8 DEF OrderlyInv, StoragePortsClean
    <2>2. Kinds[k] # "new" /\ Kinds[k] # "disconnect"
      <3>1. b.announced >= 1
        BY <1>2 DEF OrderlyInv, Begun
      <3>2. k \in 2..5
        BY <1>4, <3>1
      <3> QED
        BY <3>2 DEF Kinds
    <2>3. IsKnown(path)' => IsKnown(path)
      BY <1>3, <2>2 DEF Line, IdsFound, ProductNameFound, SerialNumberFound,
                        CheckIfStorageDevice, Amend, IsKnown, Put
    <2> QED
      BY <2>1, <2>3
  <1>10. StoragePort(path) \/ Unmarked(path)'
    <2> SUFFICES ASSUME ~StoragePort(path) PROVE Unmarked(path)'
      OBVIOUS
    <2>1. ~b.device.storage
      BY <1>2 DEF StoragePort, StorageDevices
    <2>2. Kinds[k] # "storage"
      BY <1>4, <2>1 DEF Tells
    <2> QED
      BY <1>1, <1>2, <1>3, <1>8, <2>2, LineUnmarked DEF OrderlyInv, OtherPortsUnmarked
  <1>11. UNCHANGED usbs
    <2>1. Kinds[k] # "disconnect"
      BY <1>5 DEF Kinds
    <2> QED
      BY <1>3, <2>1 DEF Line, CheckIfNewDeviceConnected, IdsFound, ProductNameFound,
                        SerialNumberFound, CheckIfStorageDevice, Amend
  <1> HIDE DEF state
  <1>12. SetPort(path, state)
    BY <1>3 DEF state
  <1>13. InPlace' /\ Begun' /\ StoragePortsClean' /\ OtherPortsUnmarked'
    BY <1>2, <1>5, <1>6, <1>7, <1>8, <1>9, <1>10, <1>12, OrderlyElsewhere
  <1>14. IntervalsHappened'
    BY <1>2, <1>11, IntervalsStay DEF OrderlyInv
  <1> QED
    BY <1>1, <1>13, <1>14 DEF OrderlyInv

\* The sessions that have ended stay, in their order, when another one ends.
LEMMA SessionsStay ==
  ASSUME BusInv, NEW device \in Devices, NEW session \in Session,
         sessions' = [sessions EXCEPT ![device] = Append(@, session)]
  PROVE  /\ \A e \in Devices : \A j \in DOMAIN sessions[e] :
              j \in DOMAIN sessions'[e] /\ sessions'[e][j] = sessions[e][j]
         /\ \A e \in Devices \ {device} : sessions'[e] = sessions[e]
         /\ sessions[device] \in Seq(Session)
         /\ sessions'[device] = Append(sessions[device], session)
  <1>1. sessions \in [Devices -> Seq(Session)]
    BY BusTypes
  <1>2. /\ sessions[device] \in Seq(Session)
        /\ sessions'[device] = Append(sessions[device], session)
        /\ \A e \in Devices \ {device} : sessions'[e] = sessions[e]
    BY <1>1
  <1>3. /\ DOMAIN sessions[device] = 1..Len(sessions[device])
        /\ Len(sessions[device]) \in Nat
        /\ DOMAIN sessions'[device] = 1..Len(sessions[device]) + 1
        /\ \A j \in 1..Len(sessions[device]) : sessions'[device][j] = sessions[device][j]
    BY <1>2, AppendFacts
  <1>4. ASSUME NEW e \in Devices, NEW j \in DOMAIN sessions[e]
        PROVE  j \in DOMAIN sessions'[e] /\ sessions'[e][j] = sessions[e][j]
    <2>1. CASE e = device
      BY <1>3, <1>4, <2>1
    <2>2. CASE e # device
      BY <1>2, <1>4, <2>2
    <2> QED
      BY <2>1, <2>2
  <1> QED
    BY <1>2, <1>4

\* The disconnect line of a storage port that the map holds adds one interval,
\* and it is the session that ends there.
LEMMA OrderlyUnplugStorage ==
  ASSUME OrderlyBus, OrderlyInv, NEW path \in PortPaths, Unplug(path), StoragePort(path),
         IsKnown(path)
  PROVE  IsBlank(path)' /\ IntervalsHappened'
  <1> DEFINE b == bus[path]
             device == b.device
             x == EntryOf(path).connectionTime
             y == DateOf(pos + 1)
             session == [from |-> b.since, to |-> pos + 1,
                         clean |-> b.clean /\ Announced(path)]
             old == sessions[device]
  <1>1. BusInv
    BY DEF OrderlyInv
  <1>2. Line("disconnect", path, device) /\ b # FreePort
        /\ sessions' = [sessions EXCEPT ![device] = Append(@, session)]
    BY DEF Unplug, OrderlyBus
  <1>3. phase = "reading" /\ CheckIfDeviceDisconnected(path)
    BY <1>1, <1>2, LineReads, BusTypes, ReadLineTyped DEF Line
  <1>4. device \in Devices /\ path \in device.ports
    BY <1>1, <1>2 DEF BusInv, Occupied, OrderlyInv, InPlace
  <1>5. device \in StorageDevices /\ device.storage
    BY <1>4 DEF OrderlyBus, StoragePort, StorageDevices
  <1>6. b.clean /\ Announced(path)
    <2>1. b.clean
      BY <1>2, <1>3 DEF OrderlyInv, StoragePortsClean
    <2>2. Announced(path)
      BY <1>2 DEF Unplug, OrderlyBus
    <2> QED
      BY <2>1, <2>2
  <1>7. IsOpenStorage(path) /\ x = DateOf(b.since) /\ EntryOf(path).serialNumber = device.serial
    BY <1>1, <1>3, <1>5, <1>6, AnnouncedEntry
  <1>0. PICK s : s = device.serial
    OBVIOUS
  <1> DEFINE c == ConnectionsOf(s)
             d == DisconnectionsOf(s)
  <1>8. /\ s \in Serials /\ x \in Times /\ y \in Times
        /\ ConnectionsOf(s)' = Append(c, x) /\ DisconnectionsOf(s)' = Append(d, y)
        /\ \A r : r # s => /\ ConnectionsOf(r)' = ConnectionsOf(r)
                           /\ DisconnectionsOf(r)' = DisconnectionsOf(r)
        /\ EntryOf(path)' = EmptyInterface
    BY <1>0, <1>1, <1>3, <1>7, DisconnectLists
  <1>9. c \in Seq(Times) /\ d \in Seq(Times) /\ Len(c) = Len(d)
    BY <1>1, <1>3, <1>8, BusTypes, InvTypes DEF BusInv, IInv, ListsPaired
  <1>10. session \in Session /\ session.from = b.since /\ session.to = pos + 1
    <2>1. b.since \in Times
      BY <1>1, BusTypes DEF PortState
    <2>2. pos + 1 \in Times
      BY <1>1, <1>2, LineReads, BusTypes, ReadLineTyped
    <2>3. (b.clean /\ Announced(path)) = TRUE
      BY <1>6
    <2> QED
      BY <2>1, <2>2, <2>3 DEF Session
  <1> HIDE DEF session
  <1>11. /\ \A e \in Devices : \A j \in DOMAIN sessions[e] :
              j \in DOMAIN sessions'[e] /\ sessions'[e][j] = sessions[e][j]
         /\ old \in Seq(Session) /\ sessions'[device] = Append(old, session)
    BY <1>1, <1>2, <1>4, <1>10, SessionsStay
  <1>12. Len(old) + 1 \in DOMAIN sessions'[device] /\ sessions'[device][Len(old) + 1] = session
    BY <1>10, <1>11, AppendFacts
  <1> DEFINE Happened(r, i) ==
        \E e \in StorageDevices : \E j \in DOMAIN sessions'[e] :
          /\ e.serial = r
          /\ ConnectionsOf(r)'[i] = DateOf(sessions'[e][j].from)
          /\ DisconnectionsOf(r)'[i] = DateOf(sessions'[e][j].to)
  <1>16. ASSUME NEW r \in Serials, NEW i \in DOMAIN DisconnectionsOf(r),
                ConnectionsOf(r)'[i] = ConnectionsOf(r)[i],
                DisconnectionsOf(r)'[i] = DisconnectionsOf(r)[i]
         PROVE  Happened(r, i)
    <2>1. PICK e \in StorageDevices : \E j \in DOMAIN sessions[e] :
            /\ e.serial = r
            /\ ConnectionsOf(r)[i] = DateOf(sessions[e][j].from)
            /\ DisconnectionsOf(r)[i] = DateOf(sessions[e][j].to)
      BY DEF OrderlyInv, IntervalsHappened
    <2>2. PICK j \in DOMAIN sessions[e] :
            /\ ConnectionsOf(r)[i] = DateOf(sessions[e][j].from)
            /\ DisconnectionsOf(r)[i] = DateOf(sessions[e][j].to)
      BY <2>1
    <2>3. j \in DOMAIN sessions'[e] /\ sessions'[e][j] = sessions[e][j]
      BY <1>11, <2>1 DEF StorageDevices
    <2> QED
      BY <1>16, <2>1, <2>2, <2>3
  <1> HIDE DEF c, d, x, y
  <1>17. ASSUME NEW r \in Serials, NEW i \in DOMAIN DisconnectionsOf(r)'
         PROVE  Happened(r, i)
    <2>1. CASE r # s
      BY <1>8, <1>16, <1>17, <2>1
    <2>2. CASE r = s
      <3>1. /\ Len(d) \in Nat /\ DOMAIN d = 1..Len(d)
            /\ DOMAIN Append(d, y) = 1..Len(d) + 1
            /\ \A n \in 1..Len(d) : Append(d, y)[n] = d[n] /\ Append(c, x)[n] = c[n]
            /\ Append(d, y)[Len(d) + 1] = y /\ Append(c, x)[Len(d) + 1] = x
        BY <1>8, <1>9, AppendFacts
      <3>2. i \in 1..Len(d) + 1
        BY <1>8, <1>17, <2>2, <3>1
      <3>3. CASE i \in 1..Len(d)
        <4>1. i \in DOMAIN DisconnectionsOf(r)
          BY <2>2, <3>1, <3>3 DEF d
        <4>2. /\ ConnectionsOf(s)'[i] = ConnectionsOf(s)[i]
              /\ DisconnectionsOf(s)'[i] = DisconnectionsOf(s)[i]
          BY <1>8, <3>1, <3>3 DEF c, d
        <4> QED
          BY <1>16, <2>2, <4>1, <4>2
      <3>4. CASE i = Len(d) + 1
        <4>1. ConnectionsOf(r)'[i] = x /\ DisconnectionsOf(r)'[i] = y
          BY <1>8, <2>2, <3>1, <3>4
        <4> QED
          BY <1>0, <1>5, <1>7, <1>10, <1>12, <2>2, <4>1 DEF x, y
      <3> QED
        BY <3>1, <3>2, <3>3, <3>4
    <2> QED
      BY <2>1, <2>2
  <1>18. IntervalsHappened'
    BY <1>17 DEF IntervalsHappened, StorageDevices
  <1>19. IsBlank(path)'
    BY <1>8 DEF IsBlank
  <1> QED
    BY <1>18, <1>19

\* ... and that of one it does not hold adds nothing.
LEMMA OrderlyUnplugUnknown ==
  ASSUME OrderlyBus, OrderlyInv, NEW path \in PortPaths, Unplug(path), ~IsKnown(path)
  PROVE  IsBlank(path)' /\ IntervalsHappened'
  <1> DEFINE b == bus[path]
             session == [from |-> b.since, to |-> pos + 1,
                         clean |-> b.clean /\ Announced(path)]
  <1>1. BusInv /\ b.device \in Devices /\ b \in PortState
    BY BusTypes DEF OrderlyInv, BusInv, Occupied, Unplug
  <1>2. /\ CheckIfDeviceDisconnected(path)
        /\ sessions' = [sessions EXCEPT ![b.device] = Append(@, session)]
    BY DEF Unplug, OrderlyBus, Line
  <1>3. interfaces' = interfaces /\ usbs' = usbs
    BY <1>2 DEF CheckIfDeviceDisconnected, IsOpenStorage
  <1>4. session \in Session
    <2>1. (b.clean /\ Announced(path)) \in BOOLEAN
      BY DEF Announced
    <2>2. b.since \in Times /\ pos + 1 \in Times
      BY <1>1, <1>2, BusTypes, ReadLineTyped DEF PortState, CheckIfDeviceDisconnected
    <2> QED
      BY <2>1, <2>2 DEF Session
  <1> HIDE DEF session
  <1>5. \A e \in Devices : \A j \in DOMAIN sessions[e] :
          j \in DOMAIN sessions'[e] /\ sessions'[e][j] = sessions[e][j]
    BY <1>1, <1>2, <1>4, SessionsStay
  <1>6. ASSUME NEW r \in Serials, NEW i \in DOMAIN DisconnectionsOf(r)
        PROVE  \E d \in StorageDevices : \E j \in DOMAIN sessions'[d] :
                 /\ d.serial = r
                 /\ ConnectionsOf(r)[i] = DateOf(sessions'[d][j].from)
                 /\ DisconnectionsOf(r)[i] = DateOf(sessions'[d][j].to)
    <2>1. PICK d \in StorageDevices : \E j \in DOMAIN sessions[d] :
            /\ d.serial = r
            /\ ConnectionsOf(r)[i] = DateOf(sessions[d][j].from)
            /\ DisconnectionsOf(r)[i] = DateOf(sessions[d][j].to)
      BY DEF OrderlyInv, IntervalsHappened
    <2> QED
      BY <1>5, <2>1 DEF StorageDevices
  <1>7. IntervalsHappened'
    BY <1>3, <1>6 DEF IntervalsHappened, ConnectionsOf, DisconnectionsOf, StorageDevices
  <1> QED
    BY <1>3, <1>7 DEF IsBlank, IsKnown

LEMMA OrderlyUnplug ==
  ASSUME OrderlyBus, OrderlyInv, NEW path \in PortPaths, Unplug(path)
  PROVE  OrderlyInv'
  <1> DEFINE b == bus[path]
             session == [from |-> b.since, to |-> pos + 1,
                         clean |-> b.clean /\ Announced(path)]
  <1>1. BusInv /\ BusInv'
    BY UnplugInv DEF OrderlyInv
  <1>2. /\ Line("disconnect", path, b.device) /\ b # FreePort /\ SetPort(path, FreePort)
        /\ sessions' = [sessions EXCEPT ![b.device] = Append(@, session)]
    BY DEF Unplug, OrderlyBus
  <1>3. phase = "reading" /\ KeptElsewhere(path)
    BY <1>1, <1>2, LineReads, LineKeepsElsewhere, BusTypes, ReadLineTyped
  <1>4. b.device \in Devices /\ path \in b.device.ports
    BY <1>1, <1>2 DEF BusInv, Occupied, OrderlyInv, InPlace
  <1>5. CASE StoragePort(path)
    <2>1. IsBlank(path)' /\ IntervalsHappened'
      BY <1>5, OrderlyUnplugStorage, OrderlyUnplugUnknown
    <2>2. InPlace' /\ Begun' /\ StoragePortsClean' /\ OtherPortsUnmarked'
      BY <1>2, <1>3, <1>5, <2>1, OrderlyElsewhere
    <2> QED
      BY <1>1, <2>1, <2>2 DEF OrderlyInv
  <1>6. CASE ~StoragePort(path)
    <2>1. b.device \notin StorageDevices
      BY <1>4, <1>6 DEF StoragePort
    <2>2. Unmarked(path)' /\ usbs' = usbs
      BY <1>1, <1>2, <1>3, <1>4, <1>6, LineUnmarked DEF OrderlyInv, OtherPortsUnmarked
    <2>3. InPlace' /\ Begun' /\ StoragePortsClean' /\ OtherPortsUnmarked'
      BY <1>2, <1>3, <1>6, <2>2, OrderlyElsewhere
    <2> HIDE DEF session
    <2>4. \A d \in StorageDevices : sessions'[d] = sessions[d]
      BY <1>1, <1>2, <2>1, BusTypes DEF StorageDevices
    <2>5. \A r : /\ ConnectionsOf(r)' = ConnectionsOf(r)
                 /\ DisconnectionsOf(r)' = DisconnectionsOf(r)
      BY <2>2, QuietLists
    <2>6. IntervalsHappened'
      BY <2>4, <2>5 DEF OrderlyInv, IntervalsHappened, StorageDevices
    <2> QED
      BY <1>1, <2>3, <2>6 DEF OrderlyInv
  <1> QED
    BY <1>5, <1>6

\* The saving loop adds connections to the lists, and no disconnection.
LEMMA SaveKeepsIntervals ==
  ASSUME BusInv, IntervalsHappened, EndOfFile \/ Save, UNCHANGED sessions
  PROVE  IntervalsHappened'
  <1>1. CASE UNCHANGED usbs
    BY <1>1, IntervalsStay
  <1>2. CASE SaveInterface \/ FollowFreedNode
    <2>1. TypeOK /\ IInv
      BY BusTypes DEF BusInv
    <2>2. Saved(cursor)
      BY <1>2, <2>1, CursorTyped
         DEF SaveInterface, Initialize, FollowFreedNode, AtOpenEntry, Saved, Emptied
    <2>3. PICK id, s : Saved(id) /\ s = interfaces[id].serialNumber
      BY <2>2
    <2>4. /\ ConnectionsOf(s)' \in {ConnectionsOf(s),
                                    Append(ConnectionsOf(s), interfaces[id].connectionTime)}
          /\ \A r : DisconnectionsOf(r)' = DisconnectionsOf(r)
          /\ \A r : r # s => ConnectionsOf(r)' = ConnectionsOf(r)
      BY <2>1, <2>3, SavedLists
    <2>5. interfaces[id].connectionTime \in Times
      BY <2>1, <2>3, EmptiedEntry DEF Saved
    <2>6. ASSUME NEW r \in Serials, NEW i \in DOMAIN DisconnectionsOf(r)
          PROVE  ConnectionsOf(r)'[i] = ConnectionsOf(r)[i]
      <3>1. ConnectionsOf(r) \in Seq(Times) /\ DisconnectionsOf(r) \in Seq(Times)
        BY <2>1, InvTypes
      <3>2. Len(DisconnectionsOf(r)) <= Len(ConnectionsOf(r))
        BY <2>1 DEF IInv, ListsPaired, Paired
      <3>3. i \in 1..Len(ConnectionsOf(r))
        BY <2>6, <3>1, <3>2
      <3> QED
        BY <2>4, <2>5, <3>1, <3>3, AppendFacts
    <2> QED
      BY <2>4, <2>6 DEF IntervalsHappened
  <1> QED
    BY <1>1, <1>2 DEF EndOfFile, Save, SkipEmptyInterface, Return

LEMMA OrderlyStepInv ==
  ASSUME OrderlyBus, OrderlyInv, [BusNext]_busVars
  PROVE  OrderlyInv'
  <1>1. ASSUME NEW path \in PortPaths, BusLineAt(path) PROVE OrderlyInv'
    <2>1. ~GiveUp(path)
      BY DEF GiveUp, OrderlyBus
    <2> QED
      BY <1>1, <2>1, OrderlyPlug, OrderlyAnnounce, OrderlyUnplug DEF BusLineAt
  <1>2. CASE (EndOfFile \/ Save) /\ UNCHANGED <<bus, sessions>>
    <2>1. BusInv /\ BusInv'
      BY <1>2, BusStepInv DEF OrderlyInv, BusNext
    <2>2. phase' # "reading"
      BY <1>2 DEF EndOfFile, Save, SkipEmptyInterface, SaveInterface, FollowFreedNode,
                  Return, AtOpenEntry
    <2>3. InPlace' /\ Begun'
      BY <1>2 DEF OrderlyInv, InPlace, Begun
    <2>4. StoragePortsClean' /\ OtherPortsUnmarked'
      BY <2>2 DEF StoragePortsClean, OtherPortsUnmarked
    <2>5. IntervalsHappened'
      BY <1>2, <2>1, SaveKeepsIntervals DEF OrderlyInv
    <2> QED
      BY <2>1, <2>3, <2>4, <2>5 DEF OrderlyInv
  <1>3. CASE UNCHANGED busVars
    <2>1. BusInv'
      BY <1>3, BusStepInv DEF OrderlyInv
    <2>2. UNCHANGED phase /\ UNCHANGED interfaces /\ UNCHANGED usbs
          /\ UNCHANGED bus /\ UNCHANGED sessions
      BY <1>3 DEF busVars, vars
    <2>3. InPlace' /\ Begun' /\ IntervalsHappened'
      BY <2>2, IntervalsStay DEF OrderlyInv, InPlace, Begun
    <2>4. StoragePortsClean' /\ OtherPortsUnmarked'
      BY <2>2 DEF OrderlyInv, StoragePortsClean, OtherPortsUnmarked, IsBlank, Unmarked,
                  IsKnown, EntryOf
    <2> QED
      BY <2>1, <2>3, <2>4 DEF OrderlyInv
  <1> QED
    BY <1>1, <1>2, <1>3 DEF BusNext

LEMMA OrderlyInvariance == OrderlyBus => (BusSpec => []OrderlyInv)
  <1> SUFFICES ASSUME OrderlyBus PROVE BusSpec => []OrderlyInv
    OBVIOUS
  <1>1. OrderlyInv /\ [BusNext]_busVars => OrderlyInv'
    BY OrderlyStepInv
  <1> QED
    BY <1>1, OrderlyInitInv, PTL DEF BusSpec

-----------------------------------------------------------------------------
(***************************************************************************)
(* As long as the log is not rotated no session of a storage device is     *)
(* missed.                                                                 *)
(***************************************************************************)
AllPortsClean ==
  phase = "reading" =>
    \A p \in PortPaths : (StoragePort(p) /\ bus[p] # FreePort) => bus[p].clean

AllClean ==
  \A d \in StorageDevices : \A i \in DOMAIN sessions[d] : sessions[d][i].clean

WholeInv == AllPortsClean /\ AllClean

LEMMA WholeInit == BusInit => WholeInv
  BY DEF BusInit, WholeInv, AllPortsClean, AllClean, StorageDevices

LEMMA WholeElsewhere ==
  ASSUME OrderlyBus, AllPortsClean, phase = "reading",
         NEW path \in PortPaths, NEW state, SetPort(path, state),
         (StoragePort(path) /\ state # FreePort) => state.clean
  PROVE  AllPortsClean'
  <1>1. bus'[path] = state /\ \A p \in PortPaths \ {path} : bus'[p] = bus[p]
    BY DEF SetPort, OrderlyBus
  <1> QED
    BY <1>1 DEF AllPortsClean, StoragePort, StorageDevices

LEMMA WholePlug ==
  ASSUME OrderlyBus, OrderlyInv, WholeInv, NEW path \in PortPaths, NEW device \in Devices,
         Plug(path, device)
  PROVE  WholeInv'
  <1> DEFINE state == [device |-> device, announced |-> 1, since |-> pos + 1,
                       clean |-> MatchesNew(path) /\ IsBlank(path)]
  <1>1. /\ Line("new", path, device) /\ SetPort(path, state) /\ bus[path] = FreePort
        /\ UNCHANGED sessions
    BY DEF Plug, Write, OrderlyBus
  <1>2. phase = "reading"
    BY <1>1, LineReads, BusTypes, ReadLineTyped DEF OrderlyInv
  <1>3. StoragePort(path) => MatchesNew(path) /\ IsBlank(path)
    BY <1>1, <1>2 DEF OrderlyInv, StoragePortsClean, StoragePort, OrderlyBus
  <1>4. StoragePort(path) => state.clean
    BY <1>3
  <1> HIDE DEF state
  <1>5. AllPortsClean'
    BY <1>1, <1>2, <1>4, WholeElsewhere DEF WholeInv
  <1> QED
    BY <1>1, <1>5 DEF WholeInv, AllClean, StorageDevices

LEMMA WholeAnnounce ==
  ASSUME OrderlyBus, OrderlyInv, WholeInv, NEW path \in PortPaths, Announce(path)
  PROVE  WholeInv'
  <1> DEFINE b == bus[path]
  <1>1. b \in PortState /\ b # FreePort /\ UNCHANGED sessions
    BY BusTypes DEF OrderlyInv, Announce
  <1>2. PICK k \in Remaining(path) :
          Line(Kinds[k], path, b.device) /\ SetPort(path, [b EXCEPT !.announced = k])
    BY DEF Announce, Write, OrderlyBus
  <1> DEFINE state == [b EXCEPT !.announced = k]
  <1>3. phase = "reading"
    BY <1>2, LineReads, BusTypes, ReadLineTyped DEF OrderlyInv
  <1>4. StoragePort(path) => b.clean
    BY <1>1, <1>3 DEF WholeInv, AllPortsClean
  <1>5. state.clean = b.clean
    BY <1>1 DEF PortState
  <1> HIDE DEF state
  <1>6. SetPort(path, state)
    BY <1>2 DEF state
  <1>7. AllPortsClean'
    BY <1>3, <1>4, <1>5, <1>6, WholeElsewhere DEF WholeInv
  <1> QED
    BY <1>1, <1>7 DEF WholeInv, AllClean, StorageDevices

LEMMA WholeUnplug ==
  ASSUME OrderlyBus, OrderlyInv, WholeInv, NEW path \in PortPaths, Unplug(path)
  PROVE  WholeInv'
  <1> DEFINE b == bus[path]
             device == b.device
             session == [from |-> b.since, to |-> pos + 1,
                         clean |-> b.clean /\ Announced(path)]
             old == sessions[device]
  <1>1. BusInv /\ b \in PortState /\ device \in Devices /\ b # FreePort
        /\ path \in device.ports
    BY BusTypes DEF OrderlyInv, BusInv, Occupied, InPlace, Unplug
  <1>2. /\ Line("disconnect", path, device) /\ SetPort(path, FreePort)
        /\ sessions' = [sessions EXCEPT ![device] = Append(@, session)]
        /\ Announced(path)
    BY <1>1 DEF Unplug, OrderlyBus
  <1>3. phase = "reading" /\ pos + 1 \in Times
    BY <1>1, <1>2, LineReads, BusTypes, ReadLineTyped
  <1>4. AllPortsClean'
    BY <1>2, <1>3, WholeElsewhere DEF WholeInv
  <1>5. ASSUME device \in StorageDevices PROVE b.clean
    BY <1>1, <1>3, <1>5 DEF WholeInv, AllPortsClean, StoragePort
  <1>6. session \in Session
    <2>1. (b.clean /\ Announced(path)) \in BOOLEAN
      BY DEF Announced
    <2> QED
      BY <1>1, <1>3, <2>1 DEF Session, PortState
  <1>7. device \in StorageDevices => session.clean
    BY <1>2, <1>5
  <1> HIDE DEF session
  <1>8. /\ \A e \in Devices \ {device} : sessions'[e] = sessions[e]
        /\ old \in Seq(Session) /\ sessions'[device] = Append(old, session)
    BY <1>1, <1>2, <1>6, SessionsStay
  <1>9. /\ Len(old) \in Nat /\ DOMAIN old = 1..Len(old)
        /\ DOMAIN sessions'[device] = 1..Len(old) + 1
        /\ \A j \in 1..Len(old) : sessions'[device][j] = old[j]
        /\ sessions'[device][Len(old) + 1] = session
    BY <1>6, <1>8, AppendFacts
  <1>10. ASSUME NEW e \in StorageDevices, NEW j \in DOMAIN sessions'[e]
         PROVE  sessions'[e][j].clean
    <2>1. CASE e = device
      <3>1. CASE j \in 1..Len(old)
        BY <1>9, <2>1, <3>1 DEF WholeInv, AllClean
      <3>2. CASE j = Len(old) + 1
        BY <1>7, <1>9, <2>1, <3>2
      <3> QED
        BY <1>9, <1>10, <2>1, <3>1, <3>2
    <2>2. CASE e # device
      BY <1>8, <1>10, <2>2 DEF WholeInv, AllClean, StorageDevices
    <2> QED
      BY <2>1, <2>2
  <1>11. AllClean'
    BY <1>10 DEF AllClean, StorageDevices
  <1> QED
    BY <1>4, <1>11 DEF WholeInv

LEMMA WholeStep ==
  ASSUME OrderlyBus, OrderlyInv, WholeInv, [BusNext]_busVars
  PROVE  WholeInv'
  <1>1. ASSUME NEW path \in PortPaths, BusLineAt(path) PROVE WholeInv'
    <2>1. ~GiveUp(path)
      BY DEF GiveUp, OrderlyBus
    <2> QED
      BY <1>1, <2>1, WholePlug, WholeAnnounce, WholeUnplug DEF BusLineAt
  <1>2. CASE (EndOfFile \/ Save) /\ UNCHANGED <<bus, sessions>>
    <2>1. phase' # "reading"
      BY <1>2 DEF EndOfFile, Save, SkipEmptyInterface, SaveInterface, FollowFreedNode,
                  Return, AtOpenEntry
    <2> QED
      BY <1>2, <2>1 DEF WholeInv, AllPortsClean, AllClean, StorageDevices
  <1>3. CASE UNCHANGED busVars
    BY <1>3 DEF busVars, vars, WholeInv, AllPortsClean, AllClean, StoragePort, StorageDevices
  <1> QED
    BY <1>1, <1>2, <1>3 DEF BusNext

LEMMA WholeInvariance == OrderlyBus => (BusSpec => []WholeInv)
  <1> SUFFICES ASSUME OrderlyBus PROVE BusSpec => []WholeInv
    OBVIOUS
  <1>1. OrderlyInv /\ WholeInv /\ [BusNext]_busVars => WholeInv'
    BY WholeStep
  <1>2. BusSpec => []OrderlyInv
    BY OrderlyInvariance
  <1> QED
    BY <1>1, <1>2, WholeInit, PTL DEF BusSpec

\* On an orderly bus, of any size and with any devices, every session of a
\* storage device that has ended is in the result with its two times.
THEOREM AllReported == OrderlyBus => (BusSpec => []SessionsAreReported)
  <1> SUFFICES ASSUME OrderlyBus PROVE BusSpec => []SessionsAreReported
    OBVIOUS
  <1>1. OrderlyInv /\ WholeInv => SessionsAreReported
    BY DEF OrderlyInv, BusInv, WholeInv, AllClean, CleanSessionsAreReported,
           SessionsAreReported
  <1> QED
    BY <1>1, OrderlyInvariance, WholeInvariance, PTL

LEMMA HappenedFromOrderly ==
  ASSUME OrderlyInv
  PROVE  ReportedSessionsHappened
  <1>1. ASSUME NEW s \in DOMAIN usbs, NEW i \in DOMAIN usbs[s].disconnectionTimes
        PROVE  \E d \in StorageDevices : \E j \in DOMAIN sessions[d] :
                 /\ d.serial = s
                 /\ usbs[s].connectionTimes[i] = DateOf(sessions[d][j].from)
                 /\ usbs[s].disconnectionTimes[i] = DateOf(sessions[d][j].to)
    <2>1. /\ s \in Serials /\ ConnectionsOf(s) = usbs[s].connectionTimes
          /\ DisconnectionsOf(s) = usbs[s].disconnectionTimes
      BY <1>1, BusTypes DEF OrderlyInv, TypeOK, ConnectionsOf, DisconnectionsOf
    <2> QED
      BY <1>1, <2>1 DEF OrderlyInv, IntervalsHappened
  <1> QED
    BY <1>1 DEF ReportedSessionsHappened

\* ... and every interval in the result is a session a storage device really
\* had, under its serial number.
THEOREM AllHappened == OrderlyBus => (BusSpec => []ReportedSessionsHappened)
  <1> SUFFICES ASSUME OrderlyBus PROVE BusSpec => []ReportedSessionsHappened
    OBVIOUS
  <1>1. OrderlyInv => ReportedSessionsHappened
    BY HappenedFromOrderly
  <1> QED
    BY <1>1, OrderlyInvariance, PTL

=============================================================================
