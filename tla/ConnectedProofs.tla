---------------------------- MODULE ConnectedProofs ----------------------------
(***************************************************************************)
(* What is shown as connected is plugged in, and the other way round: on   *)
(* an orderly bus whose storage devices have serial numbers of their own.  *)
(***************************************************************************)
EXTENDS UsbBusProofs

StorageSerials == {d.serial : d \in StorageDevices}

-----------------------------------------------------------------------------
(***************************************************************************)
(* The inductive invariant, in parts.                                      *)
(***************************************************************************)

\* No entry is about anything but a port.
EntriesOfPorts ==
  \A id \in DOMAIN interfaces : \E p \in PortPaths : InterfaceId(p) = id /\ IsKnown(p)

\* usb_map has elements of storage devices only.
UsbsAreStorage == DOMAIN usbs \subseteq StorageSerials

\* While lines are read: an entry is marked as storage by the last line of the
\* announcement, and the entries of other ports have no storage device's serial.
MarkedLast ==
  phase = "reading" =>
    \A p \in PortPaths : (bus[p] # FreePort /\ IsKnown(p) /\ EntryOf(p).isStorageDevice)
                           => bus[p].announced >= 5

OtherSerials ==
  phase = "reading" =>
    \A p \in PortPaths :
      IsKnown(p) => StoragePort(p) \/ EntryOf(p).serialNumber \notin StorageSerials

\* While entries are saved: an entry that is open or an element with a
\* connection more is that of a device plugged in.
OpenIsPlugged ==
  phase # "reading" =>
    \A id \in DOMAIN interfaces : ~interfaces[id].isEmpty =>
      LET e == interfaces[id]
      IN  /\ e.serialNumber \in StorageSerials => OnBus(e.serialNumber) # {}
          /\ e.isStorageDevice => e.serialNumber \in StorageSerials

More(s) == Len(ConnectionsOf(s)) > Len(DisconnectionsOf(s))

MoreIsPlugged ==
  phase # "reading" => \A s \in StorageSerials : More(s) => OnBus(s) # {}

ToldInv ==
  /\ EntriesOfPorts
  /\ UsbsAreStorage
  /\ MarkedLast
  /\ OtherSerials
  /\ OpenIsPlugged
  /\ MoreIsPlugged

LEMMA ToldInit == BusInit => ToldInv
  BY DEF BusInit, Init, ToldInv, EntriesOfPorts, UsbsAreStorage, MarkedLast, OtherSerials,
         OpenIsPlugged, MoreIsPlugged, IsKnown

\* A port is free exactly when none of the devices is there.
LEMMA DeviceThere ==
  ASSUME OrderlyInv, NEW p \in PortPaths, bus[p].device \in Devices
  PROVE  bus[p] # FreePort /\ p \in bus[p].device.ports
  BY DeviceAssumption DEF DeviceAssumption, FreePort, OrderlyInv, InPlace

-----------------------------------------------------------------------------
(***************************************************************************)
(* The lines.                                                              *)
(***************************************************************************)

\* Only the "new" line of a port makes an entry, and its own.
LEMMA LineMakesOwnEntry ==
  ASSUME NEW kind, NEW path \in PortPaths, NEW device,
         Line(kind, path, device), EntriesOfPorts
  PROVE  EntriesOfPorts'
  <1>1. ASSUME NEW id \in DOMAIN interfaces', id # InterfaceId(path)
        PROVE  \E p \in PortPaths : InterfaceId(p) = id /\ IsKnown(p)'
    <2>1. id \in DOMAIN interfaces
      BY <1>1, LineKeepsElsewhere DEF KeptElsewhere
    <2>2. PICK p \in PortPaths : InterfaceId(p) = id /\ IsKnown(p)
      BY <2>1 DEF EntriesOfPorts
    <2> QED
      BY <1>1, <2>2 DEF IsKnown
  <1>2. ASSUME InterfaceId(path) \in DOMAIN interfaces'
        PROVE  \E p \in PortPaths : InterfaceId(p) = InterfaceId(path) /\ IsKnown(p)'
    <2>1. CASE InterfaceId(path) \in DOMAIN interfaces
      <3>1. PICK p \in PortPaths : InterfaceId(p) = InterfaceId(path) /\ IsKnown(p)
        BY <2>1 DEF EntriesOfPorts
      <3> QED
        BY <1>2, <3>1 DEF IsKnown
    <2>2. CASE InterfaceId(path) \notin DOMAIN interfaces
      <3>1. ~IsKnown(path) /\ ~IsOpenStorage(path)
        BY <2>2 DEF IsKnown, IsOpenStorage
      <3>2. interfaces' # interfaces
        BY <1>2, <2>2
      <3>3. CheckIfNewDeviceConnected(path)
        BY <3>1, <3>2
           DEF Line, IdsFound, ProductNameFound, SerialNumberFound, CheckIfStorageDevice,
               CheckIfDeviceDisconnected, Amend
      <3>4. MatchesUsb(path)
        BY <3>2, <3>3 DEF CheckIfNewDeviceConnected, MatchesNew
      <3> QED
        BY <1>2, <3>4 DEF IsKnown
    <2> QED
      BY <2>1, <2>2
  <1> QED
    BY <1>1, <1>2 DEF EntriesOfPorts

\* A line about one port leaves what is said of the others.
LEMMA ToldElsewhere ==
  ASSUME OrderlyBus, OrderlyInv, ToldInv, phase = "reading", phase' = "reading",
         NEW path \in PortPaths, NEW state, SetPort(path, state), KeptElsewhere(path),
         EntriesOfPorts', UsbsAreStorage',
         (state # FreePort /\ IsKnown(path)' /\ EntryOf(path)'.isStorageDevice)
           => state.announced >= 5,
         IsKnown(path)' => StoragePort(path) \/ EntryOf(path)'.serialNumber \notin StorageSerials
  PROVE  ToldInv'
  <1>1. \A p \in PortPaths \ {path} : InterfaceId(p) # InterfaceId(path)
    BY DEF OrderlyBus
  <1>2. bus'[path] = state /\ \A p \in PortPaths \ {path} : bus'[p] = bus[p]
    BY <1>1 DEF SetPort
  <1>3. ASSUME NEW p \in PortPaths \ {path}
        PROVE  /\ IsKnown(p)' <=> IsKnown(p)
               /\ IsKnown(p) => EntryOf(p)' = EntryOf(p)
    BY <1>1 DEF KeptElsewhere, IsKnown, EntryOf
  <1>4. MarkedLast'
    <2>1. ASSUME NEW p \in PortPaths, bus'[p] # FreePort, IsKnown(p)', EntryOf(p)'.isStorageDevice
          PROVE  bus'[p].announced >= 5
      <3>1. CASE p = path
        BY <1>2, <2>1, <3>1
      <3>2. CASE p # path
        BY <1>2, <1>3, <2>1, <3>2 DEF ToldInv, MarkedLast
      <3> QED
        BY <3>1, <3>2
    <2> QED
      BY <2>1 DEF MarkedLast
  <1>5. OtherSerials'
    <2>1. ASSUME NEW p \in PortPaths, IsKnown(p)'
          PROVE  StoragePort(p) \/ EntryOf(p)'.serialNumber \notin StorageSerials
      <3>1. CASE p = path
        BY <2>1, <3>1
      <3>2. CASE p # path
        BY <1>3, <2>1, <3>2 DEF ToldInv, OtherSerials
      <3> QED
        BY <3>1, <3>2
    <2> QED
      BY <2>1 DEF OtherSerials, StoragePort, StorageSerials, StorageDevices
  <1> QED
    BY <1>4, <1>5 DEF ToldInv, OpenIsPlugged, MoreIsPlugged

\* What the line of a device that is not storage leaves in the entry of its port.
LEMMA SerialOfOther ==
  ASSUME OwnSerials, NEW d \in Devices, ~d.storage
  PROVE  d.serial \notin StorageSerials
  BY DEF OwnSerials, StorageSerials, StorageDevices

LEMMA NoTextIsNone ==
  ASSUME OwnSerials
  PROVE  NoText \notin StorageSerials
  BY DEF OwnSerials, StorageSerials, StorageDevices

LEMMA PlugTold ==
  ASSUME OrderlyBus, OwnSerials, OrderlyInv, ToldInv,
         NEW path \in PortPaths, NEW device \in Devices, Plug(path, device)
  PROVE  ToldInv'
  <1> DEFINE state == [device |-> device, announced |-> 1, since |-> pos + 1,
                       clean |-> MatchesNew(path) /\ IsBlank(path)]
             entry == IF IsKnown(path) THEN EntryOf(path) ELSE EmptyInterface
  <1>1. BusInv
    BY DEF OrderlyInv
  <1>2. Line("new", path, device) /\ SetPort(path, state) /\ bus[path] = FreePort
        /\ path \in device.ports
    BY DEF Plug, Write, OrderlyBus
  <1>3. /\ phase = "reading" /\ phase' = "reading" /\ KeptElsewhere(path)
        /\ CheckIfNewDeviceConnected(path)
    BY <1>1, <1>2, LineReads, LineKeepsElsewhere, BusTypes, ReadLineTyped DEF Line
  <1>4. EntriesOfPorts' /\ UsbsAreStorage'
    BY <1>2, <1>3, LineMakesOwnEntry
       DEF ToldInv, UsbsAreStorage, CheckIfNewDeviceConnected, StorageSerials, StorageDevices
  <1>7. state.announced = 1
    OBVIOUS
  <1>5. CASE StoragePort(path)
    <2>1. MatchesNew(path)
      BY <1>5 DEF StoragePort, OrderlyBus
    <2>2. IsBlank(path)
      BY <1>2, <1>3, <1>5 DEF OrderlyInv, StoragePortsClean
    <2>3. EntryOf(path)' = AnnouncedNow(EmptyInterface)
      BY <1>3, <2>1, <2>2, OpensBlankEntry
    <2>4. ~EntryOf(path)'.isStorageDevice
      BY <2>3 DEF AnnouncedNow, EmptyInterface
    <2> HIDE DEF state
    <2> QED
      BY <1>2, <1>3, <1>4, <1>5, <1>7, <2>4, ToldElsewhere
  <1>6. CASE ~StoragePort(path)
    <2>1. Unmarked(path)'
      BY <1>1, <1>2, <1>3, <1>6, LineUnmarked DEF OrderlyInv, OtherPortsUnmarked
    <2>2. entry \in UsbInterface /\ entry.serialNumber \notin StorageSerials
      <3>1. entry \in UsbInterface
        BY <1>1, EntryTyped, EmptyInterfaceTyped, BusTypes
      <3>2. EmptyInterface.serialNumber = NoText
        BY DEF EmptyInterface
      <3> QED
        BY <1>3, <1>6, <3>1, <3>2, NoTextIsNone DEF ToldInv, OtherSerials
    <2>3. AnnouncedNow(entry).serialNumber = entry.serialNumber
      BY <2>2 DEF AnnouncedNow, UsbInterface
    <2>4. \/ interfaces' = interfaces
          \/ interfaces' = Put(interfaces, InterfaceId(path), AnnouncedNow(entry))
      BY <1>3 DEF CheckIfNewDeviceConnected
    <2> HIDE DEF entry
    <2>5. ASSUME IsKnown(path)' PROVE EntryOf(path)'.serialNumber \notin StorageSerials
      <3>1. CASE interfaces' = interfaces
        BY <1>3, <1>6, <2>5, <3>1 DEF ToldInv, OtherSerials, IsKnown, EntryOf
      <3>2. CASE interfaces' = Put(interfaces, InterfaceId(path), AnnouncedNow(entry))
        BY <2>2, <2>3, <3>2 DEF EntryOf, Put
      <3> QED
        BY <2>4, <3>1, <3>2
    <2> HIDE DEF state
    <2> QED
      BY <1>2, <1>3, <1>4, <1>7, <2>1, <2>5, ToldElsewhere DEF Unmarked
  <1> QED
    BY <1>5, <1>6

\* What a line of the announcement makes of the serial number and of the mark.
LEMMA AnnouncedSerial ==
  ASSUME BusInv, NEW path \in PortPaths, NEW device \in Devices, NEW k \in 2..5,
         Line(Kinds[k], path, device), IsKnown(path)
  PROVE  /\ EntryOf(path)'.serialNumber =
              IF k = 4 THEN device.serial ELSE EntryOf(path).serialNumber
         /\ k < 5 => (EntryOf(path)'.isStorageDevice <=> EntryOf(path).isStorageDevice)
  <1> DEFINE e == EntryOf(path)
             f == EntryOf(path)'
  <1>1. e \in UsbInterface
    BY EntryTyped, BusTypes
  <1>2. Kinds = <<"new", "ids", "product", "serial", "storage">>
    BY DEF Kinds
  <1>3. CASE k = 2
    <2>1. IdsFound(path, device.vendor, device.model)
      BY <1>2, <1>3 DEF Line
    <2>2. PICK v, p : Amend(path, [e EXCEPT !.idVendor = v, !.idProduct = p])
      BY <2>1 DEF IdsFound
    <2>3. f = [e EXCEPT !.idVendor = v, !.idProduct = p]
      BY <2>2, AmendsEntry
    <2> HIDE DEF e, f
    <2> QED
      BY <1>1, <1>3, <2>3 DEF UsbInterface, e, f
  <1>4. CASE k = 3
    <2>1. f = [e EXCEPT !.productName = device.product]
      BY <1>2, <1>4, AmendsEntry DEF Line, ProductNameFound
    <2> HIDE DEF e, f
    <2> QED
      BY <1>1, <1>4, <2>1 DEF UsbInterface, e, f
  <1>5. CASE k = 4
    <2>1. f = [e EXCEPT !.serialNumber = device.serial]
      BY <1>2, <1>5, AmendsEntry DEF Line, SerialNumberFound
    <2> HIDE DEF e, f
    <2> QED
      BY <1>1, <1>5, <2>1 DEF UsbInterface, e, f
  <1>6. CASE k = 5
    <2>1. f = [e EXCEPT !.isStorageDevice = TRUE]
      BY <1>2, <1>6, AmendsEntry DEF Line, CheckIfStorageDevice
    <2> HIDE DEF e, f
    <2> QED
      BY <1>1, <1>6, <2>1 DEF UsbInterface, e, f
  <1> QED
    BY <1>3, <1>4, <1>5, <1>6

LEMMA AnnounceTold ==
  ASSUME OrderlyBus, OwnSerials, OrderlyInv, ToldInv, NEW path \in PortPaths, Announce(path)
  PROVE  ToldInv'
  <1> DEFINE b == bus[path]
  <1>1. BusInv /\ b \in PortState /\ b.device \in Devices /\ b # FreePort
        /\ path \in b.device.ports
    BY BusTypes DEF OrderlyInv, BusInv, Occupied, InPlace, Announce
  <1>2. PICK k \in Remaining(path) :
          Line(Kinds[k], path, b.device) /\ SetPort(path, [b EXCEPT !.announced = k])
    BY DEF Announce, Write, OrderlyBus
  <1> DEFINE state == [b EXCEPT !.announced = k]
  <1>3. k \in b.announced + 1..5 /\ Tells(b.device, k) /\ b.announced \in 0..5
    BY <1>1, <1>2 DEF Remaining, PortState
  <1>4. k \in 1..5 /\ b.announced < k
    BY <1>3
  <1>5. state.announced = k
    BY <1>1 DEF PortState
  <1> HIDE DEF state
  <1>6. SetPort(path, state)
    BY <1>2 DEF state
  <1>7. phase = "reading" /\ phase' = "reading" /\ KeptElsewhere(path)
    BY <1>1, <1>2, LineReads, LineKeepsElsewhere, BusTypes, ReadLineTyped
  <1>8. usbs' = usbs /\ (k # 1 => (IsKnown(path)' <=> IsKnown(path)))
    <2>1. Kinds[k] # "disconnect" /\ (k # 1 => Kinds[k] # "new")
      BY <1>4 DEF Kinds
    <2>2. ASSUME NEW e, Amend(path, e) PROVE usbs' = usbs /\ (IsKnown(path)' <=> IsKnown(path))
      BY <2>2 DEF Amend, IsKnown, Put
    <2>3. ASSUME CheckIfNewDeviceConnected(path) PROVE usbs' = usbs
      BY <2>3 DEF CheckIfNewDeviceConnected
    <2> QED
      BY <1>2, <2>1, <2>2, <2>3
         DEF Line, IdsFound, ProductNameFound, SerialNumberFound, CheckIfStorageDevice
  <1>9. EntriesOfPorts' /\ UsbsAreStorage'
    BY <1>2, <1>8, LineMakesOwnEntry DEF ToldInv, UsbsAreStorage, StorageSerials, StorageDevices
  <1>10. k \in 2..5
    BY <1>1, <1>3, <1>4 DEF OrderlyInv, Begun
  <1>11. IsKnown(path) =>
           /\ EntryOf(path)'.serialNumber =
                IF k = 4 THEN b.device.serial ELSE EntryOf(path).serialNumber
           /\ k < 5 => (EntryOf(path)'.isStorageDevice <=> EntryOf(path).isStorageDevice)
    BY <1>1, <1>2, <1>10, AnnouncedSerial
  <1>12. k >= 5 \/ ~(IsKnown(path)' /\ EntryOf(path)'.isStorageDevice)
    <2> SUFFICES ASSUME k < 5, IsKnown(path)', EntryOf(path)'.isStorageDevice PROVE FALSE
      BY <1>4
    <2>1. IsKnown(path) /\ EntryOf(path).isStorageDevice
      BY <1>8, <1>10, <1>11
    <2>2. b.announced >= 5
      BY <1>1, <1>7, <2>1 DEF ToldInv, MarkedLast
    <2> QED
      BY <1>3, <1>4, <2>2
  <1>13. IsKnown(path)' => StoragePort(path) \/ EntryOf(path)'.serialNumber \notin StorageSerials
    <2> SUFFICES ASSUME IsKnown(path)', ~StoragePort(path)
                 PROVE  EntryOf(path)'.serialNumber \notin StorageSerials
      OBVIOUS
    <2>1. IsKnown(path) /\ EntryOf(path).serialNumber \notin StorageSerials
      BY <1>7, <1>8, <1>10 DEF ToldInv, OtherSerials
    <2>2. ~b.device.storage
      BY <1>1 DEF StoragePort, StorageDevices
    <2> QED
      BY <1>1, <1>11, <2>1, <2>2, SerialOfOther
  <1> QED
    BY <1>5, <1>6, <1>7, <1>9, <1>12, <1>13, ToldElsewhere

\* The disconnect line of a storage device adds to the element of its serial
\* number; that of another device adds nothing.
LEMMA UnplugTold ==
  ASSUME OrderlyBus, OwnSerials, OrderlyInv, ToldInv, NEW path \in PortPaths, Unplug(path)
  PROVE  ToldInv'
  <1> DEFINE b == bus[path]
  <1>1. BusInv /\ b \in PortState /\ b.device \in Devices /\ b # FreePort
        /\ path \in b.device.ports
    BY BusTypes DEF OrderlyInv, BusInv, Occupied, InPlace, Unplug
  <1>2. Line("disconnect", path, b.device) /\ SetPort(path, FreePort)
    BY DEF Unplug, OrderlyBus
  <1>3. /\ phase = "reading" /\ phase' = "reading" /\ KeptElsewhere(path)
        /\ CheckIfDeviceDisconnected(path)
    BY <1>1, <1>2, LineReads, LineKeepsElsewhere, BusTypes, ReadLineTyped DEF Line
  <1>4. EntriesOfPorts'
    BY <1>2, LineMakesOwnEntry DEF ToldInv
  <1>5. CASE StoragePort(path)
    <2>1. b.device \in StorageDevices /\ b.device.storage
      BY <1>1, <1>5 DEF OrderlyBus, StoragePort, StorageDevices
    <2>2. b.clean \/ ~IsKnown(path)
      BY <1>1, <1>3, <1>5 DEF OrderlyInv, StoragePortsClean
    <2>3. IsOpenStorage(path) => EntryOf(path).serialNumber = b.device.serial
      <3> SUFFICES ASSUME IsOpenStorage(path) PROVE EntryOf(path).serialNumber = b.device.serial
        OBVIOUS
      <3>1. b.clean /\ Announced(path)
        BY <1>1, <2>2 DEF IsOpenStorage, Unplug, OrderlyBus
      <3> QED
        BY <1>1, <1>3, <2>1, <3>1, AnnouncedEntry
    <2>4. DOMAIN usbs' \subseteq DOMAIN usbs \cup {b.device.serial}
      BY <1>3, <2>3 DEF CheckIfDeviceDisconnected, Put
    <2>5. UsbsAreStorage'
      BY <2>1, <2>4 DEF ToldInv, UsbsAreStorage, StorageSerials, StorageDevices
    <2> QED
      BY <1>2, <1>3, <1>4, <1>5, <2>5, ToldElsewhere
  <1>6. CASE ~StoragePort(path)
    <2>1. Unmarked(path)' /\ usbs' = usbs
      BY <1>1, <1>2, <1>3, <1>6, LineUnmarked DEF OrderlyInv, OtherPortsUnmarked
    <2>2. ~IsOpenStorage(path)
      BY <1>3, <1>6 DEF OrderlyInv, OtherPortsUnmarked, Unmarked, IsOpenStorage
    <2>3. interfaces' = interfaces
      BY <1>3, <2>2 DEF CheckIfDeviceDisconnected
    <2>4. UsbsAreStorage'
      BY <2>1 DEF ToldInv, UsbsAreStorage, StorageSerials, StorageDevices
    <2>5. IsKnown(path)' => EntryOf(path)'.serialNumber \notin StorageSerials
      BY <1>3, <1>6, <2>3 DEF ToldInv, OtherSerials, IsKnown, EntryOf
    <2> QED
      BY <1>2, <1>3, <1>4, <2>1, <2>4, <2>5, ToldElsewhere DEF Unmarked
  <1> QED
    BY <1>5, <1>6

-----------------------------------------------------------------------------
(***************************************************************************)
(* The end of the file.                                                    *)
(***************************************************************************)

\* An entry open when the file ends, if a storage device's, is that of the
\* device on its port.
LEMMA OpenAtEnd ==
  ASSUME OrderlyBus, OwnSerials, OrderlyInv, ToldInv, phase = "reading",
         NEW p \in PortPaths, IsKnown(p), ~EntryOf(p).isEmpty,
         EntryOf(p).serialNumber \in StorageSerials \/ EntryOf(p).isStorageDevice
  PROVE  /\ p \in OnBus(EntryOf(p).serialNumber)
         /\ EntryOf(p).serialNumber \in StorageSerials
         /\ EntryMatches(p)
  <1> DEFINE b == bus[p]
             e == EntryOf(p)
  <1>1. StoragePort(p)
    BY DEF ToldInv, OtherSerials, OrderlyInv, OtherPortsUnmarked, Unmarked
  <1>2. b # FreePort /\ b.clean
    <2>1. EmptyInterface.isEmpty
      BY DEF EmptyInterface
    <2> QED
      BY <1>1, <2>1 DEF OrderlyInv, StoragePortsClean, IsBlank
  <1>3. EntryMatches(p)
    BY <1>2 DEF OrderlyInv, BusInv, CleanPortsMatch
  <1>4. b.device \in StorageDevices
    BY <1>1, <1>2, <1>3
       DEF EntryMatches, OrderlyInv, InPlace, OrderlyBus, StoragePort, StorageDevices
  <1>5. /\ e.serialNumber = IF b.announced >= 4 THEN b.device.serial ELSE NoText
        /\ b.announced \in 0..5
    BY <1>3, BusTypes DEF EntryMatches, OrderlyInv, PortState
  <1>6. e.serialNumber = b.device.serial
    <2>1. CASE e.serialNumber \in StorageSerials
      BY <1>5, <2>1, NoTextIsNone
    <2>2. CASE e.isStorageDevice
      BY <1>2, <1>5, <2>2 DEF ToldInv, MarkedLast
    <2> QED
      BY <2>1, <2>2
  <1> QED
    BY <1>3, <1>4, <1>6 DEF OnBus, StorageSerials

LEMMA EndTold ==
  ASSUME OrderlyBus, OwnSerials, OrderlyInv, ToldInv, EndOfFile, UNCHANGED <<bus, sessions>>
  PROVE  ToldInv'
  <1>1. /\ phase = "reading" /\ phase' = "saving"
        /\ UNCHANGED bus /\ UNCHANGED interfaces /\ UNCHANGED usbs
    BY DEF EndOfFile
  <1>2. EntriesOfPorts' /\ UsbsAreStorage' /\ MarkedLast' /\ OtherSerials'
    BY <1>1 DEF ToldInv, EntriesOfPorts, UsbsAreStorage, MarkedLast, OtherSerials,
                IsKnown, StorageSerials, StorageDevices
  <1>3. OpenIsPlugged'
    <2>1. ASSUME NEW id \in DOMAIN interfaces, ~interfaces[id].isEmpty
          PROVE  LET e == interfaces[id]
                 IN  /\ e.serialNumber \in StorageSerials => OnBus(e.serialNumber) # {}
                     /\ e.isStorageDevice => e.serialNumber \in StorageSerials
      <3>1. PICK p \in PortPaths : InterfaceId(p) = id /\ IsKnown(p)
        BY DEF ToldInv, EntriesOfPorts
      <3>2. EntryOf(p) = interfaces[id]
        BY <3>1 DEF EntryOf
      <3> QED
        BY <1>1, <2>1, <3>1, <3>2, OpenAtEnd
    <2> QED
      BY <1>1, <2>1 DEF OpenIsPlugged, OnBus, StorageSerials, StorageDevices
  <1>4. MoreIsPlugged'
    <2>1. ASSUME NEW s \in StorageSerials PROVE ~More(s)
      <3>1. s \in Serials
        BY DeviceAssumption DEF DeviceAssumption, StorageSerials, StorageDevices
      <3> QED
        BY <1>1, <3>1, ListsTyped, BusTypes
           DEF OrderlyInv, BusInv, IInv, ListsPaired, More
    <2> QED
      BY <1>1, <2>1
         DEF MoreIsPlugged, More, ConnectionsOf, DisconnectionsOf, StorageSerials, StorageDevices
  <1> QED
    BY <1>2, <1>3, <1>4 DEF ToldInv

-----------------------------------------------------------------------------
(***************************************************************************)
(* The saving loop.                                                        *)
(***************************************************************************)

\* An entry that is saved adds one connection to its device; one that is not
\* leaves usb_map as it is.
LEMMA SavedAdds ==
  ASSUME TypeOK, NEW id, Saved(id), NEW s, s = interfaces[id].serialNumber
  PROVE  /\ IsSaved(interfaces[id]) =>
              /\ ConnectionsOf(s)' = Append(ConnectionsOf(s), interfaces[id].connectionTime)
              /\ DOMAIN usbs' = DOMAIN usbs \cup {s}
         /\ ~IsSaved(interfaces[id]) => usbs' = usbs
  <1> DEFINE e == interfaces[id]
             u == Connected(UsbOf(e), e.connectionTime)
             f == FillIn(u, e)
  <1>1. e \in UsbInterface /\ e.connectionTime \in Times
    BY EmptiedEntry DEF Saved
  <1>2. UsbOf(e) \in UsbInfo
    BY <1>1, UsbOfTyped
  <1>3. u \in UsbInfo
    BY <1>1, <1>2, SessionTyped
  <1>4. u.connectionTimes = Append(ConnectionsOf(s), e.connectionTime)
    <2>1. UsbOf(e).connectionTimes = ConnectionsOf(s)
      BY UsbOfLists
    <2> QED
      BY <1>2, <2>1, SessionLists
  <1> HIDE DEF u
  <1>5. f.connectionTimes = u.connectionTimes
    BY <1>3, FillInLists
  <1>6. usbs' = IF IsSaved(e) THEN Put(usbs, s, f) ELSE usbs
    BY DEF Saved, SavedUsbs, u
  <1> HIDE DEF f, e
  <1>7. ASSUME IsSaved(e)
        PROVE  /\ ConnectionsOf(s)' = f.connectionTimes
               /\ DOMAIN usbs' = DOMAIN usbs \cup {s}
    <2>1. usbs' = Put(usbs, s, f)
      BY <1>6, <1>7
    <2> QED
      BY <2>1, PutUsbLists DEF Put
  <1> QED
    BY <1>4, <1>5, <1>6, <1>7 DEF e

\* A device that has a connection more keeps it, and one that is saved gets it.
LEMMA SavedMore ==
  ASSUME IInv, NEW id, Saved(id), NEW r
  PROVE  /\ More(r) => More(r)'
         /\ (IsSaved(interfaces[id]) /\ r = interfaces[id].serialNumber) => More(r)'
  <1> DEFINE e == interfaces[id]
             c == ConnectionsOf(r)
             d == DisconnectionsOf(r)
  <1>1. PICK s : s = e.serialNumber
    OBVIOUS
  <1>2. TypeOK /\ s \in Serials /\ e.connectionTime \in Times
    BY <1>1, EmptiedEntry DEF Saved, IInv
  <1>3. /\ \A q : DisconnectionsOf(q)' = DisconnectionsOf(q)
        /\ \A q : q # s => ConnectionsOf(q)' = ConnectionsOf(q)
    BY <1>1, <1>2, SavedLists
  <1>4. /\ IsSaved(e) => ConnectionsOf(s)' = Append(ConnectionsOf(s), e.connectionTime)
        /\ ~IsSaved(e) => usbs' = usbs
    BY <1>1, <1>2, SavedAdds
  <1>5. CASE r = s /\ IsSaved(e)
    <2>1. c \in Seq(Times) /\ d \in Seq(Times) /\ Len(d) <= Len(c)
      BY <1>2, <1>5, ListsTyped DEF IInv, ListsPaired, Paired
    <2>2. Len(Append(c, e.connectionTime)) = Len(c) + 1
      BY <1>2, <2>1, AppendFacts
    <2>3. Len(ConnectionsOf(r)') > Len(DisconnectionsOf(r)')
      BY <1>3, <1>4, <1>5, <2>1, <2>2
    <2> QED
      BY <2>3 DEF More
  <1>6. CASE r # s
    BY <1>1, <1>3, <1>6 DEF More
  <1>7. CASE ~IsSaved(e)
    BY <1>4, <1>7, QuietLists DEF More
  <1> QED
    BY <1>1, <1>5, <1>6, <1>7

LEMMA SavedTold ==
  ASSUME OwnSerials, BusInv, ToldInv, NEW id, Saved(id), UNCHANGED <<bus, sessions>>
  PROVE  ToldInv'
  <1> DEFINE e == interfaces[id]
  <1>1. TypeOK /\ IInv
    BY BusTypes DEF BusInv
  <1>2. PICK s : s = e.serialNumber
    OBVIOUS
  <1>3. /\ id \in DOMAIN interfaces /\ ~e.isEmpty
        /\ s \in Serials /\ e.connectionTime \in Times
        /\ DOMAIN interfaces' = DOMAIN interfaces
        /\ interfaces'[id] = EmptyInterface
        /\ \A j \in DOMAIN interfaces \ {id} : interfaces'[j] = interfaces[j]
    BY <1>1, <1>2, EmptiedEntry DEF Saved, Emptied
  <1>4. phase = "saving" /\ phase' # "reading" /\ bus' = bus
    BY DEF Saved
  <1>5. /\ \A r : DisconnectionsOf(r)' = DisconnectionsOf(r)
        /\ \A r : r # s => ConnectionsOf(r)' = ConnectionsOf(r)
    BY <1>1, <1>2, SavedLists
  <1>6. /\ IsSaved(e) => /\ ConnectionsOf(s)' = Append(ConnectionsOf(s), e.connectionTime)
                         /\ DOMAIN usbs' = DOMAIN usbs \cup {s}
        /\ ~IsSaved(e) => usbs' = usbs
    BY <1>1, <1>2, SavedAdds
  <1>7. /\ IsSaved(e) => s \in StorageSerials
        /\ s \in StorageSerials => OnBus(s) # {}
    <2>1. /\ s \in StorageSerials => OnBus(s) # {}
          /\ e.isStorageDevice => s \in StorageSerials
      BY <1>2, <1>3, <1>4 DEF ToldInv, OpenIsPlugged
    <2>2. IsSaved(e) => s \in StorageSerials
      BY <1>2, <2>1 DEF IsSaved, ToldInv, UsbsAreStorage
    <2> QED
      BY <2>1, <2>2
  <1>8. ASSUME NEW r, More(r)', r # s PROVE More(r)
    BY <1>5, <1>8 DEF More
  <1> HIDE DEF e
  <1>9. EntriesOfPorts' /\ MarkedLast' /\ OtherSerials'
    BY <1>3, <1>4 DEF ToldInv, EntriesOfPorts, MarkedLast, OtherSerials, IsKnown
  <1>10. UsbsAreStorage'
    BY <1>6, <1>7 DEF ToldInv, UsbsAreStorage, StorageSerials, StorageDevices
  <1>11. OpenIsPlugged'
    <2>1. ASSUME NEW j \in DOMAIN interfaces', ~interfaces'[j].isEmpty
          PROVE  /\ interfaces'[j] = interfaces[j] /\ ~interfaces[j].isEmpty
                 /\ j \in DOMAIN interfaces
      BY <1>3, <2>1 DEF EmptyInterface
    <2>2. \A r : OnBus(r)' = OnBus(r)
      BY <1>4 DEF OnBus, StorageDevices
    <2>3. ASSUME NEW j \in DOMAIN interfaces', ~interfaces'[j].isEmpty
          PROVE  /\ interfaces'[j].serialNumber \in StorageSerials =>
                      OnBus(interfaces[j].serialNumber) # {}
                 /\ interfaces'[j].isStorageDevice =>
                      interfaces'[j].serialNumber \in StorageSerials
      BY <1>4, <2>1, <2>3 DEF ToldInv, OpenIsPlugged
    <2> QED
      BY <1>4, <2>1, <2>3 DEF OpenIsPlugged, OnBus, StorageSerials, StorageDevices
  <1>12. MoreIsPlugged'
    <2>1. ASSUME NEW r \in StorageSerials, More(r)' PROVE OnBus(r) # {}
      <3>1. CASE r = s
        BY <1>7, <3>1
      <3>2. CASE r # s
        BY <1>4, <1>8, <2>1, <3>2 DEF ToldInv, MoreIsPlugged
      <3> QED
        BY <3>1, <3>2
    <2>2. \A r : OnBus(r)' = OnBus(r)
      BY <1>4 DEF OnBus, StorageDevices
    <2> QED
      BY <2>1, <2>2 DEF MoreIsPlugged, StorageSerials, StorageDevices
  <1> QED
    BY <1>9, <1>10, <1>11, <1>12 DEF ToldInv

-----------------------------------------------------------------------------
(***************************************************************************)
(* The other way round: what is plugged in is kept.                        *)
(***************************************************************************)
Waits(p, s) == IsOpenStorage(p) /\ EntryOf(p).serialNumber = s

\* While entries are saved: a device plugged in and announced has a connection
\* more, or an entry that is open.
PluggedIsKept ==
  phase # "reading" =>
    \A p \in PortPaths : (bus[p].device \in StorageDevices /\ Announced(p))
                           => More(bus[p].device.serial) \/ Waits(p, bus[p].device.serial)

LEMMA EndPlugged ==
  ASSUME OrderlyBus, OrderlyInv, WholeInv, EndOfFile, UNCHANGED <<bus, sessions>>
  PROVE  PluggedIsKept'
  <1>1. /\ phase = "reading" /\ phase' = "saving"
        /\ UNCHANGED bus /\ UNCHANGED interfaces /\ UNCHANGED usbs
    BY DEF EndOfFile
  <1>2. ASSUME NEW p \in PortPaths, bus[p].device \in StorageDevices, Announced(p)
        PROVE  Waits(p, bus[p].device.serial)
    <2>1. bus[p].device \in Devices /\ bus[p].device.storage
      BY <1>2 DEF StorageDevices
    <2>2. bus[p] # FreePort /\ StoragePort(p)
      BY <1>2, <2>1, DeviceThere DEF StoragePort
    <2>3. bus[p].clean
      BY <1>1, <2>2 DEF WholeInv, AllPortsClean
    <2> QED
      BY <1>1, <1>2, <2>1, <2>3, AnnouncedEntry DEF Waits, OrderlyInv
  <1> QED
    BY <1>1, <1>2 DEF PluggedIsKept, Waits, IsOpenStorage, IsKnown, EntryOf, More,
                      ConnectionsOf, DisconnectionsOf, Announced, Remaining, StorageDevices

LEMMA SavedPlugged ==
  ASSUME BusInv, PluggedIsKept, NEW id, Saved(id), UNCHANGED <<bus, sessions>>
  PROVE  PluggedIsKept'
  <1> DEFINE e == interfaces[id]
  <1>1. IInv /\ TypeOK
    BY BusTypes DEF BusInv
  <1>2. PICK s : s = e.serialNumber
    OBVIOUS
  <1>3. /\ id \in DOMAIN interfaces
        /\ DOMAIN interfaces' = DOMAIN interfaces
        /\ \A j \in DOMAIN interfaces \ {id} : interfaces'[j] = interfaces[j]
    BY <1>1, EmptiedEntry DEF Saved, Emptied
  <1>4. phase = "saving" /\ phase' # "reading" /\ bus' = bus
    BY DEF Saved
  <1>5. ASSUME NEW p \in PortPaths, bus[p].device \in StorageDevices, Announced(p),
               NEW r, r = bus[p].device.serial
        PROVE  More(r)' \/ Waits(p, r)'
    <2>1. CASE More(r)
      BY <1>1, <2>1, SavedMore
    <2>2. CASE Waits(p, r)
      <3>1. CASE InterfaceId(p) = id
        <4>1. e.serialNumber = r /\ IsSaved(e)
          BY <2>2, <3>1 DEF Waits, IsOpenStorage, EntryOf, IsSaved
        <4> QED
          BY <1>1, <4>1, SavedMore
      <3>2. CASE InterfaceId(p) # id
        <4>1. interfaces'[InterfaceId(p)] = interfaces[InterfaceId(p)]
              /\ InterfaceId(p) \in DOMAIN interfaces'
          BY <1>3, <2>2, <3>2 DEF Waits, IsOpenStorage, IsKnown
        <4> QED
          BY <2>2, <4>1 DEF Waits, IsOpenStorage, IsKnown, EntryOf
      <3> QED
        BY <3>1, <3>2
    <2> QED
      BY <1>4, <1>5, <2>1, <2>2 DEF PluggedIsKept
  <1>6. ASSUME NEW p \in PortPaths, bus[p].device \in StorageDevices, Announced(p)
        PROVE  (More(bus[p].device.serial) \/ Waits(p, bus[p].device.serial))'
    <2>1. PICK r : r = bus[p].device.serial
      OBVIOUS
    <2>2. More(r)' \/ Waits(p, r)'
      BY <1>5, <1>6, <2>1
    <2> QED
      BY <1>4, <2>1, <2>2 DEF More, Waits, ConnectionsOf, DisconnectionsOf
  <1> QED
    BY <1>4, <1>6 DEF PluggedIsKept, Announced, Remaining, StorageDevices

LEMMA PluggedStep ==
  ASSUME OrderlyBus, OrderlyInv, WholeInv, PluggedIsKept, [BusNext]_busVars
  PROVE  PluggedIsKept'
  <1>1. ASSUME NEW path \in PortPaths, BusLineAt(path) PROVE PluggedIsKept'
    <2>1. \A kind, device : Line(kind, path, device) \/ OtherLine => phase' = "reading"
      BY LineReads, BusTypes, ReadLineTyped DEF OrderlyInv
    <2>2. phase' = "reading"
      BY <1>1, <2>1 DEF BusLineAt, Plug, Announce, GiveUp, Unplug, Write
    <2> QED
      BY <2>2 DEF PluggedIsKept
  <1>2. CASE EndOfFile /\ UNCHANGED <<bus, sessions>>
    BY <1>2, EndPlugged
  <1>3. CASE (SaveInterface \/ FollowFreedNode) /\ UNCHANGED <<bus, sessions>>
    <2>1. BusInv /\ TypeOK
      BY BusTypes DEF OrderlyInv
    <2>2. Saved(cursor)
      BY <1>3, <2>1, CursorTyped
         DEF SaveInterface, Initialize, FollowFreedNode, AtOpenEntry, Saved, Emptied
    <2>3. PICK id : id = cursor
      OBVIOUS
    <2> QED
      BY <1>3, <2>1, <2>2, <2>3, SavedPlugged
  <1>4. ASSUME UNCHANGED <<interfaces, usbs, bus>>,
               phase' = phase \/ (phase # "reading" /\ phase' # "reading")
        PROVE  PluggedIsKept'
    BY <1>4 DEF PluggedIsKept, More, Waits, IsOpenStorage, IsKnown, EntryOf, Announced,
                Remaining, ConnectionsOf, DisconnectionsOf, StorageDevices
  <1>5. CASE (SkipEmptyInterface \/ Return) /\ UNCHANGED <<bus, sessions>>
    BY <1>4, <1>5 DEF SkipEmptyInterface, Return
  <1>6. CASE UNCHANGED busVars
    BY <1>4, <1>6 DEF busVars, vars
  <1> QED
    BY <1>1, <1>2, <1>3, <1>5, <1>6 DEF BusNext, Save

-----------------------------------------------------------------------------
(***************************************************************************)
(* The theorem.                                                            *)
(***************************************************************************)
LEMMA ToldStep ==
  ASSUME OrderlyBus, OwnSerials, OrderlyInv, ToldInv, [BusNext]_busVars
  PROVE  ToldInv'
  <1>1. ASSUME NEW path \in PortPaths, BusLineAt(path) PROVE ToldInv'
    <2>1. ~GiveUp(path)
      BY DEF GiveUp, OrderlyBus
    <2> QED
      BY <1>1, <2>1, PlugTold, AnnounceTold, UnplugTold DEF BusLineAt
  <1>2. CASE EndOfFile /\ UNCHANGED <<bus, sessions>>
    BY <1>2, EndTold
  <1>3. CASE (SaveInterface \/ FollowFreedNode) /\ UNCHANGED <<bus, sessions>>
    <2>1. BusInv /\ TypeOK
      BY BusTypes DEF OrderlyInv
    <2>2. Saved(cursor)
      BY <1>3, <2>1, CursorTyped
         DEF SaveInterface, Initialize, FollowFreedNode, AtOpenEntry, Saved, Emptied
    <2>3. PICK id : id = cursor
      OBVIOUS
    <2> QED
      BY <1>3, <2>1, <2>2, <2>3, SavedTold
  <1>4. ASSUME UNCHANGED <<interfaces, usbs, bus>>,
               phase' = phase \/ (phase # "reading" /\ phase' # "reading")
        PROVE  ToldInv'
    BY <1>4 DEF ToldInv, EntriesOfPorts, UsbsAreStorage, MarkedLast, OtherSerials,
                OpenIsPlugged, MoreIsPlugged, OnBus, More, IsKnown, EntryOf, ConnectionsOf,
                DisconnectionsOf, StorageSerials, StorageDevices
  <1>5. CASE (SkipEmptyInterface \/ Return) /\ UNCHANGED <<bus, sessions>>
    BY <1>4, <1>5 DEF SkipEmptyInterface, Return
  <1>6. CASE UNCHANGED busVars
    BY <1>4, <1>6 DEF busVars, vars
  <1> QED
    BY <1>1, <1>2, <1>3, <1>5, <1>6 DEF BusNext, Save

LEMMA ShownIsPlugged ==
  ASSUME ToldInv, phase = "done", NEW s, ShownConnected(s)
  PROVE  OnBus(s) # {}
  <1>1. s \in StorageSerials /\ More(s)
    BY DEF ShownConnected, ToldInv, UsbsAreStorage, More, ConnectionsOf, DisconnectionsOf
  <1> QED
    BY <1>1 DEF ToldInv, MoreIsPlugged

LEMMA ConnectedFromTold ==
  ASSUME OwnSerials, BusInv, ToldInv, PluggedIsKept, AllInterfacesSaved
  PROVE  ConnectedMeansPlugged
  <1> SUFFICES ASSUME phase = "done", NEW s \in Serials
               PROVE  /\ ShownConnected(s) => OnBus(s) # {}
                      /\ (\E p \in OnBus(s) : Announced(p)) => ShownConnected(s)
    BY DEF ConnectedMeansPlugged
  <1>1. TypeOK
    BY BusTypes
  <1>2. s \in DOMAIN usbs /\ More(s) <=> ShownConnected(s)
    BY DEF More, ShownConnected, ConnectionsOf, DisconnectionsOf
  <1>3. More(s) => s \in DOMAIN usbs
    <2>1. Len(<<>>) = 0
      OBVIOUS
    <2> QED
      BY <2>1 DEF More, ConnectionsOf, DisconnectionsOf
  <1>4. ASSUME ShownConnected(s) PROVE OnBus(s) # {}
    BY <1>4, ShownIsPlugged
  <1>5. ASSUME NEW p \in OnBus(s), Announced(p) PROVE ShownConnected(s)
    <2>1. p \in PortPaths /\ bus[p].device \in StorageDevices /\ bus[p].device.serial = s
      BY DEF OnBus
    <2>2. ~Waits(p, s)
      BY DEF AllInterfacesSaved, Waits, IsOpenStorage, IsKnown, EntryOf
    <2>3. More(s)
      BY <1>5, <2>1, <2>2 DEF PluggedIsKept
    <2> QED
      BY <1>2, <1>3, <2>3
  <1> QED
    BY <1>4, <1>5

\* On an orderly bus whose storage devices have serial numbers of their own,
\* what the report shows as connected is plugged in, and a storage device
\* plugged in and announced is shown so.
THEOREM ConnectedIsPlugged ==
  (OrderlyBus /\ OwnSerials /\ NodeReused) => (BusSpec => []ConnectedMeansPlugged)
  <1> SUFFICES ASSUME OrderlyBus, OwnSerials, NodeReused
               PROVE  BusSpec => []ConnectedMeansPlugged
    OBVIOUS
  <1>1. BusInit => ToldInv /\ PluggedIsKept /\ SavedUpToCursor
    BY ToldInit DEF BusInit, Init, PluggedIsKept, SavedUpToCursor, AllInterfacesSaved
  <1>2. OrderlyInv /\ ToldInv /\ [BusNext]_busVars => ToldInv'
    BY ToldStep
  <1>3. OrderlyInv /\ WholeInv /\ PluggedIsKept /\ [BusNext]_busVars => PluggedIsKept'
    BY PluggedStep
  <1>4. BusInv /\ SavedUpToCursor /\ [BusNext]_busVars => SavedUpToCursor'
    BY BusNextIsNext, SavedUpToCursorStep, BusTypes
  <1>5. BusInv /\ ToldInv /\ PluggedIsKept /\ SavedUpToCursor => ConnectedMeansPlugged
    BY ConnectedFromTold DEF SavedUpToCursor
  <1>6. OrderlyInv => BusInv
    BY DEF OrderlyInv
  <1>7. BusSpec => []OrderlyInv /\ []WholeInv
    BY OrderlyInvariance, WholeInvariance
  <1> QED
    BY <1>1, <1>2, <1>4, <1>5, <1>6, <1>7, <1>3, PTL DEF BusSpec

=============================================================================
