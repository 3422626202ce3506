-------------------------------- MODULE UsbLog --------------------------------
(***************************************************************************)
(* The log parser of usb.cpp: getUSBsInfo() and the functions it calls.    *)
(* It reads /var/log/syslog line by line, keeps one usbInterface per port  *)
(* it has seen announced, turns a port's entry into a usbInfo when the     *)
(* device is disconnected, and at the end of the file moves what is still  *)
(* open (saveInterfacesInfoInUSBsMap).                                     *)
(*                                                                         *)
(* The next line of the file is any line: which kind it is, which port it  *)
(* names and what it carries are chosen by Next.  UsbBus.tla restricts the *)
(* choice to what the kernel writes.  The time of a line is its position.  *)
(***************************************************************************)
EXTENDS SyslogText

CONSTANTS
  PortPaths,      \* ports that lines name, as sequences <<bus, port, ...>>
  DeviceIds,      \* vendor and product ids that lines carry
  ProductNames,
  Manufacturers,
  SerialNumbers,
  NoText,         \* the empty string
  Garbage,        \* what an uninitialised int may hold
  LogLength,      \* bound: lines in the file
  DayOf,          \* day of the month of each line
  NodeReused      \* whether the allocator gives a map node just freed back to
                  \* the next insertion, see SaveInterface

ASSUME PathAssumption ==
  \A path \in PortPaths :
    path \in Seq(Nat) /\ Len(path) >= 2 /\ \A i \in DOMAIN path : path[i] \in 1..99

ASSUME IdAssumption == DeviceIds \subseteq Nat /\ Garbage \subseteq Int

ASSUME TextAssumption ==
  NoText \notin ProductNames \cup Manufacturers \cup SerialNumbers

ASSUME LogAssumption ==
  /\ LogLength \in Nat
  /\ DayOf \in [1..LogLength -> 1..31]

ASSUME BuildAssumption == NodeReused \in BOOLEAN

VARIABLES
  phase,       \* "reading", "saving", "done" or "crashed"
  pos,         \* lines read so far
  interfaces,  \* usb_interfaces_map: interface id -> usbInterface
  usbs,        \* usb_map: serial number -> usbInfo, what getUSBsInfo returns
  cursor       \* the iterator of the saving loop

vars == <<phase, pos, interfaces, usbs, cursor>>

-----------------------------------------------------------------------------
\* Types.

NoTime == 0
End == 100

Times == 0..LogLength
Serials == SerialNumbers \cup {NoText}

UsbInterface ==
  [isEmpty : BOOLEAN, isStorageDevice : BOOLEAN, connectionTime : Times,
   idVendor : Int, idProduct : Int, productName : ProductNames \cup {NoText},
   manufacturer : Manufacturers \cup {NoText}, serialNumber : Serials]

UsbInfo ==
  [connectionTimes : Seq(Times), disconnectionTimes : Seq(Times),
   idVendor : Int, idProduct : Int, productName : ProductNames \cup {NoText},
   manufacturer : Manufacturers \cup {NoText}, serialNumber : Serials]

-----------------------------------------------------------------------------
\* Maps and their elements.

\* replaceInUSBsMap, replaceInInterfacesMap and map::insert on a new key.
Put(map, key, element) ==
  [k \in DOMAIN map \cup {key} |-> IF k = key THEN element ELSE map[k]]

\* initializeUsbInterface
EmptyInterface ==
  [isEmpty |-> TRUE, isStorageDevice |-> FALSE, connectionTime |-> NoTime,
   idVendor |-> 0, idProduct |-> 0, productName |-> NoText,
   manufacturer |-> NoText, serialNumber |-> NoText]

\* A new usbInfo takes everything the entry knows of the device.
NewUsb(entry) ==
  [connectionTimes |-> <<>>, disconnectionTimes |-> <<>>,
   idVendor |-> entry.idVendor, idProduct |-> entry.idProduct,
   productName |-> entry.productName, manufacturer |-> entry.manufacturer,
   serialNumber |-> entry.serialNumber]

\* The usbInfo an entry's session goes to: the one with its serial number, or
\* a new one.  (Seeded fault: a device seen before starts again from nothing.)
UsbOfForgetting(entry) == NewUsb(entry)

UsbOf(entry) ==
  IF entry.serialNumber \in DOMAIN usbs THEN usbs[entry.serialNumber]
  ELSE NewUsb(entry)

\* Information found that was not set before.
FillIn(usb, entry) ==
  [usb EXCEPT !.idVendor = IF @ = 0 THEN entry.idVendor ELSE @,
              !.idProduct = IF @ = 0 THEN entry.idProduct ELSE @,
              !.productName = IF @ = NoText THEN entry.productName ELSE @,
              !.manufacturer = IF @ = NoText THEN entry.manufacturer ELSE @,
              !.serialNumber = IF @ = NoText THEN entry.serialNumber ELSE @]

Connected(usb, time) == [usb EXCEPT !.connectionTimes = Append(@, time)]
Disconnected(usb, time) == [usb EXCEPT !.disconnectionTimes = Append(@, time)]

-----------------------------------------------------------------------------
\* One iteration of the getline loop of getUSBsInfo, by kind of line.  A line
\* about a port the map does not hold changes nothing.

\* regex_found.str() after searching date_regex: empty when nothing matched.
DateOf(line) == IF DateMatches(DayOf[line]) THEN line ELSE NoTime

ReadLine ==
  /\ phase = "reading"
  /\ pos < LogLength
  /\ pos' = pos + 1
  /\ UNCHANGED <<phase, cursor>>

IsKnown(path) == MatchesUsb(path) /\ InterfaceId(path) \in DOMAIN interfaces
EntryOf(path) == interfaces[InterfaceId(path)]

Amend(path, entry) ==
  /\ interfaces' = IF IsKnown(path)
                   THEN Put(interfaces, InterfaceId(path), entry)
                   ELSE interfaces
  /\ UNCHANGED usbs

\* "usb-storage 1-4:1.0: USB Mass Storage device detected"
CheckIfStorageDevice(path) ==
  /\ ReadLine
  /\ Amend(path, [EntryOf(path) EXCEPT !.isStorageDevice = TRUE])

\* "usb 1-4: New USB device found, idVendor=0781, idProduct=5567"
IdsFound(path, vendor, product) ==
  /\ ReadLine
  /\ \E v \in StringToInt(vendor, Garbage), p \in StringToInt(product, Garbage) :
       Amend(path, [EntryOf(path) EXCEPT !.idVendor = v, !.idProduct = p])

\* "usb 1-4: SerialNumber: 4C530001"
SerialNumberFound(path, serial) ==
  /\ ReadLine
  /\ Amend(path, [EntryOf(path) EXCEPT !.serialNumber = serial])

\* "usb 1-4: Product: Cruzer Blade"
ProductNameFound(path, name) ==
  /\ ReadLine
  /\ Amend(path, [EntryOf(path) EXCEPT !.productName = name])

\* "usb 1-4: Manufacturer: SanDisk"
ManufacturerFound(path, name) ==
  /\ ReadLine
  /\ Amend(path, [EntryOf(path) EXCEPT !.manufacturer = name])

\* "usb 1-4: new high-speed USB device number 5 using xhci_hcd".  A port the
\* map holds keeps everything but the connection time, and keeps that too
\* unless it is marked empty.  (Seeded fault: the time is not saved.)
AnnouncedUndated(entry) == [entry EXCEPT !.isEmpty = FALSE]

AnnouncedNow(entry) ==
  [entry EXCEPT !.isEmpty = FALSE, !.connectionTime = DateOf(pos + 1)]

CheckIfNewDeviceConnected(path) ==
  LET entry == IF IsKnown(path) THEN EntryOf(path) ELSE EmptyInterface
  IN  /\ ReadLine
      /\ interfaces' = IF MatchesNew(path) /\ entry.isEmpty
                       THEN Put(interfaces, InterfaceId(path), AnnouncedNow(entry))
                       ELSE interfaces
      /\ UNCHANGED usbs

\* "usb 1-4: USB disconnect, device number 5".  Only the entry of a storage
\* device is recorded and initialised; any other stays as it is.
IsOpenStorage(path) ==
  IsKnown(path) /\ ~EntryOf(path).isEmpty /\ EntryOf(path).isStorageDevice

\* Seeded faults: the connection is not recorded; the date recorded is that of
\* the line before.
GoneNoConnection(entry) == Disconnected(UsbOf(entry), DateOf(pos + 1))
GoneBefore(entry) ==
  Disconnected(Connected(UsbOf(entry), entry.connectionTime), DateOf(pos))

GoneNow(entry) ==
  Disconnected(Connected(UsbOf(entry), entry.connectionTime), DateOf(pos + 1))

\* (Seeded fault: an entry that was recorded is not initialised.)
InitializeNothing(id) == UNCHANGED interfaces
Initialize(id) == interfaces' = Put(interfaces, id, EmptyInterface)

CheckIfDeviceDisconnected(path) ==
  /\ ReadLine
  /\ IF IsOpenStorage(path)
     THEN /\ usbs' = Put(usbs, EntryOf(path).serialNumber, GoneNow(EntryOf(path)))
          /\ Initialize(InterfaceId(path))
     ELSE UNCHANGED <<interfaces, usbs>>

\* Any line no check finds anything in, for instance another daemon's.
OtherLine == ReadLine /\ UNCHANGED <<interfaces, usbs>>

-----------------------------------------------------------------------------
\* The end of the file, and the loop of saveInterfacesInfoInUSBsMap over the
\* keys of usb_interfaces_map in their order.

\* Seeded faults: keys taken to be consecutive; the iterator not advanced; an
\* entry passed over.
AboveConsecutive(k) == {k + 1} \cap 0..End - 1
AboveOrAt(k) == {j \in DOMAIN interfaces : j >= k}
AboveNext(k) == {j \in DOMAIN interfaces : j > k + 1}

Above(k) == {j \in DOMAIN interfaces : j > k}

NextKey(k) ==
  IF Above(k) = {} THEN End ELSE CHOOSE j \in Above(k) : \A i \in Above(k) : j <= i

\* getline fails at the end of the file, or the file could not be opened.
EndOfFile ==
  /\ phase = "reading"
  /\ phase' = "saving"
  /\ cursor' = NextKey(-1)
  /\ UNCHANGED <<pos, interfaces, usbs>>

AtOpenEntry == phase = "saving" /\ cursor # End /\ ~interfaces[cursor].isEmpty

SkipEmptyInterface ==
  /\ phase = "saving" /\ cursor # End /\ interfaces[cursor].isEmpty
  /\ cursor' = NextKey(cursor)
  /\ UNCHANGED <<phase, pos, interfaces, usbs>>

\* An entry with a known serial number adds a connection time to that device,
\* be it storage or not; one with a new serial number only if it is storage.
\* (Seeded faults: an open session of a new device is forgotten; any device is
\* saved.)
IsSavedIfKnown(entry) == entry.serialNumber \in DOMAIN usbs
IsSavedAlways(entry) == TRUE

IsSaved(entry) == entry.serialNumber \in DOMAIN usbs \/ entry.isStorageDevice

SavedUsbs(entry) ==
  IF IsSaved(entry)
  THEN Put(usbs, entry.serialNumber,
           FillIn(Connected(UsbOf(entry), entry.connectionTime), entry))
  ELSE usbs

\* replaceInInterfacesMap erases the node the loop's iterator stands on, and
\* ++it then reads it.  When the insertion got the same block back, the node
\* there is the new one and the loop goes on as written; otherwise the links
\* read are whatever the freed block holds, and lead to any node or nowhere.
SaveInterface ==
  /\ AtOpenEntry
  /\ usbs' = SavedUsbs(interfaces[cursor])
  /\ Initialize(cursor)
  /\ cursor' \in IF NodeReused THEN {NextKey(cursor)}
                 ELSE DOMAIN interfaces \cup {End}
  /\ UNCHANGED <<phase, pos>>

FollowFreedNode ==
  /\ AtOpenEntry /\ ~NodeReused
  /\ usbs' = SavedUsbs(interfaces[cursor])
  /\ Initialize(cursor)
  /\ phase' = "crashed"
  /\ UNCHANGED <<pos, cursor>>

Return ==
  /\ phase = "saving" /\ cursor = End
  /\ phase' = "done"
  /\ UNCHANGED <<pos, interfaces, usbs, cursor>>

-----------------------------------------------------------------------------
Init ==
  /\ phase = "reading"
  /\ pos = 0
  /\ interfaces = <<>>
  /\ usbs = <<>>
  /\ cursor = End

AnyLine(path) ==
  \/ CheckIfStorageDevice(path)
  \/ \E v, p \in DeviceIds : IdsFound(path, v, p)
  \/ \E s \in SerialNumbers : SerialNumberFound(path, s)
  \/ \E n \in ProductNames : ProductNameFound(path, n)
  \/ \E n \in Manufacturers : ManufacturerFound(path, n)
  \/ CheckIfNewDeviceConnected(path)
  \/ CheckIfDeviceDisconnected(path)

Save == SkipEmptyInterface \/ SaveInterface \/ FollowFreedNode \/ Return

Next ==
  \/ \E path \in PortPaths : AnyLine(path)
  \/ OtherLine
  \/ EndOfFile
  \/ Save

Spec == Init /\ [][Next]_vars

-----------------------------------------------------------------------------
(***************************************************************************)
(* Properties.                                                             *)
(***************************************************************************)

\* Both maps hold what their C++ types say, keyed by what the regular
\* expressions and serial-number lines produce; the saving loop's iterator is
\* on an element or at the end.
TypeOK ==
  /\ phase \in {"reading", "saving", "done", "crashed"}
  /\ pos \in Times
  /\ DOMAIN interfaces \subseteq InterfaceIds
  /\ interfaces \in [DOMAIN interfaces -> UsbInterface]
  /\ DOMAIN usbs \subseteq Serials
  /\ usbs \in [DOMAIN usbs -> UsbInfo]
  /\ cursor \in DOMAIN interfaces \cup {End}

Readable(time) == time # NoTime

\* printHTML pairs the i-th connection of a device with its i-th
\* disconnection.  Whatever lines are missing, repeated or out of place, each
\* disconnection has such a partner, from an earlier line of the log: what
\* the early disconnect handler and the saving loop append never shifts the
\* two lists against each other.
SessionsAreIntervals ==
  \A s \in DOMAIN usbs : \A i \in DOMAIN usbs[s].disconnectionTimes :
    /\ i \in DOMAIN usbs[s].connectionTimes
    /\ (Readable(usbs[s].connectionTimes[i]) /\ Readable(usbs[s].disconnectionTimes[i]))
         => usbs[s].connectionTimes[i] < usbs[s].disconnectionTimes[i]

\* One "new" line makes at most one connection in the whole result, and one
\* "disconnect" line at most one disconnection: an entry that was turned into
\* a session is really gone from usb_interfaces_map, so neither the saving
\* loop nor a later disconnect can report it again, not even when the loop's
\* dangling iterator comes back to a key.
NoLineCountedTwice ==
  \A s, t \in DOMAIN usbs :
    /\ \A i \in DOMAIN usbs[s].connectionTimes, j \in DOMAIN usbs[t].connectionTimes :
         (/\ Readable(usbs[s].connectionTimes[i])
          /\ usbs[s].connectionTimes[i] = usbs[t].connectionTimes[j])
         => s = t /\ i = j
    /\ \A i \in DOMAIN usbs[s].disconnectionTimes, j \in DOMAIN usbs[t].disconnectionTimes :
         (/\ Readable(usbs[s].disconnectionTimes[i])
          /\ usbs[s].disconnectionTimes[i] = usbs[t].disconnectionTimes[j])
         => s = t /\ i = j

\* A device once in usb_map stays, with all times recorded for it in their
\* order, and with every field that was set: replaceInUSBsMap erases and
\* inserts, and saving fills in only what was missing.
Extends(longer, shorter) ==
  /\ Len(longer) >= Len(shorter)
  /\ \A i \in DOMAIN shorter : longer[i] = shorter[i]

KeepsHistory(new, old) ==
  /\ Extends(new.connectionTimes, old.connectionTimes)
  /\ Extends(new.disconnectionTimes, old.disconnectionTimes)
  /\ old.idVendor # 0 => new.idVendor = old.idVendor
  /\ old.idProduct # 0 => new.idProduct = old.idProduct
  /\ old.productName # NoText => new.productName = old.productName
  /\ old.manufacturer # NoText => new.manufacturer = old.manufacturer
  /\ new.serialNumber = old.serialNumber

HistoryKept ==
  [][\A s \in DOMAIN usbs : s \in DOMAIN usbs' /\ KeepsHistory(usbs'[s], usbs[s])]_vars

\* The entry of a storage device is emptied only by the step that puts its
\* connection time at the end of its device's list: no path through the
\* handlers or the saving loop forgets an open session.
OpenSessionsAreRecorded ==
  [][\A id \in DOMAIN interfaces :
       LET e == interfaces[id]
       IN  (~e.isEmpty /\ e.isStorageDevice /\ interfaces'[id].isEmpty)
           => /\ e.serialNumber \in DOMAIN usbs'
              /\ LET times == usbs'[e.serialNumber].connectionTimes
                 IN  times # <<>> /\ times[Len(times)] = e.connectionTime]_vars

\* "Save interfaces information not synchronized with usbs map": when
\* getUSBsInfo returns, no entry is left that was not moved or dropped.
AllInterfacesSaved ==
  phase = "done" => \A id \in DOMAIN interfaces : interfaces[id].isEmpty

=============================================================================
