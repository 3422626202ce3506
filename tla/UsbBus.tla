-------------------------------- MODULE UsbBus --------------------------------
(***************************************************************************)
(* The log parser reading what a kernel writes.  The bus plugs devices in, *)
(* announces them line by line, and unplugs them; the parser of UsbLog     *)
(* takes each line as it is written, which is the same as reading the file *)
(* afterwards, since its state is a function of the lines read so far.     *)
(*                                                                         *)
(* sessions records what really happened, for the properties to compare    *)
(* with what the parser made of it.                                        *)
(***************************************************************************)
EXTENDS UsbLog

CONSTANTS
  Devices,   \* [storage, vendor, model, product, serial, ports]: vendor and
             \* model are the two ids, ports the sockets the device goes to;
             \* product or serial is NoText for a device that does not tell
  NoDevice,
  Faults     \* what may go wrong besides unplugging, of
             \*   "lost"   a line does not reach the file
             \*   "failed" a device does not answer after its "new" line
             \*   "early"  a device is unplugged before its driver is bound

ASSUME DeviceAssumption ==
  /\ NoDevice \notin Devices
  /\ \A d \in Devices :
       /\ d.storage \in BOOLEAN
       /\ {d.vendor, d.model} \subseteq DeviceIds
       /\ d.product \in ProductNames \cup {NoText}
       /\ d.serial \in Serials
       /\ d.ports \subseteq PortPaths

ASSUME FaultAssumption == Faults \subseteq {"lost", "failed", "early"}

VARIABLES
  bus,       \* port path -> the device there and how far it is announced
  sessions   \* device -> its sessions that have ended

busVars == <<vars, bus, sessions>>

-----------------------------------------------------------------------------
FreePort == [device |-> NoDevice, announced |-> 0, since |-> NoTime, clean |-> FALSE]

\* usb_new_device logs the ids and those strings that the device has, then
\* the storage driver logs its probe.
Kinds == <<"new", "ids", "product", "serial", "storage">>

Tells(device, k) ==
  /\ Kinds[k] = "product" => device.product # NoText
  /\ Kinds[k] = "serial"  => device.serial # NoText
  /\ Kinds[k] = "storage" => device.storage

\* What is still to be logged of the device on a port.
Remaining(path) ==
  {k \in bus[path].announced + 1..5 : Tells(bus[path].device, k)}

Announced(path) == Remaining(path) = {}

Line(kind, path, device) ==
  \/ kind = "new"     /\ CheckIfNewDeviceConnected(path)
  \/ kind = "ids"     /\ IdsFound(path, device.vendor, device.model)
  \/ kind = "product" /\ ProductNameFound(path, device.product)
  \/ kind = "serial"  /\ SerialNumberFound(path, device.serial)
  \/ kind = "storage" /\ CheckIfStorageDevice(path)
  \/ kind = "disconnect" /\ CheckIfDeviceDisconnected(path)

\* The parser starts a session on a port from nothing.
IsBlank(path) == IsKnown(path) => EntryOf(path) = EmptyInterface

\* A session is clean as long as its port was blank when it began, all its
\* lines reached the file, and no line about another port was taken for it.
SetPort(path, state) ==
  bus' = [p \in PortPaths |->
            IF p = path THEN state
            ELSE IF InterfaceId(p) = InterfaceId(path)
            THEN [bus[p] EXCEPT !.clean = FALSE]
            ELSE bus[p]]

Write(kind, path, device, state) ==
  \/ /\ Line(kind, path, device)
     /\ SetPort(path, state)
  \/ /\ "lost" \in Faults
     /\ OtherLine
     /\ SetPort(path, [state EXCEPT !.clean = FALSE])

HubOf(path) == SubSeq(path, 1, Len(path) - 1)
IsAttached(path) == HubOf(path) \in PortPaths => bus[HubOf(path)].device # NoDevice
Behind(path) == {p \in PortPaths : Len(p) > 2 /\ HubOf(p) = path}

Plug(path, device) ==
  /\ bus[path] = FreePort /\ path \in device.ports
  /\ \A p \in PortPaths : bus[p].device # device
  /\ IsAttached(path) /\ \A p \in Behind(path) : bus[p] = FreePort
  /\ Write("new", path, device,
           [device |-> device, announced |-> 1, since |-> pos + 1,
            clean |-> MatchesNew(path) /\ IsBlank(path)])
  /\ UNCHANGED sessions

Announce(path) ==
  LET b == bus[path]
  IN  /\ b # FreePort /\ IsAttached(path)
      /\ \E k \in Remaining(path) :
           /\ \A j \in Remaining(path) : k <= j
           /\ Write(Kinds[k], path, b.device, [b EXCEPT !.announced = k])
      /\ UNCHANGED sessions

\* "usb 1-4: device descriptor read/64, error -71": the port is given up, and
\* nothing more is logged of that device.
GiveUp(path) ==
  /\ "failed" \in Faults
  /\ bus[path].announced = 1
  /\ OtherLine
  /\ SetPort(path, FreePort)
  /\ UNCHANGED sessions

\* Unplugging a hub leaves the devices behind it to be unplugged next.
Unplug(path) ==
  LET b == bus[path]
  IN  /\ b # FreePort
      /\ "early" \notin Faults =>
           \A p \in {path} \cup Behind(path) : bus[p] # FreePort => Announced(p)
      /\ \/ /\ Line("disconnect", path, b.device)
            /\ sessions' = [sessions EXCEPT ![b.device] =
                 Append(@, [from |-> b.since, to |-> pos + 1,
                            clean |-> b.clean /\ Announced(path)])]
         \/ /\ "lost" \in Faults
            /\ OtherLine
            /\ sessions' = [sessions EXCEPT ![b.device] =
                 Append(@, [from |-> b.since, to |-> pos + 1, clean |-> FALSE])]
      /\ SetPort(path, FreePort)

-----------------------------------------------------------------------------
BusInit ==
  /\ Init
  /\ bus = [p \in PortPaths |-> FreePort]
  /\ sessions = [d \in Devices |-> <<>>]

BusLineAt(path) ==
  \/ \E device \in Devices : Plug(path, device)
  \/ Announce(path)
  \/ GiveUp(path)
  \/ Unplug(path)

BusNext ==
  \/ \E path \in PortPaths : BusLineAt(path)
  \/ (EndOfFile \/ Save) /\ UNCHANGED <<bus, sessions>>

BusSpec == BusInit /\ [][BusNext]_busVars

-----------------------------------------------------------------------------
(***************************************************************************)
(* Properties.                                                             *)
(***************************************************************************)

BusTypeOK ==
  /\ TypeOK
  /\ bus \in [PortPaths -> [device : Devices \cup {NoDevice}, announced : 0..5,
                            since : Times, clean : BOOLEAN]]
  /\ sessions \in [Devices -> Seq([from : Times, to : Times, clean : BOOLEAN])]

StorageDevices == {d \in Devices : d.storage}

\* usbs holds an interval for device d that is exactly the session.
IsReported(d, session) ==
  /\ d.serial \in DOMAIN usbs
  /\ \E i \in DOMAIN usbs[d.serial].disconnectionTimes :
       /\ usbs[d.serial].connectionTimes[i] = DateOf(session.from)
       /\ usbs[d.serial].disconnectionTimes[i] = DateOf(session.to)

\* Whatever went wrong before on its port, elsewhere or with other devices, a
\* storage session that began on a blank entry and whose own lines were all
\* read is in the result, under its serial number and with its two times.
CleanSessionsAreReported ==
  \A d \in StorageDevices : \A i \in DOMAIN sessions[d] :
    sessions[d][i].clean => IsReported(d, sessions[d][i])

\* A bus on which nothing goes wrong: no faults, no two ports that the parser
\* takes for one another, and storage devices neither behind hubs nor in
\* sockets that other devices go to.
OrderlyBus ==
  /\ Faults = {}
  /\ \A p, q \in PortPaths : InterfaceId(p) = InterfaceId(q) => p = q
  /\ \A d \in StorageDevices : \A p \in d.ports :
       /\ MatchesNew(p)
       /\ \A c \in Devices : p \in c.ports => c \in StorageDevices

\* A storage device has a serial number, which no other device has.
OwnSerials ==
  \A d \in StorageDevices :
    d.serial # NoText /\ \A c \in Devices : c.serial = d.serial => c = d

\* Every line of the log has a date that date_regex finds.
DatesRead == \A line \in 1..LogLength : DateMatches(DayOf[line])

\* The report's promise of "times when they were connected and disconnected":
\* every interval in the result is one in which a storage device with that
\* serial number was really connected.
ReportedSessionsHappened ==
  \A s \in DOMAIN usbs : \A i \in DOMAIN usbs[s].disconnectionTimes :
    \E d \in StorageDevices : \E j \in DOMAIN sessions[d] :
      /\ d.serial = s
      /\ usbs[s].connectionTimes[i] = DateOf(sessions[d][j].from)
      /\ usbs[s].disconnectionTimes[i] = DateOf(sessions[d][j].to)

\* ... and the other half: every storage session is in the result.
SessionsAreReported ==
  \A d \in StorageDevices : \A i \in DOMAIN sessions[d] :
    IsReported(d, sessions[d][i])

\* printHTML shows a device green, "Connected", when it has more connections
\* than disconnections.  At the end of the log it is then really plugged in,
\* and a storage device that is plugged in and announced is shown so.
OnBus(serial) ==
  {p \in PortPaths : bus[p].device \in StorageDevices /\ bus[p].device.serial = serial}

ShownConnected(serial) ==
  /\ serial \in DOMAIN usbs
  /\ Len(usbs[serial].connectionTimes) > Len(usbs[serial].disconnectionTimes)

ConnectedMeansPlugged ==
  phase = "done" =>
    \A s \in Serials :
      /\ ShownConnected(s) => OnBus(s) # {}
      /\ (\E p \in OnBus(s) : Announced(p)) => ShownConnected(s)

\* A storage device with this serial number was plugged in when the line had
\* been written: it is so still, or a session of it tells.
WasPlugged(serial, line) ==
  \/ \E p \in OnBus(serial) : bus[p].since <= line
  \/ \E d \in StorageDevices : \E i \in DOMAIN sessions[d] :
       d.serial = serial /\ sessions[d][i].from <= line /\ line < sessions[d][i].to

\* No time in the result is missing.
TimesAreRecorded ==
  \A s \in DOMAIN usbs :
    /\ \A i \in DOMAIN usbs[s].connectionTimes : Readable(usbs[s].connectionTimes[i])
    /\ \A i \in DOMAIN usbs[s].disconnectionTimes : Readable(usbs[s].disconnectionTimes[i])

\* What is recorded of a storage device is what that device told of itself, and
\* nothing an entry still held of a device that was on the port before it.
Describes(usb, d) ==
  /\ usb.idVendor \in StringToInt(d.vendor, Garbage)
  /\ usb.idProduct \in StringToInt(d.model, Garbage)
  /\ usb.productName = d.product
  /\ usb.manufacturer = NoText

DevicesAreDescribed ==
  \A d \in StorageDevices : d.serial \in DOMAIN usbs => Describes(usbs[d.serial], d)

-----------------------------------------------------------------------------
(***************************************************************************)
(* usb_map and the open entries of usb_interfaces_map, read as a ledger.   *)
(***************************************************************************)
LedgerOf(s) ==
  IF s \in DOMAIN usbs
  THEN [i \in DOMAIN usbs[s].disconnectionTimes |->
          [from |-> usbs[s].connectionTimes[i], to |-> usbs[s].disconnectionTimes[i]]]
  ELSE <<>>

OpenEntries(s) ==
  {id \in DOMAIN interfaces : /\ ~interfaces[id].isEmpty
                             /\ interfaces[id].isStorageDevice
                             /\ interfaces[id].serialNumber = s}

OpenSince(s) ==
  IF ShownConnected(s)
  THEN usbs[s].connectionTimes[Len(usbs[s].connectionTimes)]
  ELSE IF OpenEntries(s) # {}
  THEN interfaces[CHOOSE id \in OpenEntries(s) : TRUE].connectionTime
  ELSE NoTime

Ledger == INSTANCE SessionLedger WITH
  Serial <- SerialNumbers,
  Horizon <- LogLength,
  open <- [s \in SerialNumbers |-> OpenSince(s)],
  ledger <- [s \in SerialNumbers |-> LedgerOf(s)]

\* Read so, the parser implements the ledger: a session is opened by the line
\* that completes its announcement, closed by its disconnect line, and moved
\* from one map to the other by the saving loop without changing.
KeepsLedger == Ledger!Spec

=============================================================================
