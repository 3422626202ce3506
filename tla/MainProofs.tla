------------------------------ MODULE MainProofs ------------------------------
(***************************************************************************)
(* Theorems about main() gathering twice: what holds of one call, for any  *)
(* log, holds of both, with the log rotated at any time; the report        *)
(* continues what the terminal showed; and what either shows as connected  *)
(* was plugged in when it was read, though the bus goes on until then.     *)
(***************************************************************************)
EXTENDS Main, LedgerProofs

-----------------------------------------------------------------------------
(***************************************************************************)
(* A reader of all that the kernel has written is one more call that reads. *)
(* The second call starts from it, so what was proved of one call is       *)
(* carried for it, too.                                                    *)
(***************************************************************************)
Held == INSTANCE LedgerProofs WITH
  phase <- "reading", cursor <- End, pos <- aheadPos,
  bus <- aheadBus, sessions <- aheadSessions,
  interfaces <- aheadInterfaces, usbs <- aheadUsbs

Together ==
  phase = "reading" =>
    /\ cursor = End
    /\ aheadPos = pos /\ aheadBus = bus /\ aheadSessions = sessions
    /\ aheadInterfaces = interfaces /\ aheadUsbs = usbs

-----------------------------------------------------------------------------
(***************************************************************************)
(* The inductive invariants, in parts: of the call, and of the reader.     *)
(***************************************************************************)
MainBusInv == Together /\ BusInv /\ Held!BusInv
MainOrderlyInv == OrderlyInv /\ Held!OrderlyInv
MainToldInv == ToldInv /\ Held!ToldInv
MainOpenInv == OpenInv /\ Held!OpenInv
MainFieldsInv == FieldsInv /\ Held!FieldsInv

\* What was plugged in when the call came to the end of the log was so, to
\* the kernel, when the last line the call has read had been written.
Window ==
  phase # "reading" =>
    /\ pos <= aheadPos
    /\ \A s \in StorageSerials : OnBus(s) # {} => Held!WasPlugged(s, pos)

MainWindowInv == SinceRead /\ Held!SinceRead /\ Window

\* An entry the loop will make a connection of.
Pending(s) == {id \in OpenFor(s) : IsSaved(interfaces[id])}

\* What the first call will show of a device once it is through with the loop,
\* the reader accounts for: with the connection of each open entry it will save,
\* and as it stands when there is none.
PendingOwed(s) ==
  \A id \in Pending(s) :
    Held!Accounts(s, Append(ConnectionsOf(s), interfaces[id].connectionTime),
                  DisconnectionsOf(s))

ShownOwed(s) ==
  (s \in DOMAIN usbs /\ Pending(s) = {}) =>
    Held!Accounts(s, ConnectionsOf(s), DisconnectionsOf(s))

FirstOwes ==
  (gathering = 1 /\ phase # "reading") =>
    \A s \in StorageSerials : PendingOwed(s) /\ ShownOwed(s)

\* What the terminal showed, the second call accounts for.
SecondOwes ==
  (gathering = 2 /\ ~rotated) =>
    \A s \in DOMAIN terminal :
      Accounts(s, terminal[s].connectionTimes, terminal[s].disconnectionTimes)

\* What the terminal showed of a device is what that told of itself.
TerminalDescribed ==
  /\ DOMAIN terminal \subseteq StorageSerials
  /\ \A s \in DOMAIN terminal :
       /\ terminal[s] \in UsbInfo /\ terminal[s].serialNumber = s
       /\ \A d \in StorageDevices : d.serial = s => Describes(terminal[s], d)

ReportInv == FirstOwes /\ SecondOwes /\ TerminalDescribed

-----------------------------------------------------------------------------
(***************************************************************************)
(* A line written later is one that the reader reads.                      *)
(***************************************************************************)
LEMMA AheadReads ==
  ASSUME Ahead!ReadLine
  PROVE  Held!ReadLine
  BY DEF Ahead!ReadLine, Held!ReadLine

LEMMA AheadPaths ==
  ASSUME NEW path
  PROVE  /\ Held!IsKnown(path) <=> Ahead!IsKnown(path)
         /\ Held!EntryOf(path) = Ahead!EntryOf(path)
         /\ Held!InterfaceId(path) = Ahead!InterfaceId(path)
         /\ Held!MatchesNew(path) <=> Ahead!MatchesNew(path)
  <1>1. Held!InterfaceId(path) = Ahead!InterfaceId(path)
    BY DEF Held!InterfaceId, Ahead!InterfaceId, Held!FirstDigit, Ahead!FirstDigit
  <1>2. Held!MatchesUsb(path) <=> Ahead!MatchesUsb(path)
    BY DEF Held!MatchesUsb, Ahead!MatchesUsb
  <1>3. Held!MatchesNew(path) <=> Ahead!MatchesNew(path)
    BY <1>2 DEF Held!MatchesNew, Ahead!MatchesNew
  <1>4. Held!EntryOf(path) = Ahead!EntryOf(path)
    BY <1>1 DEF Held!EntryOf, Ahead!EntryOf
  <1> QED
    BY <1>1, <1>2, <1>3, <1>4 DEF Held!IsKnown, Ahead!IsKnown

LEMMA AheadValues ==
  /\ Held!EmptyInterface = Ahead!EmptyInterface
  /\ Held!FreePort = Ahead!FreePort
  /\ Held!Kinds = Ahead!Kinds
  /\ \A line : Held!DateOf(line) = Ahead!DateOf(line)
  /\ \A map, key, element : Held!Put(map, key, element) = Ahead!Put(map, key, element)
  /\ \A id : Held!StringToInt(id, Garbage) = Ahead!StringToInt(id, Garbage)
  BY DEF Held!EmptyInterface, Ahead!EmptyInterface, Held!NoTime, Ahead!NoTime,
         Held!FreePort, Ahead!FreePort, Held!Kinds, Ahead!Kinds, Held!DateOf, Ahead!DateOf,
         Held!DateMatches, Ahead!DateMatches, Held!Put, Ahead!Put,
         Held!StringToInt, Ahead!StringToInt, Held!DecimalDigits, Ahead!DecimalDigits,
         Held!HexDigits, Ahead!HexDigits

LEMMA AheadGone ==
  ASSUME NEW entry
  PROVE  Held!GoneNow(entry) = Ahead!GoneNow(entry)
  <1>1. Held!UsbOf(entry) = Ahead!UsbOf(entry)
    BY DEF Held!UsbOf, Ahead!UsbOf, Held!NewUsb, Ahead!NewUsb
  <1> QED
    BY <1>1, AheadValues
       DEF Held!GoneNow, Ahead!GoneNow, Ahead!Connected, Held!Connected,
           Ahead!Disconnected, Held!Disconnected

LEMMA AheadLine ==
  ASSUME NEW kind, NEW path, NEW device, Ahead!Line(kind, path, device)
  PROVE  Held!Line(kind, path, device)
  <1>1. \A entry : Ahead!Amend(path, entry) => Held!Amend(path, entry)
    BY AheadPaths, AheadValues DEF Held!Amend, Ahead!Amend
  <1>2. ASSUME Ahead!CheckIfNewDeviceConnected(path)
        PROVE  Held!CheckIfNewDeviceConnected(path)
    <2> DEFINE entry == IF Held!IsKnown(path) THEN Held!EntryOf(path) ELSE Held!EmptyInterface
    <2>1. entry = IF Ahead!IsKnown(path) THEN Ahead!EntryOf(path) ELSE Ahead!EmptyInterface
      BY AheadPaths, AheadValues
    <2>2. Held!AnnouncedNow(entry) = Ahead!AnnouncedNow(entry)
      BY AheadValues DEF Held!AnnouncedNow, Ahead!AnnouncedNow
    <2> HIDE DEF entry
    <2>3. /\ Held!ReadLine
          /\ aheadInterfaces' =
               IF Held!MatchesNew(path) /\ entry.isEmpty
               THEN Held!Put(aheadInterfaces, Held!InterfaceId(path), Held!AnnouncedNow(entry))
               ELSE aheadInterfaces
          /\ UNCHANGED aheadUsbs
      BY <1>2, <2>1, <2>2, AheadReads, AheadPaths, AheadValues
         DEF Ahead!CheckIfNewDeviceConnected
    <2> QED
      BY <2>3 DEF Held!CheckIfNewDeviceConnected, entry
  <1>3. ASSUME Ahead!IdsFound(path, device.vendor, device.model)
        PROVE  Held!IdsFound(path, device.vendor, device.model)
    <2>1. PICK v \in Ahead!StringToInt(device.vendor, Garbage),
               p \in Ahead!StringToInt(device.model, Garbage) :
            Ahead!Amend(path, [Ahead!EntryOf(path) EXCEPT !.idVendor = v, !.idProduct = p])
      BY <1>3 DEF Ahead!IdsFound
    <2>2. Held!Amend(path, [Held!EntryOf(path) EXCEPT !.idVendor = v, !.idProduct = p])
      BY <1>1, <2>1, AheadPaths
    <2>3. /\ v \in Held!StringToInt(device.vendor, Garbage)
          /\ p \in Held!StringToInt(device.model, Garbage)
      BY AheadValues
    <2>4. Held!ReadLine
      BY <1>3, AheadReads DEF Ahead!IdsFound
    <2> QED
      BY <2>2, <2>3, <2>4 DEF Held!IdsFound
  <1>4. ASSUME Ahead!ProductNameFound(path, device.product)
        PROVE  Held!ProductNameFound(path, device.product)
    BY <1>1, <1>4, AheadReads, AheadPaths DEF Ahead!ProductNameFound, Held!ProductNameFound
  <1>5. ASSUME Ahead!SerialNumberFound(path, device.serial)
        PROVE  Held!SerialNumberFound(path, device.serial)
    BY <1>1, <1>5, AheadReads, AheadPaths DEF Ahead!SerialNumberFound, Held!SerialNumberFound
  <1>6. ASSUME Ahead!CheckIfStorageDevice(path)
        PROVE  Held!CheckIfStorageDevice(path)
    BY <1>1, <1>6, AheadReads, AheadPaths
       DEF Ahead!CheckIfStorageDevice, Held!CheckIfStorageDevice
  <1>7. ASSUME Ahead!CheckIfDeviceDisconnected(path)
        PROVE  Held!CheckIfDeviceDisconnected(path)
    <2>1. Held!IsOpenStorage(path) <=> Ahead!IsOpenStorage(path)
      BY AheadPaths DEF Ahead!IsOpenStorage, Held!IsOpenStorage
    <2>2. Ahead!Initialize(Ahead!InterfaceId(path)) => Held!Initialize(Held!InterfaceId(path))
      BY AheadPaths, AheadValues DEF Ahead!Initialize, Held!Initialize
    <2>3. Held!Put(aheadUsbs, Held!EntryOf(path).serialNumber, Held!GoneNow(Held!EntryOf(path)))
          = Ahead!Put(aheadUsbs, Ahead!EntryOf(path).serialNumber,
                      Ahead!GoneNow(Ahead!EntryOf(path)))
      BY AheadPaths, AheadValues, AheadGone
    <2> QED
      BY <1>7, <2>1, <2>2, <2>3, AheadReads
         DEF Ahead!CheckIfDeviceDisconnected, Held!CheckIfDeviceDisconnected
  <1> QED
    BY <1>2, <1>3, <1>4, <1>5, <1>6, <1>7 DEF Ahead!Line, Held!Line

LEMMA AheadPorts ==
  ASSUME NEW path
  PROVE  /\ \A state : Ahead!SetPort(path, state) => Held!SetPort(path, state)
         /\ \A kind, device, state :
              Ahead!Write(kind, path, device, state) => Held!Write(kind, path, device, state)
         /\ Ahead!OtherLine => Held!OtherLine
         /\ Held!Remaining(path) = Ahead!Remaining(path)
         /\ Held!Announced(path) <=> Ahead!Announced(path)
         /\ Held!IsBlank(path) <=> Ahead!IsBlank(path)
         /\ Held!IsAttached(path) <=> Ahead!IsAttached(path)
         /\ Held!Behind(path) = Ahead!Behind(path)
  <1>1. \A state : Ahead!SetPort(path, state) => Held!SetPort(path, state)
    BY AheadPaths DEF Ahead!SetPort, Held!SetPort
  <1>2. Ahead!OtherLine => Held!OtherLine
    BY AheadReads DEF Ahead!OtherLine, Held!OtherLine
  <1>3. \A kind, device, state :
          Ahead!Write(kind, path, device, state) => Held!Write(kind, path, device, state)
    BY <1>1, <1>2, AheadLine DEF Ahead!Write, Held!Write
  <1>4. Held!Remaining(path) = Ahead!Remaining(path)
    BY AheadValues DEF Held!Remaining, Ahead!Remaining, Held!Tells, Ahead!Tells
  <1>5. Held!IsBlank(path) <=> Ahead!IsBlank(path)
    BY AheadPaths, AheadValues DEF Held!IsBlank, Ahead!IsBlank
  <1>6. Held!IsAttached(path) <=> Ahead!IsAttached(path)
    BY DEF Held!IsAttached, Ahead!IsAttached, Held!HubOf, Ahead!HubOf
  <1>7. Held!Behind(path) = Ahead!Behind(path)
    BY DEF Held!Behind, Ahead!Behind, Held!HubOf, Ahead!HubOf
  <1> QED
    BY <1>1, <1>2, <1>3, <1>4, <1>5, <1>6, <1>7 DEF Held!Announced, Ahead!Announced

LEMMA AheadStep ==
  ASSUME NEW path, Ahead!BusLineAt(path)
  PROVE  Held!BusLineAt(path)
  <1>1. ASSUME NEW device \in Devices, Ahead!Plug(path, device)
        PROVE  Held!Plug(path, device)
    BY <1>1, AheadPorts, AheadPaths, AheadValues DEF Ahead!Plug, Held!Plug
  <1>2. ASSUME Ahead!Announce(path)
        PROVE  Held!Announce(path)
    BY <1>2, AheadPorts, AheadValues DEF Ahead!Announce, Held!Announce
  <1>3. ASSUME Ahead!GiveUp(path)
        PROVE  Held!GiveUp(path)
    BY <1>3, AheadPorts, AheadValues DEF Ahead!GiveUp, Held!GiveUp
  <1>4. ASSUME Ahead!Unplug(path)
        PROVE  Held!Unplug(path)
    BY <1>4, AheadPorts, AheadLine, AheadValues DEF Ahead!Unplug, Held!Unplug
  <1> QED
    BY <1>1, <1>2, <1>3, <1>4 DEF Ahead!BusLineAt, Held!BusLineAt

-----------------------------------------------------------------------------
(***************************************************************************)
(* While a call reads, the reader has what it has.                         *)
(***************************************************************************)
LEMMA HeldOperators ==
  ASSUME phase = "reading", Together
  PROVE
    /\ \A s : /\ Held!ConnectionsOf(s) = ConnectionsOf(s)
              /\ Held!DisconnectionsOf(s) = DisconnectionsOf(s)
              /\ Held!OnBus(s) = OnBus(s)
              /\ Held!OpenFor(s) = OpenFor(s)
    /\ \A p : /\ Held!IsKnown(p) <=> IsKnown(p)
              /\ Held!EntryOf(p) = EntryOf(p)
              /\ Held!InterfaceId(p) = InterfaceId(p)
    /\ \A n : Held!DateOf(n) = DateOf(n)
    /\ \A x, d : Held!Describes(x, d) <=> Describes(x, d)
    /\ Held!StorageDevices = StorageDevices /\ Held!StorageSerials = StorageSerials
    /\ Held!FreePort = FreePort
  <1>1. /\ aheadPos = pos /\ aheadBus = bus /\ aheadSessions = sessions
        /\ aheadInterfaces = interfaces /\ aheadUsbs = usbs
    BY DEF Together
  <1>2. Held!StorageDevices = StorageDevices /\ Held!StorageSerials = StorageSerials
    BY <1>1 DEF StorageDevices, Held!StorageDevices, StorageSerials, Held!StorageSerials
  <1>3. \A s : /\ Held!ConnectionsOf(s) = ConnectionsOf(s)
               /\ Held!DisconnectionsOf(s) = DisconnectionsOf(s)
               /\ Held!OnBus(s) = OnBus(s)
               /\ Held!OpenFor(s) = OpenFor(s)
    BY <1>1, <1>2
       DEF ConnectionsOf, Held!ConnectionsOf, DisconnectionsOf, Held!DisconnectionsOf,
           OnBus, Held!OnBus, OpenFor, Held!OpenFor
  <1>4. \A p : /\ Held!IsKnown(p) <=> IsKnown(p)
               /\ Held!EntryOf(p) = EntryOf(p)
               /\ Held!InterfaceId(p) = InterfaceId(p)
    BY <1>1 DEF IsKnown, Held!IsKnown, MatchesUsb, Held!MatchesUsb, EntryOf, Held!EntryOf,
                InterfaceId, Held!InterfaceId, FirstDigit, Held!FirstDigit
  <1>5. \A n : Held!DateOf(n) = DateOf(n)
    BY <1>1 DEF DateOf, Held!DateOf, DateMatches, Held!DateMatches, NoTime, Held!NoTime
  <1>6. \A x, d : Held!Describes(x, d) <=> Describes(x, d)
    BY <1>1 DEF Describes, Held!Describes, StringToInt, Held!StringToInt,
           DecimalDigits, Held!DecimalDigits, HexDigits, Held!HexDigits
  <1>7. Held!FreePort = FreePort
    BY <1>1 DEF FreePort, Held!FreePort, NoTime, Held!NoTime
  <1> QED
    BY <1>2, <1>3, <1>4, <1>5, <1>6, <1>7

LEMMA HeldBus ==
  (phase = "reading" /\ Together) => (Held!BusInv <=> BusInv)
  <1> SUFFICES ASSUME phase = "reading", Together
               PROVE  Held!BusInv <=> BusInv
    OBVIOUS
  <1>1. /\ aheadPos = pos /\ aheadBus = bus /\ aheadSessions = sessions
        /\ aheadInterfaces = interfaces /\ aheadUsbs = usbs /\ cursor = End
    BY DEF Together
  <1>2. Held!TypeOK <=> TypeOK
    BY <1>1 DEF TypeOK, Held!TypeOK, Times, Held!Times, Serials, Held!Serials, End, Held!End,
                UsbInterface, Held!UsbInterface, UsbInfo, Held!UsbInfo,
                InterfaceIds, Held!InterfaceIds
  <1>3. \A s : /\ Held!ConnectionsOf(s) = ConnectionsOf(s)
               /\ Held!DisconnectionsOf(s) = DisconnectionsOf(s)
    BY HeldOperators
  <1>4. /\ Held!TimesPast <=> TimesPast
        /\ Held!ListsPaired <=> ListsPaired
        /\ Held!EntriesApart <=> EntriesApart
        /\ Held!ConnectionsApart <=> ConnectionsApart
        /\ Held!DisconnectionsApart <=> DisconnectionsApart
    BY <1>1, <1>3
       DEF TimesPast, Held!TimesPast, ListsPaired, Held!ListsPaired,
           EntriesApart, Held!EntriesApart, ConnectionsApart, Held!ConnectionsApart,
           DisconnectionsApart, Held!DisconnectionsApart, Serials, Held!Serials,
           UpTo, Held!UpTo, Has, Held!Has, Once, Held!Once, Paired, Held!Paired,
           Readable, Held!Readable, NoTime, Held!NoTime, Times, Held!Times
  <1>5. Held!IInv <=> IInv
    BY <1>1, <1>2, <1>4 DEF IInv, Held!IInv
  <1>6. Held!KeyIsSerial <=> KeyIsSerial
    BY <1>1 DEF KeyIsSerial, Held!KeyIsSerial
  <1>7. Held!BusTypeOK <=> BusTypeOK
    BY <1>1, <1>2 DEF BusTypeOK, Held!BusTypeOK, Times, Held!Times
  <1>8. Held!Occupied <=> Occupied
    BY <1>1 DEF Occupied, Held!Occupied, FreePort, Held!FreePort, NoTime, Held!NoTime
  <1>9. /\ \A p : /\ Held!IsKnown(p) <=> IsKnown(p)
                  /\ Held!EntryOf(p) = EntryOf(p)
        /\ \A n : Held!DateOf(n) = DateOf(n)
    BY HeldOperators
  <1>10. Held!CleanPortsMatch <=> CleanPortsMatch
    BY <1>1, <1>9
       DEF CleanPortsMatch, Held!CleanPortsMatch, EntryMatches, Held!EntryMatches,
           MatchesNew, Held!MatchesNew, MatchesUsb, Held!MatchesUsb
  <1>11. Held!CleanSessionsAreReported <=> CleanSessionsAreReported
    BY <1>1, <1>9
       DEF CleanSessionsAreReported, Held!CleanSessionsAreReported, IsReported,
           Held!IsReported, StorageDevices, Held!StorageDevices
  <1> QED
    BY <1>5, <1>6, <1>7, <1>8, <1>10, <1>11 DEF BusInv, Held!BusInv

LEMMA HeldOrderly ==
  (phase = "reading" /\ Together) => (Held!OrderlyInv <=> OrderlyInv)
  <1> SUFFICES ASSUME phase = "reading", Together
               PROVE  Held!OrderlyInv <=> OrderlyInv
    OBVIOUS
  <1>1. /\ aheadPos = pos /\ aheadBus = bus /\ aheadSessions = sessions
        /\ aheadInterfaces = interfaces /\ aheadUsbs = usbs
    BY DEF Together
  <1>2. Held!BusInv <=> BusInv
    BY HeldBus
  <1>3. \A p : /\ Held!IsKnown(p) <=> IsKnown(p)
               /\ Held!EntryOf(p) = EntryOf(p)
    BY HeldOperators
  <1>4. Held!FreePort = FreePort /\ Held!StorageDevices = StorageDevices
    BY HeldOperators
  <1>5. (Held!InPlace <=> InPlace) /\ (Held!Begun <=> Begun)
    BY <1>1, <1>4 DEF InPlace, Held!InPlace, Begun, Held!Begun
  <1>6. \A p : Held!IsBlank(p) <=> IsBlank(p)
    BY <1>1, <1>3 DEF IsBlank, Held!IsBlank, EmptyInterface, Held!EmptyInterface, NoTime, Held!NoTime
  <1>7. \A p : Held!StoragePort(p) <=> StoragePort(p)
    BY <1>1, <1>4 DEF StoragePort, Held!StoragePort
  <1>8. Held!StoragePortsClean <=> StoragePortsClean
    BY <1>1, <1>3, <1>4, <1>6, <1>7 DEF StoragePortsClean, Held!StoragePortsClean
  <1>9. Held!OtherPortsUnmarked <=> OtherPortsUnmarked
    BY <1>1, <1>3, <1>7 DEF OtherPortsUnmarked, Held!OtherPortsUnmarked, Unmarked, Held!Unmarked
  <1>10. Held!IntervalsHappened <=> IntervalsHappened
    <2>1. /\ \A s : /\ Held!ConnectionsOf(s) = ConnectionsOf(s)
                    /\ Held!DisconnectionsOf(s) = DisconnectionsOf(s)
          /\ \A n : Held!DateOf(n) = DateOf(n)
      BY HeldOperators
    <2>2. Held!Serials = Serials
      BY <1>1 DEF Serials, Held!Serials
    <2> QED
      BY <1>1, <1>4, <2>1, <2>2 DEF IntervalsHappened, Held!IntervalsHappened
  <1> QED
    BY <1>2, <1>5, <1>8, <1>9, <1>10 DEF OrderlyInv, Held!OrderlyInv

LEMMA HeldTold ==
  (phase = "reading" /\ Together) => (Held!ToldInv <=> ToldInv)
  <1> SUFFICES ASSUME phase = "reading", Together
               PROVE  Held!ToldInv <=> ToldInv
    OBVIOUS
  <1>1. /\ aheadPos = pos /\ aheadBus = bus /\ aheadSessions = sessions
        /\ aheadInterfaces = interfaces /\ aheadUsbs = usbs
    BY DEF Together
  <1>2. \A p : /\ Held!IsKnown(p) <=> IsKnown(p)
               /\ Held!EntryOf(p) = EntryOf(p)
               /\ Held!InterfaceId(p) = InterfaceId(p)
    BY HeldOperators
  <1>3. /\ Held!FreePort = FreePort
        /\ Held!StorageDevices = StorageDevices /\ Held!StorageSerials = StorageSerials
    BY HeldOperators
  <1>4. Held!EntriesOfPorts <=> EntriesOfPorts
    BY <1>1, <1>2 DEF EntriesOfPorts, Held!EntriesOfPorts
  <1>5. Held!UsbsAreStorage <=> UsbsAreStorage
    BY <1>1, <1>3 DEF UsbsAreStorage, Held!UsbsAreStorage
  <1>6. Held!MarkedLast <=> MarkedLast
    BY <1>1, <1>2, <1>3 DEF MarkedLast, Held!MarkedLast
  <1>7. Held!OtherSerials <=> OtherSerials
    BY <1>1, <1>2, <1>3 DEF OtherSerials, Held!OtherSerials, StoragePort, Held!StoragePort
  <1>8. OpenIsPlugged /\ Held!OpenIsPlugged /\ MoreIsPlugged /\ Held!MoreIsPlugged
    BY <1>1 DEF OpenIsPlugged, Held!OpenIsPlugged, MoreIsPlugged, Held!MoreIsPlugged
  <1> QED
    BY <1>4, <1>5, <1>6, <1>7, <1>8 DEF ToldInv, Held!ToldInv

LEMMA HeldFields ==
  (phase = "reading" /\ Together) => (Held!FieldsInv <=> FieldsInv)
  <1> SUFFICES ASSUME phase = "reading", Together
               PROVE  Held!FieldsInv <=> FieldsInv
    OBVIOUS
  <1>1. /\ aheadPos = pos /\ aheadBus = bus /\ aheadSessions = sessions
        /\ aheadInterfaces = interfaces /\ aheadUsbs = usbs
    BY DEF Together
  <1>2. /\ \A p : Held!EntryOf(p) = EntryOf(p)
        /\ \A x, d : Held!Describes(x, d) <=> Describes(x, d)
        /\ Held!StorageDevices = StorageDevices
    BY HeldOperators
  <1>3. Held!CleanFieldsMatch <=> CleanFieldsMatch
    <2>1. \A id : Held!StringToInt(id, Garbage) = StringToInt(id, Garbage)
      BY <1>1 DEF StringToInt, Held!StringToInt, DecimalDigits, Held!DecimalDigits,
             HexDigits, Held!HexDigits
    <2>2. \A p : Held!FieldsMatch(p) <=> FieldsMatch(p)
      BY <1>1, <1>2, <2>1 DEF FieldsMatch, Held!FieldsMatch
    <2> QED
      BY <1>1, <2>2 DEF CleanFieldsMatch, Held!CleanFieldsMatch
  <1>4. Held!DevicesAreDescribed <=> DevicesAreDescribed
    BY <1>1, <1>2 DEF DevicesAreDescribed, Held!DevicesAreDescribed
  <1> QED
    BY <1>3, <1>4 DEF FieldsInv, Held!FieldsInv

LEMMA HeldOpen ==
  (phase = "reading" /\ Together) => (Held!OpenInv <=> OpenInv)
  BY DEF Together, OpenInv, Held!OpenInv, OnePlace, Held!OnePlace

LEMMA HeldSince ==
  (phase = "reading" /\ Together) => (Held!SinceRead <=> SinceRead)
  BY DEF Together, SinceRead, Held!SinceRead

LEMMA HeldAccounts ==
  (phase = "reading" /\ Together) =>
    \A s, opened, ended : Held!Accounts(s, opened, ended) <=> Accounts(s, opened, ended)
  <1> SUFFICES ASSUME phase = "reading", Together, NEW s, NEW opened, NEW ended
               PROVE  Held!Accounts(s, opened, ended) <=> Accounts(s, opened, ended)
    OBVIOUS
  <1>1. aheadInterfaces = interfaces /\ aheadUsbs = usbs
    BY DEF Together
  <1>2. /\ Held!ConnectionsOf(s) = ConnectionsOf(s)
        /\ Held!DisconnectionsOf(s) = DisconnectionsOf(s)
        /\ Held!OpenFor(s) = OpenFor(s)
    BY HeldOperators
  <1>3. Held!Continues(s, opened, ended) <=> Continues(s, opened, ended)
    BY <1>1, <1>2 DEF Continues, Held!Continues, Extends, Held!Extends
  <1>4. Held!Owes(s, opened, ended) <=> Owes(s, opened, ended)
    BY <1>1, <1>2 DEF Owes, Held!Owes, OwesFor, Held!OwesFor, IsSaved, Held!IsSaved
  <1> QED
    BY <1>3, <1>4 DEF Accounts, Held!Accounts

\* ... and after a step, too.
LEMMA HeldNext ==
  (phase = "reading" /\ Together)' =>
    /\ Held!BusInv' <=> BusInv'
    /\ Held!OrderlyInv' <=> OrderlyInv'
    /\ Held!ToldInv' <=> ToldInv'
    /\ Held!OpenInv' <=> OpenInv'
    /\ Held!FieldsInv' <=> FieldsInv'
    /\ Held!SinceRead' <=> SinceRead'
    /\ \A s, opened, ended :
         Held!Accounts(s, opened, ended)' <=> Accounts(s, opened, ended)'
  <1>1. ((phase = "reading" /\ Together) => (Held!BusInv <=> BusInv))'
    BY HeldBus, PTL
  <1>2. ((phase = "reading" /\ Together) => (Held!OrderlyInv <=> OrderlyInv))'
    BY HeldOrderly, PTL
  <1>3. ((phase = "reading" /\ Together) => (Held!ToldInv <=> ToldInv))'
    BY HeldTold, PTL
  <1>4. ((phase = "reading" /\ Together) => (Held!OpenInv <=> OpenInv))'
    BY HeldOpen, PTL
  <1>5. ((phase = "reading" /\ Together) => (Held!FieldsInv <=> FieldsInv))'
    BY HeldFields, PTL
  <1>6. ((phase = "reading" /\ Together) => (Held!SinceRead <=> SinceRead))'
    BY HeldSince, PTL
  <1>7. ((phase = "reading" /\ Together) =>
           \A s, opened, ended :
             Held!Accounts(s, opened, ended) <=> Accounts(s, opened, ended))'
    BY HeldAccounts, PTL
  <1> QED
    BY <1>1, <1>2, <1>3, <1>4, <1>5, <1>6, <1>7

-----------------------------------------------------------------------------
(***************************************************************************)
(* The steps of main.                                                      *)
(***************************************************************************)
\* A step is one of getUSBsInfo's that leaves call and reader together, or a step
\* of either or neither of them, or starts the second call, or is a rotation.
LEMMA MainStepShape ==
  ASSUME Together, [MainNext]_mainVars
  PROVE  /\ Together'
         /\ \/ [BusNext]_busVars /\ phase' = "reading"
            \/ [BusNext]_busVars /\ [Held!BusNext]_(Held!busVars)
            \/ GatherAgain /\ phase' = "reading" /\ UNCHANGED Held!busVars
            \/ Rotate /\ phase' = "reading"
  <1>1. UNCHANGED ahead => UNCHANGED Held!busVars
    BY DEF ahead, Held!busVars, Held!vars
  <1>2. CASE BusLine
    <2>1. PICK path \in PortPaths : BusLineAt(path)
      BY <1>2 DEF BusLine
    <2>2. phase = "reading" /\ phase' = "reading" /\ cursor' = cursor
      BY <2>1, BusLineReads DEF ReadLine
    <2>3. Together'
      BY <1>2, <2>2 DEF BusLine, GoAlong, Together
    <2> QED
      BY <2>1, <2>2, <2>3 DEF BusNext
  <1>3. CASE LaterLine
    <2>1. PICK path \in PortPaths : Ahead!BusLineAt(path)
      BY <1>3 DEF LaterLine
    <2>2. Held!BusNext
      BY <2>1, AheadStep DEF Held!BusNext
    <2>3. phase # "reading" /\ phase' = phase /\ UNCHANGED busVars
      BY <1>3 DEF LaterLine, busVars, vars
    <2> QED
      BY <2>2, <2>3 DEF Together
  <1>4. CASE ReadToEnd \/ SaveOrReturn
    <2>1. BusNext /\ phase' # "reading" /\ UNCHANGED ahead
      BY <1>4 DEF ReadToEnd, EndOfFile, SaveOrReturn, Save, SkipEmptyInterface, SaveInterface,
                  FollowFreedNode, Return, AtOpenEntry, BusNext
    <2> QED
      BY <1>1, <2>1 DEF Together
  <1>5. CASE GatherAgain
    <2>1. phase' = "reading" /\ UNCHANGED ahead
      BY <1>5 DEF GatherAgain
    <2>2. Together'
      BY <1>5 DEF GatherAgain, ReadAgain, ahead, Together
    <2> QED
      BY <1>1, <1>5, <2>1, <2>2
  <1>6. CASE Rotate
    BY <1>6 DEF Rotate, GoAlong, Together
  <1>7. CASE UNCHANGED mainVars
    <2>1. UNCHANGED busVars /\ UNCHANGED ahead
      BY <1>7 DEF mainVars
    <2>2. Together'
      BY <2>1 DEF busVars, vars, ahead, Together
    <2> QED
      BY <1>1, <2>1, <2>2
  <1> QED
    BY <1>2, <1>3, <1>4, <1>5, <1>6, <1>7 DEF MainNext, Program

\* The reader carries what a call carries.  (Cited of the instance, a lemma asks
\* for the module's assumptions again.)
LEMMA HeldBusStep ==
  ASSUME Held!BusInv, [Held!BusNext]_(Held!busVars)
  PROVE  Held!BusInv'
  BY Held!BusStepInv, PathAssumption, IdAssumption, TextAssumption,
     LogAssumption, BuildAssumption, DeviceAssumption, FaultAssumption
     DEF Held!Serials, Serials

LEMMA HeldDevices ==
  (Held!OrderlyBus <=> OrderlyBus) /\ (Held!OwnSerials <=> OwnSerials)
  BY DEF OrderlyBus, Held!OrderlyBus, OwnSerials, Held!OwnSerials, StorageDevices,
         Held!StorageDevices, InterfaceId, Held!InterfaceId, FirstDigit, Held!FirstDigit,
         MatchesNew, Held!MatchesNew, MatchesUsb, Held!MatchesUsb

LEMMA HeldOrderlyStep ==
  ASSUME OrderlyBus, Held!OrderlyInv, [Held!BusNext]_(Held!busVars)
  PROVE  Held!OrderlyInv'
  BY HeldDevices, Held!OrderlyStepInv, PathAssumption, IdAssumption, TextAssumption,
     LogAssumption, BuildAssumption, DeviceAssumption, FaultAssumption
     DEF Held!Serials, Serials

LEMMA HeldToldStep ==
  ASSUME OrderlyBus, OwnSerials, Held!OrderlyInv, Held!ToldInv, [Held!BusNext]_(Held!busVars)
  PROVE  Held!ToldInv'
  BY HeldDevices, Held!ToldStep, PathAssumption, IdAssumption, TextAssumption,
     LogAssumption, BuildAssumption, DeviceAssumption, FaultAssumption
     DEF Held!Serials, Serials

LEMMA HeldOpenStep ==
  ASSUME OrderlyBus, OwnSerials, Held!OrderlyInv, Held!ToldInv, Held!OpenInv,
         [Held!BusNext]_(Held!busVars)
  PROVE  Held!OpenInv'
  BY HeldDevices, Held!OpenStep, PathAssumption, IdAssumption, TextAssumption,
     LogAssumption, BuildAssumption, DeviceAssumption, FaultAssumption
     DEF Held!Serials, Serials

LEMMA HeldFieldsStep ==
  ASSUME OrderlyBus, OwnSerials, Held!OrderlyInv, Held!ToldInv, Held!FieldsInv,
         [Held!BusNext]_(Held!busVars)
  PROVE  Held!FieldsInv'
  BY HeldDevices, Held!FieldsStep, PathAssumption, IdAssumption, TextAssumption,
     LogAssumption, BuildAssumption, DeviceAssumption, FaultAssumption
     DEF Held!Serials, Serials

LEMMA HeldSinceStep ==
  ASSUME OrderlyBus, Held!BusInv, Held!SinceRead, [Held!BusNext]_(Held!busVars)
  PROVE  Held!SinceRead'
  BY HeldDevices, Held!SinceStep, PathAssumption, IdAssumption, TextAssumption,
     LogAssumption, BuildAssumption, DeviceAssumption, FaultAssumption
     DEF Held!Serials, Serials

LEMMA HeldStaysPlugged ==
  ASSUME OrderlyBus, Held!BusInv, [Held!BusNext]_(Held!busVars),
         NEW line \in Int, line <= aheadPos, NEW s, Held!WasPlugged(s, line)
  PROVE  Held!WasPlugged(s, line)'
  BY HeldDevices, Held!StaysPlugged, PathAssumption, IdAssumption, TextAssumption,
     LogAssumption, BuildAssumption, DeviceAssumption, FaultAssumption
     DEF Held!Serials, Serials

LEMMA HeldAccountsStep ==
  ASSUME OrderlyBus, OwnSerials, Held!OrderlyInv, Held!ToldInv, Held!OpenInv,
         [Held!BusNext]_(Held!busVars),
         NEW s \in StorageSerials, NEW opened \in Seq(Times), NEW ended \in Seq(Times),
         Held!Accounts(s, opened, ended)
  PROVE  Held!Accounts(s, opened, ended)'
  <1>1. s \in Held!StorageSerials /\ Held!Times = Times
    BY DEF StorageSerials, Held!StorageSerials, StorageDevices, Held!StorageDevices,
           Times, Held!Times
  <1> QED
    BY <1>1, HeldDevices, Held!AccountsStep, PathAssumption, IdAssumption, TextAssumption,
     LogAssumption, BuildAssumption, DeviceAssumption, FaultAssumption
     DEF Held!Serials, Serials

-----------------------------------------------------------------------------
(***************************************************************************)
(* A rotation.                                                             *)
(***************************************************************************)
LEMMA RotateBus ==
  ASSUME BusInv, cursor = End, Rotate
  PROVE  BusInv'
  <1>1. /\ TypeOK /\ bus \in [PortPaths -> PortState]
        /\ phase = "reading" /\ phase' = "reading" /\ pos' = pos /\ cursor' = cursor
        /\ interfaces' = <<>> /\ usbs' = <<>> /\ sessions' = [d \in Devices |-> <<>>]
    BY BusTypes DEF Rotate
  <1>2. /\ bus' \in [PortPaths -> PortState]
        /\ \A p \in PortPaths : /\ bus'[p].device = bus[p].device /\ ~bus'[p].clean
                                /\ bus[p] = FreePort => bus'[p] = FreePort
    <2>1. \A b \in PortState : /\ [b EXCEPT !.clean = FALSE] \in PortState
                               /\ [b EXCEPT !.clean = FALSE].device = b.device
                               /\ ~[b EXCEPT !.clean = FALSE].clean
      BY DEF PortState
    <2>2. [FreePort EXCEPT !.clean = FALSE] = FreePort
      BY FreePortFacts
    <2>3. bus' = [p \in PortPaths |-> [bus[p] EXCEPT !.clean = FALSE]]
      BY DEF Rotate
    <2> QED
      BY <1>1, <2>1, <2>2, <2>3
  <1>3. TypeOK'
    <2>1. cursor' = End
      BY <1>1 DEF TypeOK
    <2> QED
      BY <1>1, <2>1 DEF TypeOK
  <1>4. IInv'
    <2>1. \A s : ConnectionsOf(s)' = <<>> /\ DisconnectionsOf(s)' = <<>>
      BY <1>1 DEF ConnectionsOf, DisconnectionsOf
    <2>2. /\ \A n : UpTo(<<>>, n) /\ ~Has(<<>>, n)
          /\ Paired(<<>>, <<>>) /\ Once(<<>>)
      BY DEF UpTo, Has, Paired, Once
    <2> QED
      BY <1>1, <1>3, <2>1, <2>2
         DEF IInv, TimesPast, ListsPaired, EntriesApart, ConnectionsApart, DisconnectionsApart
  <1>5. KeyIsSerial'
    BY <1>1 DEF KeyIsSerial
  <1>6. BusTypeOK'
    <2>1. sessions' \in [Devices -> Seq(Session)]
      BY <1>1
    <2> QED
      BY <1>2, <1>3, <2>1 DEF BusTypeOK, PortState, Session
  <1>7. Occupied'
    BY <1>2 DEF BusInv, Occupied
  <1>8. CleanPortsMatch'
    BY <1>2 DEF CleanPortsMatch
  <1>9. CleanSessionsAreReported'
    BY <1>1 DEF CleanSessionsAreReported, StorageDevices
  <1> QED
    BY <1>4, <1>5, <1>6, <1>7, <1>8, <1>9 DEF BusInv

LEMMA RotateOrderly ==
  ASSUME OrderlyInv, cursor = End, Rotate
  PROVE  OrderlyInv'
  <1>1. /\ bus \in [PortPaths -> PortState]
        /\ interfaces' = <<>> /\ usbs' = <<>>
    BY BusTypes DEF OrderlyInv, Rotate
  <1>2. \A p \in PortPaths : /\ bus'[p].device = bus[p].device
                             /\ bus'[p].announced = bus[p].announced
                             /\ bus[p] = FreePort => bus'[p] = FreePort
    <2>1. \A b \in PortState : /\ [b EXCEPT !.clean = FALSE].device = b.device
                               /\ [b EXCEPT !.clean = FALSE].announced = b.announced
      BY DEF PortState
    <2>2. [FreePort EXCEPT !.clean = FALSE] = FreePort
      BY FreePortFacts
    <2>3. bus' = [p \in PortPaths |-> [bus[p] EXCEPT !.clean = FALSE]]
      BY DEF Rotate
    <2> QED
      BY <1>1, <2>1, <2>2, <2>3
  <1>3. BusInv'
    BY RotateBus DEF OrderlyInv
  <1>4. InPlace' /\ Begun'
    BY <1>2 DEF OrderlyInv, InPlace, Begun
  <1>5. StoragePortsClean' /\ OtherPortsUnmarked'
    BY <1>1 DEF StoragePortsClean, OtherPortsUnmarked, IsBlank, Unmarked, IsKnown
  <1>6. IntervalsHappened'
    <2>1. \A s : DisconnectionsOf(s)' = <<>>
      BY <1>1 DEF DisconnectionsOf
    <2> QED
      BY <2>1 DEF IntervalsHappened
  <1> QED
    BY <1>3, <1>4, <1>5, <1>6 DEF OrderlyInv

LEMMA RotateTold ==
  ASSUME Rotate
  PROVE  ToldInv'
  BY DEF Rotate, ToldInv, EntriesOfPorts, UsbsAreStorage, MarkedLast, OtherSerials,
         OpenIsPlugged, MoreIsPlugged, IsKnown

LEMMA RotateFields ==
  ASSUME BusInv, Rotate
  PROVE  FieldsInv'
  <1>1. \A p \in PortPaths : ~bus'[p].clean
    BY BusTypes DEF Rotate, PortState
  <1> QED
    BY <1>1 DEF Rotate, FieldsInv, CleanFieldsMatch, DevicesAreDescribed

LEMMA RotateOpen ==
  ASSUME BusInv, OnePlace, Rotate
  PROVE  OpenInv'
  <1>1. \A p \in PortPaths : bus'[p].device = bus[p].device
    BY BusTypes DEF Rotate, PortState
  <1> QED
    BY <1>1 DEF Rotate, OpenInv, OnePlace

LEMMA RotateSince ==
  ASSUME BusInv, SinceRead, Rotate
  PROVE  SinceRead'
  <1>1. \A p \in PortPaths : bus'[p].since = bus[p].since
    BY BusTypes DEF Rotate, PortState
  <1> QED
    BY <1>1 DEF Rotate, SinceRead

-----------------------------------------------------------------------------
(***************************************************************************)
(* Every step of main keeps what the call and the reader carry.            *)
(***************************************************************************)
LEMMA MainBusStep ==
  ASSUME MainBusInv, [MainNext]_mainVars
  PROVE  MainBusInv'
  <1>1. CASE [BusNext]_busVars /\ phase' = "reading"
    BY <1>1, BusStepInv, HeldNext, MainStepShape DEF MainBusInv
  <1>2. CASE [BusNext]_busVars /\ [Held!BusNext]_(Held!busVars)
    BY <1>2, BusStepInv, HeldBusStep, MainStepShape DEF MainBusInv
  <1>3. CASE GatherAgain /\ phase' = "reading" /\ UNCHANGED Held!busVars
    BY <1>3, HeldBusStep, HeldNext, MainStepShape DEF MainBusInv
  <1>4. CASE Rotate /\ phase' = "reading"
    BY <1>4, RotateBus, HeldNext, MainStepShape DEF MainBusInv, Rotate, Together
  <1> QED
    BY <1>1, <1>2, <1>3, <1>4, MainStepShape DEF MainBusInv

LEMMA MainOrderlyStep ==
  ASSUME OrderlyBus, MainBusInv, MainOrderlyInv, [MainNext]_mainVars
  PROVE  MainOrderlyInv'
  <1>1. CASE [BusNext]_busVars /\ phase' = "reading"
    BY <1>1, OrderlyStepInv, HeldNext, MainStepShape DEF MainBusInv, MainOrderlyInv
  <1>2. CASE [BusNext]_busVars /\ [Held!BusNext]_(Held!busVars)
    BY <1>2, OrderlyStepInv, HeldOrderlyStep, MainStepShape DEF MainBusInv, MainOrderlyInv
  <1>3. CASE GatherAgain /\ phase' = "reading" /\ UNCHANGED Held!busVars
    BY <1>3, HeldOrderlyStep, HeldNext, MainStepShape DEF MainBusInv, MainOrderlyInv
  <1>4. CASE Rotate /\ phase' = "reading"
    BY <1>4, RotateOrderly, HeldNext, MainStepShape DEF MainBusInv, MainOrderlyInv, Rotate, Together
  <1> QED
    BY <1>1, <1>2, <1>3, <1>4, MainStepShape DEF MainBusInv

LEMMA MainToldStep ==
  ASSUME OrderlyBus, OwnSerials, MainBusInv, MainOrderlyInv, MainToldInv, [MainNext]_mainVars
  PROVE  MainToldInv'
  <1>1. CASE [BusNext]_busVars /\ phase' = "reading"
    BY <1>1, ToldStep, HeldNext, MainStepShape DEF MainBusInv, MainOrderlyInv, MainToldInv
  <1>2. CASE [BusNext]_busVars /\ [Held!BusNext]_(Held!busVars)
    BY <1>2, ToldStep, HeldToldStep, MainStepShape DEF MainBusInv, MainOrderlyInv, MainToldInv
  <1>3. CASE GatherAgain /\ phase' = "reading" /\ UNCHANGED Held!busVars
    BY <1>3, HeldToldStep, HeldNext, MainStepShape DEF MainBusInv, MainOrderlyInv, MainToldInv
  <1>4. CASE Rotate /\ phase' = "reading"
    BY <1>4, RotateTold, HeldNext, MainStepShape DEF MainBusInv, MainOrderlyInv, MainToldInv
  <1> QED
    BY <1>1, <1>2, <1>3, <1>4, MainStepShape DEF MainBusInv

LEMMA MainOpenStep ==
  ASSUME OrderlyBus, OwnSerials, MainBusInv, MainOrderlyInv, MainToldInv, MainOpenInv,
         [MainNext]_mainVars
  PROVE  MainOpenInv'
  <1>1. CASE [BusNext]_busVars /\ phase' = "reading"
    BY <1>1, OpenStep, HeldNext, MainStepShape
       DEF MainBusInv, MainOrderlyInv, MainToldInv, MainOpenInv, OpenInv
  <1>2. CASE [BusNext]_busVars /\ [Held!BusNext]_(Held!busVars)
    BY <1>2, OpenStep, HeldOpenStep, MainStepShape
       DEF MainBusInv, MainOrderlyInv, MainToldInv, MainOpenInv, OpenInv
  <1>3. CASE GatherAgain /\ phase' = "reading" /\ UNCHANGED Held!busVars
    BY <1>3, HeldOpenStep, HeldNext, MainStepShape
       DEF MainBusInv, MainOrderlyInv, MainToldInv, MainOpenInv, OpenInv
  <1>4. CASE Rotate /\ phase' = "reading"
    BY <1>4, RotateOpen, HeldNext, MainStepShape
       DEF MainBusInv, MainOrderlyInv, MainToldInv, MainOpenInv, OpenInv
  <1> QED
    BY <1>1, <1>2, <1>3, <1>4, MainStepShape DEF MainBusInv

LEMMA MainFieldsStep ==
  ASSUME OrderlyBus, OwnSerials, MainBusInv, MainOrderlyInv, MainToldInv, MainFieldsInv,
         [MainNext]_mainVars
  PROVE  MainFieldsInv'
  <1>1. CASE [BusNext]_busVars /\ phase' = "reading"
    BY <1>1, FieldsStep, HeldNext, MainStepShape
       DEF MainBusInv, MainOrderlyInv, MainToldInv, MainFieldsInv
  <1>2. CASE [BusNext]_busVars /\ [Held!BusNext]_(Held!busVars)
    BY <1>2, FieldsStep, HeldFieldsStep, MainStepShape
       DEF MainBusInv, MainOrderlyInv, MainToldInv, MainFieldsInv
  <1>3. CASE GatherAgain /\ phase' = "reading" /\ UNCHANGED Held!busVars
    BY <1>3, HeldFieldsStep, HeldNext, MainStepShape
       DEF MainBusInv, MainOrderlyInv, MainToldInv, MainFieldsInv
  <1>4. CASE Rotate /\ phase' = "reading"
    BY <1>4, RotateFields, HeldNext, MainStepShape
       DEF MainBusInv, MainOrderlyInv, MainToldInv, MainFieldsInv
  <1> QED
    BY <1>1, <1>2, <1>3, <1>4, MainStepShape DEF MainBusInv

-----------------------------------------------------------------------------
(***************************************************************************)
(* From the end of the log until the result is shown.                      *)
(***************************************************************************)
LEMMA MainSinceStep ==
  ASSUME OrderlyBus, MainBusInv, SinceRead, Held!SinceRead, [MainNext]_mainVars
  PROVE  SinceRead' /\ Held!SinceRead'
  <1>1. CASE [BusNext]_busVars /\ phase' = "reading"
    BY <1>1, SinceStep, HeldNext, MainStepShape DEF MainBusInv
  <1>2. CASE [BusNext]_busVars /\ [Held!BusNext]_(Held!busVars)
    BY <1>2, SinceStep, HeldSinceStep, MainStepShape DEF MainBusInv
  <1>3. CASE GatherAgain /\ phase' = "reading" /\ UNCHANGED Held!busVars
    BY <1>3, HeldSinceStep, HeldNext, MainStepShape DEF MainBusInv
  <1>4. CASE Rotate /\ phase' = "reading"
    BY <1>4, RotateSince, HeldNext, MainStepShape DEF MainBusInv
  <1> QED
    BY <1>1, <1>2, <1>3, <1>4, MainStepShape DEF MainBusInv

\* From the end of the file on, until the call's result is shown, either the
\* reader goes on or the call does.
LEMMA WindowShape ==
  ASSUME [MainNext]_mainVars, phase' # "reading"
  PROVE  \/ phase = "reading" /\ ReadToEnd
         \/ /\ phase # "reading" /\ UNCHANGED <<pos, bus, gathering, terminal>>
            /\ \/ SaveOrReturn /\ UNCHANGED ahead
               \/ /\ UNCHANGED <<interfaces, usbs>>
                  /\ UNCHANGED ahead \/ \E path \in PortPaths : Held!BusLineAt(path)
  <1>1. ~BusLine
    <2>1. ASSUME NEW path \in PortPaths, BusLineAt(path) PROVE FALSE
      BY <2>1, BusLineReads DEF ReadLine
    <2> QED
      BY <2>1 DEF BusLine
  <1>2. ~GatherAgain /\ ~Rotate
    BY DEF GatherAgain, Rotate
  <1>3. CASE LaterLine
    <2>1. PICK path \in PortPaths : Ahead!BusLineAt(path)
      BY <1>3 DEF LaterLine
    <2> QED
      BY <1>3, <2>1, AheadStep DEF LaterLine, busVars, vars
  <1>4. CASE ReadToEnd
    BY <1>4 DEF ReadToEnd, EndOfFile
  <1>5. CASE SaveOrReturn
    BY <1>5 DEF SaveOrReturn, Save, SkipEmptyInterface, SaveInterface, FollowFreedNode,
                Return, AtOpenEntry
  <1>6. CASE UNCHANGED mainVars
    BY <1>6 DEF mainVars, busVars, vars
  <1> QED
    BY <1>1, <1>2, <1>3, <1>4, <1>5, <1>6 DEF MainNext, Program

LEMMA HeldLineReads ==
  ASSUME NEW path \in PortPaths, Held!BusLineAt(path)
  PROVE  Held!ReadLine
  BY Held!BusLineReads, PathAssumption, IdAssumption, TextAssumption,
     LogAssumption, BuildAssumption, DeviceAssumption, FaultAssumption
     DEF Held!Serials, Serials

LEMMA WindowStep ==
  ASSUME OrderlyBus, MainBusInv, MainWindowInv, [MainNext]_mainVars
  PROVE  Window'
  <1> SUFFICES ASSUME phase' # "reading" PROVE Window'
    BY DEF Window
  <1>1. pos \in Int /\ aheadPos \in Int
    <2>1. pos \in Times
      BY BusTypes DEF MainBusInv, TypeOK
    <2>2. aheadPos \in Times
      BY DEF MainBusInv, Held!BusInv, Held!BusTypeOK, Held!TypeOK, Held!Times, Times
    <2> QED
      BY <2>1, <2>2, TimesAreInts
  <1>2. CASE phase = "reading" /\ ReadToEnd
    <2>1. /\ aheadPos = pos /\ aheadBus = bus
          /\ pos' = pos /\ bus' = bus /\ aheadPos' = aheadPos /\ aheadBus' = aheadBus
      BY <1>2 DEF MainBusInv, Together, ReadToEnd, EndOfFile, ahead
    <2>2. \A s : Held!OnBus(s)' = OnBus(s)'
      BY <2>1 DEF OnBus, Held!OnBus, StorageDevices, Held!StorageDevices
    <2>3. ASSUME NEW s, NEW p \in OnBus(s)' PROVE Held!WasPlugged(s, pos)'
      <3>1. p \in PortPaths
        BY <2>3 DEF OnBus
      <3>2. aheadBus'[p].since <= pos'
        BY <2>1, <3>1 DEF MainWindowInv, SinceRead
      <3> QED
        BY <2>2, <2>3, <3>2 DEF Held!WasPlugged
    <2>4. pos' <= aheadPos'
      BY <1>1, <2>1
    <2> QED
      BY <2>3, <2>4 DEF Window, StorageSerials, StorageDevices
  <1>3. CASE /\ phase # "reading" /\ UNCHANGED <<pos, bus>>
             /\ UNCHANGED ahead \/ \E path \in PortPaths : Held!BusLineAt(path)
    <2>1. [Held!BusNext]_(Held!busVars)
      BY <1>3 DEF Held!BusNext, ahead, Held!busVars, Held!vars
    <2>2. pos' <= aheadPos'
      <3>1. ASSUME NEW path \in PortPaths, Held!BusLineAt(path)
            PROVE  aheadPos' = aheadPos + 1
        BY <3>1, HeldLineReads DEF Held!ReadLine
      <3>2. aheadPos' = aheadPos \/ aheadPos' = aheadPos + 1
        BY <1>3, <3>1 DEF ahead
      <3> QED
        BY <1>1, <1>3, <3>2 DEF MainWindowInv, Window
    <2>3. ASSUME NEW s \in StorageSerials, OnBus(s)' # {} PROVE Held!WasPlugged(s, pos)'
      <3>1. OnBus(s) # {}
        BY <1>3, <2>3 DEF OnBus, StorageDevices
      <3>2. PICK line : line = pos
        OBVIOUS
      <3>3. Held!WasPlugged(s, line) /\ line <= aheadPos
        BY <1>3, <3>1, <3>2 DEF MainWindowInv, Window
      <3>4. Held!WasPlugged(s, line)'
        BY <1>1, <2>1, <3>2, <3>3, HeldStaysPlugged DEF MainBusInv
      <3> QED
        BY <1>3, <3>2, <3>4 DEF Held!WasPlugged
    <2> QED
      BY <2>2, <2>3 DEF Window, StorageSerials, StorageDevices
  <1> QED
    BY <1>2, <1>3, WindowShape DEF SaveOrReturn, Save


-----------------------------------------------------------------------------
(***************************************************************************)
(* The beginning, and what holds of every bus.                             *)
(***************************************************************************)
LEMMA MainInitInv ==
  MainInit => /\ MainBusInv /\ MainOrderlyInv /\ MainToldInv /\ MainOpenInv
              /\ MainFieldsInv /\ MainWindowInv
  <1> SUFFICES ASSUME MainInit
               PROVE  /\ MainBusInv /\ MainOrderlyInv /\ MainToldInv /\ MainOpenInv
                      /\ MainFieldsInv /\ MainWindowInv
    OBVIOUS
  <1>1. BusInit /\ phase = "reading" /\ Together
    BY DEF MainInit, BusInit, Init, Together
  <1>2. BusInv /\ OrderlyInv /\ ToldInv /\ FieldsInv /\ SinceRead
    BY <1>1, BusInitInv, OrderlyInitInv, ToldInit, FieldsInit, SinceInit
  <1>3. OpenInv
    BY <1>1, LedgerInvInit DEF LedgerInv, OpenInv
  <1>4. /\ Held!BusInv /\ Held!OrderlyInv /\ Held!ToldInv /\ Held!FieldsInv
        /\ Held!OpenInv /\ Held!SinceRead
    BY <1>1, <1>2, <1>3, HeldBus, HeldOrderly, HeldTold, HeldFields, HeldOpen, HeldSince
  <1>5. Window
    BY <1>1 DEF Window
  <1> QED
    BY <1>1, <1>2, <1>3, <1>4, <1>5
       DEF MainBusInv, MainOrderlyInv, MainToldInv, MainOpenInv, MainFieldsInv, MainWindowInv

LEMMA MainBusInvariance == MainSpec => []MainBusInv
  <1>1. MainInit => MainBusInv
    BY MainInitInv
  <1>2. MainBusInv /\ [MainNext]_mainVars => MainBusInv'
    BY MainBusStep
  <1> QED
    BY <1>1, <1>2, PTL DEF MainSpec

\* In both calls, whatever the faults, the bus and the point at which the log is
\* rotated: a storage session that began on a blank entry and whose lines were
\* all read, and are still in the log, is in what getUSBsInfo returns.
THEOREM MainCleanSessions == MainSpec => []CleanSessionsAreReported
  <1>1. MainBusInv => CleanSessionsAreReported
    BY DEF MainBusInv, BusInv
  <1> QED
    BY <1>1, MainBusInvariance, PTL

-----------------------------------------------------------------------------
(***************************************************************************)
(* What holds on an orderly bus.                                           *)
(***************************************************************************)
LEMMA MainOrderlyInvariance ==
  ASSUME OrderlyBus
  PROVE  MainSpec => []MainOrderlyInv
  <1>1. MainInit => MainOrderlyInv
    BY MainInitInv
  <1>2. MainBusInv /\ MainOrderlyInv /\ [MainNext]_mainVars => MainOrderlyInv'
    BY MainOrderlyStep
  <1> QED
    BY <1>1, <1>2, MainBusInvariance, PTL DEF MainSpec

LEMMA MainToldInvariance ==
  ASSUME OrderlyBus, OwnSerials
  PROVE  MainSpec => []MainToldInv
  <1>1. MainInit => MainToldInv
    BY MainInitInv
  <1>2. MainBusInv /\ MainOrderlyInv /\ MainToldInv /\ [MainNext]_mainVars => MainToldInv'
    BY MainToldStep
  <1> QED
    BY <1>1, <1>2, MainBusInvariance, MainOrderlyInvariance, PTL DEF MainSpec

LEMMA MainWindowInvariance ==
  ASSUME OrderlyBus
  PROVE  MainSpec => []MainWindowInv
  <1>1. MainInit => MainWindowInv
    BY MainInitInv
  <1>2. MainBusInv /\ MainWindowInv /\ [MainNext]_mainVars => MainWindowInv'
    BY MainSinceStep, WindowStep DEF MainWindowInv
  <1> QED
    BY <1>1, <1>2, MainBusInvariance, PTL DEF MainSpec

\* On an orderly bus every interval that the terminal or the report shows is one
\* in which a storage device with that serial number was connected, even if the
\* log begins in the middle of a session.
THEOREM MainSessionsHappened == OrderlyBus => (MainSpec => []ReportedSessionsHappened)
  <1> SUFFICES ASSUME OrderlyBus
               PROVE  MainSpec => []ReportedSessionsHappened
    OBVIOUS
  <1>1. MainOrderlyInv => ReportedSessionsHappened
    BY HappenedFromOrderly DEF MainOrderlyInv
  <1> QED
    BY <1>1, MainOrderlyInvariance, PTL

\* With storage devices that have serial numbers of their own, what the terminal
\* or the report shows as "Connected" was plugged in when the last line that the
\* call has read had been written, whatever lines the kernel writes and whatever
\* is unplugged until it is shown: a log rotated in the middle of a session hides
\* devices, but shows none that was gone when the call came to the log's end.
THEOREM NothingGone == (OrderlyBus /\ OwnSerials) => (MainSpec => []NothingGoneIsShown)
  <1> SUFFICES ASSUME OrderlyBus, OwnSerials
               PROVE  MainSpec => []NothingGoneIsShown
    OBVIOUS
  <1>1. MainBusInv /\ MainToldInv /\ MainWindowInv => NothingGoneIsShown
    <2> SUFFICES ASSUME MainBusInv, MainToldInv, MainWindowInv, phase = "done",
                        NEW s \in Serials, ShownConnected(s)
                 PROVE  Ahead!WasPlugged(s, pos)
      BY DEF NothingGoneIsShown
    <2>1. OnBus(s) # {}
      BY ShownIsPlugged DEF MainToldInv
    <2>2. s \in StorageSerials
      BY <2>1 DEF OnBus, StorageSerials, StorageDevices
    <2>3. Held!WasPlugged(s, pos)
      BY <2>1, <2>2 DEF MainWindowInv, Window
    <2> QED
      BY <2>3 DEF Ahead!WasPlugged, Held!WasPlugged, Ahead!OnBus, Held!OnBus,
                  Ahead!StorageDevices, Held!StorageDevices
  <1> QED
    BY <1>1, MainBusInvariance, MainToldInvariance, MainWindowInvariance, PTL

-----------------------------------------------------------------------------
(***************************************************************************)
(* Every entry is saved, in both calls.                                    *)
(***************************************************************************)
LEMMA MainSavedStep ==
  ASSUME NodeReused, MainBusInv, SavedUpToCursor, [MainNext]_mainVars
  PROVE  SavedUpToCursor'
  <1>1. ASSUME [BusNext]_busVars PROVE SavedUpToCursor'
    <2>1. BusInv /\ TypeOK
      BY BusTypes DEF MainBusInv
    <2>2. [Next]_vars
      BY <1>1, <2>1, BusNextIsNext
    <2> QED
      BY <2>1, <2>2, SavedUpToCursorStep
  <1>2. ASSUME phase' = "reading" PROVE SavedUpToCursor'
    BY <1>2 DEF SavedUpToCursor, AllInterfacesSaved
  <1> QED
    BY <1>1, <1>2, MainStepShape DEF MainBusInv

\* Given a map node that is freed and reused, no call returns while an entry is
\* left open: what the terminal and the report are made of is complete.
THEOREM MainEverythingSaved == NodeReused => (MainSpec => []AllInterfacesSaved)
  <1> SUFFICES ASSUME NodeReused PROVE MainSpec => []AllInterfacesSaved
    OBVIOUS
  <1>1. MainInit => SavedUpToCursor
    BY DEF MainInit, BusInit, Init, SavedUpToCursor, AllInterfacesSaved
  <1>2. MainBusInv /\ SavedUpToCursor /\ [MainNext]_mainVars => SavedUpToCursor'
    BY MainSavedStep
  <1>3. SavedUpToCursor => AllInterfacesSaved
    BY DEF SavedUpToCursor
  <1> QED
    BY <1>1, <1>2, <1>3, MainBusInvariance, PTL DEF MainSpec

-----------------------------------------------------------------------------
(***************************************************************************)
(* The report continues the terminal.  First, what the first call has when *)
(* it comes to the end, and what its loop makes of it.                     *)
(***************************************************************************)
LEMMA ReadOwes ==
  ASSUME TypeOK, NEW s
  PROVE  /\ \A id \in Pending(s) :
              Accounts(s, Append(ConnectionsOf(s), interfaces[id].connectionTime),
                       DisconnectionsOf(s))
         /\ s \in DOMAIN usbs => Accounts(s, ConnectionsOf(s), DisconnectionsOf(s))
  <1>1. ASSUME NEW id \in Pending(s)
        PROVE  OwesFor(s, Append(ConnectionsOf(s), interfaces[id].connectionTime),
                       DisconnectionsOf(s), id)
    BY <1>1 DEF Pending, OwesFor
  <1>2. \A c \in Seq(Times) : Extends(c, c)
    BY DEF Extends
  <1>3. s \in DOMAIN usbs => Continues(s, ConnectionsOf(s), DisconnectionsOf(s))
    BY <1>2, ListsTyped DEF Continues
  <1> QED
    BY <1>1, <1>3 DEF Accounts, Owes, Pending, OpenFor

LEMMA HeldAccountsStays ==
  ASSUME UNCHANGED ahead, NEW s, NEW opened, NEW ended
  PROVE  Held!Accounts(s, opened, ended)' <=> Held!Accounts(s, opened, ended)
  <1>1. aheadInterfaces' = aheadInterfaces /\ aheadUsbs' = aheadUsbs
    BY DEF ahead
  <1> QED
    BY <1>1 DEF Held!Accounts, Held!Continues, Held!Owes, Held!OwesFor, Held!OpenFor,
                Held!IsSaved, Held!ConnectionsOf, Held!DisconnectionsOf

\* The call changes nothing, and the reader goes on, or neither does.
LEMMA FirstWaits ==
  ASSUME TypeOK, UNCHANGED <<interfaces, usbs>>, NEW s, PendingOwed(s), ShownOwed(s),
         \A opened, ended \in Seq(Times) :
           Held!Accounts(s, opened, ended) => Held!Accounts(s, opened, ended)'
  PROVE  PendingOwed(s)' /\ ShownOwed(s)'
  <1>1. /\ ConnectionsOf(s)' = ConnectionsOf(s) /\ DisconnectionsOf(s)' = DisconnectionsOf(s)
        /\ Pending(s)' = Pending(s)
    BY DEF ConnectionsOf, DisconnectionsOf, Pending, OpenFor, IsSaved
  <1>2. PICK opened, ended : opened = ConnectionsOf(s) /\ ended = DisconnectionsOf(s)
    OBVIOUS
  <1>3. opened \in Seq(Times) /\ ended \in Seq(Times)
    BY <1>2, ListsTyped
  <1>4. ASSUME NEW id \in Pending(s)
        PROVE  Held!Accounts(s, Append(ConnectionsOf(s), interfaces[id].connectionTime),
                             DisconnectionsOf(s))'
    <2>1. PICK time : time = interfaces[id].connectionTime
      OBVIOUS
    <2>2. time \in Times
      BY <1>4, <2>1 DEF Pending, OpenFor, TypeOK, UsbInterface
    <2>3. Append(opened, time) \in Seq(Times)
      BY <1>3, <2>2
    <2>4. Held!Accounts(s, Append(opened, time), ended)
      BY <1>2, <1>4, <2>1 DEF PendingOwed
    <2>5. Held!Accounts(s, Append(opened, time), ended)'
      BY <1>3, <2>3, <2>4
    <2> QED
      BY <1>1, <1>2, <2>1, <2>5 DEF Held!Accounts, Held!Continues, Held!Owes, Held!OwesFor
  <1>5. ASSUME s \in DOMAIN usbs, Pending(s) = {}
        PROVE  Held!Accounts(s, ConnectionsOf(s), DisconnectionsOf(s))'
    <2>1. Held!Accounts(s, opened, ended)
      BY <1>2, <1>5 DEF ShownOwed
    <2>2. Held!Accounts(s, opened, ended)'
      BY <1>3, <2>1
    <2> QED
      BY <1>1, <1>2, <2>2 DEF Held!Accounts, Held!Continues, Held!Owes, Held!OwesFor
  <1> QED
    BY <1>1, <1>4, <1>5 DEF PendingOwed, ShownOwed

\* An entry is saved: its device has its connection now, and no other open entry.
LEMMA FirstSaves ==
  ASSUME TypeOK, OneOpen, UNCHANGED ahead, NEW j, Saved(j),
         NEW s \in StorageSerials, PendingOwed(s), ShownOwed(s)
  PROVE  PendingOwed(s)' /\ ShownOwed(s)'
  <1>1. PICK r, e : r = interfaces[j].serialNumber /\ e = interfaces[j]
    OBVIOUS
  <1>2. /\ OpenFor(s)' = OpenFor(s) \ {j}
        /\ \A id \in OpenFor(s)' : interfaces'[id] = interfaces[id]
    BY SavedEntries
  <1>3. /\ DisconnectionsOf(s)' = DisconnectionsOf(s)
        /\ s # r => ConnectionsOf(s)' = ConnectionsOf(s)
    BY <1>1, SavedLists
  <1>4. /\ IsSaved(e) => /\ ConnectionsOf(r)' = Append(ConnectionsOf(r), e.connectionTime)
                         /\ DOMAIN usbs' = DOMAIN usbs \cup {r}
        /\ ~IsSaved(e) => usbs' = usbs
    BY <1>1, SavedAdds
  <1>5. j \in OpenFor(r)
    BY <1>1 DEF Saved, Emptied, OpenFor
  <1>6. CASE s # r
    <2>1. Pending(s)' = Pending(s)
      <3>1. OpenFor(s)' = OpenFor(s)
        BY <1>1, <1>2, <1>6 DEF OpenFor
      <3>2. s \in DOMAIN usbs' <=> s \in DOMAIN usbs
        BY <1>4, <1>6
      <3>3. \A id \in OpenFor(s) : IsSaved(interfaces[id])' <=> IsSaved(interfaces[id])
        BY <1>2, <3>1, <3>2 DEF IsSaved, OpenFor
      <3> QED
        BY <3>1, <3>3 DEF Pending
    <2>2. /\ \A id \in Pending(s) : interfaces'[id] = interfaces[id]
          /\ s \in DOMAIN usbs' => s \in DOMAIN usbs
      BY <1>2, <1>4, <1>6, <2>1 DEF Pending
    <2>3. PICK opened, ended : opened = ConnectionsOf(s) /\ ended = DisconnectionsOf(s)
      OBVIOUS
    <2>4. ASSUME NEW id \in Pending(s)
          PROVE  Held!Accounts(s, Append(ConnectionsOf(s), interfaces[id].connectionTime),
                               DisconnectionsOf(s))'
      <3>1. PICK time : time = interfaces[id].connectionTime
        OBVIOUS
      <3>2. Held!Accounts(s, Append(opened, time), ended)
        BY <2>3, <2>4, <3>1 DEF PendingOwed
      <3>3. Held!Accounts(s, Append(opened, time), ended)'
        BY <3>2, HeldAccountsStays
      <3> QED
        BY <1>3, <1>6, <2>2, <2>3, <3>1, <3>3
           DEF Held!Accounts, Held!Continues, Held!Owes, Held!OwesFor
    <2>5. ASSUME s \in DOMAIN usbs, Pending(s) = {}
          PROVE  Held!Accounts(s, ConnectionsOf(s), DisconnectionsOf(s))'
      <3>1. Held!Accounts(s, opened, ended)
        BY <2>3, <2>5 DEF ShownOwed
      <3>2. Held!Accounts(s, opened, ended)'
        BY <3>1, HeldAccountsStays
      <3> QED
        BY <1>3, <1>6, <2>3, <3>2
           DEF Held!Accounts, Held!Continues, Held!Owes, Held!OwesFor
    <2> QED
      BY <2>1, <2>2, <2>4, <2>5 DEF PendingOwed, ShownOwed
  <1>7. CASE s = r
    <2>1. OpenFor(s)' = {} /\ Pending(s)' = {}
      BY <1>2, <1>5, <1>7 DEF OneOpen, Pending
    <2>2. CASE IsSaved(e)
      <3>1. j \in Pending(s)
        BY <1>1, <1>5, <1>7, <2>2 DEF Pending
      <3>2. PICK opened, ended : /\ opened = Append(ConnectionsOf(s), e.connectionTime)
                                 /\ ended = DisconnectionsOf(s)
        OBVIOUS
      <3>3. Held!Accounts(s, opened, ended)
        BY <1>1, <3>1, <3>2 DEF PendingOwed
      <3>4. Held!Accounts(s, opened, ended)'
        BY <3>3, HeldAccountsStays
      <3>5. opened = ConnectionsOf(s)' /\ ended = DisconnectionsOf(s)'
        BY <1>3, <1>4, <1>7, <2>2, <3>2
      <3> QED
        BY <2>1, <3>4, <3>5 DEF PendingOwed, ShownOwed,
           Held!Accounts, Held!Continues, Held!Owes, Held!OwesFor
    <2>3. CASE ~IsSaved(e)
      <3>1. s \notin DOMAIN usbs'
        BY <1>1, <1>4, <1>7, <2>3 DEF IsSaved
      <3> QED
        BY <2>1, <3>1 DEF PendingOwed, ShownOwed
    <2> QED
      BY <2>2, <2>3
  <1> QED
    BY <1>6, <1>7

LEMMA FirstOwesStep ==
  ASSUME OrderlyBus, OwnSerials, MainBusInv, MainOrderlyInv, MainToldInv, MainOpenInv,
         FirstOwes, [MainNext]_mainVars
  PROVE  FirstOwes'
  <1> SUFFICES ASSUME gathering' = 1, phase' # "reading", NEW s \in StorageSerials
               PROVE  PendingOwed(s)' /\ ShownOwed(s)'
    BY DEF FirstOwes, StorageSerials, StorageDevices
  <1>1. TypeOK
    BY BusTypes DEF MainBusInv
  <1>2. CASE phase = "reading" /\ ReadToEnd
    <2>1. UNCHANGED <<interfaces, usbs>> /\ UNCHANGED ahead
      BY <1>2 DEF ReadToEnd, EndOfFile
    <2>2. \A opened, ended : Held!Accounts(s, opened, ended) <=> Accounts(s, opened, ended)
      BY <1>2, HeldAccounts DEF MainBusInv
    <2>3. PendingOwed(s) /\ ShownOwed(s)
      BY <1>1, <2>2, ReadOwes DEF PendingOwed, ShownOwed
    <2>4. \A opened, ended \in Seq(Times) :
            Held!Accounts(s, opened, ended) => Held!Accounts(s, opened, ended)'
      BY <2>1, HeldAccountsStays
    <2> QED
      BY <1>1, <2>1, <2>3, <2>4, FirstWaits
  <1>3. ASSUME phase # "reading", UNCHANGED <<pos, bus, gathering, terminal>>
        PROVE  PendingOwed(s) /\ ShownOwed(s)
    BY <1>3 DEF FirstOwes
  <1>4. CASE /\ phase # "reading" /\ UNCHANGED <<pos, bus, gathering, terminal>>
             /\ SaveOrReturn /\ UNCHANGED ahead
    <2>1. CASE SaveInterface \/ FollowFreedNode
      <3>1. Saved(cursor)
        BY <1>1, <2>1, CursorTyped
           DEF SaveInterface, Initialize, FollowFreedNode, AtOpenEntry, Saved, Emptied
      <3>2. PICK j : j = cursor
        OBVIOUS
      <3>3. OneOpen
        BY <1>4 DEF MainOpenInv, OpenInv
      <3> QED
        BY <1>1, <1>3, <1>4, <3>1, <3>2, <3>3, FirstSaves
    <2>2. CASE UNCHANGED <<interfaces, usbs>>
      BY <1>1, <1>3, <1>4, <2>2, HeldAccountsStays, FirstWaits
    <2> QED
      BY <1>4, <2>1, <2>2 DEF SaveOrReturn, Save, SkipEmptyInterface, Return
  <1>5. CASE /\ phase # "reading" /\ UNCHANGED <<pos, bus, gathering, terminal>>
             /\ UNCHANGED <<interfaces, usbs>>
             /\ UNCHANGED ahead \/ \E path \in PortPaths : Held!BusLineAt(path)
    <2>1. [Held!BusNext]_(Held!busVars)
      BY <1>5 DEF Held!BusNext, ahead, Held!busVars, Held!vars
    <2>2. \A opened, ended \in Seq(Times) :
            Held!Accounts(s, opened, ended) => Held!Accounts(s, opened, ended)'
      BY <2>1, HeldAccountsStep DEF MainOrderlyInv, MainToldInv, MainOpenInv
    <2> QED
      BY <1>1, <1>3, <1>5, <2>2, FirstWaits
  <1> QED
    BY <1>2, <1>4, <1>5, WindowShape

-----------------------------------------------------------------------------
(***************************************************************************)
(* The second call.                                                        *)
(***************************************************************************)
LEMMA SecondOwesStep ==
  ASSUME OrderlyBus, OwnSerials, MainBusInv, MainOrderlyInv, MainToldInv, MainOpenInv,
         ReportInv, AllInterfacesSaved, [MainNext]_mainVars
  PROVE  SecondOwes'
  <1>1. BusInv /\ TypeOK /\ OrderlyInv /\ ToldInv /\ OpenInv
    BY BusTypes DEF MainBusInv, MainOrderlyInv, MainToldInv, MainOpenInv
  <1>2. CASE GatherAgain
    <2>1. gathering = 1 /\ phase = "done" /\ terminal' = usbs /\ UNCHANGED ahead
      BY <1>2 DEF GatherAgain
    <2>2. (phase = "reading" /\ Together)'
      BY <1>2, MainStepShape DEF GatherAgain, MainBusInv
    <2> SUFFICES ASSUME NEW s \in DOMAIN usbs
                 PROVE  Accounts(s, terminal[s].connectionTimes,
                                 terminal[s].disconnectionTimes)'
      BY <2>1 DEF SecondOwes
    <2>3. s \in StorageSerials /\ Pending(s) = {}
      BY <1>1, <2>1 DEF ToldInv, UsbsAreStorage, Pending, OpenFor, AllInterfacesSaved
    <2>4. PICK opened, ended : /\ opened = usbs[s].connectionTimes
                               /\ ended = usbs[s].disconnectionTimes
      OBVIOUS
    <2>5. opened = ConnectionsOf(s) /\ ended = DisconnectionsOf(s)
      BY <2>4 DEF ConnectionsOf, DisconnectionsOf
    <2>6. Held!Accounts(s, opened, ended)
      BY <2>1, <2>3, <2>5 DEF ReportInv, FirstOwes, ShownOwed
    <2>7. Held!Accounts(s, opened, ended)'
      BY <2>1, <2>6, HeldAccountsStays
    <2>8. Accounts(s, opened, ended)'
      BY <2>2, <2>7, HeldNext
    <2>9. opened = terminal'[s].connectionTimes /\ ended = terminal'[s].disconnectionTimes
      BY <2>1, <2>4
    <2> QED
      BY <2>8, <2>9 DEF Accounts, Continues, Owes, OwesFor
  <1>3. CASE Rotate
    BY <1>3 DEF Rotate, SecondOwes
  <1>4. CASE /\ [BusNext]_busVars
             /\ UNCHANGED <<gathering, terminal, rotated>>
    <2> SUFFICES ASSUME gathering = 2, ~rotated, NEW s \in DOMAIN terminal
                 PROVE  Accounts(s, terminal[s].connectionTimes,
                                 terminal[s].disconnectionTimes)'
      BY <1>4 DEF SecondOwes
    <2>1. PICK opened, ended : /\ opened = terminal[s].connectionTimes
                               /\ ended = terminal[s].disconnectionTimes
      OBVIOUS
    <2>2. s \in StorageSerials /\ opened \in Seq(Times) /\ ended \in Seq(Times)
      BY <2>1 DEF ReportInv, TerminalDescribed, UsbInfo
    <2>3. Accounts(s, opened, ended)
      BY <2>1 DEF ReportInv, SecondOwes
    <2>4. Accounts(s, opened, ended)'
      BY <1>1, <1>4, <2>2, <2>3, AccountsStep
    <2> QED
      BY <1>4, <2>1, <2>4 DEF Accounts, Continues, Owes, OwesFor
  <1>5. \/ [BusNext]_busVars /\ UNCHANGED <<gathering, terminal, rotated>>
        \/ GatherAgain \/ Rotate
    <2>1. BusLine => BusNext /\ UNCHANGED <<gathering, terminal, rotated>>
      BY DEF BusLine, BusNext
    <2>2. ReadToEnd \/ SaveOrReturn => BusNext /\ UNCHANGED <<gathering, terminal, rotated>>
      BY DEF ReadToEnd, SaveOrReturn, BusNext
    <2>3. LaterLine \/ UNCHANGED mainVars
          => UNCHANGED busVars /\ UNCHANGED <<gathering, terminal, rotated>>
      BY DEF LaterLine, mainVars
    <2> QED
      BY <2>1, <2>2, <2>3 DEF MainNext, Program
  <1> QED
    BY <1>2, <1>3, <1>4, <1>5

LEMMA TerminalStep ==
  ASSUME MainBusInv, MainToldInv, MainFieldsInv, TerminalDescribed, [MainNext]_mainVars
  PROVE  TerminalDescribed'
  <1>1. CASE terminal' = terminal
    BY <1>1 DEF TerminalDescribed, StorageSerials, StorageDevices, UsbInfo, Times, Serials
  <1>2. CASE GatherAgain
    <2>1. TypeOK /\ KeyIsSerial /\ UsbsAreStorage /\ DevicesAreDescribed
      BY BusTypes DEF MainBusInv, BusInv, MainToldInv, ToldInv, MainFieldsInv, FieldsInv
    <2>2. terminal' = usbs
      BY <1>2 DEF GatherAgain
    <2>3. DOMAIN usbs \subseteq StorageSerials
      BY <2>1 DEF UsbsAreStorage
    <2>4. \A s \in DOMAIN usbs : usbs[s] \in UsbInfo /\ usbs[s].serialNumber = s
      BY <2>1 DEF TypeOK, KeyIsSerial
    <2>5. \A s \in DOMAIN usbs :
            \A d \in StorageDevices : d.serial = s => Describes(usbs[s], d)
      BY <2>1 DEF DevicesAreDescribed
    <2> QED
      BY <2>2, <2>3, <2>4, <2>5
         DEF TerminalDescribed, StorageSerials, StorageDevices, UsbInfo, Times, Serials
  <1> QED
    BY <1>1, <1>2
       DEF MainNext, Program, BusLine, LaterLine, ReadToEnd, SaveOrReturn, Rotate, mainVars

-----------------------------------------------------------------------------
(***************************************************************************)
(* The report continues the terminal.                                      *)
(***************************************************************************)
LEMMA MainFieldsInvariance ==
  ASSUME OrderlyBus, OwnSerials
  PROVE  MainSpec => []MainFieldsInv
  <1>1. MainInit => MainFieldsInv
    BY MainInitInv
  <1>2. /\ MainBusInv /\ MainOrderlyInv /\ MainToldInv /\ MainFieldsInv
        /\ [MainNext]_mainVars
        => MainFieldsInv'
    BY MainFieldsStep
  <1> QED
    BY <1>1, <1>2, MainBusInvariance, MainOrderlyInvariance, MainToldInvariance, PTL
       DEF MainSpec

LEMMA MainOpenInvariance ==
  ASSUME OrderlyBus, OwnSerials
  PROVE  MainSpec => []MainOpenInv
  <1>1. MainInit => MainOpenInv
    BY MainInitInv
  <1>2. /\ MainBusInv /\ MainOrderlyInv /\ MainToldInv /\ MainOpenInv
        /\ [MainNext]_mainVars
        => MainOpenInv'
    BY MainOpenStep
  <1> QED
    BY <1>1, <1>2, MainBusInvariance, MainOrderlyInvariance, MainToldInvariance, PTL
       DEF MainSpec

LEMMA ReportInvariance ==
  ASSUME OrderlyBus, OwnSerials, NodeReused
  PROVE  MainSpec => []ReportInv
  <1>1. MainInit => ReportInv
    BY DEF MainInit, BusInit, Init, ReportInv, FirstOwes, SecondOwes, TerminalDescribed
  <1>2. /\ MainBusInv /\ MainOrderlyInv /\ MainToldInv /\ MainOpenInv /\ MainFieldsInv
        /\ AllInterfacesSaved /\ ReportInv /\ [MainNext]_mainVars
        => ReportInv'
    BY FirstOwesStep, SecondOwesStep, TerminalStep DEF ReportInv
  <1>3. MainSpec => []AllInterfacesSaved
    BY MainEverythingSaved
  <1> QED
    BY <1>1, <1>2, <1>3, MainBusInvariance, MainOrderlyInvariance, MainToldInvariance,
       MainOpenInvariance, MainFieldsInvariance, PTL DEF MainSpec

\* When the second call returns nothing is owed any more, and both calls have
\* filled in the same fields.
LEMMA ContinuesFromOwed ==
  ASSUME BusInv, FieldsInv, ReportInv, AllInterfacesSaved
  PROVE  ReportContinuesTerminal
  <1> SUFFICES ASSUME gathering = 2, phase = "done", ~rotated, NEW s \in DOMAIN terminal
               PROVE  s \in DOMAIN usbs /\ KeepsHistory(usbs[s], terminal[s])
    BY DEF ReportContinuesTerminal
  <1>1. Continues(s, terminal[s].connectionTimes, terminal[s].disconnectionTimes)
    <2>1. ~Owes(s, terminal[s].connectionTimes, terminal[s].disconnectionTimes)
      BY DEF Owes, OwesFor, OpenFor, AllInterfacesSaved
    <2> QED
      BY <2>1 DEF ReportInv, SecondOwes, Accounts
  <1>2. /\ s \in DOMAIN usbs
        /\ Extends(usbs[s].connectionTimes, terminal[s].connectionTimes)
        /\ Extends(usbs[s].disconnectionTimes, terminal[s].disconnectionTimes)
    BY <1>1 DEF Continues, ConnectionsOf, DisconnectionsOf
  <1>3. PICK d \in StorageDevices : d.serial = s
    BY DEF ReportInv, TerminalDescribed, StorageSerials
  <1>4. Describes(usbs[s], d) /\ Describes(terminal[s], d)
    BY <1>2, <1>3 DEF FieldsInv, DevicesAreDescribed, ReportInv, TerminalDescribed
  <1>5. d.vendor \in DeviceIds /\ d.model \in DeviceIds
    BY DeviceAssumption DEF DeviceAssumption, StorageDevices
  <1>6. /\ usbs[s].idVendor = terminal[s].idVendor
        /\ usbs[s].idProduct = terminal[s].idProduct
        /\ usbs[s].productName = terminal[s].productName
        /\ usbs[s].manufacturer = terminal[s].manufacturer
    BY <1>4, <1>5, ReadAgainAssumption DEF ReadAgainAssumption, Describes
  <1>7. usbs[s].serialNumber = terminal[s].serialNumber
    BY <1>2 DEF BusInv, KeyIsSerial, ReportInv, TerminalDescribed
  <1> QED
    BY <1>2, <1>6, <1>7 DEF KeepsHistory

\* On an orderly bus whose storage devices have serial numbers of their own, with
\* ids that are read twice alike (ReadAgainAssumption) and a map node that is
\* freed and reused, report.html takes nothing back of what the terminal showed,
\* however long the kernel wrote on before and after the terminal showed it, and
\* whatever it wrote: the connection of a session still open, which the first
\* call took from its entry, is the one the second call records for it.
THEOREM ReportContinues ==
  (OrderlyBus /\ OwnSerials /\ NodeReused) => (MainSpec => []ReportContinuesTerminal)
  <1> SUFFICES ASSUME OrderlyBus, OwnSerials, NodeReused
               PROVE  MainSpec => []ReportContinuesTerminal
    OBVIOUS
  <1>1. MainSpec => []AllInterfacesSaved
    BY MainEverythingSaved
  <1>2. MainBusInv /\ MainFieldsInv /\ ReportInv /\ AllInterfacesSaved
        => ReportContinuesTerminal
    BY ContinuesFromOwed DEF MainBusInv, MainFieldsInv
  <1> QED
    BY <1>1, <1>2, MainBusInvariance, MainFieldsInvariance, ReportInvariance, PTL

===============================================================================
