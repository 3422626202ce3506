-------------------------------- MODULE Report --------------------------------
(***************************************************************************)
(* printHTML() of output.cpp.  The values of a table are collected in      *)
(* static variables, a table is written from them, and they are set back   *)
(* to their initial texts for the next one.  printUSBsMapInTerminal() and  *)
(* printDisksMapInTerminal(), which keep nothing, are operators.           *)
(*                                                                         *)
(* A map is the sequence of its elements in the order of the keys.  The    *)
(* fixed texts "... not found" are NotFound.                               *)
(***************************************************************************)
EXTENDS TimeZones, Sequences, FiniteSets

CONSTANTS
  UsbMaps,    \* the maps getUSBsInfo may have returned
  DiskMaps,   \* the maps getDisksInfo may have returned
  Presents,   \* instants at which the report may be made
  NoText,     \* the empty string
  Blank,      \* a string of blanks
  NotFound,
  Unit,       \* 1000, the unit of humanReadableByteCount
  LogQuotient(_) \* (int) (log(bytes) / log(unit)), as the build computes it

ASSUME UnitAssumption == Unit \in Nat /\ Unit > 1

\* The time of a line without a readable date is the empty string.  strptime
\* leaves its std::tm zero: month 0 and day 0, a day before the first of
\* January.
NoDate == -24

\* Connections and disconnections are paired when they come here, and a disk
\* whose size is known has no fewer than Unit bytes.
ASSUME MapsAssumption ==
  /\ \A usbs \in UsbMaps :
       /\ Len(usbs) \in Nat /\ DOMAIN usbs = 1..Len(usbs)
       /\ \A n \in DOMAIN usbs :
            /\ usbs[n].connectionTimes \in Seq(Readings \cup {NoDate})
            /\ usbs[n].disconnectionTimes \in Seq(Readings \cup {NoDate})
            /\ Len(usbs[n].disconnectionTimes) <= Len(usbs[n].connectionTimes)
  /\ \A disks \in DiskMaps :
       /\ Len(disks) \in Nat /\ DOMAIN disks = 1..Len(disks)
       /\ \A n \in DOMAIN disks :
            /\ disks[n].isEmpty \in BOOLEAN
            /\ disks[n].size = 0 \/ (disks[n].size \in Nat /\ disks[n].size >= Unit)
            /\ disks[n].size # 0 => LogQuotient(disks[n].size) \in 1..6
  /\ NoText \notin Readings \cup {NoDate} /\ Presents \subseteq Int

VARIABLES
  usbs_map, disks_map, now,
  loop,                   \* "usbs", "times", "disks" or "closed"
  it,                     \* usbs_it or disks_it
  connection,             \* it_time_connection
  disconnection,          \* it_time_disconnection
  at_least_one_disk_found,
  usb, times, disk,       \* the static variables
  usb_all_times_only,     \* the rows of a table of times
  out                     \* the file: its tables, those of disks by place in
                          \* the map, and whether it says that there are none

given == <<usbs_map, disks_map, now>>
usbLoop == <<connection, disconnection, usb, times, usb_all_times_only>>
diskLoop == <<at_least_one_disk_found, disk>>
vars == <<given, loop, it, usbLoop, diskLoop, out>>

-----------------------------------------------------------------------------
\* The static variables as they are initialised.
UsbVariables ==
  [connected |-> FALSE, serialNumber |-> NotFound, productName |-> NotFound,
   manufacturer |-> NotFound, idVendor |-> NotFound, idProduct |-> NotFound]

NoColumns == [local |-> NoText, utc |-> NoText, est |-> NoText]
UsbTimes == [connection |-> NoColumns, disconnection |-> NoColumns]

DiskVariables ==
  [path |-> NotFound, interface |-> NotFound, product |-> NotFound,
   version |-> NotFound, firmware |-> NotFound, serialNumber |-> NotFound,
   size |-> NotFound]

\* A variable takes the value found, and keeps its own when none was.
Found(value, kept) == IF value = NoText THEN kept ELSE value
FoundId(id, kept) == IF id = 0 THEN kept ELSE id
FoundNonBlank(value, kept) == IF value \in {NoText, Blank} THEN kept ELSE value

\* humanReadableByteCount: a whole number, and which prefix of "kMGTPE".  The
\* exponent is a quotient of two doubles: next to a power of Unit it may come
\* out on either side of it (of 512 bytes less than 1000^6 it is 6, not 5).
HumanReadableByteCount(bytes) ==
  LET exp == LogQuotient(bytes)
  IN  [number |-> bytes \div Unit^exp, exp |-> exp]

Columns(reading) ==
  LET utc == UtcTimeFromLocalTime(reading, now)
  IN  [local |-> reading, utc |-> utc, est |-> EstTimeFromUtcTime(utc, now)]

-----------------------------------------------------------------------------
\* The loop over the USBs.
Usb == usbs_map[it]

\* (Seeded fault: connected when there are not fewer connections.)
NotFewer == Len(Usb.connectionTimes) >= Len(Usb.disconnectionTimes)
More == Len(Usb.connectionTimes) > Len(Usb.disconnectionTimes)

UsbTable ==
  /\ loop = "usbs" /\ it <= Len(usbs_map)
  /\ usb' = [connected |-> More \/ usb.connected,
             serialNumber |-> Found(Usb.serialNumber, usb.serialNumber),
             productName |-> Found(Usb.productName, usb.productName),
             manufacturer |-> FoundNonBlank(Usb.manufacturer, usb.manufacturer),
             idVendor |-> FoundId(Usb.idVendor, usb.idVendor),
             idProduct |-> FoundId(Usb.idProduct, usb.idProduct)]
  /\ out' = [out EXCEPT !.usbTables = Append(@, usb')]
  /\ usb_all_times_only' = <<>>
  /\ connection' = 1 /\ disconnection' = 1
  /\ loop' = "times"
  /\ UNCHANGED <<given, it, times, diskLoop>>

AtConnection == loop = "times" /\ connection <= Len(Usb.connectionTimes)
AtDisconnection == disconnection <= Len(Usb.disconnectionTimes)

\* One row: the next connection and, if there is one, the next disconnection,
\* in three zones; then initializeUSBTimes.  (Seeded fault: it is not called.)
Row ==
  [connection |-> Columns(Usb.connectionTimes[connection]),
   disconnection |-> IF AtDisconnection
                     THEN Columns(Usb.disconnectionTimes[disconnection])
                     ELSE times.disconnection]

InitializeNoTimes == times' = Row
InitializeUSBTimes == times' = UsbTimes

TimeRow ==
  /\ AtConnection
  /\ usb_all_times_only' = Append(usb_all_times_only, Row)
  /\ InitializeUSBTimes
  /\ connection' = connection + 1
  /\ disconnection' = IF AtDisconnection THEN disconnection + 1 ELSE disconnection
  /\ UNCHANGED <<given, loop, it, usb, diskLoop, out>>

\* The table of times is written.  (Seeded faults: the variables are not
\* initialised; an element is passed over.)
InitializeNoVariables == UNCHANGED usb
InitializeUSBVariables == usb' = UsbVariables

SecondNext == it' = it + 2
NextUsb == it' = it + 1

EndOfTimes ==
  /\ loop = "times" /\ ~AtConnection
  /\ out' = [out EXCEPT !.timeTables = Append(@, usb_all_times_only)]
  /\ InitializeUSBVariables
  /\ loop' = "usbs" /\ NextUsb
  /\ UNCHANGED <<given, connection, disconnection, times, usb_all_times_only, diskLoop>>

-----------------------------------------------------------------------------
\* The loop over the disks.
BeforeHardDisks ==
  /\ loop = "usbs" /\ it > Len(usbs_map)
  /\ loop' = "disks" /\ it' = 1
  /\ UNCHANGED <<given, usbLoop, diskLoop, out>>

Disk == disks_map[it]

\* What the static variables hold as the table is written.
DiskFilled ==
  [path |-> Disk.path, interface |-> Disk.diskType,
   product |-> Found(Disk.product, disk.product),
   version |-> Found(Disk.version, disk.version),
   firmware |-> Found(Disk.firmware, disk.firmware),
   serialNumber |-> Found(Disk.serialNumber, disk.serialNumber),
   size |-> IF Disk.size = 0 THEN disk.size ELSE HumanReadableByteCount(Disk.size)]

\* (Seeded fault: the flag says whether the last disk was found.)
LastFound == ~Disk.isEmpty
AnyFound == at_least_one_disk_found \/ ~Disk.isEmpty

WithDisk(table) == [n \in DOMAIN out.diskTables \cup {it} |->
                      IF n = it THEN table ELSE out.diskTables[n]]

\* initializeDiskVariables follows the table.
DiskTable ==
  /\ loop = "disks" /\ it <= Len(disks_map)
  /\ at_least_one_disk_found' = AnyFound
  /\ out' = IF Disk.isEmpty THEN out
            ELSE [out EXCEPT !.diskTables = WithDisk(DiskFilled)]
  /\ disk' = DiskVariables
  /\ it' = it + 1
  /\ UNCHANGED <<given, loop, usbLoop>>

Close ==
  /\ loop = "disks" /\ it > Len(disks_map)
  /\ out' = [out EXCEPT !.disksNotFound = ~at_least_one_disk_found]
  /\ loop' = "closed"
  /\ UNCHANGED <<given, it, usbLoop, diskLoop>>

-----------------------------------------------------------------------------
Init ==
  /\ usbs_map \in UsbMaps /\ disks_map \in DiskMaps /\ now \in Presents
  /\ loop = "usbs" /\ it = 1 /\ connection = 1 /\ disconnection = 1
  /\ at_least_one_disk_found = FALSE
  /\ usb = UsbVariables /\ times = UsbTimes /\ disk = DiskVariables
  /\ usb_all_times_only = <<>>
  /\ out = [usbTables |-> <<>>, timeTables |-> <<>>, diskTables |-> <<>>,
            disksNotFound |-> FALSE]

Next ==
  UsbTable \/ TimeRow \/ EndOfTimes \/ BeforeHardDisks \/ DiskTable \/ Close

Spec == Init /\ [][Next]_vars

-----------------------------------------------------------------------------
\* The blocks printUSBsMapInTerminal and printDisksMapInTerminal print.
TerminalUsb(u) ==
  [serialNumber |-> Found(u.serialNumber, NotFound),
   productName |-> Found(u.productName, NotFound),
   manufacturer |-> FoundNonBlank(u.manufacturer, NotFound),
   idVendor |-> FoundId(u.idVendor, NotFound),
   idProduct |-> FoundId(u.idProduct, NotFound),
   connectionTimes |-> u.connectionTimes, disconnectionTimes |-> u.disconnectionTimes]

TerminalDisk(d) ==
  [path |-> d.path, interface |-> d.diskType,
   product |-> Found(d.product, NotFound),
   version |-> Found(d.version, NotFound),
   firmware |-> Found(d.firmware, NotFound),
   serialNumber |-> Found(d.serialNumber, NotFound),
   size |-> IF d.size = 0 THEN NotFound ELSE HumanReadableByteCount(d.size)]

TerminalDisks ==
  [n \in {m \in DOMAIN disks_map : ~disks_map[m].isEmpty} |-> TerminalDisk(disks_map[n])]

-----------------------------------------------------------------------------
(***************************************************************************)
(* Properties.                                                             *)
(***************************************************************************)

\* The iterators stay on their lists or at the end of them, and no disk is
\* written twice.
TypeOK ==
  /\ loop \in {"usbs", "times", "disks", "closed"}
  /\ it \in 1..(1 + IF loop \in {"usbs", "times"} THEN Len(usbs_map) ELSE Len(disks_map))
  /\ loop = "times" => /\ it <= Len(usbs_map)
                       /\ connection \in 1..Len(Usb.connectionTimes) + 1
                       /\ disconnection \in 1..Len(Usb.disconnectionTimes) + 1
                       /\ disconnection <= connection
  /\ {at_least_one_disk_found, out.disksNotFound} \subseteq BOOLEAN
  /\ DOMAIN usb = DOMAIN UsbVariables /\ DOMAIN disk = DOMAIN DiskVariables

\* Of the same maps the report and the terminal tell the same: a table holds
\* nothing of the elements before it, though all of them went through the
\* same static variables.
ReportAgreesWithTerminal ==
  /\ \A n \in DOMAIN out.usbTables :
       \A field \in DOMAIN UsbVariables \ {"connected"} :
         out.usbTables[n][field] = TerminalUsb(usbs_map[n])[field]
  /\ \A n \in DOMAIN out.diskTables : out.diskTables[n] = TerminalDisk(disks_map[n])

\* The i-th row of a device shows its i-th connection and its i-th
\* disconnection, and no other row's when it has none: the rows are the
\* sessions, all of them and in order.
RowsAreSessions ==
  \A n \in DOMAIN out.timeTables :
    LET c == TerminalUsb(usbs_map[n]).connectionTimes
        d == TerminalUsb(usbs_map[n]).disconnectionTimes
        rows == out.timeTables[n]
    IN  /\ Len(rows) = Len(c)
        /\ \A i \in DOMAIN rows :
             /\ rows[i].connection.local = c[i]
             /\ rows[i].disconnection.local = IF i \in DOMAIN d THEN d[i] ELSE NoText

\* The head of a device's table says "Connected" exactly when one of the rows
\* below it, written later and from other variables, is without an end.
StatusAgreesWithTimes ==
  \A n \in DOMAIN out.timeTables :
    out.usbTables[n].connected
      <=> \E i \in DOMAIN out.timeTables[n] :
            out.timeTables[n][i].disconnection = NoColumns

\* Closed, the report has a table for each device and for each disk that told
\* who it is, or says that there is no such disk.
ReportIsComplete ==
  loop = "closed" =>
    /\ Len(out.usbTables) = Len(usbs_map) /\ Len(out.timeTables) = Len(usbs_map)
    /\ DOMAIN out.diskTables = DOMAIN TerminalDisks
    /\ out.disksNotFound <=> DOMAIN TerminalDisks = {}

\* The instants at which a clock shows the reading; two when it was set back.
InstantsOf(reading) == {t \in Readings : LocalTime(t) = reading}

ColumnsOf(row) == {row.connection, row.disconnection}

ColumnsWritten ==
  {c \in UNION {UNION {ColumnsOf(out.timeTables[n][i]) : i \in DOMAIN out.timeTables[n]} :
                  n \in DOMAIN out.timeTables} : c # NoColumns}

IsTrue(c) ==
  \E t \in InstantsOf(c.local) : c.utc = t /\ c.est = (t + UtcToEst) % Year

\* A time is shown in UTC and EST as it was, as long as the zone keeps the
\* clock it has at present for the day the conversions move through.
ZoneKeeps(reading) ==
  \A t \in InstantsOf(reading) : \A hours \in -24..24 :
    IsSummer(t + hours) = IsSummer(now)

TimesAreConverted ==
  \A c \in ColumnsWritten :
    (c.local # NoDate /\ InstantsOf(c.local) # {} /\ ZoneKeeps(c.local)) => IsTrue(c)

\* ... and whatever the season of the session and of the report.
TimesAreConvertedAllYear ==
  \A c \in ColumnsWritten :
    (c.local # NoDate /\ InstantsOf(c.local) # {}) => IsTrue(c)

=============================================================================
