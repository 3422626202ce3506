----------------------------- MODULE ReportProofs -----------------------------
(***************************************************************************)
(* What is proved of printHTML() for all maps: the file always holds a     *)
(* prefix of the tables that the maps alone determine, although each table *)
(* went through static variables that the tables before it went through.   *)
(***************************************************************************)
EXTENDS Report, TLAPS

-----------------------------------------------------------------------------
(***************************************************************************)
(* The conversions of output.cpp are exact, in every zone and for every    *)
(* length of the year, as long as the zone keeps the clock it has now for  *)
(* the day the conversions move through.  The lemmas are about the         *)
(* remainder of a division by the length of the year.                      *)
(***************************************************************************)
LEMMA YearOK == Year \in Nat \ {0}
  BY ZoneAssumption DEF ZoneAssumption

LEMMA Division ==
  ASSUME NEW a \in Int
  PROVE  a % Year \in 0..Year - 1 /\ a = Year * (a \div Year) + (a % Year) /\ a \div Year \in Int
  BY YearOK

LEMMA Multiples ==
  ASSUME NEW k \in Int
  PROVE  (k >= 1 => Year * k >= Year) /\ (k <= -1 => Year * k <= -Year)
  BY YearOK

LEMMA RemainderUnique ==
  ASSUME NEW r \in 0..Year - 1, NEW s \in 0..Year - 1, NEW k \in Int, r = s + Year * k
  PROVE  r = s
  <1>1. CASE k >= 1
    BY YearOK, <1>1, Multiples
  <1>2. CASE k <= -1
    BY YearOK, <1>2, Multiples
  <1>3. CASE k = 0
    BY YearOK, <1>3
  <1> QED
    BY <1>1, <1>2, <1>3

LEMMA Distribute ==
  ASSUME NEW u \in Int, NEW v \in Int, NEW q \in Int
  PROVE  Year * (u - v - q) = (Year * u) - (Year * v) - (Year * q)
  BY YearOK

\* A remainder may be taken before adding, or only after.
LEMMA RemainderOfSum ==
  ASSUME NEW a \in Int, NEW b \in Int
  PROVE  ((a % Year) + b) % Year = (a + b) % Year
  <1> DEFINE q == a \div Year
             c == (a % Year) + b
             d == a + b
  <1>1. a % Year \in 0..Year - 1 /\ a = Year * q + (a % Year) /\ q \in Int
    BY Division
  <1>2. c \in Int /\ d \in Int /\ d = Year * q + c
    BY <1>1, YearOK
  <1>3. c % Year \in 0..Year - 1 /\ c = Year * (c \div Year) + (c % Year) /\ c \div Year \in Int
    BY <1>2, Division
  <1>4. d % Year \in 0..Year - 1 /\ d = Year * (d \div Year) + (d % Year) /\ d \div Year \in Int
    BY <1>2, Division
  <1> HIDE DEF c, d, q
  <1>5. c % Year = (d % Year) + Year * ((d \div Year) - (c \div Year) - q)
    <2> DEFINE yd == Year * (d \div Year)
               yc == Year * (c \div Year)
               yq == Year * q
    <2>1. Year * ((d \div Year) - (c \div Year) - q) = yd - yc - yq
      BY <1>1, <1>3, <1>4, Distribute
    <2>2. yd \in Int /\ yc \in Int /\ yq \in Int
      BY <1>1, <1>3, <1>4, YearOK
    <2>3. d = yq + c /\ c = yc + (c % Year) /\ d = yd + (d % Year)
      BY <1>2, <1>3, <1>4
    <2>4. c % Year \in Int /\ d % Year \in Int
      BY <1>3, <1>4
    <2>5. c % Year = (d % Year) + (yd - yc - yq)
      <3> HIDE DEF yd, yc, yq
      <3> QED
        BY <1>2, <2>2, <2>3, <2>4
    <2> QED
      BY <2>1, <2>5
  <1>6. (d \div Year) - (c \div Year) - q \in Int
    BY <1>1, <1>3, <1>4
  <1>7. c % Year = d % Year
    BY <1>3, <1>4, <1>5, <1>6, RemainderUnique
  <1> QED
    BY <1>7 DEF c, d

LEMMA RemainderOfReading ==
  ASSUME NEW t \in Readings
  PROVE  t % Year = t
  <1>1. t \in Int /\ t \in 0..Year - 1
    BY YearOK DEF Readings
  <1>2. t % Year \in 0..Year - 1 /\ t = Year * (t \div Year) + (t % Year) /\ t \div Year \in Int
    BY <1>1, Division
  <1>3. t = (t % Year) + Year * (t \div Year)
    <2> DEFINE y == Year * (t \div Year)
    <2>1. y \in Int /\ t % Year \in Int /\ t = y + (t % Year)
      BY <1>2, YearOK
    <2> HIDE DEF y
    <2>2. t = (t % Year) + y
      BY <1>1, <2>1
    <2> QED
      BY <2>2 DEF y
  <1> QED
    BY <1>1, <1>2, <1>3, RemainderUnique

\* Of a reading of the clock the conversions make the instant it was read at,
\* and five hours before it.
LEMMA ConversionsAreExact ==
  ASSUME NEW t \in Readings, NEW present \in Int,
         \A hours \in -24..24 : IsSummer(t + hours) = IsSummer(present)
  PROVE  /\ UtcTimeFromLocalTime(LocalTime(t), present) = t
         /\ EstTimeFromUtcTime(t, present) = (t + UtcToEst) % Year
  <1> DEFINE A == Ahead(IsSummer(present))
  <1>1. t \in Int /\ A \in -12..15
    BY YearOK, ZoneAssumption DEF Readings, Ahead, ZoneAssumption
  <1>2. IsSummer(t) = IsSummer(present)
    <2>1. 0 \in -24..24 /\ t + 0 = t
      BY <1>1
    <2> QED
      BY <2>1
  <1>3. LocalTime(t) = (t + A) % Year
    BY <1>2 DEF LocalTime
  <1> HIDE DEF A
  <1>4. UtcTimeFromLocalTime(LocalTime(t), present) = t
    <2>1. UtcTimeFromLocalTime(LocalTime(t), present) = (LocalTime(t) - A) % Year
      BY DEF UtcTimeFromLocalTime, GmTime, MkTime, A
    <2>2. t + A \in Int /\ -A \in Int /\ (t + A) + (-A) = t
      BY <1>1
    <2>3. ((t + A) % Year) - A = ((t + A) % Year) + (-A)
      BY <1>1, <2>2, Division
    <2>4. (((t + A) % Year) + (-A)) % Year = t % Year
      BY <2>2, RemainderOfSum
    <2> QED
      BY <1>3, <2>1, <2>3, <2>4, RemainderOfReading
  <1>5. EstTimeFromUtcTime(t, present) = (t + UtcToEst) % Year
    <2> DEFINE e == t - A + UtcToEst
    <2>1. EstTimeFromUtcTime(t, present) = LocalTime(e)
      BY DEF EstTimeFromUtcTime, MkTime, A
    <2>2. IsSummer(e) = IsSummer(present)
      <3>1. UtcToEst - A \in -24..24 /\ t + (UtcToEst - A) = e
        BY <1>1 DEF UtcToEst
      <3> HIDE DEF e
      <3>2. IsSummer(t + (UtcToEst - A)) = IsSummer(present)
        BY <3>1
      <3> QED
        BY <3>1, <3>2
    <2>3. e + A = t + UtcToEst
      BY <1>1 DEF UtcToEst
    <2> QED
      BY <2>1, <2>2, <2>3 DEF LocalTime, A
  <1> QED
    BY <1>4, <1>5

-----------------------------------------------------------------------------
\* The tables as the maps determine them.
UsbTableOf(u) ==
  [connected |-> Len(u.connectionTimes) > Len(u.disconnectionTimes),
   serialNumber |-> Found(u.serialNumber, NotFound),
   productName |-> Found(u.productName, NotFound),
   manufacturer |-> FoundNonBlank(u.manufacturer, NotFound),
   idVendor |-> FoundId(u.idVendor, NotFound),
   idProduct |-> FoundId(u.idProduct, NotFound)]

RowOf(u, i) ==
  [connection |-> Columns(u.connectionTimes[i]),
   disconnection |-> IF i <= Len(u.disconnectionTimes)
                     THEN Columns(u.disconnectionTimes[i]) ELSE NoColumns]

RowsOf(u) == [i \in 1..Len(u.connectionTimes) |-> RowOf(u, i)]

AllUsbTables == [n \in DOMAIN usbs_map |-> UsbTableOf(usbs_map[n])]
AllTimeTables == [n \in DOMAIN usbs_map |-> RowsOf(usbs_map[n])]

Prefix(s, k) == [i \in 1..k |-> s[i]]

Told(k) == {n \in 1..k : ~disks_map[n].isEmpty}

-----------------------------------------------------------------------------
\* How far the loops are.
UsbsDone == IF loop \in {"usbs", "times"} THEN it - 1 ELSE Len(usbs_map)
UsbsBegun == IF loop = "times" THEN it ELSE UsbsDone
DisksDone == IF loop = "disks" THEN it - 1
             ELSE IF loop = "closed" THEN Len(disks_map) ELSE 0

GivenOK == usbs_map \in UsbMaps /\ disks_map \in DiskMaps /\ now \in Presents

LoopOK ==
  /\ loop \in {"usbs", "times", "disks", "closed"}
  /\ it \in Nat /\ it > 0
  /\ loop = "usbs" => it <= Len(usbs_map) + 1
  /\ loop = "times" => /\ it <= Len(usbs_map)
                       /\ connection \in 1..Len(Usb.connectionTimes) + 1
                       /\ disconnection = IF connection <= Len(Usb.disconnectionTimes)
                                          THEN connection
                                          ELSE Len(Usb.disconnectionTimes) + 1
  /\ loop = "disks" => it <= Len(disks_map) + 1
  /\ loop = "closed" => it = Len(disks_map) + 1

\* Between two tables each static variable has its initial value.
VariablesOK ==
  /\ times = UsbTimes /\ disk = DiskVariables
  /\ usb = IF loop = "times" THEN UsbTableOf(Usb) ELSE UsbVariables
  /\ loop = "times" => usb_all_times_only = Prefix(RowsOf(Usb), connection - 1)

TablesOK ==
  /\ out.usbTables = Prefix(AllUsbTables, UsbsBegun)
  /\ out.timeTables = Prefix(AllTimeTables, UsbsDone)
  /\ out.diskTables = [n \in Told(DisksDone) |-> TerminalDisk(disks_map[n])]

FlagsOK ==
  /\ at_least_one_disk_found \in BOOLEAN /\ out.disksNotFound \in BOOLEAN
  /\ at_least_one_disk_found <=> Told(DisksDone) # {}
  /\ out.disksNotFound <=> loop = "closed" /\ Told(DisksDone) = {}

OutOK ==
  /\ out = [usbTables |-> out.usbTables, timeTables |-> out.timeTables,
            diskTables |-> out.diskTables, disksNotFound |-> out.disksNotFound]
  /\ TablesOK /\ FlagsOK

Inv == GivenOK /\ LoopOK /\ VariablesOK /\ OutOK

-----------------------------------------------------------------------------
LEMMA PrefixAppend ==
  ASSUME NEW s, NEW k \in Nat
  PROVE  Append(Prefix(s, k), s[k + 1]) = Prefix(s, k + 1)
  <1> DEFINE S == {s[i] : i \in 1..k + 1}
  <1>1. Prefix(s, k) \in Seq(S) /\ s[k + 1] \in S /\ Len(Prefix(s, k)) = k
    BY DEF Prefix
  <1> HIDE DEF S
  <1>2. /\ DOMAIN Append(Prefix(s, k), s[k + 1]) = 1..k + 1
        /\ \A i \in 1..k : Append(Prefix(s, k), s[k + 1])[i] = Prefix(s, k)[i]
        /\ Append(Prefix(s, k), s[k + 1])[k + 1] = s[k + 1]
        /\ Append(Prefix(s, k), s[k + 1]) \in Seq(S)
    BY <1>1
  <1> QED
    BY <1>2 DEF Prefix

LEMMA PrefixNone == ASSUME NEW s PROVE Prefix(s, 0) = <<>>
  BY DEF Prefix

\* What the assumption says of the element the loop is at.
LEMMA UsbOK ==
  ASSUME GivenOK, NEW n \in 1..Len(usbs_map)
  PROVE  LET u == usbs_map[n]
         IN  /\ u.connectionTimes \in Seq(Readings \cup {NoDate})
             /\ u.disconnectionTimes \in Seq(Readings \cup {NoDate})
             /\ Len(u.connectionTimes) \in Nat /\ Len(u.disconnectionTimes) \in Nat
             /\ Len(u.disconnectionTimes) <= Len(u.connectionTimes)
  BY MapsAssumption DEF GivenOK, MapsAssumption

LEMMA LengthsOK ==
  ASSUME GivenOK
  PROVE  /\ Len(usbs_map) \in Nat /\ DOMAIN usbs_map = 1..Len(usbs_map)
         /\ Len(disks_map) \in Nat /\ DOMAIN disks_map = 1..Len(disks_map)
         /\ \A n \in DOMAIN disks_map : disks_map[n].isEmpty \in BOOLEAN
  BY MapsAssumption DEF GivenOK, MapsAssumption

\* The maps never change, nor does what they determine.
LEMMA SameTables ==
  ASSUME UNCHANGED given
  PROVE  /\ AllUsbTables' = AllUsbTables /\ AllTimeTables' = AllTimeTables
         /\ \A k : Told(k)' = Told(k)
         /\ \A u, i : RowOf(u, i)' = RowOf(u, i)
         /\ GivenOK => GivenOK'
  <1>1. usbs_map' = usbs_map /\ disks_map' = disks_map /\ now' = now
    BY DEF given
  <1>2. AllUsbTables' = AllUsbTables /\ \A k : Told(k)' = Told(k)
    BY <1>1 DEF AllUsbTables, Told
  <1>3. \A u, i : RowOf(u, i)' = RowOf(u, i)
    BY <1>1 DEF RowOf, Columns
  <1>4. AllTimeTables' = AllTimeTables
    BY <1>1 DEF AllTimeTables, RowsOf, RowOf, Columns
  <1> QED
    BY <1>1, <1>2, <1>3, <1>4 DEF GivenOK

LEMMA InitInv == Init => Inv
  <1> SUFFICES ASSUME Init
               PROVE  Inv
    OBVIOUS
  <1>1. GivenOK
    BY DEF Init, GivenOK
  <1>2. UsbsDone = 0 /\ UsbsBegun = 0 /\ DisksDone = 0 /\ Told(0) = {}
    BY DEF Init, UsbsDone, UsbsBegun, DisksDone, Told
  <1>3. LoopOK
    BY <1>1, LengthsOK DEF Init, LoopOK
  <1>4. VariablesOK
    BY DEF Init, VariablesOK
  <1>5. TablesOK
    <2>1. [n \in Told(DisksDone) |-> TerminalDisk(disks_map[n])] = <<>>
      BY <1>2
    <2> QED
      BY <1>2, <2>1, PrefixNone DEF Init, TablesOK
  <1>6. FlagsOK
    BY <1>2 DEF Init, FlagsOK
  <1>7. OutOK
    BY <1>5, <1>6 DEF Init, OutOK
  <1> QED
    BY <1>1, <1>3, <1>4, <1>7 DEF Inv

-----------------------------------------------------------------------------
LEMMA UsbTableStep == Inv /\ UsbTable => Inv'
  <1> SUFFICES ASSUME Inv, UsbTable
               PROVE  Inv'
    OBVIOUS
  <1>1. /\ it' = it /\ loop' = "times" /\ loop = "usbs" /\ it \in 1..Len(usbs_map)
        /\ UNCHANGED <<usbs_map, disks_map, now, times, disk, at_least_one_disk_found>>
        /\ connection' = 1 /\ disconnection' = 1 /\ usb_all_times_only' = <<>>
    BY LengthsOK DEF UsbTable, given, diskLoop, Inv, LoopOK
  <1>2. GivenOK'
    BY <1>1 DEF Inv, GivenOK
  <1>3. LoopOK'
    BY <1>1, UsbOK DEF Inv, LoopOK, Usb
  <1>4. usb' = UsbTableOf(Usb)
    BY <1>1 DEF UsbTable, Inv, VariablesOK, UsbVariables, UsbTableOf, More, Found, FoundId,
                FoundNonBlank
  <1>5. VariablesOK'
    BY <1>1, <1>4, PrefixNone DEF Inv, VariablesOK, UsbTableOf, Usb, RowsOf, RowOf, Prefix
  <1>6. /\ UsbsDone = it - 1 /\ UsbsDone' = it - 1 /\ UsbsBegun = it - 1 /\ UsbsBegun' = it
        /\ DisksDone = 0 /\ DisksDone' = 0
    BY <1>1 DEF UsbsDone, UsbsBegun, DisksDone
  <1>7. Append(Prefix(AllUsbTables, it - 1), UsbTableOf(Usb)) = Prefix(AllUsbTables, it)
    <2>1. UsbTableOf(Usb) = AllUsbTables[it] /\ it - 1 \in Nat /\ it = (it - 1) + 1
      BY <1>1, LengthsOK DEF AllUsbTables, Usb, Inv
    <2> QED
      BY <2>1, PrefixAppend
  <1>8. out' = [out EXCEPT !.usbTables = Append(@, usb')]
    BY DEF UsbTable
  <1>9. TablesOK'
    <2>1. out'.usbTables = Prefix(AllUsbTables', UsbsBegun')
      BY <1>1, <1>4, <1>6, <1>7, <1>8 DEF Inv, OutOK, TablesOK, AllUsbTables
    <2>2. out'.timeTables = Prefix(AllTimeTables', UsbsDone')
      BY <1>6, <1>8, SameTables DEF UsbTable, Inv, OutOK, TablesOK
    <2>3. out'.diskTables = [n \in Told(DisksDone)' |-> TerminalDisk(disks_map[n])']
      BY <1>1, <1>6, <1>8 DEF Inv, OutOK, TablesOK, Told, TerminalDisk
    <2> QED
      BY <2>1, <2>2, <2>3 DEF TablesOK
  <1>10. FlagsOK'
    BY <1>1, <1>6, <1>8 DEF Inv, OutOK, FlagsOK, Told
  <1>11. OutOK'
    BY <1>8, <1>9, <1>10 DEF Inv, OutOK
  <1> QED
    BY <1>2, <1>3, <1>5, <1>11 DEF Inv

LEMMA TimeRowStep == Inv /\ TimeRow => Inv'
  <1> SUFFICES ASSUME Inv, TimeRow
               PROVE  Inv'
    OBVIOUS
  <1>1. /\ it' = it /\ loop' = "times" /\ loop = "times" /\ it \in 1..Len(usbs_map)
        /\ UNCHANGED <<given, usbs_map, disks_map, now, usb, disk, out, at_least_one_disk_found>>
        /\ connection' = connection + 1 /\ times' = UsbTimes
        /\ connection \in 1..Len(Usb.connectionTimes)
    BY LengthsOK, UsbOK DEF TimeRow, AtConnection, given, diskLoop, Inv, LoopOK, InitializeUSBTimes,
                           Usb
  <1>2. GivenOK'
    BY <1>1, SameTables DEF Inv
  <1>3. Usb' = Usb
    BY <1>1 DEF Usb
  <1>4. /\ Len(Usb.connectionTimes) \in Nat /\ Len(Usb.disconnectionTimes) \in Nat
        /\ Len(Usb.disconnectionTimes) <= Len(Usb.connectionTimes)
    BY <1>1, UsbOK DEF Inv, Usb
  <1>5. disconnection' = IF AtDisconnection THEN disconnection + 1 ELSE disconnection
    BY DEF TimeRow
  <1>6. LoopOK'
    BY <1>1, <1>3, <1>4, <1>5 DEF Inv, LoopOK, AtDisconnection
  <1>7. Row = RowOf(Usb, connection)
    <2>1. times.disconnection = NoColumns
      BY DEF Inv, VariablesOK, UsbTimes
    <2>2. AtDisconnection <=> connection <= Len(Usb.disconnectionTimes)
      BY <1>1, <1>4 DEF Inv, LoopOK, AtDisconnection
    <2>3. AtDisconnection => disconnection = connection
      BY <1>1, <1>4 DEF Inv, LoopOK, AtDisconnection
    <2> QED
      BY <2>1, <2>2, <2>3 DEF Row, RowOf
  <1>8. usb_all_times_only' = Prefix(RowsOf(Usb), connection)
    <2>1. usb_all_times_only' = Append(Prefix(RowsOf(Usb), connection - 1), Row)
      BY <1>1 DEF TimeRow, Inv, VariablesOK
    <2>2. Row = RowsOf(Usb)[connection] /\ connection - 1 \in Nat
      BY <1>1, <1>7 DEF RowsOf
    <2> QED
      BY <1>1, <2>1, <2>2, PrefixAppend
  <1>9. VariablesOK'
    <2>1. RowsOf(Usb)' = RowsOf(Usb)
      BY <1>1, <1>3 DEF RowsOf, RowOf, Columns
    <2>2. UsbTableOf(Usb)' = UsbTableOf(Usb)
      BY <1>3 DEF UsbTableOf
    <2> QED
      BY <1>1, <1>8, <2>1, <2>2 DEF Inv, VariablesOK
  <1>10. UNCHANGED <<UsbsDone, UsbsBegun, DisksDone>>
    BY <1>1 DEF UsbsDone, UsbsBegun, DisksDone
  <1>11. TablesOK'
    BY <1>1, <1>10, SameTables DEF Inv, OutOK, TablesOK, Told, TerminalDisk
  <1>12. FlagsOK'
    BY <1>1, <1>10 DEF Inv, OutOK, FlagsOK, Told
  <1> QED
    BY <1>1, <1>2, <1>6, <1>9, <1>11, <1>12 DEF Inv, OutOK

LEMMA EndOfTimesStep == Inv /\ EndOfTimes => Inv'
  <1> SUFFICES ASSUME Inv, EndOfTimes
               PROVE  Inv'
    OBVIOUS
  <1>1. /\ it' = it + 1 /\ loop' = "usbs" /\ loop = "times" /\ it \in 1..Len(usbs_map)
        /\ UNCHANGED <<given, usbs_map, disks_map, now, times, disk, at_least_one_disk_found>>
        /\ usb' = UsbVariables
    BY LengthsOK DEF EndOfTimes, given, diskLoop, Inv, LoopOK, NextUsb, InitializeUSBVariables
  <1>2. GivenOK'
    BY <1>1, SameTables DEF Inv
  <1>3. LoopOK'
    BY <1>1, LengthsOK DEF Inv, LoopOK
  <1>4. VariablesOK'
    BY <1>1 DEF Inv, VariablesOK
  <1>5. connection - 1 = Len(Usb.connectionTimes)
    BY <1>1, UsbOK DEF EndOfTimes, AtConnection, Inv, LoopOK, Usb
  <1>6. usb_all_times_only = AllTimeTables[it]
    BY <1>1, <1>5, LengthsOK DEF Inv, VariablesOK, Prefix, RowsOf, AllTimeTables, Usb
  <1>7. Append(Prefix(AllTimeTables, it - 1), usb_all_times_only) = Prefix(AllTimeTables, it)
    <2>1. it - 1 \in Nat /\ it = (it - 1) + 1
      BY <1>1, LengthsOK DEF Inv
    <2> QED
      BY <1>6, <2>1, PrefixAppend
  <1>8. /\ UsbsDone = it - 1 /\ UsbsDone' = it /\ UsbsBegun = it /\ UsbsBegun' = it
        /\ DisksDone = 0 /\ DisksDone' = 0
    BY <1>1 DEF UsbsDone, UsbsBegun, DisksDone
  <1>9. out' = [out EXCEPT !.timeTables = Append(@, usb_all_times_only)]
    BY DEF EndOfTimes
  <1>10. TablesOK'
    <2>1. out'.usbTables = Prefix(AllUsbTables', UsbsBegun')
      BY <1>1, <1>8, <1>9, SameTables DEF Inv, OutOK, TablesOK
    <2>2. out'.timeTables = Prefix(AllTimeTables', UsbsDone')
      BY <1>1, <1>7, <1>8, <1>9, SameTables DEF Inv, OutOK, TablesOK
    <2>3. out'.diskTables = [n \in Told(DisksDone)' |-> TerminalDisk(disks_map[n])']
      BY <1>1, <1>8, <1>9 DEF Inv, OutOK, TablesOK, Told, TerminalDisk
    <2> QED
      BY <2>1, <2>2, <2>3 DEF TablesOK
  <1>11. FlagsOK'
    BY <1>1, <1>8, <1>9 DEF Inv, OutOK, FlagsOK, Told
  <1> QED
    BY <1>2, <1>3, <1>4, <1>9, <1>10, <1>11 DEF Inv, OutOK

LEMMA BeforeHardDisksStep == Inv /\ BeforeHardDisks => Inv'
  <1> SUFFICES ASSUME Inv, BeforeHardDisks
               PROVE  Inv'
    OBVIOUS
  <1>1. /\ it' = 1 /\ loop' = "disks" /\ loop = "usbs" /\ it = Len(usbs_map) + 1
        /\ UNCHANGED <<given, usbs_map, disks_map, now, usb, times, disk, out,
                       at_least_one_disk_found>>
    BY LengthsOK DEF BeforeHardDisks, given, usbLoop, diskLoop, Inv, LoopOK
  <1>2. GivenOK'
    BY <1>1, SameTables DEF Inv
  <1>3. LoopOK'
    BY <1>1, LengthsOK DEF Inv, LoopOK
  <1>4. VariablesOK'
    BY <1>1 DEF Inv, VariablesOK
  <1>5. UNCHANGED <<UsbsDone, UsbsBegun, DisksDone>>
    BY <1>1, LengthsOK DEF UsbsDone, UsbsBegun, DisksDone, Inv
  <1>6. TablesOK'
    BY <1>1, <1>5, SameTables DEF Inv, OutOK, TablesOK, Told, TerminalDisk
  <1>7. FlagsOK'
    BY <1>1, <1>5 DEF Inv, OutOK, FlagsOK, Told
  <1> QED
    BY <1>1, <1>2, <1>3, <1>4, <1>6, <1>7 DEF Inv, OutOK

LEMMA DiskTableStep == Inv /\ DiskTable => Inv'
  <1> SUFFICES ASSUME Inv, DiskTable
               PROVE  Inv'
    OBVIOUS
  <1>1. /\ it' = it + 1 /\ loop' = "disks" /\ loop = "disks" /\ it \in 1..Len(disks_map)
        /\ UNCHANGED <<given, usbs_map, disks_map, now, usb, times>>
        /\ disk' = DiskVariables
    BY LengthsOK DEF DiskTable, given, usbLoop, Inv, LoopOK
  <1>2. GivenOK'
    BY <1>1, SameTables DEF Inv
  <1>3. LoopOK'
    BY <1>1, LengthsOK DEF Inv, LoopOK
  <1>4. VariablesOK'
    BY <1>1 DEF Inv, VariablesOK
  <1>5. /\ UNCHANGED <<UsbsDone, UsbsBegun>>
        /\ DisksDone = it - 1 /\ DisksDone' = it
    BY <1>1 DEF UsbsDone, UsbsBegun, DisksDone
  <1>6. Disk.isEmpty \in BOOLEAN /\ Disk = disks_map[it]
    BY <1>1, LengthsOK DEF Disk, Inv
  <1>7. Told(it) = IF Disk.isEmpty THEN Told(it - 1) ELSE Told(it - 1) \cup {it}
    BY <1>1, <1>6, LengthsOK DEF Told, Inv
  <1>8. DiskFilled = TerminalDisk(Disk)
    BY DEF Inv, VariablesOK, DiskFilled, DiskVariables, TerminalDisk, Found
  <1>9. at_least_one_disk_found' = AnyFound /\ it \in Told(it) \cup {it}
    BY DEF DiskTable
  <1>10. CASE Disk.isEmpty
    <2>1. out' = out /\ Told(DisksDone)' = Told(DisksDone)
      BY <1>1, <1>5, <1>7, <1>10 DEF DiskTable, Told
    <2>2. TablesOK'
      BY <1>1, <1>5, <2>1, SameTables DEF Inv, OutOK, TablesOK, TerminalDisk
    <2>3. FlagsOK'
      BY <1>1, <1>9, <1>10, <2>1 DEF Inv, OutOK, FlagsOK, AnyFound
    <2> QED
      BY <1>2, <1>3, <1>4, <2>1, <2>2, <2>3 DEF Inv, OutOK
  <1>11. CASE ~Disk.isEmpty
    <2>1. /\ out' = [out EXCEPT !.diskTables = WithDisk(DiskFilled)]
          /\ Told(DisksDone)' = Told(DisksDone) \cup {it}
      BY <1>1, <1>5, <1>7, <1>11 DEF DiskTable, Told
    <2>2. WithDisk(DiskFilled) = [n \in Told(DisksDone) \cup {it} |-> TerminalDisk(disks_map[n])]
      <3>1. out.diskTables = [n \in Told(DisksDone) |-> TerminalDisk(disks_map[n])]
        BY DEF Inv, OutOK, TablesOK
      <3>2. DOMAIN out.diskTables = Told(DisksDone)
        BY <3>1
      <3>3. ASSUME NEW n \in Told(DisksDone) \cup {it}
            PROVE  (IF n = it THEN DiskFilled ELSE out.diskTables[n]) = TerminalDisk(disks_map[n])
        <4>1. CASE n = it
          BY <1>6, <1>8, <4>1
        <4>2. CASE n # it
          BY <3>1, <4>2
        <4> QED
          BY <4>1, <4>2
      <3> QED
        BY <3>2, <3>3 DEF WithDisk
    <2>3. TablesOK'
      <3>1. out'.diskTables = [n \in Told(DisksDone)' |-> TerminalDisk(disks_map[n])']
        BY <1>1, <2>1, <2>2 DEF Inv, OutOK, TerminalDisk
      <3>2. out'.usbTables = Prefix(AllUsbTables', UsbsBegun')
        BY <1>1, <1>5, <2>1, SameTables DEF Inv, OutOK, TablesOK
      <3>3. out'.timeTables = Prefix(AllTimeTables', UsbsDone')
        BY <1>1, <1>5, <2>1, SameTables DEF Inv, OutOK, TablesOK
      <3> QED
        BY <3>1, <3>2, <3>3 DEF TablesOK
    <2>4. FlagsOK'
      BY <1>1, <1>9, <1>11, <2>1 DEF Inv, OutOK, FlagsOK, AnyFound
    <2> QED
      BY <1>2, <1>3, <1>4, <2>1, <2>3, <2>4 DEF Inv, OutOK
  <1> QED
    BY <1>6, <1>10, <1>11

LEMMA CloseStep == Inv /\ Close => Inv'
  <1> SUFFICES ASSUME Inv, Close
               PROVE  Inv'
    OBVIOUS
  <1>1. /\ it' = it /\ loop' = "closed" /\ loop = "disks" /\ it = Len(disks_map) + 1
        /\ UNCHANGED <<given, usbs_map, disks_map, now, usb, times, disk,
                       at_least_one_disk_found>>
        /\ out' = [out EXCEPT !.disksNotFound = ~at_least_one_disk_found]
    BY LengthsOK DEF Close, given, usbLoop, diskLoop, Inv, LoopOK
  <1>2. GivenOK'
    BY <1>1, SameTables DEF Inv
  <1>3. LoopOK'
    BY <1>1, LengthsOK DEF Inv, LoopOK
  <1>4. VariablesOK'
    BY <1>1 DEF Inv, VariablesOK
  <1>5. UNCHANGED <<UsbsDone, UsbsBegun, DisksDone>>
    BY <1>1, LengthsOK DEF UsbsDone, UsbsBegun, DisksDone, Inv
  <1>6. TablesOK'
    <2>1. /\ out'.usbTables = out.usbTables /\ out'.timeTables = out.timeTables
          /\ out'.diskTables = out.diskTables
      BY <1>1 DEF Inv, OutOK
    <2> QED
      BY <1>1, <1>5, <2>1, SameTables DEF Inv, OutOK, TablesOK, TerminalDisk, Told
  <1>7. FlagsOK'
    BY <1>1, <1>5 DEF Inv, OutOK, FlagsOK, Told
  <1> QED
    BY <1>1, <1>2, <1>3, <1>4, <1>6, <1>7 DEF Inv, OutOK

LEMMA Invariance == Spec => []Inv
  <1>1. Inv /\ UNCHANGED vars => Inv'
    <2> SUFFICES ASSUME Inv, UNCHANGED vars
                 PROVE  Inv'
      OBVIOUS
    <2>1. /\ UNCHANGED <<given, usbs_map, disks_map, now, loop, it, connection, disconnection,
                         usb, times, usb_all_times_only, at_least_one_disk_found, disk, out>>
      BY DEF vars, given, usbLoop, diskLoop
    <2>2. UNCHANGED <<UsbsDone, UsbsBegun, DisksDone, Usb>>
      BY <2>1 DEF UsbsDone, UsbsBegun, DisksDone, Usb
    <2>3. GivenOK' /\ LoopOK'
      BY <2>1, <2>2, SameTables DEF Inv, LoopOK
    <2>4. VariablesOK'
      BY <2>1, <2>2 DEF Inv, VariablesOK, UsbTableOf, RowsOf, RowOf, Columns
    <2>5. TablesOK'
      BY <2>1, <2>2, SameTables DEF Inv, OutOK, TablesOK, Told, TerminalDisk
    <2>6. FlagsOK'
      BY <2>1, <2>2 DEF Inv, OutOK, FlagsOK, Told
    <2> QED
      BY <2>1, <2>3, <2>4, <2>5, <2>6 DEF Inv, OutOK
  <1> QED
    BY <1>1, InitInv, UsbTableStep, TimeRowStep, EndOfTimesStep, BeforeHardDisksStep,
       DiskTableStep, CloseStep, PTL DEF Spec, Next

-----------------------------------------------------------------------------
\* The loops stay on the maps and lists they walk; the rows of a device never
\* have more ends than beginnings.
THEOREM ReportTypeCorrect == Spec => []TypeOK
  <1>1. Inv => TypeOK
    <2> SUFFICES ASSUME Inv
                 PROVE  TypeOK
      OBVIOUS
    <2>1. it \in 1..(1 + IF loop \in {"usbs", "times"} THEN Len(usbs_map) ELSE Len(disks_map))
      BY LengthsOK DEF Inv, LoopOK
    <2>2. ASSUME loop = "times"
          PROVE  /\ it <= Len(usbs_map)
                 /\ connection \in 1..Len(Usb.connectionTimes) + 1
                 /\ disconnection \in 1..Len(Usb.disconnectionTimes) + 1
                 /\ disconnection <= connection
      <3>1. it \in 1..Len(usbs_map)
        BY <2>2, LengthsOK DEF Inv, LoopOK
      <3>2. Len(Usb.connectionTimes) \in Nat /\ Len(Usb.disconnectionTimes) \in Nat
        BY <3>1, UsbOK DEF Inv, Usb
      <3> QED
        BY <2>2, <3>2 DEF Inv, LoopOK
    <2>3. DOMAIN usb = DOMAIN UsbVariables /\ DOMAIN disk = DOMAIN DiskVariables
      BY DEF Inv, VariablesOK, UsbVariables, UsbTableOf
    <2>4. {at_least_one_disk_found, out.disksNotFound} \subseteq BOOLEAN
      BY DEF Inv, OutOK, FlagsOK
    <2> QED
      BY <2>1, <2>2, <2>3, <2>4 DEF TypeOK, Inv, LoopOK
  <1> QED
    BY <1>1, Invariance, PTL

\* What is written of an element is what the terminal shows of it: nothing of
\* another element is left in the static variables when its turn comes.
THEOREM Agreement == Spec => []ReportAgreesWithTerminal
  <1>1. Inv => ReportAgreesWithTerminal
    <2> SUFFICES ASSUME Inv
                 PROVE  ReportAgreesWithTerminal
      OBVIOUS
    <2>1. ASSUME NEW n \in DOMAIN out.usbTables,
                 NEW field \in DOMAIN UsbVariables \ {"connected"}
          PROVE  out.usbTables[n][field] = TerminalUsb(usbs_map[n])[field]
      <3>1. n \in 1..UsbsBegun /\ out.usbTables[n] = AllUsbTables[n]
        BY DEF Inv, OutOK, TablesOK, Prefix
      <3>2. UsbsBegun <= Len(usbs_map) /\ UsbsBegun \in Int
        BY LengthsOK DEF Inv, LoopOK, UsbsBegun, UsbsDone
      <3>3. n \in DOMAIN usbs_map
        BY <3>1, <3>2, LengthsOK DEF Inv
      <3>4. out.usbTables[n] = UsbTableOf(usbs_map[n])
        BY <3>1, <3>3 DEF AllUsbTables
      <3>5. field \in {"serialNumber", "productName", "manufacturer", "idVendor", "idProduct"}
        BY DEF UsbVariables
      <3> QED
        BY <3>4, <3>5 DEF UsbTableOf, TerminalUsb
    <2>2. \A n \in DOMAIN out.diskTables : out.diskTables[n] = TerminalDisk(disks_map[n])
      BY DEF Inv, OutOK, TablesOK
    <2> QED
      BY <2>1, <2>2 DEF ReportAgreesWithTerminal
  <1> QED
    BY <1>1, Invariance, PTL

\* The tables of times that are written.
LEMMA TimeTable ==
  ASSUME Inv, NEW n \in DOMAIN out.timeTables
  PROVE  /\ n \in 1..Len(usbs_map) /\ n \in 1..UsbsBegun
         /\ out.timeTables[n] = RowsOf(usbs_map[n])
  <1>1. n \in 1..UsbsDone /\ out.timeTables[n] = AllTimeTables[n]
    BY DEF Inv, OutOK, TablesOK, Prefix
  <1>2. UsbsDone <= Len(usbs_map) /\ UsbsDone \in Int /\ UsbsDone <= UsbsBegun
    BY LengthsOK DEF Inv, LoopOK, UsbsDone, UsbsBegun
  <1>3. n \in DOMAIN usbs_map /\ UsbsBegun \in Int
    BY <1>1, <1>2, LengthsOK DEF Inv, LoopOK, UsbsBegun
  <1> QED
    BY <1>1, <1>2, <1>3, LengthsOK DEF AllTimeTables, Inv

\* No column of a time is empty.
LEMMA ColumnsFilled ==
  ASSUME NEW reading \in Readings \cup {NoDate}
  PROVE  Columns(reading).local = reading /\ Columns(reading) # NoColumns
  <1>1. reading # NoText
    BY MapsAssumption DEF MapsAssumption
  <1> QED
    BY <1>1 DEF Columns, NoColumns

\* The rows of a device are its sessions, although one loop walks both lists
\* and one pair of variables holds every row.
THEOREM Rows == Spec => []RowsAreSessions
  <1>1. Inv => RowsAreSessions
    <2> SUFFICES ASSUME Inv, NEW n \in DOMAIN out.timeTables
                 PROVE  LET c == usbs_map[n].connectionTimes
                            d == usbs_map[n].disconnectionTimes
                            rows == out.timeTables[n]
                        IN  /\ Len(rows) = Len(c)
                            /\ \A i \in DOMAIN rows :
                                 /\ rows[i].connection.local = c[i]
                                 /\ rows[i].disconnection.local =
                                      IF i \in DOMAIN d THEN d[i] ELSE NoText
      BY DEF RowsAreSessions, TerminalUsb
    <2> DEFINE u == usbs_map[n]
    <2>1. /\ n \in 1..Len(usbs_map) /\ out.timeTables[n] = RowsOf(u)
          /\ u.connectionTimes \in Seq(Readings \cup {NoDate})
          /\ u.disconnectionTimes \in Seq(Readings \cup {NoDate})
          /\ Len(u.connectionTimes) \in Nat /\ Len(u.disconnectionTimes) \in Nat
      BY TimeTable, UsbOK DEF Inv
    <2>2. Len(out.timeTables[n]) = Len(u.connectionTimes)
      BY <2>1 DEF RowsOf
    <2>3. ASSUME NEW i \in 1..Len(u.connectionTimes)
          PROVE  /\ RowOf(u, i).connection.local = u.connectionTimes[i]
                 /\ RowOf(u, i).disconnection.local =
                      IF i \in DOMAIN u.disconnectionTimes
                      THEN u.disconnectionTimes[i] ELSE NoText
      <3>1. i \in DOMAIN u.disconnectionTimes <=> i <= Len(u.disconnectionTimes)
        BY <2>1
      <3> QED
        BY <3>1 DEF RowOf, Columns, NoColumns
    <2> QED
      BY <2>1, <2>2, <2>3 DEF RowsOf
  <1> QED
    BY <1>1, Invariance, PTL

\* The colour of the head agrees with the rows.
THEOREM Status == Spec => []StatusAgreesWithTimes
  <1>1. Inv => StatusAgreesWithTimes
    <2> SUFFICES ASSUME Inv, NEW n \in DOMAIN out.timeTables
                 PROVE  out.usbTables[n].connected
                          <=> \E i \in DOMAIN out.timeTables[n] :
                                out.timeTables[n][i].disconnection = NoColumns
      BY DEF StatusAgreesWithTimes
    <2> DEFINE u == usbs_map[n]
               c == u.connectionTimes
               d == u.disconnectionTimes
    <2>1. /\ n \in 1..Len(usbs_map) /\ n \in 1..UsbsBegun /\ out.timeTables[n] = RowsOf(u)
          /\ c \in Seq(Readings \cup {NoDate}) /\ d \in Seq(Readings \cup {NoDate})
          /\ Len(c) \in Nat /\ Len(d) \in Nat /\ Len(d) <= Len(c)
      BY TimeTable, UsbOK DEF Inv
    <2>2. out.usbTables[n].connected <=> Len(c) > Len(d)
      <3>1. out.usbTables[n] = UsbTableOf(u)
        BY <2>1, LengthsOK DEF Inv, OutOK, TablesOK, Prefix, AllUsbTables
      <3>2. UsbTableOf(u).connected = (Len(c) > Len(d))
        BY DEF UsbTableOf
      <3> QED
        BY <3>1, <3>2
    <2>3. ASSUME NEW i \in 1..Len(c)
          PROVE  RowOf(u, i).disconnection = NoColumns <=> i > Len(d)
      <3>1. CASE i <= Len(d)
        <4>1. d[i] \in Readings \cup {NoDate}
          BY <2>1, <3>1
        <4>2. RowOf(u, i).disconnection = Columns(d[i])
          BY <3>1 DEF RowOf
        <4> QED
          BY <2>1, <3>1, <4>1, <4>2, ColumnsFilled
      <3>2. CASE i > Len(d)
        BY <2>1, <3>2 DEF RowOf
      <3> QED
        BY <2>1, <3>1, <3>2
    <2>4. (\E i \in 1..Len(c) : RowOf(u, i).disconnection = NoColumns) <=> Len(c) > Len(d)
      BY <2>1, <2>3
    <2> HIDE DEF u, c, d
    <2> QED
      BY <2>1, <2>2, <2>4 DEF RowsOf, u, c, d
  <1> QED
    BY <1>1, Invariance, PTL

\* Once closed, the file holds a table of everything that has one.
THEOREM Completeness == Spec => []ReportIsComplete
  <1>1. Inv => ReportIsComplete
    <2> SUFFICES ASSUME Inv, loop = "closed"
                 PROVE  /\ Len(out.usbTables) = Len(usbs_map)
                        /\ Len(out.timeTables) = Len(usbs_map)
                        /\ DOMAIN out.diskTables = DOMAIN TerminalDisks
                        /\ out.disksNotFound <=> DOMAIN TerminalDisks = {}
      BY DEF ReportIsComplete
    <2>1. UsbsDone = Len(usbs_map) /\ UsbsBegun = Len(usbs_map) /\ DisksDone = Len(disks_map)
      BY DEF UsbsDone, UsbsBegun, DisksDone
    <2>2. DOMAIN TerminalDisks = Told(DisksDone)
      BY <2>1, LengthsOK DEF TerminalDisks, Told, Inv
    <2>3. Len(out.usbTables) = Len(usbs_map) /\ Len(out.timeTables) = Len(usbs_map)
      BY <2>1, LengthsOK DEF Inv, OutOK, TablesOK, Prefix
    <2>4. DOMAIN out.diskTables = Told(DisksDone)
      BY DEF Inv, OutOK, TablesOK
    <2>5. out.disksNotFound <=> Told(DisksDone) = {}
      BY DEF Inv, OutOK, FlagsOK
    <2> QED
      BY <2>2, <2>3, <2>4, <2>5
  <1> QED
    BY <1>1, Invariance, PTL

-----------------------------------------------------------------------------
\* Every column that is not empty was computed from its reading.
LEMMA ColumnsOfReadings ==
  ASSUME Inv, NEW c \in ColumnsWritten
  PROVE  \E reading \in Readings \cup {NoDate} : c = Columns(reading)
  <1>1. PICK n \in DOMAIN out.timeTables :
          \E i \in DOMAIN out.timeTables[n] :
            c \in ColumnsOf(out.timeTables[n][i])
    BY DEF ColumnsWritten
  <1> DEFINE u == usbs_map[n]
  <1>2. /\ out.timeTables[n] = RowsOf(u)
        /\ u.connectionTimes \in Seq(Readings \cup {NoDate})
        /\ u.disconnectionTimes \in Seq(Readings \cup {NoDate})
        /\ Len(u.disconnectionTimes) \in Nat /\ Len(u.connectionTimes) \in Nat
    BY TimeTable, UsbOK DEF Inv
  <1>3. PICK i \in 1..Len(u.connectionTimes) :
          c \in {RowOf(u, i).connection, RowOf(u, i).disconnection}
    BY <1>1, <1>2 DEF RowsOf, ColumnsOf
  <1>4. CASE c = RowOf(u, i).connection
    <2>1. u.connectionTimes[i] \in Readings \cup {NoDate}
      BY <1>2
    <2>2. c = Columns(u.connectionTimes[i])
      BY <1>4 DEF RowOf
    <2> QED
      BY <2>1, <2>2
  <1>5. CASE c = RowOf(u, i).disconnection
    <2>1. c # NoColumns
      BY DEF ColumnsWritten
    <2>2. i <= Len(u.disconnectionTimes) /\ c = Columns(u.disconnectionTimes[i])
      BY <1>5, <2>1 DEF RowOf
    <2>3. u.disconnectionTimes[i] \in Readings \cup {NoDate}
      BY <1>2, <1>3, <2>2
    <2> QED
      BY <2>2, <2>3
  <1> QED
    BY <1>3, <1>4, <1>5

\* In every zone, a time whose surroundings have the clock of the present is
\* shown in UTC and EST as it was.
THEOREM Conversions == Spec => []TimesAreConverted
  <1>1. Inv => TimesAreConverted
    <2> SUFFICES ASSUME Inv, NEW c \in ColumnsWritten, c.local # NoDate,
                        InstantsOf(c.local) # {}, ZoneKeeps(c.local)
                 PROVE  IsTrue(c)
      BY DEF TimesAreConverted
    <2>1. PICK reading \in Readings \cup {NoDate} : c = Columns(reading)
      BY ColumnsOfReadings
    <2>2. c.local = reading
      BY <2>1 DEF Columns
    <2>3. PICK t \in Readings : LocalTime(t) = reading
      BY <2>2 DEF InstantsOf
    <2>4. \A hours \in -24..24 : IsSummer(t + hours) = IsSummer(now)
      BY <2>2, <2>3 DEF ZoneKeeps, InstantsOf
    <2>5. now \in Int
      BY MapsAssumption DEF MapsAssumption, Inv, GivenOK
    <2>6. /\ UtcTimeFromLocalTime(reading, now) = t
          /\ EstTimeFromUtcTime(t, now) = (t + UtcToEst) % Year
      BY <2>3, <2>4, <2>5, ConversionsAreExact
    <2>7. c.utc = t /\ c.est = (t + UtcToEst) % Year
      BY <2>1, <2>6 DEF Columns
    <2> QED
      BY <2>2, <2>3, <2>7 DEF IsTrue, InstantsOf
  <1> QED
    BY <1>1, Invariance, PTL

=============================================================================
