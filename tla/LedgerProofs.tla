------------------------------ MODULE LedgerProofs ------------------------------
(***************************************************************************)
(* The parser implements SessionLedger: on an orderly bus whose storage    *)
(* devices have serial numbers of their own, with a date in every line.    *)
(***************************************************************************)
EXTENDS ConnectedProofs

\* A session of s that begins at this time begins after all that have ended.
BeginsLater(s, time) ==
  time >= 1 /\ \A i \in DOMAIN DisconnectionsOf(s) : DisconnectionsOf(s)[i] < time

\* The entries that are open and have this serial number, marked or not.
OpenFor(s) ==
  {id \in DOMAIN interfaces : ~interfaces[id].isEmpty /\ interfaces[id].serialNumber = s}

-----------------------------------------------------------------------------
(***************************************************************************)
(* The inductive invariant, in parts.                                      *)
(***************************************************************************)
OnePlace ==
  \A p, q \in PortPaths :
    (bus[p].device \in Devices /\ bus[p].device = bus[q].device) => p = q

\* What is plugged in was plugged in after all that its serial number has in
\* the result.
SinceLater ==
  \A p \in PortPaths : (phase = "reading" /\ bus[p].device \in StorageDevices) =>
    bus[p].since <= pos /\ BeginsLater(bus[p].device.serial, bus[p].since)

\* A storage device's serial number has one open entry at most; while it has
\* one, its list has no connection without a disconnection.
OpenOnce ==
  \A s \in StorageSerials :
    /\ \A i, j \in OpenFor(s) : i = j
    /\ \A id \in OpenFor(s) : ~More(s) /\ BeginsLater(s, interfaces[id].connectionTime)

LedgerInv ==
  /\ OnePlace
  /\ SinceLater
  /\ phase # "reading" => OpenOnce

LEMMA LedgerInvInit == BusInit => LedgerInv
  <1> SUFFICES ASSUME BusInit PROVE LedgerInv
    OBVIOUS
  <1>1. \A p \in PortPaths : bus[p].device = NoDevice
    BY DEF BusInit, FreePort
  <1>2. NoDevice \notin Devices
    BY DeviceAssumption DEF DeviceAssumption
  <1>3. \A s : OpenFor(s) = {}
    BY DEF BusInit, Init, OpenFor
  <1> QED
    BY <1>1, <1>2, <1>3 DEF LedgerInv, OnePlace, SinceLater, OpenOnce, StorageDevices

LEMMA StorageSerialsTyped ==
  ASSUME OwnSerials
  PROVE  StorageSerials \subseteq SerialNumbers
  BY DeviceAssumption
     DEF DeviceAssumption, StorageSerials, StorageDevices, OwnSerials, Serials

\* The port of an open entry: while lines are read, there is one for each
\* storage device's serial number, and its device is the one with that number.
LEMMA OpenPort ==
  ASSUME OrderlyBus, OwnSerials, OrderlyInv, ToldInv, OnePlace, phase = "reading",
         NEW s \in StorageSerials, NEW id \in OpenFor(s),
         NEW q \in PortPaths, bus[q].device \in StorageDevices, bus[q].device.serial = s
  PROVE  id = InterfaceId(q) /\ EntryMatches(q) /\ EntryOf(q) = interfaces[id]
  <1>1. id \in DOMAIN interfaces /\ ~interfaces[id].isEmpty /\ interfaces[id].serialNumber = s
    BY DEF OpenFor
  <1>2. PICK p \in PortPaths : InterfaceId(p) = id /\ IsKnown(p)
    BY <1>1 DEF ToldInv, EntriesOfPorts
  <1>3. EntryOf(p) = interfaces[id]
    BY <1>2 DEF EntryOf
  <1>4. p \in OnBus(s) /\ EntryMatches(p)
    BY <1>1, <1>2, <1>3, OpenAtEnd
  <1>5. bus[p].device = bus[q].device
    BY <1>4 DEF OnBus, OwnSerials, StorageDevices
  <1>6. p = q
    BY <1>4, <1>5 DEF OnBus, OnePlace, StorageDevices
  <1> QED
    BY <1>2, <1>3, <1>4, <1>6

\* While lines are read the open entries follow from the ports.
LEMMA OpenOnceReading ==
  ASSUME OrderlyBus, OwnSerials, DatesRead, OrderlyInv, ToldInv, OnePlace, SinceLater,
         phase = "reading"
  PROVE  OpenOnce
  <1> SUFFICES ASSUME NEW s \in StorageSerials
               PROVE  /\ \A i, j \in OpenFor(s) : i = j
                      /\ \A id \in OpenFor(s) :
                           ~More(s) /\ BeginsLater(s, interfaces[id].connectionTime)
    BY DEF OpenOnce
  <1>1. ~More(s)
    <2>1. s \in Serials
      BY DeviceAssumption DEF DeviceAssumption, StorageSerials, StorageDevices
    <2> QED
      BY <2>1, ListsTyped, BusTypes DEF OrderlyInv, BusInv, IInv, ListsPaired, More
  <1>2. ASSUME NEW id \in OpenFor(s)
        PROVE  \E q \in PortPaths : bus[q].device \in StorageDevices /\ bus[q].device.serial = s
    <2>1. id \in DOMAIN interfaces /\ ~interfaces[id].isEmpty /\ interfaces[id].serialNumber = s
      BY DEF OpenFor
    <2>2. PICK p \in PortPaths : InterfaceId(p) = id /\ IsKnown(p)
      BY <2>1 DEF ToldInv, EntriesOfPorts
    <2>3. EntryOf(p) = interfaces[id]
      BY <2>2 DEF EntryOf
    <2>4. p \in OnBus(s)
      BY <2>1, <2>2, <2>3, OpenAtEnd
    <2> QED
      BY <2>4 DEF OnBus
  <1>3. ASSUME NEW id \in OpenFor(s) PROVE BeginsLater(s, interfaces[id].connectionTime)
    <2>1. PICK q \in PortPaths : bus[q].device \in StorageDevices /\ bus[q].device.serial = s
      BY <1>2
    <2>2. EntryMatches(q) /\ EntryOf(q) = interfaces[id]
      BY <2>1, OpenPort
    <2>3. interfaces[id].connectionTime = DateOf(bus[q].since)
      BY <2>2 DEF EntryMatches
    <2>4. bus[q].since \in Times /\ bus[q].since >= 1 /\ BeginsLater(s, bus[q].since)
      <3>1. bus[q] \in PortState
        BY BusTypes DEF OrderlyInv
      <3> QED
        BY <2>1, <3>1 DEF SinceLater, BeginsLater, PortState
    <2>5. DateOf(bus[q].since) = bus[q].since
      <3>1. bus[q].since \in 1..LogLength
        BY <2>4, LogAssumption DEF LogAssumption, Times
      <3> QED
        BY <3>1 DEF DatesRead, DateOf
    <2> QED
      BY <2>3, <2>4, <2>5
  <1>4. ASSUME NEW i \in OpenFor(s), NEW j \in OpenFor(s) PROVE i = j
    <2>1. PICK q \in PortPaths : bus[q].device \in StorageDevices /\ bus[q].device.serial = s
      BY <1>2
    <2> QED
      BY <2>1, OpenPort
  <1> QED
    BY <1>1, <1>3, <1>4

-----------------------------------------------------------------------------
(***************************************************************************)
(* The lines.                                                              *)
(***************************************************************************)

\* A line about one port leaves what is said of the others, when the lists of
\* their devices are as before.
LEMMA PlacesStep ==
  ASSUME OrderlyBus, OrderlyInv, OnePlace, SinceLater, ReadLine,
         NEW path \in PortPaths, NEW state, SetPort(path, state),
         \A p \in PortPaths \ {path} : state.device \in Devices => bus[p].device # state.device,
         \A p \in PortPaths \ {path} : \A r :
           (bus[p].device \in StorageDevices /\ r = bus[p].device.serial)
             => DisconnectionsOf(r)' = DisconnectionsOf(r),
         \A r : (state.device \in StorageDevices /\ r = state.device.serial)
                  => state.since <= pos + 1 /\ BeginsLater(r, state.since)',
         state \in PortState
  PROVE  OnePlace' /\ SinceLater'
  <1>1. /\ bus'[path] = state
        /\ \A p \in PortPaths \ {path} : bus'[p] = bus[p]
        /\ \A p \in PortPaths : bus[p] \in PortState
    BY BusTypes DEF OrderlyBus, SetPort, OrderlyInv
  <1>2. phase = "reading" /\ phase' = "reading" /\ pos' = pos + 1 /\ pos \in Int
    BY BusTypes, ReadLineTyped, TimesAreInts DEF OrderlyInv, TypeOK
  <1>3. OnePlace'
    <2>1. ASSUME NEW p \in PortPaths, NEW q \in PortPaths,
                 bus'[p].device \in Devices, bus'[p].device = bus'[q].device
          PROVE  p = q
      <3>1. CASE p # path /\ q # path
        BY <1>1, <2>1, <3>1 DEF OnePlace
      <3>2. CASE p = path /\ q # path
        BY <1>1, <2>1, <3>2
      <3>3. CASE p # path /\ q = path
        BY <1>1, <2>1, <3>3
      <3> QED
        BY <3>1, <3>2, <3>3
    <2> QED
      BY <2>1 DEF OnePlace
  <1>4. SinceLater'
    <2>1. ASSUME NEW p \in PortPaths, bus'[p].device \in StorageDevices,
                 NEW r, r = bus'[p].device.serial
          PROVE  (bus[p].since <= pos /\ BeginsLater(r, bus[p].since))'
      <3>1. CASE p = path
        BY <1>1, <1>2, <2>1, <3>1 DEF BeginsLater
      <3>2. CASE p # path
        <4>1. bus'[p] = bus[p] /\ DisconnectionsOf(r)' = DisconnectionsOf(r)
          BY <1>1, <2>1, <3>2
        <4>2. bus[p].since <= pos /\ BeginsLater(r, bus[p].since)
          BY <1>2, <2>1, <4>1 DEF SinceLater
        <4>3. bus[p].since \in Int
          BY <1>1, TimesAreInts DEF PortState
        <4> QED
          BY <1>2, <4>1, <4>2, <4>3 DEF BeginsLater
      <3> QED
        BY <3>1, <3>2
    <2> QED
      BY <2>1 DEF SinceLater, BeginsLater, StorageDevices
  <1> QED
    BY <1>3, <1>4

-----------------------------------------------------------------------------
(***************************************************************************)
(* What the ledger reads in the two maps.                                  *)
(***************************************************************************)
Intervals(c, d) == [i \in DOMAIN d |-> [from |-> c[i], to |-> d[i]]]

LEMMA LedgerLists ==
  ASSUME NEW s
  PROVE  /\ LedgerOf(s) = Intervals(ConnectionsOf(s), DisconnectionsOf(s))
         /\ LedgerOf(s)' = Intervals(ConnectionsOf(s)', DisconnectionsOf(s)')
  <1>1. Intervals(<<>>, <<>>) = <<>>
    BY DEF Intervals
  <1>2. LedgerOf(s) = Intervals(ConnectionsOf(s), DisconnectionsOf(s))
    <2>1. CASE s \in DOMAIN usbs
      BY <2>1 DEF LedgerOf, Intervals, ConnectionsOf, DisconnectionsOf
    <2>2. CASE s \notin DOMAIN usbs
      BY <1>1, <2>2 DEF LedgerOf, ConnectionsOf, DisconnectionsOf
    <2> QED
      BY <2>1, <2>2
  <1>3. LedgerOf(s)' = Intervals(ConnectionsOf(s)', DisconnectionsOf(s)')
    <2>1. CASE s \in DOMAIN usbs'
      BY <2>1 DEF LedgerOf, Intervals, ConnectionsOf, DisconnectionsOf
    <2>2. CASE s \notin DOMAIN usbs'
      BY <1>1, <2>2 DEF LedgerOf, ConnectionsOf, DisconnectionsOf
    <2> QED
      BY <2>1, <2>2
  <1> QED
    BY <1>2, <1>3

LEMMA OpenSinceNow ==
  ASSUME NEW s
  PROVE  /\ More(s) => OpenSince(s) = ConnectionsOf(s)[Len(ConnectionsOf(s))]
         /\ (~More(s) /\ OpenEntries(s) = {}) => OpenSince(s) = NoTime
         /\ \A id : (~More(s) /\ OpenEntries(s) = {id})
                      => OpenSince(s) = interfaces[id].connectionTime
  <1>1. ShownConnected(s) <=> More(s)
    BY DEF More, ShownConnected, ConnectionsOf, DisconnectionsOf
  <1>2. More(s) => s \in DOMAIN usbs
    BY DEF More, ConnectionsOf, DisconnectionsOf
  <1> QED
    BY <1>1, <1>2 DEF OpenSince, ConnectionsOf

LEMMA OpenSinceNext ==
  ASSUME NEW s
  PROVE  /\ More(s)' => OpenSince(s)' = ConnectionsOf(s)'[Len(ConnectionsOf(s)')]
         /\ (~More(s)' /\ OpenEntries(s)' = {}) => OpenSince(s)' = NoTime
         /\ \A id : (~More(s)' /\ OpenEntries(s)' = {id})
                      => OpenSince(s)' = interfaces'[id].connectionTime
  <1>1. ShownConnected(s)' <=> More(s)'
    BY DEF More, ShownConnected, ConnectionsOf, DisconnectionsOf
  <1>2. More(s)' => s \in DOMAIN usbs'
    BY DEF More, ConnectionsOf, DisconnectionsOf
  <1> QED
    BY <1>1, <1>2 DEF OpenSince, ConnectionsOf

\* No serial number but a storage device's has an open entry that is marked.
LEMMA OpenIsStorage ==
  ASSUME OrderlyBus, OwnSerials, OrderlyInv, ToldInv, NEW s, NEW id \in OpenEntries(s)
  PROVE  s \in StorageSerials /\ id \in OpenFor(s)
  <1>1. /\ id \in DOMAIN interfaces /\ ~interfaces[id].isEmpty
        /\ interfaces[id].isStorageDevice /\ interfaces[id].serialNumber = s
    BY DEF OpenEntries
  <1>2. CASE phase = "reading"
    <2>1. PICK p \in PortPaths : InterfaceId(p) = id /\ IsKnown(p)
      BY <1>1 DEF ToldInv, EntriesOfPorts
    <2> QED
      BY <1>1, <1>2, <2>1, OpenAtEnd DEF EntryOf, OpenFor
  <1>3. CASE phase # "reading"
    BY <1>1, <1>3 DEF ToldInv, OpenIsPlugged, OpenFor
  <1> QED
    BY <1>2, <1>3

\* Where a serial number's marked entries and lists stay, so does its ledger.
LEMMA SerialStays ==
  ASSUME OrderlyBus, OwnSerials, OrderlyInv, ToldInv, OpenOnce, NEW s,
         ConnectionsOf(s)' = ConnectionsOf(s), DisconnectionsOf(s)' = DisconnectionsOf(s),
         OpenEntries(s)' = OpenEntries(s),
         \A id \in OpenEntries(s) :
           interfaces'[id].connectionTime = interfaces[id].connectionTime
  PROVE  OpenSince(s)' = OpenSince(s) /\ LedgerOf(s)' = LedgerOf(s)
  <1>1. LedgerOf(s)' = LedgerOf(s)
    BY LedgerLists
  <1>2. More(s)' <=> More(s)
    BY DEF More
  <1>3. CASE More(s)
    BY <1>1, <1>2, <1>3, OpenSinceNow, OpenSinceNext
  <1>4. CASE ~More(s) /\ OpenEntries(s) = {}
    BY <1>1, <1>2, <1>4, OpenSinceNow, OpenSinceNext
  <1>5. ASSUME ~More(s), NEW id \in OpenEntries(s) PROVE OpenSince(s)' = OpenSince(s)
    <2>1. \A j \in OpenEntries(s) : j = id
      BY <1>5, OpenIsStorage DEF OpenOnce
    <2>2. OpenEntries(s) = {id}
      BY <1>5, <2>1
    <2> QED
      BY <1>2, <1>5, <2>2, OpenSinceNow, OpenSinceNext
  <1> QED
    BY <1>1, <1>3, <1>4, <1>5

LEMMA LedgerStutters ==
  ASSUME \A s \in SerialNumbers : OpenSince(s)' = OpenSince(s) /\ LedgerOf(s)' = LedgerOf(s)
  PROVE  UNCHANGED Ledger!ledgerVars
  BY DEF Ledger!ledgerVars

LEMMA LedgerConnects ==
  ASSUME NEW s \in SerialNumbers, NEW time \in 1..LogLength,
         OpenSince(s) = NoTime, OpenSince(s)' = time, BeginsLater(s, time),
         ConnectionsOf(s) \in Seq(Times), DisconnectionsOf(s) \in Seq(Times),
         LedgerOf(s)' = LedgerOf(s),
         \A r \in SerialNumbers \ {s} :
           OpenSince(r)' = OpenSince(r) /\ LedgerOf(r)' = LedgerOf(r)
  PROVE  Ledger!Next
  <1> DEFINE c == ConnectionsOf(s)
             d == DisconnectionsOf(s)
  <1>1. LedgerOf(s) = Intervals(c, d)
    BY LedgerLists
  <1>2. Len(d) \in Nat /\ DOMAIN d = 1..Len(d) /\ \A i \in DOMAIN d : d[i] < time
    BY DEF BeginsLater
  <1> HIDE DEF c, d
  <1>3. Intervals(c, d) # <<>> =>
          /\ Len(Intervals(c, d)) = Len(d) /\ Len(d) \in DOMAIN d
          /\ Intervals(c, d)[Len(d)].to = d[Len(d)]
    BY <1>2 DEF Intervals
  <1>4. time > Ledger!LastEnd(s)
    <2>1. CASE LedgerOf(s) = <<>>
      BY <2>1 DEF Ledger!LastEnd
    <2>2. CASE LedgerOf(s) # <<>>
      BY <1>1, <1>2, <1>3, <2>2 DEF Ledger!LastEnd
    <2> QED
      BY <2>1, <2>2
  <1>5. Ledger!Connect(s, time)
    BY <1>4 DEF Ledger!Connect, NoTime
  <1> QED
    BY <1>5 DEF Ledger!Next

LEMMA IntervalsAppend ==
  ASSUME NEW c \in Seq(Times), NEW d \in Seq(Times), Len(c) = Len(d),
         NEW x \in Times, NEW y \in Times
  PROVE  Intervals(Append(c, x), Append(d, y))
           = Append(Intervals(c, d), [from |-> x, to |-> y])
  <1> DEFINE T == [from : Times, to : Times]
             session == [from |-> x, to |-> y]
             old == Intervals(c, d)
             new == Intervals(Append(c, x), Append(d, y))
             sum == Append(old, session)
             n == Len(d)
  <1>1. /\ n \in Nat /\ DOMAIN c = 1..n /\ DOMAIN d = 1..n
        /\ DOMAIN Append(d, y) = 1..n + 1
        /\ \A i \in 1..n : c[i] \in Times /\ d[i] \in Times
        /\ \A i \in 1..n : Append(c, x)[i] = c[i] /\ Append(d, y)[i] = d[i]
        /\ Append(c, x)[n + 1] = x /\ Append(d, y)[n + 1] = y
    BY AppendFacts
  <1>2. old \in [1..n -> T]
    BY <1>1 DEF Intervals
  <1>3. DOMAIN new = 1..n + 1 /\ new = [i \in 1..n + 1 |-> new[i]]
    BY <1>1 DEF Intervals
  <1>4. \A i \in 1..n : new[i] = old[i]
    BY <1>1 DEF Intervals
  <1>5. new[n + 1] = session /\ session \in T
    BY <1>1 DEF Intervals
  <1> HIDE DEF T, session, old, new, n
  <1>6. old \in Seq(T) /\ Len(old) = n
    BY <1>1, <1>2
  <1>7. /\ sum \in Seq(T) /\ DOMAIN sum = 1..n + 1 /\ Len(sum) = n + 1
        /\ \A i \in 1..n : sum[i] = old[i]
        /\ sum[n + 1] = session
    BY <1>5, <1>6, AppendFacts
  <1>8. sum = [i \in 1..n + 1 |-> sum[i]]
    <2> HIDE DEF sum
    <2> QED
      BY <1>7
  <1>9. \A i \in 1..n + 1 : new[i] = sum[i]
    <2>1. \A i \in 1..n + 1 : i \in 1..n \/ i = n + 1
      BY <1>1
    <2> QED
      BY <1>4, <1>5, <1>7, <2>1
  <1> HIDE DEF sum
  <1>10. new = sum
    BY <1>3, <1>8, <1>9
  <1> QED
    BY <1>10 DEF session, old, new, sum

LEMMA LedgerDisconnects ==
  ASSUME NEW s \in SerialNumbers, NEW x \in Times, NEW time \in 1..LogLength,
         ConnectionsOf(s) \in Seq(Times), DisconnectionsOf(s) \in Seq(Times),
         Len(ConnectionsOf(s)) = Len(DisconnectionsOf(s)),
         OpenSince(s) = x, x # NoTime, x < time, OpenSince(s)' = NoTime,
         ConnectionsOf(s)' = Append(ConnectionsOf(s), x),
         DisconnectionsOf(s)' = Append(DisconnectionsOf(s), time),
         \A r \in SerialNumbers \ {s} :
           OpenSince(r)' = OpenSince(r) /\ LedgerOf(r)' = LedgerOf(r)
  PROVE  Ledger!Next
  <1>1. time \in Times
    BY DEF Times
  <1>2. LedgerOf(s)' = Append(LedgerOf(s), [from |-> x, to |-> time])
    <2>1. /\ LedgerOf(s) = Intervals(ConnectionsOf(s), DisconnectionsOf(s))
          /\ LedgerOf(s)' = Intervals(ConnectionsOf(s)', DisconnectionsOf(s)')
      BY LedgerLists
    <2>2. LedgerOf(s)' = Intervals(Append(ConnectionsOf(s), x), Append(DisconnectionsOf(s), time))
      BY <2>1
    <2> QED
      BY <1>1, <2>1, <2>2, IntervalsAppend
  <1> DEFINE open == [r \in SerialNumbers |-> OpenSince(r)]
             ledger == [r \in SerialNumbers |-> LedgerOf(r)]
  <1>3. open[s] = x /\ x # 0
    BY DEF NoTime
  <1>4. ledger' = [ledger EXCEPT ![s] = Append(@, [from |-> x, to |-> time])]
    BY <1>2
  <1>5. open' = [open EXCEPT ![s] = 0]
    <2>1. \A r \in SerialNumbers : OpenSince(r)' = IF r = s THEN NoTime ELSE OpenSince(r)
      OBVIOUS
    <2>2. [open EXCEPT ![s] = NoTime]
            = [r \in SerialNumbers |-> IF r = s THEN NoTime ELSE OpenSince(r)]
      OBVIOUS
    <2>3. open' = [r \in SerialNumbers |-> IF r = s THEN NoTime ELSE OpenSince(r)]
      BY <2>1
    <2> QED
      BY <2>2, <2>3 DEF NoTime
  <1>6. Ledger!Disconnect(s, time)
    BY <1>3, <1>4, <1>5 DEF Ledger!Disconnect
  <1> QED
    BY <1>6 DEF Ledger!Next

-----------------------------------------------------------------------------
(***************************************************************************)
(* The lines, read in the ledger.                                          *)
(***************************************************************************)

\* An open entry that is marked is seen through the port it is of.
LEMMA SeenThroughPort ==
  ASSUME OrderlyBus, NEW path \in PortPaths, NEW s
  PROVE  /\ EntriesOfPorts => (InterfaceId(path) \in OpenEntries(s) <=>
                                 IsOpenStorage(path) /\ EntryOf(path).serialNumber = s)
         /\ EntriesOfPorts' => (InterfaceId(path) \in OpenEntries(s)' <=>
                                  IsOpenStorage(path)' /\ EntryOf(path)'.serialNumber = s)
  <1>1. ASSUME EntriesOfPorts, InterfaceId(path) \in DOMAIN interfaces PROVE IsKnown(path)
    BY <1>1 DEF EntriesOfPorts, OrderlyBus
  <1>2. ASSUME EntriesOfPorts', InterfaceId(path) \in DOMAIN interfaces' PROVE IsKnown(path)'
    BY <1>2 DEF EntriesOfPorts, OrderlyBus, IsKnown
  <1>3. IsKnown(path) => InterfaceId(path) \in DOMAIN interfaces
    BY DEF IsKnown
  <1>4. IsKnown(path)' => InterfaceId(path) \in DOMAIN interfaces'
    BY DEF IsKnown
  <1> QED
    BY <1>1, <1>2, <1>3, <1>4 DEF OpenEntries, IsOpenStorage, EntryOf

LEMMA EntriesElsewhere ==
  ASSUME NEW path, KeptElsewhere(path), NEW s
  PROVE  /\ OpenEntries(s)' \ {InterfaceId(path)} = OpenEntries(s) \ {InterfaceId(path)}
         /\ \A id \in OpenEntries(s) \ {InterfaceId(path)} : interfaces'[id] = interfaces[id]
  <1>1. ASSUME NEW id, id # InterfaceId(path)
        PROVE  /\ id \in OpenEntries(s)' <=> id \in OpenEntries(s)
               /\ id \in OpenEntries(s) => interfaces'[id] = interfaces[id]
    BY <1>1 DEF KeptElsewhere, OpenEntries
  <1> QED
    BY <1>1

\* A line that adds nothing to usb_map and finds and leaves its entry unmarked
\* is nothing to the ledger.
LEMMA UnmarkedLineStutters ==
  ASSUME OrderlyBus, OwnSerials, OrderlyInv, ToldInv, OpenOnce, EntriesOfPorts',
         NEW path \in PortPaths, KeptElsewhere(path), usbs' = usbs,
         ~IsOpenStorage(path), ~IsOpenStorage(path)'
  PROVE  UNCHANGED Ledger!ledgerVars
  <1>1. ASSUME NEW s \in SerialNumbers
        PROVE  OpenSince(s)' = OpenSince(s) /\ LedgerOf(s)' = LedgerOf(s)
    <2>1. InterfaceId(path) \notin OpenEntries(s) /\ InterfaceId(path) \notin OpenEntries(s)'
      BY SeenThroughPort DEF ToldInv
    <2>2. OpenEntries(s)' = OpenEntries(s)
          /\ \A id \in OpenEntries(s) : interfaces'[id] = interfaces[id]
      BY <2>1, EntriesElsewhere
    <2> QED
      BY <2>2, QuietLists, SerialStays
  <1> QED
    BY <1>1, LedgerStutters

\* The disconnections in the result are in the past.
LEMMA EndsPast ==
  ASSUME IInv, NEW r \in Serials
  PROVE  \A i \in DOMAIN DisconnectionsOf(r) :
           DisconnectionsOf(r)[i] \in Int /\ DisconnectionsOf(r)[i] <= pos
  <1>1. DisconnectionsOf(r) \in Seq(Times)
    BY ListsTyped DEF IInv
  <1>2. UpTo(DisconnectionsOf(r), pos)
    BY DEF IInv, TimesPast
  <1>3. \A i \in DOMAIN DisconnectionsOf(r) : DisconnectionsOf(r)[i] \in Times
    BY <1>1
  <1> QED
    BY <1>2, <1>3, TimesAreInts DEF UpTo

LEMMA PlugLedger ==
  ASSUME OrderlyBus, OwnSerials, OrderlyInv, ToldInv, ToldInv', LedgerInv, OpenOnce,
         NEW path \in PortPaths, NEW device \in Devices, Plug(path, device)
  PROVE  LedgerInv' /\ UNCHANGED Ledger!ledgerVars
  <1> DEFINE state == [device |-> device, announced |-> 1, since |-> pos + 1,
                       clean |-> MatchesNew(path) /\ IsBlank(path)]
  <1>1. BusInv /\ IInv /\ TypeOK
    BY BusTypes DEF OrderlyInv, BusInv
  <1>2. /\ Line("new", path, device) /\ SetPort(path, state) /\ bus[path] = FreePort
        /\ path \in device.ports /\ \A p \in PortPaths : bus[p].device # device
    BY DEF Plug, Write, OrderlyBus
  <1>3. /\ phase = "reading" /\ phase' = "reading" /\ pos + 1 \in Times /\ ReadLine
        /\ KeptElsewhere(path) /\ CheckIfNewDeviceConnected(path)
    BY <1>1, <1>2, LineReads, LineKeepsElsewhere, ReadLineTyped DEF Line
  <1>4. usbs' = usbs
    BY <1>3 DEF CheckIfNewDeviceConnected
  <1>5. state \in PortState /\ state.device = device /\ state.since = pos + 1
    <2>1. (MatchesNew(path) /\ IsBlank(path)) \in BOOLEAN
      BY DEF MatchesNew, IsBlank
    <2> QED
      BY <1>3, <2>1 DEF PortState
  <1> HIDE DEF state
  <1>6. PICK st : st = state
    OBVIOUS
  <1>7. pos \in Int /\ pos >= 0
    BY <1>1, TimesAreInts DEF TypeOK
  <1>8. ASSUME NEW r, st.device \in StorageDevices, r = st.device.serial
        PROVE  BeginsLater(r, st.since)'
    <2>1. r \in Serials
      BY <1>8, DeviceAssumption DEF DeviceAssumption, StorageDevices
    <2>2. \A i \in DOMAIN DisconnectionsOf(r) :
            DisconnectionsOf(r)[i] \in Int /\ DisconnectionsOf(r)[i] <= pos
      BY <1>1, <2>1, EndsPast
    <2>3. DisconnectionsOf(r)' = DisconnectionsOf(r)
      BY <1>4, QuietLists
    <2> QED
      BY <1>5, <1>6, <1>7, <2>2, <2>3 DEF BeginsLater
  <1>9. OnePlace' /\ SinceLater'
    <2>1. SetPort(path, st) /\ st \in PortState /\ st.device = device /\ st.since = pos + 1
      BY <1>2, <1>5, <1>6
    <2>2. \A r : DisconnectionsOf(r)' = DisconnectionsOf(r)
      BY <1>4, QuietLists
    <2> QED
      BY <1>2, <1>3, <1>7, <1>8, <2>1, <2>2, PlacesStep DEF LedgerInv
  <1>10. ~IsOpenStorage(path) /\ ~IsOpenStorage(path)'
    <2>1. ~IsOpenStorage(path)
      <3>1. CASE StoragePort(path)
        <4>1. EmptyInterface.isEmpty
          BY DEF EmptyInterface
        <4> QED
          BY <1>2, <1>3, <3>1, <4>1 DEF OrderlyInv, StoragePortsClean, IsBlank, IsOpenStorage
      <3>2. CASE ~StoragePort(path)
        BY <1>3, <3>2 DEF OrderlyInv, OtherPortsUnmarked, Unmarked, IsOpenStorage
      <3> QED
        BY <3>1, <3>2
    <2>2. bus'[path] = st
      BY <1>2, <1>6 DEF SetPort
    <2>3. st # FreePort /\ st.announced = 1
      BY <1>6 DEF state, FreePort
    <2>4. ~(IsKnown(path)' /\ EntryOf(path)'.isStorageDevice)
      BY <1>3, <2>2, <2>3 DEF ToldInv, MarkedLast
    <2> QED
      BY <2>1, <2>4 DEF IsOpenStorage
  <1>11. UNCHANGED Ledger!ledgerVars
    BY <1>3, <1>4, <1>10, UnmarkedLineStutters DEF ToldInv
  <1> QED
    BY <1>3, <1>9, <1>11 DEF LedgerInv

\* When what is plugged in was plugged in.
LEMMA SinceDated ==
  ASSUME DatesRead, OrderlyInv, SinceLater, phase = "reading",
         NEW p \in PortPaths, bus[p].device \in StorageDevices
  PROVE  /\ bus[p].since \in 1..LogLength /\ bus[p].since <= pos
         /\ DateOf(bus[p].since) = bus[p].since
         /\ BeginsLater(bus[p].device.serial, bus[p].since)
  <1>1. bus[p].since \in Times
    BY BusTypes DEF OrderlyInv, PortState
  <1>2. /\ bus[p].since <= pos /\ bus[p].since >= 1
        /\ BeginsLater(bus[p].device.serial, bus[p].since)
    BY DEF SinceLater, BeginsLater
  <1>3. bus[p].since \in 1..LogLength
    BY <1>1, <1>2, LogAssumption DEF LogAssumption, Times
  <1> QED
    BY <1>2, <1>3 DEF DatesRead, DateOf

\* While lines are read, the lists of a device are of one length.
LEMMA NoneMore ==
  ASSUME OrderlyInv, phase = "reading", NEW s \in Serials
  PROVE  /\ ~More(s)
         /\ ConnectionsOf(s) \in Seq(Times) /\ DisconnectionsOf(s) \in Seq(Times)
         /\ Len(ConnectionsOf(s)) = Len(DisconnectionsOf(s))
  <1>1. IInv /\ TypeOK
    BY BusTypes DEF OrderlyInv, BusInv
  <1>2. ConnectionsOf(s) \in Seq(Times) /\ DisconnectionsOf(s) \in Seq(Times)
    BY <1>1, ListsTyped
  <1> QED
    BY <1>1, <1>2 DEF IInv, ListsPaired, More

\* The line that completes an announcement opens a session in the ledger.
LEMMA CompletesLedger ==
  ASSUME OrderlyBus, OwnSerials, DatesRead, OrderlyInv, WholeInv, ToldInv, EntriesOfPorts',
         OnePlace,
         SinceLater, OpenOnce, phase = "reading",
         NEW path \in PortPaths, bus[path].device \in StorageDevices,
         bus[path].announced = 4, CheckIfStorageDevice(path)
  PROVE  Ledger!Next
  <1> DEFINE e == EntryOf(path)
  <1>1. PICK s : s = bus[path].device.serial
    OBVIOUS
  <1>2. PICK time : time = bus[path].since
    OBVIOUS
  <1>3. s \in StorageSerials /\ s \in SerialNumbers /\ s \in Serials
    <2>1. s \in StorageSerials
      BY <1>1 DEF StorageSerials
    <2> QED
      BY <2>1, StorageSerialsTyped DEF Serials
  <1>4. time \in 1..LogLength /\ DateOf(time) = time /\ BeginsLater(s, time)
    BY <1>1, <1>2, SinceDated
  <1>5. EntryMatches(path) /\ bus[path] # FreePort
    <2>1. bus[path].device \in Devices /\ bus[path] # FreePort /\ StoragePort(path)
      <3>1. bus[path].device \in Devices
        BY DEF StorageDevices
      <3> QED
        BY <3>1, DeviceThere DEF StoragePort
    <2> QED
      BY <2>1 DEF WholeInv, AllPortsClean, OrderlyInv, BusInv, CleanPortsMatch
  <1>6. IsKnown(path) /\ ~e.isEmpty /\ e.connectionTime = time /\ e.serialNumber = s
        /\ ~e.isStorageDevice
    BY <1>1, <1>2, <1>4, <1>5 DEF EntryMatches, ToldInv, MarkedLast
  <1>7. /\ IsKnown(path)' /\ ~EntryOf(path)'.isEmpty /\ EntryOf(path)'.isStorageDevice
        /\ EntryOf(path)'.connectionTime = time /\ EntryOf(path)'.serialNumber = s
    <2>1. e \in UsbInterface
      BY <1>6, EntryTyped, BusTypes DEF OrderlyInv
    <2>2. EntryOf(path)' = [e EXCEPT !.isStorageDevice = TRUE]
      BY <1>6, AmendsEntry DEF CheckIfStorageDevice
    <2>3. IsKnown(path)'
      BY <1>6 DEF CheckIfStorageDevice, Amend, IsKnown, Put
    <2> HIDE DEF e
    <2> QED
      BY <1>6, <2>1, <2>2, <2>3 DEF UsbInterface
  <1>8. KeptElsewhere(path) /\ usbs' = usbs
    <2>1. Line("storage", path, bus[path].device)
      BY DEF Line
    <2> QED
      BY <2>1, LineKeepsElsewhere DEF CheckIfStorageDevice, Amend
  <1>9. OpenEntries(s) = {}
    <2> SUFFICES ASSUME NEW id \in OpenEntries(s) PROVE FALSE
      OBVIOUS
    <2>1. id \in OpenFor(s) /\ interfaces[id].isStorageDevice
      BY OpenIsStorage DEF OpenEntries
    <2>2. EntryOf(path) = interfaces[id]
      BY <1>1, <1>3, <2>1, OpenPort
    <2> QED
      BY <1>6, <2>1, <2>2
  <1>10. OpenEntries(s)' = {InterfaceId(path)}
    <2>1. InterfaceId(path) \in OpenEntries(s)'
      BY <1>7, SeenThroughPort DEF IsOpenStorage
    <2> QED
      BY <1>8, <1>9, <2>1, EntriesElsewhere
  <1>11. /\ ~More(s) /\ ~More(s)'
         /\ ConnectionsOf(s) \in Seq(Times) /\ DisconnectionsOf(s) \in Seq(Times)
    <2>1. ~More(s) /\ ConnectionsOf(s) \in Seq(Times) /\ DisconnectionsOf(s) \in Seq(Times)
      BY <1>3, NoneMore
    <2> QED
      BY <1>8, <2>1, QuietLists DEF More
  <1>12. OpenSince(s) = NoTime /\ OpenSince(s)' = time /\ LedgerOf(s)' = LedgerOf(s)
    <2>1. OpenSince(s) = NoTime
      BY <1>9, <1>11, OpenSinceNow
    <2>2. OpenSince(s)' = time
      BY <1>7, <1>10, <1>11, OpenSinceNext DEF EntryOf
    <2> QED
      BY <1>8, <2>1, <2>2, QuietLists, LedgerLists
  <1>13. ASSUME NEW r \in SerialNumbers \ {s}
         PROVE  OpenSince(r)' = OpenSince(r) /\ LedgerOf(r)' = LedgerOf(r)
    <2>1. InterfaceId(path) \notin OpenEntries(r) /\ InterfaceId(path) \notin OpenEntries(r)'
      BY <1>6, <1>7, SeenThroughPort DEF ToldInv
    <2>2. OpenEntries(r)' = OpenEntries(r)
          /\ \A id \in OpenEntries(r) : interfaces'[id] = interfaces[id]
      BY <1>8, <2>1, EntriesElsewhere
    <2> QED
      BY <1>8, <2>2, QuietLists, SerialStays
  <1> QED
    BY <1>3, <1>4, <1>11, <1>12, <1>13, LedgerConnects

LEMMA AnnounceLedger ==
  ASSUME OrderlyBus, OwnSerials, DatesRead, OrderlyInv, WholeInv, ToldInv, ToldInv',
         LedgerInv, OpenOnce, NEW path \in PortPaths, Announce(path)
  PROVE  LedgerInv' /\ (Ledger!Next \/ UNCHANGED Ledger!ledgerVars)
  <1> DEFINE b == bus[path]
  <1>1. BusInv /\ TypeOK /\ IInv /\ b \in PortState /\ b.device \in Devices /\ b # FreePort
        /\ path \in b.device.ports
    BY BusTypes DEF OrderlyInv, BusInv, Occupied, InPlace, Announce
  <1>2. PICK k \in Remaining(path) :
          /\ \A j \in Remaining(path) : k <= j
          /\ Line(Kinds[k], path, b.device) /\ SetPort(path, [b EXCEPT !.announced = k])
    BY DEF Announce, Write, OrderlyBus
  <1>3. PICK st : st = [b EXCEPT !.announced = k]
    OBVIOUS
  <1>4. k \in b.announced + 1..5 /\ Tells(b.device, k) /\ b.announced \in 1..5
    BY <1>1, <1>2 DEF Remaining, PortState, OrderlyInv, Begun
  <1>5. k \in 2..5 /\ b.announced < k
    BY <1>4
  <1>6. st \in PortState /\ st.device = b.device /\ st.since = b.since /\ st.announced = k
        /\ SetPort(path, st)
    BY <1>1, <1>2, <1>3, <1>5 DEF PortState
  <1>7. phase = "reading" /\ phase' = "reading" /\ KeptElsewhere(path) /\ ReadLine
    BY <1>1, <1>2, LineReads, LineKeepsElsewhere, ReadLineTyped
  <1>8. usbs' = usbs
    <2>1. Kinds[k] # "disconnect" /\ Kinds[k] # "new"
      BY <1>5 DEF Kinds
    <2> QED
      BY <1>2, <2>1
         DEF Line, IdsFound, ProductNameFound, SerialNumberFound, CheckIfStorageDevice, Amend
  <1>9. OnePlace /\ SinceLater /\ \A r : DisconnectionsOf(r)' = DisconnectionsOf(r)
    BY <1>8, QuietLists DEF LedgerInv
  <1>10. OnePlace' /\ SinceLater'
    <2>1. ASSUME NEW p \in PortPaths \ {path}, st.device \in Devices
          PROVE  bus[p].device # st.device
      BY <1>6, <1>9, <2>1 DEF OnePlace
    <2>2. ASSUME NEW r, st.device \in StorageDevices, r = st.device.serial
          PROVE  st.since <= pos + 1 /\ BeginsLater(r, st.since)'
      <3>1. b.since <= pos /\ BeginsLater(r, b.since)
        BY <1>6, <1>7, <1>9, <2>2 DEF SinceLater
      <3>2. st.since \in Int /\ pos \in Int
        BY <1>1, <1>6, TimesAreInts DEF PortState, TypeOK
      <3> QED
        BY <1>6, <1>9, <3>1, <3>2 DEF BeginsLater
    <2> QED
      BY <1>6, <1>7, <1>9, <2>1, <2>2, PlacesStep
  <1>11. LedgerInv'
    BY <1>7, <1>10 DEF LedgerInv
  <1>12. ~IsOpenStorage(path)
    <2> SUFFICES ASSUME IsOpenStorage(path) PROVE FALSE
      OBVIOUS
    <2>1. b.announced >= 5
      BY <1>1, <1>7 DEF IsOpenStorage, ToldInv, MarkedLast
    <2> QED
      BY <1>4, <2>1
  <1>13. CASE k < 5
    <2>1. bus'[path] = st
      BY <1>6 DEF SetPort
    <2>2. st # FreePort /\ ~(st.announced >= 5)
      BY <1>1, <1>3, <1>5, <1>6, <1>13, DeviceAssumption DEF DeviceAssumption, FreePort
    <2>3. ~IsOpenStorage(path)'
      BY <1>7, <2>1, <2>2 DEF ToldInv, MarkedLast, IsOpenStorage
    <2> QED
      BY <1>7, <1>8, <1>11, <1>12, <2>3, UnmarkedLineStutters DEF ToldInv
  <1>14. CASE k = 5
    <2>1. b.device \in StorageDevices
      BY <1>1, <1>4, <1>14 DEF Tells, Kinds, StorageDevices
    <2>2. b.announced = 4
      <3>1. Tells(b.device, 4)
        BY <2>1 DEF Tells, Kinds, OwnSerials
      <3>2. 4 \notin Remaining(path)
        BY <1>2, <1>14
      <3> QED
        BY <1>4, <1>5, <1>14, <3>1, <3>2 DEF Remaining
    <2>3. CheckIfStorageDevice(path)
      BY <1>2, <1>14 DEF Kinds, Line
    <2>4. Ledger!Next
      BY <1>7, <1>9, <2>1, <2>2, <2>3, CompletesLedger DEF ToldInv
    <2> QED
      BY <1>11, <2>4
  <1> QED
    BY <1>5, <1>13, <1>14

\* The disconnect line of a storage device closes its session in the ledger.
LEMMA ClosesLedger ==
  ASSUME OrderlyBus, OwnSerials, DatesRead, OrderlyInv, WholeInv, ToldInv, EntriesOfPorts',
         OnePlace,
         SinceLater, OpenOnce, phase = "reading",
         NEW path \in PortPaths, bus[path].device \in StorageDevices, bus[path].clean,
         Announced(path), CheckIfDeviceDisconnected(path),
         NEW s, s = bus[path].device.serial
  PROVE  /\ Ledger!Next
         /\ \A r : r # s => DisconnectionsOf(r)' = DisconnectionsOf(r)
  <1>1. PICK time : time = bus[path].since
    OBVIOUS
  <1>2. s \in StorageSerials /\ s \in SerialNumbers /\ s \in Serials
    <2>1. s \in StorageSerials
      BY DEF StorageSerials
    <2> QED
      BY <2>1, StorageSerialsTyped DEF Serials
  <1>3. /\ time \in 1..LogLength /\ time <= pos /\ DateOf(time) = time
        /\ time \in Times /\ time # NoTime
    BY <1>1, SinceDated DEF Times, NoTime
  <1>4. pos + 1 \in 1..LogLength /\ DateOf(pos + 1) = pos + 1 /\ time < pos + 1
    <2>1. pos \in Int /\ pos >= 0 /\ pos < LogLength /\ LogLength \in Int
      BY BusTypes, TimesAreInts, LogAssumption
         DEF OrderlyInv, TypeOK, CheckIfDeviceDisconnected, ReadLine, LogAssumption
    <2>2. pos + 1 \in 1..LogLength
      BY <2>1
    <2>3. DateOf(pos + 1) = pos + 1
      BY <2>2 DEF DatesRead, DateOf
    <2>4. time < pos + 1
      BY <1>3, <2>1
    <2> QED
      BY <2>2, <2>3, <2>4
  <1>5. IsOpenStorage(path) /\ EntryOf(path).connectionTime = time
        /\ EntryOf(path).serialNumber = s
    <2>1. bus[path].device.storage /\ BusInv
      BY DEF StorageDevices, OrderlyInv
    <2> QED
      BY <1>1, <1>3, <2>1, AnnouncedEntry
  <1>6. /\ ConnectionsOf(s)' = Append(ConnectionsOf(s), time)
        /\ DisconnectionsOf(s)' = Append(DisconnectionsOf(s), pos + 1)
        /\ \A r : r # s => /\ ConnectionsOf(r)' = ConnectionsOf(r)
                           /\ DisconnectionsOf(r)' = DisconnectionsOf(r)
        /\ EntryOf(path)' = EmptyInterface
    BY <1>4, <1>5, DisconnectLists DEF OrderlyInv
  <1>7. KeptElsewhere(path)
    <2>1. Line("disconnect", path, bus[path].device)
      BY DEF Line
    <2> QED
      BY <2>1, LineKeepsElsewhere
  <1>8. OpenEntries(s) = {InterfaceId(path)}
    <2>1. InterfaceId(path) \in OpenEntries(s)
      BY <1>5, SeenThroughPort DEF ToldInv
    <2>2. \A id \in OpenEntries(s) : id = InterfaceId(path)
      BY <1>2, OpenIsStorage, OpenPort
    <2> QED
      BY <2>1, <2>2
  <1>9. ~IsOpenStorage(path)'
    BY <1>6 DEF IsOpenStorage, EmptyInterface
  <1>10. OpenEntries(s)' = {}
    <2>1. InterfaceId(path) \notin OpenEntries(s)'
      BY <1>9, SeenThroughPort
    <2> QED
      BY <1>7, <1>8, <2>1, EntriesElsewhere
  <1>11. /\ ~More(s) /\ Len(ConnectionsOf(s)) = Len(DisconnectionsOf(s))
         /\ ConnectionsOf(s) \in Seq(Times) /\ DisconnectionsOf(s) \in Seq(Times)
    BY <1>2, NoneMore
  <1>12. ~More(s)'
    <2>1. pos + 1 \in Times
      BY <1>4 DEF Times
    <2>2. Len(Append(ConnectionsOf(s), time)) = Len(Append(DisconnectionsOf(s), pos + 1))
          /\ Len(Append(ConnectionsOf(s), time)) \in Nat
      BY <1>3, <1>11, <2>1, AppendFacts
    <2>3. Len(ConnectionsOf(s)') = Len(DisconnectionsOf(s)') /\ Len(ConnectionsOf(s)') \in Nat
      BY <1>6, <2>2
    <2> QED
      BY <2>3 DEF More
  <1>13. OpenSince(s) = time
    BY <1>5, <1>8, <1>11, OpenSinceNow DEF EntryOf
  <1>14. OpenSince(s)' = NoTime
    BY <1>10, <1>12, OpenSinceNext
  <1>15. ASSUME NEW r \in SerialNumbers \ {s}
         PROVE  OpenSince(r)' = OpenSince(r) /\ LedgerOf(r)' = LedgerOf(r)
    <2>1. InterfaceId(path) \notin OpenEntries(r) /\ InterfaceId(path) \notin OpenEntries(r)'
      BY <1>5, <1>9, SeenThroughPort DEF ToldInv
    <2>2. OpenEntries(r)' = OpenEntries(r)
          /\ \A id \in OpenEntries(r) : interfaces'[id] = interfaces[id]
      BY <1>7, <2>1, EntriesElsewhere
    <2> QED
      BY <1>6, <2>2, SerialStays
  <1>16. Ledger!Next
    <2>1. PICK now : now = pos + 1
      OBVIOUS
    <2> QED
      BY <1>2, <1>3, <1>4, <1>6, <1>11, <1>13, <1>14, <1>15, <2>1, LedgerDisconnects
  <1> QED
    BY <1>6, <1>16

LEMMA UnplugLedger ==
  ASSUME OrderlyBus, OwnSerials, DatesRead, OrderlyInv, WholeInv, ToldInv, ToldInv',
         LedgerInv, OpenOnce, NEW path \in PortPaths, Unplug(path)
  PROVE  LedgerInv' /\ (Ledger!Next \/ UNCHANGED Ledger!ledgerVars)
  <1> DEFINE b == bus[path]
  <1>1. BusInv /\ b \in PortState /\ b.device \in Devices /\ b # FreePort
        /\ path \in b.device.ports
    BY BusTypes DEF OrderlyInv, BusInv, Occupied, InPlace, Unplug
  <1>2. Line("disconnect", path, b.device) /\ SetPort(path, FreePort)
    BY DEF Unplug, OrderlyBus
  <1>3. /\ phase = "reading" /\ phase' = "reading" /\ KeptElsewhere(path)
        /\ CheckIfDeviceDisconnected(path) /\ ReadLine
    BY <1>1, <1>2, LineReads, LineKeepsElsewhere, BusTypes, ReadLineTyped DEF Line
  <1>4. OnePlace /\ SinceLater /\ EntriesOfPorts'
    BY DEF LedgerInv, ToldInv
  <1>5. ASSUME \A p \in PortPaths \ {path} : \A r :
                 (bus[p].device \in StorageDevices /\ r = bus[p].device.serial)
                   => DisconnectionsOf(r)' = DisconnectionsOf(r)
        PROVE  LedgerInv'
    <2>1. FreePort \in PortState
      BY FreePortFacts
    <2>2. FreePort.device \notin Devices /\ FreePort.device \notin StorageDevices
      BY DeviceAssumption DEF DeviceAssumption, FreePort, StorageDevices
    <2>3. PICK st : st = FreePort
      OBVIOUS
    <2>4. OnePlace' /\ SinceLater'
      BY <1>2, <1>3, <1>4, <1>5, <2>1, <2>2, <2>3, PlacesStep
    <2> QED
      BY <1>3, <2>4 DEF LedgerInv
  <1>6. CASE StoragePort(path)
    <2>1. b.device \in StorageDevices
      BY <1>1, <1>6 DEF OrderlyBus, StoragePort
    <2>2. b.clean /\ Announced(path)
      <3>1. b.clean
        BY <1>1, <1>3, <1>6 DEF WholeInv, AllPortsClean
      <3>2. Announced(path)
        BY <1>1 DEF Unplug, OrderlyBus
      <3> QED
        BY <3>1, <3>2
    <2>3. PICK s : s = b.device.serial
      OBVIOUS
    <2>4. Ledger!Next /\ \A r : r # s => DisconnectionsOf(r)' = DisconnectionsOf(r)
      BY <1>3, <1>4, <2>1, <2>2, <2>3, ClosesLedger
    <2>5. ASSUME NEW p \in PortPaths \ {path}, bus[p].device \in StorageDevices
          PROVE  bus[p].device.serial # s
      <3>1. bus[p].device # b.device
        BY <1>1, <1>4, <2>5 DEF OnePlace
      <3> QED
        BY <2>1, <2>3, <2>5, <3>1 DEF OwnSerials, StorageDevices
    <2> QED
      BY <1>5, <2>4, <2>5
  <1>7. CASE ~StoragePort(path)
    <2>1. ~IsOpenStorage(path)
      BY <1>3, <1>7 DEF OrderlyInv, OtherPortsUnmarked, Unmarked, IsOpenStorage
    <2>2. interfaces' = interfaces /\ usbs' = usbs
      BY <1>3, <2>1 DEF CheckIfDeviceDisconnected
    <2>3. ~IsOpenStorage(path)'
      BY <2>1, <2>2 DEF IsOpenStorage, IsKnown, EntryOf
    <2>4. UNCHANGED Ledger!ledgerVars
      BY <1>3, <1>4, <2>1, <2>2, <2>3, UnmarkedLineStutters
    <2> QED
      BY <1>5, <2>2, <2>4, QuietLists
  <1> QED
    BY <1>6, <1>7

-----------------------------------------------------------------------------
(***************************************************************************)
(* The saving loop, read in the ledger.                                    *)
(***************************************************************************)
LEMMA IntervalsKept ==
  ASSUME NEW c \in Seq(Times), NEW d \in Seq(Times), Len(d) <= Len(c), NEW x \in Times
  PROVE  Intervals(Append(c, x), d) = Intervals(c, d)
  <1>1. /\ Len(c) \in Nat /\ Len(d) \in Nat /\ DOMAIN d = 1..Len(d)
        /\ \A i \in 1..Len(c) : Append(c, x)[i] = c[i]
    BY AppendFacts
  <1>2. \A i \in DOMAIN d : Append(c, x)[i] = c[i]
    BY <1>1
  <1> QED
    BY <1>2 DEF Intervals

\* What is no longer open is only the entry that was saved.
LEMMA SavedEntries ==
  ASSUME TypeOK, NEW id, Saved(id), NEW r
  PROVE  /\ OpenEntries(r)' = OpenEntries(r) \ {id}
         /\ OpenFor(r)' = OpenFor(r) \ {id}
         /\ \A j \in OpenFor(r)' : interfaces'[j] = interfaces[j]
         /\ \A j \in OpenEntries(r)' : interfaces'[j] = interfaces[j]
  <1>1. /\ DOMAIN interfaces' = DOMAIN interfaces
        /\ interfaces'[id].isEmpty
        /\ \A j \in DOMAIN interfaces \ {id} : interfaces'[j] = interfaces[j]
    BY EmptiedEntry DEF Saved, EmptyInterface
  <1> QED
    BY <1>1 DEF OpenEntries, OpenFor

LEMMA SavedLedger ==
  ASSUME OrderlyBus, OwnSerials, OrderlyInv, ToldInv, LedgerInv, NEW id, Saved(id),
         UNCHANGED <<bus, sessions>>
  PROVE  LedgerInv' /\ (Ledger!Next \/ UNCHANGED Ledger!ledgerVars)
  <1> DEFINE e == interfaces[id]
  <1>1. TypeOK /\ IInv /\ BusInv
    BY BusTypes DEF OrderlyInv, BusInv
  <1>2. PICK s : s = e.serialNumber
    OBVIOUS
  <1>3. PICK x : x = e.connectionTime
    OBVIOUS
  <1>4. /\ id \in DOMAIN interfaces /\ ~e.isEmpty
        /\ s \in Serials /\ x \in Times /\ id \in OpenFor(s)
    BY <1>1, <1>2, <1>3, EmptiedEntry DEF Saved, Emptied, OpenFor
  <1>5. phase = "saving" /\ phase' # "reading" /\ OnePlace /\ OpenOnce
    BY DEF Saved, LedgerInv
  <1>6. /\ \A r : DisconnectionsOf(r)' = DisconnectionsOf(r)
        /\ \A r : r # s => ConnectionsOf(r)' = ConnectionsOf(r)
    BY <1>1, <1>2, SavedLists
  <1>7. /\ IsSaved(e) => ConnectionsOf(s)' = Append(ConnectionsOf(s), x)
        /\ ~IsSaved(e) => usbs' = usbs
    BY <1>1, <1>2, <1>3, SavedAdds
  <1>8. \A r : /\ OpenEntries(r)' = OpenEntries(r) \ {id}
               /\ OpenFor(r)' = OpenFor(r) \ {id}
               /\ \A j \in OpenFor(r)' : interfaces'[j] = interfaces[j]
               /\ \A j \in OpenEntries(r)' : interfaces'[j] = interfaces[j]
    BY <1>1, SavedEntries
  <1>9. \A r : r # s => id \notin OpenEntries(r)
    BY <1>2 DEF OpenEntries
  <1>10. OpenOnce'
    <2>1. ASSUME NEW r \in StorageSerials, NEW j \in OpenFor(r)'
          PROVE  ~More(r)' /\ BeginsLater(r, interfaces[j].connectionTime)'
      <3>1. j \in OpenFor(r) /\ j # id /\ interfaces'[j] = interfaces[j]
        BY <1>8, <2>1
      <3>2. r # s
        BY <1>4, <1>5, <2>1, <3>1 DEF OpenOnce
      <3>3. ~More(r) /\ BeginsLater(r, interfaces[j].connectionTime)
        BY <1>5, <2>1, <3>1 DEF OpenOnce
      <3> QED
        BY <1>6, <3>1, <3>2, <3>3 DEF More, BeginsLater
    <2>2. \A r \in StorageSerials : \A i, j \in OpenFor(r)' : i = j
      BY <1>5, <1>8 DEF OpenOnce
    <2> QED
      BY <2>1, <2>2 DEF OpenOnce, StorageSerials, StorageDevices
  <1>11. LedgerInv'
    <2>1. OnePlace'
      BY <1>5 DEF OnePlace
    <2> QED
      BY <1>5, <1>10, <2>1 DEF LedgerInv, SinceLater
  <1>12. ASSUME NEW r, r # s PROVE OpenSince(r)' = OpenSince(r) /\ LedgerOf(r)' = LedgerOf(r)
    <2>1. OpenEntries(r)' = OpenEntries(r)
          /\ \A j \in OpenEntries(r) : interfaces'[j] = interfaces[j]
      BY <1>8, <1>9, <1>12
    <2> QED
      BY <1>5, <1>6, <1>12, <2>1, SerialStays
  <1>13. CASE ~IsSaved(e)
    <2>1. id \notin OpenEntries(s)
      BY <1>13 DEF IsSaved, OpenEntries
    <2>2. OpenEntries(s)' = OpenEntries(s)
          /\ \A j \in OpenEntries(s) : interfaces'[j] = interfaces[j]
      BY <1>8, <2>1
    <2>3. OpenSince(s)' = OpenSince(s) /\ LedgerOf(s)' = LedgerOf(s)
      BY <1>5, <1>7, <1>13, <2>2, QuietLists, SerialStays
    <2> QED
      BY <1>11, <1>12, <2>3, LedgerStutters
  <1>14. CASE IsSaved(e)
    <2>1. s \in StorageSerials /\ s \in SerialNumbers
      <3>1. s \in StorageSerials
        BY <1>2, <1>4, <1>5, <1>14 DEF IsSaved, ToldInv, UsbsAreStorage, OpenIsPlugged
      <3> QED
        BY <3>1, StorageSerialsTyped
    <2>2. ~More(s) /\ BeginsLater(s, x) /\ \A j \in OpenFor(s) : j = id
      BY <1>3, <1>4, <1>5, <2>1 DEF OpenOnce
    <2>3. /\ ConnectionsOf(s) \in Seq(Times) /\ DisconnectionsOf(s) \in Seq(Times)
          /\ Len(ConnectionsOf(s)) = Len(DisconnectionsOf(s))
          /\ Len(ConnectionsOf(s)) \in Nat
      <3>1. ConnectionsOf(s) \in Seq(Times) /\ DisconnectionsOf(s) \in Seq(Times)
        BY <1>1, ListsTyped
      <3>2. Len(DisconnectionsOf(s)) <= Len(ConnectionsOf(s))
        BY <1>1, <1>4 DEF IInv, ListsPaired, Paired
      <3> QED
        BY <2>2, <3>1, <3>2 DEF More
    <2>4. LedgerOf(s)' = LedgerOf(s)
      <3>1. Intervals(Append(ConnectionsOf(s), x), DisconnectionsOf(s))
              = Intervals(ConnectionsOf(s), DisconnectionsOf(s))
        BY <1>4, <2>3, IntervalsKept
      <3> QED
        BY <1>6, <1>7, <1>14, <3>1, LedgerLists
    <2>5. OpenSince(s)' = x
      <3>1. Len(ConnectionsOf(s)') = Len(ConnectionsOf(s)) + 1
            /\ ConnectionsOf(s)'[Len(ConnectionsOf(s)) + 1] = x
        BY <1>4, <1>7, <1>14, <2>3, AppendFacts
      <3>2. More(s)'
        <4>1. Len(ConnectionsOf(s)') > Len(DisconnectionsOf(s)')
          BY <1>6, <2>3, <3>1
        <4> QED
          BY <4>1 DEF More
      <3> QED
        BY <3>1, <3>2, OpenSinceNext
    <2>6. \A j \in OpenEntries(s) : j = id
      BY <2>2 DEF OpenEntries, OpenFor
    <2>7. CASE e.isStorageDevice
      <3>1. id \in OpenEntries(s)
        BY <1>2, <1>4, <2>7 DEF OpenEntries
      <3>2. OpenEntries(s) = {id}
        BY <2>6, <3>1
      <3>3. OpenSince(s) = x
        BY <1>3, <2>2, <3>2, OpenSinceNow
      <3> QED
        BY <1>11, <1>12, <2>4, <2>5, <3>3, LedgerStutters
    <2>8. CASE ~e.isStorageDevice
      <3>1. OpenEntries(s) = {}
        BY <2>6, <2>8 DEF OpenEntries
      <3>2. OpenSince(s) = NoTime
        BY <2>2, <3>1, OpenSinceNow
      <3>3. x \in 1..LogLength
        <4>1. x >= 1
          BY <2>2 DEF BeginsLater
        <4> QED
          BY <1>4, <4>1, LogAssumption DEF LogAssumption, Times
      <3>4. Ledger!Next
        BY <1>12, <2>1, <2>2, <2>3, <2>4, <2>5, <3>2, <3>3, LedgerConnects
      <3> QED
        BY <1>11, <3>4
    <2> QED
      BY <2>7, <2>8
  <1> QED
    BY <1>13, <1>14

\* Steps that change neither map nor the bus.
LEMMA QuietLedger ==
  ASSUME OrderlyBus, OwnSerials, OrderlyInv, ToldInv, LedgerInv, OpenOnce,
         UNCHANGED <<interfaces, usbs, bus, pos>>,
         phase' = phase \/ phase' # "reading"
  PROVE  LedgerInv' /\ UNCHANGED Ledger!ledgerVars
  <1>1. \A r : DisconnectionsOf(r)' = DisconnectionsOf(r) /\ ConnectionsOf(r)' = ConnectionsOf(r)
    BY QuietLists
  <1>2. LedgerInv'
    BY <1>1 DEF LedgerInv, OnePlace, SinceLater, OpenOnce, OpenFor, More, BeginsLater,
                StorageSerials, StorageDevices
  <1>3. ASSUME NEW r PROVE OpenSince(r)' = OpenSince(r) /\ LedgerOf(r)' = LedgerOf(r)
    <2>1. OpenEntries(r)' = OpenEntries(r)
      BY DEF OpenEntries
    <2> QED
      BY <1>1, <2>1, SerialStays
  <1> QED
    BY <1>2, <1>3, LedgerStutters

-----------------------------------------------------------------------------
(***************************************************************************)
(* The theorem.                                                            *)
(***************************************************************************)
LEMMA LedgerStep ==
  ASSUME OrderlyBus, OwnSerials, DatesRead, OrderlyInv, WholeInv, ToldInv, ToldInv',
         LedgerInv, [BusNext]_busVars
  PROVE  LedgerInv' /\ (Ledger!Next \/ UNCHANGED Ledger!ledgerVars)
  <1>1. OpenOnce
    BY OpenOnceReading DEF LedgerInv
  <1>2. ASSUME NEW path \in PortPaths, BusLineAt(path)
        PROVE  LedgerInv' /\ (Ledger!Next \/ UNCHANGED Ledger!ledgerVars)
    <2>1. ~GiveUp(path)
      BY DEF GiveUp, OrderlyBus
    <2> QED
      BY <1>1, <1>2, <2>1, PlugLedger, AnnounceLedger, UnplugLedger DEF BusLineAt
  <1>3. CASE (SaveInterface \/ FollowFreedNode) /\ UNCHANGED <<bus, sessions>>
    <2>1. TypeOK
      BY BusTypes DEF OrderlyInv
    <2>2. Saved(cursor)
      BY <1>3, <2>1, CursorTyped
         DEF SaveInterface, Initialize, FollowFreedNode, AtOpenEntry, Saved, Emptied
    <2>3. PICK id : id = cursor
      OBVIOUS
    <2> QED
      BY <1>3, <2>2, <2>3, SavedLedger
  <1>4. CASE (EndOfFile \/ SkipEmptyInterface \/ Return) /\ UNCHANGED <<bus, sessions>>
    BY <1>1, <1>4, QuietLedger DEF EndOfFile, SkipEmptyInterface, Return
  <1>5. CASE UNCHANGED busVars
    BY <1>1, <1>5, QuietLedger DEF busVars, vars
  <1> QED
    BY <1>2, <1>3, <1>4, <1>5 DEF BusNext, Save

LEMMA LedgerInitial == BusInit => Ledger!Init
  <1> SUFFICES ASSUME BusInit PROVE Ledger!Init
    OBVIOUS
  <1>1. usbs = <<>> /\ interfaces = <<>>
    BY DEF BusInit, Init
  <1>2. \A s : LedgerOf(s) = <<>> /\ OpenSince(s) = 0
    BY <1>1 DEF LedgerOf, OpenSince, ShownConnected, OpenEntries, NoTime
  <1> QED
    BY <1>2 DEF Ledger!Init

LEMMA ToldInvariance ==
  ASSUME OrderlyBus, OwnSerials
  PROVE  BusSpec => []ToldInv
  <1>1. BusInit => ToldInv
    BY ToldInit
  <1>2. OrderlyInv /\ ToldInv /\ [BusNext]_busVars => ToldInv'
    BY ToldStep
  <1>3. BusSpec => []OrderlyInv
    BY OrderlyInvariance
  <1> QED
    BY <1>1, <1>2, <1>3, PTL DEF BusSpec

\* On an orderly bus whose storage devices have serial numbers of their own,
\* and with a date in every line, the parser implements the ledger: sessions
\* are opened, closed and moved from one map to the other as SessionLedger has
\* it, whatever the loop of the saving does with the node it freed.
THEOREM LedgerIsKept ==
  (OrderlyBus /\ OwnSerials /\ DatesRead) => (BusSpec => KeepsLedger)
  <1> SUFFICES ASSUME OrderlyBus, OwnSerials, DatesRead
               PROVE  BusSpec => KeepsLedger
    OBVIOUS
  <1>1. BusInit => LedgerInv /\ Ledger!Init
    BY LedgerInvInit, LedgerInitial
  <1>2. OrderlyInv /\ WholeInv /\ ToldInv /\ ToldInv' /\ LedgerInv /\ [BusNext]_busVars
          => LedgerInv' /\ [Ledger!Next]_(Ledger!ledgerVars)
    BY LedgerStep
  <1>3. BusSpec => []OrderlyInv /\ []WholeInv
    BY OrderlyInvariance, WholeInvariance
  <1>4. BusSpec => []ToldInv
    BY ToldInvariance
  <1> QED
    BY <1>1, <1>2, <1>3, <1>4, PTL DEF BusSpec, KeepsLedger, Ledger!Spec

-----------------------------------------------------------------------------
(***************************************************************************)
(* A storage device has one open entry at most.                            *)
(***************************************************************************)
OneOpen == \A s \in StorageSerials : \A i, j \in OpenFor(s) : i = j

OpenInv ==
  /\ OnePlace
  /\ phase # "reading" => OneOpen

LEMMA OneOpenReading ==
  ASSUME OrderlyBus, OwnSerials, OrderlyInv, ToldInv, OnePlace, phase = "reading"
  PROVE  OneOpen
  <1>1. ASSUME NEW s \in StorageSerials, NEW id \in OpenFor(s)
        PROVE  \E q \in PortPaths : bus[q].device \in StorageDevices /\ bus[q].device.serial = s
    <2>1. id \in DOMAIN interfaces /\ ~interfaces[id].isEmpty /\ interfaces[id].serialNumber = s
      BY <1>1 DEF OpenFor
    <2>2. PICK p \in PortPaths : InterfaceId(p) = id /\ IsKnown(p)
      BY <2>1 DEF ToldInv, EntriesOfPorts
    <2>3. EntryOf(p) = interfaces[id]
      BY <2>2 DEF EntryOf
    <2>4. p \in OnBus(s)
      BY <1>1, <2>1, <2>2, <2>3, OpenAtEnd
    <2> QED
      BY <2>4 DEF OnBus
  <1>2. ASSUME NEW s \in StorageSerials, NEW i \in OpenFor(s), NEW j \in OpenFor(s)
        PROVE  i = j
    <2>1. PICK q \in PortPaths : bus[q].device \in StorageDevices /\ bus[q].device.serial = s
      BY <1>1, <1>2
    <2>2. i = InterfaceId(q) /\ j = InterfaceId(q)
      BY <1>2, <2>1, OpenPort
    <2> QED
      BY <2>2
  <1> QED
    BY <1>2 DEF OneOpen

LEMMA PlacedOnce ==
  ASSUME BusInv, OnePlace, NEW path \in PortPaths, NEW state \in PortState,
         SetPort(path, state),
         state.device \in Devices =>
           \A p \in PortPaths \ {path} : bus[p].device # state.device
  PROVE  OnePlace'
  <1>1. bus'[path] = state /\ \A p \in PortPaths \ {path} : bus'[p].device = bus[p].device
    BY SetPortTyped
  <1>2. ASSUME NEW p \in PortPaths, NEW q \in PortPaths,
               bus'[p].device \in Devices, bus'[p].device = bus'[q].device
        PROVE  p = q
    <2>1. CASE p = path /\ q # path
      BY <1>1, <1>2, <2>1
    <2>2. CASE p # path /\ q = path
      BY <1>1, <1>2, <2>2
    <2>3. CASE p # path /\ q # path
      BY <1>1, <1>2, <2>3 DEF OnePlace
    <2>4. CASE p = path /\ q = path
      BY <2>4
    <2> QED
      BY <2>1, <2>2, <2>3, <2>4
  <1> QED
    BY <1>2 DEF OnePlace

LEMMA OnePlaceStep ==
  ASSUME OrderlyBus, BusInv, OnePlace, [BusNext]_busVars
  PROVE  OnePlace'
  <1>1. ASSUME NEW path \in PortPaths, NEW device \in Devices, Plug(path, device)
        PROVE  OnePlace'
    <2> DEFINE state == [device |-> device, announced |-> 1, since |-> pos + 1,
                         clean |-> MatchesNew(path) /\ IsBlank(path)]
    <2>1. Line("new", path, device) /\ SetPort(path, state)
          /\ \A p \in PortPaths : bus[p].device # device
      BY <1>1 DEF Plug, Write, OrderlyBus
    <2>2. state \in PortState /\ state.device = device
      <3>1. pos + 1 \in Times
        BY <2>1, LineReads, BusTypes, ReadLineTyped
      <3>2. (MatchesNew(path) /\ IsBlank(path)) \in BOOLEAN
        BY DEF MatchesNew, MatchesUsb, IsBlank
      <3> QED
        BY <3>1, <3>2 DEF PortState
    <2> HIDE DEF state
    <2> QED
      BY <2>1, <2>2, PlacedOnce
  <1>2. ASSUME NEW path \in PortPaths, Announce(path) PROVE OnePlace'
    <2>1. bus[path] \in PortState /\ bus[path].device \in Devices
      BY <1>2, BusTypes DEF BusInv, Occupied, Announce
    <2>2. PICK k \in 1..5 : SetPort(path, [bus[path] EXCEPT !.announced = k])
      <3>1. PICK k \in Remaining(path) : SetPort(path, [bus[path] EXCEPT !.announced = k])
        BY <1>2 DEF Announce, Write, OrderlyBus
      <3>2. k \in 1..5
        BY <2>1 DEF Remaining, PortState
      <3> QED
        BY <3>1, <3>2
    <2> DEFINE state == [bus[path] EXCEPT !.announced = k]
    <2>3. state \in PortState /\ state.device = bus[path].device
      BY <2>1 DEF PortState
    <2>4. \A p \in PortPaths \ {path} : bus[p].device # state.device
      BY <2>1, <2>3 DEF OnePlace
    <2> HIDE DEF state
    <2>5. SetPort(path, state)
      BY <2>2 DEF state
    <2> QED
      BY <2>3, <2>4, <2>5, PlacedOnce
  <1>3. ASSUME NEW path \in PortPaths, Unplug(path) PROVE OnePlace'
    <2>1. SetPort(path, FreePort) /\ FreePort \in PortState
      BY <1>3, FreePortFacts DEF Unplug
    <2>2. FreePort.device \notin Devices
      BY DeviceAssumption DEF DeviceAssumption, FreePort
    <2> QED
      BY <2>1, <2>2, PlacedOnce
  <1>4. ASSUME NEW path \in PortPaths, GiveUp(path) PROVE OnePlace'
    BY <1>4 DEF GiveUp, OrderlyBus
  <1>5. CASE UNCHANGED bus
    BY <1>5 DEF OnePlace
  <1> QED
    BY <1>1, <1>2, <1>3, <1>4, <1>5 DEF BusNext, BusLineAt, busVars

LEMMA BusLineReads ==
  ASSUME NEW path \in PortPaths, BusLineAt(path)
  PROVE  ReadLine
  <1>1. ASSUME NEW device \in Devices, Plug(path, device) PROVE ReadLine
    BY <1>1, LineReads DEF Plug, Write
  <1>2. ASSUME Announce(path) PROVE ReadLine
    BY <1>2, LineReads DEF Announce, Write
  <1>3. ASSUME GiveUp(path) PROVE ReadLine
    BY <1>3, LineReads DEF GiveUp
  <1>4. ASSUME Unplug(path) PROVE ReadLine
    BY <1>4, LineReads DEF Unplug
  <1> QED
    BY <1>1, <1>2, <1>3, <1>4 DEF BusLineAt

LEMMA OpenStep ==
  ASSUME OrderlyBus, OwnSerials, OrderlyInv, ToldInv, OpenInv, [BusNext]_busVars
  PROVE  OpenInv'
  <1>1. BusInv /\ TypeOK
    BY BusTypes DEF OrderlyInv
  <1>2. OnePlace' /\ OneOpen
    BY <1>1, OnePlaceStep, OneOpenReading DEF OpenInv
  <1>3. ASSUME UNCHANGED interfaces PROVE OneOpen'
    BY <1>2, <1>3 DEF OneOpen, OpenFor, StorageSerials, StorageDevices
  <1>4. ASSUME NEW path \in PortPaths, BusLineAt(path) PROVE phase' = "reading"
    BY <1>1, <1>4, BusLineReads, ReadLineTyped
  <1>5. CASE SaveInterface \/ FollowFreedNode
    <2>1. Saved(cursor)
      BY <1>1, <1>5, CursorTyped
         DEF SaveInterface, Initialize, FollowFreedNode, AtOpenEntry, Saved, Emptied
    <2>2. PICK id : id = cursor
      OBVIOUS
    <2>3. \A r : OpenFor(r)' = OpenFor(r) \ {id}
      BY <1>1, <2>1, <2>2, SavedEntries
    <2>4. OneOpen'
      BY <1>2, <2>3 DEF OneOpen, StorageSerials, StorageDevices
    <2> QED
      BY <1>2, <2>4 DEF OpenInv
  <1>6. CASE UNCHANGED interfaces
    BY <1>2, <1>3, <1>6 DEF OpenInv
  <1> QED
    BY <1>2, <1>4, <1>5, <1>6
       DEF BusNext, busVars, vars, EndOfFile, Save, SkipEmptyInterface, Return, OpenInv

-----------------------------------------------------------------------------
(***************************************************************************)
(* What the maps say of a storage device is what it told of itself.        *)
(***************************************************************************)
\* While lines are read, an entry says as much of it as is announced.
FieldsMatch(p) ==
  LET d == bus[p].device
      e == EntryOf(p)
  IN  /\ bus[p].announced >= 2 => /\ e.idVendor \in StringToInt(d.vendor, Garbage)
                                  /\ e.idProduct \in StringToInt(d.model, Garbage)
      /\ e.productName = IF bus[p].announced >= 3 THEN d.product ELSE NoText
      /\ e.manufacturer = NoText

CleanFieldsMatch ==
  phase = "reading" => \A p \in PortPaths : bus[p].clean => FieldsMatch(p)

OpenDescribed ==
  \A d \in StorageDevices : \A id \in OpenFor(d.serial) : Describes(interfaces[id], d)

FieldsInv ==
  /\ CleanFieldsMatch
  /\ phase # "reading" => OpenDescribed
  /\ DevicesAreDescribed

\* What a line of the announcement makes of an entry's other fields.
LEMMA AnnouncedFields ==
  ASSUME BusInv, NEW path \in PortPaths, NEW device \in Devices, NEW k \in 2..5,
         Line(Kinds[k], path, device), IsKnown(path)
  PROVE  LET e == EntryOf(path)
             f == EntryOf(path)'
         IN  /\ IsKnown(path)' /\ usbs' = usbs
             /\ f.isEmpty <=> e.isEmpty
             /\ f.connectionTime = e.connectionTime
             /\ IF k = 2 THEN /\ f.idVendor \in StringToInt(device.vendor, Garbage)
                              /\ f.idProduct \in StringToInt(device.model, Garbage)
                         ELSE f.idVendor = e.idVendor /\ f.idProduct = e.idProduct
             /\ f.productName = IF k = 3 THEN device.product ELSE e.productName
             /\ f.manufacturer = e.manufacturer
             /\ k = 5 => f.isStorageDevice
  <1> DEFINE e == EntryOf(path)
             f == EntryOf(path)'
  <1>1. e \in UsbInterface
    BY EntryTyped, BusTypes
  <1>2. Kinds = <<"new", "ids", "product", "serial", "storage">>
    BY DEF Kinds
  <1>3. CASE k = 2
    <2>1. IdsFound(path, device.vendor, device.model)
      BY <1>2, <1>3 DEF Line
    <2>2. PICK v \in StringToInt(device.vendor, Garbage),
               p \in StringToInt(device.model, Garbage) :
            Amend(path, [e EXCEPT !.idVendor = v, !.idProduct = p])
      BY <2>1 DEF IdsFound
    <2>3. f = [e EXCEPT !.idVendor = v, !.idProduct = p] /\ IsKnown(path)' /\ usbs' = usbs
      BY <2>2, AmendsEntry DEF Amend
    <2> HIDE DEF e, f
    <2>4. /\ f.isEmpty = e.isEmpty /\ f.connectionTime = e.connectionTime
          /\ f.idVendor = v /\ f.idProduct = p
          /\ f.productName = e.productName /\ f.manufacturer = e.manufacturer
      BY <1>1, <2>3 DEF UsbInterface
    <2> QED
      BY <1>3, <2>3, <2>4 DEF e, f
  <1>4. ASSUME k # 2, usbs' = usbs, IsKnown(path)',
               f.isEmpty = e.isEmpty, f.connectionTime = e.connectionTime,
               f.idVendor = e.idVendor, f.idProduct = e.idProduct,
               f.productName = IF k = 3 THEN device.product ELSE e.productName,
               f.manufacturer = e.manufacturer,
               k = 5 => f.isStorageDevice
        PROVE  /\ IsKnown(path)' /\ usbs' = usbs
               /\ f.isEmpty <=> e.isEmpty
               /\ f.connectionTime = e.connectionTime
               /\ IF k = 2 THEN /\ f.idVendor \in StringToInt(device.vendor, Garbage)
                                /\ f.idProduct \in StringToInt(device.model, Garbage)
                           ELSE f.idVendor = e.idVendor /\ f.idProduct = e.idProduct
               /\ f.productName = IF k = 3 THEN device.product ELSE e.productName
               /\ f.manufacturer = e.manufacturer
               /\ k = 5 => f.isStorageDevice
    BY <1>4
  <1>5. CASE k = 3
    <2>1. f = [e EXCEPT !.productName = device.product] /\ IsKnown(path)' /\ usbs' = usbs
      BY <1>2, <1>5, AmendsEntry DEF Line, ProductNameFound, Amend
    <2> HIDE DEF e, f
    <2>2. /\ f.isEmpty = e.isEmpty /\ f.connectionTime = e.connectionTime
          /\ f.idVendor = e.idVendor /\ f.idProduct = e.idProduct
          /\ f.productName = device.product /\ f.manufacturer = e.manufacturer
      BY <1>1, <2>1 DEF UsbInterface
    <2> QED
      BY <1>4, <1>5, <2>1, <2>2 DEF e, f
  <1>6. CASE k = 4
    <2>1. f = [e EXCEPT !.serialNumber = device.serial] /\ IsKnown(path)' /\ usbs' = usbs
      BY <1>2, <1>6, AmendsEntry DEF Line, SerialNumberFound, Amend
    <2> HIDE DEF e, f
    <2>2. /\ f.isEmpty = e.isEmpty /\ f.connectionTime = e.connectionTime
          /\ f.idVendor = e.idVendor /\ f.idProduct = e.idProduct
          /\ f.productName = e.productName /\ f.manufacturer = e.manufacturer
      BY <1>1, <2>1 DEF UsbInterface
    <2> QED
      BY <1>4, <1>6, <2>1, <2>2 DEF e, f
  <1>7. CASE k = 5
    <2>1. f = [e EXCEPT !.isStorageDevice = TRUE] /\ IsKnown(path)' /\ usbs' = usbs
      BY <1>2, <1>7, AmendsEntry DEF Line, CheckIfStorageDevice, Amend
    <2> HIDE DEF e, f
    <2>2. /\ f.isEmpty = e.isEmpty /\ f.connectionTime = e.connectionTime
          /\ f.idVendor = e.idVendor /\ f.idProduct = e.idProduct
          /\ f.productName = e.productName /\ f.manufacturer = e.manufacturer
      BY <1>1, <2>1 DEF UsbInterface
    <2>3. f.isStorageDevice = TRUE
      BY <1>1, <2>1 DEF UsbInterface
    <2> QED
      BY <1>4, <1>7, <2>1, <2>2, <2>3 DEF e, f
  <1> QED
    BY <1>3, <1>5, <1>6, <1>7

\* A port that is still clean after a line about another one.
LEMMA FieldsElsewhere ==
  ASSUME BusInv, CleanFieldsMatch, phase = "reading", NEW path \in PortPaths,
         NEW state \in PortState, SetPort(path, state), KeptElsewhere(path),
         state.clean => FieldsMatch(path)'
  PROVE  CleanFieldsMatch'
  <1>1. ASSUME NEW p \in PortPaths \ {path}, bus'[p].clean PROVE FieldsMatch(p)'
    <2>1. bus'[p] = bus[p] /\ InterfaceId(p) # InterfaceId(path)
      BY <1>1, SetPortTyped
    <2>2. EntryMatches(p) /\ FieldsMatch(p)
      BY <1>1, <2>1 DEF BusInv, CleanPortsMatch, CleanFieldsMatch
    <2>3. InterfaceId(p) \in DOMAIN interfaces
      BY <2>2 DEF EntryMatches, IsKnown
    <2>4. EntryOf(p)' = EntryOf(p)
      BY <2>1, <2>3 DEF KeptElsewhere, EntryOf
    <2> QED
      BY <2>1, <2>2, <2>4 DEF FieldsMatch
  <1>2. bus'[path] = state
    BY SetPortTyped
  <1> QED
    BY <1>1, <1>2 DEF CleanFieldsMatch

\* The entries of storage devices that are open have told everything.
LEMMA OpenDescribedReading ==
  ASSUME OrderlyBus, OwnSerials, OrderlyInv, ToldInv, FieldsInv, phase = "reading"
  PROVE  OpenDescribed
  <1> SUFFICES ASSUME NEW d \in StorageDevices, NEW id \in OpenFor(d.serial)
               PROVE  Describes(interfaces[id], d)
    BY DEF OpenDescribed
  <1>1. /\ id \in DOMAIN interfaces /\ ~interfaces[id].isEmpty
        /\ interfaces[id].serialNumber = d.serial
        /\ d.serial \in StorageSerials /\ d.serial # NoText
    BY DEF OpenFor, StorageSerials, OwnSerials
  <1>2. PICK p \in PortPaths : InterfaceId(p) = id /\ IsKnown(p)
    BY <1>1 DEF ToldInv, EntriesOfPorts
  <1>3. EntryOf(p) = interfaces[id]
    BY <1>2 DEF EntryOf
  <1>4. p \in OnBus(d.serial) /\ EntryMatches(p)
    BY <1>1, <1>2, <1>3, OpenAtEnd
  <1>5. bus[p].device = d
    BY <1>4 DEF OnBus, OwnSerials, StorageDevices
  <1>6. bus[p].clean
    <2>1. bus[p] # FreePort /\ p \in d.ports
      BY <1>5, DeviceThere DEF StorageDevices
    <2> QED
      BY <1>2, <2>1 DEF OrderlyInv, StoragePortsClean, StoragePort
  <1>7. bus[p].announced >= 4 /\ bus[p].announced \in 0..5
    BY <1>1, <1>3, <1>4, BusTypes DEF EntryMatches, OrderlyInv, PortState
  <1>8. FieldsMatch(p)
    BY <1>6 DEF FieldsInv, CleanFieldsMatch
  <1>9. bus[p].announced >= 2 /\ bus[p].announced >= 3
    BY <1>7
  <1> QED
    BY <1>3, <1>5, <1>8, <1>9 DEF FieldsMatch, Describes

LEMMA PlugFields ==
  ASSUME OrderlyBus, BusInv, FieldsInv,
         NEW path \in PortPaths, NEW device \in Devices, Plug(path, device)
  PROVE  FieldsInv'
  <1> DEFINE state == [device |-> device, announced |-> 1, since |-> pos + 1,
                       clean |-> MatchesNew(path) /\ IsBlank(path)]
  <1>1. Line("new", path, device) /\ SetPort(path, state)
    BY DEF Plug, Write, OrderlyBus
  <1>2. /\ phase = "reading" /\ phase' = "reading" /\ KeptElsewhere(path)
        /\ CheckIfNewDeviceConnected(path) /\ pos + 1 \in Times
    BY <1>1, LineReads, LineKeepsElsewhere, BusTypes, ReadLineTyped DEF Line
  <1>3. state \in PortState /\ state.announced = 1
        /\ state.clean = (MatchesNew(path) /\ IsBlank(path))
    <2>1. (MatchesNew(path) /\ IsBlank(path)) \in BOOLEAN
      BY DEF MatchesNew, MatchesUsb, IsBlank
    <2> QED
      BY <1>2, <2>1 DEF PortState
  <1> HIDE DEF state
  <1>4. bus'[path] = state
    BY <1>1, <1>3, SetPortTyped
  <1>5. ASSUME state.clean PROVE FieldsMatch(path)'
    <2>1. EntryOf(path)' = AnnouncedNow(EmptyInterface)
      BY <1>2, <1>3, <1>5, OpensBlankEntry
    <2>2. EntryOf(path)'.productName = NoText /\ EntryOf(path)'.manufacturer = NoText
      BY <2>1 DEF AnnouncedNow, EmptyInterface
    <2> QED
      BY <1>3, <1>4, <2>2 DEF FieldsMatch
  <1>6. CleanFieldsMatch'
    BY <1>1, <1>2, <1>3, <1>5, FieldsElsewhere DEF FieldsInv
  <1>7. DevicesAreDescribed'
    BY <1>2 DEF FieldsInv, DevicesAreDescribed, CheckIfNewDeviceConnected, StorageDevices
  <1> QED
    BY <1>2, <1>6, <1>7 DEF FieldsInv

LEMMA AnnounceFields ==
  ASSUME OrderlyBus, OrderlyInv, FieldsInv, NEW path \in PortPaths, Announce(path)
  PROVE  FieldsInv'
  <1> DEFINE b == bus[path]
             d == bus[path].device
             e == EntryOf(path)
             f == EntryOf(path)'
  <1>1. BusInv /\ b \in PortState /\ d \in Devices /\ b.announced >= 1
    BY BusTypes DEF OrderlyInv, BusInv, Occupied, Begun, Announce
  <1>2. PICK k \in Remaining(path) :
          /\ \A j \in Remaining(path) : k <= j
          /\ Line(Kinds[k], path, d) /\ SetPort(path, [b EXCEPT !.announced = k])
    BY DEF Announce, Write, OrderlyBus
  <1>3. /\ k \in 2..5 /\ b.announced < k /\ b.announced \in 1..5
        /\ k > 2 => b.announced >= 2
        /\ k > 3 => b.announced >= 3 \/ d.product = NoText
    <2>1. b.announced \in 1..5
      BY <1>1 DEF PortState
    <2>2. Kinds = <<"new", "ids", "product", "serial", "storage">>
      BY DEF Kinds
    <2>3. k \in b.announced + 1..5
      BY <1>2 DEF Remaining
    <2>4. b.announced = 1 => 2 \in Remaining(path)
      BY <2>2 DEF Remaining, Tells
    <2>5. (b.announced < 3 /\ d.product # NoText) => 3 \in Remaining(path)
      BY <2>1, <2>2 DEF Remaining, Tells
    <2>6. k \in 2..5 /\ b.announced < k
      BY <2>1, <2>3
    <2>7. k > 2 => b.announced >= 2
      BY <1>2, <2>1, <2>4, <2>6
    <2>8. k > 3 => b.announced >= 3 \/ d.product = NoText
      BY <1>2, <2>1, <2>5, <2>6
    <2> QED
      BY <2>1, <2>6, <2>7, <2>8
  <1> DEFINE state == [b EXCEPT !.announced = k]
  <1>4. /\ state \in PortState /\ state.announced = k /\ state.device = d
        /\ state.clean => b.clean
    BY <1>1, <1>3 DEF PortState
  <1> HIDE DEF state
  <1>5. SetPort(path, state)
    BY <1>2 DEF state
  <1>6. phase = "reading" /\ phase' = "reading" /\ KeptElsewhere(path)
    BY <1>1, <1>2, LineReads, LineKeepsElsewhere, BusTypes, ReadLineTyped
  <1>7. bus'[path] = state
    BY <1>1, <1>4, <1>5, SetPortTyped
  <1>8. ASSUME state.clean PROVE FieldsMatch(path)'
    <2>1. b.clean
      BY <1>4, <1>8
    <2>2. IsKnown(path) /\ FieldsMatch(path)
      BY <1>1, <1>6, <2>1 DEF BusInv, CleanPortsMatch, EntryMatches, FieldsInv, CleanFieldsMatch
    <2>3. /\ IF k = 2 THEN /\ f.idVendor \in StringToInt(d.vendor, Garbage)
                           /\ f.idProduct \in StringToInt(d.model, Garbage)
                      ELSE f.idVendor = e.idVendor /\ f.idProduct = e.idProduct
          /\ f.productName = IF k = 3 THEN d.product ELSE e.productName
          /\ f.manufacturer = e.manufacturer
      BY <1>1, <1>2, <1>3, <2>2, AnnouncedFields
    <2> HIDE DEF e, f
    <2>4. /\ b.announced >= 2 => /\ e.idVendor \in StringToInt(d.vendor, Garbage)
                                 /\ e.idProduct \in StringToInt(d.model, Garbage)
          /\ e.productName = IF b.announced >= 3 THEN d.product ELSE NoText
          /\ e.manufacturer = NoText
      BY <2>2 DEF FieldsMatch, e
    <2>5. /\ f.idVendor \in StringToInt(d.vendor, Garbage)
          /\ f.idProduct \in StringToInt(d.model, Garbage)
      BY <1>3, <2>3, <2>4
    <2>6. f.productName = IF k >= 3 THEN d.product ELSE NoText
      <3>1. CASE k = 2
        BY <1>3, <2>3, <2>4, <3>1
      <3>2. CASE k = 3
        BY <2>3, <3>2
      <3>3. CASE k > 3
        BY <1>3, <2>3, <2>4, <3>3
      <3> QED
        BY <1>3, <3>1, <3>2, <3>3
    <2>7. f.manufacturer = NoText
      BY <2>3, <2>4
    <2> QED
      BY <1>4, <1>7, <2>5, <2>6, <2>7 DEF FieldsMatch, f
  <1>9. CleanFieldsMatch'
    BY <1>1, <1>4, <1>5, <1>6, <1>8, FieldsElsewhere DEF FieldsInv
  <1>10. usbs' = usbs
    <2>1. Kinds[k] # "disconnect"
      BY <1>3 DEF Kinds
    <2> QED
      BY <1>2, <2>1
         DEF Line, IdsFound, ProductNameFound, SerialNumberFound, CheckIfStorageDevice, Amend,
             CheckIfNewDeviceConnected
  <1>11. DevicesAreDescribed'
    BY <1>10 DEF FieldsInv, DevicesAreDescribed, StorageDevices
  <1> QED
    BY <1>6, <1>9, <1>11 DEF FieldsInv

\* A session added to a device leaves its fields, and those of an entry of the
\* same device fit.
LEMMA SessionDescribed ==
  ASSUME TypeOK, DevicesAreDescribed, NEW d \in StorageDevices, NEW e \in UsbInterface,
         e.serialNumber = d.serial, Describes(e, d), NEW x \in Times, NEW y \in Times
  PROVE  /\ Describes(Disconnected(Connected(UsbOf(e), x), y), d)
         /\ Describes(FillIn(Connected(UsbOf(e), x), e), d)
  <1> DEFINE u == UsbOf(e)
  <1>1. u \in UsbInfo
    BY UsbOfTyped
  <1>2. Describes(u, d)
    <2>1. CASE e.serialNumber \in DOMAIN usbs
      BY <2>1 DEF UsbOf, DevicesAreDescribed
    <2>2. CASE e.serialNumber \notin DOMAIN usbs
      <3>1. u = NewUsb(e)
        BY <2>2 DEF UsbOf
      <3>2. /\ u.idVendor = e.idVendor /\ u.idProduct = e.idProduct
            /\ u.productName = e.productName /\ u.manufacturer = e.manufacturer
        BY <3>1 DEF NewUsb
      <3> QED
        BY <3>2 DEF Describes
    <2> QED
      BY <2>1, <2>2
  <1> HIDE DEF u
  <1> DEFINE c == Connected(u, x)
  <1>3. c \in UsbInfo
    BY <1>1, SessionTyped
  <1>4. /\ c.idVendor = u.idVendor /\ c.idProduct = u.idProduct
        /\ c.productName = u.productName /\ c.manufacturer = u.manufacturer
    BY <1>1 DEF Connected, UsbInfo
  <1>5. Describes(c, d)
    BY <1>2, <1>4 DEF Describes
  <1> HIDE DEF c
  <1>6. Describes(Disconnected(c, y), d)
    <2>1. /\ Disconnected(c, y).idVendor = c.idVendor
          /\ Disconnected(c, y).idProduct = c.idProduct
          /\ Disconnected(c, y).productName = c.productName
          /\ Disconnected(c, y).manufacturer = c.manufacturer
      BY <1>3 DEF Disconnected, UsbInfo
    <2> QED
      BY <1>5, <2>1 DEF Describes
  <1>7. Describes(FillIn(c, e), d)
    <2>1. /\ FillIn(c, e).idVendor \in {c.idVendor, e.idVendor}
          /\ FillIn(c, e).idProduct \in {c.idProduct, e.idProduct}
          /\ FillIn(c, e).productName \in {c.productName, e.productName}
          /\ FillIn(c, e).manufacturer \in {c.manufacturer, e.manufacturer}
      BY <1>3 DEF FillIn, UsbInfo
    <2> QED
      BY <1>5, <2>1 DEF Describes
  <1> QED
    BY <1>6, <1>7 DEF c, u

LEMMA PutDescribed ==
  ASSUME OwnSerials, DevicesAreDescribed, NEW s, NEW w, usbs' = Put(usbs, s, w),
         \A d \in StorageDevices : d.serial = s => Describes(w, d)
  PROVE  DevicesAreDescribed'
  <1>1. ASSUME NEW d \in StorageDevices, d.serial \in DOMAIN usbs'
        PROVE  Describes(usbs'[d.serial], d)
    BY <1>1 DEF Put, DevicesAreDescribed
  <1> QED
    BY <1>1 DEF DevicesAreDescribed, StorageDevices

LEMMA UnplugFields ==
  ASSUME OrderlyBus, OwnSerials, OrderlyInv, ToldInv, FieldsInv,
         NEW path \in PortPaths, Unplug(path)
  PROVE  FieldsInv'
  <1>1. BusInv /\ TypeOK
    BY BusTypes DEF OrderlyInv
  <1>2. Line("disconnect", path, bus[path].device) /\ SetPort(path, FreePort)
    BY DEF Unplug, OrderlyBus
  <1>3. /\ phase = "reading" /\ phase' = "reading" /\ KeptElsewhere(path)
        /\ CheckIfDeviceDisconnected(path)
    BY <1>1, <1>2, LineReads, LineKeepsElsewhere, BusTypes, ReadLineTyped DEF Line
  <1>4. CleanFieldsMatch'
    <2>1. FreePort \in PortState /\ ~FreePort.clean
      BY FreePortFacts
    <2> QED
      BY <1>1, <1>2, <1>3, <2>1, FieldsElsewhere DEF FieldsInv
  <1>5. DevicesAreDescribed'
    <2>1. CASE ~IsOpenStorage(path)
      <3>1. usbs' = usbs
        BY <1>3, <2>1 DEF CheckIfDeviceDisconnected
      <3> QED
        BY <3>1 DEF FieldsInv, DevicesAreDescribed, StorageDevices
    <2>2. CASE IsOpenStorage(path)
      <3> DEFINE e == EntryOf(path)
                 w == GoneNow(e)
      <3>1. /\ e \in UsbInterface /\ IsKnown(path) /\ ~e.isEmpty /\ e.isStorageDevice
            /\ e = interfaces[InterfaceId(path)] /\ InterfaceId(path) \in DOMAIN interfaces
        BY <1>1, <2>2, EntryTyped DEF IsOpenStorage, EntryOf, IsKnown
      <3>2. PICK s : s = e.serialNumber
        OBVIOUS
      <3>3. usbs' = Put(usbs, s, w)
        BY <1>3, <2>2, <3>2 DEF CheckIfDeviceDisconnected
      <3>4. e.connectionTime \in Times /\ DateOf(pos + 1) \in Times
        <4>1. DateOf(pos + 1) \in Times
          BY <1>1, <1>3, <2>2, <3>2, DisconnectLists
        <4> QED
          BY <3>1, <4>1 DEF UsbInterface
      <3>5. ASSUME NEW d \in StorageDevices, d.serial = s PROVE Describes(w, d)
        <4>1. InterfaceId(path) \in OpenFor(d.serial)
          BY <3>1, <3>2, <3>5 DEF OpenFor
        <4>2. Describes(e, d)
          BY <1>3, <3>1, <4>1, OpenDescribedReading DEF OpenDescribed
        <4> HIDE DEF e
        <4>3. PICK f \in UsbInterface : f = e
          BY <3>1
        <4>4. PICK x \in Times, y \in Times : x = f.connectionTime /\ y = DateOf(pos + 1)
          BY <3>4, <4>3
        <4>5. f.serialNumber = d.serial /\ Describes(f, d) /\ DevicesAreDescribed
          BY <3>2, <3>5, <4>2, <4>3 DEF FieldsInv
        <4>6. Describes(Disconnected(Connected(UsbOf(f), x), y), d)
          BY <1>1, <4>5, SessionDescribed
        <4> QED
          BY <4>3, <4>4, <4>6 DEF GoneNow
      <3> HIDE DEF w
      <3> QED
        BY <3>3, <3>5, PutDescribed DEF FieldsInv
    <2> QED
      BY <2>1, <2>2
  <1> QED
    BY <1>3, <1>4, <1>5 DEF FieldsInv

LEMMA SavedFields ==
  ASSUME OrderlyBus, OwnSerials, TypeOK, FieldsInv, NEW id, Saved(id)
  PROVE  FieldsInv'
  <1>1. phase = "saving" /\ phase' # "reading" /\ OpenDescribed /\ DevicesAreDescribed
    BY DEF Saved, FieldsInv
  <1>2. OpenDescribed'
    <2>1. ASSUME NEW d \in StorageDevices, NEW j \in OpenFor(d.serial)'
          PROVE  Describes(interfaces'[j], d)
      <3>1. PICK r : r = d.serial
        OBVIOUS
      <3>2. j \in OpenFor(r)'
        BY <2>1, <3>1 DEF OpenFor
      <3>3. j \in OpenFor(r) /\ interfaces'[j] = interfaces[j]
        BY <3>2, SavedEntries
      <3> QED
        BY <1>1, <3>1, <3>3 DEF OpenDescribed
    <2> QED
      BY <2>1 DEF OpenDescribed, StorageDevices
  <1>3. DevicesAreDescribed'
    <2>1. PICK e \in UsbInterface :
            e = interfaces[id] /\ id \in DOMAIN interfaces /\ ~e.isEmpty /\ usbs' = SavedUsbs(e)
      BY EmptiedEntry DEF Saved, Emptied
    <2>2. CASE ~IsSaved(e)
      <3>1. usbs' = usbs
        BY <2>1, <2>2 DEF SavedUsbs
      <3> QED
        BY <1>1, <3>1 DEF DevicesAreDescribed, StorageDevices
    <2>3. CASE IsSaved(e)
      <3>1. PICK x \in Times : x = e.connectionTime
        BY DEF UsbInterface
      <3>2. usbs' = Put(usbs, e.serialNumber, FillIn(Connected(UsbOf(e), x), e))
        BY <2>1, <2>3, <3>1 DEF SavedUsbs
      <3>3. ASSUME NEW d \in StorageDevices, d.serial = e.serialNumber
            PROVE  Describes(FillIn(Connected(UsbOf(e), x), e), d)
        <4>1. id \in OpenFor(d.serial)
          BY <2>1, <3>3 DEF OpenFor
        <4>2. Describes(e, d)
          BY <1>1, <2>1, <4>1 DEF OpenDescribed
        <4> QED
          BY <1>1, <3>3, <4>2, SessionDescribed
      <3>4. PICK s, w : s = e.serialNumber /\ w = FillIn(Connected(UsbOf(e), x), e)
        OBVIOUS
      <3> QED
        BY <1>1, <3>2, <3>3, <3>4, PutDescribed
    <2> QED
      BY <2>2, <2>3
  <1> QED
    BY <1>1, <1>2, <1>3 DEF FieldsInv, CleanFieldsMatch

LEMMA FieldsInit == BusInit => FieldsInv
  BY FreePortFacts
     DEF BusInit, Init, FieldsInv, CleanFieldsMatch, OpenDescribed, OpenFor, DevicesAreDescribed

LEMMA FieldsStep ==
  ASSUME OrderlyBus, OwnSerials, OrderlyInv, ToldInv, FieldsInv, [BusNext]_busVars
  PROVE  FieldsInv'
  <1>1. BusInv /\ TypeOK
    BY BusTypes DEF OrderlyInv
  <1>2. ASSUME NEW path \in PortPaths, BusLineAt(path) PROVE FieldsInv'
    <2>1. ~GiveUp(path)
      BY DEF GiveUp, OrderlyBus
    <2> QED
      BY <1>1, <1>2, <2>1, PlugFields, AnnounceFields, UnplugFields DEF BusLineAt
  <1>3. CASE SaveInterface \/ FollowFreedNode
    <2>1. Saved(cursor)
      BY <1>1, <1>3, CursorTyped
         DEF SaveInterface, Initialize, FollowFreedNode, AtOpenEntry, Saved, Emptied
    <2>2. PICK id : id = cursor
      OBVIOUS
    <2> QED
      BY <1>1, <2>1, <2>2, SavedFields
  <1>4. ASSUME UNCHANGED <<interfaces, usbs, bus>>, phase' = phase \/ phase' # "reading"
        PROVE  FieldsInv'
    <2>1. OpenDescribed \/ phase = "reading"
      BY DEF FieldsInv
    <2>2. OpenDescribed
      BY <2>1, OpenDescribedReading
    <2>3. OpenDescribed'
      BY <1>4, <2>2 DEF OpenDescribed, OpenFor, StorageDevices
    <2>4. DevicesAreDescribed'
      BY <1>4 DEF FieldsInv, DevicesAreDescribed, StorageDevices
    <2>5. CleanFieldsMatch'
      BY <1>4 DEF FieldsInv, CleanFieldsMatch, FieldsMatch, EntryOf
    <2> QED
      BY <2>3, <2>4, <2>5 DEF FieldsInv
  <1>5. CASE (EndOfFile \/ SkipEmptyInterface \/ Return) /\ UNCHANGED <<bus, sessions>>
    BY <1>4, <1>5 DEF EndOfFile, SkipEmptyInterface, Return
  <1>6. CASE UNCHANGED busVars
    BY <1>4, <1>6 DEF busVars, vars
  <1> QED
    BY <1>2, <1>3, <1>5, <1>6 DEF BusNext, Save

\* On an orderly bus whose storage devices have serial numbers of their own,
\* whatever getUSBsInfo has recorded of a device at any time is what that device
\* told of itself: its two ids, as stringToInt reads them, and its product name.
THEOREM DevicesDescribed ==
  (OrderlyBus /\ OwnSerials) => (BusSpec => []DevicesAreDescribed)
  <1> SUFFICES ASSUME OrderlyBus, OwnSerials
               PROVE  BusSpec => []DevicesAreDescribed
    OBVIOUS
  <1>1. BusInit => FieldsInv
    BY FieldsInit
  <1>2. OrderlyInv /\ ToldInv /\ FieldsInv /\ [BusNext]_busVars => FieldsInv'
    BY FieldsStep
  <1>3. FieldsInv => DevicesAreDescribed
    BY DEF FieldsInv
  <1> QED
    BY <1>1, <1>2, <1>3, OrderlyInvariance, ToldInvariance, PTL DEF BusSpec

-----------------------------------------------------------------------------
(***************************************************************************)
(* Two readings of a log.  Of a device some reader has shown, with a list  *)
(* of connections opened and one of disconnections ended, a reader that    *)
(* goes on has these times at the beginning of its own, or owes the device *)
(* the connection time of its open entry, which is recorded by the         *)
(* device's disconnect line or, at the end, by the saving loop.            *)
(***************************************************************************)
Continues(s, opened, ended) ==
  /\ s \in DOMAIN usbs
  /\ Extends(ConnectionsOf(s), opened)
  /\ Extends(DisconnectionsOf(s), ended)

OwesFor(s, opened, ended, id) ==
  /\ id \in OpenFor(s) /\ IsSaved(interfaces[id])
  /\ opened = Append(ConnectionsOf(s), interfaces[id].connectionTime)
  /\ ended = DisconnectionsOf(s)

Owes(s, opened, ended) == \E id \in DOMAIN interfaces : OwesFor(s, opened, ended, id)

Accounts(s, opened, ended) == Continues(s, opened, ended) \/ Owes(s, opened, ended)

LEMMA ExtendsFurther ==
  ASSUME NEW a \in Seq(Times), NEW b \in Seq(Times), NEW c \in Seq(Times),
         Extends(a, b), Extends(b, c)
  PROVE  Extends(a, c)
  BY DEF Extends

LEMMA ContinuedStep ==
  ASSUME BusInv, [BusNext]_busVars,
         NEW s \in StorageSerials,
         NEW opened \in Seq(Times), NEW ended \in Seq(Times),
         Continues(s, opened, ended)
  PROVE  Continues(s, opened, ended)'
  <1>1. TypeOK /\ KeyIsSerial /\ [Next]_vars
    BY BusTypes, BusNextIsNext DEF BusInv
  <1>2. TypeOK'
    BY <1>1, TypeStep
  <1>3. s \in DOMAIN usbs /\ s \in DOMAIN usbs' /\ KeepsHistory(usbs'[s], usbs[s])
    BY <1>1, HistoryStep DEF Continues
  <1>4. /\ ConnectionsOf(s)' = usbs'[s].connectionTimes
        /\ DisconnectionsOf(s)' = usbs'[s].disconnectionTimes
        /\ ConnectionsOf(s) = usbs[s].connectionTimes
        /\ DisconnectionsOf(s) = usbs[s].disconnectionTimes
    BY <1>3 DEF ConnectionsOf, DisconnectionsOf
  <1>5. usbs[s] \in UsbInfo /\ usbs'[s] \in UsbInfo
    BY <1>1, <1>2, <1>3 DEF TypeOK, UsbInfo, Times, Serials
  <1>6. /\ usbs[s].connectionTimes \in Seq(Times) /\ usbs'[s].connectionTimes \in Seq(Times)
        /\ usbs[s].disconnectionTimes \in Seq(Times)
        /\ usbs'[s].disconnectionTimes \in Seq(Times)
    BY <1>5 DEF UsbInfo
  <1>7. /\ Extends(usbs'[s].connectionTimes, opened)
        /\ Extends(usbs'[s].disconnectionTimes, ended)
    BY <1>3, <1>4, <1>6, ExtendsFurther DEF Continues, KeepsHistory
  <1> QED
    BY <1>3, <1>4, <1>7 DEF Continues

\* A step that leaves an open entry and its device's times as they are.
LEMMA StillOwed ==
  ASSUME NEW s, NEW opened \in Seq(Times), NEW ended \in Seq(Times),
         NEW id, OwesFor(s, opened, ended, id),
         id \in DOMAIN interfaces', ~interfaces'[id].isEmpty,
         interfaces'[id].serialNumber = interfaces[id].serialNumber,
         interfaces'[id].connectionTime = interfaces[id].connectionTime,
         interfaces[id].isStorageDevice => interfaces'[id].isStorageDevice,
         DOMAIN usbs \subseteq DOMAIN usbs',
         ConnectionsOf(s)' = ConnectionsOf(s), DisconnectionsOf(s)' = DisconnectionsOf(s)
  PROVE  Owes(s, opened, ended)'
  <1>1. id \in OpenFor(s)'
    BY DEF OpenFor, OwesFor
  <1>2. IsSaved(interfaces[id])'
    BY DEF IsSaved, OpenFor, OwesFor
  <1>3. OwesFor(s, opened, ended, id)'
    BY <1>1, <1>2 DEF OwesFor
  <1> QED
    BY <1>3 DEF Owes

\* Plugging in and announcing leave the times, and what was told of the device.
LEMMA PlugOwes ==
  ASSUME OrderlyBus, BusInv,
         NEW s, NEW opened \in Seq(Times), NEW ended \in Seq(Times),
         NEW id, OwesFor(s, opened, ended, id), NEW p \in PortPaths, InterfaceId(p) = id,
         bus[p] # FreePort,
         NEW path \in PortPaths, NEW device \in Devices, Plug(path, device)
  PROVE  Owes(s, opened, ended)'
  <1>1. Line("new", path, device) /\ path # p
    BY DEF Plug, Write, OrderlyBus
  <1>2. InterfaceId(path) # id
    BY <1>1 DEF OrderlyBus
  <1>3. KeptElsewhere(path) /\ usbs' = usbs
    BY <1>1, LineKeepsElsewhere DEF Line, CheckIfNewDeviceConnected
  <1>4. id \in DOMAIN interfaces /\ ~interfaces[id].isEmpty
    BY DEF OwesFor, OpenFor
  <1>5. id \in DOMAIN interfaces' /\ interfaces'[id] = interfaces[id]
    BY <1>2, <1>3, <1>4 DEF KeptElsewhere
  <1>6. ConnectionsOf(s)' = ConnectionsOf(s) /\ DisconnectionsOf(s)' = DisconnectionsOf(s)
    BY <1>3, QuietLists
  <1> QED
    BY <1>3, <1>4, <1>5, <1>6, StillOwed

LEMMA AnnounceOwes ==
  ASSUME OrderlyBus, OrderlyInv,
         NEW s, NEW opened \in Seq(Times), NEW ended \in Seq(Times),
         NEW id, OwesFor(s, opened, ended, id),
         NEW p \in PortPaths, InterfaceId(p) = id, IsKnown(p), EntryOf(p) = interfaces[id],
         bus[p].announced >= 4,
         NEW path \in PortPaths, Announce(path)
  PROVE  Owes(s, opened, ended)'
  <1> DEFINE d == bus[path].device
  <1>1. BusInv /\ bus[path] \in PortState /\ d \in Devices /\ bus[path].announced >= 1
    BY BusTypes DEF OrderlyInv, BusInv, Occupied, Begun, Announce
  <1>2. PICK k \in Remaining(path) : Line(Kinds[k], path, d)
    BY DEF Announce, Write, OrderlyBus
  <1>3. k \in 2..5 /\ bus[path].announced < k
    <2>1. bus[path].announced \in 1..5
      BY <1>1 DEF PortState
    <2>2. k \in bus[path].announced + 1..5
      BY <1>2 DEF Remaining
    <2> QED
      BY <2>1, <2>2
  <1>4. KeptElsewhere(path)
    BY <1>2, LineKeepsElsewhere
  <1>5. usbs' = usbs
    <2>1. Kinds[k] # "disconnect"
      BY <1>3 DEF Kinds
    <2> QED
      BY <1>2, <2>1
         DEF Line, IdsFound, ProductNameFound, SerialNumberFound, CheckIfStorageDevice, Amend,
             CheckIfNewDeviceConnected
  <1>6. ConnectionsOf(s)' = ConnectionsOf(s) /\ DisconnectionsOf(s)' = DisconnectionsOf(s)
    BY <1>5, QuietLists
  <1>7. id \in DOMAIN interfaces /\ ~interfaces[id].isEmpty
    BY DEF OwesFor, OpenFor
  <1>8. /\ id \in DOMAIN interfaces'
        /\ ~interfaces'[id].isEmpty
        /\ interfaces'[id].serialNumber = interfaces[id].serialNumber
        /\ interfaces'[id].connectionTime = interfaces[id].connectionTime
        /\ interfaces[id].isStorageDevice => interfaces'[id].isStorageDevice
    <2>1. CASE path # p
      <3>1. InterfaceId(path) # id
        BY <2>1 DEF OrderlyBus
      <3> QED
        BY <1>4, <1>7, <3>1 DEF KeptElsewhere
    <2>2. CASE path = p
      <3>1. k = 5
        <4>1. bus[path].announced \in 4..5
          BY <1>1, <2>2 DEF PortState
        <4> QED
          BY <1>3, <4>1
      <3>2. /\ IsKnown(path)'
            /\ EntryOf(path)'.isEmpty <=> EntryOf(path).isEmpty
            /\ EntryOf(path)'.connectionTime = EntryOf(path).connectionTime
            /\ EntryOf(path)'.isStorageDevice
        BY <1>1, <1>2, <1>3, <2>2, <3>1, AnnouncedFields
      <3>3. EntryOf(path)'.serialNumber = EntryOf(path).serialNumber
        BY <1>1, <1>2, <1>3, <2>2, <3>1, AnnouncedSerial
      <3>4. EntryOf(path)' = interfaces'[id] /\ EntryOf(path) = interfaces[id]
        BY <2>2 DEF EntryOf
      <3>5. id \in DOMAIN interfaces'
        BY <2>2, <3>2 DEF IsKnown
      <3> QED
        BY <1>7, <3>2, <3>3, <3>4, <3>5
    <2> QED
      BY <2>1, <2>2
  <1> QED
    BY <1>5, <1>6, <1>8, StillOwed

\* The disconnect line of the device pays what is owed to it, and that of
\* another one is about another serial number.
LEMMA UnplugOwes ==
  ASSUME OrderlyBus, OwnSerials, OrderlyInv, OneOpen,
         phase = "reading",
         NEW s \in StorageSerials,
         NEW opened \in Seq(Times), NEW ended \in Seq(Times),
         NEW id, OwesFor(s, opened, ended, id),
         NEW p \in PortPaths, InterfaceId(p) = id, EntryOf(p) = interfaces[id],
         bus[p].clean, bus[p].device \in StorageDevices,
         NEW path \in PortPaths, Unplug(path)
  PROVE  Continues(s, opened, ended)' \/ Owes(s, opened, ended)'
  <1>1. BusInv /\ TypeOK /\ s \in StorageSerials
    BY BusTypes DEF OrderlyInv
  <1>2. /\ Line("disconnect", path, bus[path].device)
        /\ bus[path] # FreePort => Announced(path)
    BY DEF Unplug, OrderlyBus
  <1>3. CheckIfDeviceDisconnected(path) /\ KeptElsewhere(path)
    BY <1>2, LineKeepsElsewhere DEF Line
  <1>4. id \in DOMAIN interfaces /\ ~interfaces[id].isEmpty /\ interfaces[id].serialNumber = s
    BY DEF OwesFor, OpenFor
  <1>5. CASE path = p
    <2>1. IsOpenStorage(path) /\ EntryOf(path).serialNumber = s
      <3>1. bus[path] # FreePort
        BY DEF Unplug
      <3>2. bus[path].device.storage
        BY <1>5 DEF StorageDevices
      <3> QED
        BY <1>1, <1>2, <1>4, <1>5, <3>1, <3>2, AnnouncedEntry
    <2>2. /\ s \in DOMAIN usbs' /\ DateOf(pos + 1) \in Times
          /\ ConnectionsOf(s)' = Append(ConnectionsOf(s), EntryOf(path).connectionTime)
          /\ DisconnectionsOf(s)' = Append(DisconnectionsOf(s), DateOf(pos + 1))
          /\ EntryOf(path).connectionTime \in Times
      BY <1>1, <1>3, <2>1, DisconnectLists
    <2>3. /\ opened = ConnectionsOf(s)'
          /\ ended = DisconnectionsOf(s)
      BY <1>5, <2>2 DEF OwesFor
    <2>4. /\ opened \in Seq(Times)
          /\ DisconnectionsOf(s) \in Seq(Times)
      BY <1>1, ListsTyped DEF UsbInfo
    <2>5. /\ Extends(ConnectionsOf(s)', opened)
          /\ Extends(DisconnectionsOf(s)', ended)
      BY <2>2, <2>3, <2>4, ExtendsAppend
    <2> QED
      BY <2>2, <2>5 DEF Continues
  <1>6. CASE path # p
    <2>1. InterfaceId(path) # id
      BY <1>6 DEF OrderlyBus
    <2>2. id \in DOMAIN interfaces' /\ interfaces'[id] = interfaces[id]
      BY <1>3, <1>4, <2>1 DEF KeptElsewhere
    <2>3. /\ DOMAIN usbs \subseteq DOMAIN usbs'
          /\ ConnectionsOf(s)' = ConnectionsOf(s) /\ DisconnectionsOf(s)' = DisconnectionsOf(s)
      <3>1. CASE ~IsOpenStorage(path)
        <4>1. usbs' = usbs
          BY <1>3, <3>1 DEF CheckIfDeviceDisconnected
        <4> QED
          BY <4>1, QuietLists
      <3>2. CASE IsOpenStorage(path)
        <4>1. PICK r : r = EntryOf(path).serialNumber
          OBVIOUS
        <4>2. InterfaceId(path) \in OpenFor(r)
          BY <3>2, <4>1 DEF IsOpenStorage, IsKnown, EntryOf, OpenFor
        <4>3. r # s
          BY <1>1, <2>1, <4>2 DEF OneOpen, OwesFor
        <4>4. ConnectionsOf(s)' = ConnectionsOf(s) /\ DisconnectionsOf(s)' = DisconnectionsOf(s)
          BY <1>1, <1>3, <3>2, <4>1, <4>3, DisconnectLists
        <4>5. DOMAIN usbs \subseteq DOMAIN usbs'
          BY <1>3, <3>2 DEF CheckIfDeviceDisconnected, Put
        <4> QED
          BY <4>4, <4>5
      <3> QED
        BY <3>1, <3>2
    <2> QED
      BY <1>4, <2>2, <2>3, StillOwed
  <1> QED
    BY <1>5, <1>6

\* So does the loop, when it comes to the entry.
LEMMA SavedOwes ==
  ASSUME TypeOK, OneOpen,
         NEW s \in StorageSerials,
         NEW opened \in Seq(Times), NEW ended \in Seq(Times),
         NEW id, OwesFor(s, opened, ended, id), NEW j, Saved(j)
  PROVE  Continues(s, opened, ended)' \/ Owes(s, opened, ended)'
  <1>1. id \in DOMAIN interfaces /\ ~interfaces[id].isEmpty /\ interfaces[id].serialNumber = s
    BY DEF OwesFor, OpenFor
  <1>2. \A r : DisconnectionsOf(r)' = DisconnectionsOf(r)
    BY SavedLists
  <1>3. CASE j = id
    <2>1. /\ ConnectionsOf(s)' = Append(ConnectionsOf(s), interfaces[id].connectionTime)
          /\ DOMAIN usbs' = DOMAIN usbs \cup {s}
      BY <1>1, <1>3, SavedAdds DEF OwesFor
    <2>2. /\ opened = ConnectionsOf(s)'
          /\ ended = DisconnectionsOf(s)'
      BY <1>2, <2>1 DEF OwesFor
    <2>3. /\ opened \in Seq(Times)
        BY DEF UsbInfo
    <2>4. \A c \in Seq(Times) : Extends(c, c)
      BY DEF Extends
    <2> QED
      BY <2>1, <2>2, <2>3, <2>4 DEF Continues
  <1>4. CASE j # id
    <2>1. PICK r : r = interfaces[j].serialNumber
      OBVIOUS
    <2>2. j \in OpenFor(r)
      BY <2>1 DEF Saved, Emptied, OpenFor
    <2>3. r # s
      BY <1>4, <2>2 DEF OneOpen, OwesFor
    <2>4. ConnectionsOf(s)' = ConnectionsOf(s)
      BY <2>1, <2>3, SavedLists
    <2>5. DOMAIN usbs \subseteq DOMAIN usbs'
      BY DEF Saved, SavedUsbs, Put
    <2>6. id \in OpenFor(s)' /\ interfaces'[id] = interfaces[id]
      BY <1>4, SavedEntries DEF OwesFor
    <2>7. id \in DOMAIN interfaces' /\ ~interfaces'[id].isEmpty
      BY <2>6 DEF OpenFor
    <2> QED
      BY <1>2, <2>4, <2>5, <2>6, <2>7, StillOwed
  <1> QED
    BY <1>3, <1>4

\* A line, while something is owed: the entry is that of a port on which the
\* device is, clean and with its serial number told.
LEMMA LineOwes ==
  ASSUME OrderlyBus, OwnSerials, OrderlyInv, ToldInv, OnePlace,
         phase = "reading",
         NEW s \in StorageSerials,
         NEW opened \in Seq(Times), NEW ended \in Seq(Times),
         NEW id, OwesFor(s, opened, ended, id),
         NEW path \in PortPaths, BusLineAt(path)
  PROVE  Continues(s, opened, ended)' \/ Owes(s, opened, ended)'
  <1>1. /\ id \in DOMAIN interfaces /\ ~interfaces[id].isEmpty
        /\ interfaces[id].serialNumber = s /\ s \in StorageSerials
    BY DEF OwesFor, OpenFor
  <1>2. PICK p \in PortPaths : InterfaceId(p) = id /\ IsKnown(p)
    BY <1>1 DEF ToldInv, EntriesOfPorts
  <1>3. EntryOf(p) = interfaces[id]
    BY <1>2 DEF EntryOf
  <1>4. p \in OnBus(s) /\ EntryMatches(p)
    BY <1>1, <1>2, <1>3, OpenAtEnd
  <1>5. /\ bus[p].device \in StorageDevices /\ bus[p].device.serial = s
        /\ bus[p].device \in Devices
    BY <1>4 DEF OnBus, StorageDevices
  <1>6. bus[p] # FreePort /\ bus[p].clean
    <2>1. bus[p] # FreePort /\ p \in bus[p].device.ports
      BY <1>5, DeviceThere
    <2> QED
      BY <1>2, <1>5, <2>1 DEF OrderlyInv, StoragePortsClean, StoragePort
  <1>7. bus[p].announced >= 4
    <2>1. EntryOf(p).serialNumber # NoText
      BY <1>1, <1>3, <1>5 DEF OwnSerials
    <2>2. bus[p].announced \in 0..5
      BY BusTypes DEF OrderlyInv, PortState
    <2> QED
      BY <1>4, <2>1, <2>2 DEF EntryMatches
  <1>8. OneOpen /\ BusInv
    BY OneOpenReading DEF OrderlyInv
  <1>9. ~GiveUp(path)
    BY DEF GiveUp, OrderlyBus
  <1>10. ASSUME NEW device \in Devices, Plug(path, device) PROVE Owes(s, opened, ended)'
    BY <1>2, <1>6, <1>8, <1>10, PlugOwes
  <1>11. ASSUME Announce(path) PROVE Owes(s, opened, ended)'
    BY <1>2, <1>3, <1>7, <1>11, AnnounceOwes
  <1>12. ASSUME Unplug(path) PROVE Continues(s, opened, ended)' \/ Owes(s, opened, ended)'
    BY <1>2, <1>3, <1>5, <1>6, <1>8, <1>12, UnplugOwes
  <1> QED
    BY <1>9, <1>10, <1>11, <1>12 DEF BusLineAt

LEMMA AccountsStep ==
  ASSUME OrderlyBus, OwnSerials, OrderlyInv, ToldInv, OpenInv, [BusNext]_busVars,
         NEW s \in StorageSerials, NEW opened \in Seq(Times), NEW ended \in Seq(Times),
         Accounts(s, opened, ended)
  PROVE  Accounts(s, opened, ended)'
  <1>1. BusInv /\ TypeOK /\ OnePlace
    BY BusTypes DEF OrderlyInv, OpenInv
  <1>2. CASE Continues(s, opened, ended)
    BY <1>1, <1>2, ContinuedStep DEF Accounts
  <1>3. CASE Owes(s, opened, ended)
    <2>1. PICK id : OwesFor(s, opened, ended, id)
      BY <1>3 DEF Owes
    <2>2. ASSUME NEW path \in PortPaths, BusLineAt(path)
          PROVE  Accounts(s, opened, ended)'
      <3>1. phase = "reading"
        BY <2>2, BusLineReads DEF ReadLine
      <3> QED
        BY <1>1, <2>1, <2>2, <3>1, LineOwes DEF Accounts
    <2>3. CASE SaveInterface \/ FollowFreedNode
      <3>1. Saved(cursor) /\ phase # "reading"
        BY <1>1, <2>3, CursorTyped
           DEF SaveInterface, Initialize, FollowFreedNode, AtOpenEntry, Saved, Emptied
      <3>2. PICK j : j = cursor
        OBVIOUS
      <3> QED
        BY <1>1, <2>1, <3>1, <3>2, SavedOwes DEF OpenInv, Accounts
    <2>4. CASE UNCHANGED <<interfaces, usbs>>
      BY <1>3, <2>4
         DEF Accounts, Owes, OwesFor, OpenFor, IsSaved, ConnectionsOf, DisconnectionsOf
    <2> QED
      BY <2>2, <2>3, <2>4
         DEF BusNext, busVars, vars, EndOfFile, Save, SkipEmptyInterface, Return
  <1> QED
    BY <1>2, <1>3 DEF Accounts

-----------------------------------------------------------------------------
(***************************************************************************)
(* What was plugged in at a line of the log stays so to whoever looks back *)
(* at it later.                                                            *)
(***************************************************************************)
SinceRead == \A p \in PortPaths : bus[p].since <= pos

LEMMA SinceInit == BusInit => SinceRead
  BY DEF BusInit, Init, SinceRead, FreePort, NoTime

LEMMA SinceStep ==
  ASSUME OrderlyBus, BusInv, SinceRead, [BusNext]_busVars
  PROVE  SinceRead'
  <1>1. /\ pos \in Int /\ pos >= 0
        /\ \A p \in PortPaths : bus[p] \in PortState /\ bus[p].since \in Int
    <2>1. TypeOK /\ \A p \in PortPaths : bus[p] \in PortState
      BY BusTypes
    <2> QED
      BY <2>1, TimesAreInts DEF PortState, TypeOK, Times
  <1>2. ASSUME NEW path \in PortPaths, BusLineAt(path)
        PROVE  SinceRead'
    <2>1. pos' = pos + 1
      BY <1>2, BusLineReads DEF ReadLine
    <2>2. PICK state : SetPort(path, state) /\ state.since <= pos + 1
      <3>1. ASSUME NEW device \in Devices, Plug(path, device)
            PROVE  \E state : SetPort(path, state) /\ state.since <= pos + 1
        <4> DEFINE new == [device |-> device, announced |-> 1, since |-> pos + 1,
                           clean |-> MatchesNew(path) /\ IsBlank(path)]
        <4>1. SetPort(path, new) /\ new.since <= pos + 1
          BY <1>1, <3>1 DEF Plug, Write, OrderlyBus
        <4> QED
          BY <4>1
      <3>2. ASSUME Announce(path)
            PROVE  \E state : SetPort(path, state) /\ state.since <= pos + 1
        <4>1. PICK k : SetPort(path, [bus[path] EXCEPT !.announced = k])
          BY <3>2 DEF Announce, Write, OrderlyBus
        <4>2. [bus[path] EXCEPT !.announced = k].since = bus[path].since
          BY <1>1 DEF PortState
        <4>3. bus[path].since <= pos + 1
          BY <1>1 DEF SinceRead
        <4> QED
          BY <4>1, <4>2, <4>3
      <3>3. ASSUME Unplug(path) \/ GiveUp(path)
            PROVE  \E state : SetPort(path, state) /\ state.since <= pos + 1
        <4>1. SetPort(path, FreePort) /\ FreePort.since <= pos + 1
          BY <1>1, <3>3 DEF Unplug, GiveUp, OrderlyBus, FreePort, NoTime
        <4> QED
          BY <4>1
      <3> QED
        BY <1>2, <3>1, <3>2, <3>3 DEF BusLineAt
    <2>3. bus'[path] = state /\ \A p \in PortPaths \ {path} : bus'[p] = bus[p]
      BY <2>2 DEF SetPort, OrderlyBus
    <2> QED
      BY <1>1, <2>1, <2>2, <2>3 DEF SinceRead
  <1>3. CASE UNCHANGED <<bus, pos>>
    BY <1>3 DEF SinceRead
  <1> QED
    BY <1>2, <1>3
       DEF BusNext, busVars, vars, EndOfFile, Save, SkipEmptyInterface, SaveInterface,
           FollowFreedNode, Return

LEMMA StaysPlugged ==
  ASSUME OrderlyBus, BusInv, [BusNext]_busVars,
         NEW line \in Int, line <= pos, NEW s, WasPlugged(s, line)
  PROVE  WasPlugged(s, line)'
  <1>1. /\ TypeOK /\ pos \in Int /\ \A p \in PortPaths : bus[p] \in PortState
        /\ sessions \in [Devices -> Seq(Session)]
    BY BusTypes, TimesAreInts DEF TypeOK
  <1>2. CASE UNCHANGED <<bus, sessions>>
    BY <1>2 DEF WasPlugged, OnBus, StorageDevices
  <1>3. ASSUME NEW path \in PortPaths, BusLineAt(path)
        PROVE  WasPlugged(s, line)'
    <2>1. \A p \in PortPaths \ {path} : bus'[p] = bus[p]
      <3>1. PICK state : SetPort(path, state)
        BY <1>3 DEF BusLineAt, Plug, Announce, GiveUp, Unplug, Write
      <3> QED
        BY <3>1 DEF SetPort, OrderlyBus
    <2>2. ~Unplug(path) => UNCHANGED sessions
      BY <1>3 DEF BusLineAt, Plug, Announce, GiveUp
    <2> DEFINE e == bus[path].device
               session == [from |-> bus[path].since, to |-> pos + 1,
                           clean |-> bus[path].clean /\ Announced(path)]
    <2>3. ASSUME Unplug(path)
          PROVE  /\ sessions' = [sessions EXCEPT ![e] = Append(@, session)]
                 /\ e \in Devices /\ session \in Session
      <3>1. sessions' = [sessions EXCEPT ![e] = Append(@, session)]
        BY <2>3 DEF Unplug, OrderlyBus
      <3>2. e \in Devices
        BY <2>3 DEF BusInv, Occupied, Unplug
      <3>3. pos + 1 \in Times
        <4>1. ReadLine
          BY <1>3, BusLineReads
        <4> QED
          BY <1>1, <4>1, ReadLineTyped
      <3>4. Announced(path) \in BOOLEAN
        BY DEF Announced
      <3>5. session \in Session
        BY <1>1, <3>3, <3>4 DEF PortState, Session
      <3> QED
        BY <3>1, <3>2, <3>5
    <2> HIDE DEF session
    <2>4. ASSUME NEW d \in Devices, NEW i \in DOMAIN sessions[d]
          PROVE  i \in DOMAIN sessions'[d] /\ sessions'[d][i] = sessions[d][i]
      <3>1. CASE UNCHANGED sessions
        BY <3>1
      <3>2. CASE Unplug(path)
        <4>1. sessions[d] \in Seq(Session)
          BY <1>1
        <4>2. sessions'[d] = sessions[d] \/ sessions'[d] = Append(sessions[d], session)
          BY <1>1, <2>3, <3>2
        <4>3. session \in Session
          BY <2>3, <3>2
        <4> QED
          BY <4>1, <4>2, <4>3, AppendFacts
      <3> QED
        BY <2>2, <3>1, <3>2
    <2>5. ASSUME NEW d \in StorageDevices, NEW i \in DOMAIN sessions[d], d.serial = s,
                 sessions[d][i].from <= line, line < sessions[d][i].to
          PROVE  WasPlugged(s, line)'
      <3>1. d \in Devices
        BY DEF StorageDevices
      <3>2. i \in DOMAIN sessions'[d] /\ sessions'[d][i] = sessions[d][i]
        BY <2>4, <3>1
      <3> QED
        BY <2>5, <3>2 DEF WasPlugged, StorageDevices
    <2>6. ASSUME NEW p \in OnBus(s), bus[p].since <= line
          PROVE  WasPlugged(s, line)'
      <3>1. p \in PortPaths /\ bus[p].device \in StorageDevices /\ bus[p].device.serial = s
        BY DEF OnBus
      <3>2. ASSUME bus'[p].device = bus[p].device, bus'[p].since = bus[p].since
            PROVE  WasPlugged(s, line)'
        BY <2>6, <3>1, <3>2 DEF WasPlugged, OnBus, StorageDevices
      <3>3. CASE p # path
        BY <2>1, <3>1, <3>2, <3>3
      <3>4. CASE p = path /\ Announce(path)
        <4>1. PICK k : SetPort(path, [bus[path] EXCEPT !.announced = k])
          BY <3>4 DEF Announce, Write, OrderlyBus
        <4>2. bus'[p] = [bus[p] EXCEPT !.announced = k]
          BY <3>1, <3>4, <4>1 DEF SetPort
        <4>3. bus'[p].device = bus[p].device /\ bus'[p].since = bus[p].since
          BY <1>1, <3>1, <4>2 DEF PortState
        <4> QED
          BY <3>2, <4>3
      <3>5. CASE p = path /\ Unplug(path)
        <4>1. sessions[e] \in Seq(Session) /\ session \in Session
          BY <1>1, <2>3, <3>5
        <4>2. sessions'[e] = Append(sessions[e], session)
          BY <1>1, <2>3, <3>5
        <4>3. PICK n : n = Len(sessions[e]) + 1
          OBVIOUS
        <4>4. n \in DOMAIN sessions'[e] /\ sessions'[e][n] = session
          BY <4>1, <4>2, <4>3, AppendFacts
        <4>5. session.from <= line /\ line < session.to
          BY <1>1, <2>6, <3>5 DEF session
        <4>6. e \in StorageDevices /\ e.serial = s
          BY <3>1, <3>5
        <4> HIDE DEF e
        <4> QED
          BY <4>4, <4>5, <4>6 DEF WasPlugged, StorageDevices
      <3>6. ~GiveUp(path)
        BY DEF GiveUp, OrderlyBus
      <3>7. ASSUME NEW device \in Devices, Plug(path, device) PROVE p # path
        <4>1. bus[path].device = NoDevice
          BY <3>7 DEF Plug, FreePort
        <4>2. NoDevice \notin StorageDevices
          BY DeviceAssumption DEF DeviceAssumption, StorageDevices
        <4> QED
          BY <3>1, <4>1, <4>2
      <3> QED
        BY <1>3, <3>3, <3>4, <3>5, <3>6, <3>7 DEF BusLineAt
    <2> QED
      BY <2>5, <2>6 DEF WasPlugged
  <1> QED
    BY <1>2, <1>3 DEF BusNext, busVars, vars

=============================================================================
