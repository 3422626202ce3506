---------------------------- MODULE UsbLogProofs ----------------------------
(***************************************************************************)
(* Theorems about the log parser, for any log, any ports, ids and strings. *)
(***************************************************************************)
EXTENDS UsbLog, TLAPS, WellFoundedInduction

-----------------------------------------------------------------------------
(***************************************************************************)
(* The operators the parser is built from.                                 *)
(***************************************************************************)

\* Replacing or inserting an element keeps a map typed and adds only its key.
LEMMA PutTyped ==
  ASSUME NEW S, NEW D, NEW m, m \in [DOMAIN m -> S], DOMAIN m \subseteq D,
         NEW k \in D, NEW e \in S
  PROVE  /\ Put(m, k, e) \in [DOMAIN Put(m, k, e) -> S]
         /\ DOMAIN Put(m, k, e) = DOMAIN m \cup {k}
         /\ DOMAIN Put(m, k, e) \subseteq D
  BY DEF Put

\* The key getInterfaceIdFromRegex extracts from a line it matched is a digit,
\* a dash and a digit.
LEMMA InterfaceIdTyped ==
  ASSUME NEW path \in PortPaths, MatchesUsb(path)
  PROVE  InterfaceId(path) \in InterfaceIds
  <1>1. /\ path \in Seq(Nat) /\ Len(path) >= 2
        /\ \A i \in DOMAIN path : path[i] \in 1..99
    BY PathAssumption DEF PathAssumption
  <1>2. 1 \in DOMAIN path /\ 2 \in DOMAIN path
    BY <1>1
  <1>3. path[1] \in 1..99 /\ path[2] \in 1..99
    BY <1>1, <1>2
  <1>4. FirstDigit(path[2]) \in 0..9
    BY <1>3 DEF FirstDigit
  <1> QED
    BY <1>3, <1>4 DEF InterfaceId, InterfaceIds, MatchesUsb

\* stringToInt yields an int, be it one nobody wrote.
LEMMA StringToIntTyped ==
  ASSUME NEW raw \in DeviceIds
  PROVE  StringToInt(raw, Garbage) \subseteq Int
  <1> DEFINE h == HexDigits(raw)
  <1>1. raw \in Nat
    BY IdAssumption DEF IdAssumption
  <1>2. h[1] \in Int /\ h[2] \in Int /\ h[3] \in Int /\ h[4] \in Int
    BY <1>1 DEF HexDigits
  <1> HIDE DEF h
  <1>3. \E k \in 0..4 : /\ \A i \in 1..k : h[i] < 10
                        /\ k < 4 => h[k + 1] >= 10
    <2>1. CASE h[1] >= 10
      BY <1>2, <2>1
    <2>2. CASE h[1] < 10 /\ h[2] >= 10
      BY <1>2, <2>2
    <2>3. CASE h[1] < 10 /\ h[2] < 10 /\ h[3] >= 10
      BY <1>2, <2>3
    <2>4. CASE h[1] < 10 /\ h[2] < 10 /\ h[3] < 10 /\ h[4] >= 10
      BY <1>2, <2>4
    <2>5. CASE h[1] < 10 /\ h[2] < 10 /\ h[3] < 10 /\ h[4] < 10
      BY <1>2, <2>5
    <2> QED
      BY <1>2, <2>1, <2>2, <2>3, <2>4, <2>5
  <1>4. DecimalDigits(raw) \in 0..4
    BY <1>3 DEF DecimalDigits, h
  <1>5. CASE DecimalDigits(raw) = 0
    BY <1>5, IdAssumption DEF IdAssumption, StringToInt
  <1>6. CASE DecimalDigits(raw) \in {1, 2, 3, 4}
    BY <1>2, <1>6 DEF StringToInt, h
  <1> QED
    BY <1>4, <1>5, <1>6

\* A date found in the line being read is its position or nothing.
LEMMA DateOfNext ==
  ASSUME pos \in Times, pos < LogLength
  PROVE  /\ pos + 1 \in Times
         /\ DateOf(pos + 1) \in Times
         /\ DateOf(pos + 1) \in {pos + 1, NoTime}
  BY LogAssumption DEF LogAssumption, DateOf, Times, NoTime

\* A set of natural numbers with an element has a least one.
LEMMA LeastElement ==
  ASSUME NEW T, T \subseteq Nat, T # {}
  PROVE  \E x \in T : \A y \in T : x <= y
  <1>1. PICK x \in T : \A y \in T : <<y, x>> \notin OpToRel(<, Nat)
    BY NatLessThanWellFounded, WFMin
  <1>2. \A y \in T : ~(y < x)
    BY <1>1 DEF OpToRel
  <1> QED
    BY <1>2

\* The saving loop's next key is one of the map's, above the present one, or
\* the end; between the two there is no key.
LEMMA NextKeyTyped ==
  ASSUME DOMAIN interfaces \subseteq InterfaceIds, NEW k \in Int, k < End
  PROVE  /\ NextKey(k) \in DOMAIN interfaces \cup {End}
         /\ \A j \in DOMAIN interfaces : j < NextKey(k) => j <= k
  <1> DEFINE above == {j \in DOMAIN interfaces : j > k}
  <1>1. CASE above = {}
    BY <1>1 DEF NextKey, Above, InterfaceIds, End
  <1>2. CASE above # {}
    <2>1. above \subseteq Nat
      BY DEF InterfaceIds
    <2>2. \E j \in above : \A i \in above : j <= i
      BY <1>2, <2>1, LeastElement
    <2>3. NextKey(k) = CHOOSE j \in above : \A i \in above : j <= i
      BY <1>2 DEF NextKey, Above
    <2>4. NextKey(k) \in above /\ \A i \in above : NextKey(k) <= i
      BY <2>2, <2>3
    <2> QED
      BY <2>1, <2>4 DEF InterfaceIds
  <1> QED
    BY <1>1, <1>2

\* The device a session is added to, and what adding to it yields, are usbInfo
\* structures.
LEMMA UsbOfTyped ==
  ASSUME TypeOK, NEW e \in UsbInterface
  PROVE  UsbOf(e) \in UsbInfo
  <1>1. CASE e.serialNumber \in DOMAIN usbs
    BY <1>1 DEF TypeOK, UsbOf, NewUsb
  <1>2. CASE e.serialNumber \notin DOMAIN usbs
    BY <1>2 DEF UsbOf, NewUsb, UsbInterface, UsbInfo
  <1> QED
    BY <1>1, <1>2

LEMMA SessionTyped ==
  ASSUME NEW u \in UsbInfo, NEW t \in Times
  PROVE  Connected(u, t) \in UsbInfo /\ Disconnected(u, t) \in UsbInfo
  <1>1. u.connectionTimes \in Seq(Times) /\ u.disconnectionTimes \in Seq(Times)
    BY DEF UsbInfo
  <1>2. /\ Append(u.connectionTimes, t) \in Seq(Times)
        /\ Append(u.disconnectionTimes, t) \in Seq(Times)
    BY <1>1
  <1>3. Connected(u, t) \in UsbInfo
    BY <1>2 DEF Connected, UsbInfo
  <1>4. Disconnected(u, t) \in UsbInfo
    BY <1>2 DEF Disconnected, UsbInfo
  <1> QED
    BY <1>3, <1>4

LEMMA FillInTyped ==
  ASSUME NEW u \in UsbInfo, NEW e \in UsbInterface
  PROVE  FillIn(u, e) \in UsbInfo
  BY DEF FillIn, UsbInterface, UsbInfo

LEMMA EmptyInterfaceTyped == EmptyInterface \in UsbInterface
  BY LogAssumption DEF LogAssumption, EmptyInterface, UsbInterface, Times, Serials, NoTime

-----------------------------------------------------------------------------
(***************************************************************************)
(* Types.                                                                  *)
(***************************************************************************)

\* What every step on a line does to pos and leaves alone.
LEMMA ReadLineTyped ==
  ASSUME TypeOK, ReadLine
  PROVE  /\ phase' = "reading" /\ phase = "reading"
         /\ pos' = pos + 1 /\ pos' \in Times /\ pos < LogLength
         /\ cursor' = cursor
  BY LogAssumption DEF LogAssumption, TypeOK, ReadLine, Times

\* One entry replaced by a typed one: both maps stay typed.
LEMMA PutInterfaceTyped ==
  ASSUME TypeOK, NEW id \in InterfaceIds, NEW e \in UsbInterface,
         interfaces' = Put(interfaces, id, e)
  PROVE  /\ DOMAIN interfaces' \subseteq InterfaceIds
         /\ interfaces' \in [DOMAIN interfaces' -> UsbInterface]
         /\ DOMAIN interfaces' = DOMAIN interfaces \cup {id}
  <1>1. /\ interfaces \in [DOMAIN interfaces -> UsbInterface]
        /\ DOMAIN interfaces \subseteq InterfaceIds
    BY DEF TypeOK
  <1> DEFINE new == Put(interfaces, id, e)
  <1>2. /\ new \in [DOMAIN new -> UsbInterface]
        /\ DOMAIN new = DOMAIN interfaces \cup {id}
        /\ DOMAIN new \subseteq InterfaceIds
    BY <1>1, PutTyped
  <1> QED
    BY <1>2

LEMMA PutUsbTyped ==
  ASSUME TypeOK, NEW s \in Serials, NEW u \in UsbInfo, usbs' = Put(usbs, s, u)
  PROVE  /\ DOMAIN usbs' \subseteq Serials
         /\ usbs' \in [DOMAIN usbs' -> UsbInfo]
  BY PutTyped DEF TypeOK

\* A line that only amends an entry.
LEMMA AmendTyped ==
  ASSUME TypeOK, ReadLine, NEW path \in PortPaths, NEW e, Amend(path, e),
         IsKnown(path) => e \in UsbInterface
  PROVE  TypeOK'
  <1>1. CASE IsKnown(path)
    <2>1. InterfaceId(path) \in InterfaceIds
      BY <1>1, InterfaceIdTyped DEF IsKnown
    <2>2. interfaces' = Put(interfaces, InterfaceId(path), e)
      BY <1>1 DEF Amend
    <2> QED
      BY <1>1, <2>1, <2>2, PutInterfaceTyped, ReadLineTyped DEF TypeOK, Amend
  <1>2. CASE ~IsKnown(path)
    BY <1>2, ReadLineTyped DEF TypeOK, Amend
  <1> QED
    BY <1>1, <1>2

LEMMA EntryTyped ==
  ASSUME TypeOK, NEW path \in PortPaths, IsKnown(path)
  PROVE  EntryOf(path) \in UsbInterface /\ InterfaceId(path) \in InterfaceIds
  BY InterfaceIdTyped DEF TypeOK, IsKnown, EntryOf

\* One iteration of the saving loop.
LEMMA CursorTyped ==
  ASSUME TypeOK, phase = "saving", cursor # End
  PROVE  /\ cursor \in DOMAIN interfaces /\ cursor \in InterfaceIds
         /\ cursor \in Int /\ cursor < End
         /\ interfaces[cursor] \in UsbInterface
         /\ NextKey(cursor) \in DOMAIN interfaces \cup {End}
         /\ \A j \in DOMAIN interfaces : j < NextKey(cursor) => j <= cursor
  <1>1. /\ cursor \in DOMAIN interfaces /\ cursor \in InterfaceIds
        /\ cursor \in Int /\ cursor < End
        /\ interfaces[cursor] \in UsbInterface
    BY DEF TypeOK, InterfaceIds, End
  <1> QED
    BY <1>1, NextKeyTyped DEF TypeOK

LEMMA SavedUsbsTyped ==
  ASSUME TypeOK, NEW e \in UsbInterface
  PROVE  /\ DOMAIN SavedUsbs(e) \subseteq Serials
         /\ SavedUsbs(e) \in [DOMAIN SavedUsbs(e) -> UsbInfo]
  <1>1. e.serialNumber \in Serials /\ e.connectionTime \in Times
    BY DEF UsbInterface
  <1>2. /\ Connected(UsbOf(e), e.connectionTime) \in UsbInfo
        /\ FillIn(Connected(UsbOf(e), e.connectionTime), e) \in UsbInfo
    BY <1>1, UsbOfTyped, SessionTyped, FillInTyped
  <1>3. usbs \in [DOMAIN usbs -> UsbInfo] /\ DOMAIN usbs \subseteq Serials
    BY DEF TypeOK
  <1>4. \A u \in UsbInfo : /\ DOMAIN Put(usbs, e.serialNumber, u) \subseteq Serials
                           /\ Put(usbs, e.serialNumber, u)
                                \in [DOMAIN Put(usbs, e.serialNumber, u) -> UsbInfo]
    BY <1>1, <1>3, PutTyped
  <1> QED
    BY <1>2, <1>3, <1>4 DEF SavedUsbs, IsSaved

LEMMA SaveTyped ==
  ASSUME TypeOK, Save
  PROVE  TypeOK'
  <1>1. CASE SkipEmptyInterface
    BY <1>1, CursorTyped DEF SkipEmptyInterface, TypeOK
  <1>2. CASE SaveInterface \/ FollowFreedNode
    <2>1. AtOpenEntry /\ usbs' = SavedUsbs(interfaces[cursor])
      BY <1>2 DEF SaveInterface, Initialize, FollowFreedNode
    <2>2. interfaces' = Put(interfaces, cursor, EmptyInterface) /\ pos' = pos
      BY <1>2 DEF SaveInterface, Initialize, FollowFreedNode
    <2>3. /\ DOMAIN interfaces' \subseteq InterfaceIds
          /\ interfaces' \in [DOMAIN interfaces' -> UsbInterface]
          /\ DOMAIN interfaces' = DOMAIN interfaces
      BY <2>1, <2>2, CursorTyped, PutInterfaceTyped, EmptyInterfaceTyped DEF AtOpenEntry
    <2>4. DOMAIN usbs' \subseteq Serials /\ usbs' \in [DOMAIN usbs' -> UsbInfo]
      BY <2>1, CursorTyped, SavedUsbsTyped DEF AtOpenEntry
    <2>5. cursor' \in DOMAIN interfaces \cup {End}
      BY <1>2, <2>1, CursorTyped DEF SaveInterface, Initialize, FollowFreedNode, AtOpenEntry
    <2>6. phase' \in {"saving", "crashed"}
      BY <1>2 DEF SaveInterface, Initialize, FollowFreedNode, AtOpenEntry
    <2> QED
      BY <2>2, <2>3, <2>4, <2>5, <2>6 DEF TypeOK
  <1>3. CASE Return
    BY <1>3 DEF Return, TypeOK
  <1> QED
    BY <1>1, <1>2, <1>3 DEF Save

LEMMA TypeInit == Init => TypeOK
  BY LogAssumption DEF LogAssumption, Init, TypeOK, Times

LEMMA TypeStep ==
  ASSUME TypeOK, [Next]_vars
  PROVE  TypeOK'
  <1>1. ASSUME NEW path \in PortPaths, CheckIfStorageDevice(path)
        PROVE  TypeOK'
    <2>1. IsKnown(path) => [EntryOf(path) EXCEPT !.isStorageDevice = TRUE] \in UsbInterface
      BY EntryTyped DEF UsbInterface
    <2> QED
      BY <1>1, <2>1, AmendTyped DEF CheckIfStorageDevice
  <1>2. ASSUME NEW path \in PortPaths, NEW v \in DeviceIds, NEW p \in DeviceIds,
               IdsFound(path, v, p)
        PROVE  TypeOK'
    <2>1. PICK i \in StringToInt(v, Garbage), j \in StringToInt(p, Garbage) :
            Amend(path, [EntryOf(path) EXCEPT !.idVendor = i, !.idProduct = j])
      BY <1>2 DEF IdsFound
    <2>2. i \in Int /\ j \in Int
      BY StringToIntTyped
    <2>3. IsKnown(path) =>
            [EntryOf(path) EXCEPT !.idVendor = i, !.idProduct = j] \in UsbInterface
      BY <2>2, EntryTyped DEF UsbInterface
    <2> QED
      BY <1>2, <2>1, <2>3, AmendTyped DEF IdsFound
  <1>3. ASSUME NEW path \in PortPaths, NEW s \in SerialNumbers, SerialNumberFound(path, s)
        PROVE  TypeOK'
    <2>1. IsKnown(path) => [EntryOf(path) EXCEPT !.serialNumber = s] \in UsbInterface
      BY EntryTyped DEF UsbInterface, Serials
    <2> QED
      BY <1>3, <2>1, AmendTyped DEF SerialNumberFound
  <1>4. ASSUME NEW path \in PortPaths, NEW n \in ProductNames, ProductNameFound(path, n)
        PROVE  TypeOK'
    <2>1. IsKnown(path) => [EntryOf(path) EXCEPT !.productName = n] \in UsbInterface
      BY EntryTyped DEF UsbInterface
    <2> QED
      BY <1>4, <2>1, AmendTyped DEF ProductNameFound
  <1>5. ASSUME NEW path \in PortPaths, NEW n \in Manufacturers, ManufacturerFound(path, n)
        PROVE  TypeOK'
    <2>1. IsKnown(path) => [EntryOf(path) EXCEPT !.manufacturer = n] \in UsbInterface
      BY EntryTyped DEF UsbInterface
    <2> QED
      BY <1>5, <2>1, AmendTyped DEF ManufacturerFound
  <1>6. ASSUME NEW path \in PortPaths, CheckIfNewDeviceConnected(path)
        PROVE  TypeOK'
    <2> DEFINE entry == IF IsKnown(path) THEN EntryOf(path) ELSE EmptyInterface
               started == [entry EXCEPT !.isEmpty = FALSE,
                                        !.connectionTime = DateOf(pos + 1)]
    <2>1. ReadLine /\ UNCHANGED usbs
      BY <1>6 DEF CheckIfNewDeviceConnected, AnnouncedNow
    <2>2. CASE MatchesNew(path) /\ entry.isEmpty
      <3>1. InterfaceId(path) \in InterfaceIds
        BY <2>2, InterfaceIdTyped DEF MatchesNew
      <3>2. entry \in UsbInterface
        BY EntryTyped, EmptyInterfaceTyped
      <3>3. DateOf(pos + 1) \in Times
        BY <2>1, ReadLineTyped, DateOfNext DEF TypeOK
      <3>4. started \in UsbInterface
        BY <3>2, <3>3 DEF UsbInterface
      <3>5. interfaces' = Put(interfaces, InterfaceId(path), started)
        BY <1>6, <2>2 DEF CheckIfNewDeviceConnected, AnnouncedNow
      <3> QED
        BY <2>1, <3>1, <3>4, <3>5, PutInterfaceTyped, ReadLineTyped DEF TypeOK
    <2>3. CASE ~(MatchesNew(path) /\ entry.isEmpty)
      <3>1. interfaces' = interfaces
        BY <1>6, <2>3 DEF CheckIfNewDeviceConnected, AnnouncedNow
      <3> QED
        BY <2>1, <3>1, ReadLineTyped DEF TypeOK
    <2> QED
      BY <2>2, <2>3
  <1>7. ASSUME NEW path \in PortPaths, CheckIfDeviceDisconnected(path)
        PROVE  TypeOK'
    <2>1. ReadLine
      BY <1>7 DEF CheckIfDeviceDisconnected, GoneNow, Initialize
    <2>2. CASE IsOpenStorage(path)
      <3> DEFINE e == EntryOf(path)
                 u == Disconnected(Connected(UsbOf(e), e.connectionTime), DateOf(pos + 1))
      <3>1. e \in UsbInterface /\ InterfaceId(path) \in InterfaceIds
        BY <2>2, EntryTyped DEF IsOpenStorage
      <3>2. e.serialNumber \in Serials /\ e.connectionTime \in Times
        BY <3>1 DEF UsbInterface
      <3>3. DateOf(pos + 1) \in Times
        BY <2>1, ReadLineTyped, DateOfNext DEF TypeOK
      <3>4. u \in UsbInfo
        BY <3>1, <3>2, <3>3, UsbOfTyped, SessionTyped
      <3>5. /\ usbs' = Put(usbs, e.serialNumber, u)
            /\ interfaces' = Put(interfaces, InterfaceId(path), EmptyInterface)
        BY <1>7, <2>2 DEF CheckIfDeviceDisconnected, GoneNow, Initialize
      <3> HIDE DEF e, u
      <3>6. DOMAIN usbs' \subseteq Serials /\ usbs' \in [DOMAIN usbs' -> UsbInfo]
        BY <3>2, <3>4, <3>5, PutUsbTyped
      <3>7. /\ DOMAIN interfaces' \subseteq InterfaceIds
            /\ interfaces' \in [DOMAIN interfaces' -> UsbInterface]
            /\ DOMAIN interfaces' = DOMAIN interfaces \cup {InterfaceId(path)}
        BY <3>1, <3>5, PutInterfaceTyped, EmptyInterfaceTyped
      <3> QED
        BY <2>1, <3>6, <3>7, ReadLineTyped DEF TypeOK
    <2>3. CASE ~IsOpenStorage(path)
      <3>1. UNCHANGED <<interfaces, usbs>>
        BY <1>7, <2>3 DEF CheckIfDeviceDisconnected, GoneNow, Initialize
      <3> QED
        BY <2>1, <3>1, ReadLineTyped DEF TypeOK
    <2> QED
      BY <2>2, <2>3
  <1>8. CASE OtherLine
    BY <1>8, ReadLineTyped DEF OtherLine, TypeOK
  <1>9. CASE EndOfFile
    <2>1. NextKey(-1) \in DOMAIN interfaces \cup {End}
      BY NextKeyTyped DEF TypeOK, End
    <2> QED
      BY <1>9, <2>1 DEF EndOfFile, TypeOK
  <1>10. CASE Save
    BY <1>10, SaveTyped
  <1>11. CASE UNCHANGED vars
    BY <1>11 DEF vars, TypeOK
  <1> QED
    BY <1>1, <1>2, <1>3, <1>4, <1>5, <1>6, <1>7, <1>8, <1>9, <1>10, <1>11
       DEF Next, AnyLine

\* usb_map and usb_interfaces_map always hold what the C++ types say, and the
\* saving loop's iterator is always on an element or at the end.
THEOREM TypeCorrect == Spec => []TypeOK
  BY TypeInit, TypeStep, PTL DEF Spec

-----------------------------------------------------------------------------
(***************************************************************************)
(* What a step does to the times held in the two maps.  Every step is one  *)
(* of four: it moves no time, it opens an entry, it turns an entry into a  *)
(* session at a disconnect line, or it saves an entry at the end.          *)
(***************************************************************************)
Quiet ==
  /\ pos' \in {pos, pos + 1}
  /\ phase' = "reading" => phase = "reading"
  /\ usbs' = usbs
  /\ DOMAIN interfaces' = DOMAIN interfaces
  /\ \A id \in DOMAIN interfaces :
       /\ interfaces'[id].isEmpty = interfaces[id].isEmpty
       /\ interfaces'[id].connectionTime = interfaces[id].connectionTime

Opened(id) ==
  /\ pos' = pos + 1 /\ phase = "reading"
  /\ usbs' = usbs
  /\ id \in DOMAIN interfaces => interfaces[id].isEmpty
  /\ DOMAIN interfaces' = DOMAIN interfaces \cup {id}
  /\ interfaces'[id].isEmpty = FALSE
  /\ interfaces'[id].connectionTime \in {pos + 1, NoTime}
  /\ \A j \in DOMAIN interfaces \ {id} : interfaces'[j] = interfaces[j]

Emptied(id) ==
  /\ id \in DOMAIN interfaces /\ ~interfaces[id].isEmpty
  /\ interfaces' = Put(interfaces, id, EmptyInterface)

Closed(id) ==
  LET e == interfaces[id]
  IN  /\ pos' = pos + 1 /\ phase = "reading"
      /\ Emptied(id)
      /\ \E t \in {pos + 1, NoTime} :
           usbs' = Put(usbs, e.serialNumber,
                       Disconnected(Connected(UsbOf(e), e.connectionTime), t))

Saved(id) ==
  /\ pos' = pos /\ phase = "saving" /\ phase' # "reading"
  /\ Emptied(id)
  /\ usbs' = SavedUsbs(interfaces[id])

\* An amended entry keeps its connection time and stays as empty as it was.
LEMMA AmendIsQuiet ==
  ASSUME TypeOK, ReadLine, NEW path \in PortPaths, NEW e, Amend(path, e),
         IsKnown(path) => /\ e.isEmpty = EntryOf(path).isEmpty
                          /\ e.connectionTime = EntryOf(path).connectionTime
  PROVE  Quiet
  <1>1. CASE IsKnown(path)
    <2>1. interfaces' = Put(interfaces, InterfaceId(path), e)
      BY <1>1 DEF Amend
    <2>2. InterfaceId(path) \in DOMAIN interfaces
      BY <1>1 DEF IsKnown
    <2>3. DOMAIN interfaces' = DOMAIN interfaces
      BY <2>1, <2>2 DEF Put
    <2>4. \A id \in DOMAIN interfaces :
            interfaces'[id] = IF id = InterfaceId(path) THEN e ELSE interfaces[id]
      BY <2>1 DEF Put
    <2> QED
      BY <1>1, <2>3, <2>4, ReadLineTyped DEF Quiet, Amend, EntryOf
  <1>2. CASE ~IsKnown(path)
    BY <1>2, ReadLineTyped DEF Quiet, Amend
  <1> QED
    BY <1>1, <1>2

LEMMA StepShape ==
  ASSUME TypeOK, [Next]_vars
  PROVE  \/ Quiet
         \/ \E id \in InterfaceIds : Opened(id) \/ Closed(id) \/ Saved(id)
  <1>1. ASSUME NEW path \in PortPaths, CheckIfStorageDevice(path)
        PROVE  Quiet
    <2> DEFINE e == [EntryOf(path) EXCEPT !.isStorageDevice = TRUE]
    <2>1. IsKnown(path) => /\ e.isEmpty = EntryOf(path).isEmpty
                           /\ e.connectionTime = EntryOf(path).connectionTime
      BY EntryTyped DEF UsbInterface
    <2> QED
      BY <1>1, <2>1, AmendIsQuiet DEF CheckIfStorageDevice
  <1>2. ASSUME NEW path \in PortPaths, NEW v \in DeviceIds, NEW p \in DeviceIds,
               IdsFound(path, v, p)
        PROVE  Quiet
    <2>1. PICK i \in StringToInt(v, Garbage), j \in StringToInt(p, Garbage) :
            Amend(path, [EntryOf(path) EXCEPT !.idVendor = i, !.idProduct = j])
      BY <1>2 DEF IdsFound
    <2> DEFINE e == [EntryOf(path) EXCEPT !.idVendor = i, !.idProduct = j]
    <2>2. IsKnown(path) => /\ e.isEmpty = EntryOf(path).isEmpty
                           /\ e.connectionTime = EntryOf(path).connectionTime
      BY EntryTyped DEF UsbInterface
    <2> QED
      BY <1>2, <2>1, <2>2, AmendIsQuiet DEF IdsFound
  <1>3. ASSUME NEW path \in PortPaths, NEW s \in SerialNumbers, SerialNumberFound(path, s)
        PROVE  Quiet
    <2> DEFINE e == [EntryOf(path) EXCEPT !.serialNumber = s]
    <2>1. IsKnown(path) => /\ e.isEmpty = EntryOf(path).isEmpty
                           /\ e.connectionTime = EntryOf(path).connectionTime
      BY EntryTyped DEF UsbInterface
    <2> QED
      BY <1>3, <2>1, AmendIsQuiet DEF SerialNumberFound
  <1>4. ASSUME NEW path \in PortPaths, NEW n \in ProductNames, ProductNameFound(path, n)
        PROVE  Quiet
    <2> DEFINE e == [EntryOf(path) EXCEPT !.productName = n]
    <2>1. IsKnown(path) => /\ e.isEmpty = EntryOf(path).isEmpty
                           /\ e.connectionTime = EntryOf(path).connectionTime
      BY EntryTyped DEF UsbInterface
    <2> QED
      BY <1>4, <2>1, AmendIsQuiet DEF ProductNameFound
  <1>5. ASSUME NEW path \in PortPaths, NEW n \in Manufacturers, ManufacturerFound(path, n)
        PROVE  Quiet
    <2> DEFINE e == [EntryOf(path) EXCEPT !.manufacturer = n]
    <2>1. IsKnown(path) => /\ e.isEmpty = EntryOf(path).isEmpty
                           /\ e.connectionTime = EntryOf(path).connectionTime
      BY EntryTyped DEF UsbInterface
    <2> QED
      BY <1>5, <2>1, AmendIsQuiet DEF ManufacturerFound
  <1>6. ASSUME NEW path \in PortPaths, CheckIfNewDeviceConnected(path)
        PROVE  Quiet \/ \E id \in InterfaceIds : Opened(id)
    <2> DEFINE entry == IF IsKnown(path) THEN EntryOf(path) ELSE EmptyInterface
               started == [entry EXCEPT !.isEmpty = FALSE,
                                        !.connectionTime = DateOf(pos + 1)]
               id == InterfaceId(path)
    <2>1. ReadLine /\ UNCHANGED usbs
      BY <1>6 DEF CheckIfNewDeviceConnected, AnnouncedNow
    <2>2. CASE MatchesNew(path) /\ entry.isEmpty
      <3>1. id \in InterfaceIds /\ MatchesUsb(path)
        BY <2>2, InterfaceIdTyped DEF MatchesNew
      <3>2. entry \in UsbInterface
        BY EntryTyped, EmptyInterfaceTyped
      <3>3. started.isEmpty = FALSE /\ started.connectionTime = DateOf(pos + 1)
        BY <3>2 DEF UsbInterface
      <3>4. DateOf(pos + 1) \in {pos + 1, NoTime}
        BY <2>1, ReadLineTyped, DateOfNext DEF TypeOK
      <3>5. interfaces' = Put(interfaces, id, started)
        BY <1>6, <2>2 DEF CheckIfNewDeviceConnected, AnnouncedNow
      <3>6. id \in DOMAIN interfaces => interfaces[id].isEmpty
        BY <2>2, <3>1 DEF IsKnown, EntryOf
      <3> HIDE DEF started, entry, id
      <3>7. /\ DOMAIN interfaces' = DOMAIN interfaces \cup {id}
            /\ interfaces'[id] = started
            /\ \A j \in DOMAIN interfaces \ {id} : interfaces'[j] = interfaces[j]
        BY <3>5 DEF Put
      <3>8. Opened(id)
        BY <2>1, <3>3, <3>4, <3>6, <3>7, ReadLineTyped DEF Opened
      <3> QED
        BY <3>1, <3>8
    <2>3. CASE ~(MatchesNew(path) /\ entry.isEmpty)
      <3>1. interfaces' = interfaces
        BY <1>6, <2>3 DEF CheckIfNewDeviceConnected, AnnouncedNow
      <3> QED
        BY <2>1, <3>1, ReadLineTyped DEF Quiet
    <2> QED
      BY <2>2, <2>3
  <1>7. ASSUME NEW path \in PortPaths, CheckIfDeviceDisconnected(path)
        PROVE  Quiet \/ \E id \in InterfaceIds : Closed(id)
    <2>1. ReadLine
      BY <1>7 DEF CheckIfDeviceDisconnected, GoneNow, Initialize
    <2>2. CASE IsOpenStorage(path)
      <3> DEFINE id == InterfaceId(path)
                 e == interfaces[id]
      <3>1. /\ usbs' = Put(usbs, e.serialNumber,
                           Disconnected(Connected(UsbOf(e), e.connectionTime), DateOf(pos + 1)))
            /\ interfaces' = Put(interfaces, id, EmptyInterface)
        BY <1>7, <2>2 DEF CheckIfDeviceDisconnected, GoneNow, Initialize, EntryOf
      <3>2. id \in DOMAIN interfaces /\ ~e.isEmpty /\ id \in InterfaceIds
        BY <2>2 DEF IsOpenStorage, IsKnown, EntryOf, TypeOK
      <3>3. DateOf(pos + 1) \in {pos + 1, NoTime}
        BY <2>1, ReadLineTyped, DateOfNext DEF TypeOK
      <3>4. pos' = pos + 1 /\ phase = "reading"
        BY <2>1, ReadLineTyped
      <3> HIDE DEF id
      <3>5. Closed(id)
        BY <3>1, <3>2, <3>3, <3>4 DEF Closed, Emptied
      <3> QED
        BY <3>2, <3>5
    <2>3. CASE ~IsOpenStorage(path)
      <3>1. UNCHANGED <<interfaces, usbs>>
        BY <1>7, <2>3 DEF CheckIfDeviceDisconnected, GoneNow, Initialize
      <3> QED
        BY <2>1, <3>1, ReadLineTyped DEF Quiet
    <2> QED
      BY <2>2, <2>3
  <1>8. CASE OtherLine
    BY <1>8, ReadLineTyped DEF OtherLine, Quiet
  <1>9. CASE EndOfFile \/ SkipEmptyInterface \/ Return \/ UNCHANGED vars
    BY <1>9 DEF EndOfFile, SkipEmptyInterface, Return, vars, Quiet
  <1>10. CASE SaveInterface \/ FollowFreedNode
    <2>1. AtOpenEntry /\ cursor \in InterfaceIds /\ cursor \in DOMAIN interfaces
      BY <1>10, CursorTyped DEF SaveInterface, Initialize, FollowFreedNode, AtOpenEntry
    <2>2. Saved(cursor)
      BY <1>10, <2>1 DEF SaveInterface, Initialize, FollowFreedNode, AtOpenEntry, Saved, Emptied
    <2> QED
      BY <2>1, <2>2
  <1> QED
    BY <1>1, <1>2, <1>3, <1>4, <1>5, <1>6, <1>7, <1>8, <1>9, <1>10
       DEF Next, AnyLine, Save

-----------------------------------------------------------------------------
(***************************************************************************)
(* The two lists of a device, empty for one usb_map does not hold, and     *)
(* what closing or saving an entry appends to them.                        *)
(***************************************************************************)
ConnectionsOf(s) == IF s \in DOMAIN usbs THEN usbs[s].connectionTimes ELSE <<>>
DisconnectionsOf(s) == IF s \in DOMAIN usbs THEN usbs[s].disconnectionTimes ELSE <<>>

LEMMA ListsTyped ==
  ASSUME TypeOK, NEW s
  PROVE  ConnectionsOf(s) \in Seq(Times) /\ DisconnectionsOf(s) \in Seq(Times)
  <1>1. CASE s \in DOMAIN usbs
    BY <1>1 DEF TypeOK, UsbInfo, ConnectionsOf, DisconnectionsOf
  <1>2. CASE s \notin DOMAIN usbs
    BY <1>2 DEF ConnectionsOf, DisconnectionsOf
  <1> QED
    BY <1>1, <1>2

LEMMA UsbOfLists ==
  ASSUME NEW e
  PROVE  /\ UsbOf(e).connectionTimes = ConnectionsOf(e.serialNumber)
         /\ UsbOf(e).disconnectionTimes = DisconnectionsOf(e.serialNumber)
  BY DEF UsbOf, NewUsb, ConnectionsOf, DisconnectionsOf

LEMMA SessionLists ==
  ASSUME NEW u \in UsbInfo, NEW t
  PROVE  /\ Connected(u, t).connectionTimes = Append(u.connectionTimes, t)
         /\ Connected(u, t).disconnectionTimes = u.disconnectionTimes
         /\ Disconnected(u, t).connectionTimes = u.connectionTimes
         /\ Disconnected(u, t).disconnectionTimes = Append(u.disconnectionTimes, t)
  BY DEF Connected, Disconnected, UsbInfo

LEMMA FillInLists ==
  ASSUME NEW u \in UsbInfo, NEW e
  PROVE  /\ FillIn(u, e).connectionTimes = u.connectionTimes
         /\ FillIn(u, e).disconnectionTimes = u.disconnectionTimes
  BY DEF FillIn, UsbInfo

\* Replacing one element of usb_map changes the lists of that device only.
LEMMA PutUsbLists ==
  ASSUME NEW s, NEW u, usbs' = Put(usbs, s, u)
  PROVE  /\ ConnectionsOf(s)' = u.connectionTimes
         /\ DisconnectionsOf(s)' = u.disconnectionTimes
         /\ \A r : r # s => /\ ConnectionsOf(r)' = ConnectionsOf(r)
                            /\ DisconnectionsOf(r)' = DisconnectionsOf(r)
  BY DEF Put, ConnectionsOf, DisconnectionsOf

LEMMA QuietLists ==
  ASSUME usbs' = usbs, NEW r
  PROVE  /\ ConnectionsOf(r)' = ConnectionsOf(r)
         /\ DisconnectionsOf(r)' = DisconnectionsOf(r)
  BY DEF ConnectionsOf, DisconnectionsOf

LEMMA EmptiedEntry ==
  ASSUME TypeOK, NEW id, Emptied(id)
  PROVE  /\ interfaces[id] \in UsbInterface
         /\ interfaces[id].serialNumber \in Serials
         /\ interfaces[id].connectionTime \in Times
         /\ DOMAIN interfaces' = DOMAIN interfaces
         /\ interfaces'[id] = EmptyInterface
         /\ \A j \in DOMAIN interfaces \ {id} : interfaces'[j] = interfaces[j]
  <1>1. interfaces[id] \in UsbInterface
    BY DEF TypeOK, Emptied
  <1>2. /\ interfaces[id].serialNumber \in Serials
        /\ interfaces[id].connectionTime \in Times
    BY <1>1 DEF UsbInterface
  <1> QED
    BY <1>1, <1>2 DEF Emptied, Put

\* A disconnect line appends one time to each list of the entry's device.
LEMMA ClosedLists ==
  ASSUME TypeOK, NEW id, Closed(id), NEW s, s = interfaces[id].serialNumber
  PROVE  /\ ConnectionsOf(s)' = Append(ConnectionsOf(s), interfaces[id].connectionTime)
         /\ \E t \in {pos + 1, NoTime} :
              DisconnectionsOf(s)' = Append(DisconnectionsOf(s), t)
         /\ \A r : r # s => /\ ConnectionsOf(r)' = ConnectionsOf(r)
                            /\ DisconnectionsOf(r)' = DisconnectionsOf(r)
  <1> DEFINE e == interfaces[id]
             u == Connected(UsbOf(e), e.connectionTime)
  <1>1. e \in UsbInterface /\ e.connectionTime \in Times
    BY EmptiedEntry DEF Closed
  <1>2. UsbOf(e) \in UsbInfo
    BY <1>1, UsbOfTyped
  <1>3. u \in UsbInfo
    BY <1>1, <1>2, SessionTyped
  <1>4. /\ u.connectionTimes = Append(ConnectionsOf(s), e.connectionTime)
        /\ u.disconnectionTimes = DisconnectionsOf(s)
    <2>1. /\ UsbOf(e).connectionTimes = ConnectionsOf(s)
          /\ UsbOf(e).disconnectionTimes = DisconnectionsOf(s)
      BY UsbOfLists
    <2> QED
      BY <1>2, <2>1, SessionLists
  <1>5. PICK t \in {pos + 1, NoTime} : usbs' = Put(usbs, s, Disconnected(u, t))
    BY DEF Closed
  <1> HIDE DEF u
  <1> DEFINE w == Disconnected(u, t)
  <1>6. /\ w.connectionTimes = u.connectionTimes
        /\ w.disconnectionTimes = Append(u.disconnectionTimes, t)
    BY <1>3, SessionLists
  <1> HIDE DEF w
  <1>7. usbs' = Put(usbs, s, w)
    BY <1>5 DEF w
  <1>8. /\ ConnectionsOf(s)' = w.connectionTimes
        /\ DisconnectionsOf(s)' = w.disconnectionTimes
        /\ \A r : r # s => /\ ConnectionsOf(r)' = ConnectionsOf(r)
                           /\ DisconnectionsOf(r)' = DisconnectionsOf(r)
    BY <1>7, PutUsbLists
  <1> QED
    BY <1>4, <1>6, <1>8

\* The saving loop appends to the connections, or leaves the lists alone.
LEMMA SavedLists ==
  ASSUME TypeOK, NEW id, Saved(id), NEW s, s = interfaces[id].serialNumber
  PROVE  /\ ConnectionsOf(s)' \in {ConnectionsOf(s),
                                  Append(ConnectionsOf(s), interfaces[id].connectionTime)}
         /\ \A r : DisconnectionsOf(r)' = DisconnectionsOf(r)
         /\ \A r : r # s => ConnectionsOf(r)' = ConnectionsOf(r)
  <1> DEFINE e == interfaces[id]
             u == Connected(UsbOf(e), e.connectionTime)
             f == FillIn(u, e)
  <1>1. e \in UsbInterface /\ e.connectionTime \in Times
    BY EmptiedEntry DEF Saved
  <1>2. UsbOf(e) \in UsbInfo
    BY <1>1, UsbOfTyped
  <1>3. u \in UsbInfo
    BY <1>1, <1>2, SessionTyped
  <1>4. /\ u.connectionTimes = Append(ConnectionsOf(s), e.connectionTime)
        /\ u.disconnectionTimes = DisconnectionsOf(s)
    <2>1. /\ UsbOf(e).connectionTimes = ConnectionsOf(s)
          /\ UsbOf(e).disconnectionTimes = DisconnectionsOf(s)
      BY UsbOfLists
    <2> QED
      BY <1>2, <2>1, SessionLists
  <1> HIDE DEF u
  <1>5. f.connectionTimes = u.connectionTimes /\ f.disconnectionTimes = u.disconnectionTimes
    BY <1>3, FillInLists
  <1>6. usbs' = Put(usbs, s, f) \/ usbs' = Put(usbs, s, u) \/ usbs' = usbs
    BY DEF Saved, SavedUsbs, IsSaved, u
  <1> HIDE DEF f
  <1>7. CASE usbs' = Put(usbs, s, f)
    <2>1. /\ ConnectionsOf(s)' = f.connectionTimes
          /\ DisconnectionsOf(s)' = f.disconnectionTimes
          /\ \A r : r # s => /\ ConnectionsOf(r)' = ConnectionsOf(r)
                             /\ DisconnectionsOf(r)' = DisconnectionsOf(r)
      BY <1>7, PutUsbLists
    <2> QED
      BY <1>4, <1>5, <2>1
  <1>8. CASE usbs' = Put(usbs, s, u)
    <2>1. /\ ConnectionsOf(s)' = u.connectionTimes
          /\ DisconnectionsOf(s)' = u.disconnectionTimes
          /\ \A r : r # s => /\ ConnectionsOf(r)' = ConnectionsOf(r)
                             /\ DisconnectionsOf(r)' = DisconnectionsOf(r)
      BY <1>8, PutUsbLists
    <2> QED
      BY <1>4, <2>1
  <1>9. CASE usbs' = usbs
    BY <1>9, QuietLists
  <1> QED
    BY <1>6, <1>7, <1>8, <1>9

-----------------------------------------------------------------------------
(***************************************************************************)
(* Lists of times.                                                         *)
(***************************************************************************)
UpTo(c, n) == \A i \in DOMAIN c : c[i] <= n

Has(c, x) == \E i \in DOMAIN c : c[i] = x

Once(c) == \A i, j \in DOMAIN c : (Readable(c[i]) /\ c[i] = c[j]) => i = j

Paired(c, d) ==
  /\ Len(d) <= Len(c)
  /\ \A i \in 1..Len(d) : (Readable(c[i]) /\ Readable(d[i])) => c[i] < d[i]

LEMMA TimesAreInts == Times \subseteq Int /\ NoTime \in Times /\ \A t \in Times : t >= 0
  BY LogAssumption DEF LogAssumption, Times, NoTime

LEMMA AppendFacts ==
  ASSUME NEW S, NEW c \in Seq(S), NEW x \in S
  PROVE  /\ Append(c, x) \in Seq(S)
         /\ Len(c) \in Nat /\ DOMAIN c = 1..Len(c)
         /\ \A i \in DOMAIN c : c[i] \in S
         /\ Len(Append(c, x)) = Len(c) + 1
         /\ DOMAIN Append(c, x) = 1..(Len(c) + 1)
         /\ \A i \in 1..Len(c) : Append(c, x)[i] = c[i]
         /\ Append(c, x)[Len(c) + 1] = x
  OBVIOUS

LEMMA UpToLater ==
  ASSUME NEW c \in Seq(Times), NEW n \in Times, NEW m \in Times, n <= m, UpTo(c, n)
  PROVE  UpTo(c, m)
  <1>1. n \in Int /\ m \in Int
    BY TimesAreInts
  <1>2. \A i \in DOMAIN c : c[i] \in Times
    OBVIOUS
  <1>3. \A i \in DOMAIN c : c[i] \in Int
    BY <1>2, TimesAreInts
  <1> QED
    BY <1>1, <1>3 DEF UpTo

LEMMA UpToAppend ==
  ASSUME NEW c \in Seq(Times), NEW n \in Times, UpTo(c, n), NEW x \in Times, x <= n
  PROVE  UpTo(Append(c, x), n)
  BY AppendFacts DEF UpTo

LEMMA NotYetThere ==
  ASSUME NEW c \in Seq(Times), NEW n \in Times, UpTo(c, n)
  PROVE  ~Has(c, n + 1)
  <1>1. \A i \in DOMAIN c : c[i] \in Times
    OBVIOUS
  <1> QED
    BY <1>1, TimesAreInts DEF UpTo, Has

LEMMA HasAppend ==
  ASSUME NEW c \in Seq(Times), NEW x \in Times, NEW y
  PROVE  Has(Append(c, x), y) <=> (Has(c, y) \/ y = x)
  <1> USE AppendFacts DEF Has
  <1>1. ASSUME Has(Append(c, x), y), y # x PROVE Has(c, y)
    BY <1>1
  <1>2. ASSUME Has(c, y) PROVE Has(Append(c, x), y)
    BY <1>2
  <1>3. Has(Append(c, x), x)
    OBVIOUS
  <1> QED
    BY <1>1, <1>2, <1>3

LEMMA OnceAppend ==
  ASSUME NEW c \in Seq(Times), Once(c), NEW x \in Times, Readable(x) => ~Has(c, x)
  PROVE  Once(Append(c, x))
  <1> DEFINE n == Len(c)
             a == Append(c, x)
  <1>1. /\ n \in Nat /\ DOMAIN c = 1..n /\ DOMAIN a = 1..(n + 1)
        /\ \A i \in 1..n : a[i] = c[i]
        /\ a[n + 1] = x
    BY AppendFacts
  <1> HIDE DEF n, a
  <1>2. ASSUME NEW i \in 1..(n + 1), NEW j \in 1..(n + 1), Readable(a[i]), a[i] = a[j]
        PROVE  i = j
    <2>1. CASE i \in 1..n /\ j \in 1..n
      BY <1>1, <1>2, <2>1 DEF Once
    <2>2. CASE i = n + 1 /\ j \in 1..n
      BY <1>1, <1>2, <2>2 DEF Has
    <2>3. CASE j = n + 1 /\ i \in 1..n
      BY <1>1, <1>2, <2>3 DEF Has
    <2> QED
      BY <1>1, <2>1, <2>2, <2>3
  <1> QED
    BY <1>1, <1>2 DEF Once, a

LEMMA PairedAppend ==
  ASSUME NEW c \in Seq(Times), NEW d \in Seq(Times), Paired(c, d), NEW x \in Times
  PROVE  Paired(Append(c, x), d)
  <1>1. Len(d) \in Nat
    OBVIOUS
  <1> QED
    BY <1>1, AppendFacts DEF Paired

LEMMA PairedAppendBoth ==
  ASSUME NEW c \in Seq(Times), NEW d \in Seq(Times), Paired(c, d), Len(d) = Len(c),
         NEW n \in Times, NEW x \in Times, x <= n, NEW t \in Times, t \in {n + 1, NoTime}
  PROVE  Paired(Append(c, x), Append(d, t)) /\ Len(Append(c, x)) = Len(Append(d, t))
  <1> DEFINE k == Len(c)
             a == Append(c, x)
             b == Append(d, t)
  <1>1. /\ k \in Nat /\ Len(a) = k + 1 /\ Len(b) = k + 1
        /\ \A i \in 1..k : a[i] = c[i] /\ b[i] = d[i]
        /\ a[k + 1] = x /\ b[k + 1] = t
    BY AppendFacts
  <1>2. (Readable(x) /\ Readable(t)) => x < t
    BY TimesAreInts DEF Readable
  <1>3. \A i \in 1..k : (Readable(c[i]) /\ Readable(d[i])) => c[i] < d[i]
    BY DEF Paired
  <1> HIDE DEF k, a, b
  <1>4. ASSUME NEW i \in 1..(k + 1), Readable(a[i]), Readable(b[i])
        PROVE  a[i] < b[i]
    <2>1. CASE i \in 1..k
      BY <1>1, <1>3, <1>4, <2>1
    <2>2. CASE i = k + 1
      BY <1>1, <1>2, <1>4, <2>2
    <2> QED
      BY <1>1, <2>1, <2>2
  <1> QED
    BY <1>1, <1>4 DEF Paired, a, b

-----------------------------------------------------------------------------
(***************************************************************************)
(* The inductive invariant, in parts.                                      *)
(***************************************************************************)

\* No time is later than the last line read.
TimesPast ==
  /\ \A id \in DOMAIN interfaces : interfaces[id].connectionTime <= pos
  /\ \A s \in Serials : UpTo(ConnectionsOf(s), pos) /\ UpTo(DisconnectionsOf(s), pos)

\* The lists are of one length until the saving loop starts, which is why the
\* disconnection appended next falls beside its own connection.
ListsPaired ==
  \A s \in Serials :
    /\ Paired(ConnectionsOf(s), DisconnectionsOf(s))
    /\ phase = "reading" => Len(DisconnectionsOf(s)) = Len(ConnectionsOf(s))

\* A connection time is in one place only: in one entry, which is not empty,
\* or once in the list of one device.
EntriesApart ==
  /\ \A a \in DOMAIN interfaces :
       interfaces[a].isEmpty => interfaces[a].connectionTime = NoTime
  /\ \A a, b \in DOMAIN interfaces :
       (/\ Readable(interfaces[a].connectionTime)
        /\ interfaces[a].connectionTime = interfaces[b].connectionTime) => a = b

ConnectionsApart ==
  /\ \A a \in DOMAIN interfaces, s \in Serials :
       Readable(interfaces[a].connectionTime)
         => ~Has(ConnectionsOf(s), interfaces[a].connectionTime)
  /\ \A s \in Serials : Once(ConnectionsOf(s))
  /\ \A s, t \in Serials, x \in Times :
       (Readable(x) /\ Has(ConnectionsOf(s), x) /\ Has(ConnectionsOf(t), x)) => s = t

DisconnectionsApart ==
  /\ \A s \in Serials : Once(DisconnectionsOf(s))
  /\ \A s, t \in Serials, x \in Times :
       (Readable(x) /\ Has(DisconnectionsOf(s), x) /\ Has(DisconnectionsOf(t), x)) => s = t

IInv ==
  /\ TypeOK
  /\ TimesPast
  /\ ListsPaired
  /\ EntriesApart
  /\ ConnectionsApart
  /\ DisconnectionsApart

LEMMA InitInv == Init => IInv
  <1> SUFFICES ASSUME Init PROVE IInv
    OBVIOUS
  <1>1. \A s : ConnectionsOf(s) = <<>> /\ DisconnectionsOf(s) = <<>>
    BY DEF Init, ConnectionsOf, DisconnectionsOf
  <1>2. DOMAIN interfaces = {}
    BY DEF Init
  <1>3. /\ \A n : UpTo(<<>>, n) /\ ~Has(<<>>, n)
        /\ Paired(<<>>, <<>>) /\ Once(<<>>)
    BY DEF UpTo, Has, Paired, Once
  <1> QED
    BY <1>1, <1>2, <1>3, TypeInit
       DEF IInv, TimesPast, ListsPaired, EntriesApart, ConnectionsApart, DisconnectionsApart

\* What is known before each step.
LEMMA InvTypes ==
  ASSUME TypeOK
  PROVE  /\ pos \in Times
         /\ \A id \in DOMAIN interfaces : interfaces[id].connectionTime \in Times
         /\ \A s : ConnectionsOf(s) \in Seq(Times) /\ DisconnectionsOf(s) \in Seq(Times)
  <1>1. \A id \in DOMAIN interfaces : interfaces[id] \in UsbInterface
    BY DEF TypeOK
  <1>2. \A id \in DOMAIN interfaces : interfaces[id].connectionTime \in Times
    BY <1>1 DEF UsbInterface
  <1> QED
    BY <1>2, ListsTyped DEF TypeOK

\* A quiet step.
LEMMA QuietInv ==
  ASSUME IInv, TypeOK', Quiet
  PROVE  IInv'
  <1>1. pos \in Times /\ pos' \in Times /\ pos <= pos'
    BY TimesAreInts DEF IInv, TypeOK, Quiet
  <1>2. \A r : /\ ConnectionsOf(r)' = ConnectionsOf(r)
              /\ DisconnectionsOf(r)' = DisconnectionsOf(r)
    BY QuietLists DEF Quiet
  <1>3. \A s : ConnectionsOf(s) \in Seq(Times) /\ DisconnectionsOf(s) \in Seq(Times)
    BY InvTypes DEF IInv
  <1>4. /\ DOMAIN interfaces' = DOMAIN interfaces
        /\ \A id \in DOMAIN interfaces :
             /\ interfaces'[id].isEmpty = interfaces[id].isEmpty
             /\ interfaces'[id].connectionTime = interfaces[id].connectionTime
    BY DEF Quiet
  <1>5. \A id \in DOMAIN interfaces : interfaces[id].connectionTime \in Int
    BY InvTypes, TimesAreInts DEF IInv
  <1>6. TimesPast'
    <2>1. \A id \in DOMAIN interfaces : interfaces[id].connectionTime <= pos'
      BY <1>1, <1>5, TimesAreInts DEF IInv, TimesPast
    <2>2. \A s \in Serials : UpTo(ConnectionsOf(s), pos') /\ UpTo(DisconnectionsOf(s), pos')
      BY <1>1, <1>3, UpToLater DEF IInv, TimesPast
    <2> QED
      BY <1>2, <1>4, <2>1, <2>2 DEF TimesPast
  <1>7. ListsPaired'
    BY <1>2 DEF IInv, ListsPaired, Quiet
  <1>8. EntriesApart'
    BY <1>4 DEF IInv, EntriesApart
  <1>9. ConnectionsApart'
    BY <1>2, <1>4 DEF IInv, ConnectionsApart
  <1>10. DisconnectionsApart'
    BY <1>2 DEF IInv, DisconnectionsApart
  <1> QED
    BY <1>6, <1>7, <1>8, <1>9, <1>10 DEF IInv

\* An entry is opened: its time is new to everything, being of the line read.
LEMMA OpenedInv ==
  ASSUME IInv, TypeOK', NEW id, Opened(id)
  PROVE  IInv'
  <1> DEFINE x == interfaces'[id].connectionTime
  <1>1. /\ pos \in Times /\ pos' \in Times /\ pos' = pos + 1 /\ pos \in Int
        /\ pos <= pos' /\ pos + 1 # NoTime
    BY TimesAreInts DEF IInv, TypeOK, Opened, NoTime
  <1>2. \A r : /\ ConnectionsOf(r)' = ConnectionsOf(r)
              /\ DisconnectionsOf(r)' = DisconnectionsOf(r)
    BY QuietLists DEF Opened
  <1>3. \A s : ConnectionsOf(s) \in Seq(Times) /\ DisconnectionsOf(s) \in Seq(Times)
    BY InvTypes DEF IInv
  <1>4. /\ DOMAIN interfaces' = DOMAIN interfaces \cup {id}
        /\ interfaces'[id].isEmpty = FALSE
        /\ x \in {pos + 1, NoTime}
        /\ \A j \in DOMAIN interfaces \ {id} : interfaces'[j] = interfaces[j]
    BY DEF Opened
  <1>5. \A j \in DOMAIN interfaces : /\ interfaces[j].connectionTime \in Int
                                     /\ interfaces[j].connectionTime <= pos
    BY InvTypes, TimesAreInts DEF IInv, TimesPast
  <1> HIDE DEF x
  <1>6. \A s \in Serials : ~Has(ConnectionsOf(s), pos + 1)
    BY <1>1, <1>3, NotYetThere DEF IInv, TimesPast
  <1>7. TimesPast'
    <2>1. x <= pos'
      BY <1>1, <1>4, TimesAreInts DEF NoTime
    <2>2. \A j \in DOMAIN interfaces : interfaces[j].connectionTime <= pos'
      BY <1>1, <1>5
    <2>3. \A s \in Serials : UpTo(ConnectionsOf(s), pos') /\ UpTo(DisconnectionsOf(s), pos')
      BY <1>1, <1>3, UpToLater DEF IInv, TimesPast
    <2> QED
      BY <1>2, <1>4, <2>1, <2>2, <2>3 DEF TimesPast, x
  <1>8. ListsPaired'
    BY <1>2 DEF IInv, ListsPaired, Opened
  <1>9. EntriesApart'
    <2>1. \A j \in DOMAIN interfaces : interfaces[j].connectionTime # pos + 1
      BY <1>1, <1>5
    <2>2. ASSUME NEW a \in DOMAIN interfaces', NEW b \in DOMAIN interfaces',
                 Readable(interfaces'[a].connectionTime),
                 interfaces'[a].connectionTime = interfaces'[b].connectionTime
          PROVE  a = b
      <3>1. CASE a # id /\ b # id
        BY <1>4, <2>2, <3>1 DEF IInv, EntriesApart
      <3>2. CASE a = id /\ b # id
        BY <1>4, <2>1, <2>2, <3>2 DEF x, Readable
      <3>3. CASE a # id /\ b = id
        BY <1>4, <2>1, <2>2, <3>3 DEF x, Readable
      <3> QED
        BY <3>1, <3>2, <3>3
    <2>3. \A a \in DOMAIN interfaces' :
            interfaces'[a].isEmpty => interfaces'[a].connectionTime = NoTime
      BY <1>4 DEF IInv, EntriesApart
    <2> QED
      BY <2>2, <2>3 DEF EntriesApart
  <1>10. ConnectionsApart'
    <2>1. \A a \in DOMAIN interfaces', s \in Serials :
            Readable(interfaces'[a].connectionTime)
              => ~Has(ConnectionsOf(s), interfaces'[a].connectionTime)
      BY <1>4, <1>6 DEF x, Readable, IInv, ConnectionsApart
    <2> QED
      BY <1>2, <2>1 DEF IInv, ConnectionsApart
  <1>11. DisconnectionsApart'
    BY <1>2 DEF IInv, DisconnectionsApart
  <1> QED
    BY <1>7, <1>8, <1>9, <1>10, <1>11 DEF IInv

\* What closing and saving an entry have in common: its time moves from the
\* entry to the list of its device, or is dropped.
LEMMA EmptiedEntriesApart ==
  ASSUME IInv, NEW id, Emptied(id)
  PROVE  EntriesApart'
  <1>1. /\ DOMAIN interfaces' = DOMAIN interfaces
        /\ interfaces'[id].connectionTime = NoTime
        /\ \A j \in DOMAIN interfaces \ {id} : interfaces'[j] = interfaces[j]
    BY EmptiedEntry DEF IInv, EmptyInterface
  <1> QED
    BY <1>1 DEF IInv, EntriesApart, Readable

LEMMA EmptiedConnectionsApart ==
  ASSUME IInv, NEW id, Emptied(id), NEW s, s = interfaces[id].serialNumber,
         ConnectionsOf(s)' \in {ConnectionsOf(s),
                                Append(ConnectionsOf(s), interfaces[id].connectionTime)},
         \A r : r # s => ConnectionsOf(r)' = ConnectionsOf(r)
  PROVE  ConnectionsApart'
  <1> DEFINE x == interfaces[id].connectionTime
  <1>1. /\ DOMAIN interfaces' = DOMAIN interfaces
        /\ interfaces'[id].connectionTime = NoTime
        /\ \A j \in DOMAIN interfaces \ {id} : interfaces'[j] = interfaces[j]
        /\ s \in Serials /\ x \in Times /\ id \in DOMAIN interfaces
    <2>1. id \in DOMAIN interfaces
      BY DEF Emptied
    <2>2. s \in Serials /\ x \in Times
      BY EmptiedEntry DEF IInv
    <2> QED
      BY <2>1, <2>2, EmptiedEntry DEF IInv, EmptyInterface
  <1>2. \A r : ConnectionsOf(r) \in Seq(Times)
    BY InvTypes DEF IInv
  <1>3. \A r \in Serials : Readable(x) => ~Has(ConnectionsOf(r), x)
    BY <1>1 DEF IInv, ConnectionsApart
  <1>4. \A j \in DOMAIN interfaces \ {id} :
          Readable(interfaces[j].connectionTime) => interfaces[j].connectionTime # x
    BY <1>1 DEF IInv, EntriesApart
  <1> HIDE DEF x
  <1>5. ConnectionsOf(s)' = ConnectionsOf(s) \/ ConnectionsOf(s)' = Append(ConnectionsOf(s), x)
    BY DEF x
  <1>6. \A y : Has(ConnectionsOf(s)', y) => (Has(ConnectionsOf(s), y) \/ y = x)
    <2>1. \A y : Has(Append(ConnectionsOf(s), x), y) <=> (Has(ConnectionsOf(s), y) \/ y = x)
      BY <1>1, <1>2, HasAppend
    <2> QED
      BY <1>5, <2>1
  <1>7. \A r \in Serials : Once(ConnectionsOf(r)')
    <2>1. Once(ConnectionsOf(s)')
      BY <1>1, <1>2, <1>3, <1>5, OnceAppend DEF IInv, ConnectionsApart
    <2> QED
      BY <2>1 DEF IInv, ConnectionsApart
  <1>8. \A a \in DOMAIN interfaces', r \in Serials :
          Readable(interfaces'[a].connectionTime)
            => ~Has(ConnectionsOf(r)', interfaces'[a].connectionTime)
    BY <1>1, <1>4, <1>6 DEF IInv, ConnectionsApart, Readable
  <1>9. ASSUME NEW r \in Serials, NEW t \in Serials, NEW y \in Times, Readable(y),
               Has(ConnectionsOf(r)', y), Has(ConnectionsOf(t)', y)
        PROVE  r = t
    <2>1. CASE y = x
      BY <1>3, <1>9, <2>1
    <2>2. CASE y # x
      <3>1. Has(ConnectionsOf(r), y) /\ Has(ConnectionsOf(t), y)
        BY <1>6, <1>9, <2>2
      <3> QED
        BY <1>9, <3>1 DEF IInv, ConnectionsApart
    <2> QED
      BY <2>1, <2>2
  <1> QED
    BY <1>7, <1>8, <1>9 DEF ConnectionsApart

LEMMA EmptiedTimes ==
  ASSUME IInv, NEW id, Emptied(id), pos' \in Times, pos <= pos'
  PROVE  \A j \in DOMAIN interfaces' : interfaces'[j].connectionTime <= pos'
  <1>1. /\ DOMAIN interfaces' = DOMAIN interfaces
        /\ interfaces'[id].connectionTime = NoTime
        /\ \A j \in DOMAIN interfaces \ {id} : interfaces'[j] = interfaces[j]
    BY EmptiedEntry DEF IInv, EmptyInterface
  <1>2. \A j \in DOMAIN interfaces : interfaces[j].connectionTime <= pos'
    <2>1. \A j \in DOMAIN interfaces : interfaces[j].connectionTime \in Int
      BY InvTypes, TimesAreInts DEF IInv
    <2>2. pos \in Int /\ pos' \in Int
      BY TimesAreInts DEF IInv, TypeOK
    <2> QED
      BY <2>1, <2>2 DEF IInv, TimesPast
  <1>3. NoTime <= pos'
    BY TimesAreInts DEF NoTime
  <1> QED
    BY <1>1, <1>2, <1>3

\* A disconnect line: both lists of one device grow, and while the file is
\* read they are of one length.
LEMMA ClosedInv ==
  ASSUME IInv, TypeOK', NEW id, Closed(id)
  PROVE  IInv'
  <1> DEFINE x == interfaces[id].connectionTime
  <1>1. PICK s : s = interfaces[id].serialNumber
    OBVIOUS
  <1>2. PICK t \in {pos + 1, NoTime} :
          /\ ConnectionsOf(s)' = Append(ConnectionsOf(s), interfaces[id].connectionTime)
          /\ DisconnectionsOf(s)' = Append(DisconnectionsOf(s), t)
          /\ \A r : r # s => /\ ConnectionsOf(r)' = ConnectionsOf(r)
                             /\ DisconnectionsOf(r)' = DisconnectionsOf(r)
    BY <1>1, ClosedLists DEF IInv
  <1>3. /\ pos \in Times /\ pos' \in Times /\ pos' = pos + 1 /\ pos <= pos'
        /\ phase = "reading" /\ Emptied(id)
    BY TimesAreInts DEF IInv, TypeOK, Closed
  <1>4. \A r : ConnectionsOf(r) \in Seq(Times) /\ DisconnectionsOf(r) \in Seq(Times)
    BY InvTypes DEF IInv
  <1>5. t \in Times /\ t <= pos'
    BY <1>3, TimesAreInts DEF NoTime
  <1>6. id \in DOMAIN interfaces
    BY <1>3 DEF Emptied
  <1>7. x \in Times /\ x <= pos /\ x <= pos'
    <2>1. x \in Times /\ x <= pos
      BY <1>6, InvTypes DEF IInv, TimesPast
    <2>2. x \in Int /\ pos \in Int
      BY <1>3, <2>1, TimesAreInts
    <2> QED
      BY <1>3, <2>1, <2>2
  <1>8. s \in Serials
    BY <1>1, <1>3, EmptiedEntry DEF IInv
  <1> HIDE DEF x
  <1>9. /\ ConnectionsOf(s)' = Append(ConnectionsOf(s), x)
        /\ DisconnectionsOf(s)' = Append(DisconnectionsOf(s), t)
    BY <1>2 DEF x
  <1>10. TimesPast'
    <2>1. \A r \in Serials : UpTo(ConnectionsOf(r), pos') /\ UpTo(DisconnectionsOf(r), pos')
      BY <1>3, <1>4, UpToLater DEF IInv, TimesPast
    <2>2. UpTo(ConnectionsOf(s)', pos') /\ UpTo(DisconnectionsOf(s)', pos')
      BY <1>3, <1>4, <1>5, <1>7, <1>8, <1>9, <2>1, UpToAppend
    <2>3. \A r \in Serials : UpTo(ConnectionsOf(r)', pos') /\ UpTo(DisconnectionsOf(r)', pos')
      BY <1>2, <2>1, <2>2
    <2> QED
      BY <1>3, <2>3, EmptiedTimes DEF TimesPast
  <1>11. ListsPaired'
    <2>1. Paired(ConnectionsOf(s), DisconnectionsOf(s))
          /\ Len(DisconnectionsOf(s)) = Len(ConnectionsOf(s))
      BY <1>3, <1>8 DEF IInv, ListsPaired
    <2>2. /\ Paired(ConnectionsOf(s)', DisconnectionsOf(s)')
          /\ Len(ConnectionsOf(s)') = Len(DisconnectionsOf(s)')
      BY <1>3, <1>4, <1>5, <1>7, <1>9, <2>1, PairedAppendBoth
    <2> QED
      BY <1>2, <1>3, <2>2 DEF IInv, ListsPaired
  <1>12. EntriesApart'
    BY <1>3, EmptiedEntriesApart
  <1>13. ConnectionsApart'
    BY <1>1, <1>2, <1>3, EmptiedConnectionsApart
  <1>14. DisconnectionsApart'
    <2>1. \A r \in Serials : Readable(t) => ~Has(DisconnectionsOf(r), t)
      BY <1>3, <1>4, NotYetThere DEF IInv, TimesPast, Readable
    <2>2. \A y : Has(DisconnectionsOf(s)', y) => (Has(DisconnectionsOf(s), y) \/ y = t)
      BY <1>4, <1>5, <1>9, HasAppend
    <2>3. Once(DisconnectionsOf(s)')
      BY <1>4, <1>5, <1>8, <1>9, <2>1, OnceAppend DEF IInv, DisconnectionsApart
    <2>4. \A r \in Serials : Once(DisconnectionsOf(r)')
      BY <1>2, <2>3 DEF IInv, DisconnectionsApart
    <2>5. ASSUME NEW q \in Serials, NEW r \in Serials, NEW y \in Times, Readable(y),
                 Has(DisconnectionsOf(q)', y), Has(DisconnectionsOf(r)', y)
          PROVE  q = r
      <3>1. CASE y = t
        BY <1>2, <2>1, <2>5, <3>1
      <3>2. CASE y # t
        <4>1. Has(DisconnectionsOf(q), y) /\ Has(DisconnectionsOf(r), y)
          BY <1>2, <2>2, <2>5, <3>2
        <4> QED
          BY <2>5, <4>1 DEF IInv, DisconnectionsApart
      <3> QED
        BY <3>1, <3>2
    <2> QED
      BY <2>4, <2>5 DEF DisconnectionsApart
  <1> QED
    BY <1>10, <1>11, <1>12, <1>13, <1>14 DEF IInv

\* The saving loop: only connections grow, so every disconnection keeps its
\* partner.
LEMMA SavedInv ==
  ASSUME IInv, TypeOK', NEW id, Saved(id)
  PROVE  IInv'
  <1> DEFINE x == interfaces[id].connectionTime
  <1>1. PICK s : s = interfaces[id].serialNumber
    OBVIOUS
  <1>2. /\ ConnectionsOf(s)' \in {ConnectionsOf(s),
                                 Append(ConnectionsOf(s), interfaces[id].connectionTime)}
        /\ \A r : DisconnectionsOf(r)' = DisconnectionsOf(r)
        /\ \A r : r # s => ConnectionsOf(r)' = ConnectionsOf(r)
    BY <1>1, SavedLists DEF IInv
  <1>3. /\ pos \in Times /\ pos' = pos /\ pos <= pos /\ phase' # "reading" /\ Emptied(id)
    BY TimesAreInts DEF IInv, TypeOK, Saved
  <1>4. \A r : ConnectionsOf(r) \in Seq(Times) /\ DisconnectionsOf(r) \in Seq(Times)
    BY InvTypes DEF IInv
  <1>5. x \in Times /\ x <= pos
    BY <1>3, InvTypes DEF IInv, TimesPast, Emptied
  <1>6. s \in Serials
    BY <1>1, <1>3, EmptiedEntry DEF IInv
  <1> HIDE DEF x
  <1>7. ConnectionsOf(s)' = ConnectionsOf(s) \/ ConnectionsOf(s)' = Append(ConnectionsOf(s), x)
    BY <1>2 DEF x
  <1>8. TimesPast'
    <2>1. UpTo(ConnectionsOf(s)', pos)
      BY <1>3, <1>4, <1>5, <1>6, <1>7, UpToAppend DEF IInv, TimesPast
    <2>2. \A r \in Serials : UpTo(ConnectionsOf(r)', pos) /\ UpTo(DisconnectionsOf(r)', pos)
      BY <1>2, <2>1 DEF IInv, TimesPast
    <2> QED
      BY <1>3, <2>2, EmptiedTimes DEF TimesPast
  <1>9. ListsPaired'
    <2>1. Paired(ConnectionsOf(s)', DisconnectionsOf(s))
      BY <1>4, <1>5, <1>6, <1>7, PairedAppend DEF IInv, ListsPaired
    <2> QED
      BY <1>2, <1>3, <2>1 DEF IInv, ListsPaired
  <1>10. EntriesApart'
    BY <1>3, EmptiedEntriesApart
  <1>11. ConnectionsApart'
    BY <1>1, <1>2, <1>3, EmptiedConnectionsApart
  <1>12. DisconnectionsApart'
    BY <1>2 DEF IInv, DisconnectionsApart
  <1> QED
    BY <1>8, <1>9, <1>10, <1>11, <1>12 DEF IInv

LEMMA StepInv ==
  ASSUME IInv, [Next]_vars
  PROVE  IInv'
  <1>1. TypeOK'
    BY TypeStep DEF IInv
  <1>2. Quiet \/ \E id \in InterfaceIds : Opened(id) \/ Closed(id) \/ Saved(id)
    BY StepShape DEF IInv
  <1> QED
    BY <1>1, <1>2, QuietInv, OpenedInv, ClosedInv, SavedInv

LEMMA Invariance == Spec => []IInv
  BY InitInv, StepInv, PTL DEF Spec

\* Every disconnection in the result stands beside a connection of the same
\* device from an earlier line, whatever the log holds: the pairing by index
\* that printHTML relies on is sound.
THEOREM Pairing == Spec => []SessionsAreIntervals
  <1>1. IInv => SessionsAreIntervals
    <2> SUFFICES ASSUME IInv, NEW s \in DOMAIN usbs,
                        NEW i \in DOMAIN usbs[s].disconnectionTimes
                 PROVE  /\ i \in DOMAIN usbs[s].connectionTimes
                        /\ (/\ Readable(usbs[s].connectionTimes[i])
                            /\ Readable(usbs[s].disconnectionTimes[i]))
                             => usbs[s].connectionTimes[i] < usbs[s].disconnectionTimes[i]
      BY DEF SessionsAreIntervals
    <2>1. /\ ConnectionsOf(s) = usbs[s].connectionTimes
          /\ DisconnectionsOf(s) = usbs[s].disconnectionTimes
          /\ s \in Serials
      BY DEF ConnectionsOf, DisconnectionsOf, IInv, TypeOK
    <2>2. /\ usbs[s].connectionTimes \in Seq(Times)
          /\ usbs[s].disconnectionTimes \in Seq(Times)
      BY <2>1, InvTypes DEF IInv
    <2>3. Paired(usbs[s].connectionTimes, usbs[s].disconnectionTimes)
      BY <2>1 DEF IInv, ListsPaired
    <2> QED
      BY <2>2, <2>3 DEF Paired
  <1> QED
    BY <1>1, Invariance, PTL

\* No connect line and no disconnect line is counted twice, even where the
\* saving loop's iterator dangles.
THEOREM CountedOnce == Spec => []NoLineCountedTwice
  <1>1. IInv => NoLineCountedTwice
    <2> SUFFICES ASSUME IInv, NEW s \in DOMAIN usbs, NEW t \in DOMAIN usbs
                 PROVE  /\ \A i \in DOMAIN usbs[s].connectionTimes,
                              j \in DOMAIN usbs[t].connectionTimes :
                             (/\ Readable(usbs[s].connectionTimes[i])
                              /\ usbs[s].connectionTimes[i] = usbs[t].connectionTimes[j])
                             => s = t /\ i = j
                        /\ \A i \in DOMAIN usbs[s].disconnectionTimes,
                              j \in DOMAIN usbs[t].disconnectionTimes :
                             (/\ Readable(usbs[s].disconnectionTimes[i])
                              /\ usbs[s].disconnectionTimes[i] = usbs[t].disconnectionTimes[j])
                             => s = t /\ i = j
      BY DEF NoLineCountedTwice
    <2>1. /\ ConnectionsOf(s) = usbs[s].connectionTimes
          /\ DisconnectionsOf(s) = usbs[s].disconnectionTimes
          /\ ConnectionsOf(t) = usbs[t].connectionTimes
          /\ DisconnectionsOf(t) = usbs[t].disconnectionTimes
          /\ s \in Serials /\ t \in Serials
      BY DEF ConnectionsOf, DisconnectionsOf, IInv, TypeOK
    <2>2. /\ \A i \in DOMAIN ConnectionsOf(s) : ConnectionsOf(s)[i] \in Times
          /\ \A i \in DOMAIN DisconnectionsOf(s) : DisconnectionsOf(s)[i] \in Times
      <3>1. ConnectionsOf(s) \in Seq(Times) /\ DisconnectionsOf(s) \in Seq(Times)
        BY InvTypes DEF IInv
      <3> QED
        BY <3>1
    <2>3. ASSUME NEW i \in DOMAIN ConnectionsOf(s), NEW j \in DOMAIN ConnectionsOf(t),
                 Readable(ConnectionsOf(s)[i]), ConnectionsOf(s)[i] = ConnectionsOf(t)[j]
          PROVE  s = t /\ i = j
      <3>1. /\ Has(ConnectionsOf(s), ConnectionsOf(s)[i])
            /\ Has(ConnectionsOf(t), ConnectionsOf(s)[i])
        BY <2>3 DEF Has
      <3>2. s = t
        BY <2>1, <2>2, <2>3, <3>1 DEF IInv, ConnectionsApart
      <3>3. Once(ConnectionsOf(s))
        BY <2>1 DEF IInv, ConnectionsApart
      <3> QED
        BY <2>3, <3>2, <3>3 DEF Once
    <2>4. ASSUME NEW i \in DOMAIN DisconnectionsOf(s), NEW j \in DOMAIN DisconnectionsOf(t),
                 Readable(DisconnectionsOf(s)[i]), DisconnectionsOf(s)[i] = DisconnectionsOf(t)[j]
          PROVE  s = t /\ i = j
      <3>1. /\ Has(DisconnectionsOf(s), DisconnectionsOf(s)[i])
            /\ Has(DisconnectionsOf(t), DisconnectionsOf(s)[i])
        BY <2>4 DEF Has
      <3>2. s = t
        BY <2>1, <2>2, <2>4, <3>1 DEF IInv, DisconnectionsApart
      <3>3. Once(DisconnectionsOf(s))
        BY <2>1 DEF IInv, DisconnectionsApart
      <3> QED
        BY <2>4, <3>2, <3>3 DEF Once
    <2> QED
      BY <2>1, <2>3, <2>4
  <1> QED
    BY <1>1, Invariance, PTL

-----------------------------------------------------------------------------
(***************************************************************************)
(* The saving loop saves everything, when the allocator gives the node     *)
(* just freed to the next insertion.                                       *)
(***************************************************************************)
SavedUpToCursor ==
  /\ phase = "saving" =>
       \A id \in DOMAIN interfaces : id < cursor => interfaces[id].isEmpty
  /\ AllInterfacesSaved

LEMMA SavedUpToCursorStep ==
  ASSUME NodeReused, TypeOK, SavedUpToCursor, [Next]_vars
  PROVE  SavedUpToCursor'
  <1>1. DOMAIN interfaces \subseteq Int /\ \A id \in DOMAIN interfaces : 0 <= id /\ id < End
    BY DEF TypeOK, InterfaceIds, End
  <1>2. ASSUME phase' = "reading" PROVE SavedUpToCursor'
    BY <1>2 DEF SavedUpToCursor, AllInterfacesSaved
  <1>3. CASE EndOfFile
    <2>1. NextKey(-1) \in DOMAIN interfaces \cup {End}
          /\ \A j \in DOMAIN interfaces : j < NextKey(-1) => j <= -1
      BY NextKeyTyped DEF TypeOK, End
    <2> QED
      BY <1>1, <1>3, <2>1 DEF EndOfFile, SavedUpToCursor, AllInterfacesSaved
  <1>4. CASE SkipEmptyInterface
    <2>1. /\ cursor \in Int
          /\ \A j \in DOMAIN interfaces : j < NextKey(cursor) => j <= cursor
      BY <1>4, CursorTyped DEF SkipEmptyInterface
    <2> QED
      BY <1>1, <1>4, <2>1 DEF SkipEmptyInterface, SavedUpToCursor, AllInterfacesSaved
  <1>5. CASE SaveInterface
    <2>1. /\ cursor \in Int /\ cursor \in DOMAIN interfaces
          /\ \A j \in DOMAIN interfaces : j < NextKey(cursor) => j <= cursor
      BY <1>5, CursorTyped DEF SaveInterface, Initialize, AtOpenEntry
    <2>2. cursor' = NextKey(cursor) /\ phase' = "saving" /\ phase = "saving"
      BY <1>5 DEF SaveInterface, Initialize, AtOpenEntry
    <2>3. /\ DOMAIN interfaces' = DOMAIN interfaces
          /\ interfaces'[cursor].isEmpty
          /\ \A j \in DOMAIN interfaces \ {cursor} : interfaces'[j] = interfaces[j]
      BY <1>5, <2>1 DEF SaveInterface, Initialize, Put, EmptyInterface
    <2> QED
      BY <1>1, <2>1, <2>2, <2>3 DEF SavedUpToCursor, AllInterfacesSaved
  <1>6. CASE FollowFreedNode
    BY <1>6 DEF FollowFreedNode
  <1>7. CASE Return
    BY <1>1, <1>7 DEF Return, SavedUpToCursor, AllInterfacesSaved
  <1>8. CASE UNCHANGED vars
    BY <1>8 DEF vars, SavedUpToCursor, AllInterfacesSaved
  <1>9. ASSUME ReadLine PROVE SavedUpToCursor'
    BY <1>2, <1>9, ReadLineTyped
  <1> QED
    BY <1>3, <1>4, <1>5, <1>6, <1>7, <1>8, <1>9
       DEF Next, AnyLine, Save, CheckIfStorageDevice, IdsFound, SerialNumberFound,
           ProductNameFound, ManufacturerFound, CheckIfNewDeviceConnected,
           CheckIfDeviceDisconnected, OtherLine

\* When getUSBsInfo returns every entry was visited and emptied, under the one
\* assumption the code makes without knowing: that erasing the node under the
\* iterator and inserting its key again leaves the iterator on the new node.
THEOREM EverythingSaved == NodeReused => (Spec => []AllInterfacesSaved)
  <1> SUFFICES ASSUME NodeReused PROVE Spec => []AllInterfacesSaved
    OBVIOUS
  <1>1. Init => SavedUpToCursor
    BY DEF Init, SavedUpToCursor, AllInterfacesSaved
  <1>2. TypeOK /\ SavedUpToCursor /\ [Next]_vars => SavedUpToCursor'
    BY SavedUpToCursorStep
  <1>3. SavedUpToCursor => AllInterfacesSaved
    BY DEF SavedUpToCursor
  <1> QED
    BY <1>1, <1>2, <1>3, TypeCorrect, PTL DEF Spec

-----------------------------------------------------------------------------
(***************************************************************************)
(* Open sessions are recorded.                                             *)
(***************************************************************************)
LEMMA LastAppended ==
  ASSUME NEW c \in Seq(Times), NEW x \in Times
  PROVE  Append(c, x) # <<>> /\ Append(c, x)[Len(Append(c, x))] = x
  BY AppendFacts

\* The line that empties a storage device's entry, or the saving loop, leaves
\* the entry's connection time at the end of its device's list.
THEOREM SessionsRecorded == Spec => OpenSessionsAreRecorded
  <1> DEFINE Recorded(id) ==
        LET e == interfaces[id]
        IN  (~e.isEmpty /\ e.isStorageDevice /\ interfaces'[id].isEmpty)
            => /\ e.serialNumber \in DOMAIN usbs'
               /\ LET times == usbs'[e.serialNumber].connectionTimes
                  IN  times # <<>> /\ times[Len(times)] = e.connectionTime
  <1>1. ASSUME TypeOK, [Next]_vars, NEW id \in DOMAIN interfaces
        PROVE  Recorded(id)
    <2> DEFINE e == interfaces[id]
               u == Connected(UsbOf(e), e.connectionTime)
               AddedTo(w) == /\ usbs' = Put(usbs, e.serialNumber, w)
                             /\ w.connectionTimes = u.connectionTimes
    <2>1. /\ e \in UsbInterface /\ e.connectionTime \in Times /\ e.serialNumber \in Serials
      BY <1>1 DEF TypeOK, UsbInterface
    <2>2. UsbOf(e) \in UsbInfo /\ UsbOf(e).connectionTimes \in Seq(Times)
      BY <1>1, <2>1, UsbOfTyped DEF UsbInfo
    <2>3. u \in UsbInfo
      BY <2>1, <2>2, SessionTyped
    <2>4. u.connectionTimes = Append(UsbOf(e).connectionTimes, e.connectionTime)
      BY <2>2, SessionLists
    <2>5. /\ u.connectionTimes # <<>>
          /\ u.connectionTimes[Len(u.connectionTimes)] = e.connectionTime
      BY <2>1, <2>2, <2>4, LastAppended
    <2> HIDE DEF u
    <2>6. ASSUME NEW w, AddedTo(w) PROVE Recorded(id)
      <3>1. /\ e.serialNumber \in DOMAIN usbs'
            /\ usbs'[e.serialNumber].connectionTimes = u.connectionTimes
        BY <2>6 DEF Put
      <3> QED
        BY <2>5, <3>1
    <2>7. CASE Quiet
      BY <2>7 DEF Quiet
    <2>8. ASSUME NEW k \in InterfaceIds, Opened(k) PROVE Recorded(id)
      BY <1>1, <2>8 DEF Opened
    <2>9. ASSUME NEW k \in InterfaceIds, Closed(k) \/ Saved(k), k # id PROVE Recorded(id)
      <3>1. Emptied(k)
        BY <2>9 DEF Closed, Saved
      <3>2. interfaces'[id] = interfaces[id]
        BY <1>1, <2>9, <3>1 DEF Emptied, Put
      <3> QED
        BY <3>2
    <2>10. CASE Closed(id)
      <3>1. PICK t \in {pos + 1, NoTime} : usbs' = Put(usbs, e.serialNumber, Disconnected(u, t))
        BY <2>10 DEF Closed, u
      <3>2. Disconnected(u, t).connectionTimes = u.connectionTimes
        BY <2>3, SessionLists
      <3> QED
        BY <2>6, <3>1, <3>2
    <2>11. CASE Saved(id)
      <3>1. FillIn(u, e).connectionTimes = u.connectionTimes
        BY <2>3, FillInLists
      <3>2. e.isStorageDevice => \/ usbs' = Put(usbs, e.serialNumber, FillIn(u, e))
                                \/ usbs' = Put(usbs, e.serialNumber, u)
        BY <2>11 DEF Saved, SavedUsbs, IsSaved, u
      <3> QED
        BY <2>6, <3>1, <3>2
    <2> QED
      BY <1>1, <2>7, <2>8, <2>9, <2>10, <2>11, StepShape
  <1>2. TypeOK /\ [Next]_vars => [\A id \in DOMAIN interfaces : Recorded(id)]_vars
    BY <1>1
  <1> QED
    BY <1>2, TypeCorrect, PTL DEF Spec, OpenSessionsAreRecorded

-----------------------------------------------------------------------------
(***************************************************************************)
(* A device's history is kept.                                             *)
(***************************************************************************)
KeyIsSerial == \A s \in DOMAIN usbs : usbs[s].serialNumber = s

LEMMA ExtendsAppend ==
  ASSUME NEW c \in Seq(Times), NEW x \in Times
  PROVE  Extends(c, c) /\ Extends(Append(c, x), c)
  BY AppendFacts DEF Extends

LEMMA SessionKeepsHistory ==
  ASSUME NEW v \in UsbInfo, NEW u \in UsbInfo, KeepsHistory(v, u), NEW x \in Times
  PROVE  KeepsHistory(Connected(v, x), u) /\ KeepsHistory(Disconnected(v, x), u)
  <1>1. /\ v.connectionTimes \in Seq(Times) /\ v.disconnectionTimes \in Seq(Times)
        /\ u.connectionTimes \in Seq(Times) /\ u.disconnectionTimes \in Seq(Times)
    BY DEF UsbInfo
  <1>2. \A c, d \in Seq(Times) : Extends(c, d) => Extends(Append(c, x), d)
    BY AppendFacts DEF Extends
  <1>3. /\ Connected(v, x).idVendor = v.idVendor /\ Disconnected(v, x).idVendor = v.idVendor
        /\ Connected(v, x).idProduct = v.idProduct /\ Disconnected(v, x).idProduct = v.idProduct
        /\ Connected(v, x).productName = v.productName
        /\ Disconnected(v, x).productName = v.productName
        /\ Connected(v, x).manufacturer = v.manufacturer
        /\ Disconnected(v, x).manufacturer = v.manufacturer
        /\ Connected(v, x).serialNumber = v.serialNumber
        /\ Disconnected(v, x).serialNumber = v.serialNumber
    BY DEF Connected, Disconnected, UsbInfo
  <1> QED
    BY <1>1, <1>2, <1>3, SessionLists DEF KeepsHistory

LEMMA FillInKeepsHistory ==
  ASSUME NEW v \in UsbInfo, NEW u \in UsbInfo, KeepsHistory(v, u),
         NEW e \in UsbInterface, e.serialNumber = u.serialNumber
  PROVE  KeepsHistory(FillIn(v, e), u)
  <1>1. /\ v.idVendor # 0 => FillIn(v, e).idVendor = v.idVendor
        /\ v.idProduct # 0 => FillIn(v, e).idProduct = v.idProduct
        /\ v.productName # NoText => FillIn(v, e).productName = v.productName
        /\ v.manufacturer # NoText => FillIn(v, e).manufacturer = v.manufacturer
        /\ FillIn(v, e).serialNumber \in {v.serialNumber, e.serialNumber}
    BY DEF FillIn, UsbInfo
  <1> QED
    BY <1>1, FillInLists DEF KeepsHistory

LEMMA SerialKept ==
  ASSUME NEW v \in UsbInfo, NEW x, NEW e \in UsbInterface, e.serialNumber = v.serialNumber
  PROVE  /\ Connected(v, x).serialNumber = v.serialNumber
         /\ Disconnected(v, x).serialNumber = v.serialNumber
         /\ FillIn(v, e).serialNumber = v.serialNumber
  BY DEF Connected, Disconnected, FillIn, UsbInfo

\* The one way usb_map changes: an element of its key that keeps the history
\* of the element it replaces.
LEMMA UsbsStep ==
  ASSUME TypeOK, KeyIsSerial, [Next]_vars
  PROVE  \/ usbs' = usbs
         \/ \E s, w : /\ usbs' = Put(usbs, s, w)
                      /\ w.serialNumber = s
                      /\ s \in DOMAIN usbs => KeepsHistory(w, usbs[s])
  <1>1. ASSUME NEW id \in InterfaceIds, Closed(id) \/ Saved(id)
        PROVE  \/ usbs' = usbs
               \/ \E s, w : /\ usbs' = Put(usbs, s, w)
                            /\ w.serialNumber = s
                            /\ s \in DOMAIN usbs => KeepsHistory(w, usbs[s])
    <2> DEFINE e == interfaces[id]
               s == e.serialNumber
               b == UsbOf(e)
               u == Connected(b, e.connectionTime)
               Good(w) == w.serialNumber = s /\ (s \in DOMAIN usbs => KeepsHistory(w, usbs[s]))
    <2>1. e \in UsbInterface /\ e.connectionTime \in Times
      BY <1>1, EmptiedEntry DEF Closed, Saved
    <2>2. b \in UsbInfo /\ b.serialNumber = s
      BY <2>1, UsbOfTyped DEF UsbOf, NewUsb, KeyIsSerial
    <2>3. s \in DOMAIN usbs => /\ usbs[s] \in UsbInfo /\ usbs[s].serialNumber = s
                              /\ KeepsHistory(b, usbs[s])
      <3>1. s \in DOMAIN usbs => b = usbs[s]
        BY DEF UsbOf, NewUsb
      <3>2. b.connectionTimes \in Seq(Times) /\ b.disconnectionTimes \in Seq(Times)
        BY <2>2 DEF UsbInfo
      <3>3. KeepsHistory(b, b)
        BY <3>2, ExtendsAppend, TimesAreInts DEF KeepsHistory
      <3> QED
        BY <2>2, <3>1, <3>3
    <2>4. u \in UsbInfo
      BY <2>1, <2>2, SessionTyped
    <2> HIDE DEF b
    <2>5. Good(u)
      BY <2>1, <2>2, <2>3, SerialKept, SessionKeepsHistory
    <2> HIDE DEF u
    <2>6. Good(FillIn(u, e))
      BY <2>1, <2>3, <2>4, <2>5, SerialKept, FillInKeepsHistory
    <2>7. CASE Closed(id)
      <3>1. PICK t \in {pos + 1, NoTime} : usbs' = Put(usbs, s, Disconnected(u, t))
        BY <2>7 DEF Closed, u, b
      <3>2. t \in Times
        <4>1. phase = "reading" /\ pos' = pos + 1
          BY <2>7 DEF Closed
        <4>2. TypeOK'
          BY TypeStep
        <4> QED
          BY <4>1, <4>2, TimesAreInts DEF TypeOK
      <3>3. Good(Disconnected(u, t))
        BY <2>1, <2>3, <2>4, <2>5, <3>2, SerialKept, SessionKeepsHistory
      <3> QED
        BY <3>1, <3>3
    <2>8. CASE Saved(id)
      <3>1. usbs' = Put(usbs, s, FillIn(u, e)) \/ usbs' = Put(usbs, s, u) \/ usbs' = usbs
        BY <2>8 DEF Saved, SavedUsbs, IsSaved, u, b
      <3> QED
        BY <2>5, <2>6, <3>1
    <2> QED
      BY <1>1, <2>7, <2>8
  <1>2. CASE Quiet
    BY <1>2 DEF Quiet
  <1>3. ASSUME NEW id \in InterfaceIds, Opened(id) PROVE usbs' = usbs
    BY <1>3 DEF Opened
  <1> QED
    BY <1>1, <1>2, <1>3, StepShape

LEMMA KeyIsSerialStep ==
  ASSUME TypeOK, KeyIsSerial, [Next]_vars
  PROVE  KeyIsSerial'
  <1>1. CASE usbs' = usbs
    BY <1>1 DEF KeyIsSerial
  <1>2. ASSUME NEW s, NEW w, usbs' = Put(usbs, s, w), w.serialNumber = s
        PROVE  KeyIsSerial'
    BY <1>2 DEF KeyIsSerial, Put
  <1> QED
    BY <1>1, <1>2, UsbsStep

LEMMA HistoryStep ==
  ASSUME TypeOK, KeyIsSerial, [Next]_vars, NEW s \in DOMAIN usbs
  PROVE  s \in DOMAIN usbs' /\ KeepsHistory(usbs'[s], usbs[s])
  <1>1. KeepsHistory(usbs[s], usbs[s])
    <2>1. usbs[s].connectionTimes \in Seq(Times) /\ usbs[s].disconnectionTimes \in Seq(Times)
      BY DEF TypeOK, UsbInfo
    <2> QED
      BY <2>1, ExtendsAppend, TimesAreInts DEF KeepsHistory
  <1>2. ASSUME NEW t, NEW w, usbs' = Put(usbs, t, w),
               t \in DOMAIN usbs => KeepsHistory(w, usbs[t])
        PROVE  s \in DOMAIN usbs' /\ KeepsHistory(usbs'[s], usbs[s])
    <2>1. s \in DOMAIN usbs' /\ usbs'[s] = IF s = t THEN w ELSE usbs[s]
      BY <1>2 DEF Put
    <2> QED
      BY <1>1, <1>2, <2>1
  <1> QED
    BY <1>1, <1>2, UsbsStep

\* No device is dropped from usb_map, no time is removed or moved in its
\* lists, and no field once set is overwritten.
THEOREM History == Spec => HistoryKept
  <1>1. Init => KeyIsSerial
    BY DEF Init, KeyIsSerial
  <1>2. TypeOK /\ KeyIsSerial /\ [Next]_vars => KeyIsSerial'
    BY KeyIsSerialStep
  <1>3. TypeOK /\ KeyIsSerial /\ [Next]_vars =>
          [\A s \in DOMAIN usbs : s \in DOMAIN usbs' /\ KeepsHistory(usbs'[s], usbs[s])]_vars
    BY HistoryStep
  <1> QED
    BY <1>1, <1>2, <1>3, TypeCorrect, PTL DEF Spec, HistoryKept

=============================================================================
