---------------------------- MODULE HardDiskProofs ----------------------------
(***************************************************************************)
(* Proofs about HardDisk, for any names, drives, limits and number of      *)
(* events.                                                                 *)
(***************************************************************************)
EXTENDS HardDisk, FiniteSetTheorems, TLAPS

Reading == {"identity", "identify", "blocks", "bytes", "sectsize", "fallback"}
Measuring == {"blocks", "bytes", "sectsize", "fallback"}

-----------------------------------------------------------------------------
\* What the locals of getInfoFromDisk hold between its calls: nothing outside
\* of it; then the drive that answered, which is the one behind the descriptor
\* as long as that is there.
LocalsOK ==
  /\ step \notin Reading => file = NoDrive
  /\ step \notin Measuring => info = EmptyInfo
  /\ step \in Measuring => /\ ~info.isEmpty /\ info.size = 0
                           /\ info.drive \in Drives /\ file \in {NoDrive, info.drive}
  /\ step = "fallback" => sectsize = 0 \/ sectsize = info.drive.sector
  /\ (step \in {"sectsize", "fallback"} /\ bytesIoctl) => file = NoDrive
  /\ step \in Reading \cup {"readdir"} => open > 0

\* An element of disks_map says nothing, or of which drive it speaks, and then
\* its size is true.
EntryOK(e) ==
  /\ e \in Info
  /\ e.isEmpty <=> e.drive = NoDrive
  /\ e.isEmpty => e.size = 0
  /\ (e.size # 0 /\ IsMeasurable(e.drive)) => e.size = 512 * e.drive.blocks

EntriesOK == \A p \in 1..2 : \A d \in DOMAIN maps[p] : EntryOK(maps[p][d])

TypeInv == TypeOK /\ LocalsOK /\ EntriesOK

LEMMA EmptyInfoOK == EmptyInfo \in Info /\ EmptyInfo.drive = NoDrive /\ EmptyInfo.isEmpty
                       /\ EmptyInfo.size = 0
  BY DEF EmptyInfo, Info

\* What insertion into disks_map changes.
LEMMA InsertInto ==
  ASSUME TypeOK, NEW d, NEW e, Insert(d, e)
  PROVE  /\ DOMAIN maps' = 1..2
         /\ \A p \in 1..2 : p # pass => maps'[p] = maps[p]
         /\ maps'[pass] = [c \in DOMAIN maps[pass] \cup {d} |->
                             IF c = d THEN e ELSE maps[pass][c]]
  BY DEF Insert, TypeOK

LEMMA InsertTyped ==
  ASSUME TypeOK, EntriesOK, NEW d, NEW e, EntryOK(e), Insert(d, e)
  PROVE  /\ DOMAIN maps' = 1..2
         /\ \A p \in 1..2 : maps'[p] \in [DOMAIN maps'[p] -> Info]
         /\ \A p \in 1..2 : \A c \in DOMAIN maps'[p] : EntryOK(maps'[p][c])
  <1>1. /\ DOMAIN maps' = 1..2
        /\ \A p \in 1..2 : p # pass => maps'[p] = maps[p]
        /\ maps'[pass] = [c \in DOMAIN maps[pass] \cup {d} |->
                            IF c = d THEN e ELSE maps[pass][c]]
    BY InsertInto
  <1>2. /\ pass \in 1..2
        /\ \A p \in 1..2 : maps[p] \in [DOMAIN maps[p] -> Info]
    BY DEF TypeOK
  <1>3. ASSUME NEW p \in 1..2
        PROVE  /\ maps'[p] \in [DOMAIN maps'[p] -> Info]
               /\ \A c \in DOMAIN maps'[p] : EntryOK(maps'[p][c])
    <2>1. CASE p = pass
      BY <1>1, <1>2, <2>1 DEF EntriesOK, EntryOK
    <2>2. CASE p # pass
      BY <1>1, <1>2, <2>2 DEF EntriesOK
    <2> QED
      BY <2>1, <2>2
  <1> QED
    BY <1>1, <1>3

\* EntryOK speaks of bytesIoctl, which never changes.
LEMMA SameKernel ==
  ASSUME Next
  PROVE  bytesIoctl' = bytesIoctl
  BY DEF Next, Program, Hotplug, OpenDir, CloseDir, EndOfPass, OpenLog, OpenHtml,
         ReadDir, Open, GetInfoFromDisk, GetIdentity, IdentifyNvme, GetBlocks,
         GetBytes, GetSectorSize, GetSizeFallback, During, Unplug, Plug, Change, kernel

LEMMA EntriesStay ==
  ASSUME EntriesOK, UNCHANGED <<maps, bytesIoctl>>
  PROVE  EntriesOK'
  BY DEF EntriesOK, EntryOK, IsMeasurable

-----------------------------------------------------------------------------
\* Initially.
LEMMA InitTyped == Init => TypeInv
  <1> SUFFICES ASSUME Init
               PROVE  TypeInv
    OBVIOUS
  <1>1. TypeOK
    <2>1. DOMAIN maps = 1..2 /\ \A p \in 1..2 : maps[p] \in [DOMAIN maps[p] -> Info]
      BY DEF Init
    <2>2. bytesIoctl \in BOOLEAN /\ events \in 0..MaxEvents /\ open \in 0..FileLimit
      BY KernelAssumption DEF Init, KernelAssumption
    <2>3. attached \in [Disks -> Drives \cup {NoDrive}] /\ stable \subseteq Disks
      BY AttachedAssumption DEF Init, AttachedAssumption
    <2>4. /\ pass \in 1..2 /\ step \in Steps /\ log \in {"unread", "read", "failed"}
      BY DEF Init, Steps
    <2>5. /\ html \in BOOLEAN /\ unread \subseteq Names
          /\ file \in Drives \cup {NoDrive} /\ info \in Info /\ sectsize \in Nat
      BY EmptyInfoOK DEF Init
    <2> QED
      BY <2>1, <2>2, <2>3, <2>4, <2>5 DEF TypeOK
  <1>2. LocalsOK
    BY DEF Init, LocalsOK, Reading, Measuring
  <1>3. EntriesOK
    BY DEF Init, EntriesOK
  <1> QED
    BY <1>1, <1>2, <1>3 DEF TypeInv

\* getInfoFromDisk returns.
LEMMA ReturnTyped ==
  ASSUME TypeInv, NEW size, Return(size), EntryOK([info EXCEPT !.size = size]),
         open' \in 0..FileLimit, UNCHANGED <<caller, unread, kernel>>
  PROVE  TypeInv'
  <1>1. /\ step' = "next" /\ info' = EmptyInfo /\ file' = NoDrive /\ sectsize' = 0
        /\ Insert(path, [info EXCEPT !.size = size])
    BY DEF Return
  <1>2. /\ DOMAIN maps' = 1..2
        /\ \A p \in 1..2 : maps'[p] \in [DOMAIN maps'[p] -> Info]
        /\ \A p \in 1..2 : \A c \in DOMAIN maps'[p] : EntryOK(maps'[p][c])
    BY <1>1, InsertTyped DEF TypeInv
  <1>3. EntriesOK'
    BY <1>2 DEF EntriesOK, EntryOK, IsMeasurable, kernel
  <1>4. TypeOK'
    BY <1>1, <1>2, EmptyInfoOK DEF TypeInv, TypeOK, caller, kernel, Steps
  <1>5. LocalsOK'
    BY <1>1 DEF LocalsOK, Reading, Measuring
  <1> QED
    BY <1>3, <1>4, <1>5 DEF TypeInv

\* Any other step of the program: disks_map is left alone.
LEMMA QuietTyped ==
  ASSUME TypeInv, UNCHANGED <<maps, kernel>>,
         pass' \in 1..2, step' \in Steps, log' \in {"unread", "read", "failed"},
         html' \in BOOLEAN, unread' \subseteq Names, file' \in Drives \cup {NoDrive},
         info' \in Info, sectsize' \in Nat, open' \in 0..FileLimit, LocalsOK'
  PROVE  TypeInv'
  BY EntriesStay DEF TypeInv, TypeOK, kernel

LEMMA ListingTyped ==
  ASSUME TypeInv
  PROVE  /\ OpenDir => TypeInv'
         /\ \A name \in Names : ReadDir(name) => TypeInv'
         /\ CloseDir => TypeInv'
         /\ EndOfPass \/ OpenLog \/ OpenHtml => TypeInv'
  <1> USE DEF TypeInv, TypeOK, LocalsOK, Reading, Measuring, local, caller, Steps
  <1>1. ASSUME OpenDir PROVE TypeInv'
    BY <1>1, QuietTyped, KernelAssumption DEF OpenDir, Go, CanOpen, KernelAssumption
  <1>2. ASSUME NEW name \in Names, ReadDir(name) PROVE TypeInv'
    <2>1. /\ unread' \subseteq Names /\ LocalsOK'
          /\ UNCHANGED <<step, pass, log, html, maps, kernel, file, info, sectsize, open>>
      BY <1>2 DEF ReadDir, kernel
    <2> QED
      BY <2>1, QuietTyped
  <1>3. ASSUME CloseDir PROVE TypeInv'
    <2>1. open' \in 0..FileLimit
      BY <1>3, KernelAssumption DEF CloseDir, Go, KernelAssumption
    <2> QED
      BY <1>3, <2>1, QuietTyped DEF CloseDir, Go
  <1>4. ASSUME EndOfPass \/ OpenLog \/ OpenHtml PROVE TypeInv'
    <2>1. CASE EndOfPass
      BY <2>1, QuietTyped DEF EndOfPass, Go
    <2>2. CASE OpenLog
      BY <2>2, QuietTyped DEF OpenLog
    <2>3. CASE OpenHtml
      <3>1. html' \in BOOLEAN
        BY <2>3 DEF OpenHtml, CanOpen
      <3> QED
        BY <2>3, <3>1, QuietTyped DEF OpenHtml, Go
    <2> QED
      BY <1>4, <2>1, <2>2, <2>3
  <1> QED
    BY <1>1, <1>2, <1>3, <1>4

LEMMA OpenTyped ==
  ASSUME TypeInv, NEW disk, Open(disk)
  PROVE  TypeInv'
  <1> USE DEF TypeInv, TypeOK, LocalsOK, Reading, Measuring, local, caller, Steps
  <1>1. CASE HasDrive(disk) /\ CanOpen
    <2>1. /\ step' = "identity" /\ open' = open + 1 /\ open < FileLimit
          /\ path' = disk /\ file' = attached[disk] /\ info' = EmptyInfo
          /\ UNCHANGED <<caller, unread, kernel, sectsize, maps>>
      BY <1>1 DEF Open, Go, CanOpen
    <2>2. file' \in Drives \cup {NoDrive}
      BY <1>1, <2>1 DEF HasDrive
    <2>3. open' \in 1..FileLimit
      BY <2>1, KernelAssumption DEF KernelAssumption
    <2> QED
      BY <2>1, <2>2, <2>3, QuietTyped, EmptyInfoOK
  <1>2. CASE ~(HasDrive(disk) /\ CanOpen)
    <2>1. /\ step = "next" /\ Insert(disk, EmptyInfo)
          /\ UNCHANGED <<step, open, local, caller, unread, kernel>>
      BY <1>2 DEF Open, Go
    <2>2. EntryOK(EmptyInfo)
      BY EmptyInfoOK DEF EntryOK
    <2>3. /\ DOMAIN maps' = 1..2
          /\ \A p \in 1..2 : maps'[p] \in [DOMAIN maps'[p] -> Info]
          /\ \A p \in 1..2 : \A c \in DOMAIN maps'[p] : EntryOK(maps'[p][c])
      BY <2>1, <2>2, InsertTyped
    <2>4. EntriesOK'
      BY <2>1, <2>3 DEF EntriesOK, EntryOK, IsMeasurable, kernel
    <2> QED
      BY <2>1, <2>3, <2>4 DEF kernel
  <1> QED
    BY <1>1, <1>2

\* The entry getInfoFromDisk returns when it has not asked for a size.
LEMMA SizelessEntry ==
  ASSUME TypeInv, step \in Reading
  PROVE  EntryOK(info) /\ [info EXCEPT !.size = info.size] = info
  BY EmptyInfoOK, DrivesAssumption
     DEF TypeInv, TypeOK, LocalsOK, Reading, Measuring, EntryOK, Info, DrivesAssumption

\* The entry it returns with a size.
LEMMA SizedEntry ==
  ASSUME TypeInv, step \in Measuring, NEW size \in Nat,
         (size # 0 /\ IsMeasurable(info.drive)) => size = 512 * info.drive.blocks
  PROVE  EntryOK([info EXCEPT !.size = size])
  BY DrivesAssumption
     DEF TypeInv, TypeOK, LocalsOK, Measuring, EntryOK, Info, DrivesAssumption

LEMMA BytesTrue ==
  ASSUME TypeInv, step = "bytes"
  PROVE  /\ Bytes \in Nat
         /\ Bytes # 0 => Bytes = 512 * info.drive.blocks
  BY DrivesAssumption DEF TypeInv, TypeOK, LocalsOK, Measuring, Bytes, IsThere, DrivesAssumption

\* A number of blocks that the fallback multiplies was not taken for negative.
LEMMA SignedBlocks ==
  ASSUME NEW n \in Nat, n <= 2 * LongMax + 1, Signed(n) > 0
  PROVE  Signed(n) = n
  BY KernelAssumption DEF Signed, KernelAssumption

LEMMA FallbackTrue ==
  ASSUME TypeInv, step = "fallback", NEW size,
         size = IF IsThere /\ BlocksFit THEN Signed(file.blocks) ELSE 0,
         size > 0, sectsize > 0
  PROVE  /\ size * sectsize \in Nat
         /\ IsMeasurable(info.drive) => size * sectsize = 512 * info.drive.blocks
  <1>1. IsThere /\ BlocksFit /\ size = Signed(file.blocks)
    OBVIOUS
  <1>2. file = info.drive /\ info.drive \in Drives /\ file.blocks \in Nat /\ file.sector \in Nat
    BY <1>1, DrivesAssumption
       DEF TypeInv, TypeOK, LocalsOK, Measuring, IsThere, DrivesAssumption
  <1>3. size = info.drive.blocks
    BY <1>1, <1>2, SignedBlocks DEF BlocksFit
  <1>4. ~bytesIoctl /\ sectsize = info.drive.sector
    BY <1>1 DEF TypeInv, LocalsOK, IsThere
  <1> QED
    BY <1>2, <1>3, <1>4 DEF IsMeasurable

LEMMA IoctlsTyped ==
  ASSUME TypeInv, GetInfoFromDisk
  PROVE  TypeInv'
  <1> USE DEF During, Continue
  <1>1. CASE GetIdentity \/ IdentifyNvme
    <2>1. CASE step' = "blocks"
      <3>1. /\ info' \in Info /\ ~info'.isEmpty /\ info'.size = 0
            /\ info'.drive = file /\ file \in Drives
            /\ step \in {"identity", "identify"}
            /\ UNCHANGED <<file, sectsize, open, maps, caller, unread, kernel>>
        BY <1>1, <2>1, EmptyInfoOK
           DEF GetIdentity, IdentifyNvme, Answers, Identified, IsThere, TypeInv, TypeOK,
               LocalsOK, Measuring, Info, Return
      <3> QED
        BY <2>1, <3>1, QuietTyped
           DEF TypeInv, TypeOK, LocalsOK, Reading, Measuring, Steps, caller
    <2>2. CASE step' = "identify"
      <3>1. /\ step = "identity"
            /\ UNCHANGED <<file, info, sectsize, open, maps, caller, unread, kernel>>
        BY <1>1, <2>2 DEF GetIdentity, IdentifyNvme, Return
      <3> QED
        BY <2>2, <3>1, QuietTyped
           DEF TypeInv, TypeOK, LocalsOK, Reading, Measuring, Steps, caller
    <2>3. CASE step' \notin {"blocks", "identify"}
      <3>1. /\ step = "identify" /\ open' = open - 1 /\ Return(info.size)
            /\ UNCHANGED <<caller, unread, kernel>>
        BY <1>1, <2>3 DEF GetIdentity, IdentifyNvme, Close
      <3>2. open' \in 0..FileLimit
        BY <3>1, KernelAssumption
           DEF TypeInv, TypeOK, LocalsOK, Reading, KernelAssumption
      <3> QED
        BY <3>1, <3>2, SizelessEntry, ReturnTyped DEF Reading
    <2> QED
      BY <2>1, <2>2, <2>3
  <1>2. CASE GetBlocks
    <2>1. CASE BlocksFit /\ Continue("bytes")
      BY <1>2, <2>1, QuietTyped
         DEF GetBlocks, TypeInv, TypeOK, LocalsOK, Reading, Measuring, Steps, caller
    <2>2. CASE Close /\ Return(info.size)
      <3>1. open' \in 0..FileLimit
        BY <1>2, <2>2, KernelAssumption
           DEF GetBlocks, Close, TypeInv, TypeOK, LocalsOK, Reading, KernelAssumption
      <3> QED
        BY <1>2, <2>2, <3>1, SizelessEntry, ReturnTyped DEF GetBlocks, Reading
    <2> QED
      BY <1>2, <2>1, <2>2 DEF GetBlocks
  <1>3. CASE GetBytes
    <2>1. CASE Return(Bytes) /\ UNCHANGED open
      <3>1. EntryOK([info EXCEPT !.size = Bytes])
        BY <1>3, BytesTrue, SizedEntry DEF GetBytes, Measuring
      <3>2. open' \in 0..FileLimit
        BY <2>1 DEF TypeInv, TypeOK
      <3> QED
        BY <1>3, <2>1, <3>1, <3>2, ReturnTyped DEF GetBytes
    <2>2. CASE ~(IsThere /\ bytesIoctl) /\ Continue("sectsize")
      BY <1>3, <2>2, QuietTyped
         DEF GetBytes, IsThere, TypeInv, TypeOK, LocalsOK, Reading, Measuring, Steps,
             caller, kernel
    <2> QED
      BY <1>3, <2>1, <2>2 DEF GetBytes
  <1>4. CASE GetSectorSize
    <2>1. /\ step = "sectsize" /\ step' = "fallback"
          /\ sectsize' = IF IsThere THEN file.sector ELSE 0
          /\ UNCHANGED <<file, info, open, maps, caller, unread, kernel>>
      BY <1>4 DEF GetSectorSize
    <2>2. sectsize' \in Nat /\ (sectsize' = 0 \/ sectsize' = info.drive.sector)
      BY <2>1, DrivesAssumption
         DEF IsThere, TypeInv, TypeOK, LocalsOK, Measuring, DrivesAssumption
    <2> QED
      BY <2>1, <2>2, QuietTyped
         DEF TypeInv, TypeOK, LocalsOK, Reading, Measuring, Steps, caller, kernel
  <1>5. CASE GetSizeFallback
    <2> DEFINE blocks == IF IsThere /\ BlocksFit THEN Signed(file.blocks) ELSE 0
               size == IF blocks > 0 /\ sectsize > 0 THEN blocks * sectsize ELSE info.size
    <2>1. /\ step = "fallback" /\ Return(size)
          /\ UNCHANGED <<open, caller, unread, kernel>>
      BY <1>5 DEF GetSizeFallback
    <2>2. EntryOK([info EXCEPT !.size = size])
      <3>1. CASE blocks > 0 /\ sectsize > 0
        BY <2>1, <3>1, FallbackTrue, SizedEntry DEF Measuring
      <3>2. CASE ~(blocks > 0 /\ sectsize > 0)
        BY <2>1, <3>2, SizelessEntry DEF Reading
      <3> QED
        BY <3>1, <3>2
    <2>3. open' \in 0..FileLimit
      BY <2>1 DEF TypeInv, TypeOK
    <2> HIDE DEF size
    <2> QED
      BY <2>1, <2>2, <2>3, ReturnTyped
  <1> QED
    BY <1>1, <1>2, <1>3, <1>4, <1>5 DEF GetInfoFromDisk

LEMMA HotplugTyped ==
  ASSUME TypeInv, Hotplug
  PROVE  TypeInv'
  <1>1. PICK disk \in Disks, drive \in Drives \cup {NoDrive} :
          Change(disk, drive) /\ file' \in {file, NoDrive}
    BY DEF Hotplug, Unplug, Plug
  <1>2. /\ attached' \in [Disks -> Drives \cup {NoDrive}]
        /\ stable' \subseteq Disks /\ events' \in 0..MaxEvents
    BY <1>1, KernelAssumption DEF Change, TypeInv, TypeOK, KernelAssumption
  <1>3. /\ UNCHANGED <<bytesIoctl, caller, step, unread, disks, path, info, sectsize,
                       open, maps>>
        /\ file' \in {file, NoDrive}
    BY <1>1 DEF Change
  <1>4. EntriesOK'
    BY <1>3, EntriesStay DEF TypeInv
  <1>5. TypeOK'
    BY <1>2, <1>3 DEF TypeInv, TypeOK, caller
  <1>6. LocalsOK'
    BY <1>3 DEF TypeInv, LocalsOK
  <1> QED
    BY <1>4, <1>5, <1>6 DEF TypeInv

LEMMA StepTyped == TypeInv /\ [Next]_vars => TypeInv'
  <1> SUFFICES ASSUME TypeInv, [Next]_vars
               PROVE  TypeInv'
    OBVIOUS
  <1>1. CASE Program
    BY <1>1, ListingTyped, OpenTyped, IoctlsTyped DEF Program
  <1>2. CASE Hotplug
    BY <1>2, HotplugTyped
  <1>3. CASE UNCHANGED vars
    <2>1. EntriesOK'
      BY <1>3, EntriesStay DEF TypeInv, vars, kernel
    <2> QED
      BY <1>3, <2>1 DEF TypeInv, TypeOK, LocalsOK, vars, kernel, caller, local
  <1> QED
    BY <1>1, <1>2, <1>3 DEF Next

LEMMA TypeInvariance == Spec => []TypeInv
  BY InitTyped, StepTyped, PTL DEF Spec

\* Type correctness: whatever fails or is unplugged, no descriptor is closed
\* that was not opened, and disks_map holds hardDiskInfo structures.
THEOREM DisksTypeCorrect == Spec => []TypeOK
  BY TypeInvariance, PTL DEF TypeInv

\* A size is the size of the drive it is reported with.
THEOREM Sizes == Spec => []SizesAreTrue
  <1>1. TypeInv => SizesAreTrue
    BY DEF TypeInv, EntriesOK, EntryOK, SizesAreTrue
  <1> QED
    BY <1>1, TypeInvariance, PTL

-----------------------------------------------------------------------------
\* Each disk is come to once in a pass: what is still to be looked at, and what
\* is being looked at, is not in disks_map yet.
Fresh ==
  /\ path \in Disks
  /\ disks \subseteq NamesFound
  /\ \A p \in 1..2 : DOMAIN maps[p] \subseteq NamesFound
  /\ pass = 1 => DOMAIN maps[2] = {}
  /\ step \in {"opendir", "readdir"} => DOMAIN maps[pass] = {}
  /\ disks \cap DOMAIN maps[pass] = {}
  /\ step \in Reading => path \in NamesFound /\ path \notin disks \cup DOMAIN maps[pass]

IInv == TypeInv /\ Fresh

\* What a step does to disks_map: nothing, or one disk that was not in it is
\* entered.
Entered(d, e) ==
  /\ d \in NamesFound /\ d \notin DOMAIN maps[pass]
  /\ Insert(d, e)
  /\ step' = "next" /\ pass' = pass
  /\ disks' \subseteq disks \ {d}

LEMMA InitFresh == Init => Fresh
  <1> SUFFICES ASSUME Init
               PROVE  Fresh
    OBVIOUS
  <1>1. Disks # {}
    BY NamesAssumption DEF NamesAssumption, Disks
  <1>2. path \in Disks
    BY <1>1 DEF Init
  <1> QED
    BY <1>2 DEF Init, Fresh, Reading

LEMMA EnteredFresh ==
  ASSUME IInv, NEW d, NEW e, Entered(d, e), path' \in Disks
  PROVE  Fresh'
  <1>1. /\ DOMAIN maps' = 1..2
        /\ \A p \in 1..2 : p # pass => maps'[p] = maps[p]
        /\ DOMAIN maps'[pass] = DOMAIN maps[pass] \cup {d}
    BY InsertInto DEF IInv, TypeInv, Entered
  <1>2. pass \in 1..2
    BY DEF IInv, TypeInv, TypeOK
  <1> QED
    BY <1>1, <1>2 DEF IInv, Fresh, Entered, Reading

\* The element is the one given, in its pass; all others stay.
LEMMA ReturnEnters ==
  ASSUME IInv, step \in Reading, NEW size, Return(size),
         UNCHANGED <<caller, disks>>
  PROVE  Entered(path, [info EXCEPT !.size = size])
  BY DEF IInv, Fresh, Entered, Return, caller

LEMMA IoctlFresh ==
  ASSUME IInv, GetInfoFromDisk
  PROVE  /\ step \in Reading /\ path' = path
         /\ \/ \E size : /\ Return(size) /\ Entered(path, [info EXCEPT !.size = size])
                         /\ \/ Close /\ info.size = size
                            \/ UNCHANGED open /\ step \in Measuring
            \/ /\ step' \in Reading
               /\ UNCHANGED <<caller, disks, maps, open>>
  <1> USE DEF Reading, Measuring, During, Continue
  <1>1. step \in Reading /\ UNCHANGED <<caller, disks, path>>
    BY DEF GetInfoFromDisk, GetIdentity, IdentifyNvme, GetBlocks, GetBytes,
           GetSectorSize, GetSizeFallback
  <1>2. \/ \E size : /\ Return(size)
                     /\ \/ Close /\ info.size = size
                        \/ UNCHANGED open /\ step \in Measuring
        \/ step' \in Reading /\ UNCHANGED <<maps, open>>
    <2>1. CASE GetIdentity \/ IdentifyNvme \/ GetSectorSize
      BY <2>1 DEF GetIdentity, IdentifyNvme, GetSectorSize
    <2>2. CASE GetBlocks \/ GetBytes
      BY <2>2 DEF GetBlocks, GetBytes
    <2>3. CASE GetSizeFallback
      BY <2>3 DEF GetSizeFallback
    <2> QED
      BY <2>1, <2>2, <2>3 DEF GetInfoFromDisk
  <1> QED
    BY <1>1, <1>2, ReturnEnters

LEMMA OpenFresh ==
  ASSUME IInv, NEW disk, Open(disk)
  PROVE  \/ /\ Entered(disk, EmptyInfo) /\ step = "next"
            /\ UNCHANGED <<open, local, kernel, caller>>
         \/ /\ step = "next" /\ step' = "identity" /\ open' = open + 1
            /\ HasDrive(disk) /\ path' = disk /\ file' = attached[disk]
            /\ info' = EmptyInfo /\ disk \in disks /\ disks' = disks \ {disk}
            /\ UNCHANGED <<caller, maps, kernel>>
  BY DEF Open, Go, Rest, Entered, IInv, Fresh, caller, local

LEMMA FreshStep == IInv /\ [Next]_vars => Fresh'
  <1> SUFFICES ASSUME IInv, [Next]_vars
               PROVE  Fresh'
    OBVIOUS
  <1>1. CASE OpenDir \/ CloseDir \/ OpenLog \/ OpenHtml \/ UNCHANGED vars \/ Hotplug
    <2>1. /\ UNCHANGED <<pass, maps, path>>
          /\ disks' = {} \/ disks' = disks
          /\ step' \in {"opendir", "readdir"} => step \in {"opendir", "readdir"}
          /\ step' \in Reading => step' = step
      BY <1>1 DEF OpenDir, CloseDir, OpenLog, OpenHtml, vars, kernel, caller, local, Go,
                  Reading, Hotplug, Unplug, Plug, Change
    <2> QED
      BY <2>1 DEF IInv, Fresh
  <1>2. CASE EndOfPass
    BY <1>2 DEF EndOfPass, Go, IInv, Fresh, TypeInv, TypeOK, Reading, local
  <1>3. ASSUME NEW name \in Names, ReadDir(name)
        PROVE  Fresh'
    <2>1. /\ disks' = disks \/ (IsDisk(name) /\ disks' = disks \cup {DiskFound(name)})
          /\ step = "readdir" /\ UNCHANGED <<step, pass, maps, path>>
      BY <1>3 DEF ReadDir, caller, local
    <2>2. IsDisk(name) => DiskFound(name) \in NamesFound
      BY DEF NamesFound
    <2> QED
      BY <2>1, <2>2 DEF IInv, Fresh, Reading
  <1>4. ASSUME NEW disk \in disks, Open(disk)
        PROVE  Fresh'
    <2>1. CASE Entered(disk, EmptyInfo) /\ UNCHANGED local
      BY <2>1, EnteredFresh DEF local, IInv, Fresh
    <2>2. CASE ~(Entered(disk, EmptyInfo) /\ UNCHANGED local)
      BY <1>4, <2>2, OpenFresh DEF IInv, Fresh, Reading, caller, HasDrive
    <2> QED
      BY <2>1, <2>2
  <1>5. CASE GetInfoFromDisk
    <2>1. CASE \E size : Entered(path, [info EXCEPT !.size = size])
      BY <1>5, <2>1, IoctlFresh, EnteredFresh DEF IInv, Fresh
    <2>2. CASE step' \in Reading /\ UNCHANGED <<caller, disks, maps>>
      BY <1>5, <2>2, IoctlFresh DEF IInv, Fresh, Reading, caller
    <2> QED
      BY <1>5, <2>1, <2>2, IoctlFresh
  <1> QED
    BY <1>1, <1>2, <1>3, <1>4, <1>5 DEF Next, Program

LEMMA Invariance == Spec => []IInv
  <1>1. Init => IInv
    BY InitTyped, InitFresh DEF IInv
  <1>2. IInv /\ [Next]_vars => IInv'
    BY StepTyped, FreshStep DEF IInv
  <1> QED
    BY <1>1, <1>2, PTL DEF Spec

-----------------------------------------------------------------------------
\* Descriptors.  Each one left open is owed to a drive that told who it is.
Owed == Cardinality(Told(1)) + Cardinality(Told(2))

FiniteTold == IsFiniteSet(Told(1)) /\ IsFiniteSet(Told(2))

OwedInv == FiniteTold /\ open <= DescriptorsInUse + Owed

LEMMA OwedType == FiniteTold => Owed \in Nat
  BY FS_CardinalityType DEF FiniteTold, Owed

\* An element that says nothing is owed nothing, any other one descriptor.
LEMMA OwedEntered ==
  ASSUME IInv, FiniteTold, NEW d, NEW e, Entered(d, e)
  PROVE  FiniteTold' /\ Owed' = IF e.isEmpty THEN Owed ELSE Owed + 1
  <1>1. /\ \A p \in 1..2 : p # pass => maps'[p] = maps[p]
        /\ maps'[pass] = [c \in DOMAIN maps[pass] \cup {d} |->
                            IF c = d THEN e ELSE maps[pass][c]]
        /\ d \notin DOMAIN maps[pass]
    BY InsertInto DEF IInv, TypeInv, Entered
  <1>2. pass \in 1..2
    BY DEF IInv, TypeInv, TypeOK
  <1>3. \A p \in 1..2 : p # pass => Told(p)' = Told(p)
    BY <1>1 DEF Told
  <1>4. Told(pass)' = IF e.isEmpty THEN Told(pass) ELSE Told(pass) \cup {d}
    <2>1. pass' = pass
      BY DEF Entered
    <2> QED
      BY <1>1, <2>1 DEF Told
  <1>5. d \notin Told(pass) /\ pass' = pass
    BY <1>1 DEF Told, Entered
  <1>6. IsFiniteSet(Told(pass))
    BY <1>2 DEF FiniteTold
  <1>7. /\ IsFiniteSet(Told(pass) \cup {d})
        /\ Cardinality(Told(pass) \cup {d}) = Cardinality(Told(pass)) + 1
    BY <1>5, <1>6, FS_AddElement
  <1>8. Cardinality(Told(1)) \in Nat /\ Cardinality(Told(2)) \in Nat
    BY FS_CardinalityType DEF FiniteTold
  <1>9. CASE pass = 1
    <2>1. Told(2)' = Told(2) /\ Told(1)' = IF e.isEmpty THEN Told(1) ELSE Told(1) \cup {d}
      BY <1>3, <1>4, <1>5, <1>9
    <2>2. CASE e.isEmpty
      BY <2>1, <2>2 DEF FiniteTold, Owed
    <2>3. CASE ~e.isEmpty
      <3>1. /\ IsFiniteSet(Told(1) \cup {d})
            /\ Cardinality(Told(1) \cup {d}) = Cardinality(Told(1)) + 1
        BY <1>7, <1>9
      <3>2. FiniteTold'
        BY <2>1, <2>3, <3>1 DEF FiniteTold
      <3>3. Owed' = Owed + 1
        <4>1. Cardinality(Told(1))' = Cardinality(Told(1)) + 1
          BY <2>1, <2>3, <3>1
        <4>2. Cardinality(Told(2))' = Cardinality(Told(2))
          BY <2>1
        <4> QED
          BY <1>8, <4>1, <4>2 DEF Owed
      <3> QED
        BY <2>3, <3>2, <3>3
    <2> QED
      BY <2>2, <2>3
  <1>10. CASE pass = 2
    <2>1. Told(1)' = Told(1) /\ Told(2)' = IF e.isEmpty THEN Told(2) ELSE Told(2) \cup {d}
      BY <1>3, <1>4, <1>5, <1>10
    <2>2. CASE e.isEmpty
      BY <2>1, <2>2 DEF FiniteTold, Owed
    <2>3. CASE ~e.isEmpty
      <3>1. /\ IsFiniteSet(Told(2) \cup {d})
            /\ Cardinality(Told(2) \cup {d}) = Cardinality(Told(2)) + 1
        BY <1>7, <1>10
      <3>2. FiniteTold'
        BY <2>1, <2>3, <3>1 DEF FiniteTold
      <3>3. Owed' = Owed + 1
        <4>1. Cardinality(Told(2))' = Cardinality(Told(2)) + 1
          BY <2>1, <2>3, <3>1
        <4>2. Cardinality(Told(1))' = Cardinality(Told(1))
          BY <2>1
        <4> QED
          BY <1>8, <4>1, <4>2 DEF Owed
      <3> QED
        BY <2>3, <3>2, <3>3
    <2> QED
      BY <2>2, <2>3
  <1> QED
    BY <1>2, <1>9, <1>10

LEMMA OwedSame ==
  ASSUME maps' = maps
  PROVE  Owed' = Owed /\ FiniteTold' = FiniteTold
  BY DEF Owed, FiniteTold, Told

LEMMA InitOwed == Init => OwedInv
  <1> SUFFICES ASSUME Init
               PROVE  OwedInv
    OBVIOUS
  <1>1. Told(1) = {} /\ Told(2) = {}
    BY DEF Init, Told
  <1>2. FiniteTold /\ Owed = 0
    BY <1>1, FS_EmptySet DEF FiniteTold, Owed
  <1>3. open = 0 /\ DescriptorsInUse = 0
    BY DEF Init, DescriptorsInUse
  <1> QED
    BY <1>2, <1>3 DEF OwedInv

LEMMA StepOwed == IInv /\ OwedInv /\ [Next]_vars => OwedInv'
  <1> SUFFICES ASSUME IInv, OwedInv, [Next]_vars
               PROVE  OwedInv'
    OBVIOUS
  <1>1. Owed \in Nat /\ open \in Nat /\ FiniteTold
    BY OwedType, KernelAssumption
       DEF OwedInv, IInv, TypeInv, TypeOK, KernelAssumption
  <1>2. CASE OpenDir \/ CloseDir \/ EndOfPass
    <2>1. /\ maps' = maps
          /\ \/ step = "opendir" /\ step' = "readdir" /\ open' = open + 1
             \/ step = "readdir" /\ step' = "next" /\ open' = open - 1
             \/ step' \in {"next", "opendir", "print"} /\ open' = open
                /\ step \in {"next", "opendir"}
      BY <1>2 DEF OpenDir, CloseDir, EndOfPass, Go
    <2>2. Owed' = Owed /\ FiniteTold'
      BY <1>1, <2>1, OwedSame
    <2> QED
      BY <1>1, <2>1, <2>2 DEF OwedInv, DescriptorsInUse
  <1>3. CASE OpenLog \/ OpenHtml \/ Hotplug \/ UNCHANGED vars \/ \E name \in Names : ReadDir(name)
    <2>1. UNCHANGED <<maps, open>> /\ (step' = step \/ (step = "print" /\ step' = "done"))
      BY <1>3 DEF OpenLog, OpenHtml, Hotplug, Unplug, Plug, Change, vars, ReadDir, Go
    <2>2. Owed' = Owed /\ FiniteTold'
      BY <1>1, <2>1, OwedSame
    <2> QED
      BY <1>1, <2>1, <2>2 DEF OwedInv, DescriptorsInUse
  <1>4. ASSUME NEW disk \in disks, Open(disk)
        PROVE  OwedInv'
    <2>1. CASE Entered(disk, EmptyInfo) /\ step = "next" /\ UNCHANGED open
      <3>1. FiniteTold' /\ Owed' = Owed
        BY <1>1, <2>1, OwedEntered, EmptyInfoOK
      <3> QED
        BY <2>1, <3>1 DEF OwedInv, DescriptorsInUse, Entered
    <2>2. CASE /\ step = "next" /\ step' = "identity" /\ open' = open + 1
               /\ maps' = maps
      <3>1. Owed' = Owed /\ FiniteTold'
        BY <1>1, <2>2, OwedSame
      <3> QED
        BY <1>1, <2>2, <3>1 DEF OwedInv, DescriptorsInUse
    <2> QED
      BY <1>4, <2>1, <2>2, OpenFresh
  <1>5. CASE GetInfoFromDisk
    <2>1. ASSUME NEW size, Entered(path, [info EXCEPT !.size = size]),
                 \/ Close /\ info.size = size
                 \/ UNCHANGED open /\ step \in Measuring
          PROVE  OwedInv'
      <3> DEFINE e == [info EXCEPT !.size = size]
      <3>1. info \in Info /\ e.isEmpty = info.isEmpty
        BY DEF IInv, TypeInv, TypeOK, Info
      <3>2. FiniteTold' /\ Owed' = IF e.isEmpty THEN Owed ELSE Owed + 1
        BY <1>1, <2>1, OwedEntered
      <3>3. step' = "next" /\ step \in Reading
        BY <1>5, <2>1, IoctlFresh DEF Entered
      <3>4. step \in Measuring => ~info.isEmpty
        BY DEF IInv, TypeInv, LocalsOK
      <3>5. open <= 1 + Owed
        BY <3>3 DEF OwedInv, DescriptorsInUse, Reading
      <3>6. open' <= Owed'
        BY <1>1, <2>1, <3>1, <3>2, <3>4, <3>5 DEF Close
      <3> QED
        BY <3>2, <3>3, <3>6, <1>1 DEF OwedInv, DescriptorsInUse
    <2>2. CASE step' \in Reading /\ UNCHANGED <<maps, open>>
      <3>1. Owed' = Owed /\ FiniteTold'
        BY <1>1, <2>2, OwedSame
      <3>2. DescriptorsInUse = 1 /\ DescriptorsInUse' = 1
        BY <1>5, <2>2, IoctlFresh DEF DescriptorsInUse, Reading
      <3> QED
        BY <2>2, <3>1, <3>2 DEF OwedInv
    <2>3. \/ \E size : /\ Entered(path, [info EXCEPT !.size = size])
                      /\ \/ Close /\ info.size = size
                         \/ UNCHANGED open /\ step \in Measuring
          \/ step' \in Reading /\ UNCHANGED <<caller, disks, maps, open>>
      BY <1>5, IoctlFresh
    <2> QED
      BY <2>1, <2>2, <2>3
  <1> QED
    BY <1>2, <1>3, <1>4, <1>5 DEF Next, Program

LEMMA OwedInvariance == Spec => []OwedInv
  BY InitOwed, StepOwed, Invariance, PTL DEF Spec

\* No failure path costs a descriptor: each one left open is that of a drive in
\* one of the two reports.
THEOREM Descriptors == Spec => []DescriptorsAccountedFor
  <1>1. OwedInv => DescriptorsAccountedFor
    <2> SUFFICES ASSUME OwedInv
                 PROVE  DescriptorsAccountedFor
      OBVIOUS
    <2>1. Cardinality(Told(1)) \in Nat /\ Cardinality(Told(2)) \in Nat
      BY FS_CardinalityType DEF OwedInv, FiniteTold
    <2> QED
      BY <2>1 DEF OwedInv, Owed, DescriptorsAccountedFor, DescriptorsInUse
  <1> QED
    BY <1>1, OwedInvariance, PTL

-----------------------------------------------------------------------------
\* Each pass leaves open at most one descriptor for each name it may find.
LEMMA NamesFoundFinite == IsFiniteSet(NamesFound)
  <1> DEFINE M == {n \in Names : IsDisk(n)}
             F == [n \in M |-> DiskFound(n)]
  <1>1. IsFiniteSet(M)
    <2>1. M \in SUBSET Names /\ IsFiniteSet(Names)
      BY NamesAssumption DEF NamesAssumption
    <2> QED
      BY <2>1, FS_Subset
  <1>2. F \in Surjection(M, NamesFound)
    <2>1. F \in [M -> NamesFound]
      BY DEF NamesFound
    <2>2. \A f \in NamesFound : \E n \in M : F[n] = f
      BY DEF NamesFound
    <2> QED
      BY <2>1, <2>2 DEF Surjection
  <1> HIDE DEF M, F
  <1> QED
    BY <1>1, <1>2, FS_Surjection

LEMMA OwedBound == IInv /\ OwedInv => Owed \in Nat /\ Owed <= 2 * Cardinality(NamesFound)
  <1> SUFFICES ASSUME IInv, OwedInv
               PROVE  Owed \in Nat /\ Owed <= 2 * Cardinality(NamesFound)
    OBVIOUS
  <1>1. Told(1) \in SUBSET NamesFound /\ Told(2) \in SUBSET NamesFound
    BY DEF IInv, Fresh, Told
  <1>2. /\ Cardinality(Told(1)) <= Cardinality(NamesFound)
        /\ Cardinality(Told(2)) <= Cardinality(NamesFound)
    BY <1>1, NamesFoundFinite, FS_Subset
  <1>3. /\ Cardinality(Told(1)) \in Nat /\ Cardinality(Told(2)) \in Nat
        /\ Cardinality(NamesFound) \in Nat
    BY NamesFoundFinite, FS_CardinalityType DEF OwedInv, FiniteTold
  <1> QED
    BY <1>2, <1>3 DEF Owed

Enough == FileLimit > 2 * Cardinality(NamesFound)

\* With enough descriptors there is one left whenever main asks for one.
LEMMA OneIsLeft ==
  ASSUME IInv, OwedInv, Enough, step \in {"opendir", "next", "print"}
  PROVE  CanOpen
  <1>1. Owed \in Nat /\ Owed <= 2 * Cardinality(NamesFound)
    BY OwedBound
  <1>2. open <= Owed
    BY <1>1 DEF OwedInv, DescriptorsInUse
  <1>3. open \in Nat /\ FileLimit \in Nat /\ Cardinality(NamesFound) \in Nat
    BY NamesFoundFinite, FS_CardinalityType, KernelAssumption
       DEF KernelAssumption, IInv, TypeInv, TypeOK
  <1> QED
    BY <1>1, <1>2, <1>3 DEF Enough, CanOpen

ReportInv ==
  Enough => /\ log # "failed"
            /\ step = "done" => log = "read" /\ html

LEMMA InitReport == Init => ReportInv
  BY DEF Init, ReportInv

LEMMA StepReport == IInv /\ OwedInv /\ ReportInv /\ [Next]_vars => ReportInv'
  <1> SUFFICES ASSUME IInv, OwedInv, ReportInv, [Next]_vars, Enough'
               PROVE  log' # "failed" /\ (step' = "done" => log' = "read" /\ html')
    BY DEF ReportInv
  <1>1. Enough
    BY DEF Enough
  <1>2. CASE OpenLog
    <2>1. CanOpen /\ step' = step
      BY <1>1, <1>2, OneIsLeft DEF OpenLog
    <2> QED
      BY <1>2, <2>1 DEF OpenLog
  <1>3. CASE OpenHtml
    <2>1. CanOpen
      BY <1>1, <1>3, OneIsLeft DEF OpenHtml, Go
    <2>2. log = "read"
      BY <1>1, <1>3 DEF OpenHtml, ReportInv, IInv, TypeInv, TypeOK
    <2> QED
      BY <1>3, <2>1, <2>2 DEF OpenHtml
  <1>4. CASE OpenDir \/ CloseDir \/ EndOfPass \/ \E name \in Names : ReadDir(name)
    BY <1>1, <1>4 DEF OpenDir, CloseDir, EndOfPass, ReadDir, Go, caller, ReportInv
  <1>5. CASE \E disk \in disks : Open(disk)
    BY <1>1, <1>5 DEF Open, Go, caller, ReportInv
  <1>6. CASE GetInfoFromDisk
    BY <1>1, <1>6
       DEF GetInfoFromDisk, GetIdentity, IdentifyNvme, GetBlocks, GetBytes, GetSectorSize,
           GetSizeFallback, During, Continue, Return, caller, ReportInv
  <1>7. CASE Hotplug \/ UNCHANGED vars
    BY <1>1, <1>7 DEF Hotplug, Unplug, Plug, Change, caller, vars, ReportInv
  <1> QED
    BY <1>2, <1>3, <1>4, <1>5, <1>6, <1>7 DEF Next, Program

\* If the process may have one descriptor for each name found in each pass and
\* one more, the log is read the second time and report.html is written.
THEOREM ReportComesOut == Spec => []ReportIsWritten
  <1>1. ReportInv => ReportIsWritten
    BY DEF ReportInv, ReportIsWritten, Enough
  <1> QED
    BY <1>1, InitReport, StepReport, Invariance, OwedInvariance, PTL DEF Spec

-----------------------------------------------------------------------------
\* HardDisk implements DriveInventory.
LEMMA ReportsSame ==
  ASSUME UNCHANGED <<maps, bytesIoctl>>
  PROVE  Reports' = Reports
  BY DEF Reports, Shown, IsMeasurable

LEMMA EnteredOK ==
  ASSUME IInv, TypeInv', NEW d, NEW e, Entered(d, e), bytesIoctl' = bytesIoctl
  PROVE  EntryOK(e)
  <1>1. TypeOK /\ Insert(d, e) /\ pass' = pass /\ pass \in 1..2
    BY DEF IInv, TypeInv, TypeOK, Entered
  <1>2. maps'[pass] = [c \in DOMAIN maps[pass] \cup {d} |->
                         IF c = d THEN e ELSE maps[pass][c]]
    BY <1>1, InsertInto
  <1>3. d \in DOMAIN maps'[pass] /\ maps'[pass][d] = e
    BY <1>2
  <1> QED
    BY <1>1, <1>3 DEF TypeInv, EntriesOK, EntryOK, IsMeasurable

LEMMA EnterStep ==
  ASSUME IInv, NEW d, NEW e, NEW drive, NEW size, Entered(d, e),
         Shown(e) = [drive |-> drive, size |-> size],
         Seen' = NoDrive, UNCHANGED <<attached, pass, path, bytesIoctl>>
  PROVE  Inventory!Enter(d, drive, size)
  <1>1. /\ DOMAIN maps' = 1..2
        /\ \A p \in 1..2 : p # pass => maps'[p] = maps[p]
        /\ maps'[pass] = [c \in DOMAIN maps[pass] \cup {d} |->
                            IF c = d THEN e ELSE maps[pass][c]]
        /\ d \notin DOMAIN maps[pass] /\ pass \in 1..2
    BY InsertInto DEF IInv, TypeInv, TypeOK, Entered
  <1>2. \A x : Shown(x)' = Shown(x)
    BY DEF Shown, IsMeasurable
  <1>3. DOMAIN Reports[pass] = DOMAIN maps[pass]
    BY <1>1 DEF Reports
  <1>4. Reports' = [p \in 1..2 |-> [c \in DOMAIN maps'[p] |-> Shown(maps'[p][c])]]
    BY DEF Reports, Shown, IsMeasurable
  <1>5. ASSUME NEW p \in 1..2
        PROVE  [c \in DOMAIN maps'[p] |-> Shown(maps'[p][c])]
                 = IF p = pass
                   THEN [m \in DOMAIN Reports[pass] \cup {d} |->
                           IF m = d THEN Shown(e) ELSE Reports[pass][m]]
                   ELSE Reports[p]
    <2>1. CASE p = pass
      BY <1>1, <1>3, <2>1 DEF Reports
    <2>2. CASE p # pass
      BY <1>1, <2>2 DEF Reports
    <2> QED
      BY <2>1, <2>2
  <1>6. DOMAIN Reports = 1..2
    BY DEF Reports
  <1>7. d \notin DOMAIN Reports[pass]
    BY <1>1, <1>3
  <1>8. Reports' = [Reports EXCEPT ![pass] =
          [m \in DOMAIN @ \cup {d} |->
             IF m = d THEN [drive |-> drive, size |-> size] ELSE @[m]]]
    BY <1>1, <1>3, <1>4, <1>5, <1>6
  <1> QED
    BY <1>7, <1>8 DEF Inventory!Enter

LEMMA InventoryInit == Init => Inventory!Init
  <1> SUFFICES ASSUME Init
               PROVE  Inventory!Init
    OBVIOUS
  <1>1. Reports = [r \in 1..2 |-> <<>>]
    BY DEF Init, Reports
  <1>2. Seen = NoDrive /\ path \in Disks
    BY EmptyInfoOK, InitFresh DEF Init, Seen, Fresh
  <1> QED
    BY <1>1, <1>2, AttachedAssumption DEF Init, Inventory!Init, AttachedAssumption

LEMMA InventoryStep == IInv /\ [Next]_vars => [Inventory!Next]_(Inventory!inventoryVars)
  <1> SUFFICES ASSUME IInv, [Next]_vars
               PROVE  Inventory!Next \/ UNCHANGED <<attached, pass, path, Seen, Reports>>
    BY DEF Inventory!inventoryVars
  <1>1. CASE \/ OpenDir \/ CloseDir \/ OpenLog \/ OpenHtml \/ UNCHANGED vars
             \/ \E name \in Names : ReadDir(name)
    <2>1. UNCHANGED <<attached, pass, path, file, info, maps, bytesIoctl>>
      BY <1>1 DEF OpenDir, CloseDir, OpenLog, OpenHtml, ReadDir, vars, kernel, caller, local
    <2> QED
      BY <2>1, ReportsSame DEF Seen
  <1>2. CASE EndOfPass
    <2>1. /\ UNCHANGED <<attached, path, file, info, maps, bytesIoctl>>
          /\ pass' = pass \/ (pass = 1 /\ pass' = 2)
          /\ Seen = NoDrive
      BY <1>2, EmptyInfoOK
         DEF EndOfPass, Go, kernel, local, Seen, IInv, TypeInv, LocalsOK, Reading, Measuring
    <2>2. UNCHANGED <<Seen, Reports>>
      BY <2>1, ReportsSame DEF Seen
    <2> QED
      BY <2>1, <2>2 DEF Inventory!Next, Inventory!NextRound
  <1>3. ASSUME NEW disk \in disks, Open(disk)
        PROVE  Inventory!Next
    <2>1. CASE Entered(disk, EmptyInfo) /\ step = "next" /\ UNCHANGED <<local, kernel, caller>>
      <3>1. Shown(EmptyInfo) = [drive |-> NoDrive, size |-> 0]
        BY EmptyInfoOK DEF Shown
      <3>2. /\ UNCHANGED <<attached, pass, path, file, info, bytesIoctl>>
            /\ Seen = NoDrive /\ disk \in Disks \cup NamesFound
        BY <2>1, EmptyInfoOK
           DEF local, kernel, caller, Seen, IInv, TypeInv, LocalsOK, Reading, Measuring, Entered
      <3>3. Seen' = NoDrive
        BY <3>2 DEF Seen
      <3>4. Inventory!TellNothing(disk)
        BY <2>1, <3>1, <3>2, <3>3, EnterStep DEF Inventory!TellNothing
      <3> QED
        BY <3>2, <3>4 DEF Inventory!Next
    <2>2. CASE /\ step = "next" /\ HasDrive(disk) /\ path' = disk
               /\ file' = attached[disk] /\ info' = EmptyInfo
               /\ UNCHANGED <<caller, maps, kernel>>
      <3>1. Seen = NoDrive /\ Seen' = attached[disk] /\ Reports' = Reports
        BY <2>2, EmptyInfoOK, ReportsSame
           DEF Seen, IInv, TypeInv, LocalsOK, Reading, Measuring, kernel
      <3>2. Inventory!Look(disk) /\ disk \in Disks
        BY <2>2, <3>1 DEF Inventory!Look, HasDrive, caller, kernel
      <3> QED
        BY <3>2 DEF Inventory!Next
    <2> QED
      BY <1>3, <2>1, <2>2, OpenFresh
  <1>4. CASE GetInfoFromDisk
    <2>1. UNCHANGED <<attached, pass, bytesIoctl, path>> /\ step \in Reading
      BY <1>4, IoctlFresh
         DEF GetInfoFromDisk, GetIdentity, IdentifyNvme, GetBlocks, GetBytes, GetSectorSize,
             GetSizeFallback, During, caller, kernel
    <2>2. ASSUME NEW size, Return(size), Entered(path, [info EXCEPT !.size = size])
          PROVE  Inventory!Next
      <3> DEFINE e == [info EXCEPT !.size = size]
      <3>1. TypeInv'
        BY <1>4, IoctlsTyped DEF IInv
      <3>2. EntryOK(e)
        BY <2>1, <2>2, <3>1, EnteredOK
      <3>3. info \in Info /\ e.drive = info.drive /\ e.size = size /\ e.isEmpty = info.isEmpty
        BY DEF IInv, TypeInv, TypeOK, Info
      <3>4. Seen' = NoDrive
        BY <2>2, EmptyInfoOK DEF Return, Seen
      <3>5. CASE info.isEmpty
        <4>1. Shown(e) = [drive |-> NoDrive, size |-> 0]
          BY <3>2, <3>3, <3>5 DEF EntryOK, Shown
        <4>2. Inventory!TellNothing(path)
          BY <2>1, <2>2, <3>4, <4>1, EnterStep DEF Inventory!TellNothing
        <4> QED
          BY <4>2 DEF Inventory!Next, IInv, Fresh
      <3>6. CASE ~info.isEmpty
        <4>1. Seen = info.drive /\ Seen # NoDrive /\ Seen \in Drives
          BY <3>2, <3>3, <3>6 DEF Seen, EntryOK, Info
        <4>2. Shown(e).size \in {0, [d \in Drives |-> 512 * d.blocks][Seen]}
          BY <3>2, <3>3, <4>1 DEF EntryOK, Shown
        <4>3. Shown(e) = [drive |-> Seen, size |-> Shown(e).size]
          BY <3>3, <4>1 DEF Shown
        <4>4. Inventory!Enter(path, Seen, Shown(e).size)
          BY <2>1, <2>2, <3>4, <4>3, EnterStep
        <4> QED
          BY <4>1, <4>2, <4>4 DEF Inventory!Next, Inventory!Tell
      <3> QED
        BY <3>5, <3>6
    <2>3. CASE step' \in Reading /\ UNCHANGED maps
      <3>1. Seen' = Seen
        <4>1. CASE GetIdentity \/ IdentifyNvme
          BY <2>3, <4>1, EmptyInfoOK
             DEF GetIdentity, IdentifyNvme, During, Continue, Identified, Return, Seen, Reading,
                 IInv, TypeInv, TypeOK, LocalsOK, Measuring, Info
        <4>2. CASE GetBlocks \/ GetBytes \/ GetSectorSize \/ GetSizeFallback
          BY <2>3, <4>2
             DEF GetBlocks, GetBytes, GetSectorSize, GetSizeFallback, During, Continue,
                 Return, Seen, Reading
        <4> QED
          BY <1>4, <4>1, <4>2 DEF GetInfoFromDisk
      <3>2. Reports' = Reports
        BY <2>1, <2>3, ReportsSame
      <3> QED
        BY <2>1, <3>1, <3>2
    <2> QED
      BY <1>4, <2>2, <2>3, IoctlFresh
  <1>5. CASE Hotplug
    <2>1. PICK disk \in Disks, drive \in Drives \cup {NoDrive} :
            Change(disk, drive) /\ file' \in {file, NoDrive}
      BY <1>5 DEF Hotplug, Unplug, Plug
    <2>2. Reports' = Reports
      BY <2>1, ReportsSame DEF Change
    <2>3. Seen' \in {Seen, NoDrive}
      BY <2>1 DEF Change, Seen
    <2>4. Inventory!Change(disk, drive)
      BY <2>1, <2>2, <2>3 DEF Change, Inventory!Change, caller
    <2> QED
      BY <2>4 DEF Inventory!Next
  <1> QED
    BY <1>1, <1>2, <1>3, <1>4, <1>5 DEF Next, Program

\* getDisksInfo makes its lists as DriveInventory says, whatever is unplugged or
\* plugged in between two of its calls.
THEOREM Refinement == Spec => KeepsInventory
  <1>1. Init => Inventory!Init
    BY InventoryInit
  <1>2. IInv /\ [Next]_vars => [Inventory!Next]_(Inventory!inventoryVars)
    BY InventoryStep
  <1> QED
    BY <1>1, <1>2, Invariance, PTL DEF Spec, KeepsInventory, Inventory!Spec

=============================================================================
