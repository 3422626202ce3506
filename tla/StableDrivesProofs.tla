-------------------------- MODULE StableDrivesProofs --------------------------
(***************************************************************************)
(* A drive that stays plugged in is in both reports: HardDisk, for any     *)
(* names, drives, limits and number of events.                             *)
(***************************************************************************)
EXTENDS HardDiskProofs

-----------------------------------------------------------------------------
(***************************************************************************)
(* The inductive invariant, in parts.                                      *)
(***************************************************************************)

\* No drive is in two places.
Apart ==
  \A c, d \in Disks : attached[c] = attached[d] => c = d \/ attached[c] = NoDrive

\* While a stable disk is asked, its drive stays behind the descriptor.
StableHeld ==
  (step \in Reading /\ path \in stable) =>
    /\ file = attached[path] /\ file # NoDrive
    /\ step = "identify" => file.type # "ATA"
    /\ step = "fallback" => sectsize = file.sector

\* The drive of a stable disk is not found under another name.
NotAt(drive, disk) ==
  /\ step \in Reading /\ path # disk => file # drive /\ info.drive # drive
  /\ \A p \in 1..2 : \A other \in DOMAIN maps[p] \ {disk} : maps[p][other].drive # drive

OnlyThere == \A d \in stable : attached[d] # NoDrive => NotAt(attached[d], d)

\* What a pass does about a disk: its name is still to be read, or its turn
\* still to come, or it is being asked; and then its entry is there.
Waiting(disk) ==
  \/ step = "readdir" /\ \E n \in unread : WholeDisk(n) = disk
  \/ disk \in disks
  \/ step \in Reading /\ path = disk

Entry(drive) == [isEmpty |-> FALSE, drive |-> drive, size |-> 512 * drive.blocks]

Listed(p, disk) == disk \in DOMAIN maps[p] /\ maps[p][disk] = Entry(attached[disk])

Between == {"opendir", "print", "done"}
Finished(p) == p < pass \/ step \in {"print", "done"}

Reached ==
  \A d \in stable : IsTellable(d) =>
    /\ \A p \in 1..2 : Finished(p) => Listed(p, d)
    /\ step \notin Between => Waiting(d) \/ Listed(pass, d)

StableInv == Apart /\ StableHeld /\ OnlyThere /\ (Enough => Reached)

-----------------------------------------------------------------------------
\* The steps, as far as the invariant is concerned.
LEMMA HotplugShape ==
  ASSUME Hotplug
  PROVE  \E disk \in Disks, drive \in Drives \cup {NoDrive} :
           /\ attached' = [attached EXCEPT ![disk] = drive]
           /\ stable' = stable \ {disk}
           /\ drive # NoDrive => \A d \in Disks : attached[d] # drive
           /\ file' = file \/ (disk = path /\ file' = NoDrive)
           /\ UNCHANGED <<bytesIoctl, pass, step, unread, disks, path, info, sectsize, open, maps>>
  <1>1. PICK disk \in Disks : Unplug(disk) \/ \E drive \in Drives : Plug(disk, drive)
    BY DEF Hotplug
  <1>2. CASE Unplug(disk)
    BY <1>2 DEF Unplug, Change, caller
  <1>3. ASSUME NEW drive \in Drives, Plug(disk, drive)
        PROVE  /\ attached' = [attached EXCEPT ![disk] = drive]
               /\ stable' = stable \ {disk}
               /\ \A d \in Disks : attached[d] # drive
               /\ file' = file
               /\ UNCHANGED <<bytesIoctl, pass, step, unread, disks, path, info, sectsize, open, maps>>
    BY <1>3 DEF Plug, Change, caller
  <1> QED
    BY <1>1, <1>2, <1>3

LEMMA ProgramShape ==
  ASSUME IInv, Program
  PROVE  UNCHANGED <<bytesIoctl, attached, stable>>
  BY DEF Program, OpenDir, CloseDir, EndOfPass, OpenLog, OpenHtml, ReadDir, Open,
         GetInfoFromDisk, GetIdentity, IdentifyNvme, GetBlocks, GetBytes, GetSectorSize,
         GetSizeFallback, During, kernel

\* Everything but Open and getInfoFromDisk.
Listing ==
  \/ OpenDir \/ CloseDir \/ EndOfPass \/ OpenLog \/ OpenHtml
  \/ \E name \in Names : ReadDir(name)

LEMMA ListingShape ==
  ASSUME Listing
  PROVE  /\ UNCHANGED <<maps, path, file, info, sectsize, attached, stable, bytesIoctl>>
         /\ step \notin Reading /\ step' \notin Reading
  BY DEF Listing, OpenDir, CloseDir, EndOfPass, OpenLog, OpenHtml, ReadDir, local, kernel,
         Go, Reading

LEMMA ReadingShape ==
  ASSUME IInv, GetInfoFromDisk
  PROVE  /\ step \in Reading /\ UNCHANGED <<path, disks, pass, unread>>
         /\ \/ \E size : Return(size) /\ Entered(path, [info EXCEPT !.size = size])
            \/ /\ step' \in Reading /\ UNCHANGED <<file, maps>>
               /\ info'.drive \in {info.drive, file}
  <1>1. /\ step \in Reading /\ UNCHANGED <<path, disks, pass, unread>>
        /\ \/ \E size : Return(size) /\ Entered(path, [info EXCEPT !.size = size])
           \/ step' \in Reading /\ UNCHANGED maps
    <2>1. UNCHANGED <<disks, pass, unread>>
      BY DEF GetInfoFromDisk, GetIdentity, IdentifyNvme, GetBlocks, GetBytes, GetSectorSize,
             GetSizeFallback, During, caller
    <2> QED
      BY <2>1, IoctlFresh
  <1>2. (step' # "next") => file' = file /\ info'.drive \in {info.drive, file}
    <2> USE DEF During, Continue, Return
    <2>1. CASE GetIdentity \/ IdentifyNvme
      BY <2>1 DEF GetIdentity, IdentifyNvme, Identified, IInv, TypeInv, TypeOK, Info
    <2>2. CASE GetBlocks \/ GetBytes \/ GetSectorSize \/ GetSizeFallback
      BY <2>2 DEF GetBlocks, GetBytes, GetSectorSize, GetSizeFallback
    <2> QED
      BY <2>1, <2>2 DEF GetInfoFromDisk
  <1> QED
    BY <1>1, <1>2 DEF Reading

-----------------------------------------------------------------------------
\* Initially.
LEMMA InitStable == Init => StableInv
  <1> SUFFICES ASSUME Init
               PROVE  StableInv
    OBVIOUS
  <1>1. Apart
    BY AttachedAssumption DEF Init, AttachedAssumption, Apart
  <1>2. StableHeld /\ OnlyThere
    BY DEF Init, StableHeld, OnlyThere, NotAt, Reading
  <1>3. Reached
    BY DEF Init, Reached, Finished, Between
  <1> QED
    BY <1>1, <1>2, <1>3 DEF StableInv

LEMMA StepApart == IInv /\ Apart /\ [Next]_vars => Apart'
  <1> SUFFICES ASSUME IInv, Apart, [Next]_vars
               PROVE  Apart'
    OBVIOUS
  <1>1. CASE Program \/ UNCHANGED vars
    BY <1>1, ProgramShape DEF Apart, vars, kernel
  <1>2. CASE Hotplug
    <2>1. PICK disk \in Disks, drive \in Drives \cup {NoDrive} :
            /\ attached' = [attached EXCEPT ![disk] = drive]
            /\ drive # NoDrive => \A d \in Disks : attached[d] # drive
      BY <1>2, HotplugShape
    <2> QED
      BY <2>1 DEF Apart, IInv, TypeInv, TypeOK
  <1> QED
    BY <1>1, <1>2 DEF Next

LEMMA StepHeld == IInv /\ StableHeld /\ [Next]_vars => StableHeld'
  <1> SUFFICES ASSUME IInv, StableHeld, [Next]_vars, step' \in Reading, path' \in stable'
               PROVE  /\ file' = attached'[path'] /\ file' # NoDrive
                      /\ step' = "identify" => file'.type # "ATA"
                      /\ step' = "fallback" => sectsize' = file'.sector
    BY DEF StableHeld
  <1>1. CASE Listing
    BY <1>1, ListingShape
  <1>2. ASSUME NEW disk \in disks, Open(disk)
        PROVE  /\ file' = attached'[path'] /\ file' # NoDrive
               /\ step' = "identify" => file'.type # "ATA"
               /\ step' = "fallback" => sectsize' = file'.sector
    <2>1. /\ step' = "identity" /\ HasDrive(disk) /\ path' = disk /\ file' = attached[disk]
          /\ UNCHANGED kernel
      BY <1>2, OpenFresh DEF Entered, Reading
    <2> QED
      BY <2>1 DEF HasDrive, kernel
  <1>3. CASE GetInfoFromDisk
    <2>1. step' # "next"
      BY DEF Reading
    <2>2. step \in Reading /\ UNCHANGED <<path, file>>
      BY <1>3, <2>1, ReadingShape DEF Return
    <2>3. UNCHANGED <<attached, stable>>
      BY <1>3, ProgramShape DEF Program
    <2>4. /\ step' = "fallback" => sectsize' = IF file # NoDrive THEN file.sector ELSE 0
          /\ step' = "identify" => file = NoDrive \/ file.type # "ATA"
      BY <1>3, <2>1
         DEF GetInfoFromDisk, GetIdentity, IdentifyNvme, GetBlocks, GetBytes, GetSectorSize,
             GetSizeFallback, Continue, Return, IsThere, Answers
    <2> QED
      BY <2>2, <2>3, <2>4 DEF StableHeld
  <1>4. CASE Hotplug
    <2>1. PICK disk \in Disks, drive \in Drives \cup {NoDrive} :
            /\ attached' = [attached EXCEPT ![disk] = drive]
            /\ stable' = stable \ {disk}
            /\ file' = file \/ (disk = path /\ file' = NoDrive)
            /\ UNCHANGED <<step, path, sectsize>>
      BY <1>4, HotplugShape
    <2>2. path # disk /\ path \in stable /\ step \in Reading
      BY <2>1
    <2> QED
      BY <2>1, <2>2 DEF StableHeld, IInv, TypeInv, TypeOK, Fresh
  <1>5. CASE UNCHANGED vars
    BY <1>5 DEF vars, kernel, caller, local, StableHeld
  <1> QED
    BY <1>1, <1>2, <1>3, <1>4, <1>5 DEF Next, Program, Listing

LEMMA EnteredNotAt ==
  ASSUME IInv, NEW drive, NEW disk, NotAt(drive, disk), step' = "next",
         NEW d, NEW e, Entered(d, e), d = disk \/ e.drive # drive
  PROVE  NotAt(drive, disk)'
  <1>1. /\ \A p \in 1..2 : p # pass => maps'[p] = maps[p]
        /\ maps'[pass] = [c \in DOMAIN maps[pass] \cup {d} |->
                            IF c = d THEN e ELSE maps[pass][c]]
    BY InsertInto DEF IInv, TypeInv, Entered
  <1>2. ASSUME NEW p \in 1..2, NEW other \in DOMAIN maps'[p] \ {disk}
        PROVE  maps'[p][other].drive # drive
    <2>1. CASE p = pass
      BY <1>1, <2>1 DEF NotAt
    <2>2. CASE p # pass
      BY <1>1, <2>2 DEF NotAt
    <2> QED
      BY <2>1, <2>2
  <1> QED
    BY <1>2 DEF NotAt, Reading

LEMMA StepOnlyThere == IInv /\ Apart /\ OnlyThere /\ [Next]_vars => OnlyThere'
  <1> SUFFICES ASSUME IInv, Apart, OnlyThere, [Next]_vars,
                      NEW d \in stable', attached'[d] # NoDrive
               PROVE  NotAt(attached[d], d)'
    BY DEF OnlyThere
  <1>1. d \in stable /\ d \in Disks /\ attached'[d] = attached[d]
    <2>1. stable \subseteq Disks /\ DOMAIN attached = Disks
      BY DEF IInv, TypeInv, TypeOK
    <2>2. CASE Program \/ UNCHANGED vars
      BY <2>1, <2>2, ProgramShape DEF vars, kernel
    <2>3. CASE Hotplug
      BY <2>1, <2>3, HotplugShape
    <2> QED
      BY <2>2, <2>3 DEF Next
  <1>2. PICK drive : drive = attached[d]
    OBVIOUS
  <1>3. NotAt(drive, d) /\ drive # NoDrive
    BY <1>1, <1>2 DEF OnlyThere
  <1>4. SUFFICES NotAt(drive, d)'
    BY <1>1, <1>2 DEF NotAt
  <1>5. CASE Listing
    BY <1>3, <1>5, ListingShape DEF NotAt
  <1>6. ASSUME NEW disk \in disks, Open(disk)
        PROVE  NotAt(drive, d)'
    <2>1. CASE Entered(disk, EmptyInfo) /\ step = "next"
      BY <1>3, <2>1, EnteredNotAt, EmptyInfoOK DEF Entered
    <2>2. CASE /\ HasDrive(disk) /\ path' = disk /\ file' = attached[disk]
               /\ info' = EmptyInfo /\ UNCHANGED maps
      <3>1. disk # d => attached[disk] # drive
        BY <1>1, <1>2, <2>2 DEF Apart, HasDrive
      <3> QED
        BY <1>3, <2>2, <3>1, EmptyInfoOK DEF NotAt
    <2> QED
      BY <1>6, <2>1, <2>2, OpenFresh
  <1>7. CASE GetInfoFromDisk
    <2>1. ASSUME NEW size, Return(size), Entered(path, [info EXCEPT !.size = size])
          PROVE  NotAt(drive, d)'
      <3>1. step \in Reading /\ step' = "next"
        BY <1>7, <2>1, ReadingShape DEF Return
      <3>2. path = d \/ [info EXCEPT !.size = size].drive # drive
        BY <1>3, <3>1 DEF NotAt, IInv, TypeInv, TypeOK, Info
      <3> QED
        BY <1>3, <2>1, <3>1, <3>2, EnteredNotAt
    <2>2. CASE /\ step \in Reading /\ UNCHANGED <<path, file, maps>>
               /\ info'.drive \in {info.drive, file}
      BY <1>3, <2>2 DEF NotAt
    <2> QED
      BY <1>7, <2>1, <2>2, ReadingShape
  <1>8. CASE Hotplug
    <2>1. /\ UNCHANGED <<step, path, info, maps>>
          /\ file' \in {file, NoDrive}
      BY <1>8, HotplugShape
    <2> QED
      BY <1>3, <2>1 DEF NotAt
  <1>9. CASE UNCHANGED vars
    BY <1>3, <1>9 DEF NotAt, vars, local
  <1> QED
    BY <1>5, <1>6, <1>7, <1>8, <1>9 DEF Next, Program, Listing

-----------------------------------------------------------------------------
(***************************************************************************)
(* Every pass comes to every stable disk, and gets its answer.             *)
(***************************************************************************)
\* What readdir makes of a name is what it makes of the name's whole disk.
LEMMA FoundByName ==
  ASSUME NEW n \in Names, NEW disk, WholeDisk(n) = disk, IsDisk(disk), DiskFound(disk) = disk
  PROVE  IsDisk(n) /\ DiskFound(n) = disk
  <1>1. n \in [kind : {"sd", "nvme", "other"}, unit : Seq(Nat), part : Nat]
    BY NamesAssumption DEF NamesAssumption
  <1>2. disk.kind = n.kind /\ disk.unit = n.unit
    BY <1>1 DEF WholeDisk
  <1> QED
    BY <1>2 DEF IsDisk, DiskFound

LEMMA HasName ==
  ASSUME NEW disk \in Disks
  PROVE  \E n \in Names : WholeDisk(n) = disk
  BY DEF Disks

\* Entering a disk leaves the entries of the others.
LEMMA EnteredListed ==
  ASSUME IInv, NEW p \in 1..2, NEW disk, Listed(p, disk), UNCHANGED attached,
         NEW d, NEW e, Entered(d, e)
  PROVE  Listed(p, disk)'
  <1>1. /\ \A q \in 1..2 : q # pass => maps'[q] = maps[q]
        /\ maps'[pass] = [c \in DOMAIN maps[pass] \cup {d} |->
                            IF c = d THEN e ELSE maps[pass][c]]
        /\ d \notin DOMAIN maps[pass]
    BY InsertInto DEF IInv, TypeInv, Entered
  <1>2. CASE p = pass
    BY <1>1, <1>2 DEF Listed
  <1>3. CASE p # pass
    BY <1>1, <1>3 DEF Listed
  <1> QED
    BY <1>2, <1>3

\* What getInfoFromDisk does with a drive that stays and can be told: it does
\* not return before it has the drive's size.
LEMMA ToldRight ==
  ASSUME IInv, StableHeld, GetInfoFromDisk, path \in stable, IsTellable(path),
         step' \notin Reading
  PROVE  Entered(path, Entry(attached[path]))
  <1> DEFINE drive == attached[path]
  <1>1. /\ file = drive /\ file # NoDrive /\ step \in Reading
        /\ step = "identify" => drive.type # "ATA"
        /\ step = "fallback" => sectsize = drive.sector
    BY ReadingShape DEF StableHeld
  <1>2. /\ drive \in Drives /\ drive.blocks \in Nat /\ drive.blocks <= LongMax
        /\ drive.type \in {"ATA", "NVME"} /\ IsMeasurable(drive)
    BY <1>1, DrivesAssumption DEF IsTellable, DrivesAssumption, IInv, TypeInv, TypeOK
  <1>3. IsThere /\ BlocksFit
    BY <1>1, <1>2, KernelAssumption DEF IsThere, BlocksFit, KernelAssumption
  <1>4. step \in Measuring => /\ info \in Info /\ ~info.isEmpty
                              /\ info.drive = drive /\ info.size = 0
    BY <1>1 DEF IInv, TypeInv, TypeOK, LocalsOK
  <1>5. GetBytes \/ GetSizeFallback
    <2>1. ~GetIdentity /\ ~GetSectorSize /\ ~GetBlocks
      BY <1>3 DEF GetIdentity, GetSectorSize, GetBlocks, Continue, Reading
    <2>2. ~IdentifyNvme
      <3>1. SUFFICES ASSUME step = "identify", IdentifyNvme PROVE FALSE
        BY DEF IdentifyNvme, During
      <3>2. Answers("NVME")
        BY <1>1, <1>2, <1>3, <3>1 DEF Answers
      <3> QED
        BY <3>1, <3>2 DEF IdentifyNvme, Reading
    <2> QED
      BY <2>1, <2>2 DEF GetInfoFromDisk
  <1>6. PICK size : size = 512 * drive.blocks
    OBVIOUS
  <1>7. step \in Measuring /\ Return(size)
    <2>1. CASE GetBytes
      <3>1. step = "bytes" /\ Bytes = size
        BY <1>1, <1>3, <1>6, <2>1 DEF GetBytes, During, Bytes
      <3> QED
        BY <1>3, <2>1, <3>1 DEF GetBytes, Continue, Reading, Measuring
    <2>2. CASE GetSizeFallback
      <3>1. step = "fallback" /\ sectsize = drive.sector /\ info.size = 0
        BY <1>1, <1>4, <2>2 DEF GetSizeFallback, During, Measuring
      <3>2. ~bytesIoctl
        BY <1>1, <3>1 DEF IInv, TypeInv, LocalsOK
      <3>3. sectsize = 512
        BY <1>2, <3>1, <3>2 DEF IsMeasurable
      <3>4. Signed(file.blocks) = drive.blocks
        BY <1>1, <1>2, KernelAssumption DEF Signed, KernelAssumption
      <3>5. (IF drive.blocks > 0 /\ sectsize > 0 THEN drive.blocks * sectsize ELSE info.size) = size
        BY <1>2, <1>6, <3>1, <3>3
      <3> QED
        BY <1>3, <2>2, <3>1, <3>4, <3>5 DEF GetSizeFallback, Measuring
    <2> QED
      BY <1>5, <2>1, <2>2
  <1>8. Entered(path, [info EXCEPT !.size = size])
    <2>1. UNCHANGED <<caller, disks>>
      BY <1>5 DEF GetBytes, GetSizeFallback, During
    <2> QED
      BY <1>1, <1>7, <2>1, ReturnEnters
  <1>9. [info EXCEPT !.size = size] = Entry(drive)
    <2>1. info.isEmpty = FALSE
      BY <1>4, <1>7 DEF Info
    <2>2. [info EXCEPT !.size = size]
            = [isEmpty |-> info.isEmpty, drive |-> info.drive, size |-> size]
      BY <1>4, <1>7 DEF Info
    <2>3. info.drive = drive
      BY <1>4, <1>7
    <2> HIDE DEF drive
    <2> QED
      BY <1>6, <2>1, <2>2, <2>3 DEF Entry
  <1> QED
    BY <1>8, <1>9

\* The steps that leave disks_map alone leave what it lists.
LEMMA ListedSame ==
  ASSUME NEW p, NEW disk, Listed(p, disk), UNCHANGED maps, attached'[disk] = attached[disk]
  PROVE  Listed(p, disk)'
  BY DEF Listed

LEMMA StepReached ==
  IInv /\ OwedInv /\ StableHeld /\ Enough /\ Reached /\ [Next]_vars => Reached'
  <1> SUFFICES ASSUME IInv, OwedInv, StableHeld, Enough, Reached, [Next]_vars,
                      NEW d \in stable', IsTellable(d)'
               PROVE  /\ \A p \in 1..2 : Finished(p)' => Listed(p, d)'
                      /\ step' \notin Between => Waiting(d)' \/ Listed(pass, d)'
    BY DEF Reached
  <1>1. d \in stable /\ d \in Disks /\ attached'[d] = attached[d] /\ bytesIoctl' = bytesIoctl
    <2>1. stable \subseteq Disks /\ DOMAIN attached = Disks
      BY DEF IInv, TypeInv, TypeOK
    <2>2. CASE Program \/ UNCHANGED vars
      BY <2>1, <2>2, ProgramShape DEF vars, kernel
    <2>3. CASE Hotplug
      BY <2>1, <2>3, HotplugShape
    <2> QED
      BY <2>2, <2>3 DEF Next
  <1>2. IsTellable(d)
    BY <1>1 DEF IsTellable, IsMeasurable
  <1>3. /\ \A p \in 1..2 : Finished(p) => Listed(p, d)
        /\ step \notin Between => Waiting(d) \/ Listed(pass, d)
    BY <1>1, <1>2 DEF Reached
  <1>4. pass \in 1..2
    BY DEF IInv, TypeInv, TypeOK
  \* disks_map is left alone and no pass ends.
  <1>5. ASSUME UNCHANGED <<maps, pass>>,
               step' \in {"print", "done"} => step \in {"print", "done"},
               step' \notin Between /\ Waiting(d) => Waiting(d)',
               step' \notin Between => step \notin Between
        PROVE  /\ \A p \in 1..2 : Finished(p)' => Listed(p, d)'
               /\ step' \notin Between => Waiting(d)' \/ Listed(pass, d)'
    <2>1. \A p \in 1..2 : Finished(p)' => Listed(p, d)'
      BY <1>1, <1>3, <1>5, ListedSame DEF Finished
    <2>2. step' \notin Between => Waiting(d)' \/ Listed(pass, d)'
      BY <1>1, <1>3, <1>5 DEF Listed
    <2> QED
      BY <2>1, <2>2
  \* A disk is entered: another one, or this one as it should be.
  <1>6. ASSUME NEW c, NEW e, Entered(c, e), step \notin Between, UNCHANGED attached,
               c = d => e = Entry(attached[d]),
               c # d /\ Waiting(d) => Waiting(d)'
        PROVE  /\ \A p \in 1..2 : Finished(p)' => Listed(p, d)'
               /\ step' \notin Between => Waiting(d)' \/ Listed(pass, d)'
    <2>1. step' = "next" /\ pass' = pass
      BY <1>6 DEF Entered
    <2>2. \A p \in 1..2 : Finished(p)' => Listed(p, d)'
      BY <1>3, <1>6, <2>1, EnteredListed DEF Finished, Between
    <2>3. CASE c = d
      <3>1. maps'[pass] = [x \in DOMAIN maps[pass] \cup {c} |->
                             IF x = c THEN e ELSE maps[pass][x]]
        BY <1>6, InsertInto DEF IInv, TypeInv, Entered
      <3>2. Listed(pass, d)'
        BY <1>6, <2>1, <2>3, <3>1 DEF Listed
      <3> QED
        BY <2>2, <3>2
    <2>4. CASE c # d
      <3>1. Listed(pass, d) => Listed(pass, d)'
        <4>1. PICK p \in 1..2 : p = pass
          BY <1>4
        <4>2. Listed(p, d) => Listed(p, d)'
          BY <1>6, EnteredListed
        <4> QED
          BY <2>1, <4>1, <4>2 DEF Listed
      <3> QED
        BY <1>3, <1>6, <2>2, <2>4, <3>1
    <2> QED
      BY <2>3, <2>4
  <1>7. CASE OpenDir
    <2>1. CanOpen
      BY <1>7, OneIsLeft DEF OpenDir, Go
    <2>2. /\ step = "opendir" /\ step' = "readdir" /\ unread' = Names
          /\ UNCHANGED <<pass, maps>>
      BY <1>7, <2>1 DEF OpenDir, Go, caller
    <2>3. \E n \in Names : WholeDisk(n) = d
      BY <1>1, HasName
    <2>4. Waiting(d)'
      BY <2>2, <2>3 DEF Waiting
    <2>5. \A p \in 1..2 : Finished(p)' => Listed(p, d)'
      BY <1>1, <1>3, <2>2, ListedSame DEF Finished
    <2> QED
      BY <2>4, <2>5
  <1>8. ASSUME NEW name \in Names, ReadDir(name)
        PROVE  Waiting(d) => Waiting(d)'
    <2>1. /\ step = "readdir" /\ step' = step /\ unread' = unread \ {name}
          /\ disks \subseteq disks'
      BY <1>8 DEF ReadDir
    <2>2. CASE WholeDisk(name) = d
      <3>1. IsDisk(name) /\ DiskFound(name) = d /\ attached[d] # NoDrive
        BY <1>2, <2>2, FoundByName DEF IsTellable
      <3>2. d \in disks'
        BY <1>8, <2>2, <3>1 DEF ReadDir
      <3> QED
        BY <3>2 DEF Waiting
    <2>3. CASE WholeDisk(name) # d
      BY <2>1, <2>3 DEF Waiting, Reading
    <2> QED
      BY <2>2, <2>3
  <1>9. CASE CloseDir
    <2>1. /\ step = "readdir" /\ step' = "next" /\ unread = {}
          /\ UNCHANGED <<pass, maps, disks>>
      BY <1>9 DEF CloseDir, Go, caller
    <2>2. Waiting(d) => Waiting(d)'
      BY <2>1 DEF Waiting, Reading
    <2> QED
      BY <2>1, <2>2, <1>5 DEF Between
  <1>10. CASE EndOfPass
    <2>1. /\ step = "next" /\ disks = {} /\ maps' = maps
          /\ \/ pass = 1 /\ pass' = 2 /\ step' = "opendir"
             \/ pass = 2 /\ pass' = 2 /\ step' = "print"
      BY <1>4, <1>10 DEF EndOfPass, Go
    <2>2. Listed(pass, d)
      BY <1>3, <2>1 DEF Waiting, Reading, Between
    <2>3. \A p \in 1..2 : Finished(p)' => Finished(p) \/ p = pass
      BY <2>1 DEF Finished
    <2>4. \A p \in 1..2 : Finished(p)' => Listed(p, d)'
      BY <1>1, <1>3, <2>1, <2>2, <2>3, ListedSame
    <2> QED
      BY <2>1, <2>4 DEF Between
  <1>11. CASE OpenLog \/ OpenHtml
    <2>1. /\ UNCHANGED <<maps, pass>> /\ step \in Between /\ step' \in Between
          /\ step' \in {"print", "done"} => step \in {"print", "done"}
      BY <1>11 DEF OpenLog, OpenHtml, Go, Between
    <2> QED
      BY <2>1, <1>5
  <1>12. ASSUME NEW disk \in disks, Open(disk)
         PROVE  /\ \A p \in 1..2 : Finished(p)' => Listed(p, d)'
                /\ step' \notin Between => Waiting(d)' \/ Listed(pass, d)'
    <2>1. step = "next" /\ disks' = disks \ {disk} /\ UNCHANGED attached
      BY <1>12 DEF Open, Go, Rest, kernel
    <2>2. CanOpen
      BY <2>1, OneIsLeft
    <2>3. CASE disk = d \/ HasDrive(disk)
      <3>1. HasDrive(disk)
        BY <1>1, <1>2, <2>3 DEF IsTellable, HasDrive
      <3>2. step' = "identity" /\ path' = disk /\ UNCHANGED <<maps, pass>>
        BY <1>12, <2>2, <3>1 DEF Open, Go, caller
      <3>3. Waiting(d) => Waiting(d)'
        BY <2>1, <3>2 DEF Waiting, Reading
      <3> QED
        BY <2>1, <3>2, <3>3, <1>5 DEF Between
    <2>4. CASE disk # d /\ ~HasDrive(disk)
      <3>1. Entered(disk, EmptyInfo)
        BY <1>12, <2>4, OpenFresh
      <3>2. Waiting(d) => Waiting(d)'
        BY <2>1, <2>4 DEF Waiting, Reading
      <3> QED
        BY <2>1, <2>4, <3>1, <3>2, <1>6 DEF Between
    <2> QED
      BY <2>3, <2>4
  <1>13. CASE GetInfoFromDisk
    <2>1. UNCHANGED attached /\ step \in Reading /\ UNCHANGED <<path, disks, pass, unread>>
      BY <1>13, ReadingShape, ProgramShape DEF Program
    <2>2. step \notin Between
      BY <2>1 DEF Reading, Between
    <2>3. CASE step' \in Reading
      <3>1. UNCHANGED maps
        BY <1>13, <2>3, ReadingShape DEF Return, Reading
      <3>2. Waiting(d) => Waiting(d)'
        BY <2>1, <2>3 DEF Waiting, Reading
      <3> QED
        BY <2>1, <2>2, <2>3, <3>1, <3>2, <1>5 DEF Reading
    <2>4. CASE step' \notin Reading
      <3>1. PICK e : Entered(path, e)
        BY <1>13, <2>4, ReadingShape
      <3>2. CASE path = d
        <4>1. Entered(path, Entry(attached[d]))
          BY <1>1, <1>2, <1>13, <2>4, <3>2, ToldRight
        <4> QED
          BY <2>1, <2>2, <3>2, <4>1, <1>6
      <3>3. CASE path # d
        <4>1. Waiting(d) => Waiting(d)'
          BY <2>1, <3>3 DEF Waiting, Reading
        <4> QED
          BY <2>1, <2>2, <3>1, <3>3, <4>1, <1>6
      <3> QED
        BY <3>2, <3>3
    <2> QED
      BY <2>3, <2>4
  <1>14. CASE Hotplug \/ UNCHANGED vars
    <2>1. UNCHANGED <<maps, pass, step, unread, disks, path>>
      BY <1>14, HotplugShape DEF vars, caller, local
    <2>2. Waiting(d) => Waiting(d)'
      BY <2>1 DEF Waiting
    <2> QED
      BY <2>1, <2>2, <1>5
  <1>15. ASSUME NEW name \in Names, ReadDir(name)
         PROVE  /\ \A p \in 1..2 : Finished(p)' => Listed(p, d)'
                /\ step' \notin Between => Waiting(d)' \/ Listed(pass, d)'
    <2>1. UNCHANGED <<maps, pass, step>>
      BY <1>15 DEF ReadDir, caller
    <2> QED
      BY <1>8, <1>15, <2>1, <1>5
  <1> QED
    BY <1>7, <1>9, <1>10, <1>11, <1>12, <1>13, <1>14, <1>15 DEF Next, Program

-----------------------------------------------------------------------------
LEMMA StableInvariance == Spec => []StableInv
  <1>1. IInv /\ OwedInv /\ StableInv /\ [Next]_vars => StableInv'
    <2> SUFFICES ASSUME IInv, OwedInv, StableInv, [Next]_vars
                 PROVE  StableInv'
      OBVIOUS
    <2>1. Apart' /\ StableHeld' /\ OnlyThere'
      BY StepApart, StepHeld, StepOnlyThere DEF StableInv
    <2>2. Enough' => Reached'
      <3>1. Enough' = Enough
        BY DEF Enough
      <3> QED
        BY <3>1, StepReached DEF StableInv
    <2> QED
      BY <2>1, <2>2 DEF StableInv
  <1> QED
    BY <1>1, InitStable, Invariance, OwedInvariance, PTL DEF Spec

\* A drive that stays is in the terminal's list and in report.html with its own
\* size and under no other name, whatever is plugged in or unplugged beside it,
\* if the process may have one descriptor for each name found in each pass and
\* one more.
THEOREM StableDrives == Spec => []StableDrivesAreReported
  <1>1. StableInv => StableDrivesAreReported
    <2> SUFFICES ASSUME StableInv, step = "done", Enough,
                        NEW disk \in stable, NEW p \in 1..2, IsTellable(disk)
                 PROVE  /\ disk \in DOMAIN maps[p]
                        /\ maps[p][disk] = Entry(attached[disk])
                        /\ \A other \in DOMAIN maps[p] \ {disk} :
                             maps[p][other].drive # attached[disk]
      BY DEF StableDrivesAreReported, Enough, Entry
    <2>1. Listed(p, disk)
      BY DEF StableInv, Reached, Finished
    <2>2. NotAt(attached[disk], disk)
      BY DEF StableInv, OnlyThere, IsTellable
    <2> QED
      BY <2>1, <2>2 DEF Listed, NotAt
  <1> QED
    BY <1>1, StableInvariance, PTL

=============================================================================
