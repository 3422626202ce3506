------------------------------- MODULE HardDisk -------------------------------
(***************************************************************************)
(* getDisksInfo() of hard_disk.cpp, run twice as main() does: once for the *)
(* terminal, once for the HTML report, together with the second reading of *)
(* the log, in an order C++ leaves open.  Each pass lists /dev, opens every *)
(* disk found and asks it who it is and how large it is, one ioctl after   *)
(* another.  Drives are plugged and unplugged at any moment in between.    *)
(*                                                                         *)
(* A name in /dev is a record: sdab3 is kind "sd", unit <<1, 2>>, part 3;  *)
(* nvme0n1p2 is kind "nvme", unit <<0, 1>>, part 2.  What a drive tells of *)
(* itself (product, serial number, version or firmware) is the drive.      *)
(***************************************************************************)
EXTENDS Integers, Sequences, FiniteSets

CONSTANTS
  Names,        \* names that may appear in /dev
  Drives,       \* [type, blocks, sector]: "ATA", "NVME" or another type, the
                \* number of 512-byte blocks, the bytes of a logical sector
  NoDrive,
  Attached,     \* Init: the whole-disk names that have a drive, and which
  Kernels,      \* whether the kernel has BLKGETSIZE64: the cases to consider
  LongMax,      \* largest value of a long
  FileLimit,    \* descriptors the process may have open besides its own three
  MaxEvents     \* bound: drives plugged or unplugged during the run

ASSUME NamesAssumption ==
  /\ Names # {} /\ IsFiniteSet(Names)
  /\ Names \subseteq [kind : {"sd", "nvme", "other"}, unit : Seq(Nat), part : Nat]

ASSUME DrivesAssumption ==
  /\ NoDrive \notin Drives
  /\ \A d \in Drives : d.type \in {"ATA", "NVME", "SCSI"} /\ d.blocks \in Nat /\ d.sector \in Nat

ASSUME KernelAssumption ==
  Kernels \subseteq BOOLEAN /\ LongMax \in Nat /\ FileLimit \in Nat /\ MaxEvents \in Nat

WholeDisk(name) == [name EXCEPT !.part = 0]
Disks == {WholeDisk(n) : n \in Names}

ASSUME AttachedAssumption ==
  /\ Attached \in [Disks -> Drives \cup {NoDrive}]
  /\ \A c, d \in Disks : Attached[c] = Attached[d] => c = d \/ Attached[c] = NoDrive

VARIABLES
  bytesIoctl, \* whether the kernel has BLKGETSIZE64
  attached,   \* whole disk -> the drive there now
  stable,     \* disks no event has touched
  events,
  pass,       \* 1: for the terminal, 2: for the HTML report
  step,       \* the call getDisksInfo makes next
  unread,     \* names readdir has not come to
  disks,      \* disks_set, less the elements the loop is done with
  path,       \* device_name
  file,       \* the drive behind diskFile, NoDrive once it is unplugged
  info,       \* hard_disk_info
  sectsize,
  open,       \* descriptors open
  maps,       \* pass -> disks_map
  log,        \* "unread", then whether the log could be opened the second time
  html        \* whether report.html could be opened

kernel == <<bytesIoctl, attached, stable, events>>
caller == <<pass, log, html>>
local == <<path, file, info, sectsize>>
vars == <<kernel, caller, step, unread, disks, local, open, maps>>

Go(from, to) == step = from /\ step' = to

-----------------------------------------------------------------------------
\* Names.  "(sd[a-z])|(nvme[0-9][a-z][0-9])" is searched for in the name: of
\* several letters it keeps the first, of a namespace the first digit; a
\* controller of two digits it does not find.
LeadingDigit(n) == IF n < 10 THEN n ELSE n \div 10

IsDisk(name) == name.kind = "sd" \/ (name.kind = "nvme" /\ name.unit[1] < 10)

DiskFound(name) ==
  [kind |-> name.kind, part |-> 0,
   unit |-> IF name.kind = "sd" THEN <<name.unit[1]>>
            ELSE <<name.unit[1], LeadingDigit(name.unit[2])>>]

\* initializeHardDiskInfoStructure
EmptyInfo == [isEmpty |-> TRUE, drive |-> NoDrive, size |-> 0]

-----------------------------------------------------------------------------
\* getDisksSet.  opendir needs a descriptor, closedir gives it back.
CanOpen == open < FileLimit

OpenDir ==
  /\ \/ Go("opendir", "readdir") /\ CanOpen /\ unread' = Names /\ open' = open + 1
     \/ Go("opendir", "next") /\ ~CanOpen /\ UNCHANGED <<unread, open>>
  /\ disks' = {}
  /\ UNCHANGED <<caller, maps, local, kernel>>

\* A name is seen when its drive is there as readdir comes to it.
ReadDir(name) ==
  /\ step = "readdir" /\ name \in unread
  /\ unread' = unread \ {name}
  /\ disks' = IF attached[WholeDisk(name)] # NoDrive /\ IsDisk(name)
              THEN disks \cup {DiskFound(name)} ELSE disks
  /\ UNCHANGED <<caller, step, open, maps, local, kernel>>

\* (Seeded fault: the directory stays open.)
LeaveDirOpen ==
  /\ Go("readdir", "next") /\ unread = {}
  /\ UNCHANGED <<caller, unread, disks, open, maps, local, kernel>>

CloseDir ==
  /\ Go("readdir", "next") /\ unread = {}
  /\ open' = open - 1
  /\ UNCHANGED <<caller, unread, disks, maps, local, kernel>>

-----------------------------------------------------------------------------
\* getInfoFromDisk, and the insertion of what it returns.
Insert(disk, entry) ==
  maps' = [maps EXCEPT ![pass] =
             [d \in DOMAIN @ \cup {disk} |-> IF d = disk THEN entry ELSE @[d]]]

IsThere == file # NoDrive
HasDrive(disk) == disk \in Disks /\ attached[disk] # NoDrive

\* The elements the loop still comes to.  (Seeded faults: a disk that cannot be
\* opened ends the loop; the loop stays where it is.)
RestUnlessFailed(disk) == IF HasDrive(disk) /\ CanOpen THEN disks \ {disk} ELSE {}
RestAndItself(disk) == disks

Rest(disk) == disks \ {disk}

Open(disk) ==
  /\ disk \in disks /\ disks' = Rest(disk)
  /\ \/ /\ Go("next", "identity") /\ HasDrive(disk) /\ CanOpen
        /\ path' = disk /\ file' = attached[disk] /\ info' = EmptyInfo
        /\ open' = open + 1
        /\ UNCHANGED <<sectsize, maps>>
     \/ /\ step = "next" /\ ~(HasDrive(disk) /\ CanOpen)
        /\ Insert(disk, EmptyInfo)
        /\ UNCHANGED <<step, open, local>>
  /\ UNCHANGED <<caller, unread, kernel>>

\* return hard_disk_info, which ends the scope of the locals.  (Seeded faults
\* for close: it is called twice; it is forgotten.)
CloseTwice == open' = open - 2
LeaveOpen == UNCHANGED open

Close == open' = open - 1

Return(size) ==
  /\ step' = "next"
  /\ Insert(path, [info EXCEPT !.size = size])
  /\ info' = EmptyInfo /\ file' = NoDrive /\ sectsize' = 0

Continue(to) == step' = to /\ UNCHANGED <<file, info, sectsize, open, maps>>

During(from) == step = from /\ UNCHANGED <<caller, unread, disks, path, kernel>>

\* A drive that is still there answers the question made for its type.
Answers(type) == IsThere /\ file.type = type
Identified == info' = [info EXCEPT !.isEmpty = FALSE, !.drive = file]

\* HDIO_GET_IDENTITY
GetIdentity ==
  /\ During("identity")
  /\ \/ /\ Answers("ATA") /\ Identified
        /\ step' = "blocks" /\ UNCHANGED <<file, sectsize, open, maps>>
     \/ ~Answers("ATA") /\ Continue("identify")

\* NVME_IOCTL_ADMIN_CMD with opcode identify
IdentifyNvme ==
  /\ During("identify")
  /\ \/ /\ Answers("NVME") /\ Identified
        /\ step' = "blocks" /\ UNCHANGED <<file, sectsize, open, maps>>
     \/ ~Answers("NVME") /\ Close /\ Return(info.size)

\* BLKGETSIZE answers when the blocks fit in an unsigned long.  Of a drive that
\* is gone the descriptor reads zero blocks, or the call fails.
BlocksFit == IsThere => file.blocks <= 2 * LongMax + 1

GetBlocks ==
  /\ During("blocks")
  /\ \/ BlocksFit /\ Continue("bytes")
     \/ ~(IsThere /\ BlocksFit) /\ Close /\ Return(info.size)

\* BLKGETSIZE64.  (Seeded fault: it is asked of the name, not the descriptor.)
BytesOfName == IF HasDrive(path) THEN 512 * attached[path].blocks ELSE 0

Bytes == IF IsThere THEN 512 * file.blocks ELSE 0

GetBytes ==
  /\ During("bytes")
  /\ \/ bytesIoctl /\ Return(Bytes) /\ UNCHANGED open
     \/ ~(IsThere /\ bytesIoctl) /\ Continue("sectsize")

\* BLKSSZGET
GetSectorSize ==
  /\ During("sectsize") /\ step' = "fallback"
  /\ sectsize' = IF IsThere THEN file.sector ELSE 0
  /\ UNCHANGED <<file, info, open, maps>>

\* BLKGETSIZE again, into a long: a value above LongMax reads as negative.
Signed(n) == IF n > LongMax THEN n - 2 * (LongMax + 1) ELSE n

GetSizeFallback ==
  /\ During("fallback")
  /\ LET size == IF IsThere /\ BlocksFit THEN Signed(file.blocks) ELSE 0
     IN  Return(IF size > 0 /\ sectsize > 0 THEN size * sectsize ELSE info.size)
  /\ UNCHANGED open

-----------------------------------------------------------------------------
\* main.  getDisksInfo returns, and is called a second time; of that call and
\* the second reading of the log either may come first.
EndOfPass ==
  /\ disks = {}
  /\ \/ pass = 1 /\ Go("next", "opendir") /\ pass' = 2
     \/ pass = 2 /\ Go("next", "print") /\ UNCHANGED pass
  /\ UNCHANGED <<log, html, unread, disks, open, maps, local, kernel>>

\* A log that cannot be opened is read as an empty one; its descriptor is
\* closed with the scope.
OpenLog ==
  /\ pass = 2 /\ step \in {"opendir", "print"} /\ log = "unread"
  /\ log' = IF CanOpen THEN "read" ELSE "failed"
  /\ UNCHANGED <<pass, html, step, unread, disks, open, maps, local, kernel>>

\* printHTML
OpenHtml ==
  /\ Go("print", "done") /\ log # "unread"
  /\ html' = CanOpen
  /\ UNCHANGED <<pass, log, unread, disks, open, maps, local, kernel>>

-----------------------------------------------------------------------------
\* Drives come and go.
Change(disk, drive) ==
  /\ events < MaxEvents /\ step # "done"
  /\ attached' = [attached EXCEPT ![disk] = drive]
  /\ stable' = stable \ {disk}
  /\ events' = events + 1
  /\ UNCHANGED <<bytesIoctl, caller, step, unread, disks, path, info, sectsize, open, maps>>

Unplug(disk) ==
  /\ attached[disk] # NoDrive
  /\ Change(disk, NoDrive)
  /\ file' = IF disk = path THEN NoDrive ELSE file

Plug(disk, drive) ==
  /\ attached[disk] = NoDrive /\ \A d \in Disks : attached[d] # drive
  /\ disk.kind = IF drive.type = "NVME" THEN "nvme" ELSE "sd"
  /\ Change(disk, drive)
  /\ UNCHANGED file

Init ==
  /\ bytesIoctl \in Kernels
  /\ attached = Attached /\ stable = Disks /\ events = 0
  /\ pass = 1 /\ step = "opendir" /\ log = "unread" /\ html = FALSE
  /\ unread = {} /\ disks = {}
  /\ path = CHOOSE d \in Disks : TRUE
  /\ file = NoDrive /\ info = EmptyInfo /\ sectsize = 0
  /\ open = 0
  /\ maps = [p \in 1..2 |-> <<>>]

GetInfoFromDisk ==
  \/ GetIdentity \/ IdentifyNvme
  \/ GetBlocks \/ GetBytes \/ GetSectorSize \/ GetSizeFallback

Program ==
  \/ OpenDir \/ CloseDir \/ EndOfPass \/ OpenLog \/ OpenHtml
  \/ \E name \in Names : ReadDir(name)
  \/ \E disk \in disks : Open(disk)
  \/ GetInfoFromDisk

Hotplug ==
  \E disk \in Disks : Unplug(disk) \/ \E drive \in Drives : Plug(disk, drive)

Next == Program \/ Hotplug

Spec == Init /\ [][Next]_vars

\* The program runs on; nothing is assumed of hands and cables.
FairSpec == Spec /\ WF_vars(Program)

-----------------------------------------------------------------------------
(***************************************************************************)
(* Properties.                                                             *)
(***************************************************************************)
Info == [isEmpty : BOOLEAN, drive : Drives \cup {NoDrive}, size : Nat]

Steps == {"opendir", "readdir", "next", "identity", "identify", "blocks", "bytes",
          "sectsize", "fallback", "print", "done"}

\* disks_map and its elements are what they should be; no more descriptors are
\* open than the process may have, and none is closed that was not opened.
TypeOK ==
  /\ bytesIoctl \in BOOLEAN
  /\ attached \in [Disks -> Drives \cup {NoDrive}]
  /\ stable \subseteq Disks /\ events \in 0..MaxEvents
  /\ pass \in 1..2 /\ step \in Steps
  /\ log \in {"unread", "read", "failed"} /\ html \in BOOLEAN
  /\ unread \subseteq Names
  /\ file \in Drives \cup {NoDrive} /\ info \in Info /\ sectsize \in Nat
  /\ open \in 0..FileLimit
  /\ DOMAIN maps = 1..2
  /\ \A p \in 1..2 : maps[p] \in [DOMAIN maps[p] -> Info]

\* A size stands beside the drive it was measured on: whatever is unplugged,
\* or plugged in under the same name, between two of the ioctls, a size that
\* is reported is the size in bytes of the drive whose serial number is
\* reported with it.  (Without BLKGETSIZE64 only of drives with sectors of 512
\* bytes: the fallback multiplies blocks of 512 bytes with the sector size.)
IsMeasurable(drive) == bytesIoctl \/ drive.sector = 512

SizesAreTrue ==
  \A p \in 1..2 : \A d \in DOMAIN maps[p] :
    (maps[p][d].size # 0 /\ IsMeasurable(maps[p][d].drive))
      => maps[p][d].size = 512 * maps[p][d].drive.blocks

\* Every descriptor left open belongs to a drive that is in a report: a drive
\* that does not tell who it is, or vanishes before, costs none.
Told(p) == {d \in DOMAIN maps[p] : ~maps[p][d].isEmpty}

DescriptorsInUse == IF step \in {"opendir", "next", "print", "done"} THEN 0 ELSE 1

DescriptorsAccountedFor ==
  open <= DescriptorsInUse + Cardinality(Told(1)) + Cardinality(Told(2))

\* Whichever of its arguments main evaluates first, the descriptors that both
\* passes leave open keep neither the log from being read again nor the report
\* from being written, if the process may have one for each name found in each
\* pass and one more.
NamesFound == {DiskFound(n) : n \in {m \in Names : IsDisk(m)}}

ReportIsWritten ==
  (step = "done" /\ FileLimit > 2 * Cardinality(NamesFound)) => log = "read" /\ html

\* A drive that stays plugged in is in both reports, under its name and with
\* its size, whatever else comes and goes, although the first pass leaves its
\* descriptors to the second; and under no other name.  The regular expression
\* must tell its name, and a long hold its number of blocks.
IsTellable(disk) ==
  /\ attached[disk] # NoDrive /\ attached[disk].type \in {"ATA", "NVME"}
  /\ attached[disk].blocks <= LongMax /\ IsMeasurable(attached[disk])
  /\ IsDisk(disk) /\ DiskFound(disk) = disk

StableDrivesAreReported ==
  (step = "done" /\ FileLimit > 2 * Cardinality(NamesFound)) =>
    \A disk \in stable : \A p \in 1..2 :
      IsTellable(disk) =>
        /\ disk \in DOMAIN maps[p]
        /\ maps[p][disk] = [isEmpty |-> FALSE, drive |-> attached[disk],
                           size |-> 512 * attached[disk].blocks]
        /\ \A other \in DOMAIN maps[p] \ {disk} :
             maps[p][other].drive # attached[disk]

\* What the comment at hard_disk.cpp:146-148 says.  BLKGETSIZE64 is to be used
\* where possible, for BLKGETSIZE may fail on large drives: where the kernel has
\* it, a drive that stays and tells who it is has its size beside it.
LargeDrivesAreMeasured ==
  bytesIoctl => \A p \in 1..2 : \A d \in DOMAIN maps[p] \cap stable :
                  ~maps[p][d].isEmpty => maps[p][d].size # 0

-----------------------------------------------------------------------------
\* Read as an inventory, a pass looks at one disk after another: what it tells
\* is the drive behind the descriptor from open to return, with the size of
\* that drive, where the kernel has a call that measures it.
Seen == IF info.isEmpty THEN file ELSE info.drive

Shown(entry) ==
  [drive |-> entry.drive,
   size |-> IF entry.size # 0 /\ IsMeasurable(entry.drive) THEN entry.size ELSE 0]

Reports == [p \in 1..2 |-> [d \in DOMAIN maps[p] |-> Shown(maps[p][d])]]

Inventory == INSTANCE DriveInventory WITH
  Disk <- Disks, Name <- Disks \cup NamesFound, Drive <- Drives,
  Size <- [d \in Drives |-> 512 * d.blocks],
  round <- pass, name <- path, seen <- Seen, reports <- Reports

KeepsInventory == Inventory!Spec

\* Both passes end, whatever happens to the drives meanwhile.
Terminates == <>(step = "done")

=============================================================================
