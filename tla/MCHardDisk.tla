------------------------------ MODULE MCHardDisk ------------------------------
(* A small instance of HardDisk: drives of each kind and size. *)
EXTENDS HardDisk

Sd(letters, part) == [kind |-> "sd", unit |-> letters, part |-> part]
Nvme(controller, namespace, part) ==
  [kind |-> "nvme", unit |-> <<controller, namespace>>, part |-> part]
Tty == [kind |-> "other", unit |-> <<0>>, part |-> 0]

Drive(type, blocks, sector) == [type |-> type, blocks |-> blocks, sector |-> sector]
Ata == Drive("ATA", 4, 512)
Ssd == Drive("NVME", 5, 4096)
Stick == Drive("SCSI", 3, 512)
\* With a long of at most 5, one whose blocks read as negative, and one whose
\* blocks do not fit in an unsigned long.
Large == Drive("ATA", 9, 512)
Huge == Drive("ATA", 12, 512)

\* An ATA drive with a partition and a free place beside it, an NVMe drive, a
\* USB stick as twenty-seventh SCSI disk, and a name that is no disk.
MCNames == {Sd(<<1>>, 0), Sd(<<1>>, 1), Sd(<<2>>, 0), Nvme(0, 1, 0), Sd(<<1, 1>>, 0), Tty}
MCDrives == {Ata, Ssd, Stick, Large, Huge}
MCAttached ==
  [d \in Disks |-> CASE d = Sd(<<1>>, 0) -> Ata
                     [] d = Nvme(0, 1, 0) -> Ssd
                     [] d = Sd(<<1, 1>>, 0) -> Stick
                     [] OTHER -> NoDrive]

\* A drive that BLKGETSIZE fails on.
MCLargeAttached == [d \in Disks |-> IF d = Sd(<<1>>, 0) THEN Huge ELSE NoDrive]

=============================================================================
