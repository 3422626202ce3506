------------------------------- MODULE MCReport -------------------------------
(* Small instances of Report: maps of up to three elements that leave        *)
(* different fields empty, in a year of eight days.                          *)
EXTENDS Report

CONSTANTS s1, s2, cruzer, sandisk, model, revision, sda, sdb, nvme0n1

MCUsb(vendor, product, name, maker, serial, from, to) ==
  [idVendor |-> vendor, idProduct |-> product, productName |-> name,
   manufacturer |-> maker, serialNumber |-> serial,
   connectionTimes |-> from, disconnectionTimes |-> to]

\* Known in every field.
Whole(from, to) == MCUsb(1921, 5567, cruzer, sandisk, s1, from, to)
\* Ids of letters, and a manufacturer of blanks; gone again.
Nameless(from, to) == MCUsb(0, 0, NoText, Blank, s2, <<from>>, <<to>>)
\* A stick without a serial number.
Unnumbered(from) == MCUsb(2385, 0, NoText, NoText, NoText, <<from>>, <<>>)

MCUsbMaps ==
  {<<>>, <<Whole(<<20, 80, 150>>, <<25, 86>>), Nameless(81, 160)>>,
   <<Unnumbered(30), Whole(<<90, 100>>, <<94, 188>>), Nameless(NoDate, 95)>>,
   <<Nameless(60, NoDate), Whole(<<NoDate, 3>>, <<1>>)>>}

AtaDisk(size) ==
  [path |-> sda, isEmpty |-> FALSE, diskType |-> "ATA", product |-> model,
   version |-> revision, firmware |-> NoText, serialNumber |-> s1, size |-> size]
NvmeDisk(size) ==
  [path |-> nvme0n1, isEmpty |-> FALSE, diskType |-> "NVME", product |-> model,
   version |-> NoText, firmware |-> revision, serialNumber |-> s2, size |-> size]
SilentDisk ==
  [path |-> sdb, isEmpty |-> TRUE, diskType |-> NoText, product |-> NoText,
   version |-> NoText, firmware |-> NoText, serialNumber |-> NoText, size |-> 0]

MCDiskMaps ==
  {<<>>, <<SilentDisk>>, <<NvmeDisk(1000), AtaDisk(0)>>,
   <<NvmeDisk(512), SilentDisk>>, <<NvmeDisk(0), AtaDisk(99999), SilentDisk>>}

\* One byte less than a power of ten is taken for it.
MCLogQuotient(bytes) ==
  CHOOSE e \in 0..6 : Unit^e <= bytes + 1 /\ bytes + 1 < Unit^(e + 1)

\* The turn of the year, winter, spring, summer and autumn.
MCPresents == {0, 24, 40, 72, 110, 143, 144, 191}
=============================================================================
