# Verification of the storage-device report

The program in `src/` (built by `src/Makefile` from `main.cpp`, `usb.cpp`,
`hard_disk.cpp` and `output.cpp`) prints, and writes to `report.html`, which USB
storage devices were connected to the machine and when, read from
`/var/log/syslog`, and which hard disks it has, asked by `ioctl`. This directory
holds TLA+ models of its parts, the TLC runs that check them, and TLAPS proofs
about each of the modelled ones.

## 1. The system

| part | source | state | operations |
|---|---|---|---|
| Log parser | `usb.cpp`, `usb.h` | `usb_interfaces_map` (port -> entry being filled), `usb_map` (serial number -> device and its two lists of times), position in the log, iterator of the saving loop | one check per kind of line, the saving loop at the end of the file |
| Disk gathering | `hard_disk.cpp`, `hard_disk.h` | `disks_set`, `disks_map`, the open descriptors, the locals of `getInfoFromDisk` | `opendir`/`readdir`, `open`, five `ioctl`s, returns with or without `close` |
| Report | `output.cpp`, `output.h` | 19 static strings used as registers, iterators, the file written | a table per device, a row per session, a table per disk; three time zones; size with a unit |
| `main` | `main.cpp` | none | root check; gathers and prints to the terminal, then gathers *again* and writes the report |
| Prototypes | `SCSI/`, `UEFI development kit/`, `from disk/`, `from disk 2/`, `libudev/`, `prueba/`, `sd-device/`, `sysfs/`, `udev daemon/` | none of interest | stand-alone experiments, not built by the Makefile |

The parts are called in sequence by `main` and share the maps passed by value, the
process's descriptors, and the machine they look at twice. There are no threads.
What makes the program hard lies elsewhere:

- **Its inputs are the traces of concurrent processes.** The kernel writes the
  log lines of several devices interleaved; lines can be missing; devices fail
  or vanish half announced. Drives come and go between any two calls of the disk
  half.
- **State is kept under keys that are not identities.** A port's entry outlives
  the device; a device behind a hub has the hub's key; a serial number may be empty.
- **Two lists are paired by index**: the i-th connection of a device is shown
  beside its i-th disconnection, while the lists are appended to at different
  places and moments.
- **Everything is gathered twice** (`main.cpp:21-25`), the second time in an order C++
  leaves open, from a log that has grown or was rotated and a `/dev` that changed.
- **A loop changes the map it walks** (`usb.cpp:432`), by erase and insert, so that
  its iterator dangles.
- **Failures half-way**: each `ioctl` has its own failure path; one path never
  closes its descriptor (`hard_disk.cpp:164`).
- **Registers that survive an iteration**: the report's static variables are only
  assigned when a value was found, and must be reset in between.
- **Numeric edges**: `[1-31]` in a regular expression, hexadecimal ids read as
  decimal, 512-byte blocks and sectors, `long`, summer time.

What makes each part correct:

- parser: every interval in the result is a time a storage device with that serial
  number was really connected; every such time is in the result; "more
  connections than disconnections" means plugged in; nothing is counted twice,
  changed later or forgotten; it terminates;
- disks: a drive that stays is reported, once, with its own size; a size never
  stands beside another drive's serial number; descriptors are bounded by what is
  reported, and do not keep the report from being written; both passes end;
- report: a table shows its own element and nothing of the one before; rows are
  sessions; the heading agrees with the rows; times are the same instant in each
  zone;
- `main`: the report takes nothing back that the terminal showed; what either shows
  as connected was plugged in when the last line it was read from had been written (it
  may be gone when it is shown, which a program that reads a log cannot know); the
  program ends.

`PROJECT.json` lists the hazards with their lines and the property for each.

## 2. The modules

| module | what it is |
|---|---|
| `SyslogText` | pure: what the regular expressions and `stringToInt` do to ports, dates and ids |
| `UsbLog` | the parser: one action per kind of line, then the saving loop, one action per iteration. The next line is *any* line |
| `UsbBus` | extends `UsbLog`: the kernel decides the next line. Devices are plugged, announced line by line, unplugged; `Faults` adds lost lines, failed devices and early removal. `sessions` is a history variable of what really happened |
| `SessionLedger` | abstract: per serial number an ordered list of sessions and at most one open one |
| `UsbLogProofs`, `UsbBusProofs` | TLAPS theorems about `UsbLog`, and about what a kernel's log makes of it |
| `ConnectedProofs`, `LedgerProofs` | extend them: what is shown connected is plugged in; the refinement of `SessionLedger`; what the maps say of a device |
| `Main` | extends `UsbBus`: `getUSBsInfo` called twice while the kernel writes on, until each result is shown, and the log may be rotated |
| `MainProofs` | TLAPS theorems about `Main`, from those about one call |
| `HardDisk` | `getDisksInfo` twice, call by call, with `Plug` and `Unplug` in between, and the other descriptors `main` needs by then: the log's and `report.html`'s |
| `DriveInventory` | abstract: two lists of disks, each entry about one drive and its size |
| `HardDiskProofs` | TLAPS theorems about `HardDisk`, the refinement of `DriveInventory` among them |
| `StableDrivesProofs` | extends them: the TLAPS theorem about drives that stay |
| `TimeZones` | pure: the conversions of `output.cpp` over a model of `localtime`, `gmtime` and `mktime` |
| `Report` | `printHTML` with its registers; the terminal printers as operators |
| `ReportProofs` | TLAPS theorems about `Report`, after lemmas about remainders and the conversions |
| `MCUsbLog`, `MCUsbBus`, `MCUsbBusOrderly`, `MCMain`, `MCHardDisk`, `MCReport` | small instances for TLC |

Correspondence with the code:

- `UsbLog.interfaces` is `usb_interfaces_map`, keyed by the number `bp` for the text
  `"b-p"`, in the same order; `usbs` is `usb_map` keyed by serial number (`NoText` is
  `""`); `cursor` is `it` of `saveInterfacesInfoInUSBsMap`. `disconnectionTime` of a
  `usbInterface` is never read or written after its initialisation and left out.
- A time is the position of the line it was read from, `NoTime` is the empty
  string. Positions keep what the properties need, which line a time came from.
- A line about a port the map does not hold is an action that changes nothing, so
  that the guards of the code are in the models (`IsKnown`, `IsOpenStorage`).
- The parser reads the file after the fact; `UsbBus` lets it take each line as it is
  written. Its state is a function of the lines read, so this is the same run with
  fewer states.
- The uninitialised `int` of `stringToInt` is any element of `Garbage`. The dangling
  iterator is governed by `NodeReused`: `TRUE`, the allocator returned the freed
  block to the next insertion (what glibc does here) and the loop goes on as
  written; `FALSE`, it may continue at any key, stop, or crash.
- In `Main` a call reads what the kernel has written so far (`BusLine`), and from the end
  of the file on its own state stands still, but not the kernel: what that writes, and
  who comes and leaves, until the result is shown and the second call begins is in the
  variables `ahead` (`LaterLine`). `GatherAgain` starts the second reading from these: what the
  parser holds then is what it will hold after the same lines again. That is so
  because the only choice a line leaves open is that of an uninitialised id, which
  `ReadAgainAssumption` excludes. `Rotate` empties the maps, as lines no longer in the
  file count for nothing, and forgets their sessions. `NothingGoneIsShown` relates the
  two: what the call shows connected is compared with the history of the kernel's
  (`Ahead!WasPlugged`) at the call's own `pos`, the last line it read.
- `HardDisk.file` is the drive behind the descriptor; it becomes `NoDrive` when that
  drive is unplugged, while another may take its name. `open` counts descriptors.
  `OpenLog` and `OpenHtml` are the two
  files `main` opens beside them; `OpenLog` comes before or after the second pass.
  `bytesIoctl` says whether the kernel has `BLKGETSIZE64`; `LongMax` stands for
  the largest `long`.
- In `Report` a map is the sequence of its elements; the registers are the records
  `usb`, `times` and `disk`; `out` is what was written: the tables of devices, of times
  and of disks, and whether it says that there are no disks. Time is counted in hours and a year has `Year`
  of them.

Definitions under "Seeded fault" are not part of the models. They are plausible
bugs, one for each property, with which TLC finds the property violated.

## 3. The runs

Passing runs:

| run | question | bounds |
|---|---|---|
| `any_log` | Can any log, sensible or not, and any behaviour of the dangling iterator break type, pairing, uniqueness or history? | logs of 7 lines, a port, another port and a port behind the first, 2 serial numbers, an id with and one without leading letter; 341,376 states |
| `real_kernel` | On a complete kernel log, is the result what happened, and is a device described as it described itself? Does the parser implement `SessionLedger`? | 3 sockets, 2 sticks, a mouse, 11 lines; 516,000 states |
| `lossy_log` | Does trouble before or elsewhere spoil a clean session? | 2 sockets, a stick and a mouse sharing one, lost lines, failures, early removal, 9 lines; 2.4 million states |
| `main` | Are both results true as of the last line read, also when devices leave before they are shown; does the report continue what the terminal showed, does `main` end? | 2 sockets, 2 sticks that use either, 10 lines, any of them read, or written between the end of the file and the showing, rotation at any line; 517,702 states |
| `hotplug` | Are drives that stay reported right, with both kinds of kernel? Is each entry about one drive (`DriveInventory`)? Is a descriptor left for the log and the report? | 6 names, 5 drives, 3 hotplug events, at most 7 descriptors, a `long` of at most 5; 751,000 states |
| `report` | Do registers leak, do rows and headings agree, are times right within a season? | 4 USB maps, 5 disk maps, 8 present times in a year of 8 days, `Unit` 10; 1,736 states |

Why the bounds suffice. In `any_log` a session needs three lines (new, storage,
disconnect), so 7 lines hold two sessions of one port with a stray line, or
sessions of two ports interleaved. A kernel writes five lines about a stick without a
product name (new, ids, serial number, storage, disconnect) and six about one with.
So the 11 lines of `real_kernel` hold a full session of each stick, or two of the one
without and the first line of a third, or one that the mouse interrupts; the 9 lines of
`lossy_log` a clean session with four lines of trouble before or within it. In `main`, 10
lines are exactly two sessions, of one stick or of both, and any number of them
come before the first reading's end, between that and the showing, and after it. An entry
is affected only by lines of its key, and two ports and one that shares a key
give all relations between keys. Three hotplug events allow a drive to be
taken away, another to come in its place and leave. `FileLimit` 7 is the
least with which `ReportIsWritten` and `StableDrivesAreReported` speak of the run: three
names can be found, so two passes leave at most six descriptors open. It also means
that no `open` of the run fails for want of a descriptor; what happens when they run out
is covered by the proofs, which hold for every limit. Eleven-digit sizes and years of
8,766 hours differ from small ones in nothing the code distinguishes: the powers of
`Unit` are where the unit of a size changes, and at a power itself the quotient of two
logarithms in floating point may come out below the integer or at it (`LogQuotient`, any
function into the exponents there are). Presents and sessions lie in winter, in summer, at
the turn of the year and at both changes of the clock.

Assumptions of the passing runs, because the code is not right without them: sticks
have serial numbers of their own and do not share sockets with other devices or sit
behind hubs, and the days of the log contain a digit 1, 2 or 3 (`real_kernel`: these are
`OwnSerials`, `OrderlyBus` and `DatesRead`, which the proofs assume and
`MCUsbBusOrderly` has TLC evaluate); the clock
is not changed between session and report (`TimesAreConverted`); a drive's number of
blocks fits in a `long` and, without `BLKGETSIZE64`, its sectors have 512 bytes
(`IsTellable`, `IsMeasurable`). Each is the subject of a run below or of section 6.

Runs that show a disagreement of the code with what it says (the counterexample is
the point of the run):

| run | what TLC finds | source |
|---|---|---|
| `shared_socket` | a mouse's entry survives its disconnect; the stick in the same socket is reported connected since the mouse was | `usb.cpp:231` |
| `early_in_the_month` | on the 4th to 9th no time is recorded | `usb.cpp:126`, `203` |
| `behind_a_hub` | a stick behind a hub gets the hub's connection time | `usb.cpp:73`, `125` |
| `no_serial_number` | a plugged-in mouse makes a stick without serial number "Connected" | `usb.cpp:386` |
| `large_drive` | a drive too large for `BLKGETSIZE` has no size, although the kernel has `BLKGETSIZE64` | `hard_disk.cpp:132` |
| `other_season` | winter sessions reported in summer are an hour off in UTC, two in EST | `output.cpp:62`, `90` |

Fairness. `MainSpec` and `HardDisk!FairSpec` assume weak fairness of the program's
actions (`Program`) and of nothing else: the program is sequential and runs on, while
neither the bus, nor `logrotate`, nor hands and cables need do anything. In `Main` the
first reading may come to the file's end at any time, since a reader does not wait for
lines. That hotplug ends follows from the bound `MaxEvents` and is not needed: a
pass makes finitely many calls. All other runs check safety. Deadlock is not checked,
since every one of these programs ends.

## 4. The proofs

For every value of the constants that the modules' assumptions allow: any ports, ids and
strings, any length of log; any names, drives, limits and number of events; any maps, any
zone and length of the year. Only `MainProofs` is narrower: it is about ids that are
read twice alike (`ReadAgainAssumption` of `Main`: where `Garbage` has two values, none that
begins with a letter).

| module | theorem | property |
|---|---|---|
| `UsbLogProofs` | `TypeCorrect` | `TypeOK` |
| | `Pairing` | `SessionsAreIntervals` |
| | `CountedOnce` | `NoLineCountedTwice` |
| | `EverythingSaved` | `AllInterfacesSaved`, if `NodeReused` |
| | `SessionsRecorded` | `OpenSessionsAreRecorded` |
| | `History` | `HistoryKept` |
| `UsbBusProofs` | `BusTypeCorrect` | `BusTypeOK` |
| | `CleanSessions` | `CleanSessionsAreReported` |
| | `AllReported` | `SessionsAreReported`, if `OrderlyBus` |
| | `AllHappened` | `ReportedSessionsHappened`, if `OrderlyBus` |
| | `BusLogIsALog` | `BusSpec` implies `Spec` of `UsbLog` |
| `ConnectedProofs` | `ConnectedIsPlugged` | `ConnectedMeansPlugged`, if `OrderlyBus`, `OwnSerials` and `NodeReused` |
| `LedgerProofs` | `LedgerIsKept` | `KeepsLedger`, if `OrderlyBus`, `OwnSerials` and `DatesRead` |
| | `DevicesDescribed` | `DevicesAreDescribed`, if `OrderlyBus` and `OwnSerials` |
| `MainProofs` | `MainCleanSessions` | `CleanSessionsAreReported`, of both calls |
| | `MainSessionsHappened` | `ReportedSessionsHappened`, of both calls, if `OrderlyBus` |
| | `NothingGone` | `NothingGoneIsShown`, if `OrderlyBus` and `OwnSerials`: plugged in as of the last line read, whatever leaves before it is shown |
| | `MainEverythingSaved` | `AllInterfacesSaved`, of both calls, if `NodeReused` |
| | `ReportContinues` | `ReportContinuesTerminal`, if `OrderlyBus`, `OwnSerials` and `NodeReused` |
| `HardDiskProofs` | `DisksTypeCorrect` | `TypeOK` |
| | `Sizes` | `SizesAreTrue` |
| | `Descriptors` | `DescriptorsAccountedFor` |
| | `ReportComesOut` | `ReportIsWritten` |
| | `Refinement` | `KeepsInventory` |
| `StableDrivesProofs` | `StableDrives` | `StableDrivesAreReported` |
| `ReportProofs` | `ReportTypeCorrect` | `TypeOK` |
| | `Agreement` | `ReportAgreesWithTerminal` |
| | `Rows` | `RowsAreSessions` |
| | `Status` | `StatusAgreesWithTimes` |
| | `Completeness` | `ReportIsComplete` |
| | `Conversions` | `TimesAreConverted` |

### The log parser

The theorems rest on the named assumptions of `UsbLog` (ports have at least two parts
between 1 and 99, ids are natural numbers, `NoText` is no other text, days are
1 to 31), which TLC evaluates on every run. All but `EverythingSaved` hold also
when the iterator leads anywhere.

Neither pairing nor uniqueness is inductive. A time reaches `usbs` by way of
an entry, so both need to know what entries hold. The inductive invariant is

    IInv == TypeOK /\ TimesPast /\ ListsPaired /\ EntriesApart
              /\ ConnectionsApart /\ DisconnectionsApart

- `TimesPast`: no time recorded anywhere is later than the line read last, so the
  time of the next line is new;
- `ListsPaired`: no device has more disconnections than connections, and those of
  the same index are in order;
- `EntriesApart`: no two open entries hold the same time, and none holds one that is
  already in `usbs`;
- `ConnectionsApart`, `DisconnectionsApart`: each time is in one list, once.

Instead of one case per action and conjunct, `StepShape` first shows that every step
is one of four: it leaves all times alone (`Quiet`), opens an entry at the line just
read (`Opened`), turns an entry into a session (`Closed`) or moves its connection at
the end of the log (`Saved`). Each conjunct is then preserved by four shapes.
`EverythingSaved` uses `SavedUpToCursor`: every key the loop has passed is empty.
`History` uses `KeyIsSerial`: a device's key in `usbs` is its serial number.

### The kernel's log

Each step of `UsbBus` is the parser reading a line, or no line, while something happens to
a device. The invariant is

    BusInv == IInv /\ KeyIsSerial /\ BusTypeOK /\ Occupied
                /\ CleanPortsMatch /\ CleanSessionsAreReported

- `Occupied`: a port is free, or one of the devices is on it;
- `CleanPortsMatch`: while a clean session goes on, its port's entry holds what was
  announced so far (`EntryMatches`): the time of its connection, its serial number once
  that was told, and that it is storage once its driver has probed it. A line of another
  device leaves the entry alone, or the session is no longer clean;
- when such a session ends, the entry becomes the session in the result; it stays there
  by the parser's `HistoryStep` (`StaysReported`).

On an `OrderlyBus` the invariant `OrderlyInv` adds that no entry of a storage device's
port outlives the device (`StoragePortsClean`), and that no other port's entry is ever taken for
storage (`OtherPortsUnmarked`). What is in the result comes from an entry of such a port, and so
from a session (`IntervalsHappened`). `OrderlyInv` lets a device be on a port the map does not
hold, so that it survives a rotation of the log. Where nothing is rotated, `WholeInv` adds that
every port with a storage device and every session of one is clean (`AllPortsClean`, `AllClean`).

That "Connected" means plugged in needs two more facts, with `OwnSerials`. `ToldInv`
says what the serial number and the mark of an entry tell of its port: only the last
line of an announcement marks an entry (`MarkedLast`), and no port that takes other devices
has an entry with a storage device's serial number (`OtherSerials`). So at the end of
the file an open entry is that of the device on its port (`OpenAtEnd`). While the entries
are saved, being open turns into having one connection more than disconnections, which is
what the report shows (`OpenIsPlugged`, `MoreIsPlugged`). The converse, that a device plugged
in is shown so, is `PluggedIsKept`, for which nothing must have been rotated. `NodeReused` is
needed for it: the loop must have come to every entry.

The refinement of the ledger adds `LedgerInv`:

- `OnePlace`: no device is on two ports;
- `SinceLater`: what is plugged in was plugged in after everything the result holds of
  its serial number, so a session begins after `LastEnd`;
- `OpenOnce`: while entries are saved, a serial number has one open entry at most, and
  with one no connection without a disconnection. So the loop does not open a session
  twice, wherever its iterator leads.

`DevicesDescribed` has `FieldsInv`: the entry of a clean port holds the ids and the product name
that were announced so far (`FieldsMatch`), and an entry that is saved is that of a device
that has told everything, so neither the first session of a device nor a later one, nor
what saving fills in, takes anything from another device.

`Connect` is the line that completes an announcement (`CompletesLedger`), or, when the log
ends before that line, the saving of the entry of a device seen before; `Disconnect` is
the disconnect line (`ClosesLedger`). All other steps are stutters.

### The two calls of main

What a call shows is compared with a kernel that has gone on meanwhile, and the second
call starts from there. The variables `ahead` are the state of a reader of all that the
kernel has written, which is one more call that only ever reads: `Held` is `LedgerProofs`
instantiated with them. So every lemma about a step of one call is at hand for the
reader, as `Held!BusStepInv` for instance, once it is known that a line written later is one
that the reader reads (`AheadStep`). While a call reads, it and the reader are the same
(`Together`). The invariants are pairs: `MainBusInv` is `BusInv` of the call and
`Held!BusInv` of the reader; `MainOrderlyInv`, `MainToldInv`, `MainOpenInv` and
`MainFieldsInv` likewise. `MainStepShape` shows that there are four kinds of steps: call and
reader read the same line; the call saves or stands still while the reader reads or does not;
`GatherAgain` gives the call the reader's state; `Rotate` empties the maps and has
every port unclean, after which each invariant is seen to hold directly
(`RotateOrderly` and so on). Where call and reader are together, an invariant of one is that of
the other (`HeldBus` and so on).

`NothingGoneIsShown` relates two times. At the end of the file what is shown connected
is plugged in (`ConnectedProofs`, of the call's own state). From then on `Window` keeps
that what was so was plugged in at the line read last, to the kernel: a device that
leaves becomes a session that spans that line (`StaysPlugged`), and one that comes
was announced after it (`SinceRead`).

`ReportContinuesTerminal` compares two runs of the same code on logs of which one begins with
the other. The two results do not simply grow from one another: the first call adds the
connections of entries left open, and the second begins without them. The invariant
`ReportInv` keeps account of them, in terms of what a reader `Accounts` for: two lists of
times such that those it holds of the device begin with them (`Continues`), or lack exactly
the connection time of the entry that is open for it (`Owes`).

- `FirstOwes`: from the end of the first call's file on, the reader accounts for what the call
  shows of a device (`ShownOwed`), and while the call has an entry of the device to save
  (`Pending`), for that with the entry's connection added (`PendingOwed`). Both the loop and the
  reader move meanwhile. There is one such entry at most (`OneOpen`), so nothing is
  added twice;
- `SecondOwes`: the second call accounts for what the terminal showed. It holds when the
  call begins because it begins as the reader, and because nothing was pending any more when
  the first call returned (`AllInterfacesSaved`, hence `NodeReused`). No line but
  the disconnect line of that device touches the entry while it is open, except one that marks
  it as storage; the disconnect line, or at the end the loop, appends that very time.
  Either way the lists continue, and do so from then on by `HistoryStep`;
- `TerminalDescribed`: what was shown is what the device tells of itself. So is what is in the
  report, and as `stringToInt` reads an id twice alike (`ReadAgainAssumption`), the two agree.

When the second call returns no entry is open, so nothing is owed.

### The disks

`TypeInv` is `TypeOK` with what the locals of `getInfoFromDisk` hold between two calls
(`LocalsOK`): from the identity on, `info.drive` is the drive behind the descriptor or that
drive is gone, and after `BLKGETSIZE64` was refused with the call in the kernel it *is*
gone. So a size can only be that drive's (`EntriesOK`), which is `SizesAreTrue`.

`Fresh` adds that the loop never comes to a name twice, which the refinement needs
(an entry is made once) and so do descriptors: with `OwedInv`, `open` is at most the
one in use and one per entry that tells a drive. As entries have different names,
that is at most two for each name found, and `ReportInv` follows: when the log and
the report are opened, one descriptor is left. `Refinement` maps `open` to `Look`, every
`Return` to `Tell` or `TellNothing`, hotplug to `Change` and all else to a stutter.

That a drive which stays is reported is the end of a longer argument, whose invariant
is

    StableInv == Apart /\ StableHeld /\ OnlyThere /\ (Enough => Reached)

- `Apart`: no drive is in two places;
- `StableHeld`: while a stable disk is asked, its drive is behind the descriptor, so every
  `ioctl` made for its type answers, and the sector size is its own;
- `OnlyThere`: no other name has its drive, at hand or in a map;
- `Reached`: in the pass under way a stable disk's name is unread, or it is in `disks`,
  or being asked, or entered as it should be; in a pass that is over it is entered. With
  `Enough` descriptors no `open` fails (`OneIsLeft`).

### The report

The invariant `Inv` of `ReportProofs` says outright what the file holds: `usbTables`
and `timeTables` are the tables of the first elements of the map, each a function of
that element only, and the registers hold their initial texts at the head of each
loop. The properties follow from it without looking at steps. `Conversions`
needs that the remainder of a sum is that of the sum of remainders
(`RemainderOfSum`), and that a local reading within a season is its
instant plus a constant.

Only model-checked: `MainEnds` and `Terminates`, since liveness under fairness is beyond
TLAPS here. Every other property of a passing run is a theorem.

## 5. What is left

1. `Main` and `HardDisk` are not composed. They share the descriptors and the order of
   the calls at `main.cpp:25` only, and both are in `HardDisk` (`OpenLog`, `OpenHtml`).
2. Completeness in `Main`: that a log that was never rotated gives every session to both results,
   and shows what is plugged in as connected, is proved of one call (`AllReported`,
   `ConnectedIsPlugged`) and stated of neither call of `main`.

## 6. What is not modelled, and what is known without a run

- Prototypes: not part of the program; half of the lines under `src/` are theirs. Each
  is a straight line of calls into one library or one `ioctl`, printed, with no state
  to interleave with. Wording, HTML and terminal layout: no property
  depends on them. The root check of `main` has no state.
- Identity strings of disks are abstracted to the drive that told them; padding is
  not modelled.
- Leap years and the year missing from log lines; seconds and minutes.
- `BLKGETSIZE` is asked before `BLKGETSIZE64` and its failure ends the function: with
  a 32-bit `long` a drive of 2 TB or more has no size, which the comment at
  `hard_disk.cpp:147` set out to avoid (run `large_drive`). `StableDrivesAreReported`
  excludes such drives by name (`IsTellable`).
- The fallback multiplies 512-byte blocks with the sector size (`hard_disk.cpp:158`), so a
  drive with sectors of 4096 bytes comes out eight times too large. It is in the model
  (`GetSizeFallback`) and excluded by name from the properties (`IsMeasurable`), so no
  property catches it.
- Vendor and product ids are read up to their first letter: 13fe and 13ba are both
  saved as 13 (`usb.cpp:289`). It is in `StringToInt`; the properties compare ids as they are read.
- Names in `/dev` are searched for, not matched (`hard_disk.cpp:191`): `sdaa` is
  taken for `sda`, `nvme10n1` is not found. In the model; `StableDrivesAreReported` says
  that such a name does no harm to others (`sdaa` is in the run's `/dev`), and
  `IsTellable` excludes it itself, so that it is missing no property catches.
- With `NodeReused = FALSE`, `AllInterfacesSaved` fails: the loop can leave open
  entries behind. The theorem therefore assumes `NodeReused`.
- An empty time is printed as "January 0" in local time and as a day of December in
  UTC (`output.cpp:43`). It is in the inputs of `report`.
- A file that cannot be opened, for reading or writing, is not told from an empty one;
  `ReportIsWritten` says when descriptors are not the reason. A full disk is not modelled.
