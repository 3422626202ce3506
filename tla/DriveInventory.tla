---------------------------- MODULE DriveInventory ----------------------------
(***************************************************************************)
(* What the disk half promises: a list of disks, made twice while drives   *)
(* come and go.  An entry is about one drive, the one that was there when  *)
(* its disk was looked at; a size beside it is that drive's.  Each disk is *)
(* entered once, and no entry changes later.                               *)
(***************************************************************************)
EXTENDS Integers

CONSTANTS
  Disk,     \* places a drive can be in
  Name,     \* names an entry may have, places or not
  Drive,
  NoDrive,
  Size      \* drive -> its size in bytes

VARIABLES
  attached, \* disk -> the drive there now
  round,    \* which list is made: the first or the second
  name,     \* the disk looked at last
  seen,     \* the drive seen there, which has not been entered
  reports   \* round -> name -> entry

inventoryVars == <<attached, round, name, seen, reports>>

Init ==
  /\ attached \in [Disk -> Drive \cup {NoDrive}]
  /\ round = 1
  /\ name \in Disk
  /\ seen = NoDrive
  /\ reports = [r \in 1..2 |-> <<>>]

\* A drive comes or goes; one that was looked at may be lost by that.
Change(disk, drive) ==
  /\ attached' = [attached EXCEPT ![disk] = drive]
  /\ seen' \in {seen, NoDrive}
  /\ UNCHANGED <<round, name, reports>>

Look(disk) ==
  /\ seen = NoDrive /\ attached[disk] # NoDrive
  /\ name' = disk /\ seen' = attached[disk]
  /\ UNCHANGED <<attached, round, reports>>

Enter(n, drive, size) ==
  /\ n \notin DOMAIN reports[round]
  /\ reports' = [reports EXCEPT ![round] =
       [m \in DOMAIN @ \cup {n} |->
          IF m = n THEN [drive |-> drive, size |-> size] ELSE @[m]]]
  /\ seen' = NoDrive
  /\ UNCHANGED <<attached, round, name>>

Tell == seen # NoDrive /\ \E size \in {0, Size[seen]} : Enter(name, seen, size)

TellNothing(n) == Enter(n, NoDrive, 0)

NextRound ==
  /\ round = 1 /\ seen = NoDrive
  /\ round' = 2
  /\ UNCHANGED <<attached, name, seen, reports>>

Next ==
  \/ \E disk \in Disk : Look(disk) \/ \E drive \in Drive \cup {NoDrive} : Change(disk, drive)
  \/ Tell
  \/ \E n \in Name : TellNothing(n)
  \/ NextRound

Spec == Init /\ [][Next]_inventoryVars

=============================================================================
