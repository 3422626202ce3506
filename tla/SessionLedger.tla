----------------------------- MODULE SessionLedger -----------------------------
(***************************************************************************)
(* What the USB half of the report promises of a device: a list of the     *)
(* times it was connected and disconnected.  A device is in at most one    *)
(* place at a time, so its sessions follow one another, each ends after it *)
(* began, and none begins before the one before it ended.                  *)
(***************************************************************************)
EXTENDS Integers, Sequences

CONSTANTS
  Serial,  \* serial numbers, which stand for the devices
  Horizon  \* bound: the last time there is

VARIABLES
  open,    \* serial number -> when its present session began, or 0
  ledger   \* serial number -> its sessions that ended

ledgerVars == <<open, ledger>>

Init ==
  /\ open = [s \in Serial |-> 0]
  /\ ledger = [s \in Serial |-> <<>>]

LastEnd(s) == IF ledger[s] = <<>> THEN 0 ELSE ledger[s][Len(ledger[s])].to

\* The connection is known when the device has told its serial number and its
\* driver is bound; the session began earlier.
Connect(s, time) ==
  /\ open[s] = 0
  /\ time > LastEnd(s)
  /\ open' = [open EXCEPT ![s] = time]
  /\ UNCHANGED ledger

Disconnect(s, time) ==
  /\ open[s] # 0
  /\ time > open[s]
  /\ ledger' = [ledger EXCEPT ![s] = Append(@, [from |-> open[s], to |-> time])]
  /\ open' = [open EXCEPT ![s] = 0]

Next ==
  \E s \in Serial, time \in 1..Horizon : Connect(s, time) \/ Disconnect(s, time)

Spec == Init /\ [][Next]_ledgerVars

=============================================================================
