--------------------------------- MODULE Main ---------------------------------
(***************************************************************************)
(* main() of main.cpp, as far as the log goes: getUSBsInfo() is called     *)
(* once for the terminal and once more for report.html.  The kernel writes *)
(* on meanwhile, devices come and go until each result is shown, and the   *)
(* log may be rotated.  (What the disk half does is in HardDisk; the second *)
(* getUSBsInfo may come before or after the second pass over the disks.)   *)
(*                                                                         *)
(* While a call reads, pos, bus and sessions are those of the last line it *)
(* has read, as in UsbBus, and stay so when it has come to the end.  The   *)
(* kernel goes on in the variables ahead.  The second call reads the file  *)
(* from its beginning.  Its state after the lines written by then is a     *)
(* function of these, so it starts there.                                  *)
(***************************************************************************)
EXTENDS UsbBus

\* An id that stringToInt leaves uninitialised would be read as another number
\* the second time.
ASSUME ReadAgainAssumption ==
  \A id \in DeviceIds : \A m, n \in StringToInt(id, Garbage) : m = n

VARIABLES
  gathering, \* 1: for the terminal, 2: for report.html
  terminal,  \* usb_map the first call returned, as printed
  rotated,   \* whether lines the first call read are gone from the log
  \* The present: of the kernel, and of who has read all that it has written.
  \* While a call reads, both go together.
  aheadPos, aheadBus, aheadSessions, aheadInterfaces, aheadUsbs

ahead == <<aheadPos, aheadBus, aheadSessions, aheadInterfaces, aheadUsbs>>
mainVars == <<busVars, gathering, terminal, rotated, ahead>>

Ahead == INSTANCE UsbBus WITH
  phase <- "reading", pos <- aheadPos,
  bus <- aheadBus, sessions <- aheadSessions,
  interfaces <- aheadInterfaces, usbs <- aheadUsbs

-----------------------------------------------------------------------------
GoAlong ==
  /\ aheadPos' = pos' /\ aheadBus' = bus' /\ aheadSessions' = sessions'
  /\ aheadInterfaces' = interfaces' /\ aheadUsbs' = usbs'

\* A line that the call under way reads, and one written after it has come to
\* the end.
BusLine ==
  /\ \E path \in PortPaths : BusLineAt(path)
  /\ GoAlong
  /\ UNCHANGED <<gathering, terminal, rotated>>

LaterLine ==
  /\ phase # "reading"
  /\ \E path \in PortPaths : Ahead!BusLineAt(path)
  /\ UNCHANGED <<busVars, gathering, terminal, rotated>>

ReadToEnd == EndOfFile /\ UNCHANGED <<bus, sessions, gathering, terminal, rotated, ahead>>

SaveOrReturn == Save /\ UNCHANGED <<bus, sessions, gathering, terminal, rotated, ahead>>

\* The maps are local to the call.  (Seeded fault: the second call reads what is
\* written from now on, with the maps the first one left.)
ReadOn == UNCHANGED <<interfaces, usbs>>

ReadAgain == interfaces' = aheadInterfaces /\ usbs' = aheadUsbs

GatherAgain ==
  /\ gathering = 1 /\ phase = "done"
  /\ terminal' = usbs
  /\ gathering' = 2 /\ phase' = "reading" /\ cursor' = End
  /\ pos' = aheadPos /\ bus' = aheadBus /\ sessions' = aheadSessions
  /\ ReadAgain
  /\ UNCHANGED <<rotated, ahead>>

\* logrotate puts an empty file in the log's place: what was written to the old
\* one counts for nothing, and of the sessions it told no line is left.  (A log
\* that cannot be opened is read as an empty one, too.  That the log is rotated
\* between the calls is the case that this is the second one's first step.)
Rotate ==
  /\ phase = "reading" /\ pos > 0
  /\ interfaces' = <<>> /\ usbs' = <<>>
  /\ bus' = [p \in PortPaths |-> [bus[p] EXCEPT !.clean = FALSE]]
  /\ sessions' = [d \in Devices |-> <<>>]
  /\ rotated' = (gathering = 2)
  /\ UNCHANGED <<phase, pos, cursor, gathering, terminal>>
  /\ GoAlong

-----------------------------------------------------------------------------
MainInit ==
  /\ BusInit
  /\ gathering = 1
  /\ terminal = <<>>
  /\ rotated = FALSE
  /\ aheadPos = pos /\ aheadBus = bus /\ aheadSessions = sessions
  /\ aheadInterfaces = interfaces /\ aheadUsbs = usbs

Program == ReadToEnd \/ SaveOrReturn \/ GatherAgain

MainNext == BusLine \/ LaterLine \/ Rotate \/ Program

\* The program runs on; nothing is assumed of the bus, or of logrotate.
MainSpec == MainInit /\ [][MainNext]_mainVars /\ WF_mainVars(Program)

-----------------------------------------------------------------------------
(***************************************************************************)
(* Properties, besides those of UsbBus, which hold of both calls.          *)
(***************************************************************************)

\* The report takes nothing back: every device the terminal showed is in
\* report.html with all that was told of it, and its times there begin with
\* those the terminal showed, although the first call had to guess at sessions
\* that were open, and the second one saw them end.  Only a rotated log can
\* make them differ, given that an id is read twice alike (ReadAgainAssumption).
ReportContinuesTerminal ==
  (gathering = 2 /\ phase = "done" /\ ~rotated) =>
    \A s \in DOMAIN terminal : s \in DOMAIN usbs /\ KeepsHistory(usbs[s], terminal[s])

\* What the terminal or the report shows as "Connected" may be gone when it is
\* shown, but not when the call came to the end of the log: the device is
\* plugged in still, or was unplugged after the last line that was read,
\* whatever part of the log rotation has left.
NothingGoneIsShown ==
  phase = "done" => \A s \in Serials : ShownConnected(s) => Ahead!WasPlugged(s, pos)

\* Both calls return, although every iteration of the saving loop changes the
\* map it walks, and main comes to its end.
MainEnds == <>(gathering = 2 /\ phase = "done")

=============================================================================
