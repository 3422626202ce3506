------------------------------- MODULE MCUsbLog -------------------------------
(* Small instances of UsbLog: logs of any lines, in any order. *)
EXTENDS UsbLog, TLC

CONSTANTS s1, s2, product, maker

\* A port, the port of a hub, and a port behind that hub.
MCPorts == {<<1, 1>>, <<1, 2>>, <<1, 1, 3>>}
MCOnePort == {<<1, 1>>}
\* 0781 is read as 781, and a61a as whatever the int held.
MCDeviceIds == {1921, 42522}
MCOneId == {1921}
MCDays == [n \in 1..LogLength |-> 10 + n]
Symmetry == Permutations(SerialNumbers)
=============================================================================
