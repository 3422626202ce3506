------------------------------- MODULE MCUsbBus -------------------------------
(* Small instances of UsbBus: which devices there are, and where they go. *)
EXTENDS UsbBus

CONSTANTS s1, s2, cruzer, optical

Model == 21863       \* 5567

Stick(vendor, product, serial, ports) ==
  [storage |-> TRUE, vendor |-> vendor, model |-> Model, product |-> product,
   serial |-> serial, ports |-> ports]
Other(vendor, product, ports) ==
  [storage |-> FALSE, vendor |-> vendor, model |-> Model, product |-> product,
   serial |-> NoText, ports |-> ports]

\* Two sockets, and a third one.
Sockets == {<<1, 1>>, <<1, 2>>}
Third == <<2, 1>>
ThreeSockets == Sockets \cup {Third}

Sandisk == 1921      \* 0781
Kingston == 5118     \* 13fe, read as 13
Logitech == 1133     \* 046d

StickA(ports) == Stick(Sandisk, cruzer, s1, ports)
StickB(ports) == Stick(Kingston, NoText, s2, ports)
Mouse(ports) == Other(Logitech, optical, ports)

\* Storage devices have the first two sockets to themselves.
SeparateSockets == {StickA(Sockets), StickB(Sockets), Mouse({Third})}

\* A stick that goes anywhere, and a mouse.
SharedSocket == {StickB({<<1, 1>>, <<1, 2>>}), Other(Logitech, NoText, {<<1, 1>>})}

\* A hub in the first socket, and a stick behind it.
HubPorts == {<<1, 1>>, <<1, 1, 2>>}
StickBehindHub ==
  {Other(1449, NoText, {<<1, 1>>}), Stick(Kingston, NoText, s2, {<<1, 1, 2>>})}

StickWithoutSerial ==
  {Stick(Kingston, NoText, NoText, {<<1, 1>>}), Other(Logitech, NoText, {Third})}

\* The log starts on the 11th: every day has a digit the date_regex accepts.
DaysFrom11 == [n \in 1..LogLength |-> 11 + n \div 10]
\* The log crosses from the 3rd to the 4th of the month.
DaysFrom3 == [n \in 1..LogLength |-> 3 + n \div 4]
=============================================================================
