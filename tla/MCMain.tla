-------------------------------- MODULE MCMain --------------------------------
(* Two sticks, and sockets for both, for main() to report twice. *)
EXTENDS Main

CONSTANTS s1, s2

MCSockets == {<<1, 1>>, <<1, 2>>}

MCStick(vendor, serial) ==
  [storage |-> TRUE, vendor |-> vendor, model |-> 21863, product |-> NoText,
   serial |-> serial, ports |-> MCSockets]

MCSticks == {MCStick(1921, s1), MCStick(2385, s2)}

MCDays == [n \in 1..LogLength |-> 11]
=============================================================================
