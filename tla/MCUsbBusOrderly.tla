---------------------------- MODULE MCUsbBusOrderly ----------------------------
(* The devices and sockets of a bus on which nothing goes wrong. *)
EXTENDS MCUsbBus

ASSUME OrderlyAssumption == OrderlyBus /\ OwnSerials /\ DatesRead
=============================================================================
