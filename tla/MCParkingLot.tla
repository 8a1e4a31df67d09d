---------------------------- MODULE MCParkingLot ----------------------------
(* Instances of ParkingLot for TLC.                                        *)
EXTENDS ParkingLot, TLC
=============================================================================
