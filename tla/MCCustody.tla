------------------------------- MODULE MCCustody -------------------------------
(* Small instances of Delivery custody for TLC.                               *)
EXTENDS DeliveryCustody

CONSTANTS d1, d2

MCDelivery == {d1, d2}
==============================================================================
