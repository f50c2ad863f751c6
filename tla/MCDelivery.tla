---------------------------- MODULE MCDelivery ----------------------------
(* A player who is seated and one who dials in again.                      *)
EXTENDS Delivery
=============================================================================
