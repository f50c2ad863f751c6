------------------------------ MODULE MCLease ------------------------------
(* A lease whose durations are the default ones, in seconds.               *)
EXTENDS Lease
=============================================================================
