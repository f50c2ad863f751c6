--------------------------- MODULE MCTokenBucket ---------------------------
(* A bucket that a few ticks fill, and calls of two sizes.                 *)
EXTENDS TokenBucket
=============================================================================
