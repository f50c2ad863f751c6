----------------------------- MODULE MCManager -----------------------------
(* Small instances of Manager for TLC.                                     *)
EXTENDS Manager
=============================================================================
