------------------------------- MODULE MCRoom -------------------------------
(* Small instances of Room for TLC: players and callers are interchangeable. *)
EXTENDS Room, TLC
Symmetry == Permutations(Player) \cup Permutations(Caller)
=============================================================================
