-------------------------- MODULE MCTransportCache --------------------------
(***************************************************************************)
(* Instances of TransportCache for TLC.                                    *)
(***************************************************************************)
EXTENDS TransportCache, TLC

Perms == Permutations(Goroutines) \cup Permutations(Copies)
=============================================================================
