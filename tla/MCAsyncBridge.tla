--------------------------- MODULE MCAsyncBridge ---------------------------
(***************************************************************************)
(* Instances of AsyncBridge for TLC.                                       *)
(***************************************************************************)
EXTENDS AsyncBridge, TLC

Perms == Permutations(Reqs)
=============================================================================
