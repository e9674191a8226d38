---------------------------- MODULE MCWsHandles ----------------------------
(***************************************************************************)
(* Instances of WsHandles for TLC.                                         *)
(***************************************************************************)
EXTENDS WsHandles, TLC

Perms == Permutations(Threads)
=============================================================================
