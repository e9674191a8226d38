---------------------------- MODULE MCClientPool ----------------------------
(***************************************************************************)
(* Instances of ClientPool for TLC.                                        *)
(***************************************************************************)
EXTENDS ClientPool, TLC

\* SetPoolMaxEntries: reset to the default, unlimited, and a real cap.
AllCaps == {-1, 0, 1}

Perms == Permutations(Threads) \cup Permutations(Keys)
=============================================================================
