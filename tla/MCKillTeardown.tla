--------------------------- MODULE MCKillTeardown ---------------------------
(***************************************************************************)
(* TLC instance of KillTeardown: proot, its first guest and the PIDs of    *)
(* later ones.                                                             *)
(***************************************************************************)
EXTENDS KillTeardown, TLC

Symmetry == Permutations(Pid \ {Root, First})
=============================================================================
