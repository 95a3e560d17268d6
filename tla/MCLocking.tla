----------------------------- MODULE MCLocking -----------------------------
(***************************************************************************)
(* TLC instance of Locking: three processes and two lock files, one of     *)
(* which may be on a filesystem that cannot hold locks.                    *)
(***************************************************************************)
EXTENDS Locking, TLC

Symmetry == Permutations(Proc) \cup Permutations(Handle)
=============================================================================
