----------------------- MODULE MCContainerLifecycle -----------------------
(***************************************************************************)
(* TLC instances of ContainerLifecycle: two names and two commands at a    *)
(* time.                                                                   *)
(***************************************************************************)
EXTENDS ContainerLifecycle, TLC

Symmetry == Permutations(Proc) \cup Permutations(Image)
=============================================================================
