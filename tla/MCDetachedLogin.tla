-------------------------- MODULE MCDetachedLogin --------------------------
(***************************************************************************)
(* TLC instances of DetachedLogin: login processes with enough spare       *)
(* processes for their double forks, and one exclusive command.            *)
(***************************************************************************)
EXTENDS DetachedLogin, TLC

Spare == Proc \ (Login \cup Writer)
Symmetry == Permutations(Handle) \cup Permutations(Login) \cup Permutations(Spare)

\* What has been written into a lock file stays there when its writer is gone,
\* and nothing in this composition reads it back: no guard, no assignment but
\* its own, no property of the run.  States that differ in it alone go on alike.
Unrecorded == <<proc, lock, ofd, heldExclusive, pc, parent, pipe>>
=============================================================================
