------------------------- MODULE MCSessionRegistry -------------------------
(***************************************************************************)
(* TLC instance of SessionRegistry: fewer PIDs than sessions, so that the  *)
(* kernel hands a dead session's PID to a later one.                       *)
(***************************************************************************)
EXTENDS SessionRegistry, TLC

Symmetry ==
  Permutations(Session) \cup Permutations(Pid) \cup Permutations(Reader)
=============================================================================
