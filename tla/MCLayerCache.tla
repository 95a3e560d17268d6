---------------------------- MODULE MCLayerCache ----------------------------
(***************************************************************************)
(* TLC instances of LayerCache: a registry that serves one layer, a step   *)
(* that produces one of one or two others.                                 *)
(***************************************************************************)
EXTENDS LayerCache, TLC

CONSTANTS b
MCServed == {<<b>>}
Symmetry == Permutations(Proc) \cup Permutations(Ref) \cup Permutations(Made)
            \cup Permutations(Instr)

\* What of a command's memory it may read before it writes it again.
Live(p) ==
  IF job[p] = None THEN None
  ELSE LET at(ls, v, none) == IF pc[p] \in ls THEN v ELSE none IN
       [job[p] EXCEPT
          !.at = at({"verify", "verifyEvict", "apply", "applyEvict", "inherit"}, @, 0),
          !.ref = at({"lock", "load", "fetch", "unlink"}, @, None),
          !.instr = at({"hit", "hitEvict", "run", "record", "recording"}, @, None),
          !.pick = at({"hit", "hitEvict", "record", "recording"}, @, None),
          !.layers = at({"finish", "drop"}, <<>>, @)]

\* What a command will not read tells no two states apart.
Readable ==
  <<image, blob, index, lock, indexLock, pc, [p \in Proc |-> Live(p)], open, spoilt, copy>>
=============================================================================
