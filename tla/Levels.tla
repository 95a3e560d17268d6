------------------------------- MODULE Levels -------------------------------
(***************************************************************************)
(* The removal of a directory tree with a bounded number of descriptors:   *)
(* rmtree_at() and the class Levels of dirfd.py, which `remove`, the sync  *)
(* with --delete and every cleanup go through.                             *)
(*                                                                         *)
(* The shallow levels of a walk are parked: their descriptors are closed,  *)
(* and reopened through ".." of the level below on the way back.  A guest  *)
(* may move directories meanwhile, which changes where ".." leads.         *)
(***************************************************************************)
EXTENDS Naturals, FiniteSets, Sequences, SequencesExt

CONSTANTS
  Dirs,       \* directories
  Outside,    \* one that is not in the tree
  Nil,        \* where a removed directory is
  Shapes,     \* the trees at first: each directory's parent
  Budget,     \* MAX_OPEN_LEVELS
  MaxMoves    \* moves by the guest

ASSUME LevelsAssumption ==
  /\ Outside \in Dirs /\ Nil \notin Dirs
  /\ Shapes \subseteq [Dirs -> Dirs] /\ \A s \in Shapes : s[Outside] = Outside
  /\ Budget \in Nat /\ MaxMoves \in Nat

VARIABLES
  up,      \* directory -> the one it is in
  top,     \* the directory to be removed
  frames,  \* the levels of the walk, the deepest last
  low,     \* the shallowest that still holds its descriptor
  end,     \* how the walk ended
  moves

levelVars == <<up, top, frames, low, end, moves>>

\* A level: the directory it was opened as, its descriptor or Nil, its entries
\* still to be visited or None before they are listed, and whether all below
\* has gone.
Listing == [listed : BOOLEAN, names : SUBSET Dirs]
Level(d) == [dir |-> d, fd |-> d, todo |-> [listed |-> FALSE, names |-> {}], emptied |-> TRUE]
Frames == [dir : Dirs, fd : Dirs \cup {Nil}, todo : Listing, emptied : BOOLEAN]

Subdirs(d) == {e \in Dirs \ {Outside} : up[e] = d}
Deepest == Last(frames)

LevelsTypeOK ==
  /\ up \in [Dirs -> Dirs \cup {Nil}] /\ top \in Dirs
  /\ frames \in Seq(Frames) /\ low \in Nat \ {0}
  /\ end \in {"idle", "walking", "gone", "left", "lost"}
  /\ moves \in 0..MaxMoves

LevelsInit ==
  /\ up \in Shapes /\ top \in Subdirs(Outside)
  /\ frames = <<Level(top)>> /\ low = 2 /\ end = "walking" /\ moves = 0

\* Another command.
NoLevels ==
  /\ up = [d \in Dirs |-> Outside] /\ top = Outside
  /\ frames = <<>> /\ low = 1 /\ end = "idle" /\ moves = 0

-----------------------------------------------------------------------------

ListDir ==
  /\ end = "walking" /\ ~Deepest.todo.listed
  /\ frames' = [frames EXCEPT ![Len(frames)].todo = [listed |-> TRUE, names |-> Subdirs(Deepest.fd)]]
  /\ UNCHANGED <<up, top, low, end, moves>>

\* Levels.push(): `low` once the shallowest beyond the budget are parked, the
\* first and the two deepest excepted.
Parked(fs) ==
  LET fitting == {n \in low..Len(fs) : Len(fs) - (n - 1) <= Budget \/ n >= Len(fs) - 1}
  IN IF fitting = {} THEN low ELSE CHOOSE n \in fitting : \A m \in fitting : n <= m

\* _park()
Park(fs, n) ==
  [i \in 1..Len(fs) |-> IF i \in low..(n - 1) THEN [fs[i] EXCEPT !.fd = Nil] ELSE fs[i]]

\* It cannot be read, and so not be emptied.
ListDirFails ==
  /\ end = "walking" /\ ~Deepest.todo.listed
  /\ frames' = [frames EXCEPT ![Len(frames)].todo.listed = TRUE, ![Len(frames)].emptied = FALSE]
  /\ UNCHANGED <<up, top, low, end, moves>>

Rest(d) == [frames EXCEPT ![Len(frames)].todo.names = @ \ {d}]

\* An entry that is a directory still and can be opened.
Descend(d) ==
  /\ end = "walking" /\ d \in Deepest.todo.names /\ up[d] = Deepest.fd
  /\ LET fs == Append(Rest(d), Level(d)) IN
     /\ low' = Parked(fs) /\ frames' = Park(fs, low')
  /\ UNCHANGED <<up, top, end, moves>>

\* One that went away.
PassBy(d) ==
  /\ end = "walking" /\ d \in Deepest.todo.names /\ up[d] # Deepest.fd
  /\ frames' = Rest(d)
  /\ UNCHANGED <<up, top, low, end, moves>>

\* Levels.truncate(): a copy pushes a level before it opens its second
\* directory, and drops it if that fails.
Abandon(d) ==
  /\ end = "walking" /\ d \in Deepest.todo.names /\ up[d] = Deepest.fd
  /\ LET fs == Append(Rest(d), Level(d)) IN
     /\ low' = Parked(fs)
     /\ frames' = [Front(Park(fs, low')) EXCEPT ![Len(frames)].emptied = FALSE]
  /\ UNCHANGED <<up, top, end, moves>>

-----------------------------------------------------------------------------
(* The way back.                                                           *)

\* Mutant: wherever ".." leads now.
RevivedAnywhere(level, d) == up[d]

\* _revive_level(): the directory above `d`, or Nil for ESTALE.
Revived(level, d) ==
  IF level.fd # Nil THEN level.fd
  ELSE IF up[d] = level.dir THEN up[d] ELSE Nil

\* rmdir by name, which also fails when the guest has put something there.
CanRemove(d, from) == up[d] = from /\ Subdirs(d) = {}

\* Mutant: an rmdir that fails is not noticed.
EmptiedUnchecked(level, from) == level.emptied

\* A level all of whose entries went, and that went itself.
Emptied(level, from) == level.emptied /\ CanRemove(level.dir, from)

Climb ==
  /\ end = "walking" /\ Deepest.todo = [listed |-> TRUE, names |-> {}] /\ Len(frames) > 1
  /\ LET above == Front(frames)
         from == Revived(Last(above), Deepest.fd)
         emptied == Emptied(Deepest, from)
     IN IF from = Nil
          THEN /\ end' = "lost" /\ frames' = <<>>
               /\ UNCHANGED <<up, low>>
          ELSE /\ frames' = [above EXCEPT ![Len(above)].fd = from,
                                          ![Len(above)].emptied = @ /\ emptied]
               /\ low' = IF Last(above).fd = Nil THEN Len(above) ELSE low
               /\ up' = IF emptied THEN [up EXCEPT ![Deepest.dir] = Nil] ELSE up
               /\ UNCHANGED end
  /\ UNCHANGED <<top, moves>>

ClimbOut ==
  /\ end = "walking" /\ Deepest.todo = [listed |-> TRUE, names |-> {}] /\ Len(frames) = 1
  /\ LET emptied == Emptied(Deepest, Outside) IN
     /\ up' = IF emptied THEN [up EXCEPT ![top] = Nil] ELSE up
     /\ end' = IF emptied THEN "gone" ELSE "left"
  /\ frames' = <<>>
  /\ UNCHANGED <<top, low, moves>>

\* e is d or above it: no set has d, and all that is above its members, but e.
InTree(d, e) ==
  \A S \in SUBSET (Dirs \ {e}) : d \in S => \E c \in S : up[c] \notin S \cup {Nil}

\* A guest moves a directory of its own, within the tree or out of it.
Move(d, to) ==
  /\ end = "walking" /\ moves < MaxMoves
  /\ d \notin {Outside, top} /\ up[d] # Nil /\ up[to] # Nil /\ ~InTree(to, d)
  /\ up' = [up EXCEPT ![d] = to] /\ moves' = moves + 1
  /\ UNCHANGED <<top, frames, low, end>>

LevelsStep ==
  \/ ListDir \/ ListDirFails \/ Climb \/ ClimbOut
  \/ \E d \in Dirs : Descend(d) \/ PassBy(d) \/ Abandon(d)
  \/ \E d, to \in Dirs : Move(d, to)

LevelsSpec == LevelsInit /\ [][LevelsStep]_levelVars

-----------------------------------------------------------------------------

\* The two deepest are never parked.
OpenLimit == IF Budget < 2 THEN 2 ELSE Budget

\* The level the walk works at is open, so that it can go on after it has given
\* up one below; every open level is the directory it was opened as; and no
\* more are open than the budget allows, and the first.
LevelsHold ==
  /\ frames # <<>> => Deepest.fd # Nil
  /\ \A i \in 1..Len(frames) : frames[i].fd \in {frames[i].dir, Nil}
  /\ Cardinality({i \in 1..Len(frames) : frames[i].fd # Nil}) <= OpenLimit + 1

\* A removal that says that nothing is left has removed the directory and all
\* that was in it at the end, and nothing from a place it was not led to.
RemovesTheTree ==
  [][/\ end' = "gone" => \A d \in Dirs \ {Outside} : up'[d] # Nil => ~InTree(d, top)'
     /\ \A d \in Dirs :
          up[d] # Nil /\ up'[d] = Nil =>
            d = top \/ \E i \in 1..Len(frames) : frames[i].dir = up[d]]_levelVars
=============================================================================
