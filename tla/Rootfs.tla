------------------------------- MODULE Rootfs -------------------------------
(***************************************************************************)
(* A small root filesystem and the layers it is made of: what              *)
(* helpers/layer_diff.py writes into a layer and what                      *)
(* helpers/tar_extract.py makes of one.                                    *)
(*                                                                         *)
(* At the top of a tree are the names Tops, in their sorting order; a      *)
(* directory there may hold one entry, `x`, a file.  That is enough for a  *)
(* name to change its type, for a symlink to stand where a path goes on,   *)
(* and for a directory to outlive or precede its content.                  *)
(***************************************************************************)
EXTENDS Naturals, FiniteSets, Sequences, SequencesExt

CONSTANTS
  Tops,    \* the names in "/", in sorting order
  Data,    \* contents of files
  None

Top == {Tops[i] : i \in 1..Len(Tops)}

\* "plain" is 0755, "special" any other mode of a directory.
Absent == [kind |-> "absent"]
File(v) == [kind |-> "file", data |-> v]
Link(d) == [kind |-> "link", to |-> d]
Dir(mode, x) == [kind |-> "dir", mode |-> mode, x |-> x]

Entries ==
  {Absent} \cup {File(v) : v \in Data} \cup {Link(d) : d \in Top}
  \cup {Dir(m, x) : m \in {"plain", "special"}, x \in Data \cup {None}}

Tree == [Top -> Entries]

ASSUME RootfsAssumption ==
  /\ Tops \in Seq(Top) /\ IsInjective(Tops) /\ Len(Tops) > 0
  /\ None \notin Top \cup Data /\ None \notin Entries /\ None \notin Tree

\* What x is under a name, if that is a directory.
X(e) == IF e.kind = "dir" THEN e.x ELSE None
Inside(e) == IF X(e) = None THEN Absent ELSE File(X(e))

\* A path: the root, a name, or x under a name.
Root == [top |-> None, x |-> FALSE]
Paths == [top : Top, x : BOOLEAN] \cup {Root}

\* What is found there: an entry, or the content of a directory.
Found(t, p) == IF p.top = None THEN Dir("plain", None)
               ELSE IF ~p.x THEN t[p.top]
               ELSE IF X(t[p.top]) = None THEN Absent ELSE File(X(t[p.top]))

\* safe_resolve_parts(): the name a path through `d` goes on under, following
\* symlinks, or None when they go round in a loop.
Resolved(t, d) ==
  LET hop[n \in 0..Cardinality(Top)] ==
        [e \in Top |-> IF t[e].kind # "link" THEN e
                       ELSE IF n = 0 THEN None ELSE hop[n - 1][t[e].to]]
  IN hop[Cardinality(Top)][d]

-----------------------------------------------------------------------------
(* Members of a layer: an entry at the top, or x in it, or a whiteout of    *)
(* either.                                                                 *)

At(d, e) == [do |-> "put", top |-> d, arg |-> e]
In(d, v) == [do |-> "putIn", top |-> d, arg |-> v]
Gone(d) == [do |-> "gone", top |-> d, arg |-> None]
GoneIn(d) == [do |-> "goneIn", top |-> d, arg |-> None]

\* A directory member, without its content.
Bare(e) == IF e.kind = "dir" THEN Dir(e.mode, None) ELSE e

\* What a member makes of the entry that stands under its name; None ends the
\* extraction.  A directory merges into one and replaces a symlink.
DirOver(old, new) == IF old.kind = "file" THEN None ELSE Dir(new.mode, X(old))

\* _write_symlink(): whatever is there goes first.
LinkOver(old, new) == new

\* _write_regular(): a fresh inode, after an unlink of the name.
FileOver(old, new) == IF old.kind = "dir" THEN None ELSE new

Merged(old, new) ==
  CASE new.kind = "dir" -> DirOver(old, new)
    [] new.kind = "link" -> LinkOver(old, new)
    [] new.kind = "file" -> FileOver(old, new)

\* _process_member() for x under a name: the parent is resolved and made.
PutIn(t, d, v) ==
  LET p == Resolved(t, d) IN
  CASE p = None -> t
    [] p # None /\ t[p].kind = "file" -> None
    [] OTHER -> [t EXCEPT ![p] = Dir(IF @.kind = "dir" THEN @.mode ELSE "plain", v)]

\* A whiteout makes no parent: it only ever removes.
RemoveIn(t, d) ==
  LET p == Resolved(t, d) IN
  IF p # None /\ t[p].kind = "dir" THEN [t EXCEPT ![p].x = None] ELSE t

\* Mutant: a directory member goes through a symlink standing there.
PlacedThroughLink(t, m) ==
  CASE m.do = "put" /\ t[m.top].kind = "link" /\ m.arg.kind = "dir" -> t
    [] m.do = "put" ->
         LET e == Merged(t[m.top], m.arg) IN IF e = None THEN None ELSE [t EXCEPT ![m.top] = e]
    [] m.do = "putIn" -> PutIn(t, m.top, m.arg)
    [] m.do = "gone" -> [t EXCEPT ![m.top] = Absent]
    [] m.do = "goneIn" -> RemoveIn(t, m.top)

\* Mutant: a whiteout is extracted like any file.
PlacedWhiteouts(t, m) ==
  CASE m.do = "put" ->
         LET e == Merged(t[m.top], m.arg) IN IF e = None THEN None ELSE [t EXCEPT ![m.top] = e]
    [] m.do = "putIn" -> PutIn(t, m.top, m.arg)
    [] m.do = "gone" -> [t EXCEPT ![m.top] = [kind |-> "whiteout"]]
    [] m.do = "goneIn" -> RemoveIn(t, m.top)

\* _process_member(): the tree after one member, or None.
Placed(t, m) ==
  CASE m.do = "put" ->
         LET e == Merged(t[m.top], m.arg) IN IF e = None THEN None ELSE [t EXCEPT ![m.top] = e]
    [] m.do = "putIn" -> PutIn(t, m.top, m.arg)
    [] m.do = "gone" -> [t EXCEPT ![m.top] = Absent]
    [] m.do = "goneIn" -> RemoveIn(t, m.top)

\* extract_tar_fd_to_rootfs(): the members in their order.
Apply(t, layer) ==
  FoldLeft(LAMBDA r, m : IF r = None THEN None ELSE Placed(r, m), t, layer)

ApplyAll(t, layers) ==
  FoldLeft(LAMBDA r, l : IF r = None THEN None ELSE Apply(r, l), t, layers)

-----------------------------------------------------------------------------
(* The layer of the changes from one snapshot to the next.                 *)

When(cond, m) == IF cond THEN <<m>> ELSE <<>>

\* For each name in order.
ForTops(of) == FoldLeft(LAMBDA s, d : s \o of[d], <<>>, Tops)

\* diff_snapshots(): whether something is there that was not, or has changed.
Fresh(old, new) == new # Absent /\ new # old
Deleted(old, new) == old # Absent /\ new = Absent

\* _whiteout_paths()
Whiteouts(before, after, d) ==
  When(Deleted(before[d], after[d]), Gone(d))
  \o When(Deleted(Inside(before[d]), Inside(after[d])), GoneIn(d))

\* write_layer_tar(): what was added or modified, sorted, and then a whiteout
\* for each path that is gone, sorted.
DiffLayer(before, after) ==
  ForTops([d \in Top |->
             When(Fresh(Bare(before[d]), Bare(after[d])), At(d, Bare(after[d])))
             \o When(Fresh(Inside(before[d]), Inside(after[d])), In(d, X(after[d])))])
  \o ForTops([d \in Top |-> Whiteouts(before, after, d)])

-----------------------------------------------------------------------------
(* file_map, the entries of a COPY, ADD or WORKDIR: a set of members with   *)
(* one for a name at most.                                                 *)

InOrder(map) ==
  LET named(d, do) == SetToSeq({m \in map : m.top = d /\ m.do = do})
  IN ForTops([d \in Top |-> named(d, "put") \o named(d, "putIn")])

\* write_files_layer(): the parents first, as directories of mode 0755.
FilesLayer(map) ==
  ForTops([d \in Top |-> When(\E m \in map : m.do = "putIn" /\ m.top = d,
                              At(d, Dir("plain", None)))])
  \o InOrder(map)

\* _materialise_entry(): like an extraction, but what a symlink is to replace
\* is unlinked only.
Materialised(t, m) ==
  IF m.do = "put" /\ m.arg.kind = "link" /\ t[m.top].kind = "dir"
    THEN None ELSE Placed(t, m)

\* _materialise_files()
MaterialiseAll(t, map) ==
  FoldLeft(LAMBDA r, m : IF r = None THEN None ELSE Materialised(r, m), t, InOrder(map))
=============================================================================
