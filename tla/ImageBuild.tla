----------------------------- MODULE ImageBuild -----------------------------
(***************************************************************************)
(* helpers/build_engine: the instructions of a Dockerfile that change a    *)
(* tree.  Each writes twice: into the rootfs of the stage, and into a      *)
(* layer, and an image is the base image with its layers.  What install,   *)
(* FROM <stage> and a hit of the build cache get is the second one.        *)
(*                                                                         *)
(* A RUN is one step here: RunStep shows that nothing of it is left when   *)
(* its layer is packed.                                                    *)
(***************************************************************************)
EXTENDS Rootfs

CONSTANTS
  Bases,      \* the trees of base images
  Commands,   \* commands of RUN
  Left,       \* what a command may leave under a name
  Context,    \* the build context
  Ignore,     \* the patterns of .dockerignore, in order
  MaxSteps,   \* instructions of one build
  MaxStages

ASSUME ImageBuildAssumption ==
  /\ Bases \subseteq Tree /\ Left \subseteq Entries /\ Context \in Tree
  /\ MaxSteps \in Nat /\ MaxStages \in Nat \ {0}

VARIABLES
  build,    \* where the build is
  base,     \* the base image's tree
  tree,     \* the rootfs of the current stage
  layers,   \* its layers, on top of the base image's
  clean,    \* see LayersReplay
  parent,   \* the stage before, or None
  runs,     \* the build cache: the layer of a RUN by its recipe
  steps,    \* instructions so far
  stages    \* FROMs so far

stage == <<tree, layers, clean>>
buildVars == <<build, base, stage, parent, runs, steps, stages>>

Replayed == ApplyAll(base, layers)

BuildInit ==
  /\ build = "building" /\ base \in Bases
  /\ tree = base /\ layers = <<>> /\ clean = TRUE
  /\ parent = None /\ runs = {} /\ steps = 0 /\ stages = 1

\* Another command.
NoBuild ==
  /\ build = "idle" /\ base = [d \in Top |-> Absent]
  /\ tree = base /\ layers = <<>> /\ clean = TRUE
  /\ parent = None /\ runs = {} /\ steps = 0 /\ stages = 1

Instruction ==
  /\ build = "building" /\ steps < MaxSteps
  /\ steps' = steps + 1

Fails ==
  /\ build' = "failed"
  /\ UNCHANGED <<base, stage, parent, runs, stages>>

\* An instruction's tree and layer.  None is an extraction or a write that failed.
Done(t, layer, replays, records) ==
  IF t = None THEN Fails
  ELSE /\ tree' = t /\ layers' = Append(layers, layer)
       /\ clean' = (clean /\ replays) /\ runs' = records
       /\ UNCHANGED <<build, base, parent, stages>>

\* An instruction that does nothing.
Nothing == UNCHANGED <<build, base, stage, parent, runs, stages>>

-----------------------------------------------------------------------------
(* RUN.                                                                    *)

\* compute_recipe_hash(): the command after the layer below it.
Recipe(command) ==
  [command |-> command, below |-> IF layers = <<>> THEN None ELSE Last(layers)]

RunsOf(recipe) == {r \in runs : r.recipe = recipe}

\* A name turns from a directory into something else or back.
Retyped(t, u) ==
  \E d \in Top : /\ Absent \notin {t[d], u[d]}
                 /\ (t[d].kind = "dir") # (u[d].kind = "dir")
                 /\ "file" \in {t[d].kind, u[d].kind} \/ u[d].kind = "link"

\* No record, --no-cache, or one whose blob is gone or spoilt: the command runs,
\* and its exit status is 0.
Run(command) ==
  /\ Instruction
  /\ \E d \in Top, e \in Left :
       LET after == [tree EXCEPT ![d] = e]
           layer == DiffLayer(tree, after)
           record == [recipe |-> Recipe(command), layer |-> layer]
       IN Done(after, layer, ~Retyped(tree, after),
               (runs \ RunsOf(record.recipe)) \cup {record})

\* A hit replays the cached layer.
RunCached(command) ==
  /\ Instruction
  /\ \E r \in RunsOf(Recipe(command)) : Done(Apply(tree, r.layer), r.layer, TRUE, runs)

RunFails == Instruction /\ Fails

-----------------------------------------------------------------------------
(* COPY and ADD.                                                           *)

\* is_ignored(): the last pattern that matches the path or one above it.
IsIgnored(p) ==
  LET hits == {i \in 1..Len(Ignore) :
                 Ignore[i].path.top = p.top /\ (Ignore[i].path.x => p.x)}
  IN hits # {} /\ ~Ignore[CHOOSE i \in hits : \A j \in hits : j <= i].negated

\* _SourceTree: where a source spec leads; its last component is not resolved.
Source(t, p) == IF p.x THEN [p EXCEPT !.top = Resolved(t, p.top)] ELSE p

\* _add_directory_tree() of the whole context: a directory that is ignored is
\* not entered.
AllMembers(t, ignored) ==
  LET named == {d \in Top : t[d] # Absent /\ [top |-> d, x |-> FALSE] \notin ignored}
      inside == {d \in named : X(t[d]) # None /\ [top |-> d, x |-> TRUE] \notin ignored}
  IN {At(d, Bare(t[d])) : d \in named} \cup {In(d, X(t[d])) : d \in inside}

\* _add_to_file_map() of a file or a symlink, and of a directory, whose entries
\* go into the destination.
OneMember(found, to) == IF to.x THEN {In(to.top, found.data)} ELSE {At(to.top, found)}
DirMembers(found, to) == IF X(found) = None THEN {} ELSE {In(to.top, X(found))}

FileMap(t, from, to, ignored) ==
  LET found == Found(t, from) IN
  CASE from = Root -> AllMembers(t, ignored)
    [] from # Root /\ from \in ignored -> {}
    [] from # Root /\ from \notin ignored /\ found.kind # "dir" -> OneMember(found, to)
    [] OTHER -> IF [from EXCEPT !.x = TRUE] \in ignored THEN {} ELSE DirMembers(found, to)

\* Names that fit this small tree.
Fits(t, from, to) ==
  LET found == Found(t, from) IN
  /\ (from = Root) = (to = Root)
  /\ to.x => found.kind = "file"

\* The layer has every parent as a directory of mode 0755, whatever it is.
ParentsPlain(map) ==
  \A m \in map : m.do = "putIn" =>
    /\ tree[m.top].kind # "link"
    /\ tree[m.top].kind = "dir" => tree[m.top].mode = "plain"

CopyFrom(t, ignored) ==
  \E spec, to \in Paths :
    LET from == Source(t, spec) IN
    IF (from.x /\ from.top = None) \/ Found(t, from) = Absent
      THEN Fails
      ELSE /\ Fits(t, from, to)
           /\ LET map == FileMap(t, from, to, ignored) IN
              IF map = {} THEN Nothing
              ELSE Done(MaterialiseAll(tree, map), FilesLayer(map), ParentsPlain(map), runs)

Copy == Instruction /\ CopyFrom(Context, {p \in Paths : IsIgnored(p)})
CopyFromStage == parent # None /\ Instruction /\ CopyFrom(parent.tree, {})

-----------------------------------------------------------------------------

\* WORKDIR: the directory is made where the path leads, or given mode 0755; a
\* layer has what was made.  A file in the way is passed over.
Workdir(d) ==
  /\ Instruction
  /\ LET p == Resolved(tree, d) IN
     IF p = None \/ (p # None /\ tree[p].kind = "file")
       THEN Nothing
     ELSE IF tree[p] = Absent
       THEN Done([tree EXCEPT ![p] = Dir("plain", None)],
                 FilesLayer({At(p, Dir("plain", None))}), TRUE, runs)
     ELSE /\ tree' = [tree EXCEPT ![p].mode = "plain"]
          /\ clean' = (clean /\ tree[p].mode = "plain")
          /\ UNCHANGED <<build, base, layers, parent, runs, stages>>

\* FROM the same image, or from the stage before: its layers once more.
From(onto, below) ==
  /\ build = "building" /\ stages < MaxStages
  /\ stages' = stages + 1
  /\ parent' = [tree |-> tree, layers |-> layers]
  /\ IF onto = None THEN build' = "failed" /\ UNCHANGED stage
     ELSE tree' = onto /\ layers' = below /\ clean' = TRUE /\ UNCHANGED build
  /\ UNCHANGED <<base, runs, steps>>

FromImage == From(base, <<>>)
FromStage == From(Replayed, layers)

Finish ==
  /\ build = "building" /\ build' = "done"
  /\ UNCHANGED <<base, stage, parent, runs, steps, stages>>

BuildStep ==
  \/ \E c \in Commands : Run(c) \/ RunCached(c)
  \/ RunFails \/ Copy \/ CopyFromStage
  \/ \E d \in Top : Workdir(d)
  \/ FromImage \/ FromStage \/ Finish

BuildSpec == BuildInit /\ [][BuildStep]_buildVars

-----------------------------------------------------------------------------
(* Properties.                                                             *)

BuildTypeOK ==
  /\ build \in {"idle", "building", "done", "failed"}
  /\ base \in Tree /\ tree \in Tree /\ clean \in BOOLEAN
  /\ steps \in 0..MaxSteps /\ stages \in 1..MaxStages

\* The layers of a stage applied to its base image give the tree that its
\* instructions worked on: what is installed is what was built.
LayersReplay == build \in {"building", "done"} => Replayed = tree

\* So they do unless an instruction gave a directory's name to a file or a
\* symlink or the reverse, copied into a directory through a symlink or into
\* one whose mode is not 0755, or went to work in one of another mode.  (The
\* resolv.conf and hosts that FROM writes into the tree are not in the model.)
CleanLayersReplay == clean => LayersReplay
=============================================================================
