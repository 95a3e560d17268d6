------------------------------ MODULE Endpoint ------------------------------
(***************************************************************************)
(* One end of a `copy` or `sync`, a `name:path`: paths.py.                 *)
(*                                                                         *)
(* The path is resolved component by component as the container sees it,   *)
(* and then walked once more, off descriptors and following nothing, to    *)
(* pin the directory that is worked in.  A session in the container may    *)
(* turn and move its entries at any moment.                                *)
(***************************************************************************)
EXTENDS Naturals, FiniteSets, Sequences, SequencesExt

CONSTANTS
  Components, \* names of entries
  Rooms,     \* directories of the container
  RootDir,   \* its rootfs
  Host,      \* outside of the container, or nowhere
  Layouts,   \* the container at first
  Specs,     \* the paths asked for
  Swaps,     \* what a session turns an entry into
  MaxHops,   \* _MAX_SYMLINK_HOPS
  MaxSwaps

\* An entry of a directory.
NoEntry == [is |-> "none"]
Plain == [is |-> "file"]
Room(r) == [is |-> "dir", room |-> r]
Linked(abs, path) == [is |-> "link", abs |-> abs, path |-> path]

Parts == Components \cup {".."}
Places == Rooms \cup {Host}
Nodes == [is : {"none", "file"}] \cup [is : {"dir"}, room : Rooms]
         \cup [is : {"link"}, abs : BOOLEAN, path : Seq(Parts)]
EmptyRoom == [n \in Components |-> NoEntry]

\* No entry is named "..", and nothing is seen of what is outside.
ASSUME EndpointAssumption ==
  /\ RootDir \in Rooms /\ Host \notin Rooms /\ ".." \notin Components
  /\ MaxHops \in Nat /\ MaxSwaps \in Nat
  /\ Layouts \subseteq [Places -> [Components -> Nodes]]
  /\ \A l \in Layouts : l[Host] = EmptyRoom
  /\ Specs \subseteq Seq(Parts) /\ Swaps \subseteq Nodes

VARIABLES
  entries,    \* directory -> name -> entry
  asked,      \* the path, and how it is meant
  endpoint,     \* what the command is at
  resolved,   \* the names that are resolved
  pending,    \* those that are not
  hops, fd, swaps

endpointVars == <<entries, asked, endpoint, resolved, pending, hops, fd, swaps>>

EndpointTypeOK ==
  /\ entries \in [Places -> [Components -> Nodes]]
  /\ asked \in [path : Seq(Parts), deref : BOOLEAN, inside : BOOLEAN, create : BOOLEAN]
  /\ endpoint \in {"idle", "resolve", "pin", "made", "pinned", "refused"}
  /\ resolved \in Seq(Components) /\ pending \in Seq(Parts)
  /\ hops \in 0..MaxHops /\ fd \in Places /\ swaps \in 0..MaxSwaps

\* A move acts on the last name itself, when there is one.
KeepsName == ~asked.deref /\ asked.path # <<>> /\ Last(asked.path) # ".."

\* As it is written, the path leaves the rootfs.
Escapes(path) ==
  \E i \in 1..Len(path) :
    Cardinality({j \in 1..i : path[j] = ".."}) > Cardinality({j \in 1..i : path[j] # ".."})

\* `deref` is FALSE for a move, `inside` TRUE for a directory that is worked
\* below, `create` for a destination.
EndpointInit ==
  /\ entries \in Layouts
  /\ asked \in [path : Specs, deref : BOOLEAN, inside : BOOLEAN, create : BOOLEAN]
  /\ endpoint = (IF Escapes(asked.path) THEN "refused" ELSE "resolve")
  /\ resolved = <<>>
  /\ pending = (IF KeepsName THEN Front(asked.path) ELSE asked.path)
  /\ hops = 0 /\ fd = RootDir /\ swaps = 0

\* Another command.
NoEndpoint ==
  /\ entries = [r \in Places |-> EmptyRoom]
  /\ asked = [path |-> <<>>, deref |-> TRUE, inside |-> TRUE, create |-> FALSE]
  /\ endpoint = "idle" /\ resolved = <<>> /\ pending = <<>>
  /\ hops = 0 /\ fd = RootDir /\ swaps = 0

-----------------------------------------------------------------------------

\* The directory above one; the kernel knows no root but the host's.
Above(map, dir) ==
  LET above == {r \in Rooms : \E n \in Components : map[r][n] = Room(dir)}
  IN IF above = {} THEN Host ELSE CHOOSE r \in above : TRUE

\* Where a path leads to the host's kernel, which takes links for the host's.
Look(dir, path, fuel) == [dir |-> dir, path |-> path, fuel |-> fuel]
Looks == [dir : Places, path : Seq(Parts), fuel : 0..MaxHops]

Looked(map) ==
  LET looked[l \in Looks] ==
        IF l.path = <<>> \/ l.dir = Host THEN l.dir
        ELSE IF Head(l.path) = ".."
          THEN looked[Look(Above(map, l.dir), Tail(l.path), l.fuel)]
        ELSE LET e == map[l.dir][Head(l.path)] IN
             IF e.is = "dir" THEN looked[Look(e.room, Tail(l.path), l.fuel)]
             ELSE IF e.is = "link" /\ ~e.abs /\ l.fuel > 0
               THEN looked[Look(l.dir, e.path \o Tail(l.path), l.fuel - 1)]
             ELSE Host
  IN looked

\* readlink() of the next name, by its whole path.
NextEntry == entries[Looked(entries)[Look(RootDir, resolved, MaxHops)]][Head(pending)]

\* Mutant: links are followed without end.
HopFree == TRUE

\* One more link is one too many.
HopLeft == hops < MaxHops

\* Mutant: an absolute link goes on from where it stands.
LinkStartHere(e) == resolved

\* The root stands for "/".
LinkStart(e) == IF e.abs THEN <<>> ELSE resolved

\* _resolve_within_root(), a component at a time.
ResolveUp ==
  /\ endpoint = "resolve" /\ pending # <<>> /\ Head(pending) = ".."
  /\ resolved' = (IF resolved = <<>> THEN <<>> ELSE Front(resolved))
  /\ pending' = Tail(pending)
  /\ UNCHANGED <<entries, asked, endpoint, hops, fd, swaps>>

ResolveName ==
  /\ endpoint = "resolve" /\ pending # <<>> /\ Head(pending) # ".."
  /\ NextEntry.is # "link"
  /\ resolved' = Append(resolved, Head(pending)) /\ pending' = Tail(pending)
  /\ UNCHANGED <<entries, asked, endpoint, hops, fd, swaps>>

ResolveLink ==
  /\ endpoint = "resolve" /\ pending # <<>> /\ Head(pending) # ".."
  /\ NextEntry.is = "link"
  /\ IF HopLeft
       THEN /\ hops' = IF hops < MaxHops THEN hops + 1 ELSE hops
            /\ resolved' = LinkStart(NextEntry)
            /\ pending' = NextEntry.path \o Tail(pending)
            /\ UNCHANGED endpoint
       ELSE endpoint' = "refused" /\ UNCHANGED <<hops, resolved, pending>>
  /\ UNCHANGED <<entries, asked, fd, swaps>>

\* The path that is resolved, with the name a move keeps.
Target == IF KeepsName THEN Append(resolved, Last(asked.path)) ELSE resolved

\* pin_path() walks all of it, or all but the last name.
BeginPin ==
  /\ endpoint = "resolve" /\ pending = <<>>
  /\ endpoint' = "pin" /\ resolved' = Target
  /\ pending' = (IF asked.inside \/ Target = <<>> THEN Target ELSE Front(Target))
  /\ UNCHANGED <<entries, asked, hops, fd, swaps>>

\* _descend(): the directory under a name, and no other thing.
Steps(dir, name) ==
  LET e == entries[dir][name] IN IF e.is = "dir" THEN {e.room} ELSE {}

Free == {r \in Rooms \ {RootDir} : \A q \in Rooms, n \in Components : entries[q][n] # Room(r)}

\* With `create` a missing directory is made, and then opened like any other.
PinName ==
  /\ endpoint \in {"pin", "made"} /\ pending # <<>>
  /\ IF Steps(fd, Head(pending)) # {}
       THEN /\ fd' \in Steps(fd, Head(pending)) /\ pending' = Tail(pending)
            /\ endpoint' = "pin" /\ UNCHANGED entries
     ELSE IF endpoint = "pin" /\ asked.create /\ entries[fd][Head(pending)] = NoEntry /\ Free # {}
       THEN \E r \in Free :
              /\ entries' = [entries EXCEPT ![fd][Head(pending)] = Room(r),
                                            ![r] = EmptyRoom]
              /\ endpoint' = "made" /\ UNCHANGED <<fd, pending>>
     ELSE endpoint' = "refused" /\ UNCHANGED <<entries, fd, pending>>
  /\ UNCHANGED <<asked, resolved, hops, swaps>>

Pinned ==
  /\ endpoint = "pin" /\ pending = <<>>
  /\ endpoint' = "pinned"
  /\ UNCHANGED <<entries, asked, resolved, pending, hops, fd, swaps>>

\* A session puts something else under a name, or exchanges two.
Swap(r, n, e) ==
  /\ endpoint \in {"resolve", "pin", "made"} /\ swaps < MaxSwaps /\ e # entries[r][n]
  /\ entries' = [entries EXCEPT ![r][n] = e] /\ swaps' = swaps + 1
  /\ UNCHANGED <<asked, endpoint, resolved, pending, hops, fd>>

Exchange(r, n, m) ==
  /\ endpoint \in {"resolve", "pin", "made"} /\ swaps < MaxSwaps /\ n # m
  /\ entries' = [entries EXCEPT ![r][n] = entries[r][m], ![r][m] = entries[r][n]]
  /\ swaps' = swaps + 1
  /\ UNCHANGED <<asked, endpoint, resolved, pending, hops, fd>>

Resolving == ResolveUp \/ ResolveName \/ ResolveLink \/ BeginPin \/ PinName \/ Pinned

EndpointStep ==
  \/ Resolving
  \/ \E r \in Rooms, n \in Components :
       \/ \E e \in Swaps : Swap(r, n, e)
       \/ \E m \in Components : Exchange(r, n, m)

EndpointSpec == EndpointInit /\ [][EndpointStep]_endpointVars

EndpointFairness == WF_endpointVars(Resolving)

-----------------------------------------------------------------------------

\* What the container sees of a path: where it leads from below the directories
\* it has come through, Host if nowhere or over too many links.
View(dirs, path, fuel) == [dirs |-> dirs, path |-> path, fuel |-> fuel]
Views == [dirs : Seq(Places) \ {<<>>}, path : Seq(Parts), fuel : 0..MaxHops]

Seen(map) ==
  LET seen[v \in Views] ==
        IF v.path = <<>> THEN Last(v.dirs)
        ELSE IF Head(v.path) = ".."
          THEN seen[View(IF Len(v.dirs) = 1 THEN v.dirs ELSE Front(v.dirs), Tail(v.path), v.fuel)]
        ELSE LET e == map[Last(v.dirs)][Head(v.path)] IN
             IF e.is = "dir" THEN seen[View(Append(v.dirs, e.room), Tail(v.path), v.fuel)]
             ELSE IF e.is # "link" THEN seen[View(Append(v.dirs, Host), Tail(v.path), v.fuel)]
             ELSE IF v.fuel = 0 THEN Host
             ELSE seen[View(IF e.abs THEN <<RootDir>> ELSE v.dirs,
                            e.path \o Tail(v.path), v.fuel - 1)]
  IN seen

\* Whatever a session does meanwhile, the directory that is worked in is one of
\* the container's; and while it does nothing, the one the container sees under
\* the path.
PinnedWhereAsked ==
  /\ fd \in Rooms
  /\ endpoint = "pinned" /\ swaps = 0 /\ asked.inside /\ asked.deref /\ ~asked.create =>
       fd = Seen(entries)[View(<<RootDir>>, asked.path, MaxHops)]

\* The path is pinned or refused in the end, links in a circle or not.
EndpointSettles == (endpoint = "resolve") ~> (endpoint \in {"pinned", "refused"})
=============================================================================
