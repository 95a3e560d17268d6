------------------------------- MODULE Mirror -------------------------------
(***************************************************************************)
(* `sync`, `copy -r` and `copy --move` of one directory onto another:      *)
(* commands/sync.py, commands/copy.py and the walks of dirfd.py.           *)
(*                                                                         *)
(* The source is locked shared only, so a session may change it while it   *)
(* is walked.  `sync` walks it twice, to list it and to write, and with    *)
(* --delete walks the destination after that.  An entry that fails is      *)
(* reported and stepped over; the exit status says so.  Two failures are   *)
(* passed over in silence: a mode that cannot be set, and a directory that *)
(* --delete cannot look into.                                              *)
(***************************************************************************)
EXTENDS Rootfs

CONSTANTS
  Sources, Dests,   \* the directories at first
  Turns,            \* what a session may turn an entry of the source into
  Stamp,            \* of contents: their size and time of modification
  MaxFaults,        \* calls that fail
  MaxTurns          \* changes of the source while it is walked

Special == [kind |-> "special"]
MirrorTree == [Top -> Entries \cup {Special}]

ASSUME MirrorAssumption ==
  /\ Sources \subseteq MirrorTree /\ Dests \subseteq Tree
  /\ Turns \subseteq Entries /\ Stamp \in [Data -> Nat]
  /\ MaxFaults \in Nat /\ MaxTurns \in Nat

VARIABLES
  verb,      \* "sync", "syncDelete" and how files are compared, "copy" or "move"
  walk,      \* the pass, or how the command ended
  todo,      \* what the pass still has to do, in order
  src, dst,
  seen,      \* ctx.src_rels
  skipped,   \* ctx.skipped_rels
  unread,    \* ctx.root_unreadable
  failed,    \* ctx.failures, or an entry a copy did not carry across
  faults, turns,
  src0, dst0, touched, wrote,  \* history: see the properties
  unset,     \* history: directories left without their mode, in silence
  unseen     \* history: where --delete did not look, in silence

trees == <<src, dst>>
notes == <<seen, skipped, unread, failed>>
history == <<src0, dst0, touched, wrote, unset, unseen>>
mirrorVars == <<verb, walk, todo, trees, notes, faults, turns, history>>

Syncs == verb.name \in {"sync", "syncDelete"}
MirrorOver == walk \in {"done", "failed"}
Rel(d) == [top |-> d, x |-> FALSE]
RelIn(d) == [top |-> d, x |-> TRUE]
Item(act, p) == [act |-> act, p |-> p]

MirrorTypeOK ==
  /\ verb.name \in {"sync", "syncDelete", "copy", "move"} /\ verb.checksum \in BOOLEAN
  /\ walk \in {"idle", "list", "write", "look", "prune", "remove", "done", "failed"}
  /\ \A i \in 1..Len(todo) :
       todo[i].act \in {"level", "entry", "leave", "end"} /\ todo[i].p \in Paths
  /\ src \in MirrorTree /\ dst \in MirrorTree
  /\ seen \subseteq Paths /\ skipped \subseteq Paths
  /\ unread \in BOOLEAN /\ failed \in BOOLEAN
  /\ faults \in 0..MaxFaults /\ turns \in 0..MaxTurns
  /\ unset \subseteq Top /\ unseen \subseteq Paths

Starts(s, d) ==
  /\ src = s /\ src0 = s /\ dst = d /\ dst0 = d
  /\ seen = {} /\ skipped = {} /\ unread = FALSE /\ failed = FALSE
  /\ faults = 0 /\ turns = 0 /\ touched = {} /\ wrote = {} /\ unset = {} /\ unseen = {}
  /\ todo = <<Item("level", Root)>>

SyncStarts ==
  /\ verb \in [name : {"sync", "syncDelete"}, checksum : BOOLEAN] /\ walk = "list"
  /\ \E s \in Sources, d \in Dests : Starts(s, d)

CopyStarts ==
  /\ verb = [name |-> "copy", checksum |-> FALSE] /\ walk = "write"
  /\ \E s \in Sources, d \in Dests : Starts(s, d)

\* Its destination is new; what it replaces was empty or not a directory.
MoveStarts ==
  /\ verb = [name |-> "move", checksum |-> FALSE] /\ walk = "write"
  /\ \E s \in Sources : Starts(s, [n \in Top |-> Absent])

MirrorInit == SyncStarts \/ CopyStarts \/ MoveStarts

\* Another command.
NoMirror ==
  /\ walk = "idle" /\ verb = [name |-> "sync", checksum |-> FALSE] /\ todo = <<>>
  /\ src = [d \in Top |-> Absent] /\ dst = src /\ src0 = src /\ dst0 = src
  /\ seen = {} /\ skipped = {} /\ unread = FALSE /\ failed = FALSE
  /\ faults = 0 /\ turns = 0 /\ touched = {} /\ wrote = {} /\ unset = {} /\ unseen = {}

-----------------------------------------------------------------------------
(* The walk: its work, in the order of the names.                          *)

Now == Head(todo)
Doing(pass, act) == walk = pass /\ todo # <<>> /\ Now.act = act

\* listdir_at(): names in their order.
Place(d) == CHOOSE i \in 1..Len(Tops) : Tops[i] = d
Sorted(names) ==
  [k \in 1..Cardinality(names) |->
     CHOOSE d \in names : Cardinality({e \in names : Place(e) <= Place(d)}) = k]

Items(act, names) == LET s == Sorted(names) IN [k \in 1..Len(s) |-> Item(act, Rel(s[k]))]
ItemsIn(act, names) == LET s == Sorted(names) IN [k \in 1..Len(s) |-> Item(act, RelIn(s[k]))]

\* The names of a level.
Names(t, p, act) ==
  IF p = Root THEN Items(act, {d \in Top : t[d] # Absent})
  ELSE When(X(t[p.top]) # None, Item(act, RelIn(p.top)))

Of(items) == {items[i].p : i \in 1..Len(items)}

\* A call that fails; what failed before may fail again at no cost.
Fault ==
  \/ faults < MaxFaults /\ faults' = faults + 1
  \/ Now.p \in skipped /\ UNCHANGED faults
NoFault == UNCHANGED faults

\* Mutant: an entry that failed is stepped over and forgotten.
NoteSkipped(p) == skipped' = skipped \cup {p} /\ UNCHANGED failed

\* ctx.note_failure()
NoteFailure(p) == skipped' = skipped \cup {p} /\ failed' = TRUE

StepOver == todo' = Tail(todo)

-----------------------------------------------------------------------------
(* Pass 1, _collect_rels(): a level is listed.                             *)

IsDirectory(t, p) == p = Root \/ t[p.top].kind = "dir"

ListLevel ==
  /\ Doing("list", "level") /\ NoFault
  /\ IF IsDirectory(src, Now.p)
       THEN LET names == Names(src, Now.p, "level") IN
            /\ seen' = seen \cup Of(names)
            /\ todo' = Tail(todo) \o (IF Now.p = Root THEN Items("level", {d \in Top : src[d].kind = "dir"})
                                     ELSE <<>>)
            /\ UNCHANGED <<skipped, failed>>
       ELSE StepOver /\ NoteFailure(Now.p) /\ UNCHANGED seen
  /\ UNCHANGED <<verb, walk, trees, unread, turns, history>>

\* It cannot be read.
ListLevelFails ==
  /\ Doing("list", "level") /\ Fault
  /\ IF Now.p = Root
       THEN unread' = TRUE /\ failed' = TRUE /\ UNCHANGED skipped
       ELSE NoteFailure(Now.p) /\ UNCHANGED unread
  /\ StepOver
  /\ UNCHANGED <<verb, walk, trees, seen, turns, history>>

Listed2 ==
  /\ walk = "list" /\ todo = <<>>
  /\ walk' = "write" /\ todo' = <<Item("level", Root)>>
  /\ UNCHANGED <<verb, trees, notes, faults, turns, history>>

-----------------------------------------------------------------------------
(* Pass 2, _mirror_at(), and copy_tree_at().                               *)

\* `sync` goes below a level's directories when it has written the others,
\* a copy at once.
Below(items) == IF Syncs THEN Tail(todo) \o items ELSE items \o Tail(todo)

\* ctx.saw(), for every name of a level.
Saw(items) == IF Syncs THEN seen \cup Of(items) ELSE seen

EnterLevel ==
  /\ Doing("write", "level") /\ NoFault
  /\ IF IsDirectory(src, Now.p) /\ IsDirectory(dst, Now.p)
       THEN LET names == Names(src, Now.p, "entry") IN
            /\ todo' = names \o When(Now.p # Root, Item("leave", Now.p)) \o Tail(todo)
            /\ seen' = Saw(names) /\ UNCHANGED <<skipped, failed>>
       ELSE StepOver /\ NoteFailure(Now.p) /\ UNCHANGED seen
  /\ UNCHANGED <<verb, walk, trees, unread, turns, history>>

\* It cannot be opened, or not be read; then it gets its mode nonetheless.
EnterLevelFails ==
  /\ Doing("write", "level") /\ Fault
  /\ NoteFailure(Now.p)
  /\ \/ StepOver
     \/ Now.p # Root /\ todo' = <<Item("leave", Now.p)>> \o Tail(todo)
  /\ UNCHANGED <<verb, walk, trees, seen, unread, turns, history>>

\* The destination with an entry under p.  A directory's content stays.
Put(p, e) ==
  IF p.x THEN [dst EXCEPT ![p.top].x = IF e = Absent THEN None ELSE e.data]
  ELSE [dst EXCEPT ![p.top] = e]

\* _needs_update(): a file of another size or time, or of other content.
NeedsUpdate(p) ==
  LET s == Found(src, p)
      d == Found(dst, p)
  IN \/ d.kind # "file"
     \/ d.data # s.data /\ (verb.checksum \/ Stamp[d.data] # Stamp[s.data])

\* What may stand where an entry is written.  `sync` clears all but a directory
\* out of the way of a file.
SyncReplaces(e, old) == e.kind = "file" => old.kind # "dir"

\* A copy replaces an entry by one of its own kind, or anything but a directory
\* by a symlink.
CopyReplaces(e, old) ==
  CASE e.kind = "link" -> old.kind # "dir"
    [] OTHER -> old.kind = e.kind

Replaces(e, old) ==
  old = Absent \/ IF Syncs THEN SyncReplaces(e, old) ELSE CopyReplaces(e, old)

\* A directory is made for its owner alone and gets its mode when its content
\* is in; one that is there stays.
MadeDir(p) == IF Found(dst, p).kind = "dir" THEN dst ELSE Put(p, Dir("special", None))

\* A symlink, and whatever stood there is gone.
MadeLink(p, e) == Put(p, e)

\* _sync_file() by a temporary file, copy_file_at() by one where files merge.
MadeFile(p, e) == IF Syncs /\ ~NeedsUpdate(p) THEN dst ELSE Put(p, e)

Written(p, e) ==
  CASE e.kind = "dir" -> MadeDir(p)
    [] e.kind = "link" -> MadeLink(p, e)
    [] e.kind = "file" -> MadeFile(p, e)

\* Devices, pipes and sockets are never carried across: `sync` leaves what
\* stands under the name alone, and a move must not remove them.
Skip(p) ==
  /\ skipped' = skipped \cup {p}
  /\ failed' = (failed \/ verb.name = "move")

WriteEntry ==
  /\ Doing("write", "entry") /\ NoFault
  /\ LET p == Now.p
         e == Found(src, p)
     IN CASE e = Absent -> StepOver /\ NoteFailure(p) /\ UNCHANGED <<dst, wrote>>
          [] e = Special -> StepOver /\ Skip(p) /\ UNCHANGED <<dst, wrote>>
          [] e \notin {Absent, Special} /\ ~Replaces(e, Found(dst, p)) ->
               StepOver /\ NoteFailure(p) /\ UNCHANGED <<dst, wrote>>
          [] OTHER ->
               /\ dst' = Written(p, e) /\ wrote' = wrote \cup {p}
               /\ IF e.kind = "dir" THEN todo' = Below(<<Item("level", p)>>) ELSE StepOver
               /\ UNCHANGED <<skipped, failed>>
  /\ UNCHANGED <<verb, walk, src, seen, unread, turns, src0, dst0, touched, unset, unseen>>

\* What was to be replaced by a directory or a symlink may be gone already.
WriteEntryFails ==
  /\ Doing("write", "entry") /\ Fault
  /\ StepOver /\ NoteFailure(Now.p)
  /\ \/ UNCHANGED dst
     \/ /\ Syncs /\ Found(src, Now.p).kind \in {"dir", "link"}
        /\ dst[Now.p.top].kind # Found(src, Now.p).kind
        /\ dst' = Put(Now.p, Absent)
  /\ UNCHANGED <<verb, walk, src, seen, unread, turns, history>>

\* copy_metadata(), on the way back up: the directory's mode and times.  When
\* they cannot be set, nothing is said.
LeaveLevel ==
  /\ Doing("write", "leave") /\ StepOver
  /\ \/ /\ NoFault /\ UNCHANGED unset
        /\ dst' = IF IsDirectory(src, Now.p)
                    THEN [dst EXCEPT ![Now.p.top].mode = src[Now.p.top].mode]
                    ELSE dst
     \/ Fault /\ unset' = unset \cup {Now.p.top} /\ UNCHANGED dst
  /\ UNCHANGED <<verb, walk, src, notes, turns, src0, dst0, touched, wrote, unseen>>

Status == IF failed THEN "failed" ELSE "done"

\* Mutant: only what failed keeps a move from removing its source.
WrittenMoveOn == IF verb.name = "move" THEN "remove" ELSE Status

\* Then `sync --delete` prunes, and a move that carried all across removes.
WrittenNext ==
  IF verb.name = "syncDelete" THEN "look"
  ELSE IF verb.name = "move" /\ ~failed THEN "remove" ELSE Status

WriteOver ==
  /\ walk = "write" /\ todo = <<>>
  /\ walk' = WrittenNext
  /\ todo' = IF walk' = "remove"
               THEN Names(src, Root, "entry") \o <<Item("end", Root)>> ELSE <<>>
  /\ UNCHANGED <<verb, trees, notes, faults, turns, history>>

-----------------------------------------------------------------------------
(* Pass 3, _prune().                                                       *)

\* _collect_extras_at(): destination entries with no counterpart.
Orphan(p) == Found(dst, p) # Absent /\ p \notin seen /\ p \notin skipped

\* Mutant: a directory that was skipped is one to prune in.
ComparedToo(d) == Rel(d) \in seen

\* Those of a directory whose counterpart was written.
Compared(d) == Rel(d) \in seen \ skipped

\* What it looks at: the root's listing, each entry that is there, and what is
\* in a directory.  An error there means no more than that it looks no further.
LooksAt ==
  {Root} \cup {p \in Paths \ {Root} : Found(dst, p) # Absent /\ p \notin skipped}

\* It did not get to see the entry.
Hidden(p, blind) == {Root, Rel(p.top), p} \cap blind # {}

Extras(blind) ==
  Items("entry", {d \in Top : Orphan(Rel(d)) /\ ~Hidden(Rel(d), blind)})
  \o ItemsIn("entry", {d \in Top : Compared(d) /\ Orphan(RelIn(d)) /\ ~Hidden(RelIn(d), blind)})

\* An error of the second walk, _remove_extras_at(), has the same effect.
LookForExtras ==
  /\ walk = "look" /\ walk' = "prune"
  /\ IF unread THEN todo' = <<>> /\ UNCHANGED <<faults, unseen>>
     ELSE \E blind \in SUBSET LooksAt :
            /\ faults' = faults + Cardinality(blind) /\ faults' \in faults..MaxFaults
            /\ unseen' = blind /\ todo' = Extras(blind)
  /\ UNCHANGED <<verb, trees, notes, turns, src0, dst0, touched, wrote, unset>>

\* A directory that had to be made writable for it gets its mode back by
\* _restore_dir_metadata(), or in silence does not.
Prune ==
  /\ Doing("prune", "entry") /\ StepOver
  /\ \/ NoFault /\ dst' = Put(Now.p, Absent) /\ UNCHANGED unset
     \/ /\ Now.p.x /\ Fault /\ unset' = unset \cup {Now.p.top}
        /\ \E m \in {"plain", "special"} :
             dst' = [Put(Now.p, Absent) EXCEPT ![Now.p.top].mode = m]
  /\ UNCHANGED <<verb, walk, src, notes, turns, src0, dst0, touched, wrote, unseen>>

PruneFails ==
  /\ Doing("prune", "entry") /\ Fault
  /\ StepOver /\ NoteFailure(Now.p)
  /\ UNCHANGED <<verb, walk, trees, seen, unread, turns, history>>

Pruned ==
  /\ walk = "prune" /\ todo = <<>>
  /\ walk' = Status
  /\ UNCHANGED <<verb, todo, trees, notes, faults, turns, history>>

-----------------------------------------------------------------------------
(* _move_pinned()                                                          *)

\* rename(2), when both are on one filesystem.
Rename ==
  /\ walk = "write" /\ verb.name = "move" /\ Doing("write", "level") /\ Now.p = Root
  /\ src' = dst /\ dst' = src
  /\ walk' = "done" /\ StepOver
  /\ UNCHANGED <<verb, notes, faults, turns, history>>

\* rmtree_at(): the names it listed, then the directory.
RemoveSource ==
  /\ Doing("remove", "entry") /\ NoFault
  /\ src' = [src EXCEPT ![Now.p.top] = Absent] /\ StepOver
  /\ UNCHANGED <<verb, walk, dst, notes, turns, history>>

RemoveFails ==
  /\ Doing("remove", "entry") /\ Fault
  /\ walk' = "failed"
  /\ UNCHANGED <<verb, todo, trees, notes, turns, history>>

SourceGone ==
  /\ Doing("remove", "end")
  /\ walk' = (IF \A d \in Top : src[d] = Absent THEN "done" ELSE "failed")
  /\ UNCHANGED <<verb, todo, trees, notes, faults, turns, history>>

-----------------------------------------------------------------------------

\* A session in the source, beside the transfer.
Turn(d, e) ==
  /\ ~MirrorOver /\ walk # "idle" /\ turns < MaxTurns
  /\ turns' = turns + 1 /\ touched' = touched \cup {d}
  /\ src' = [src EXCEPT ![d] = e]
  /\ UNCHANGED <<verb, walk, todo, dst, notes, faults, src0, dst0, wrote, unset, unseen>>

\* Ctrl-C, or a signal.
Interrupt ==
  /\ walk \in {"list", "write", "look", "prune", "remove"} /\ walk' = "failed"
  /\ UNCHANGED <<verb, todo, trees, notes, faults, turns, history>>

MirrorStep ==
  \/ ListLevel \/ ListLevelFails \/ Listed2
  \/ EnterLevel \/ EnterLevelFails \/ WriteEntry \/ WriteEntryFails \/ LeaveLevel
  \/ WriteOver \/ LookForExtras \/ Prune \/ PruneFails \/ Pruned
  \/ Rename \/ RemoveSource \/ RemoveFails \/ SourceGone
  \/ \E d \in Top, e \in Turns : Turn(d, e)
  \/ Interrupt

MirrorSpec == MirrorInit /\ [][MirrorStep]_mirrorVars

-----------------------------------------------------------------------------

\* What --delete takes away is nothing the transfer has written, and nothing the
\* source has had all the time, readable or not; and it takes nothing out of a
\* directory that is none in the source, unless the source's root could be read
\* for the list and no more after that.
PruneSpares ==
  [][walk = "prune" =>
       \A p \in Paths \ {Root} :
         Found(dst, p) # Absent /\ Found(dst', p) = Absent =>
           /\ p \notin wrote
           /\ \/ p.top \in touched
              \/ /\ Found(src0, p) = Absent
                 /\ \/ dst'[p.top] = Absent \/ src0[p.top].kind = "dir"
                    \/ Root \in skipped]_mirrorVars

\* A file for a file: the same content, or without --checksum one of the same
\* size and time that was there before.
SameFile(v, w) ==
  v = w \/ (Syncs /\ ~verb.checksum /\ Stamp[v] = Stamp[w])

\* `sync --delete` takes away what has no counterpart, where it looked.
Deletes(p) == verb.name = "syncDelete" /\ ~Hidden(p, unseen)

\* What the transfer makes of a directory's content.
Contents(d) ==
  LET v == X(src0[d])
      w == X(dst[d])
  IN IF v # None THEN w # None /\ SameFile(v, w)
     ELSE w = IF Deletes(RelIn(d)) THEN None ELSE X(dst0[d])

\* A transfer that exits 0 has carried across every entry nobody changed
\* meanwhile, but for a mode that the destination would not take; with --delete
\* the destination holds nothing else, but for what it could not look at.
MirrorsSource ==
  walk = "done" =>
    \A d \in Top \ touched :
      LET s == src0[d] IN
      CASE s = Special -> dst[d] = IF verb.name = "move" THEN s ELSE dst0[d]
        [] s = Absent -> dst[d] = IF Deletes(Rel(d)) THEN Absent ELSE dst0[d]
        [] s.kind = "link" -> dst[d] = s
        [] s.kind = "file" -> dst[d].kind = "file" /\ SameFile(s.data, dst[d].data)
        [] s.kind = "dir" -> /\ dst[d].kind = "dir" /\ Contents(d)
                             /\ dst[d].mode = s.mode \/ d \in unset

\* Wherever a move stops, an entry nobody changed meanwhile is whole in one of
\* the two places, but for a mode that the destination would not take.
NothingLost ==
  verb.name = "move" =>
    \A d \in Top \ touched :
      \/ src0[d] \in {Absent, src[d], dst[d]}
      \/ /\ d \in unset /\ src0[d].kind = "dir"
         /\ dst[d].kind = "dir" /\ X(dst[d]) = X(src0[d])
=============================================================================
