------------------------ MODULE ContainerLifecycle ------------------------
(***************************************************************************)
(* The commands that create, replace, move, remove and use a container     *)
(* (proot_distro/commands): install, reset, restore, remove, rename, and   *)
(* login, run and backup.  A container is the directory containers/<name>  *)
(* with a rootfs and, when it came from an image, a manifest.json naming   *)
(* it.  Every command takes ContainerLocks, here the ReadersWriterLock     *)
(* that module Locking implements, without waiting for them; several look  *)
(* at the disk before they do.                                             *)
(*                                                                         *)
(* A rootfs is reduced to where it came from, whether it is all there, and *)
(* the name under which its link2symlink targets point.                    *)
(***************************************************************************)
EXTENDS Integers, FiniteSets

CONSTANTS
  Proc,     \* running commands
  Name,     \* container names; numbers, because rename sorts its locks
  Image,    \* sources that come with a manifest: registry images, OCI archives
  Plain,    \* sources that do not: plain tarballs
  Old,      \* names with a rootfs in the legacy installed-rootfs/ layout
  Legacy,   \* what such a rootfs holds, and where its links point
  Faults,   \* which failures may happen
  None

Source == Image \cup Plain

ASSUME LifecycleAssumption ==
  /\ Name \subseteq Nat /\ Old \subseteq Name
  /\ Image \cap Plain = {} /\ Legacy \notin Source \cup Name
  /\ None \notin Source \cup {Legacy} /\ None \notin Proc
  /\ Faults \subseteq {"kill",    \* SIGKILL at any point
                       "io",      \* an entry that cannot be removed or written
                       "abort"}   \* a restore interrupted, or its archive corrupt

VARIABLES
  made,       \* the names under containers/
  rootfs,     \* rootfs[n]: containers/<n>/rootfs, or None
  manifest,   \* manifest[n]: the source containers/<n>/manifest.json names
  legacy,     \* the names still in the legacy layout
  shared, exclusive,   \* the locks
  pc,         \* pc[p]: what p does next
  job,        \* job[p]: its command, the names and the source it works with
  hurt        \* history: the names a fault has hit since they were filled

disk == <<made, rootfs, manifest, legacy>>
locks == <<shared, exclusive>>
lifecycleVars == <<made, rootfs, manifest, legacy, shared, exclusive, pc, job, hurt>>

Lock == INSTANCE ReadersWriterLock WITH Path <- Name, Handle <- Proc

Rootfs == [content : Source \cup {Legacy}, whole : BOOLEAN, home : Name \cup {Legacy}]
Job == [cmd : {"install", "reset", "restore", "remove", "rename",
               "login", "run", "backup"},
        name : Name, to : Name, source : Source \cup {None}]
Readers == {"login", "run", "backup"}

ASSUME NoneAssumption == None \notin Rootfs /\ None \notin Job

TypeOK ==
  /\ made \subseteq Name /\ legacy \subseteq Name
  /\ rootfs \in [Name -> Rootfs \cup {None}]
  /\ manifest \in [Name -> Image \cup {None}]
  /\ shared \in [Name -> SUBSET Proc] /\ exclusive \in [Name -> SUBSET Proc]
  /\ pc \in [Proc -> {"idle", "lock", "lock2", "check", "extract", "record", "fixups",
                      "remove", "removing", "wipe", "move", "relink",
                      "restore", "restoring", "recording", "enter", "inside"}]
  /\ job \in [Proc -> Job \cup {None}]
  /\ hurt \subseteq Name
  /\ \A p \in Proc : job[p] = None <=> pc[p] = "idle"
  /\ \A n \in Name : n \notin made => rootfs[n] = None /\ manifest[n] = None

Init ==
  /\ made = {} /\ legacy = Old
  /\ rootfs = [n \in Name |-> None]
  /\ manifest = [n \in Name |-> None]
  /\ Lock!RWInit
  /\ pc = [p \in Proc |-> "idle"]
  /\ job = [p \in Proc |-> None]
  /\ hurt = {}

-----------------------------------------------------------------------------
(* What each command looks at before it asks for a lock.                   *)

Begin(p, cmd, n, m, s) ==
  /\ pc[p] = "idle"
  /\ pc' = [pc EXCEPT ![p] = "lock"]
  /\ job' = [job EXCEPT ![p] = [cmd |-> cmd, name |-> n, to |-> m, source |-> s]]
  /\ UNCHANGED <<disk, locks>>

StartInstall(p, n) == \E s \in Source : Begin(p, "install", n, n, s)

\* The archive's first member names the container.
StartRestore(p, n) == \E s \in Source : Begin(p, "restore", n, n, s)

StartRemove(p, n) == n \in made /\ Begin(p, "remove", n, n, None)

StartRename(p, n) ==
  \E m \in Name \ {n} : rootfs[n] # None /\ m \notin made
                        /\ Begin(p, "rename", n, m, None)

\* reset reads the image it will install, and run the image whose entry
\* point it will execute, from the manifest.
StartReset(p, n) ==
  rootfs[n] # None /\ manifest[n] # None /\ Begin(p, "reset", n, n, manifest[n])

StartRun(p, n) ==
  rootfs[n] # None /\ manifest[n] # None /\ Begin(p, "run", n, n, manifest[n])

StartLogin(p, n) == Begin(p, "login", n, n, None)

StartBackup(p, n) == rootfs[n] # None /\ Begin(p, "backup", n, n, None)

-----------------------------------------------------------------------------
(* The locks.  A command that cannot have one says so and exits.           *)

\* Every way out of a command leaves its `with ContainerLock` blocks.
Quit(p) ==
  /\ pc' = [pc EXCEPT ![p] = "idle"]
  /\ job' = [job EXCEPT ![p] = None]
  /\ Lock!Withdraw({p})

Goto(p, l) == pc' = [pc EXCEPT ![p] = l] /\ UNCHANGED <<job, locks>>

Wanted(p) == LET a == job[p].name  b == job[p].to
             IN IF (pc[p] = "lock") = (a < b) THEN a ELSE b

FirstStep == [install |-> "check", reset |-> "wipe", restore |-> "restore",
              remove |-> "remove", rename |-> "lock2"]

TakeExclusive(p) ==
  /\ pc[p] = "lock" /\ job[p].cmd \notin Readers
  /\ Lock!GrantExclusive(Wanted(p), p)
  /\ pc' = [pc EXCEPT ![p] = FirstStep[job[p].cmd]]
  /\ UNCHANGED <<disk, job>>

TakeSecond(p) ==
  /\ pc[p] = "lock2"
  /\ Lock!GrantExclusive(Wanted(p), p)
  /\ pc' = [pc EXCEPT ![p] = "move"]
  /\ UNCHANGED <<disk, job>>

TakeShared(p) ==
  /\ pc[p] = "lock" /\ job[p].cmd \in Readers
  /\ Lock!GrantShared(Wanted(p), p)
  /\ pc' = [pc EXCEPT ![p] = "enter"]
  /\ UNCHANGED <<disk, job>>

Busy(p) ==
  /\ pc[p] \in {"lock", "lock2"}
  /\ \/ exclusive[Wanted(p)] # {}
     \/ job[p].cmd \notin Readers /\ shared[Wanted(p)] # {}
  /\ Quit(p)
  /\ UNCHANGED disk

-----------------------------------------------------------------------------
(* install, and the second half of reset.                                  *)

Tree(s, whole, n) == [content |-> s, whole |-> whole, home |-> n]

\* What is left of rootfs[n] while it is being deleted.
Torn(n) == IF rootfs[n] = None THEN None ELSE [rootfs[n] EXCEPT !.whole = FALSE]

Refuse(p) ==
  /\ pc[p] = "check" /\ rootfs[job[p].name] # None
  /\ Quit(p)
  /\ UNCHANGED disk

\* Mutant: install extracts without asking whether the container is there.
OpenPairOver(p) ==
  LET n == job[p].name IN
  /\ pc[p] = "check"
  /\ made' = made \cup {n}
  /\ rootfs' = [rootfs EXCEPT ![n] = Tree(job[p].source, FALSE, n)]
  /\ UNCHANGED <<manifest, legacy>>
  /\ Goto(p, "extract")

OpenPair(p) ==
  LET n == job[p].name IN
  /\ pc[p] = "check" /\ rootfs[n] = None
  /\ made' = made \cup {n}
  /\ rootfs' = [rootfs EXCEPT ![n] = Tree(job[p].source, FALSE, n)]
  /\ UNCHANGED <<manifest, legacy>>
  /\ Goto(p, "extract")

Extract(p) ==
  /\ pc[p] = "extract"
  /\ rootfs' = [rootfs EXCEPT ![job[p].name].whole = TRUE]
  /\ UNCHANGED <<made, manifest, legacy>>
  /\ Goto(p, "record")

\* A source without metadata writes none.
Records(p) ==
  /\ IF job[p].source \in Image
       THEN manifest' = [manifest EXCEPT ![job[p].name] = job[p].source]
       ELSE UNCHANGED manifest
  /\ UNCHANGED <<made, rootfs, legacy>>

WriteManifest(p) ==
  /\ pc[p] = "record"
  /\ Records(p)
  /\ Goto(p, "fixups")

\* A failed write only warns.
ManifestFails(p) ==
  /\ pc[p] = "record" /\ "io" \in Faults
  /\ UNCHANGED disk
  /\ Goto(p, "fixups")

InstallDone(p) ==
  /\ pc[p] = "fixups"
  /\ Quit(p)
  /\ UNCHANGED disk

\* containers/<n> and all in it.
Discard(n) ==
  /\ made' = made \ {n}
  /\ rootfs' = [rootfs EXCEPT ![n] = None]
  /\ manifest' = [manifest EXCEPT ![n] = None]
  /\ UNCHANGED legacy

\* A removal that stops at some entry: what it met before is gone.
DiscardSome(n) ==
  /\ \E t \in {Torn(n), None} : rootfs' = [rootfs EXCEPT ![n] = t]
  /\ \E m \in {manifest[n], None} : manifest' = [manifest EXCEPT ![n] = m]
  /\ UNCHANGED <<made, legacy>>

\* Mutant: no cleanup.
InstallFailsLeaves(p) ==
  /\ pc[p] \in {"extract", "record", "fixups"}
  /\ Quit(p)
  /\ UNCHANGED disk

InstallFails(p) ==
  /\ pc[p] \in {"extract", "record", "fixups"}
  /\ Discard(job[p].name)
  /\ Quit(p)

CleanupFails(p) ==
  /\ pc[p] \in {"extract", "record", "fixups"} /\ "io" \in Faults
  /\ DiscardSome(job[p].name)
  /\ Quit(p)

\* reset deletes the rootfs and installs whatever came of it.
Wipe(p) ==
  /\ pc[p] = "wipe"
  /\ rootfs' = [rootfs EXCEPT ![job[p].name] = None]
  /\ UNCHANGED <<made, manifest, legacy>>
  /\ Goto(p, "check")

WipeFails(p) ==
  /\ pc[p] = "wipe" /\ "io" \in Faults
  /\ rootfs' = [rootfs EXCEPT ![job[p].name] = Torn(job[p].name)]
  /\ UNCHANGED <<made, manifest, legacy>>
  /\ Goto(p, "check")

-----------------------------------------------------------------------------
(* remove and rename.                                                      *)

RemoveSome(p) ==
  /\ pc[p] = "remove"
  /\ DiscardSome(job[p].name)
  /\ Goto(p, "removing")

RemoveRest(p) ==
  /\ pc[p] = "removing"
  /\ Discard(job[p].name)
  /\ Quit(p)

RemoveFails(p) ==
  /\ pc[p] = "removing" /\ "io" \in Faults
  /\ Quit(p)
  /\ UNCHANGED disk

\* rename(2) replaces an empty directory and refuses any other; a directory
\* without rootfs and manifest may still hold sysdata/ or shm/.
Bare(n) == rootfs[n] = None /\ manifest[n] = None

Moves(n, m) ==
  /\ n \in made /\ Bare(m)
  /\ made' = (made \ {n}) \cup {m}
  /\ rootfs' = [rootfs EXCEPT ![m] = rootfs[n], ![n] = None]
  /\ manifest' = [manifest EXCEPT ![m] = manifest[n], ![n] = None]
  /\ UNCHANGED legacy

Move(p) ==
  LET n == job[p].name  m == job[p].to IN
  /\ pc[p] = "move"
  /\ Moves(n, m)
  /\ IF rootfs[n] # None THEN Goto(p, "relink") ELSE Quit(p)

MoveRefused(p) ==
  /\ pc[p] = "move" /\ (job[p].name \notin made \/ job[p].to \in made)
  /\ Quit(p)
  /\ UNCHANGED disk

\* rewrite_l2s_targets(): links with the old prefix get the new one.
Rehome(n, from) ==
  /\ rootfs' = [rootfs EXCEPT ![n].home = IF @ = from THEN n ELSE @]
  /\ UNCHANGED <<made, manifest, legacy>>

Relink(p) ==
  /\ pc[p] = "relink" /\ job[p].cmd = "rename"
  /\ Rehome(job[p].to, job[p].name)
  /\ Quit(p)

\* Links that cannot be rewritten are stepped over.
RelinkFails(p) ==
  /\ pc[p] = "relink" /\ "io" \in Faults
  /\ UNCHANGED disk
  /\ IF job[p].cmd = "rename" THEN Quit(p) ELSE Goto(p, "enter")

-----------------------------------------------------------------------------
(* restore.                                                                *)

\* Mutant: the manifest is written when met rather than held back.
RestoreRejectRecords(p) ==
  /\ pc[p] = "restore"
  /\ manifest' = IF job[p].name \in made
                   THEN [manifest EXCEPT ![job[p].name] = job[p].source] ELSE manifest
  /\ UNCHANGED <<made, rootfs, legacy>>
  /\ Quit(p)

\* No rootfs member materialised, another container was named, ...
RestoreReject(p) ==
  /\ pc[p] = "restore"
  /\ Quit(p)
  /\ UNCHANGED disk

\* The first member that does clears the old rootfs and starts the new one.
RestoreCommit(p) ==
  LET n == job[p].name IN
  /\ pc[p] = "restore"
  /\ made' = made \cup {n}
  /\ rootfs' = [rootfs EXCEPT ![n] = Tree(job[p].source, FALSE, n)]
  /\ UNCHANGED <<manifest, legacy>>
  /\ Goto(p, "restoring")

RestoreFill(p) ==
  /\ pc[p] = "restoring"
  /\ rootfs' = [rootfs EXCEPT ![job[p].name].whole = TRUE]
  /\ UNCHANGED <<made, manifest, legacy>>
  /\ Goto(p, "recording")

\* A member that cannot be written is skipped.
FillFails(p) ==
  /\ pc[p] = "restoring" /\ "io" \in Faults
  /\ UNCHANGED disk
  /\ Goto(p, "recording")

\* The buffered manifest, if the archive had one.
RestoreRecord(p) ==
  /\ pc[p] = "recording"
  /\ Records(p)
  /\ Quit(p)

\* A failed write is ignored.
RestoreRecordFails(p) ==
  /\ pc[p] = "recording" /\ "io" \in Faults
  /\ UNCHANGED disk
  /\ Quit(p)

\* The members did not make a directory of rootfs.
RestoreBroken(p) ==
  /\ pc[p] = "restoring"
  /\ Discard(job[p].name)
  /\ Quit(p)

RestoreAbort(p) ==
  /\ pc[p] = "restoring" /\ "abort" \in Faults
  /\ Quit(p)
  /\ UNCHANGED disk

-----------------------------------------------------------------------------
(* login, run and backup, under the shared lock.                           *)

MustMigrate(p) ==
  job[p].cmd # "backup" /\ job[p].name \in legacy /\ rootfs[job[p].name] = None

\* migrate_legacy_rootfs(): the move, then the links.
Migrate(p) ==
  LET n == job[p].name IN
  /\ pc[p] = "enter" /\ MustMigrate(p)
  /\ made' = made \cup {n}
  /\ rootfs' = [rootfs EXCEPT ![n] = Tree(Legacy, TRUE, Legacy)]
  /\ legacy' = legacy \ {n}
  /\ UNCHANGED manifest
  /\ Goto(p, "relink")

\* The directory may have been made when the move is refused; login or run then
\* finds nothing installed.
MigrateFails(p) ==
  /\ pc[p] = "enter" /\ MustMigrate(p) /\ "io" \in Faults
  /\ made' \in {made, made \cup {job[p].name}}
  /\ UNCHANGED <<rootfs, manifest, legacy>>
  /\ Quit(p)

MigrateRelink(p) ==
  /\ pc[p] = "relink" /\ job[p].cmd \in Readers
  /\ Rehome(job[p].name, Legacy)
  /\ Goto(p, "enter")

\* Mutant: the lock descriptor does not survive the exec into proot.
EnterUnlocked(p) ==
  /\ pc[p] = "enter" /\ ~MustMigrate(p) /\ rootfs[job[p].name] # None
  /\ pc' = [pc EXCEPT ![p] = "inside"]
  /\ Lock!Withdraw({p})
  /\ UNCHANGED <<disk, job>>

Enter(p) ==
  /\ pc[p] = "enter" /\ ~MustMigrate(p) /\ rootfs[job[p].name] # None
  /\ UNCHANGED disk
  /\ Goto(p, "inside")

EnterRefused(p) ==
  /\ pc[p] = "enter" /\ ~MustMigrate(p) /\ rootfs[job[p].name] = None
  /\ Quit(p)
  /\ UNCHANGED disk

Leave(p) ==
  /\ pc[p] = "inside"
  /\ Quit(p)
  /\ UNCHANGED disk

-----------------------------------------------------------------------------
Killed(p) ==
  /\ "kill" \in Faults /\ pc[p] # "idle"
  /\ Quit(p)
  /\ UNCHANGED disk

Start(p, n) ==
  \/ StartInstall(p, n) \/ StartRestore(p, n) \/ StartRemove(p, n)
  \/ StartRename(p, n) \/ StartReset(p, n)
  \/ StartRun(p, n) \/ StartLogin(p, n) \/ StartBackup(p, n)

Step(p) ==
  \/ TakeExclusive(p) \/ TakeSecond(p) \/ TakeShared(p) \/ Busy(p)
  \/ Refuse(p) \/ OpenPair(p) \/ Extract(p) \/ WriteManifest(p)
  \/ InstallDone(p) \/ InstallFails(p) \/ Wipe(p)
  \/ RemoveSome(p) \/ RemoveRest(p)
  \/ Move(p) \/ MoveRefused(p) \/ Relink(p)
  \/ RestoreReject(p) \/ RestoreCommit(p) \/ RestoreFill(p) \/ RestoreRecord(p)
  \/ RestoreBroken(p)
  \/ Migrate(p) \/ MigrateRelink(p) \/ Enter(p) \/ EnterRefused(p) \/ Leave(p)

Fault(p) ==
  \/ ManifestFails(p) \/ CleanupFails(p) \/ WipeFails(p) \/ RemoveFails(p)
  \/ RelinkFails(p) \/ FillFails(p) \/ RestoreRecordFails(p) \/ RestoreAbort(p)
  \/ MigrateFails(p) \/ Killed(p)

\* The names p has to itself.
Owned(p) == {n \in Name : p \in exclusive[n]}

\* A container is whole again when it is filled anew, and rename takes what is
\* wrong with one along.
Mended(p) ==
  LET n == job[p].name IN
  IF pc'[p] \in {"extract", "restoring"} THEN hurt \ {n}
  ELSE IF n \in hurt /\ n \in made \ made' THEN hurt \cup {job[p].to}
  ELSE hurt

Present == {n \in Name : rootfs'[n] # None}

Next ==
  \E p \in Proc :
    \/ Step(p) /\ hurt' = Mended(p) \cap Present
    \/ Fault(p) /\ hurt' = (hurt \cup Owned(p)) \cap Present
    \/ (\E n \in Name : Start(p, n)) /\ UNCHANGED hurt

Spec == Init /\ [][Next]_lifecycleVars

-----------------------------------------------------------------------------
(* Properties.                                                             *)

Whole(t) == t # None /\ t.whole

\* A rootfs somebody runs or archives is not taken from under him, whatever
\* fails and whichever way the commands interleave: the commands that clear,
\* replace or move a rootfs hold the exclusive lock of every name they touch.
SessionUndisturbed ==
  [][\A p \in Proc : LET n == job[p].name IN
       pc[p] = "inside" /\ pc'[p] = "inside" =>
         /\ rootfs[n] # None /\ rootfs'[n] # None
         /\ rootfs'[n].content = rootfs[n].content
         /\ rootfs'[n].whole = rootfs[n].whole]_lifecycleVars

\* A complete container is lost or replaced only by a command that was asked
\* to, of that very name: install never extracts over one, though it and a
\* rename to the name may have been started before it existed, and rename
\* carries it whole to the new name.
DestroyedOnlyOnRequest ==
  [][\A n \in Name :
       LET Kept == Whole(rootfs'[n]) /\ rootfs'[n].content = rootfs[n].content
       IN Whole(rootfs[n]) /\ ~Kept => \E p \in exclusive[n] :
            \/ job[p].cmd \in {"remove", "reset", "restore"} /\ job[p].name = n
            \/ job[p].cmd = "install" /\ pc[p] \in {"record", "fixups"}
            \/ /\ job[p].cmd = "rename" /\ job[p].name = n
               /\ rootfs'[job[p].to] = rootfs[n]]_lifecycleVars

\* Nobody runs or archives a partial rootfs, or one whose link2symlink targets
\* point at another name, unless a fault hit that very container: a failed
\* install takes away what it extracted, rename relinks under both locks, and
\* what a kill leaves half done stays with the names the victim had locked.
SessionSeesWhole ==
  \A p \in Proc : pc[p] = "inside" =>
    LET n == job[p].name  t == rootfs[n] IN
    n \notin hurt /\ t.content \in Source => t.whole /\ t.home = n

\* A container at rest that came from an image has that image's manifest, also
\* after restores that were rejected and renames and installs that raced, unless
\* a fault hit that very container.
ManifestNamesRootfs ==
  \A n \in Name :
    exclusive[n] = {} /\ n \notin hurt /\ Whole(rootfs[n])
      /\ rootfs[n].content \in Image
    => manifest[n] = rootfs[n].content

\* README.md: reset reinstalls "from the Docker image recorded at install
\* time", and run executes what is "defined in the container's Docker image
\* manifest".  Both read the manifest before they have the lock.
ActsOnRecordedImage ==
  [][\A p \in Proc :
       \/ pc[p] = "wipe" /\ pc'[p] = "check"
       \/ pc[p] = "enter" /\ pc'[p] = "inside" /\ job[p].cmd = "run"
       => job[p].source = manifest[job[p].name]]_lifecycleVars
=============================================================================
