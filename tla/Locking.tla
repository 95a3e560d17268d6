------------------------------ MODULE Locking ------------------------------
(***************************************************************************)
(* proot_distro/locking.py: advisory flock(2) locks taken by every command *)
(* that touches a container or an image.                                   *)
(*                                                                         *)
(* A process builds a lock object (ContainerLock or BuildLock) and         *)
(* acquires it without waiting.  The kernel attaches the flock to the open *)
(* file description (ofd) the acquire opened, which a fork shares with the *)
(* child and an exec keeps only when the descriptor is inheritable.  The   *)
(* object's own memory (_reentrant, _disowned, the per-process set         *)
(* _held_exclusive) decides what release() does to that shared ofd.        *)
(*                                                                         *)
(* The client is unconstrained except for what every call site does:       *)
(* with-blocks nest, only a shared lock is made inheritable (login, run),  *)
(* and a process execs only while every lock it holds is inheritable.      *)
(* Modules that model commands strengthen these actions.                   *)
(***************************************************************************)
CONSTANTS
  Proc,       \* processes, by PID; a PID is not reused here
  Path,       \* lock files: locks/<name>.lock and locks/build/<key>.lock
  Handle,     \* lock objects, and the ofd each may open
  Lockless,   \* files that cannot be created or locked (EROFS, no flock)
  None

ASSUME LockingAssumption ==
  /\ Lockless \subseteq Path
  /\ None \notin Proc /\ None \notin Path

VARIABLES
  proc,            \* the life of each process
  lock,            \* lock[h]: the _FlockBase object
  ofd,             \* ofd[h]: the file description it opened, in the kernel
  heldExclusive,   \* heldExclusive[p]: _held_exclusive in p's memory
  record           \* record[l]: the PID in the lock file's first line

lockVars == <<proc, lock, ofd, heldExclusive, record>>

NoLock == [st |-> "none", proc |-> None, path |-> None,
           excl |-> FALSE, reentrant |-> FALSE, disowned |-> FALSE]
NoFile == [path |-> None, mode |-> "none", refs |-> {}, inheritable |-> FALSE]

Lock == [st : {"none", "locked", "entered", "failed", "probing"},
         proc : Proc \cup {None}, path : Path \cup {None},
         excl : BOOLEAN, reentrant : BOOLEAN, disowned : BOOLEAN]
File == [path : Path \cup {None}, mode : {"none", "SH", "EX"},
         refs : SUBSET Proc, inheritable : BOOLEAN]

TypeOK ==
  /\ proc \in [Proc -> {"idle", "running", "child", "session", "gone"}]
  /\ lock \in [Handle -> Lock]
  /\ ofd \in [Handle -> File]
  /\ heldExclusive \in [Proc -> SUBSET Path]
  /\ record \in [Path -> Proc \cup {None}]

Init ==
  /\ proc = [p \in Proc |-> "idle"]
  /\ lock = [h \in Handle |-> NoLock]
  /\ ofd = [h \in Handle |-> NoFile]
  /\ heldExclusive = [p \in Proc |-> {}]
  /\ record = [l \in Path |-> None]

-----------------------------------------------------------------------------
(* The kernel's side.                                                      *)

FlockMode(x) == IF x THEN "EX" ELSE "SH"

\* Mutant: shared holders do not refuse an exclusive request.
BlockersExclusiveOnly(l, x) ==
  {h \in Handle : ofd[h].path = l /\ ofd[h].mode = "EX"}

\* flock(LOCK_NB) on a fresh ofd of l is refused by these holders.
Blockers(l, x) ==
  {h \in Handle : /\ ofd[h].path = l
                  /\ ofd[h].mode = "EX" \/ (x /\ ofd[h].mode = "SH")}

\* The ofd f after the processes ps closed their descriptors of it: the
\* lock goes with the last one.
Closed(f, ps) ==
  IF f.refs \subseteq ps THEN NoFile ELSE [f EXCEPT !.refs = @ \ ps]

\* LOCK_UN through any descriptor unlocks the description for all of them.
Unlocked(f, p) == Closed([f EXCEPT !.mode = "none"], {p})

-----------------------------------------------------------------------------
(* acquire()                                                               *)

Object(s, p, l, x, r) ==
  [st |-> s, proc |-> p, path |-> l, excl |-> x,
   reentrant |-> r, disowned |-> FALSE]

CanConstruct(p, h) ==
  /\ proc[p] = "running"
  /\ lock[h] = NoLock /\ ofd[h] = NoFile
  /\ \A g \in Handle : lock[g].proc = p => lock[g].st = "entered"

\* The process is already known to hold l exclusively.
AcquireReentrant(p, h, l, x) ==
  /\ CanConstruct(p, h)
  /\ l \in heldExclusive[p]
  /\ lock' = [lock EXCEPT ![h] = Object("entered", p, l, x, TRUE)]
  /\ UNCHANGED <<proc, ofd, heldExclusive, record>>

\* No lock file can be had, or its filesystem ignores flock.
AcquireUnlocked(p, h, l, x) ==
  /\ CanConstruct(p, h)
  /\ l \notin heldExclusive[p] /\ l \in Lockless
  /\ lock' = [lock EXCEPT ![h] = Object("entered", p, l, x, FALSE)]
  /\ UNCHANGED <<proc, ofd, heldExclusive, record>>

\* The lock path is denied, or its name is taken by something that will
\* not go (_LockPathDenied, _HostileLockPath): acquire fails closed.
AcquireBarred(p, h, l, x) ==
  /\ CanConstruct(p, h)
  /\ l \notin heldExclusive[p]
  /\ lock' = [lock EXCEPT ![h] = Object("failed", p, l, x, FALSE)]
  /\ UNCHANGED <<proc, ofd, heldExclusive, record>>

\* Mutant: EAGAIN falls into the "filesystem ignores flock" branch.
AcquireBusyProceeds(p, h, l, x) ==
  /\ CanConstruct(p, h)
  /\ l \notin heldExclusive[p] /\ l \notin Lockless
  /\ Blockers(l, x) # {}
  /\ lock' = [lock EXCEPT ![h] = Object("entered", p, l, x, FALSE)]
  /\ UNCHANGED <<proc, ofd, heldExclusive, record>>

\* Mutant: the file is opened with "w" and written before the flock.
AcquireBusyTruncates(p, h, l, x) ==
  /\ CanConstruct(p, h)
  /\ l \notin heldExclusive[p] /\ l \notin Lockless
  /\ Blockers(l, x) # {}
  /\ lock' = [lock EXCEPT ![h] = Object("failed", p, l, x, FALSE)]
  /\ record' = [record EXCEPT ![l] = p]
  /\ UNCHANGED <<proc, ofd, heldExclusive>>

AcquireBusy(p, h, l, x) ==
  /\ CanConstruct(p, h)
  /\ l \notin heldExclusive[p] /\ l \notin Lockless
  /\ Blockers(l, x) # {}
  /\ lock' = [lock EXCEPT ![h] = Object("failed", p, l, x, FALSE)]
  /\ UNCHANGED <<proc, ofd, heldExclusive, record>>

\* flock granted; i says whether the descriptor survives an exec.
AcquireGranted(p, h, l, x, i) ==
  /\ CanConstruct(p, h)
  /\ l \notin heldExclusive[p] /\ l \notin Lockless
  /\ Blockers(l, x) = {}
  /\ i => ~x
  /\ lock' = [lock EXCEPT ![h] = Object("locked", p, l, x, FALSE)]
  /\ ofd' = [ofd EXCEPT ![h] = [path |-> l, mode |-> FlockMode(x),
                                refs |-> {p}, inheritable |-> i]]
  /\ UNCHANGED <<proc, heldExclusive, record>>

\* The holder's PID replaces the file's line only once the flock is held
\* (the write after the truncation may fail, which leaves the file empty);
\* then acquire() notes an exclusive path and returns.
WriteRecord(p, h) ==
  /\ proc[p] = "running"
  /\ lock[h].proc = p /\ lock[h].st = "locked"
  /\ \E r \in {p, None} : record' = [record EXCEPT ![lock[h].path] = r]
  /\ lock' = [lock EXCEPT ![h].st = "entered"]
  /\ heldExclusive' = IF lock[h].excl
                        THEN [heldExclusive EXCEPT ![p] = @ \cup {lock[h].path}]
                        ELSE heldExclusive
  /\ UNCHANGED <<proc, ofd>>

-----------------------------------------------------------------------------
(* disown() and release()                                                  *)

Disown(p, h) ==
  /\ proc[p] = "running"
  /\ lock[h].proc = p /\ lock[h].st = "entered" /\ ~lock[h].excl
  /\ lock' = [lock EXCEPT ![h].disowned = TRUE]
  /\ UNCHANGED <<proc, ofd, heldExclusive, record>>

\* with-blocks nest: the re-entrant handles taken inside go first.
Innermost(h) ==
  lock[h].reentrant \/
  \A g \in Handle : ~(/\ lock[g].proc = lock[h].proc
                      /\ lock[g].path = lock[h].path
                      /\ lock[g].reentrant)

\* Mutant: no early return for a re-entrant handle.
ReleaseReentrant(p, h) ==
  /\ proc[p] = "running"
  /\ lock[h].proc = p /\ lock[h].st = "entered"
  /\ lock' = [lock EXCEPT ![h] = NoLock]
  /\ heldExclusive' = IF lock[h].excl
                        THEN [heldExclusive EXCEPT ![p] = @ \ {lock[h].path}]
                        ELSE heldExclusive
  /\ UNCHANGED <<proc, ofd, record>>

\* Mutant: LOCK_UN although the handle was disowned.
ReleaseDisowned(p, h) ==
  /\ proc[p] = "running"
  /\ lock[h].proc = p /\ lock[h].st = "entered" /\ ~lock[h].reentrant
  /\ lock' = [lock EXCEPT ![h] = NoLock]
  /\ ofd' = [ofd EXCEPT ![h] = Unlocked(@, p)]
  /\ heldExclusive' = IF lock[h].excl
                        THEN [heldExclusive EXCEPT ![p] = @ \ {lock[h].path}]
                        ELSE heldExclusive
  /\ UNCHANGED <<proc, record>>

Release(p, h) ==
  /\ proc[p] = "running"
  /\ lock[h].proc = p /\ lock[h].st = "entered"
  /\ Innermost(h)
  /\ lock' = [lock EXCEPT ![h] = NoLock]
  /\ IF lock[h].reentrant
       THEN UNCHANGED <<ofd, heldExclusive>>
       ELSE /\ heldExclusive' =
                 IF lock[h].excl
                   THEN [heldExclusive EXCEPT ![p] = @ \ {lock[h].path}]
                   ELSE heldExclusive
            /\ ofd' = [ofd EXCEPT ![h] = IF lock[h].disowned
                                           THEN Closed(@, {p})
                                           ELSE Unlocked(@, p)]
  /\ UNCHANGED <<proc, record>>

-----------------------------------------------------------------------------
(* busy_locks(): a shared, non-blocking probe dropped at once.  A refusal  *)
(* (an exclusive holder) changes nothing, so only the grant is a step.     *)

Probe(p, h, l) ==
  /\ CanConstruct(p, h)
  /\ l \notin Lockless
  /\ Blockers(l, FALSE) = {}
  /\ lock' = [lock EXCEPT ![h] = Object("probing", p, l, FALSE, FALSE)]
  /\ ofd' = [ofd EXCEPT ![h] = [path |-> l, mode |-> FlockMode(FALSE),
                                refs |-> {p}, inheritable |-> FALSE]]
  /\ UNCHANGED <<proc, heldExclusive, record>>

ProbeDone(p, h) ==
  /\ proc[p] = "running"
  /\ lock[h].proc = p /\ lock[h].st = "probing"
  /\ lock' = [lock EXCEPT ![h] = NoLock]
  /\ ofd' = [ofd EXCEPT ![h] = Unlocked(@, p)]
  /\ UNCHANGED <<proc, heldExclusive, record>>

-----------------------------------------------------------------------------
(* Processes.                                                              *)

Start(p) ==
  /\ proc[p] = "idle"
  /\ proc' = [proc EXCEPT ![p] = "running"]
  /\ UNCHANGED <<lock, ofd, heldExclusive, record>>

\* fork(2), by a detaching login or around a RUN step: the child shares
\* every ofd and gets a copy of the interpreter's memory.
Fork(p, c) ==
  /\ proc[p] \in {"running", "child"} /\ proc[c] = "idle"
  /\ \A g \in Handle : lock[g].proc = p => lock[g].st = "entered"
  /\ proc' = [proc EXCEPT ![c] = "child"]
  /\ ofd' = [h \in Handle |-> IF p \in ofd[h].refs
                                THEN [ofd[h] EXCEPT !.refs = @ \cup {c}]
                                ELSE ofd[h]]
  /\ heldExclusive' = [heldExclusive EXCEPT ![c] = heldExclusive[p]]
  /\ UNCHANGED <<lock, record>>

\* execve(2): close-on-exec descriptors go, and so does _held_exclusive.
Exec(p) ==
  /\ proc[p] \in {"running", "child"}
  /\ \A g \in Handle :
       lock[g].proc = p => /\ lock[g].st = "entered" /\ ~lock[g].reentrant
                           /\ ofd[g].inheritable \/ lock[g].path \in Lockless
  /\ proc' = [proc EXCEPT ![p] = "session"]
  /\ ofd' = [h \in Handle |-> IF p \in ofd[h].refs /\ ~ofd[h].inheritable
                                THEN Closed(ofd[h], {p}) ELSE ofd[h]]
  /\ heldExclusive' = [heldExclusive EXCEPT ![p] = {}]
  /\ UNCHANGED <<lock, record>>

\* The end of a process at any point, a crash or SIGKILL included: the
\* kernel closes what it had open, nothing is unlocked explicitly.
Exit(p) ==
  /\ proc[p] \in {"running", "child", "session"}
  /\ proc' = [proc EXCEPT ![p] = "gone"]
  /\ lock' = [h \in Handle |-> IF lock[h].proc = p THEN NoLock ELSE lock[h]]
  /\ ofd' = [h \in Handle |-> IF p \in ofd[h].refs
                                THEN Closed(ofd[h], {p}) ELSE ofd[h]]
  /\ heldExclusive' = [heldExclusive EXCEPT ![p] = {}]
  /\ UNCHANGED record

Acquire(p, h, l) ==
  \/ \E x \in BOOLEAN : \/ AcquireReentrant(p, h, l, x)
                        \/ AcquireUnlocked(p, h, l, x)
                        \/ AcquireBarred(p, h, l, x)
                        \/ AcquireBusy(p, h, l, x)
                        \/ \E i \in BOOLEAN : AcquireGranted(p, h, l, x, i)
  \/ Probe(p, h, l)

Next ==
  \/ \E p \in Proc, h \in Handle :
       \/ \E l \in Path : Acquire(p, h, l)
       \/ WriteRecord(p, h)
       \/ Disown(p, h)
       \/ Release(p, h)
       \/ ProbeDone(p, h)
  \/ \E p \in Proc : Start(p) \/ Exec(p) \/ Exit(p)
  \/ \E p, c \in Proc : Fork(p, c)

Spec == Init /\ [][Next]_lockVars

-----------------------------------------------------------------------------
(* Properties.                                                             *)

\* h has the flock its acquire() asked for, or is about to record it.
Flocked(h) ==
  /\ lock[h].st \in {"locked", "entered"}
  /\ ~lock[h].reentrant /\ lock[h].path \notin Lockless

\* A command inside a with-block never shares it: when two processes are
\* both between __enter__ and __exit__ (or have become proot there) for one
\* lock file, neither asked for it exclusively.  Holds of re-entrant
\* handles too, whose own acquire() never reached flock(2).
CriticalExclusion ==
  \A g, h \in Handle :
    (/\ lock[g].st = "entered" /\ lock[h].st = "entered"
     /\ lock[g].path = lock[h].path /\ lock[g].path \notin Lockless
     /\ lock[g].proc # lock[h].proc)
    => ~lock[g].excl /\ ~lock[h].excl

\* _held_exclusive names exactly the files this process has locked
\* exclusively at the kernel: an entry too many makes a later acquire()
\* succeed with no lock, one too few makes the process refuse itself.
HeldTracksFlock ==
  \A p \in Proc : proc[p] = "running" =>
    heldExclusive[p] =
      {lock[h].path : h \in {g \in Handle :
         /\ lock[g].proc = p /\ lock[g].st = "entered"
         /\ lock[g].excl /\ Flocked(g)
         /\ ofd[g].path = lock[g].path
         /\ ofd[g].mode = "EX" /\ p \in ofd[g].refs}}

\* A process that loses the race leaves the holder's line intact: the lock
\* file of an exclusive holder never names anybody else until it lets go.
RecordNamesHolder ==
  \A h \in Handle :
    (lock[h].st = "entered" /\ lock[h].excl /\ Flocked(h))
    => record[lock[h].path] \in {lock[h].proc, None}

\* A granted flock is given up only by the owner's own release() of a
\* handle it has not disowned, or when nobody has the description open any
\* more: no other command's release, re-entrant release, probe or exit
\* takes the lock from under a holder.
LossJustified(h) ==
  (ofd[h].mode # "none" /\ ofd'[h].mode = "none")
  => \/ lock[h] # NoLock /\ lock'[h] = NoLock /\ ~lock[h].disowned
     \/ ofd'[h].refs = {}
LostOnlyByOwner == [][\A h \in Handle : LossJustified(h)]_lockVars

\* The abstract lock, and the refinement: the flocks the kernel holds.
RW == INSTANCE ReadersWriterLock WITH
  shared <- [l \in Path |-> {h \in Handle : ofd[h].path = l /\ ofd[h].mode = "SH"}],
  exclusive <- [l \in Path |-> {h \in Handle : ofd[h].path = l /\ ofd[h].mode = "EX"}]

\* Every step of the program's lock objects is a step of a readers-writer
\* lock over the open file descriptions.
ImplementsReadersWriterLock == RW!RWSpec
=============================================================================
