--------------------------- MODULE DetachedLogin ---------------------------
(***************************************************************************)
(* login/run (commands/login/__init__.py) and the double fork of --detach  *)
(* (commands/login/detach.py), against commands that want the same         *)
(* container exclusively.  Every step is a step of Locking, or leaves its  *)
(* state alone, except MiddleInterrupted.                                  *)
(*                                                                         *)
(* A login process locks the container shared and inheritable, prepares,   *)
(* and either becomes proot itself or forks a middle process that forks    *)
(* the daemon which becomes proot.  The daemon reports over a pipe whose   *)
(* write end three processes hold; the foreground reads it to its end,     *)
(* disowns the lock if a PID came and no reason, and releases it.          *)
(***************************************************************************)
EXTENDS Locking

CONSTANTS
  Container,   \* the lock file of the container
  Login,       \* processes that run login/run
  Writer,      \* processes that run an exclusive command (remove, reset...)
  Interrupts   \* whether a KeyboardInterrupt may hit the login process

ASSUME DetachedLoginAssumption ==
  /\ Container \in Path
  /\ Login \subseteq Proc /\ Writer \subseteq Proc /\ Login \cap Writer = {}
  /\ Interrupts \in BOOLEAN

VARIABLES
  pc,       \* pc[p]: where p is in its command
  parent,   \* parent[p]: the login whose pipe p writes to
  pipe      \* pipe[f]: write ends still open and what was written

vars == <<lockVars, pc, parent, pipe>>

NoPipe == [writers |-> {}, pid |-> FALSE, reason |-> FALSE]

DetachTypeOK ==
  /\ TypeOK
  /\ pc \in [Proc -> {"none", "login", "locked", "spawning", "waiting", "started",
                      "failed", "interrupted", "abandoned", "disowned", "leaving", "middle", "forked",
                      "daemon", "told", "refused", "session", "exclusive",
                      "changing", "killed"}]
  /\ parent \in [Proc -> Proc \cup {None}]
  /\ pipe \in [Proc -> [writers : SUBSET Proc, pid : BOOLEAN, reason : BOOLEAN]]

DetachInit ==
  /\ Init
  /\ pc = [p \in Proc |-> "none"]
  /\ parent = [p \in Proc |-> None]
  /\ pipe = [p \in Proc |-> NoPipe]

Goes(p, from, to) == pc[p] = from /\ pc' = [pc EXCEPT ![p] = to]

\* A step of p that touches no lock.
Moves(p, from, to) ==
  /\ proc[p] \in {"running", "child"}
  /\ Goes(p, from, to)
  /\ UNCHANGED lockVars

\* p closes its write end of the pipe it was forked with.
Drops(p) ==
  IF parent[p] = None THEN UNCHANGED pipe
  ELSE pipe' = [pipe EXCEPT ![parent[p]].writers = @ \ {p}]

-----------------------------------------------------------------------------
(* The foreground up to the fork.                                          *)

StartLogin(f) ==
  /\ f \in Login /\ Start(f)
  /\ Goes(f, "none", "login")
  /\ UNCHANGED <<parent, pipe>>

\* with ContainerLock(..., exclusive=False, inheritable=True)
LockShared(f, h) ==
  /\ \/ /\ AcquireGranted(f, h, Container, FALSE, TRUE)
        /\ Goes(f, "login", "login")
     \/ WriteRecord(f, h) /\ Goes(f, "login", "locked")
     \/ AcquireUnlocked(f, h, Container, FALSE) /\ Goes(f, "login", "locked")
     \/ /\ AcquireBusy(f, h, Container, FALSE) \/ AcquireBarred(f, h, Container, FALSE)
        /\ Goes(f, "login", "leaving")
  /\ UNCHANGED <<parent, pipe>>

\* Any setup step may refuse (not installed, no shell, bad user).
SetupFails(f) ==
  /\ Moves(f, "locked", "failed")
  /\ UNCHANGED <<parent, pipe>>

\* Without --detach the process itself becomes proot, or cannot.
ExecForeground(f) ==
  /\ Exec(f)
  /\ Goes(f, "locked", "session")
  /\ UNCHANGED <<parent, pipe>>

\* pid1 = os.fork(); the write end is open in both.
SpawnFork(f, c) ==
  /\ c \notin Login \cup Writer
  /\ Fork(f, c)
  /\ pc[f] = "locked"
  /\ pc' = [pc EXCEPT ![f] = "spawning", ![c] = "middle"]
  /\ parent' = [parent EXCEPT ![c] = f]
  /\ pipe' = [pipe EXCEPT ![f].writers = {f, c}]

\* Mutant: the foreground keeps its own write end open.
KeepWrite(f) ==
  /\ Moves(f, "spawning", "waiting")
  /\ UNCHANGED <<parent, pipe>>

CloseWrite(f) ==
  /\ Moves(f, "spawning", "waiting")
  /\ pipe' = [pipe EXCEPT ![f].writers = @ \ {f}]
  /\ UNCHANGED parent

-----------------------------------------------------------------------------
(* The middle process and the daemon.                                      *)

\* setsid(), then pid2 = os.fork().
MiddleFork(c, d) ==
  /\ d \notin Login \cup Writer
  /\ Fork(c, d)
  /\ pc[c] = "middle"
  /\ pc' = [pc EXCEPT ![c] = "forked", ![d] = "daemon"]
  /\ parent' = [parent EXCEPT ![d] = parent[c]]
  /\ pipe' = [pipe EXCEPT ![parent[c]].writers = @ \cup {d}]

\* os._exit(0), or os._exit(1) when setsid() or the fork failed.
MiddleExit(c) ==
  /\ pc[c] \in {"middle", "forked"}
  /\ Exit(c) /\ Drops(c)
  /\ UNCHANGED <<pc, parent>>

\* The PID, on the first line; a foreground that is gone reads nothing.
WritePid(d) ==
  /\ Moves(d, "daemon", "told")
  /\ pipe' = [pipe EXCEPT ![parent[d]].pid = TRUE]
  /\ UNCHANGED parent

\* The write end is close-on-exec: success closes it with nothing after
\* the PID.
ExecDaemon(d) ==
  /\ Exec(d)
  /\ Goes(d, "told", "session")
  /\ Drops(d)
  /\ UNCHANGED parent

\* A refused exec writes the reason through the pipe it kept open.
ExecRefused(d) ==
  /\ Moves(d, "told", "refused")
  /\ pipe' = [pipe EXCEPT ![parent[d]].reason = TRUE]
  /\ UNCHANGED parent

\* os._exit(127), also for anything that raised before the PID was written.
DaemonExit(d) ==
  /\ pc[d] \in {"daemon", "refused"}
  /\ Exit(d) /\ Drops(d)
  /\ UNCHANGED <<pc, parent>>

-----------------------------------------------------------------------------
(* The foreground after the fork.                                          *)

\* Mutant: whatever follows the PID line is ignored.
ReadPidOnly(f) ==
  /\ pipe[f].writers = {}
  /\ Moves(f, "waiting", IF pipe[f].pid THEN "started" ELSE "failed")
  /\ UNCHANGED <<parent, pipe>>

\* EOF: every write end is closed, and the middle process was reaped.
ReadReport(f) ==
  /\ pipe[f].writers = {}
  /\ Moves(f, "waiting",
           IF pipe[f].pid /\ ~pipe[f].reason THEN "started" ELSE "failed")
  /\ UNCHANGED <<parent, pipe>>

\* Mutant: the lock is not disowned.
DisownNothing(f, h) ==
  /\ lock[h].proc = f
  /\ Moves(f, "started", "disowned")
  /\ UNCHANGED <<parent, pipe>>

DisownLock(f, h) ==
  /\ Disown(f, h)
  /\ Goes(f, "started", "disowned")
  /\ UNCHANGED <<parent, pipe>>

\* __exit__, on every way out of the with-block.
ReleaseShared(f, h) ==
  /\ Release(f, h)
  /\ pc[f] \in {"failed", "interrupted", "disowned"}
  /\ pc' = [pc EXCEPT ![f] = IF @ = "interrupted" THEN "abandoned" ELSE "leaving"]
  /\ UNCHANGED <<parent, pipe>>

Leave(p) ==
  /\ pc[p] \in {"leaving", "abandoned"} /\ Exit(p)
  /\ UNCHANGED <<pc, parent, pipe>>

\* KeyboardInterrupt unwinds the with-block wherever the process is in it.
Interrupted(f) ==
  /\ Interrupts
  /\ \E s \in {"locked", "spawning", "waiting", "started"} : Moves(f, s, "interrupted")
  /\ pipe' = [pipe EXCEPT ![f].writers = @ \ {f}]
  /\ UNCHANGED parent

\* The same Ctrl-C reaches the middle process before its setsid(): nothing
\* there catches it, so it unwinds its copy of the with-block too.
MiddleInterrupted(c) ==
  /\ Interrupts /\ pc[c] = "middle" /\ proc[c] = "child"
  /\ proc' = [proc EXCEPT ![c] = "gone"]
  /\ ofd' = [h \in Handle |-> IF c \in ofd[h].refs THEN Unlocked(ofd[h], c)
                                                  ELSE ofd[h]]
  /\ heldExclusive' = [heldExclusive EXCEPT ![c] = {}]
  /\ Drops(c)
  /\ UNCHANGED <<lock, record, pc, parent>>

-----------------------------------------------------------------------------
(* A command that wants the container to itself, crashes, proot's end.     *)

StartWriter(w) ==
  /\ w \in Writer /\ Start(w)
  /\ Goes(w, "none", "exclusive")
  /\ UNCHANGED <<parent, pipe>>

LockExclusive(w, h) ==
  /\ \/ /\ AcquireGranted(w, h, Container, TRUE, FALSE)
        /\ Goes(w, "exclusive", "exclusive")
     \/ WriteRecord(w, h) /\ Goes(w, "exclusive", "changing")
     \/ AcquireUnlocked(w, h, Container, TRUE) /\ Goes(w, "exclusive", "changing")
     \/ /\ AcquireBusy(w, h, Container, TRUE) \/ AcquireBarred(w, h, Container, TRUE)
        /\ Goes(w, "exclusive", "leaving")
  /\ UNCHANGED <<parent, pipe>>

ReleaseExclusive(w, h) ==
  /\ Release(w, h)
  /\ Goes(w, "changing", "leaving")
  /\ UNCHANGED <<parent, pipe>>

\* proot ends: the last close of the description drops the shared lock.
SessionEnds(p) ==
  /\ proc[p] = "session" /\ Exit(p)
  /\ UNCHANGED <<pc, parent, pipe>>

\* SIGKILL, of any process at any point.
Killed(p) ==
  /\ proc[p] \in {"running", "child"}
  /\ Exit(p)
  /\ pc' = [pc EXCEPT ![p] = IF @ = "abandoned" THEN @ ELSE "killed"]
  /\ pipe' = [f \in Proc |-> [pipe[f] EXCEPT !.writers = @ \ {p}]]
  /\ UNCHANGED parent

ForegroundStep(f) ==
  \/ CloseWrite(f) \/ ReadReport(f) \/ Leave(f)
  \/ \E h \in Handle : DisownLock(f, h) \/ ReleaseShared(f, h)

ChildStep(c) ==
  \/ MiddleExit(c) \/ WritePid(c) \/ ExecDaemon(c) \/ ExecRefused(c) \/ DaemonExit(c)
  \/ \E d \in Proc : MiddleFork(c, d)

DetachNext ==
  \E p \in Proc :
    \/ StartLogin(p) \/ SetupFails(p) \/ ExecForeground(p) \/ StartWriter(p)
    \/ ForegroundStep(p) \/ ChildStep(p)
    \/ Interrupted(p) \/ MiddleInterrupted(p) \/ SessionEnds(p) \/ Killed(p)
    \/ \E c \in Proc : SpawnFork(p, c)
    \/ \E h \in Handle : \/ LockShared(p, h) \/ LockExclusive(p, h)
                         \/ ReleaseExclusive(p, h)

\* The kernel keeps scheduling a process that can run.
DetachFairness ==
  /\ \A f \in Login : WF_vars(ForegroundStep(f))
  /\ \A c \in Proc \ (Login \cup Writer) : WF_vars(ChildStep(c))

DetachSpec == DetachInit /\ [][DetachNext]_vars /\ DetachFairness

-----------------------------------------------------------------------------
(* Properties.                                                             *)

\* proot has the shared flock of its container, through the descriptor it
\* inherited.
Locked(d) ==
  \E h \in Handle : ofd[h].path = Container /\ ofd[h].mode = "SH" /\ d \in ofd[h].refs

\* The lock of a container is held for the entire session, in the foreground
\* or detached.
SessionLocked ==
  Container \notin Lockless => \A d \in Proc : proc[d] = "session" => Locked(d)

\* A KeyboardInterrupt unwound the login that launched d.
LoginInterrupted(d) == parent[d] # None /\ pc[parent[d]] = "abandoned"

\* Only the session whose own foreground was interrupted between the fork and
\* disown() is ever without the lock: not that of another login, nor one whose
\* foreground or middle process was killed.  So remove, reset, rename, restore
\* never change a container a session is running in, that one excepted.
LockLostOnlyByInterrupt ==
  Container \notin Lockless =>
    /\ \A d \in Proc : proc[d] = "session" => Locked(d) \/ LoginInterrupted(d)
    /\ \A w, d \in Proc : /\ pc[w] = "changing" /\ proc[w] = "running"
                           /\ proc[d] = "session" => LoginInterrupted(d)

\* The daemon process of a login, while it or its report counts.
DaemonOf(f, d) == parent[d] = f /\ pc[d] \in {"daemon", "told", "refused", "session", "killed"}

\* "Started" is reported only for a daemon whose exec succeeded (or that
\* was killed), "failed" only when no daemon of this login became proot.
ReportHonest ==
  \A f \in Login :
    /\ pc[f] \in {"started", "disowned"} =>
         \E d \in Proc : DaemonOf(f, d) /\ pc[d] \in {"session", "killed"}
    /\ pc[f] = "failed" => ~\E d \in Proc : DaemonOf(f, d) /\ pc[d] = "session"

\* The foreground never hangs on its pipe, whatever becomes of the two
\* processes it forked.
ForegroundReturns == \A f \in Login : (pc[f] = "waiting") ~> (pc[f] # "waiting")
=============================================================================
