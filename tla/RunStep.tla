------------------------------ MODULE RunStep -------------------------------
(***************************************************************************)
(* The processes of a RUN step, helpers/build_engine/run_step.py.          *)
(*                                                                         *)
(* The build starts proot, proot starts the command, and the command may   *)
(* fork processes that outlive it: into their own sessions, deaf to        *)
(* SIGTERM, over several generations.  proot itself only ends when all it  *)
(* traces has ended.  Outside Termux it kills nothing on its way out, and  *)
(* the build, a subreaper, looks for what the command left behind.         *)
(***************************************************************************)
EXTENDS Naturals, FiniteSets

CONSTANTS
  Build, Proot, Command,   \* processes
  Kids                     \* those the command may fork

Guests == Kids \cup {Command}
Procs == Guests \cup {Proot}

ASSUME RunStepAssumption ==
  Build \notin Procs /\ Proot \notin Guests /\ Command \notin Kids

VARIABLES
  proc,       \* process -> what the kernel has of it
  code,       \* with what the command exited, when it has
  watch,      \* where the build is in _wait_for_step() and _stop_step()
  sweep,      \* which enumeration of the leftovers this is
  targets,    \* the leftovers of the last one
  late,       \* the grace period is over
  aborted,    \* Ctrl-C
  baseline,   \* what the step before left to be reaped
  look,       \* see CommandFinishes
  returned    \* the exit status the build got of proot

childVars == <<proc, code>>
sweepVars == <<watch, sweep, targets, late, aborted, returned, look>>
stepVars == <<proc, code, sweepVars, baseline>>

Runs(p) == proc[p].st \in {"running", "dying"}
Listed(p) == proc[p].st \in {"running", "dying", "zombie"}
Over == watch \in {"packed", "failed", "interrupted"}

States == {"none", "running", "dying", "zombie", "gone"}
Process == [st : States, parent : Procs \cup {Build}, group : Procs, deaf : BOOLEAN]

RunStepTypeOK ==
  /\ proc \in [Procs -> Process]
  /\ code \in {"none", "zero", "other"}
  /\ watch \in {"idle", "wait", "adopted", "stop", "group", "last", "lastWait",
                "packed", "failed", "interrupted"}
  /\ sweep \in {"first", "grace", "final"}
  /\ targets \subseteq Procs
  /\ late \in BOOLEAN /\ aborted \in BOOLEAN /\ baseline \subseteq Kids
  /\ returned \in {"none", "zero", "other"} /\ look \in {"ended", "unborn", "raced"}

\* A straggler of the step before is a zombie child of the build.
StepStart(old) ==
  [p \in Procs |->
     [st |-> IF p = Proot THEN "running" ELSE IF p \in old THEN "zombie" ELSE "none",
      parent |-> IF p \in old \cup {Proot} THEN Build ELSE Proot,
      group |-> IF p \in old THEN p ELSE Proot, deaf |-> p = Proot]]

\* Popen(start_new_session=True), after _become_subreaper(), which was granted.
RunStepInit ==
  /\ watch = "wait" /\ baseline \in {{}} \cup {{k} : k \in Kids}
  /\ proc = StepStart(baseline) /\ code = "none"
  /\ sweep = "first" /\ targets = {} /\ late = FALSE /\ aborted = FALSE
  /\ returned = "none" /\ look = "unborn"

\* No step.
NoStep ==
  /\ watch = "idle" /\ baseline = {}
  /\ proc = [StepStart({}) EXCEPT ![Proot].st = "none"] /\ code = "none"
  /\ sweep = "first" /\ targets = {} /\ late = FALSE /\ aborted = FALSE
  /\ returned = "none" /\ look = "unborn"

-----------------------------------------------------------------------------
(* The step: proot, the command and what it forks.                         *)

StartCommand ==
  /\ proc[Proot].st = "running" /\ proc[Command].st = "none"
  /\ proc' = [proc EXCEPT ![Command].st = "running"]
  /\ UNCHANGED <<code, sweepVars, baseline>>

Fork(p, k, new) ==
  /\ proc[p].st = "running" /\ proc[k].st = "none"
  /\ proc' = [proc EXCEPT ![k] = new]
  /\ UNCHANGED <<code, sweepVars, baseline>>

Setsid(k) ==
  /\ proc[k].st = "running" /\ proc[k].group # k
  /\ proc' = [proc EXCEPT ![k].group = k]
  /\ UNCHANGED <<code, sweepVars, baseline>>

\* An exit, wanted or not: the children are the subreaper's.
Ended(p) ==
  [q \in DOMAIN proc |->
     IF q = p THEN [proc[p] EXCEPT !.st = "zombie"]
     ELSE IF proc[q].parent = p /\ proc[q].st # "none" THEN [proc[q] EXCEPT !.parent = Build]
     ELSE proc[q]]

Exit(p) ==
  /\ Runs(p)
  /\ proc' = Ended(p)
  /\ code' \in (IF p # Command THEN {code}
                ELSE IF proc[p].st = "dying" THEN {"other"} ELSE {"zero", "other"})
  /\ UNCHANGED <<sweepVars, baseline>>

ProotReaps ==
  /\ proc[Proot].st = "running" /\ proc[Command].st = "zombie"
  /\ proc' = [proc EXCEPT ![Command].st = "gone"]
  /\ UNCHANGED <<code, sweepVars, baseline>>

\* The event loop ends with the last tracee.
ProotEnds ==
  /\ proc[Proot].st = "running" /\ proc[Command].st = "gone"
  /\ \A k \in Kids : ~Runs(k)
  /\ proc' = Ended(Proot)
  /\ UNCHANGED <<code, sweepVars, baseline>>

\* proot exits with what the command did, unless it was killed.
ProotCode == IF proc[Proot].deaf THEN code ELSE "other"

-----------------------------------------------------------------------------
(* What the build reads in /proc.                                          *)

Spared == IF aborted THEN {} ELSE {Proot}

\* _children_of(proc.pid)
ProotsChildren == {p \in Guests : proc[p].parent = Proot /\ Listed(p)}

\* Mutant: what was there before the step is not set apart.
AdoptedEver(skip) == {p \in DOMAIN proc \ skip : proc[p].parent = Build /\ Listed(p)}

\* _adopted()
Adopted(skip) ==
  {p \in DOMAIN proc \ (baseline \cup skip) : proc[p].parent = Build /\ Listed(p)}

\* _group_members(proc.pid)
GroupMembers(skip) == {p \in DOMAIN proc \ skip : proc[p].group = Proot /\ Listed(p)}

\* _signal_leftovers(): each, and the group it leads.  SIGKILL ends anything.
Signalled(ps, kill) ==
  [p \in DOMAIN proc |->
     IF proc[p].st = "running" /\ (p \in ps \/ proc[p].group \in ps)
        /\ (kill \/ ~proc[p].deaf)
     THEN [proc[p] EXCEPT !.st = "dying", !.deaf = FALSE] ELSE proc[p]]

\* Mutant: waitpid(-1) reaps proot as well.
ReapedAny(procs, ps) ==
  [p \in DOMAIN procs |->
     IF procs[p].parent = Build /\ procs[p].st = "zombie"
     THEN [procs[p] EXCEPT !.st = "gone"] ELSE procs[p]]

\* _reap(): the children among them that have exited.
Reaped(procs, ps) ==
  [p \in DOMAIN procs |->
     IF p \in ps /\ procs[p].parent = Build /\ procs[p].st = "zombie"
     THEN [procs[p] EXCEPT !.st = "gone"] ELSE procs[p]]

\* Popen.wait() on proot once it has ended.  Of a process somebody else has
\* reaped it only knows ECHILD, and calls that 0.
ProotOver == proc[Proot].st \in {"zombie", "gone"}
Returned == IF proc[Proot].st = "zombie" THEN ProotCode
            ELSE IF returned = "none" THEN "zero" ELSE returned
Waited ==
  /\ returned' = Returned
  /\ proc' = [proc EXCEPT ![Proot].st = "gone"]

-----------------------------------------------------------------------------
(* _wait_for_step()                                                        *)

SeeProotEnd ==
  /\ watch = "wait" /\ ProotOver
  /\ Waited /\ watch' = "stop"
  /\ UNCHANGED <<code, sweep, targets, late, aborted, baseline, look>>

\* Nothing below proot means that the command has ended.
PollProot ==
  /\ watch = "wait" /\ ~ProotOver
  /\ watch' = IF ProotsChildren = {} THEN "adopted" ELSE "wait"
  /\ look' = IF proc[Command].st = "none" THEN "unborn" ELSE "ended"
  /\ UNCHANGED <<childVars, sweep, targets, late, aborted, baseline, returned>>

\* Mutant: the wait is for proot alone.
PollAdoptedNever ==
  /\ watch = "adopted" /\ watch' = "wait"
  /\ UNCHANGED <<childVars, sweep, targets, late, aborted, baseline, returned, look>>

PollAdopted ==
  /\ watch = "adopted"
  /\ watch' = IF Adopted({Proot}) # {} THEN "stop" ELSE "wait"
  /\ look' = IF look = "unborn" /\ proc[Command].st # "none" THEN "raced" ELSE look
  /\ UNCHANGED <<childVars, sweep, targets, late, aborted, baseline, returned>>

\* Ctrl-C.  It is not the step's: that has a session of its own.
Abort ==
  /\ watch \in {"wait", "adopted"}
  /\ aborted' = TRUE /\ watch' = "stop"
  /\ UNCHANGED <<childVars, sweep, targets, late, baseline, returned, look>>

\* A second one while the leftovers are being stopped.
AbortAgain ==
  /\ watch \in {"stop", "group", "last", "lastWait"} /\ watch' = "interrupted"
  /\ aborted' = TRUE
  /\ UNCHANGED <<childVars, sweep, targets, late, baseline, returned, look>>

-----------------------------------------------------------------------------
(* _stop_step(): _leftovers() reads the adopted first, then the group.     *)

GraceOver ==
  /\ watch \in {"stop", "group"} /\ sweep = "grace" /\ ~late
  /\ late' = TRUE
  /\ UNCHANGED <<childVars, watch, sweep, targets, aborted, baseline, returned, look>>

\* The head of the grace loop, and each of the three enumerations.
ListAdopted ==
  /\ watch = "stop" /\ watch' = "group"
  /\ LET procs == IF sweep = "grace" /\ ~late THEN Reaped(proc, targets) ELSE proc IN
     /\ proc' = procs
     /\ targets' = {p \in Adopted(Spared) : procs[p].st # "gone"}
  /\ sweep' = IF sweep = "grace" /\ late THEN "final" ELSE sweep
  /\ UNCHANGED <<code, late, aborted, baseline, returned, look>>

ListGroup ==
  /\ watch = "group"
  /\ LET found == targets \cup GroupMembers(Spared \cup {Build}) IN
     /\ targets' = found
     /\ CASE sweep = "first" ->
               /\ proc' = Signalled(found, FALSE)
               /\ watch' = (IF found = {} THEN "last" ELSE "stop")
               /\ sweep' = "grace"
          [] sweep = "grace" ->
               /\ proc' = proc /\ watch' = "stop"
               /\ sweep' = (IF found = {} THEN "final" ELSE "grace")
          [] sweep = "final" ->
               /\ proc' = Reaped(Signalled(found, TRUE), found)
               /\ watch' = "last" /\ sweep' = "final"
  /\ UNCHANGED <<code, late, aborted, baseline, returned, look>>

-----------------------------------------------------------------------------
(* proot's exit status, and the end of the step.                           *)

End == IF aborted THEN "interrupted" ELSE IF Returned = "zero" THEN "packed" ELSE "failed"

ProotAnswers ==
  /\ watch \in {"last", "lastWait"} /\ ProotOver
  /\ Waited /\ watch' = End
  /\ UNCHANGED <<code, sweep, targets, late, aborted, baseline, look>>

\* Two seconds more, and proot is killed.  Not after Ctrl-C.
ProotTimesOut ==
  /\ watch = "last" /\ ~ProotOver /\ ~aborted
  /\ watch' = "lastWait"
  /\ proc' = Signalled({Proot}, TRUE)
  /\ UNCHANGED <<code, sweep, targets, late, aborted, baseline, returned, look>>

BuildSteps ==
  \/ SeeProotEnd \/ PollProot \/ PollAdopted \/ ListAdopted \/ ListGroup
  \/ ProotAnswers \/ ProotTimesOut

\* What happens in time: a grace period, a death by a signal, proot's work.
Dies == \E p \in DOMAIN proc : proc[p].st = "dying" /\ Exit(p)
KernelSteps == ~Over /\ (GraceOver \/ StartCommand \/ ProotReaps \/ ProotEnds \/ Dies)

\* What a guest or the user may do.
GuestSteps ==
  /\ ~Over
  /\ \/ \E p \in Guests, k \in Kids, d \in BOOLEAN :
          Fork(p, k, [st |-> "running", parent |-> p, group |-> proc[p].group, deaf |-> d])
     \/ \E k \in Kids : Setsid(k)
     \/ \E p \in Guests : proc[p].st = "running" /\ Exit(p)
     \/ Abort \/ AbortAgain

StepStep == BuildSteps \/ KernelSteps \/ GuestSteps

\* One RUN step by itself.
StepSpec == RunStepInit /\ [][StepStep]_stepVars

\* The build is scheduled, time passes, the signalled die and proot works.
StepFairness ==
  /\ WF_stepVars(BuildSteps) /\ WF_stepVars(GraceOver) /\ WF_stepVars(Dies)
  /\ WF_stepVars(ProotReaps) /\ WF_stepVars(ProotEnds)

-----------------------------------------------------------------------------

\* A layer is packed of a step whose command succeeded and of which nothing
\* runs any more, whatever it left behind and whenever that was found.
LayerSettled ==
  watch = "packed" => code = "zero" /\ \A p \in Guests : ~Runs(p)

\* Only what outlives the command is stopped: the build stops nothing before
\* the command has ended, unless the user gave up.  (One schedule is left out:
\* the command starts and has a grandchild orphaned between the look at proot's
\* children and the one at the build's own.)
CommandFinishes ==
  watch \in {"stop", "group", "last", "lastWait"} /\ ~aborted /\ look # "raced"
    => proc[Command].st \in {"zombie", "gone"}

\* Once its command has ended or the user has given up, a step comes to its
\* end, whatever the command has left behind.
StepEnds == (code # "none" \/ aborted) ~> (Over \/ watch = "idle")
=============================================================================
