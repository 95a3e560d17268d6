----------------------------- MODULE TreesProofs -----------------------------
(***************************************************************************)
(* Theorems about the commands that work on trees of files.                *)
(*                                                                         *)
(* A RUN step, for any number of processes it may fork: whatever the build *)
(* finds and signals, what it packs rests on proot, which ends of itself   *)
(* only when nothing it traces is left.                                    *)
(*                                                                         *)
(* A removal, for any tree, budget and moves of a guest: what holds of the *)
(* levels that are parked and revived on the way down and up.              *)
(*                                                                         *)
(* `sync`, `copy` and `copy --move`, for any names, contents, faults and   *)
(* changes of the source meanwhile: how far each entry is, by what the     *)
(* walk still has to do for it.                                            *)
(*                                                                         *)
(* A path at one end of them, for any directories, links, paths and limit  *)
(* of hops: the trail of the links the walk has followed says which path   *)
(* is left to look up, and the pin is where the whole path leads.          *)
(*                                                                         *)
(* Trees: each command keeps its invariant, and the others rest.           *)
(***************************************************************************)
EXTENDS Trees, ImageBuildProofs

\* Nothing of the step runs, nor will again.
Quiet == proc[Command].st = "gone" /\ \A k \in Kids : ~Runs(k)

\* proot is deaf as long as nobody has killed it, and then ends last.
ProotSound ==
  /\ proc[Proot].st # "none" /\ proc[Proot].group = Proot
  /\ proc[Proot].st = "running" => proc[Proot].deaf
  /\ proc[Proot].st = "dying" => ~proc[Proot].deaf
  /\ ProotOver /\ proc[Proot].deaf => Quiet
  /\ ~aborted /\ watch \in {"wait", "adopted", "stop", "group", "last"} => proc[Proot].deaf

\* Nobody but Popen.wait() takes proot's exit status, unless the user gave up.
StatusSound ==
  /\ Proot \in targets => aborted
  /\ ~aborted =>
       /\ proc[Proot].st = "gone" <=> returned # "none"
       /\ returned = "zero" => proc[Proot].deaf /\ code = "zero"

\* What is adopted and was not there before comes from the command, which is
\* proot's child until it has ended.
CommandSound ==
  /\ \A k \in baseline : proc[k].st \in {"zombie", "gone"}
  /\ proc[Command].st = "none" => \A k \in Kids \ baseline : proc[k].st = "none"
  /\ proc[Command].st \in {"zombie", "gone"} => code # "none"
  /\ ~ProotOver => proc[Command].parent = Proot
  /\ watch = "adopted" /\ look = "ended" => proc[Command].st = "gone"

IInv == RunStepTypeOK /\ ProotSound /\ StatusSound /\ CommandSound /\ LayerSettled /\ CommandFinishes

-----------------------------------------------------------------------------
(* What happens to processes.                                              *)

\* An exit changes the state of one process, and parents.
LEMMA EndedSound ==
  ASSUME proc \in [Procs -> Process], NEW p \in Procs
  PROVE  /\ Ended(p) \in [Procs -> Process]
         /\ Ended(p)[p].st = "zombie" /\ Ended(p)[p].parent = proc[p].parent
         /\ \A q \in Procs : /\ q # p => Ended(p)[q].st = proc[q].st
                             /\ q # p /\ (proc[q].parent # p \/ proc[q].st = "none")
                                  => Ended(p)[q].parent = proc[q].parent
                             /\ Ended(p)[q].group = proc[q].group
                             /\ Ended(p)[q].deaf = proc[q].deaf
<1> DEFINE e(q) == IF q = p THEN [proc[p] EXCEPT !.st = "zombie"]
                   ELSE IF proc[q].parent = p /\ proc[q].st # "none"
                     THEN [proc[q] EXCEPT !.parent = Build] ELSE proc[q]
<1>1. Ended(p) = [q \in Procs |-> e(q)]
  BY DEF Ended
<1>2. ASSUME NEW q \in Procs
      PROVE  /\ e(q) \in Process
             /\ e(q).st = IF q = p THEN "zombie" ELSE proc[q].st
             /\ e(q).group = proc[q].group /\ e(q).deaf = proc[q].deaf
             /\ (q = p \/ proc[q].parent # p \/ proc[q].st = "none") => e(q).parent = proc[q].parent
  BY <1>2 DEF Process, States
<1> HIDE DEF e
<1> QED
  BY <1>1, <1>2

\* Signals stop what runs, and nothing comes out of it deaf.
LEMMA SignalledSound ==
  ASSUME proc \in [Procs -> Process], NEW ps, NEW kill \in BOOLEAN
  PROVE  /\ Signalled(ps, kill) \in [Procs -> Process]
         /\ \A q \in Procs :
              LET r == Signalled(ps, kill)[q] IN
              /\ r = proc[q] \/ (proc[q].st = "running" /\ r.st = "dying" /\ ~r.deaf
                                  /\ (q \in ps \/ proc[q].group \in ps))
              /\ r.parent = proc[q].parent /\ r.group = proc[q].group
<1> DEFINE hit(q) == proc[q].st = "running" /\ (q \in ps \/ proc[q].group \in ps)
                        /\ (kill \/ ~proc[q].deaf)
           e(q) == IF hit(q) THEN [proc[q] EXCEPT !.st = "dying", !.deaf = FALSE] ELSE proc[q]
<1>1. Signalled(ps, kill) = [q \in Procs |-> e(q)]
  BY DEF Signalled
<1>2. ASSUME NEW q \in Procs
      PROVE  /\ e(q) \in Process
             /\ e(q) = proc[q] \/ (proc[q].st = "running" /\ e(q).st = "dying" /\ ~e(q).deaf
                                     /\ (q \in ps \/ proc[q].group \in ps))
             /\ e(q).parent = proc[q].parent /\ e(q).group = proc[q].group
  <2>1. CASE hit(q)
    <3>1. proc[q].st = "running" /\ (q \in ps \/ proc[q].group \in ps)
      BY <2>1
    <3> HIDE DEF hit
    <3>2. e(q) = [proc[q] EXCEPT !.st = "dying", !.deaf = FALSE]
      BY <2>1
    <3> HIDE DEF e
    <3>3. e(q).st = "dying" /\ e(q).deaf = FALSE
          /\ e(q).parent = proc[q].parent /\ e(q).group = proc[q].group
      BY <1>2, <3>2 DEF Process
    <3>4. e(q) \in Process
      <4>1. proc[q] \in Process /\ "dying" \in States /\ FALSE \in BOOLEAN
        BY <1>2 DEF States
      <4> QED
        BY <3>2, <4>1, Zenon DEF Process
    <3> QED
      BY <3>1, <3>3, <3>4
  <2>2. CASE ~hit(q)
    <3> HIDE DEF hit
    <3>1. e(q) = proc[q]
      BY <2>2
    <3> HIDE DEF e
    <3> QED
      BY <1>2, <3>1
  <2> QED
    BY <2>1, <2>2
<1> HIDE DEF e, hit
<1> QED
  BY <1>1, <1>2

\* Reaping touches zombies only, of those it is for.
LEMMA ReapedSound ==
  ASSUME NEW procs \in [Procs -> Process], NEW ps
  PROVE  /\ Reaped(procs, ps) \in [Procs -> Process]
         /\ \A q \in Procs :
              LET r == Reaped(procs, ps)[q] IN
              /\ r = procs[q] \/ (procs[q].st = "zombie" /\ r.st = "gone" /\ q \in ps)
              /\ r.parent = procs[q].parent /\ r.group = procs[q].group /\ r.deaf = procs[q].deaf
<1> DEFINE e(q) == IF q \in ps /\ procs[q].parent = Build /\ procs[q].st = "zombie"
                     THEN [procs[q] EXCEPT !.st = "gone"] ELSE procs[q]
<1>1. Reaped(procs, ps) = [q \in Procs |-> e(q)]
  BY DEF Reaped
<1>2. ASSUME NEW q \in Procs
      PROVE  /\ e(q) \in Process
             /\ e(q) = procs[q] \/ (procs[q].st = "zombie" /\ e(q).st = "gone" /\ q \in ps)
             /\ e(q).parent = procs[q].parent /\ e(q).group = procs[q].group
             /\ e(q).deaf = procs[q].deaf
  BY <1>2 DEF Process, States
<1> HIDE DEF e
<1> QED
  BY <1>1, <1>2

-----------------------------------------------------------------------------
(* The build's steps: they end processes, and start none.                  *)

Settles ==
  /\ proc' \in [Procs -> Process] /\ UNCHANGED <<code, baseline>>
  /\ \A q \in Procs :
       /\ proc'[q].parent = proc[q].parent /\ proc'[q].group = proc[q].group
       /\ \/ proc'[q] = proc[q]
          \/ proc[q].st = "running" /\ proc'[q].st = "dying" /\ ~proc'[q].deaf
          \/ proc[q].st = "zombie" /\ proc'[q].st = "gone" /\ proc'[q].deaf = proc[q].deaf

LEMMA SettlesKeeps ==
  ASSUME IInv, Settles
  PROVE  /\ Quiet => Quiet'
         /\ proc'[Proot].st # "none" /\ proc'[Proot].group = Proot
         /\ proc'[Proot].st = "running" => proc'[Proot].deaf
         /\ proc'[Proot].st = "dying" => ~proc'[Proot].deaf
         /\ ProotOver' /\ proc'[Proot].deaf => Quiet'
         /\ \A k \in baseline : proc'[k].st \in {"zombie", "gone"}
         /\ proc'[Command].st = "none" => \A k \in Kids \ baseline : proc'[k].st = "none"
         /\ proc'[Command].st \in {"zombie", "gone"} => code # "none"
         /\ ~ProotOver' => proc'[Command].parent = Proot
         /\ proc[Command].st = "gone" => proc'[Command].st = "gone"
         /\ proc[Command].st = "zombie" => proc'[Command].st \in {"zombie", "gone"}
<1>1. Proot \in Procs /\ Command \in Procs /\ \A k \in Kids : k \in Procs
  BY DEF Procs, Guests
<1>2. baseline \subseteq Kids
  BY DEF IInv, RunStepTypeOK
<1>3. Quiet => Quiet'
  BY <1>1 DEF Settles, Quiet, Runs
<1>4. ProotSound /\ CommandSound
  BY DEF IInv
<1>5. /\ proc'[Proot].st # "none" /\ proc'[Proot].group = Proot
      /\ proc'[Proot].st = "running" => proc'[Proot].deaf
      /\ proc'[Proot].st = "dying" => ~proc'[Proot].deaf
  BY <1>1, <1>4 DEF Settles, ProotSound
<1>6. ProotOver' /\ proc'[Proot].deaf => ProotOver /\ proc[Proot].deaf
  BY <1>1 DEF Settles, ProotOver
<1>7. ~ProotOver' => ~ProotOver
  BY <1>1 DEF Settles, ProotOver
<1>8. /\ \A k \in baseline : proc'[k].st \in {"zombie", "gone"}
      /\ proc'[Command].st = "none" => \A k \in Kids \ baseline : proc'[k].st = "none"
      /\ proc'[Command].st \in {"zombie", "gone"} => code # "none"
      /\ ~ProotOver' => proc'[Command].parent = Proot
  BY <1>1, <1>2, <1>4, <1>7 DEF Settles, CommandSound
<1>9. /\ proc[Command].st = "gone" => proc'[Command].st = "gone"
      /\ proc[Command].st = "zombie" => proc'[Command].st \in {"zombie", "gone"}
  BY <1>1 DEF Settles
<1> QED
  BY <1>3, <1>4, <1>5, <1>6, <1>8, <1>9 DEF ProotSound

\* The exit status that Popen.wait() takes is proot's.
LEMMA WaitedKeeps ==
  ASSUME IInv, ProotOver, Waited, UNCHANGED <<code, baseline, aborted, targets>>
  PROVE  /\ Settles /\ StatusSound' /\ returned' \in {"none", "zero", "other"}
         /\ proc'[Proot].deaf = proc[Proot].deaf
         /\ returned' = "zero" /\ ~aborted => Quiet /\ code = "zero"
<1>1. Proot \in Procs /\ proc \in [Procs -> Process]
  BY DEF Procs, IInv, RunStepTypeOK
<1>2. /\ proc' \in [Procs -> Process]
      /\ proc'[Proot] = [proc[Proot] EXCEPT !.st = "gone"]
      /\ \A q \in Procs \ {Proot} : proc'[q] = proc[q]
  BY <1>1 DEF Waited, Process, States
<1>3. /\ proc'[Proot].st = "gone" /\ proc'[Proot].parent = proc[Proot].parent
      /\ proc'[Proot].group = proc[Proot].group /\ proc'[Proot].deaf = proc[Proot].deaf
      /\ proc[Proot].st = "gone" => proc'[Proot] = proc[Proot]
  BY <1>1, <1>2 DEF Process
<1>4. Settles
  BY <1>2, <1>3 DEF Settles, ProotOver
<1>5. /\ code \in {"none", "zero", "other"} /\ returned \in {"none", "zero", "other"}
      /\ proc[Proot].deaf => code # "none" /\ Quiet
  BY DEF IInv, RunStepTypeOK, ProotSound, CommandSound, Quiet
<1>6. /\ returned' \in {"none", "zero", "other"} /\ (~aborted => returned' # "none")
      /\ ~aborted /\ returned' = "zero" => proc[Proot].deaf /\ code = "zero"
  <2>1. CASE proc[Proot].st = "zombie"
    BY <1>5, <2>1 DEF Waited, Returned, ProotCode
  <2>2. CASE proc[Proot].st = "gone"
    BY <1>5, <2>2 DEF Waited, Returned, IInv, StatusSound
  <2> QED
    BY <2>1, <2>2 DEF ProotOver
<1>7. StatusSound'
  BY <1>3, <1>6 DEF StatusSound, IInv
<1> QED
  BY <1>3, <1>4, <1>5, <1>6, <1>7

\* A step after which proot and its exit status are what they were, in a build
\* that goes on, needs no more than this.
LEMMA BuildKeeps ==
  ASSUME IInv, Settles, RunStepTypeOK', StatusSound',
         ~aborted' /\ watch' \in {"wait", "adopted", "stop", "group", "last"} => proc'[Proot].deaf,
         watch' = "adopted" /\ look' = "ended" => proc[Command].st = "gone",
         watch' # "packed",
         watch' \in {"stop", "group", "last", "lastWait"} /\ ~aborted' /\ look' # "raced"
           => proc[Command].st \in {"zombie", "gone"}
  PROVE  IInv'
<1>1. ProotSound'
  BY SettlesKeeps DEF ProotSound
<1>2. CommandSound'
  BY SettlesKeeps DEF CommandSound, Settles
<1>3. LayerSettled' /\ CommandFinishes'
  BY SettlesKeeps DEF LayerSettled, CommandFinishes
<1> QED
  BY <1>1, <1>2, <1>3 DEF IInv

LEMMA Unmoved == IInv /\ UNCHANGED childVars /\ UNCHANGED baseline => Settles
  BY DEF IInv, RunStepTypeOK, Settles, childVars

LEMMA BuildStepsKeep == IInv /\ BuildSteps => IInv'
<1> SUFFICES ASSUME IInv, BuildSteps PROVE IInv'
  OBVIOUS
<1> USE DEF IInv
<1>0. Proot \in Procs /\ Command \in Procs /\ Proot # Command /\ Proot # Build
  BY RunStepAssumption DEF Procs, Guests
<1>1. CASE SeeProotEnd
  <2>1. /\ watch = "wait" /\ ProotOver /\ Waited /\ watch' = "stop"
        /\ UNCHANGED <<code, sweep, targets, late, aborted, baseline, look>>
    BY <1>1 DEF SeeProotEnd
  <2>2. ~aborted => proc[Proot].deaf /\ Quiet
    BY <2>1 DEF ProotSound
  <2>3. RunStepTypeOK'
    BY <2>1, WaitedKeeps DEF RunStepTypeOK, Settles
  <2> QED
    BY <2>1, <2>2, <2>3, WaitedKeeps, BuildKeeps DEF Quiet
<1>2. CASE PollProot
  <2>1. /\ watch = "wait" /\ ~ProotOver /\ watch' \in {"adopted", "wait"}
        /\ watch' = "adopted" => ProotsChildren = {}
        /\ look' = IF proc[Command].st = "none" THEN "unborn" ELSE "ended"
        /\ UNCHANGED <<childVars, sweep, targets, late, aborted, baseline, returned>>
    BY <1>2 DEF PollProot
  <2>2. watch' = "adopted" /\ look' = "ended" => proc[Command].st = "gone"
    BY <1>0, <2>1
    DEF ProotsChildren, Listed, CommandSound, Guests, RunStepTypeOK, Process, States
  <2>3. RunStepTypeOK' /\ StatusSound'
    BY <2>1 DEF RunStepTypeOK, StatusSound, childVars
  <2>4. ~aborted' => proc'[Proot].deaf
    BY <2>1 DEF ProotSound, childVars
  <2> QED
    BY <2>1, <2>2, <2>3, <2>4, Unmoved, BuildKeeps
<1>3. CASE PollAdopted
  <2>1. /\ watch = "adopted" /\ watch' = (IF Adopted({Proot}) # {} THEN "stop" ELSE "wait")
        /\ look' = (IF look = "unborn" /\ proc[Command].st # "none" THEN "raced" ELSE look)
        /\ UNCHANGED <<childVars, sweep, targets, late, aborted, baseline, returned>>
    BY <1>3 DEF PollAdopted
  <2>2. RunStepTypeOK' /\ StatusSound'
    BY <2>1 DEF RunStepTypeOK, StatusSound, childVars
  <2>3. ~aborted' => proc'[Proot].deaf
    BY <2>1 DEF ProotSound, childVars
  <2>4. proc[Command].st = "none" => Adopted({Proot}) = {}
    <3>1. DOMAIN proc = Procs
      BY DEF RunStepTypeOK
    <3>2. proc[Command].st = "none" => \A p \in Procs \ (baseline \cup {Proot}) : proc[p].st = "none"
      BY DEF CommandSound, Procs, Guests
    <3> QED
      BY <3>1, <3>2 DEF Adopted, Listed
  <2>5. watch' = "stop" /\ look' # "raced" => proc[Command].st = "gone"
    BY <2>1, <2>4 DEF CommandSound, RunStepTypeOK
  <2> QED
    BY <2>1, <2>2, <2>3, <2>5, Unmoved, BuildKeeps
<1>4. CASE ListAdopted
  <2> DEFINE procs == IF sweep = "grace" /\ ~late THEN Reaped(proc, targets) ELSE proc
  <2>1. /\ watch = "stop" /\ watch' = "group" /\ proc' = procs
        /\ targets' = {p \in Adopted(Spared) : procs[p].st # "gone"}
        /\ sweep' \in {sweep, "final"}
        /\ UNCHANGED <<code, late, aborted, baseline, returned, look>>
    BY <1>4 DEF ListAdopted
  <2>2. Settles /\ (~aborted => proc'[Proot] = proc[Proot])
    <3>1. proc \in [Procs -> Process] /\ (~aborted => Proot \notin targets)
      BY DEF RunStepTypeOK, StatusSound
    <3> QED
      BY <1>0, <2>1, <3>1, ReapedSound DEF Settles
  <2>3. targets' \subseteq Procs /\ (Proot \in targets' => aborted)
    BY <2>1 DEF Adopted, Spared, RunStepTypeOK
  <2>4. RunStepTypeOK'
    BY <2>1, <2>2, <2>3 DEF RunStepTypeOK, Settles
  <2>5. StatusSound'
    BY <2>1, <2>2, <2>3 DEF StatusSound
  <2>6. ~aborted' => proc'[Proot].deaf
    BY <2>1, <2>2 DEF ProotSound
  <2> QED
    BY <2>1, <2>2, <2>4, <2>5, <2>6, BuildKeeps DEF CommandFinishes
<1>5. CASE ListGroup
  <2> DEFINE found == targets \cup GroupMembers(Spared \cup {Build})
  <2>1. /\ watch = "group" /\ targets' = found
        /\ UNCHANGED <<code, late, aborted, baseline, returned, look>>
    BY <1>5 DEF ListGroup
  <2>2. \/ proc' = Signalled(found, FALSE) /\ watch' \in {"last", "stop"} /\ sweep' = "grace"
        \/ proc' = proc /\ watch' = "stop" /\ sweep' \in {"final", "grace"}
        \/ proc' = Reaped(Signalled(found, TRUE), found) /\ watch' = "last" /\ sweep' = "final"
    BY <1>5 DEF ListGroup, RunStepTypeOK
  <2>3. found \subseteq Procs /\ (Proot \in found => aborted)
    BY DEF GroupMembers, Spared, RunStepTypeOK, StatusSound
  <2>4. Settles /\ (~aborted => proc'[Proot] = proc[Proot])
    <3>1. proc \in [Procs -> Process] /\ proc[Proot].group = Proot
      BY DEF RunStepTypeOK, ProotSound
    <3> HIDE DEF found
    <3>2. CASE proc' = Signalled(found, FALSE)
      BY <1>0, <2>1, <2>3, <3>1, <3>2, SignalledSound DEF Settles
    <3>3. CASE proc' = proc
      BY <2>1, <3>1, <3>3 DEF Settles
    <3>4. CASE proc' = Reaped(Signalled(found, TRUE), found)
      <4> DEFINE mid == Signalled(found, TRUE)
      <4>1. /\ mid \in [Procs -> Process]
            /\ \A q \in Procs :
                 /\ mid[q] = proc[q] \/ (proc[q].st = "running" /\ mid[q].st = "dying" /\ ~mid[q].deaf
                                          /\ (q \in found \/ proc[q].group \in found))
                 /\ mid[q].parent = proc[q].parent /\ mid[q].group = proc[q].group
        BY <3>1, SignalledSound
      <4> HIDE DEF mid
      <4>2. /\ Reaped(mid, found) \in [Procs -> Process]
            /\ \A q \in Procs :
                 LET r == Reaped(mid, found)[q] IN
                 /\ r = mid[q] \/ (mid[q].st = "zombie" /\ r.st = "gone" /\ q \in found)
                 /\ r.parent = mid[q].parent /\ r.group = mid[q].group /\ r.deaf = mid[q].deaf
        BY <4>1, ReapedSound
      <4>3. proc' = Reaped(mid, found)
        BY <3>4 DEF mid
      <4> QED
        BY <1>0, <2>1, <2>3, <3>1, <4>1, <4>2, <4>3 DEF Settles
    <3> QED
      BY <2>2, <3>2, <3>3, <3>4
  <2>5. RunStepTypeOK'
    BY <2>1, <2>2, <2>3, <2>4 DEF RunStepTypeOK, Settles
  <2>6. StatusSound'
    BY <2>1, <2>3, <2>4 DEF StatusSound
  <2>7. ~aborted' => proc'[Proot].deaf
    BY <2>1, <2>4 DEF ProotSound
  <2> QED
    BY <2>1, <2>2, <2>4, <2>5, <2>6, <2>7, BuildKeeps DEF CommandFinishes
<1>6. CASE ProotAnswers
  <2>1. /\ watch \in {"last", "lastWait"} /\ ProotOver /\ Waited /\ watch' = End
        /\ UNCHANGED <<code, sweep, targets, late, aborted, baseline, look>>
    BY <1>6 DEF ProotAnswers
  <2>2. Waited => returned' = Returned
    BY DEF Waited
  <2>3. /\ watch' \in {"packed", "failed", "interrupted"}
        /\ watch' = "packed" => ~aborted /\ returned' = "zero"
    BY <2>1, <2>2 DEF End
  <2>4. RunStepTypeOK'
    BY <2>1, <2>3, WaitedKeeps DEF RunStepTypeOK, Settles
  <2>5. Settles /\ StatusSound'
    BY <2>1, WaitedKeeps
  <2>6. watch' = "packed" => Quiet /\ code = "zero"
    BY <2>1, <2>3, WaitedKeeps
  <2>7. LayerSettled'
    BY <2>1, <2>5, <2>6, SettlesKeeps DEF LayerSettled, Quiet, Runs, Guests
  <2>8. ProotSound' /\ CommandSound'
    BY <2>1, <2>3, <2>5, SettlesKeeps DEF ProotSound, CommandSound, Settles
  <2> QED
    BY <2>3, <2>4, <2>5, <2>7, <2>8 DEF CommandFinishes
<1>7. CASE ProotTimesOut
  <2>1. /\ watch = "last" /\ ~ProotOver /\ ~aborted /\ watch' = "lastWait"
        /\ proc' = Signalled({Proot}, TRUE)
        /\ UNCHANGED <<code, sweep, targets, late, aborted, baseline, returned, look>>
    BY <1>7 DEF ProotTimesOut
  <2>2. Settles
    <3> DEFINE only == {Proot}
    <3>1. proc' = Signalled(only, TRUE)
      BY <2>1
    <3>2. proc \in [Procs -> Process]
      BY DEF RunStepTypeOK
    <3> HIDE DEF only
    <3> DEFINE after == Signalled(only, TRUE)
    <3>3. /\ after \in [Procs -> Process]
          /\ \A q \in Procs :
               /\ \/ after[q] = proc[q]
                  \/ /\ proc[q].st = "running" /\ after[q].st = "dying" /\ ~after[q].deaf
                     /\ q \in only \/ proc[q].group \in only
               /\ after[q].parent = proc[q].parent /\ after[q].group = proc[q].group
      BY <3>2, SignalledSound
    <3> HIDE DEF after
    <3>4. proc' = after
      BY <3>1 DEF after
    <3> QED
      BY <2>1, <3>3, <3>4 DEF Settles
  <2>3. proc[Proot].st # "gone" /\ proc'[Proot].st # "gone" /\ returned = "none"
    BY <1>0, <2>1, <2>2 DEF Settles, ProotOver, StatusSound
  <2>4. RunStepTypeOK' /\ StatusSound'
    BY <2>1, <2>2, <2>3 DEF RunStepTypeOK, Settles, StatusSound
  <2> QED
    BY <2>1, <2>2, <2>4, BuildKeeps DEF CommandFinishes
<1> QED
  BY <1>1, <1>2, <1>3, <1>4, <1>5, <1>6, <1>7 DEF BuildSteps

-----------------------------------------------------------------------------
(* The step's own doings, which change no more than processes.             *)

\* While the command or anything of it runs, proot has not ended of itself.
LEMMA Alive ==
  ASSUME IInv, NEW p \in Guests, Runs(p)
  PROVE  ~(ProotOver /\ proc[Proot].deaf) /\ proc[Command].st # "none"
<1>1. ~(ProotOver /\ proc[Proot].deaf)
  BY DEF IInv, ProotSound, Quiet, Runs, Guests
<1>2. proc[Command].st # "none"
  BY DEF IInv, CommandSound, Runs, Guests
<1> QED
  BY <1>1, <1>2

LEMMA StartKeeps ==
  ASSUME IInv, ~Over, StartCommand
  PROVE  IInv'
<1> USE DEF IInv
<1>1. Proot \in Procs /\ Command \in Procs /\ Proot # Command
      /\ \A k \in Kids : k \in Procs /\ k # Command
  BY RunStepAssumption DEF Procs, Guests
<1>2. /\ proc \in [Procs -> Process] /\ baseline \subseteq Kids
      /\ proc[Proot].st = "running" /\ proc[Command].st = "none"
      /\ UNCHANGED <<code, watch, sweep, targets, late, aborted, returned, look, baseline>>
  BY DEF StartCommand, sweepVars, RunStepTypeOK
<1>3. /\ proc' \in [Procs -> Process]
      /\ proc'[Command] = [proc[Command] EXCEPT !.st = "running"]
      /\ \A q \in Procs \ {Command} : proc'[q] = proc[q]
  BY <1>1, <1>2 DEF StartCommand, Process, States
<1>4. proc'[Command].st = "running" /\ proc'[Command].parent = proc[Command].parent
  BY <1>1, <1>2, <1>3 DEF Process
<1>5. RunStepTypeOK' /\ StatusSound' /\ LayerSettled'
  BY <1>1, <1>2, <1>3 DEF RunStepTypeOK, StatusSound, LayerSettled, Over
<1>6. ProotSound' /\ CommandSound'
  BY <1>1, <1>2, <1>3, <1>4 DEF ProotSound, CommandSound, ProotOver
<1>7. CommandFinishes'
  BY <1>2 DEF CommandFinishes
<1> QED
  BY <1>5, <1>6, <1>7

LEMMA ForkKeeps ==
  ASSUME IInv, ~Over, NEW p \in Guests, NEW k \in Kids, NEW d \in BOOLEAN,
         Fork(p, k, [st |-> "running", parent |-> p, group |-> proc[p].group, deaf |-> d])
  PROVE  IInv'
<1> USE DEF IInv
<1>1. /\ Proot \in Procs /\ Command \in Procs /\ p \in Procs /\ k \in Procs
      /\ k # Proot /\ k # Command
  BY RunStepAssumption DEF Procs, Guests
<1>2. /\ proc \in [Procs -> Process] /\ proc[p].st = "running" /\ proc[k].st = "none"
      /\ UNCHANGED <<code, watch, sweep, targets, late, aborted, returned, look, baseline>>
  BY DEF Fork, sweepVars, RunStepTypeOK
<1> DEFINE new == [st |-> "running", parent |-> p, group |-> proc[p].group, deaf |-> d]
<1>3. new \in Process
  BY <1>1, <1>2 DEF Process, States
<1> HIDE DEF new
<1>4. proc' = [proc EXCEPT ![k] = new]
  BY DEF Fork, new
<1>5. proc' \in [Procs -> Process] /\ \A q \in Procs \ {k} : proc'[q] = proc[q]
  BY <1>1, <1>2, <1>3, <1>4
<1>6. ~(ProotOver /\ proc[Proot].deaf) /\ proc[Command].st # "none"
  BY <1>2, Alive DEF Runs
<1>7. RunStepTypeOK' /\ StatusSound' /\ LayerSettled' /\ CommandFinishes'
  BY <1>1, <1>2, <1>5 DEF RunStepTypeOK, StatusSound, LayerSettled, CommandFinishes, Over
<1>8. ProotSound'
  BY <1>1, <1>2, <1>5, <1>6 DEF ProotSound, ProotOver
<1>9. CommandSound'
  <2>1. k \notin baseline /\ baseline \subseteq Procs
    BY <1>2 DEF CommandSound, RunStepTypeOK, Procs, Guests
  <2> QED
    BY <1>1, <1>2, <1>5, <1>6, <2>1 DEF CommandSound, ProotOver
<1> QED
  BY <1>7, <1>8, <1>9

LEMMA SetsidKeeps ==
  ASSUME IInv, ~Over, NEW k \in Kids, Setsid(k)
  PROVE  IInv'
<1> USE DEF IInv
<1>1. /\ Proot \in Procs /\ Command \in Procs /\ k \in Procs
      /\ k # Proot /\ k # Command
  BY RunStepAssumption DEF Procs, Guests
<1>2. /\ proc \in [Procs -> Process] /\ proc[k].st = "running"
      /\ UNCHANGED <<code, watch, sweep, targets, late, aborted, returned, look, baseline>>
  BY DEF Setsid, sweepVars, RunStepTypeOK
<1>3. /\ proc' \in [Procs -> Process]
      /\ \A q \in Procs \ {k} : proc'[q] = proc[q]
  BY <1>1, <1>2 DEF Setsid, Process
<1>4. ~(ProotOver /\ proc[Proot].deaf) /\ proc[Command].st # "none"
  BY <1>2, Alive DEF Runs, Guests
<1>5. RunStepTypeOK' /\ StatusSound' /\ LayerSettled' /\ CommandFinishes'
  BY <1>1, <1>2, <1>3 DEF RunStepTypeOK, StatusSound, LayerSettled, CommandFinishes, Over
<1>6. ProotSound'
  BY <1>1, <1>2, <1>3, <1>4 DEF ProotSound, ProotOver
<1>7. CommandSound'
  <2>1. k \notin baseline /\ baseline \subseteq Procs
    BY <1>2 DEF CommandSound, RunStepTypeOK, Procs, Guests
  <2> QED
    BY <1>1, <1>2, <1>3, <1>4, <2>1 DEF CommandSound, ProotOver
<1> QED
  BY <1>5, <1>6, <1>7

LEMMA ExitKeeps ==
  ASSUME IInv, ~Over, NEW p \in Procs, Exit(p), p = Proot => proc[p].st = "dying"
  PROVE  IInv'
<1> USE DEF IInv
<1>1. /\ Proot \in Procs /\ Command \in Procs /\ Proot # Command
      /\ \A k \in Kids : k \in Procs /\ k # Command /\ k # Proot
  BY RunStepAssumption DEF Procs, Guests
<1>2. /\ proc \in [Procs -> Process] /\ Runs(p) /\ proc' = Ended(p) /\ baseline \subseteq Kids
      /\ UNCHANGED <<watch, sweep, targets, late, aborted, returned, look, baseline>>
      /\ code' \in {"none", "zero", "other"}
      /\ p # Command => code' = code
      /\ p = Command => code' # "none"
  BY DEF Exit, sweepVars, RunStepTypeOK
<1>3. /\ proc' \in [Procs -> Process]
      /\ proc'[p].st = "zombie" /\ proc'[p].parent = proc[p].parent
      /\ \A q \in Procs : /\ q # p => proc'[q].st = proc[q].st
                          /\ q # p /\ (proc[q].parent # p \/ proc[q].st = "none")
                               => proc'[q].parent = proc[q].parent
                          /\ proc'[q].group = proc[q].group
                          /\ proc'[q].deaf = proc[q].deaf
  BY <1>2, EndedSound
<1>4. ~(ProotOver /\ proc[Proot].deaf)
  <2>1. CASE p = Proot
    BY <2>1 DEF ProotOver
  <2>2. CASE p # Proot
    BY <1>2, <2>2, Alive DEF Procs
  <2> QED
    BY <2>1, <2>2
<1>5. RunStepTypeOK'
  BY <1>2, <1>3 DEF RunStepTypeOK
<1>6. LayerSettled' /\ CommandFinishes'
  BY <1>1, <1>2, <1>3 DEF LayerSettled, CommandFinishes, Over, Runs
<1>7. ProotSound'
  <2>1. proc'[Proot].deaf => ~ProotOver'
    BY <1>1, <1>2, <1>3, <1>4 DEF ProotSound, ProotOver
  <2> QED
    BY <1>1, <1>2, <1>3, <2>1 DEF ProotSound
<1>8. StatusSound'
  <2>1. ~aborted => returned # "zero"
    BY <1>4 DEF StatusSound, ProotOver
  <2>2. proc'[Proot].st = "gone" <=> proc[Proot].st = "gone"
    BY <1>1, <1>2, <1>3 DEF Runs
  <2> QED
    BY <1>2, <2>1, <2>2 DEF StatusSound
<1>9. CommandSound'
  <2>1. \A k \in baseline : proc'[k].st \in {"zombie", "gone"}
    BY <1>1, <1>2, <1>3 DEF CommandSound
  <2>2. ~ProotOver' => proc'[Command].parent = Proot
    BY <1>1, <1>2, <1>3 DEF CommandSound, ProotOver
  <2>3. /\ proc'[Command].st = "none" => \A k \in Kids \ baseline : proc'[k].st = "none"
        /\ proc'[Command].st \in {"zombie", "gone"} => code' # "none"
        /\ watch = "adopted" /\ look = "ended" => proc'[Command].st = "gone"
    BY <1>1, <1>2, <1>3 DEF CommandSound, Runs
  <2> QED
    BY <1>2, <2>1, <2>2, <2>3 DEF CommandSound
<1> QED
  BY <1>5, <1>6, <1>7, <1>8, <1>9

\* proot reaps the command, or ends when nothing it traces is left.
LEMMA ProotKeeps ==
  ASSUME IInv, ~Over, ProotReaps \/ ProotEnds
  PROVE  IInv'
<1> USE DEF IInv
<1>1. /\ Proot \in Procs /\ Command \in Procs /\ Proot # Command
      /\ \A k \in Kids : k \in Procs /\ k # Command /\ k # Proot
  BY RunStepAssumption DEF Procs, Guests
<1>2. /\ proc \in [Procs -> Process] /\ proc[Proot].st = "running"
      /\ baseline \subseteq Kids
      /\ UNCHANGED <<code, watch, sweep, targets, late, aborted, returned, look, baseline>>
  BY DEF ProotReaps, ProotEnds, sweepVars, RunStepTypeOK
<1>3. CASE ProotReaps
  <2>1. /\ proc' \in [Procs -> Process] /\ proc[Command].st = "zombie"
        /\ proc'[Command] = [proc[Command] EXCEPT !.st = "gone"]
        /\ \A q \in Procs \ {Command} : proc'[q] = proc[q]
    BY <1>1, <1>2, <1>3 DEF ProotReaps, Process, States
  <2>2. proc'[Command].st = "gone" /\ proc'[Command].parent = proc[Command].parent
    BY <1>1, <1>2, <2>1 DEF Process
  <2>3. RunStepTypeOK' /\ StatusSound' /\ LayerSettled' /\ CommandFinishes'
    BY <1>1, <1>2, <2>1, <2>2
    DEF RunStepTypeOK, StatusSound, LayerSettled, CommandFinishes, Over
  <2>4. ProotSound' /\ CommandSound'
    BY <1>1, <1>2, <2>1, <2>2 DEF ProotSound, CommandSound, ProotOver
  <2> QED
    BY <2>3, <2>4
<1>4. CASE ProotEnds
  <2>1. /\ proc' = Ended(Proot) /\ proc[Command].st = "gone" /\ \A k \in Kids : ~Runs(k)
    BY <1>4 DEF ProotEnds
  <2>2. /\ proc' \in [Procs -> Process] /\ proc'[Proot].st = "zombie"
        /\ \A q \in Procs : /\ q # Proot => proc'[q].st = proc[q].st
                            /\ proc'[q].group = proc[q].group
                            /\ proc'[q].deaf = proc[q].deaf
    BY <1>1, <1>2, <2>1, EndedSound
  <2>3. Quiet'
    BY <1>1, <2>1, <2>2 DEF Quiet, Runs
  <2>4. RunStepTypeOK' /\ StatusSound' /\ LayerSettled' /\ CommandFinishes'
    BY <1>1, <1>2, <2>1, <2>2
    DEF RunStepTypeOK, StatusSound, LayerSettled, CommandFinishes, Over
  <2>5. ProotSound' /\ CommandSound'
    BY <1>1, <1>2, <2>1, <2>2, <2>3 DEF ProotSound, CommandSound, ProotOver
  <2> QED
    BY <2>4, <2>5
<1> QED
  BY <1>3, <1>4

\* The end of the grace period, and Ctrl-C, move no process.
LEMMA TimeKeeps ==
  ASSUME IInv, GraceOver \/ Abort \/ AbortAgain
  PROVE  IInv'
<1>1. Settles
  BY Unmoved DEF GraceOver, Abort, AbortAgain
<1>2. RunStepTypeOK' /\ StatusSound'
  BY DEF IInv, RunStepTypeOK, StatusSound, childVars, GraceOver, Abort, AbortAgain
<1>3. CASE GraceOver
  BY <1>1, <1>2, <1>3, BuildKeeps DEF GraceOver, childVars, IInv, ProotSound, CommandFinishes
<1>4. CASE Abort
  BY <1>1, <1>2, <1>4, BuildKeeps DEF Abort
<1>5. CASE AbortAgain
  BY <1>1, <1>2, <1>5, BuildKeeps DEF AbortAgain
<1> QED
  BY <1>3, <1>4, <1>5

LEMMA InitIInv == RunStepInit => IInv
<1> SUFFICES ASSUME RunStepInit PROVE IInv
  OBVIOUS
<1> DEFINE new(p) ==
      [st |-> IF p = Proot THEN "running" ELSE IF p \in baseline THEN "zombie" ELSE "none",
       parent |-> IF p \in baseline \cup {Proot} THEN Build ELSE Proot,
       group |-> IF p \in baseline THEN p ELSE Proot, deaf |-> p = Proot]
<1>1. /\ watch = "wait" /\ code = "none" /\ sweep = "first" /\ targets = {} /\ late = FALSE
      /\ aborted = FALSE /\ returned = "none" /\ look = "unborn" /\ baseline \subseteq Kids
      /\ proc = [p \in Procs |-> new(p)]
  BY DEF RunStepInit, StepStart
<1>2. /\ Proot \in Procs /\ Command \in Procs /\ Proot # Command
      /\ \A k \in Kids : k \in Procs /\ k # Command /\ k # Proot
  BY RunStepAssumption DEF Procs, Guests
<1>3. ASSUME NEW p \in Procs
      PROVE  /\ new(p) \in Process
             /\ p = Proot => new(p).deaf
             /\ new(p).st = IF p = Proot THEN "running" ELSE IF p \in baseline THEN "zombie" ELSE "none"
             /\ p \notin baseline => new(p).group = Proot
             /\ p \notin baseline \cup {Proot} => new(p).parent = Proot
  <2>1. (p = Proot) \in BOOLEAN
    OBVIOUS
  <2> QED
    BY <1>2, <1>3, <2>1 DEF Process, States
<1> HIDE DEF new
<1>4. proc \in [Procs -> Process] /\ \A p \in Procs : proc[p] = new(p)
  BY <1>1, <1>3
<1>5. RunStepTypeOK
  <2>1. late \in BOOLEAN /\ aborted \in BOOLEAN
    BY <1>1
  <2> QED
    BY <1>1, <1>4, <2>1 DEF RunStepTypeOK
<1>6. proc[Proot].st = "running" /\ proc[Proot].group = Proot /\ proc[Proot].deaf
  BY <1>1, <1>2, <1>3, <1>4
<1>7. ProotSound /\ StatusSound
  BY <1>1, <1>6 DEF ProotSound, StatusSound, ProotOver
<1>8. CommandSound
  <2>1. \A k \in Kids : proc[k].st = IF k \in baseline THEN "zombie" ELSE "none"
    BY <1>1, <1>2, <1>3, <1>4
  <2>2. proc[Command].st = "none" /\ proc[Command].parent = Proot
    BY <1>1, <1>2, <1>3, <1>4
  <2> QED
    BY <1>1, <2>1, <2>2 DEF CommandSound
<1>9. LayerSettled /\ CommandFinishes
  BY <1>1 DEF LayerSettled, CommandFinishes
<1> QED
  BY <1>5, <1>7, <1>8, <1>9 DEF IInv

LEMMA NextIInv == IInv /\ [StepStep]_stepVars => IInv'
<1> SUFFICES ASSUME IInv, [StepStep]_stepVars PROVE IInv'
  OBVIOUS
<1>1. CASE BuildSteps
  BY <1>1, BuildStepsKeep
<1>2. CASE KernelSteps
  <2>1. ASSUME Dies, ~Over PROVE IInv'
    BY <2>1, ExitKeeps DEF Dies, IInv, RunStepTypeOK
  <2> QED
    BY <1>2, <2>1, StartKeeps, ProotKeeps, TimeKeeps DEF KernelSteps
<1>3. CASE GuestSteps
  <2>1. ASSUME NEW p \in Guests, proc[p].st = "running", Exit(p), ~Over PROVE IInv'
    <3>1. p \in Procs /\ p # Proot
      BY RunStepAssumption DEF Procs
    <3> QED
      BY <2>1, <3>1, ExitKeeps
  <2> QED
    BY <1>3, <2>1, ForkKeeps, SetsidKeeps, TimeKeeps DEF GuestSteps
<1>4. CASE UNCHANGED stepVars
  BY <1>4
  DEF stepVars, sweepVars, IInv, RunStepTypeOK, ProotSound, StatusSound, CommandSound,
      LayerSettled, CommandFinishes, ProotOver, Quiet, Runs
<1> QED
  BY <1>1, <1>2, <1>3, <1>4 DEF StepStep

-----------------------------------------------------------------------------

\* What holds throughout a RUN step, with whatever it forks.
THEOREM RunStepInvariant == StepSpec => []IInv
<1> QED
  BY InitIInv, NextIInv, PTL DEF StepSpec

\* _stop_step() and Popen.wait() between them: a layer is packed when the command
\* has succeeded and nothing of it runs, however many processes it left behind.
THEOREM RunStepLayerSettled == StepSpec => []LayerSettled
<1>1. IInv => LayerSettled
  BY DEF IInv
<1> QED
  BY <1>1, RunStepInvariant, PTL

\* _wait_for_step() takes nothing for a leftover before the command has ended.
THEOREM RunStepCommandFinishes == StepSpec => []CommandFinishes
<1>1. IInv => CommandFinishes
  BY DEF IInv
<1> QED
  BY <1>1, RunStepInvariant, PTL

-----------------------------------------------------------------------------
(* A removal with parked levels.                                           *)

\* The levels `fs` of a walk when `lo` is the shallowest but the first that is
\* open.
WalkSound(fs, lo) ==
  /\ fs \in Seq(Frames)
  /\ \A i \in 1..Len(fs) :
       /\ fs[i].fd \in {fs[i].dir, Nil}
       /\ fs[i].fd # Nil <=> (i = 1 \/ i >= lo)
       /\ fs[i].dir # Outside /\ Outside \notin fs[i].todo.names
  /\ Len(fs) > 0 => fs[1].dir = top
  /\ lo \in Nat /\ lo >= 2
  /\ lo <= Len(fs) \/ lo = 2
  /\ Len(fs) - lo + 1 <= OpenLimit

LevelsInv ==
  /\ up \in [Dirs -> Dirs \cup {Nil}] /\ up[Outside] = Outside
  /\ top \in Dirs \ {Outside} /\ moves \in 0..MaxMoves
  /\ IF end = "walking" THEN Len(frames) > 0 /\ WalkSound(frames, low)
     ELSE end \in {"gone", "left", "lost"} /\ frames = <<>> /\ low \in Nat \ {0}

LEMMA LimitNat == OpenLimit \in Nat /\ OpenLimit >= 2 /\ OpenLimit >= Budget
BY LevelsAssumption DEF OpenLimit

LEMMA LevelTyped ==
  ASSUME NEW d \in Dirs
  PROVE  Level(d) \in Frames
BY DEF Level, Frames, Listing

LEMMA LevelsStart == LevelsInit => LevelsInv
<1> SUFFICES ASSUME LevelsInit
             PROVE  LevelsInv
  OBVIOUS
<1> USE LevelsAssumption DEF LevelsInit
<1>1. top \in Dirs \ {Outside} /\ up \in [Dirs -> Dirs] /\ up[Outside] = Outside
  BY DEF Subdirs
<1>2. frames \in Seq(Frames) /\ Len(frames) = 1 /\ frames[1] = Level(top)
  BY <1>1, LevelTyped
<1>3. WalkSound(frames, low)
  <2>1. Len(frames) - low + 1 <= OpenLimit
    BY <1>2, LimitNat
  <2> QED
    BY <1>1, <1>2, <2>1 DEF WalkSound, Level
<1> QED
  BY <1>1, <1>2, <1>3 DEF LevelsInv

\* A level takes the place of the deepest.
LEMMA Replaced ==
  ASSUME NEW fs \in Seq(Frames), Len(fs) > 0, NEW g \in Frames,
         NEW gs, gs = [fs EXCEPT ![Len(fs)] = g]
  PROVE  /\ gs \in Seq(Frames) /\ Len(gs) = Len(fs) /\ gs[Len(fs)] = g
         /\ \A i \in 1..Len(fs) : i # Len(fs) => gs[i] = fs[i]
<1>1. Len(fs) \in 1..Len(fs)
  BY LenProperties
<1> QED
  BY <1>1, ExceptSeq

\* The place that a level has does not change while its entries are visited.
LEMMA Relisted ==
  ASSUME NEW fs, NEW lo, WalkSound(fs, lo), Len(fs) > 0,
         NEW g \in Frames, g.dir = fs[Len(fs)].dir, g.fd = fs[Len(fs)].fd,
         Outside \notin g.todo.names,
         NEW gs, gs = [fs EXCEPT ![Len(fs)] = g]
  PROVE  WalkSound(gs, lo) /\ Len(gs) = Len(fs)
<1> DEFINE n == Len(fs)
<1>1. fs \in Seq(Frames) /\ n \in Nat /\ n \in 1..n
  BY LenProperties DEF WalkSound
<1>2. /\ gs \in Seq(Frames) /\ Len(gs) = n /\ gs[n] = g
      /\ \A i \in 1..n : i # n => gs[i] = fs[i]
  BY <1>1, Replaced
<1>3. ASSUME NEW i \in 1..n
      PROVE  gs[i].dir = fs[i].dir /\ gs[i].fd = fs[i].fd /\ Outside \notin gs[i].todo.names
  BY <1>2 DEF WalkSound
<1>4. ASSUME NEW i \in 1..n
      PROVE  /\ gs[i].fd \in {gs[i].dir, Nil}
             /\ gs[i].fd # Nil <=> (i = 1 \/ i >= lo)
             /\ gs[i].dir # Outside /\ Outside \notin gs[i].todo.names
  BY <1>3 DEF WalkSound
<1>5. gs[1].dir = top
  BY <1>1, <1>3 DEF WalkSound
<1>6. lo \in Nat /\ lo >= 2 /\ (lo <= n \/ lo = 2) /\ n - lo + 1 <= OpenLimit
  BY DEF WalkSound
<1> HIDE DEF n
<1> QED
  BY <1>2, <1>4, <1>5, <1>6 DEF WalkSound

\* Levels.push() parks down to the budget, and never the two deepest.
LEMMA ParkedBounds ==
  ASSUME NEW fs \in Seq(Frames), Len(fs) >= 2, low \in Nat, low >= 2, low <= Len(fs)
  PROVE  /\ Parked(fs) \in low..Len(fs)
         /\ Parked(fs) = low \/ Parked(fs) <= Len(fs) - 1
         /\ Len(fs) - Parked(fs) + 1 <= OpenLimit
<1> USE LevelsAssumption
<1> DEFINE m == Len(fs)
           fitting == {n \in low..m : m - (n - 1) <= Budget \/ n >= m - 1}
           t == IF m + 1 - Budget < m - 1 THEN m + 1 - Budget ELSE m - 1
           least == IF low < t THEN t ELSE low
<1>0. m \in Nat /\ t \in Int /\ t <= m - 1 /\ least \in Int
  OBVIOUS
<1>1. fitting = {n \in low..m : n >= t}
  OBVIOUS
<1>2. least \in fitting /\ \A n \in fitting : least <= n
  BY <1>0, <1>1
<1>3. Parked(fs) = least
  <2>1. Parked(fs) = CHOOSE n \in fitting : \A k \in fitting : n <= k
    BY <1>2 DEF Parked
  <2>2. ASSUME NEW n \in fitting, \A k \in fitting : n <= k
        PROVE  n = least
    <3>1. n \in Int /\ n <= least /\ least <= n
      BY <1>2, <2>2
    <3> HIDE DEF least
    <3> QED
      BY <1>0, <3>1
  <2> HIDE DEF fitting, least
  <2> QED
    BY <1>2, <2>1, <2>2
<1>4. least \in low..m /\ (least = low \/ least <= m - 1) /\ m - least + 1 <= OpenLimit
  <2>1. OpenLimit \in Nat /\ m - t + 1 <= OpenLimit
    <3> HIDE DEF m, t
    <3>1. t = m - 1 \/ t = m + 1 - Budget
      BY DEF t
    <3> QED
      BY <1>0, <3>1, LimitNat
  <2>2. least >= t
    BY <1>0
  <2>3. least \in low..m /\ (least = low \/ least <= m - 1)
    BY <1>0
  <2> HIDE DEF m, t, least
  <2> QED
    BY <1>0, <2>1, <2>2, <2>3
<1> HIDE DEF least
<1> QED
  BY <1>3, <1>4

\* Where the walk works.
LEMMA AtDeepest ==
  ASSUME LevelsInv, end = "walking"
  PROVE  /\ frames \in Seq(Frames) /\ Len(frames) \in Nat \ {0} /\ Len(frames) \in 1..Len(frames)
         /\ Deepest = frames[Len(frames)] /\ Deepest \in Frames
         /\ Deepest.todo \in Listing /\ Deepest.todo.names \subseteq Dirs \ {Outside}
         /\ Deepest.dir \in Dirs \ {Outside} /\ Deepest.fd = Deepest.dir
         /\ WalkSound(frames, low)
<1> DEFINE n == Len(frames)
<1>1. frames \in Seq(Frames) /\ n \in Nat \ {0} /\ n \in 1..n /\ WalkSound(frames, low)
  BY LenProperties DEF LevelsInv, WalkSound
<1>2. Deepest = frames[n] /\ Deepest \in Frames
  BY <1>1, ElementOfSeq DEF Deepest, Last
<1>3. /\ Deepest.dir \in Dirs /\ Deepest.fd \in Dirs \cup {Nil} /\ Deepest.todo \in Listing
      /\ Deepest.todo.names \subseteq Dirs
  BY <1>2 DEF Frames, Listing
<1>4. n = 1 \/ n >= low
  <2>1. low \in Nat /\ (low <= n \/ low = 2)
    BY <1>1 DEF WalkSound
  <2> HIDE DEF n
  <2> QED
    BY <1>1, <2>1
<1>5. /\ Deepest.fd \in {Deepest.dir, Nil} /\ Deepest.fd # Nil
      /\ Deepest.dir # Outside /\ Outside \notin Deepest.todo.names
  BY <1>1, <1>2, <1>4 DEF WalkSound
<1> QED
  BY <1>1, <1>2, <1>3, <1>5

\* An entry is visited.
LEMMA RestSound ==
  ASSUME LevelsInv, end = "walking", NEW d
  PROVE  WalkSound(Rest(d), low) /\ Len(Rest(d)) = Len(frames) /\ Rest(d) \in Seq(Frames)
<1> DEFINE g == [Deepest EXCEPT !.todo.names = @ \ {d}]
<1>1. Rest(d) = [frames EXCEPT ![Len(frames)] = g]
  BY AtDeepest DEF Rest
<1>2. /\ g \in Frames /\ g.dir = Deepest.dir /\ g.fd = Deepest.fd
      /\ g.todo.names = Deepest.todo.names \ {d}
  BY AtDeepest DEF Frames, Listing
<1> HIDE DEF g
<1>3. Outside \notin g.todo.names /\ Len(frames) > 0
  BY <1>2, AtDeepest
<1>4. WalkSound(Rest(d), low) /\ Len(Rest(d)) = Len(frames)
  <2>1. g.dir = frames[Len(frames)].dir /\ g.fd = frames[Len(frames)].fd
    BY <1>2, AtDeepest
  <2>2. WalkSound(frames, low)
    BY AtDeepest
  <2> QED
    BY <1>1, <1>2, <1>3, <2>1, <2>2, Relisted
<1> QED
  BY <1>4 DEF WalkSound

\* A push leaves the walk sound.
LEMMA Pushed ==
  ASSUME LevelsInv, end = "walking", NEW d \in Deepest.todo.names,
         NEW fs, fs = Append(Rest(d), Level(d)),
         NEW lo, lo = Parked(fs)
  PROVE  /\ WalkSound(Park(fs, lo), lo)
         /\ Len(Park(fs, lo)) = Len(frames) + 1
         /\ lo <= Len(frames) \/ lo = 2
<1> DEFINE n == Len(frames)
           gs == Park(fs, lo)
           r == Rest(d)
<1>1. /\ n \in Nat \ {0} /\ d \in Dirs \ {Outside}
      /\ low \in Nat /\ low >= 2 /\ (low <= n \/ low = 2)
  BY AtDeepest DEF WalkSound
<1>2. r \in Seq(Frames) /\ Len(r) = n /\ WalkSound(r, low)
  BY RestSound
<1>3. fs \in Seq(Frames) /\ Len(fs) = n + 1 /\ fs[n + 1] = Level(d) /\ \A i \in 1..n : fs[i] = r[i]
  <2> HIDE DEF r
  <2>1. fs = Append(r, Level(d))
    BY DEF r
  <2> QED
    BY <1>1, <1>2, <2>1, LevelTyped, AppendProperties
<1>4. /\ lo \in Nat /\ low <= lo /\ lo <= n + 1 /\ (lo = low \/ lo <= n)
      /\ (n + 1) - lo + 1 <= OpenLimit
  <2>1. Len(fs) >= 2 /\ low <= Len(fs)
    BY <1>1, <1>3
  <2>2. /\ lo \in low..Len(fs) /\ (lo = low \/ lo <= Len(fs) - 1)
        /\ Len(fs) - lo + 1 <= OpenLimit
    BY <1>1, <1>3, <2>1, ParkedBounds
  <2> QED
    BY <1>1, <1>3, <2>2
<1>5. lo >= 2 /\ (lo <= n \/ lo = 2)
  BY <1>1, <1>4
<1>6. gs = [i \in 1..(n + 1) |-> IF i \in low..(lo - 1) THEN [fs[i] EXCEPT !.fd = Nil] ELSE fs[i]]
  BY <1>3 DEF Park
<1>7. ASSUME NEW i \in 1..(n + 1)
      PROVE  /\ gs[i] \in Frames /\ gs[i].dir = fs[i].dir /\ gs[i].todo = fs[i].todo
             /\ gs[i].fd = IF i \in low..(lo - 1) THEN Nil ELSE fs[i].fd
  <2>1. fs[i] \in Frames
    BY <1>3, ElementOfSeq
  <2>2. gs[i] = IF i \in low..(lo - 1) THEN [fs[i] EXCEPT !.fd = Nil] ELSE fs[i]
    BY <1>6
  <2> HIDE DEF gs
  <2> QED
    BY <2>1, <2>2 DEF Frames
<1>8. gs \in Seq(Frames) /\ Len(gs) = n + 1
  <2>1. n + 1 \in Nat
    BY <1>1
  <2>2. gs \in [1..(n + 1) -> Frames]
    <3>1. DOMAIN gs = 1..(n + 1) /\ gs = [i \in 1..(n + 1) |-> gs[i]]
      BY <1>6
    <3> HIDE DEF gs
    <3> QED
      BY <1>7, <3>1
  <2>3. gs \in Seq(Frames)
    BY <2>1, <2>2, SeqDef
  <2> HIDE DEF gs
  <2>4. DOMAIN gs = 1..(n + 1) /\ DOMAIN gs = 1..Len(gs) /\ Len(gs) \in Nat
    BY <2>2, <2>3, LenProperties
  <2> QED
    BY <2>1, <2>3, <2>4
<1> HIDE DEF gs
<1>9. ASSUME NEW i \in 1..(n + 1)
      PROVE  /\ gs[i].fd \in {gs[i].dir, Nil}
             /\ gs[i].fd # Nil <=> (i = 1 \/ i >= lo)
             /\ gs[i].dir # Outside /\ Outside \notin gs[i].todo.names
  <2>1. CASE i = n + 1
    <3>1. fs[i].dir = d /\ fs[i].fd = d /\ fs[i].todo.names = {}
      BY <1>3, <2>1 DEF Level
    <3>2. i \notin low..(lo - 1) /\ i >= lo
      BY <1>1, <1>4, <2>1
    <3>3. d # Nil
      BY <1>1, LevelsAssumption
    <3> QED
      BY <1>1, <1>7, <3>1, <3>2, <3>3
  <2>2. CASE i # n + 1
    <3>1. i \in 1..n /\ fs[i] = r[i]
      BY <1>1, <1>3, <2>2
    <3>2. /\ fs[i].fd \in {fs[i].dir, Nil}
          /\ fs[i].fd # Nil <=> (i = 1 \/ i >= low)
          /\ fs[i].dir # Outside /\ Outside \notin fs[i].todo.names
      <4> HIDE DEF r
      <4> QED
        BY <1>2, <3>1 DEF WalkSound
    <3>3. i \in low..(lo - 1) <=> (i >= low /\ ~(i >= lo))
      BY <1>1, <1>4, <3>1
    <3>4. i >= lo => i >= low
      BY <1>1, <1>4, <3>1
    <3>5. i = 1 => ~(i >= low)
      BY <1>1
    <3> QED
      BY <1>7, <3>2, <3>3, <3>4, <3>5
  <2> QED
    BY <2>1, <2>2
<1>10. gs[1].dir = top
  <2>1. 1 \in 1..n /\ 1 \in 1..(n + 1)
    BY <1>1
  <2>2. fs[1].dir = top
    <3> HIDE DEF r
    <3> QED
      BY <1>1, <1>2, <1>3, <2>1 DEF WalkSound
  <2> QED
    BY <1>7, <2>1, <2>2
<1>11. (lo <= n + 1 \/ lo = 2) /\ (n + 1) - lo + 1 <= OpenLimit
  BY <1>4
<1>12. WalkSound(gs, lo)
  BY <1>4, <1>5, <1>8, <1>9, <1>10, <1>11 DEF WalkSound
<1> QED
  BY <1>5, <1>8, <1>12 DEF gs

\* Without its deepest level a walk is sound, unless that was the only open one.
LEMMA Dropped ==
  ASSUME NEW fs, NEW lo, WalkSound(fs, lo), Len(fs) > 1, lo <= Len(fs) - 1 \/ lo = 2
  PROVE  /\ WalkSound(Front(fs), lo) /\ Front(fs) \in Seq(Frames)
         /\ Len(Front(fs)) = Len(fs) - 1
         /\ \A i \in 1..(Len(fs) - 1) : Front(fs)[i] = fs[i]
<1> DEFINE n == Len(fs)
           gs == Front(fs)
<1>1. fs \in Seq(Frames) /\ n \in Nat /\ n > 1
  BY LenProperties DEF WalkSound
<1>2. gs \in Seq(Frames) /\ Len(gs) = n - 1 /\ \A i \in 1..(n - 1) : gs[i] = fs[i]
  <2>1. gs = SubSeq(fs, 1, n - 1) /\ 1 \in Int /\ n - 1 \in Int
    BY <1>1 DEF Front
  <2>2. \A i \in 1..(n - 1) : fs[i] \in Frames
    BY <1>1, ElementOfSeq
  <2>3. /\ SubSeq(fs, 1, n - 1) \in Seq(Frames)
        /\ Len(SubSeq(fs, 1, n - 1)) = IF 1 <= n - 1 THEN n - 1 - 1 + 1 ELSE 0
        /\ \A i \in 1..(n - 1 - 1 + 1) : SubSeq(fs, 1, n - 1)[i] = fs[1 + i - 1]
    BY <2>1, <2>2, SubSeqProperties
  <2> HIDE DEF gs, n
  <2> QED
    BY <1>1, <2>1, <2>3
<1> HIDE DEF gs
<1>3. ASSUME NEW i \in 1..(n - 1)
      PROVE  /\ gs[i].fd \in {gs[i].dir, Nil}
             /\ gs[i].fd # Nil <=> (i = 1 \/ i >= lo)
             /\ gs[i].dir # Outside /\ Outside \notin gs[i].todo.names
  <2>1. i \in 1..n /\ gs[i] = fs[i]
    BY <1>1, <1>2
  <2> QED
    BY <2>1 DEF WalkSound
<1>4. gs[1].dir = top
  <2>1. 1 \in 1..(n - 1)
    BY <1>1
  <2> QED
    BY <1>1, <1>2, <2>1 DEF WalkSound
<1>5. lo \in Nat /\ lo >= 2 /\ (lo <= n - 1 \/ lo = 2) /\ (n - 1) - lo + 1 <= OpenLimit
  <2>1. lo \in Nat /\ lo >= 2 /\ n - lo + 1 <= OpenLimit
    BY DEF WalkSound
  <2> QED
    BY <1>1, <2>1, LimitNat
<1>6. WalkSound(gs, lo)
  BY <1>1, <1>2, <1>3, <1>4, <1>5 DEF WalkSound
<1> QED
  BY <1>2, <1>6 DEF gs

-----------------------------------------------------------------------------
(* The steps.                                                              *)

LEMMA ListDirSound == LevelsInv /\ ListDir => LevelsInv'
<1> SUFFICES ASSUME LevelsInv, ListDir
             PROVE  LevelsInv'
  OBVIOUS
<1>1. end = "walking" /\ UNCHANGED <<up, top, low, end, moves>>
  BY DEF ListDir
<1> DEFINE n == Len(frames)
           g == [Deepest EXCEPT !.todo = [listed |-> TRUE, names |-> Subdirs(Deepest.fd)]]
<1>2. frames' = [frames EXCEPT ![n] = g]
  BY <1>1, AtDeepest DEF ListDir
<1>3. /\ g \in Frames /\ g.dir = frames[n].dir /\ g.fd = frames[n].fd
      /\ Outside \notin g.todo.names
  BY <1>1, AtDeepest DEF Frames, Listing, Subdirs
<1> HIDE DEF g
<1>4. WalkSound(frames, low) /\ n > 0
  BY <1>1, AtDeepest
<1>5. WalkSound(frames', low) /\ Len(frames') = n
  BY <1>2, <1>3, <1>4, Relisted
<1>6. WalkSound(frames, low)' /\ Len(frames') > 0
  BY <1>1, <1>4, <1>5 DEF WalkSound
<1> QED
  BY <1>1, <1>6 DEF LevelsInv

LEMMA ListDirFailsSound == LevelsInv /\ ListDirFails => LevelsInv'
<1> SUFFICES ASSUME LevelsInv, ListDirFails
             PROVE  LevelsInv'
  OBVIOUS
<1>1. end = "walking" /\ UNCHANGED <<up, top, low, end, moves>>
  BY DEF ListDirFails
<1> DEFINE n == Len(frames)
           g == [Deepest EXCEPT !.todo = [@ EXCEPT !.listed = TRUE], !.emptied = FALSE]
<1>2. frames' = [frames EXCEPT ![n] = g]
  <2>1. frames' = [frames EXCEPT ![n].todo.listed = TRUE, ![n].emptied = FALSE]
    BY DEF ListDirFails
  <2> QED
    BY <1>1, <2>1, AtDeepest
<1>3. /\ g \in Frames /\ g.dir = frames[n].dir /\ g.fd = frames[n].fd
      /\ Outside \notin g.todo.names
  BY <1>1, AtDeepest DEF Frames, Listing
<1> HIDE DEF g
<1>4. WalkSound(frames, low) /\ n > 0
  BY <1>1, AtDeepest
<1>5. WalkSound(frames', low) /\ Len(frames') = n
  BY <1>2, <1>3, <1>4, Relisted
<1>6. WalkSound(frames, low)' /\ Len(frames') > 0
  BY <1>1, <1>4, <1>5 DEF WalkSound
<1> QED
  BY <1>1, <1>6 DEF LevelsInv

LEMMA PassBySound ==
  ASSUME LevelsInv, NEW d \in Dirs, PassBy(d)
  PROVE  LevelsInv'
<1>1. end = "walking" /\ UNCHANGED <<up, top, low, end, moves>> /\ frames' = Rest(d)
  BY DEF PassBy
<1>2. WalkSound(Rest(d), low) /\ Len(Rest(d)) = Len(frames) /\ Len(frames) > 0
  BY <1>1, RestSound, AtDeepest
<1>3. WalkSound(frames, low)' /\ Len(frames') > 0
  BY <1>1, <1>2 DEF WalkSound
<1> QED
  BY <1>1, <1>3 DEF LevelsInv

LEMMA DescendSound ==
  ASSUME LevelsInv, NEW d \in Dirs, Descend(d)
  PROVE  LevelsInv'
<1> DEFINE fs == Append(Rest(d), Level(d))
<1>1. /\ end = "walking" /\ d \in Deepest.todo.names /\ UNCHANGED <<up, top, end, moves>>
      /\ low' = Parked(fs) /\ frames' = Park(fs, Parked(fs))
  BY DEF Descend
<1> HIDE DEF fs
<1>2. /\ WalkSound(Park(fs, Parked(fs)), Parked(fs))
      /\ Len(Park(fs, Parked(fs))) = Len(frames) + 1
  BY <1>1, Pushed DEF fs
<1>3. Len(frames) \in Nat
  BY <1>1, AtDeepest
<1>4. WalkSound(frames, low)' /\ Len(frames') > 0
  BY <1>1, <1>2, <1>3 DEF WalkSound
<1> QED
  BY <1>1, <1>4 DEF LevelsInv

LEMMA AbandonSound ==
  ASSUME LevelsInv, NEW d \in Dirs, Abandon(d)
  PROVE  LevelsInv'
<1> DEFINE fs == Append(Rest(d), Level(d))
           lo == Parked(fs)
           ps == Park(fs, lo)
           n == Len(frames)
<1>1. /\ end = "walking" /\ d \in Deepest.todo.names /\ UNCHANGED <<up, top, end, moves>>
      /\ low' = lo /\ frames' = [Front(ps) EXCEPT ![n].emptied = FALSE]
  BY DEF Abandon
<1>2. n \in Nat \ {0}
  BY <1>1, AtDeepest
<1>3. WalkSound(ps, lo) /\ Len(ps) = n + 1 /\ (lo <= n \/ lo = 2)
  BY <1>1, Pushed
<1> HIDE DEF ps, lo
<1>4. WalkSound(Front(ps), lo) /\ Front(ps) \in Seq(Frames) /\ Len(Front(ps)) = n
  <2>1. Len(ps) > 1 /\ (lo <= Len(ps) - 1 \/ lo = 2) /\ Len(ps) - 1 = n
    BY <1>2, <1>3
  <2> QED
    BY <1>3, <2>1, Dropped
<1> DEFINE g == [Front(ps)[n] EXCEPT !.emptied = FALSE]
<1>5. Front(ps)[n] \in Frames
  BY <1>2, <1>4, ElementOfSeq
<1>6. g \in Frames /\ g.dir = Front(ps)[n].dir /\ g.fd = Front(ps)[n].fd
      /\ g.todo = Front(ps)[n].todo
  BY <1>5 DEF Frames
<1>7. Outside \notin g.todo.names
  BY <1>2, <1>4, <1>6 DEF WalkSound
<1>8. frames' = [Front(ps) EXCEPT ![n] = g]
  BY <1>1, <1>4
<1> HIDE DEF g
<1>9. WalkSound(frames', lo) /\ Len(frames') = n
  <2> DEFINE fr == Front(ps)
  <2>1. /\ WalkSound(fr, lo) /\ Len(fr) > 0 /\ frames' = [fr EXCEPT ![Len(fr)] = g]
        /\ g.dir = fr[Len(fr)].dir /\ g.fd = fr[Len(fr)].fd
    BY <1>2, <1>4, <1>6, <1>8
  <2> HIDE DEF fr, n
  <2>2. WalkSound(frames', lo) /\ Len(frames') = Len(fr)
    BY <1>6, <1>7, <2>1, Relisted
  <2> QED
    BY <1>4, <2>2 DEF fr
<1>10. WalkSound(frames, low)' /\ Len(frames') > 0
  BY <1>1, <1>2, <1>9 DEF WalkSound
<1> QED
  BY <1>1, <1>10 DEF LevelsInv

\* The level above, which an entry that could not be reopened ends the walk at.
LEMMA AboveDeepest ==
  ASSUME LevelsInv, end = "walking", Len(frames) > 1
  PROVE  LET above == Front(frames)
             n == Len(frames)
         IN /\ above \in Seq(Frames) /\ Len(above) = n - 1 /\ n - 1 \in 1..(n - 1)
            /\ \A i \in 1..(n - 1) : above[i] = frames[i]
            /\ Last(above) = frames[n - 1] /\ Last(above) \in Frames
            /\ Last(above).dir \in Dirs \ {Outside} /\ Outside \notin Last(above).todo.names
            /\ Last(above).fd \in {Last(above).dir, Nil}
            /\ Revived(Last(above), Deepest.fd) \in {Last(above).dir, Nil}
            /\ Last(above).fd # Nil => /\ WalkSound(above, low)
                                      /\ Revived(Last(above), Deepest.fd) = Last(above).fd
            /\ Last(above).fd = Nil => n - 1 >= 2 /\ n - 1 < low
<1> DEFINE above == Front(frames)
           n == Len(frames)
           level == Last(above)
<1>1. frames \in Seq(Frames) /\ n \in Nat /\ n > 1 /\ WalkSound(frames, low)
  BY AtDeepest
<1>2. above \in Seq(Frames) /\ Len(above) = n - 1 /\ \A i \in 1..(n - 1) : above[i] = frames[i]
  <2>1. above = SubSeq(frames, 1, n - 1) /\ 1 \in Int /\ n - 1 \in Int
    BY <1>1 DEF Front
  <2>2. \A i \in 1..(n - 1) : frames[i] \in Frames
    BY <1>1, ElementOfSeq
  <2>3. /\ SubSeq(frames, 1, n - 1) \in Seq(Frames)
        /\ Len(SubSeq(frames, 1, n - 1)) = IF 1 <= n - 1 THEN n - 1 - 1 + 1 ELSE 0
        /\ \A i \in 1..(n - 1 - 1 + 1) : SubSeq(frames, 1, n - 1)[i] = frames[1 + i - 1]
    BY <2>1, <2>2, SubSeqProperties
  <2> HIDE DEF above, n
  <2> QED
    BY <1>1, <2>1, <2>3
<1>3. n - 1 \in 1..(n - 1) /\ n - 1 \in 1..n
  BY <1>1
<1>4. level = frames[n - 1] /\ level \in Frames
  BY <1>1, <1>2, <1>3, ElementOfSeq DEF Last
<1> HIDE DEF above, level
<1>5. /\ level.dir \in Dirs \ {Outside} /\ level.fd \in {level.dir, Nil}
      /\ Outside \notin level.todo.names
      /\ level.fd # Nil <=> (n - 1 = 1 \/ n - 1 >= low)
  BY <1>1, <1>3, <1>4 DEF WalkSound, Frames
<1>6. low \in Nat /\ low >= 2 /\ (low <= n \/ low = 2)
  BY <1>1 DEF WalkSound
<1>7. ASSUME level.fd # Nil
      PROVE  WalkSound(above, low)
  <2>1. low <= n - 1 \/ low = 2
    <3> HIDE DEF n
    <3> QED
      BY <1>1, <1>5, <1>6, <1>7
  <2> QED
    BY <1>1, <2>1, Dropped DEF above
<1>8. ASSUME level.fd = Nil
      PROVE  n - 1 >= 2 /\ n - 1 < low
  <2> HIDE DEF n
  <2> QED
    BY <1>1, <1>5, <1>6, <1>8
<1>9. /\ Revived(level, Deepest.fd) \in {level.dir, Nil}
      /\ level.fd # Nil => Revived(level, Deepest.fd) = level.fd
  BY <1>5 DEF Revived
<1> QED
  BY <1>2, <1>3, <1>4, <1>5, <1>7, <1>8, <1>9 DEF above, level

LEMMA ClimbSound == LevelsInv /\ Climb => LevelsInv'
<1> SUFFICES ASSUME LevelsInv, Climb
             PROVE  LevelsInv'
  OBVIOUS
<1> DEFINE n == Len(frames)
           above == Front(frames)
           level == Last(above)
           from == Revived(level, Deepest.fd)
           emptied == Emptied(Deepest, from)
<1>1. end = "walking" /\ n > 1 /\ UNCHANGED <<top, moves>>
  BY DEF Climb
<1>2. /\ above \in Seq(Frames) /\ Len(above) = n - 1 /\ n - 1 \in 1..(n - 1)
      /\ \A i \in 1..(n - 1) : above[i] = frames[i]
      /\ level = frames[n - 1] /\ level \in Frames
      /\ level.dir \in Dirs \ {Outside} /\ Outside \notin level.todo.names
      /\ level.fd \in {level.dir, Nil} /\ from \in {level.dir, Nil}
      /\ level.fd # Nil => WalkSound(above, low) /\ from = level.fd
      /\ level.fd = Nil => n - 1 >= 2 /\ n - 1 < low
  BY <1>1, AboveDeepest
<1>3. /\ frames \in Seq(Frames) /\ n \in Nat /\ WalkSound(frames, low)
      /\ Deepest.dir \in Dirs \ {Outside} /\ Deepest \in Frames
  BY <1>1, AtDeepest
<1>4. CASE from = Nil
  <2>1. end' = "lost" /\ frames' = <<>> /\ UNCHANGED <<up, low>>
    BY <1>4 DEF Climb
  <2>2. low \in Nat \ {0}
    BY <1>3 DEF WalkSound
  <2> QED
    BY <1>1, <2>1, <2>2 DEF LevelsInv
<1>5. CASE from # Nil
  <2> DEFINE g == [level EXCEPT !.fd = from, !.emptied = @ /\ emptied]
             lo == IF level.fd = Nil THEN n - 1 ELSE low
  <2>1. /\ frames' = [above EXCEPT ![n - 1] = g] /\ low' = lo /\ UNCHANGED end
        /\ up' = IF emptied THEN [up EXCEPT ![Deepest.dir] = Nil] ELSE up
    <3>1. /\ frames' = [above EXCEPT ![Len(above)].fd = from, ![Len(above)].emptied = @ /\ emptied]
          /\ low' = (IF level.fd = Nil THEN Len(above) ELSE low) /\ UNCHANGED end
          /\ up' = IF emptied THEN [up EXCEPT ![Deepest.dir] = Nil] ELSE up
      BY <1>5 DEF Climb
    <3>2. [above EXCEPT ![n - 1].fd = from, ![n - 1].emptied = @ /\ emptied]
            = [above EXCEPT ![n - 1] = g]
      <4>1. above[n - 1] = level
        BY <1>2
      <4> HIDE DEF above, level, from, emptied, n
      <4> QED
        BY <1>2, <4>1
    <3> QED
      BY <1>2, <3>1, <3>2
  <2>2. emptied \in BOOLEAN
    BY <1>3 DEF Emptied, CanRemove, Frames
  <2>3. g \in Frames /\ g.dir = level.dir /\ g.fd = level.dir /\ g.todo = level.todo
    <3> HIDE DEF emptied, from, level
    <3> QED
      BY <1>2, <1>5, <2>2 DEF Frames
  <2> HIDE DEF g, from, level, above, emptied, lo
  <2>4. /\ frames' \in Seq(Frames) /\ Len(frames') = n - 1 /\ frames'[n - 1] = g
        /\ \A i \in 1..(n - 1) : i # n - 1 => frames'[i] = frames[i]
    <3> HIDE DEF n
    <3>1. above[Len(above)] = level /\ Len(above) > 0 /\ frames' = [above EXCEPT ![Len(above)] = g]
      BY <1>1, <1>2, <1>3, <2>1
    <3> QED
      BY <1>2, <2>3, <3>1, Replaced
  <2>5. WalkSound(frames', lo)
    <3>1. CASE level.fd # Nil
      <4>1. /\ WalkSound(above, low) /\ Len(above) > 0 /\ above[Len(above)] = level
            /\ frames' = [above EXCEPT ![Len(above)] = g] /\ g.fd = level.fd /\ lo = low
        BY <1>1, <1>2, <1>3, <1>5, <2>1, <2>3, <3>1 DEF lo
      <4> QED
        BY <1>2, <2>3, <4>1, Relisted
    <3>2. CASE level.fd = Nil
      <4>1. lo = n - 1 /\ n - 1 >= 2 /\ n - 1 < low /\ n - 1 \in Nat
        BY <1>2, <1>3, <3>2 DEF lo
      <4>2. low \in Nat
        BY <1>3 DEF WalkSound
      <4>3. ASSUME NEW i \in 1..(n - 1)
            PROVE  /\ frames'[i].fd \in {frames'[i].dir, Nil}
                   /\ frames'[i].fd # Nil <=> (i = 1 \/ i >= lo)
                   /\ frames'[i].dir # Outside /\ Outside \notin frames'[i].todo.names
        <5>1. CASE i = n - 1
          <6>1. level.dir # Nil /\ level.dir # Outside
            BY <1>2, LevelsAssumption
          <6> QED
            BY <1>2, <2>3, <2>4, <4>1, <5>1, <6>1
        <5>2. CASE i # n - 1
          <6>1. frames'[i] = frames[i] /\ i \in 1..n
            BY <1>3, <2>4, <5>2
          <6>2. /\ frames[i].fd \in {frames[i].dir, Nil}
                /\ frames[i].fd # Nil <=> (i = 1 \/ i >= low)
                /\ frames[i].dir # Outside /\ Outside \notin frames[i].todo.names
            BY <1>3, <6>1 DEF WalkSound
          <6>3. ~(i >= low) /\ ~(i >= lo)
            BY <4>1, <4>2, <5>2
          <6> QED
            BY <6>1, <6>2, <6>3
        <5> QED
          BY <5>1, <5>2
      <4>4. frames'[1].dir = top
        <5>1. 1 \in 1..(n - 1) /\ 1 # n - 1 /\ frames'[1] = frames[1]
          BY <2>4, <4>1
        <5> QED
          BY <1>3, <1>1, <5>1 DEF WalkSound
      <4>5. Len(frames') - lo + 1 <= OpenLimit /\ lo \in Nat /\ lo >= 2 /\ lo <= Len(frames')
        BY <2>4, <4>1, LimitNat
      <4> QED
        BY <2>4, <4>3, <4>4, <4>5 DEF WalkSound
    <3> QED
      BY <3>1, <3>2
  <2>6. WalkSound(frames, low)' /\ Len(frames') > 0
    BY <1>1, <1>3, <2>1, <2>4, <2>5 DEF WalkSound
  <2>7. up' \in [Dirs -> Dirs \cup {Nil}] /\ up'[Outside] = Outside
    BY <1>3, <2>1, LevelsAssumption DEF LevelsInv
  <2> QED
    BY <1>1, <2>1, <2>6, <2>7 DEF LevelsInv
<1> QED
  BY <1>4, <1>5

LEMMA ClimbOutSound == LevelsInv /\ ClimbOut => LevelsInv'
<1> SUFFICES ASSUME LevelsInv, ClimbOut
             PROVE  LevelsInv'
  OBVIOUS
<1>1. /\ end = "walking" /\ UNCHANGED <<top, low, moves>> /\ frames' = <<>>
      /\ end' \in {"gone", "left"}
      /\ up' = up \/ up' = [up EXCEPT ![top] = Nil]
  BY DEF ClimbOut
<1>2. low \in Nat \ {0}
  BY <1>1, AtDeepest DEF WalkSound
<1>3. up' \in [Dirs -> Dirs \cup {Nil}] /\ up'[Outside] = Outside
  BY <1>1, LevelsAssumption DEF LevelsInv
<1> QED
  BY <1>1, <1>2, <1>3 DEF LevelsInv

LEMMA MoveSound ==
  ASSUME LevelsInv, NEW d \in Dirs, NEW to \in Dirs, Move(d, to)
  PROVE  LevelsInv'
<1>1. /\ end = "walking" /\ moves < MaxMoves /\ d # Outside
      /\ up' = [up EXCEPT ![d] = to] /\ moves' = moves + 1 /\ UNCHANGED <<top, frames, low, end>>
  BY DEF Move
<1>2. WalkSound(frames, low)' <=> WalkSound(frames, low)
  BY <1>1 DEF WalkSound
<1>3. up' \in [Dirs -> Dirs \cup {Nil}] /\ up'[Outside] = Outside
  BY <1>1, LevelsAssumption DEF LevelsInv
<1>4. moves' \in 0..MaxMoves
  BY <1>1, LevelsAssumption DEF LevelsInv
<1> QED
  BY <1>1, <1>2, <1>3, <1>4 DEF LevelsInv

LEMMA LevelsStepSound == LevelsInv /\ [LevelsStep]_levelVars => LevelsInv'
<1> SUFFICES ASSUME LevelsInv, [LevelsStep]_levelVars
             PROVE  LevelsInv'
  OBVIOUS
<1>1. CASE ListDir
  BY <1>1, ListDirSound
<1>2. CASE ListDirFails
  BY <1>2, ListDirFailsSound
<1>3. CASE Climb
  BY <1>3, ClimbSound
<1>4. CASE ClimbOut
  BY <1>4, ClimbOutSound
<1>5. ASSUME NEW d \in Dirs, Descend(d) \/ PassBy(d) \/ Abandon(d)
      PROVE  LevelsInv'
  BY <1>5, DescendSound, PassBySound, AbandonSound
<1>6. ASSUME NEW d \in Dirs, NEW to \in Dirs, Move(d, to)
      PROVE  LevelsInv'
  BY <1>6, MoveSound
<1>7. CASE UNCHANGED levelVars
  BY <1>7 DEF LevelsInv, WalkSound, levelVars
<1> QED
  BY <1>1, <1>2, <1>3, <1>4, <1>5, <1>6, <1>7 DEF LevelsStep

-----------------------------------------------------------------------------
(* The theorems.                                                           *)

\* rmtree_at() and Levels: whatever is moved meanwhile, the levels are as
\* _park() and _revive_level() leave them.
THEOREM LevelsInvariant == LevelsSpec => []LevelsInv
<1>1. LevelsInit => LevelsInv
  BY LevelsStart
<1>2. LevelsInv /\ [LevelsStep]_levelVars => LevelsInv'
  BY LevelsStepSound
<1> QED
  BY <1>1, <1>2, PTL DEF LevelsSpec

\* The levels that are open: the first, and those that were not parked.
LEMMA FewOpen ==
  ASSUME NEW fs, NEW lo, WalkSound(fs, lo)
  PROVE  Cardinality({i \in 1..Len(fs) : fs[i].fd # Nil}) <= OpenLimit + 1
<1> DEFINE n == Len(fs)
           open == {i \in 1..n : fs[i].fd # Nil}
<1>1. n \in Nat /\ lo \in Nat /\ n - lo + 1 <= OpenLimit /\ OpenLimit \in Nat
  BY LenProperties, LimitNat DEF WalkSound
<1>2. open \subseteq (lo..n) \cup {1}
  <2> SUFFICES ASSUME NEW i \in 1..n, fs[i].fd # Nil
               PROVE  i \in (lo..n) \cup {1}
    OBVIOUS
  <2>1. i = 1 \/ i >= lo
    BY DEF WalkSound
  <2> HIDE DEF n
  <2> QED
    BY <1>1, <2>1
<1> HIDE DEF n, open
<1>3. IsFiniteSet(lo..n) /\ Cardinality(lo..n) \in Nat /\ Cardinality(lo..n) <= OpenLimit
  <2>1. IsFiniteSet(lo..n) /\ Cardinality(lo..n) = IF lo > n THEN 0 ELSE n - lo + 1
    BY <1>1, FS_Interval
  <2> QED
    BY <1>1, <2>1
<1>4. /\ IsFiniteSet((lo..n) \cup {1})
      /\ Cardinality((lo..n) \cup {1}) = IF 1 \in lo..n THEN Cardinality(lo..n) ELSE Cardinality(lo..n) + 1
  BY <1>3, FS_AddElement
<1>5. /\ Cardinality(open) <= Cardinality((lo..n) \cup {1}) /\ Cardinality(open) \in Nat
  BY <1>2, <1>4, FS_Subset, FS_CardinalityType
<1>6. Cardinality(open) <= OpenLimit + 1
  BY <1>1, <1>3, <1>4, <1>5
<1> QED
  BY <1>6 DEF open, n

LEMMA HoldsInside == LevelsInv => LevelsHold
<1> SUFFICES ASSUME LevelsInv
             PROVE  LevelsHold
  OBVIOUS
<1>1. CASE end = "walking"
  <2>1. Deepest.fd # Nil
    BY <1>1, AtDeepest, LevelsAssumption
  <2>2. \A i \in 1..Len(frames) : frames[i].fd \in {frames[i].dir, Nil}
    BY <1>1, AtDeepest DEF WalkSound
  <2>3. Cardinality({i \in 1..Len(frames) : frames[i].fd # Nil}) <= OpenLimit + 1
    BY <1>1, AtDeepest, FewOpen
  <2> QED
    BY <2>1, <2>2, <2>3 DEF LevelsHold
<1>2. CASE end # "walking"
  <2>1. frames = <<>> /\ Len(frames) = 0
    BY <1>2 DEF LevelsInv
  <2>2. {i \in 1..Len(frames) : frames[i].fd # Nil} = {}
    BY <2>1
  <2>3. Cardinality({i \in 1..Len(frames) : frames[i].fd # Nil}) <= OpenLimit + 1
    BY <2>2, FS_EmptySet, LimitNat
  <2> QED
    BY <2>1, <2>3 DEF LevelsHold
<1> QED
  BY <1>1, <1>2

\* Levels: the working level is open, an open one is the directory it was, and
\* the descriptors are bounded however deep the tree is.
THEOREM LevelsLevelsHold == LevelsSpec => []LevelsHold
BY LevelsInvariant, HoldsInside, PTL

\* What a step may take away.
LEMMA RemovesSafely ==
  ASSUME LevelsInv, LevelsStep
  PROVE  /\ end' = "gone" => \A d \in Dirs \ {Outside} : up'[d] # Nil => ~InTree(d, top)'
         /\ \A d \in Dirs :
              up[d] # Nil /\ up'[d] = Nil =>
                d = top \/ \E i \in 1..Len(frames) : frames[i].dir = up[d]
<1>1. end = "walking"
  BY DEF LevelsStep, ListDir, ListDirFails, Climb, ClimbOut, Descend, PassBy, Abandon, Move
<1>2. CASE UNCHANGED <<up, end>>
  BY <1>1, <1>2
<1>3. ASSUME NEW d \in Dirs, NEW to \in Dirs, Move(d, to)
      PROVE  UNCHANGED end /\ \A e \in Dirs : up'[e] = Nil => up[e] = Nil
  BY <1>3, LevelsAssumption DEF Move, LevelsInv
<1>4. CASE Climb
  <2> DEFINE n == Len(frames)
             above == Front(frames)
             level == Last(above)
             from == Revived(level, Deepest.fd)
  <2>1. end' # "gone"
    BY <1>1, <1>4 DEF Climb
  <2>2. ASSUME NEW d \in Dirs, up[d] # Nil, up'[d] = Nil
        PROVE  from # Nil /\ up[d] = from
    BY <1>1, <1>4, <2>2 DEF Climb, Emptied, CanRemove, LevelsInv
  <2>3. from \in {level.dir, Nil} /\ level = frames[n - 1] /\ n - 1 \in 1..n
    <3>1. n > 1 /\ n \in Nat
      BY <1>1, <1>4, AtDeepest DEF Climb
    <3>2. from \in {level.dir, Nil} /\ level = frames[n - 1]
      BY <1>1, <3>1, AboveDeepest
    <3> HIDE DEF n
    <3>3. n - 1 \in 1..n
      BY <3>1
    <3> QED
      BY <3>2, <3>3
  <2> HIDE DEF level, from
  <2> QED
    BY <2>1, <2>2, <2>3
<1>5. CASE ClimbOut
  <2>1. Deepest.dir = top /\ top \in Dirs \ {Outside} /\ up \in [Dirs -> Dirs \cup {Nil}]
        /\ up[Outside] = Outside
    <3>1. Len(frames) = 1 /\ Deepest = frames[1]
      BY <1>1, <1>5, AtDeepest DEF ClimbOut
    <3> QED
      BY <1>1, <3>1, AtDeepest DEF WalkSound, LevelsInv
  <2>2. /\ top' = top
        /\ up' = up \/ up' = [up EXCEPT ![top] = Nil]
        /\ end' = "gone" => Subdirs(top) = {} /\ up' = [up EXCEPT ![top] = Nil]
    BY <1>5, <2>1 DEF ClimbOut, Emptied, CanRemove
  <2>3. ASSUME end' = "gone", NEW d \in Dirs \ {Outside}, up'[d] # Nil
        PROVE  ~InTree(d, top)'
    <3> DEFINE S == Dirs \ {top}
    <3>1. S \in SUBSET (Dirs \ {top'}) /\ d \in S
      BY <2>1, <2>2, <2>3
    <3>2. ASSUME NEW c \in S
          PROVE  up'[c] \in S \cup {Nil}
      BY <2>1, <2>2, <2>3 DEF Subdirs
    <3> HIDE DEF S
    <3> QED
      BY <3>1, <3>2 DEF InTree
  <2>4. \A d \in Dirs : up[d] # Nil /\ up'[d] = Nil => d = top
    BY <2>1, <2>2
  <2> QED
    BY <2>3, <2>4
<1> QED
  BY <1>2, <1>3, <1>4, <1>5, <1>1
     DEF LevelsStep, ListDir, ListDirFails, Descend, PassBy, Abandon

\* rmtree_at(): only what is empty is removed, from the level it was found in,
\* and a removal that claims success has left nothing in the tree.
THEOREM LevelsRemovesTheTree == LevelsSpec => RemovesTheTree
<1>1. LevelsInv /\ [LevelsStep]_levelVars =>
        [/\ end' = "gone" => \A d \in Dirs \ {Outside} : up'[d] # Nil => ~InTree(d, top)'
         /\ \A d \in Dirs :
              up[d] # Nil /\ up'[d] = Nil =>
                d = top \/ \E i \in 1..Len(frames) : frames[i].dir = up[d]]_levelVars
  BY RemovesSafely
<1> QED
  BY <1>1, LevelsInvariant, PTL DEF LevelsSpec, RemovesTheTree

-----------------------------------------------------------------------------
(* Mirror: what holds of `sync`, `copy` and `copy --move`, wherever they    *)
(* are.                                                                     *)

\* A walk has the items of a name to do one after the other: what is in a
\* directory, and then the directory's mode.
Elems(s) == {s[i] : i \in 1..Len(s)}
Alike(i, j) == i.p.top = j.p.top
Follows(i, j) == i = Item("entry", RelIn(i.p.top)) /\ j = Item("leave", Rel(i.p.top))
Fit(s) == \A i, j \in 1..Len(s) : i < j /\ Alike(s[i], s[j]) => Follows(s[i], s[j])

Work == [act : {"level", "entry", "leave", "end"}, p : Paths]
ToDo == Elems(todo)
RootLevel == Item("level", Root)
Busy(d) == \E i \in ToDo : i.p.top = d

\* What the passes may have to do.
ListWork == {RootLevel} \cup {Item("level", Rel(d)) : d \in Top}
WriteWork == ListWork \cup {Item("entry", Rel(d)) : d \in Top} \cup {Item("leave", Rel(d)) : d \in Top}
             \cup {Item("entry", RelIn(d)) : d \in Top}
PruneWork == {Item("entry", Rel(d)) : d \in Top} \cup {Item("entry", RelIn(d)) : d \in Top}

MirrorTyped ==
  /\ verb \in [name : {"sync", "syncDelete", "copy", "move"}, checksum : BOOLEAN]
  /\ walk \in {"list", "write", "look", "prune", "remove", "done", "failed"}
  /\ todo \in Seq(Work)
  /\ src \in MirrorTree /\ dst \in MirrorTree /\ src0 \in MirrorTree /\ dst0 \in MirrorTree
  /\ seen \subseteq Paths /\ skipped \subseteq Paths /\ wrote \subseteq Paths /\ touched \subseteq Top
  /\ unread \in BOOLEAN /\ failed \in BOOLEAN
  /\ faults \in 0..MaxFaults /\ turns \in 0..MaxTurns
  /\ unset \subseteq Top /\ unseen \subseteq Paths

\* Which pass is whose, and what it has to do.
TodoSound ==
  /\ walk = "list" => Syncs /\ ToDo \subseteq ListWork
  /\ walk = "write" => ToDo \subseteq WriteWork
  /\ walk = "look" => verb.name = "syncDelete" /\ todo = <<>>
  /\ walk = "prune" => verb.name = "syncDelete" /\ ToDo \subseteq PruneWork
  /\ walk = "remove" => verb.name = "move"
  /\ walk \in {"list", "write", "prune"} => Fit(todo)
  /\ walk \in {"list", "write"} /\ RootLevel \in ToDo => ToDo = {RootLevel}
  /\ walk = "write" =>
       \A d \in Top :
         /\ Item("entry", RelIn(d)) \in ToDo => Item("leave", Rel(d)) \in ToDo
         /\ {Item("level", Rel(d)), Item("leave", Rel(d))} \cap ToDo # {} => dst[d].kind = "dir"

\* An entry that nobody has changed is what it was.
SourceSame ==
  walk \in {"list", "write", "look", "prune"} => \A d \in Top \ touched : src[d] = src0[d]

\* What was not carried across is known, and only special entries make no failure.
FailSound ==
  /\ ~failed =>
       /\ ~unread
       /\ \A p \in skipped : p \in {Rel(d) : d \in Top} /\ (p.top \in touched \/ src0[p.top] = Special)
       /\ verb.name = "move" => skipped = {}
  /\ verb.name = "move" => \A d \in Top : dst0[d] = Absent

\* The list of the source has what was there all the time, and nothing that never was.
SeenSound ==
  Syncs =>
    /\ \A d \in Top \ touched :
         /\ Rel(d) \in seen => src0[d] # Absent
         /\ RelIn(d) \in seen => X(src0[d]) # None
    /\ ~unread /\ walk \in {"list", "write", "look"} /\ ~(walk = "list" /\ RootLevel \in ToDo) =>
         \A d \in Top \ touched :
           /\ src0[d] # Absent => Rel(d) \in seen
           /\ X(src0[d]) # None =>
                \/ RelIn(d) \in seen \/ Rel(d) \in skipped
                \/ walk = "list" /\ Item("level", Rel(d)) \in ToDo

\* What is written has been seen.
WroteSeen ==
  Syncs =>
    /\ \A p \in wrote : p \in seen /\ Rel(p.top) \in seen
    /\ walk \in {"list", "write"} =>
         \A i \in ToDo : i = RootLevel \/ (Rel(i.p.top) \in seen /\ (i.act = "entry" => i.p \in seen))

-----------------------------------------------------------------------------
(* How far an entry is.                                                    *)

\* It was carried across as far as anybody got to it.
Clear(d) == d \notin touched /\ {Root, Rel(d), RelIn(d)} \cap skipped = {}

\* A directory with its content, what it had in the destination included.
Filled(s, o, w) ==
  /\ w.kind = "dir"
  /\ IF X(s) # None THEN X(w) # None /\ SameFile(X(s), X(w)) ELSE X(w) = X(o)

\* Its mode, unless the destination would not take it.
ModeArrived(d, w) == w.mode = src0[d].mode \/ d \in unset

\* Before anything is pruned.
Final(d, w) ==
  LET s == src0[d]
      o == dst0[d]
  IN
  /\ s # Special
  /\ s = Absent => w = o
  /\ s.kind = "link" => w = s
  /\ s.kind = "file" => w.kind = "file" /\ SameFile(s.data, w.data)
  /\ s.kind = "dir" => ModeArrived(d, w) /\ Filled(s, o, w)

\* While it is written.
Stage(d) ==
  LET s == src0[d]
      o == dst0[d]
      w == dst[d]
  IN /\ RootLevel \in ToDo => w = o
     /\ Item("entry", Rel(d)) \in ToDo => s # Absent /\ w = o
     /\ Item("level", Rel(d)) \in ToDo => s.kind = "dir" /\ X(w) = X(o)
     /\ Item("leave", Rel(d)) \in ToDo =>
          /\ s.kind = "dir"
          /\ IF Item("entry", RelIn(d)) \in ToDo THEN X(s) # None /\ X(w) = X(o) ELSE Filled(s, o, w)
     /\ RootLevel \notin ToDo /\ ~Busy(d) => Final(d, w)

StageSound ==
  /\ walk = "list" => dst = dst0
  /\ walk = "write" => \A d \in Top : Clear(d) => Stage(d)
  /\ walk = "look" => \A d \in Top : Clear(d) => Final(d, dst[d])
  /\ walk \in {"list", "write", "look"} =>
       \A d \in Top \ touched : src0[d] = Special => dst[d] = dst0[d]

\* What is about to be pruned has no counterpart.
PruneJust ==
  walk = "prune" =>
    \A d \in Top :
      /\ Item("entry", Rel(d)) \in ToDo =>
           /\ Rel(d) \notin seen /\ (d \in touched \/ src0[d] = Absent)
           /\ ~Hidden(Rel(d), unseen)
      /\ Item("entry", RelIn(d)) \in ToDo =>
           /\ RelIn(d) \notin seen /\ dst[d].kind = "dir" /\ ~Hidden(RelIn(d), unseen)
           /\ d \in touched \/ (X(src0[d]) = None /\ (src0[d].kind = "dir" \/ Root \in skipped))

\* And nothing else remains to be.
Pruning(d) ==
  LET s == src0[d]
      w == dst[d]
  IN /\ s = Special => w = dst0[d]
     /\ s = Absent =>
          IF Hidden(Rel(d), unseen) THEN w = dst0[d] ELSE w = Absent \/ Item("entry", Rel(d)) \in ToDo
     /\ s.kind = "link" => w = s
     /\ s.kind = "file" => w.kind = "file" /\ SameFile(s.data, w.data)
     /\ s.kind = "dir" =>
          /\ w.kind = "dir" /\ ModeArrived(d, w)
          /\ IF X(s) # None THEN X(w) # None /\ SameFile(X(s), X(w))
             ELSE IF Hidden(RelIn(d), unseen) THEN X(w) = X(dst0[d])
             ELSE X(w) = None \/ Item("entry", RelIn(d)) \in ToDo

PruneWhole == walk = "prune" /\ ~failed => \A d \in Top \ touched : Pruning(d)

\* An entry as MirrorsSource promises it.
Arrived(d) ==
  LET s == src0[d] IN
  CASE s = Special -> dst[d] = IF verb.name = "move" THEN s ELSE dst0[d]
    [] s = Absent -> dst[d] = IF Deletes(Rel(d)) THEN Absent ELSE dst0[d]
    [] s.kind = "link" -> dst[d] = s
    [] s.kind = "file" -> dst[d].kind = "file" /\ SameFile(s.data, dst[d].data)
    [] s.kind = "dir" -> dst[d].kind = "dir" /\ Contents(d) /\ ModeArrived(d, dst[d])

ArrivedSound == walk \in {"remove", "done"} => \A d \in Top \ touched : Arrived(d)

MirrorInv ==
  /\ MirrorTyped /\ TodoSound /\ SourceSame /\ FailSound /\ SeenSound /\ WroteSeen
  /\ StageSound /\ PruneJust /\ PruneWhole /\ ArrivedSound /\ NothingLost

-----------------------------------------------------------------------------
(* Names in their order.                                                   *)

LEMMA PlaceOfName ==
  ASSUME NEW d \in Top
  PROVE  Place(d) \in 1..Len(Tops) /\ Tops[Place(d)] = d
<1>1. \E i \in 1..Len(Tops) : Tops[i] = d
  BY DEF Top
<1> QED
  BY <1>1 DEF Place

\* listdir_at() has every name once.
LEMMA SortedNames ==
  ASSUME NEW names \in SUBSET Top
  PROVE  /\ Sorted(names) \in Seq(names)
         /\ \A i, j \in 1..Len(Sorted(names)) : i # j => Sorted(names)[i] # Sorted(names)[j]
         /\ \A d \in names : \E i \in 1..Len(Sorted(names)) : Sorted(names)[i] = d
<1> DEFINE n == Cardinality(names)
           upTo(d) == {e \in names : Place(e) <= Place(d)}
           rank == [d \in names |-> Cardinality(upTo(d))]
           s == Sorted(names)
<1>1. IsFiniteSet(names) /\ n \in Nat
  BY TopFinite, FS_Subset, FS_CardinalityType
<1>2. ASSUME NEW d \in names
      PROVE  /\ d \in upTo(d) /\ upTo(d) \in SUBSET names /\ IsFiniteSet(upTo(d))
             /\ rank[d] = Cardinality(upTo(d)) /\ rank[d] \in 1..n
  <2>1. d \in upTo(d) /\ upTo(d) \in SUBSET names
    BY PlaceOfName
  <2>2. IsFiniteSet(upTo(d)) /\ Cardinality(upTo(d)) <= n
    BY <1>1, <2>1, FS_Subset
  <2>3. Cardinality(upTo(d)) \in Nat /\ Cardinality(upTo(d)) # 0
    BY <2>1, <2>2, FS_CardinalityType, FS_EmptySet
  <2> HIDE DEF upTo, n
  <2>4. Cardinality(upTo(d)) \in 1..n
    BY <1>1, <2>2, <2>3
  <2> QED
    BY <2>1, <2>2, <2>4
<1>3. ASSUME NEW d \in names, NEW e \in names, rank[d] = rank[e]
      PROVE  d = e
  <2>1. Place(d) \in Nat /\ Place(e) \in Nat /\ Tops[Place(d)] = d /\ Tops[Place(e)] = e
    BY PlaceOfName
  <2>2. ASSUME NEW a \in names, NEW b \in names, Place(a) \in Nat, Place(b) \in Nat,
               Place(a) < Place(b), rank[a] = rank[b]
        PROVE  FALSE
    <3>1. upTo(a) \in SUBSET upTo(b) /\ b \notin upTo(a)
      <4>1. \A c \in names : Place(c) \in Nat
        BY PlaceOfName
      <4> QED
        BY <2>2, <4>1
    <3> HIDE DEF upTo, rank
    <3>2. upTo(a) = upTo(b)
      BY <1>2, <2>2, <3>1, FS_Subset
    <3> QED
      BY <1>2, <3>1, <3>2
  <2>3. ~(Place(d) < Place(e)) /\ ~(Place(e) < Place(d))
    BY <1>3, <2>1, <2>2
  <2> QED
    BY <2>1, <2>3
<1>4. rank \in [names -> 1..n]
  <2>1. \A d \in names : rank[d] \in 1..n
    BY <1>2
  <2>2. rank = [d \in names |-> rank[d]]
    OBVIOUS
  <2> HIDE DEF rank
  <2> QED
    BY <2>1, <2>2
<1> HIDE DEF rank, n
<1>5. rank \in Surjection(names, 1..n)
  <2>1. rank \in Injection(names, 1..n)
    BY <1>3, <1>4 DEF Injection, IsInjective
  <2>2. IsFiniteSet(1..n) /\ Cardinality(1..n) = n
    BY <1>1, FS_Interval
  <2> QED
    BY <2>1, <2>2, FS_Injection DEF n
<1>6. ASSUME NEW k \in 1..n
      PROVE  s[k] \in names /\ rank[s[k]] = k
  <2>1. \E d \in names : rank[d] = k
    BY <1>5 DEF Surjection
  <2>2. s[k] = CHOOSE d \in names : Cardinality(upTo(d)) = k
    BY DEF Sorted, n
  <2>3. \E d \in names : Cardinality(upTo(d)) = k
    BY <1>2, <2>1
  <2>4. s[k] \in names /\ Cardinality(upTo(s[k])) = k
    <3> HIDE DEF upTo, s
    <3> QED
      BY <2>2, <2>3
  <2> QED
    BY <1>2, <2>4
<1>7. s \in Seq(names) /\ Len(s) = n
  <2>1. s \in [1..n -> names]
    <3>1. s = [k \in 1..n |-> s[k]]
      BY DEF Sorted, n
    <3> HIDE DEF s
    <3> QED
      BY <1>6, <3>1
  <2> HIDE DEF s
  <2>2. s \in Seq(names)
    BY <1>1, <2>1, SeqDef DEF n
  <2>3. DOMAIN s = 1..n /\ DOMAIN s = 1..Len(s) /\ Len(s) \in Nat
    BY <2>1, <2>2, LenProperties
  <2>4. Len(s) = n
    BY <1>1, <2>3 DEF n
  <2> QED
    BY <2>2, <2>4
<1> HIDE DEF s
<1>8. \A d \in names : \E k \in 1..n : s[k] = d
  BY <1>3, <1>4, <1>6
<1> QED
  BY <1>6, <1>7, <1>8 DEF s

-----------------------------------------------------------------------------
(* What there is to do.                                                    *)

LEMMA ItemTyped ==
  ASSUME NEW act \in {"level", "entry", "leave", "end"}, NEW p \in Paths
  PROVE  Item(act, p) \in Work /\ Item(act, p).act = act /\ Item(act, p).p = p
BY DEF Item, Work

LEMMA RelTyped ==
  ASSUME NEW d \in Top
  PROVE  /\ Rel(d) \in Paths /\ Rel(d).top = d /\ ~Rel(d).x
         /\ RelIn(d) \in Paths /\ RelIn(d).top = d /\ RelIn(d).x
         /\ Rel(d) # RelIn(d) /\ Rel(d) # Root /\ RelIn(d) # Root
BY RootfsAssumption DEF Rel, RelIn, Paths, Root

LEMMA RootTyped == Root \in Paths /\ Root.top = None /\ ~Root.x /\ None \notin Top
BY RootfsAssumption DEF Paths, Root

\* A path is the root, a name, or what is under one.
LEMMA PathKinds ==
  ASSUME NEW p \in Paths, p # Root
  PROVE  p.top \in Top /\ (p = Rel(p.top) \/ p = RelIn(p.top)) /\ (p = RelIn(p.top) <=> p.x)
BY DEF Paths, Rel, RelIn

\* Nothing follows itself.
LEMMA FollowsOnce ==
  ASSUME NEW i, NEW j, Follows(i, j)
  PROVE  i # j /\ i.act = "entry" /\ j.act = "leave" /\ i.p = RelIn(i.p.top) /\ j.p = Rel(i.p.top)
BY DEF Follows, Item

LEMMA FitNone == <<>> \in Seq(Work) /\ Fit(<<>>) /\ Elems(<<>>) = {}
BY DEF Fit, Elems

LEMMA FitOne ==
  ASSUME NEW i \in Work
  PROVE  <<i>> \in Seq(Work) /\ Fit(<<i>>) /\ Elems(<<i>>) = {i}
BY DEF Fit, Elems

\* The first is done.
LEMMA FitTail ==
  ASSUME NEW s \in Seq(Work), s # <<>>, Fit(s)
  PROVE  /\ Tail(s) \in Seq(Work) /\ Fit(Tail(s))
         /\ Head(s) \in Work /\ Head(s) \in Elems(s)
         /\ Elems(Tail(s)) = Elems(s) \ {Head(s)}
         /\ \A i \in Elems(Tail(s)) : Alike(Head(s), i) => Follows(Head(s), i)
<1> DEFINE n == Len(s)
           t == Tail(s)
<1>1. n \in Nat /\ n > 0 /\ 1 \in 1..n /\ Head(s) = s[1] /\ Head(s) \in Work
  BY LenProperties, EmptySeq, HeadTailProperties
<1>2. t \in Seq(Work) /\ Len(t) = n - 1 /\ \A i \in 1..(n - 1) : t[i] = s[i + 1]
  BY HeadTailProperties
<1> HIDE DEF t
<1>3. \A i \in 1..(n - 1) : i + 1 \in 1..n /\ 1 < i + 1
  <2> HIDE DEF n
  <2> QED
    BY <1>1
<1>4. \A i \in Elems(t) : Alike(Head(s), i) => Follows(Head(s), i)
  BY <1>1, <1>2, <1>3 DEF Fit, Elems
<1>5. Fit(t)
  <2> SUFFICES ASSUME NEW i \in 1..(n - 1), NEW j \in 1..(n - 1), i < j, Alike(t[i], t[j])
               PROVE  Follows(t[i], t[j])
    BY <1>2 DEF Fit
  <2>1. i + 1 \in 1..n /\ j + 1 \in 1..n /\ i + 1 < j + 1
    BY <1>3
  <2> QED
    BY <1>2, <2>1 DEF Fit
<1>6. Elems(s) = Elems(t) \cup {Head(s)}
  <2>1. ASSUME NEW i \in 1..n
        PROVE  s[i] \in Elems(t) \cup {Head(s)}
    <3>1. CASE i = 1
      BY <1>1, <3>1
    <3>2. CASE i # 1
      <4>1. i - 1 \in 1..(n - 1) /\ (i - 1) + 1 = i
        BY <1>1, <3>2
      <4> QED
        BY <1>2, <4>1 DEF Elems
    <3> QED
      BY <3>1, <3>2
  <2>2. \A i \in 1..(n - 1) : t[i] \in Elems(s)
    BY <1>2, <1>3 DEF Elems
  <2> QED
    BY <1>1, <1>2, <2>1, <2>2 DEF Elems
<1>7. Head(s) \notin Elems(t)
  BY <1>4, FollowsOnce DEF Alike
<1> QED
  BY <1>1, <1>2, <1>4, <1>5, <1>6, <1>7 DEF t

\* Work on other names is added.
LEMMA FitJoin ==
  ASSUME NEW s \in Seq(Work), NEW t \in Seq(Work), Fit(s), Fit(t),
         \A i \in Elems(s), j \in Elems(t) : Alike(i, j) => Follows(i, j)
  PROVE  s \o t \in Seq(Work) /\ Fit(s \o t) /\ Elems(s \o t) = Elems(s) \cup Elems(t)
<1> DEFINE m == Len(s)
           n == Len(t)
           u == s \o t
<1>1. m \in Nat /\ n \in Nat
  BY LenProperties
<1>2. u \in Seq(Work) /\ Len(u) = m + n
      /\ \A i \in 1..(m + n) : u[i] = IF i <= m THEN s[i] ELSE t[i - m]
  BY ConcatProperties
<1> HIDE DEF u, m, n
<1>3. ASSUME NEW i \in 1..(m + n)
      PROVE  \/ i \in 1..m /\ u[i] = s[i] /\ u[i] \in Elems(s)
             \/ i - m \in 1..n /\ i > m /\ u[i] = t[i - m] /\ u[i] \in Elems(t)
  <2>1. i \in 1..m \/ (i - m \in 1..n /\ i > m)
    BY <1>1
  <2> QED
    BY <1>1, <1>2, <2>1 DEF Elems, m, n
<1>4. Fit(u)
  <2> SUFFICES ASSUME NEW i \in 1..(m + n), NEW j \in 1..(m + n), i < j, Alike(u[i], u[j])
               PROVE  Follows(u[i], u[j])
    BY <1>2 DEF Fit
  <2>1. CASE i \in 1..m /\ j \in 1..m
    <3>1. u[i] = s[i] /\ u[j] = s[j]
      BY <1>1, <1>2, <2>1
    <3> QED
      BY <2>1, <3>1 DEF Fit, m
  <2>2. CASE i > m /\ j > m
    <3>1. i - m \in 1..n /\ j - m \in 1..n /\ i - m < j - m
      BY <1>1, <2>2
    <3>2. u[i] = t[i - m] /\ u[j] = t[j - m]
      BY <1>1, <1>2, <2>2
    <3> QED
      BY <3>1, <3>2 DEF Fit, n
  <2>3. CASE i \in 1..m /\ j > m
    <3>1. u[i] \in Elems(s) /\ u[j] \in Elems(t)
      BY <1>1, <1>3, <2>3
    <3> QED
      BY <3>1
  <2> QED
    BY <1>1, <2>1, <2>2, <2>3
<1>5. Elems(u) = Elems(s) \cup Elems(t)
  <2>1. Elems(u) \subseteq Elems(s) \cup Elems(t)
    BY <1>2, <1>3 DEF Elems
  <2>2. ASSUME NEW i \in 1..m
        PROVE  s[i] \in Elems(u)
    <3>1. i \in 1..(m + n) /\ u[i] = s[i]
      BY <1>1, <1>2
    <3> QED
      BY <1>2, <3>1 DEF Elems
  <2>3. ASSUME NEW i \in 1..n
        PROVE  t[i] \in Elems(u)
    <3>1. m + i \in 1..(m + n) /\ ~(m + i <= m) /\ (m + i) - m = i
      BY <1>1
    <3>2. u[m + i] = t[i]
      BY <1>2, <3>1
    <3> QED
      BY <1>2, <3>1, <3>2 DEF Elems
  <2> QED
    BY <2>1, <2>2, <2>3 DEF Elems, m, n
<1> QED
  BY <1>2, <1>4, <1>5 DEF u

LEMMA FitItems ==
  ASSUME NEW act \in {"level", "entry", "leave", "end"}, NEW names \in SUBSET Top
  PROVE  /\ Items(act, names) \in Seq(Work) /\ Fit(Items(act, names))
         /\ Elems(Items(act, names)) = {Item(act, Rel(d)) : d \in names}
         /\ ItemsIn(act, names) \in Seq(Work) /\ Fit(ItemsIn(act, names))
         /\ Elems(ItemsIn(act, names)) = {Item(act, RelIn(d)) : d \in names}
<1> DEFINE s == Sorted(names)
           n == Len(s)
           items == Items(act, names)
           inner == ItemsIn(act, names)
<1>1. /\ s \in Seq(names) /\ n \in Nat
      /\ \A i, j \in 1..n : i # j => s[i] # s[j]
      /\ \A d \in names : \E i \in 1..n : s[i] = d
      /\ \A i \in 1..n : s[i] \in names /\ s[i] \in Top
  BY SortedNames, LenProperties, ElementOfSeq
<1>2. /\ items = [k \in 1..n |-> Item(act, Rel(s[k]))]
      /\ inner = [k \in 1..n |-> Item(act, RelIn(s[k]))]
  BY DEF Items, ItemsIn
<1> HIDE DEF s, n, items, inner
<1>3. ASSUME NEW k \in 1..n
      PROVE  /\ items[k] = Item(act, Rel(s[k])) /\ items[k] \in Work /\ items[k].p.top = s[k]
             /\ inner[k] = Item(act, RelIn(s[k])) /\ inner[k] \in Work /\ inner[k].p.top = s[k]
  <2>1. items[k] = Item(act, Rel(s[k])) /\ inner[k] = Item(act, RelIn(s[k])) /\ s[k] \in Top
    BY <1>1, <1>2
  <2> QED
    BY <2>1, RelTyped, ItemTyped
<1>4. /\ items \in Seq(Work) /\ Len(items) = n
      /\ inner \in Seq(Work) /\ Len(inner) = n
  <2>1. items \in [1..n -> Work] /\ inner \in [1..n -> Work]
    BY <1>2, <1>3
  <2>2. items \in Seq(Work) /\ inner \in Seq(Work)
    BY <1>1, <2>1, SeqDef
  <2>3. /\ DOMAIN items = 1..n /\ DOMAIN items = 1..Len(items) /\ Len(items) \in Nat
        /\ DOMAIN inner = 1..n /\ DOMAIN inner = 1..Len(inner) /\ Len(inner) \in Nat
    BY <2>1, <2>2, LenProperties
  <2> QED
    BY <1>1, <2>2, <2>3
<1>5. Fit(items) /\ Fit(inner)
  <2>1. \A i, j \in 1..n : i < j => i # j
    BY <1>1
  <2> QED
    BY <1>1, <1>3, <1>4, <2>1 DEF Fit, Alike
<1>6. /\ Elems(items) = {Item(act, Rel(d)) : d \in names}
      /\ Elems(inner) = {Item(act, RelIn(d)) : d \in names}
  <2>1. Elems(items) = {items[i] : i \in 1..n} /\ Elems(inner) = {inner[i] : i \in 1..n}
    BY <1>4 DEF Elems
  <2>2. Elems(items) = {Item(act, Rel(d)) : d \in names}
    BY <1>1, <1>3, <2>1
  <2>3. Elems(inner) = {Item(act, RelIn(d)) : d \in names}
    BY <1>1, <1>3, <2>1
  <2> QED
    BY <2>2, <2>3
<1> QED
  BY <1>4, <1>5, <1>6 DEF items, inner

-----------------------------------------------------------------------------
(* Entries and paths.                                                      *)

LEMMA NoneFacts == None \notin Top /\ None \notin Data
BY RootfsAssumption

LEMMA EntryKinds ==
  ASSUME NEW e \in Entries \cup {Special}
  PROVE  /\ e.kind \in {"absent", "special", "file", "link", "dir"}
         /\ e = Absent <=> e.kind = "absent"
         /\ e = Special <=> e.kind = "special"
         /\ e.kind = "file" => e = File(e.data) /\ e.data \in Data
         /\ e.kind = "dir" => e = Dir(e.mode, e.x) /\ e.mode \in {"plain", "special"} /\ e.x \in Data \cup {None}
         /\ X(e) = IF e.kind = "dir" THEN e.x ELSE None
         /\ X(e) \in Data \cup {None}
<1>1. CASE e \in {Absent, Special}
  BY <1>1 DEF Absent, Special, X
<1>2. CASE e \in {File(v) : v \in Data}
  BY <1>2 DEF Absent, Special, X, File
<1>3. CASE e \in {Link(d) : d \in Top}
  BY <1>3 DEF Absent, Special, X, Link
<1>4. CASE e \in {Dir(m, x) : m \in {"plain", "special"}, x \in Data \cup {None}}
  BY <1>4 DEF Absent, Special, X, Dir
<1> QED
  BY <1>1, <1>2, <1>3, <1>4 DEF Entries

LEMMA EntryMade ==
  /\ Absent \in Entries /\ Absent.kind = "absent" /\ Special.kind = "special" /\ X(Absent) = None
  /\ \A v : File(v).kind = "file" /\ File(v).data = v /\ (v \in Data => File(v) \in Entries)
  /\ \A m \in {"plain", "special"}, x \in Data \cup {None} :
       Dir(m, x) \in Entries /\ Dir(m, x).kind = "dir" /\ Dir(m, x).mode = m /\ Dir(m, x).x = x
       /\ X(Dir(m, x)) = x
<1>1. Absent \in Entries /\ Absent.kind = "absent" /\ Special.kind = "special" /\ X(Absent) = None
  BY DEF Absent, Special, Entries, X
<1>2. \A v : File(v).kind = "file" /\ File(v).data = v
  BY DEF File
<1>3. \A v \in Data : File(v) \in Entries
  BY DEF Entries
<1>4. \A m \in {"plain", "special"}, x \in Data \cup {None} : Dir(m, x) \in Entries
  BY DEF Entries
<1>5. \A m, x : Dir(m, x).kind = "dir" /\ Dir(m, x).mode = m /\ Dir(m, x).x = x /\ X(Dir(m, x)) = x
  BY DEF Dir, X
<1> QED
  BY <1>1, <1>2, <1>3, <1>4, <1>5

LEMMA FoundAt ==
  ASSUME NEW t, NEW d \in Top
  PROVE  /\ Found(t, Rel(d)) = t[d]
         /\ Found(t, RelIn(d)) = IF X(t[d]) = None THEN Absent ELSE File(X(t[d]))
BY NoneFacts DEF Found, Rel, RelIn

LEMMA TreeAt ==
  ASSUME NEW t \in MirrorTree, NEW d \in Top
  PROVE  t[d] \in Entries \cup {Special}
BY DEF MirrorTree

\* A change at one name.
LEMMA TreeWith ==
  ASSUME NEW t \in MirrorTree, NEW d \in Top, NEW e \in Entries \cup {Special}
  PROVE  /\ [t EXCEPT ![d] = e] \in MirrorTree /\ [t EXCEPT ![d] = e][d] = e
         /\ \A c \in Top \ {d} : [t EXCEPT ![d] = e][c] = t[c]
BY DEF MirrorTree

\* Put(), at a name or in a directory.
LEMMA PutAt ==
  ASSUME dst \in MirrorTree, NEW d \in Top, NEW e \in Entries
  PROVE  /\ Put(Rel(d), e) \in MirrorTree /\ Put(Rel(d), e)[d] = e
         /\ \A c \in Top \ {d} : Put(Rel(d), e)[c] = dst[c]
BY TreeWith DEF Put, Rel

LEMMA PutInAt ==
  ASSUME dst \in MirrorTree, NEW d \in Top, dst[d].kind = "dir", NEW v \in Data \cup {None},
         NEW e, e = IF v = None THEN Absent ELSE File(v)
  PROVE  /\ Put(RelIn(d), e) \in MirrorTree
         /\ Put(RelIn(d), e)[d] = Dir(dst[d].mode, v)
         /\ \A c \in Top \ {d} : Put(RelIn(d), e)[c] = dst[c]
<1> DEFINE w == dst[d]
<1>1. w = Dir(w.mode, w.x) /\ w.mode \in {"plain", "special"}
  BY TreeAt, EntryKinds
<1>2. (IF e = Absent THEN None ELSE e.data) = v
  BY EntryMade
<1>3. [w EXCEPT !.x = v] = Dir(w.mode, v)
  BY <1>1 DEF Dir
<1>4. Put(RelIn(d), e) = [dst EXCEPT ![d] = Dir(w.mode, v)]
  <2>1. Put(RelIn(d), e) = [dst EXCEPT ![d].x = IF e = Absent THEN None ELSE e.data]
    BY DEF Put, RelIn
  <2> QED
    BY <1>2, <1>3, <2>1
<1>5. Dir(w.mode, v) \in Entries
  BY <1>1, EntryMade
<1> DEFINE f == Dir(w.mode, v)
<1>6. /\ [dst EXCEPT ![d] = f] \in MirrorTree /\ [dst EXCEPT ![d] = f][d] = f
      /\ \A c \in Top \ {d} : [dst EXCEPT ![d] = f][c] = dst[c]
  <2> HIDE DEF f
  <2> QED
    BY <1>5, TreeWith DEF f
<1> QED
  BY <1>4, <1>6

-----------------------------------------------------------------------------
(* The work in hand.                                                       *)

LEMMA WorkShapes ==
  /\ RootLevel \in Work /\ RootLevel.act = "level" /\ RootLevel.p = Root /\ RootLevel.p.top = None
  /\ \A d \in Top :
       /\ \A act \in {"level", "entry", "leave", "end"} :
            /\ Item(act, Rel(d)) \in Work /\ Item(act, Rel(d)).act = act
            /\ Item(act, Rel(d)).p = Rel(d) /\ Item(act, Rel(d)).p.top = d
            /\ Item(act, RelIn(d)) \in Work /\ Item(act, RelIn(d)).act = act
            /\ Item(act, RelIn(d)).p = RelIn(d) /\ Item(act, RelIn(d)).p.top = d
BY ItemTyped, RelTyped, RootTyped DEF RootLevel

\* What a pass can have to do for a name.
LEMMA WriteShapes ==
  ASSUME NEW i \in WriteWork
  PROVE  /\ i = RootLevel <=> i.p.top \notin Top
         /\ i = RootLevel <=> i.p = Root
         /\ i.p.top \in Top =>
              LET d == i.p.top IN
              i \in {Item("level", Rel(d)), Item("entry", Rel(d)), Item("leave", Rel(d)), Item("entry", RelIn(d))}
<1>1. CASE i = RootLevel
  BY <1>1, WorkShapes, NoneFacts
<1>2. ASSUME NEW d \in Top,
             i \in {Item("level", Rel(d)), Item("entry", Rel(d)), Item("leave", Rel(d)), Item("entry", RelIn(d))}
      PROVE  i.p.top = d /\ i # RootLevel /\ i.p # Root
  BY <1>2, WorkShapes, RelTyped, NoneFacts
<1> QED
  BY <1>1, <1>2, WorkShapes DEF WriteWork, ListWork

\* The first of the work, and the rest of it.
LEMMA NowSound ==
  ASSUME MirrorInv, walk \in {"list", "write", "prune"}, todo # <<>>
  PROVE  /\ todo \in Seq(Work) /\ Tail(todo) \in Seq(Work) /\ Fit(Tail(todo))
         /\ Now \in Work /\ Now \in ToDo
         /\ Elems(Tail(todo)) = ToDo \ {Now}
         /\ \A i \in ToDo \ {Now} : Alike(Now, i) => Follows(Now, i)
<1>1. todo \in Seq(Work) /\ Fit(todo)
  BY DEF MirrorInv, MirrorTyped, TodoSound
<1> QED
  BY <1>1, FitTail DEF Now, ToDo

\* Of a name there is but one thing to do, or what is in it and its mode.
LEMMA OneOfName ==
  ASSUME MirrorInv, walk = "write", NEW i \in ToDo, NEW j \in ToDo, i # j, Alike(i, j)
  PROVE  Follows(i, j) \/ Follows(j, i)
<1>1. todo \in Seq(Work) /\ Fit(todo)
  BY DEF MirrorInv, MirrorTyped, TodoSound
<1>2. PICK a \in 1..Len(todo) : todo[a] = i
  BY DEF ToDo, Elems
<1>3. PICK b \in 1..Len(todo) : todo[b] = j
  BY DEF ToDo, Elems
<1>4. a < b \/ b < a
  BY <1>1, <1>2, <1>3, LenProperties
<1> QED
  BY <1>1, <1>2, <1>3, <1>4 DEF Fit, Alike

-----------------------------------------------------------------------------
(* A step of the second pass at one name.                                  *)

\* The four things there can be to do at a name are four.
LEMMA FourItems ==
  ASSUME NEW d \in Top
  PROVE  /\ Item("level", Rel(d)) # Item("entry", Rel(d)) /\ Item("level", Rel(d)) # Item("leave", Rel(d))
         /\ Item("level", Rel(d)) # Item("entry", RelIn(d)) /\ Item("entry", Rel(d)) # Item("leave", Rel(d))
         /\ Item("entry", Rel(d)) # Item("entry", RelIn(d)) /\ Item("leave", Rel(d)) # Item("entry", RelIn(d))
BY RelTyped DEF Item

\* What is in hand, and what else there is to do at its name.
LEMMA NowAt ==
  ASSUME MirrorInv, walk = "write", todo # <<>>, NEW d \in Top, Now.p.top = d
  PROVE  /\ RootLevel \notin ToDo
         /\ Now \in {Item("level", Rel(d)), Item("entry", Rel(d)), Item("leave", Rel(d)), Item("entry", RelIn(d))}
         /\ Now.p \in {Rel(d), RelIn(d)} /\ Now.p \in Paths /\ Now.p # Root
         /\ \A i \in ToDo \ {Now} :
              i.p.top = d => Now = Item("entry", RelIn(d)) /\ i = Item("leave", Rel(d))
<1>1. ToDo \subseteq WriteWork /\ (RootLevel \in ToDo => ToDo = {RootLevel})
  BY DEF MirrorInv, TodoSound
<1>2. Now \in ToDo /\ Now \in Work /\ \A i \in ToDo \ {Now} : Alike(Now, i) => Follows(Now, i)
  BY NowSound
<1>3. Now # RootLevel
  BY WorkShapes, NoneFacts
<1>4. Now \in {Item("level", Rel(d)), Item("entry", Rel(d)), Item("leave", Rel(d)), Item("entry", RelIn(d))}
  BY <1>1, <1>2, WriteShapes
<1>5. Now.p \in {Rel(d), RelIn(d)}
  BY <1>4, WorkShapes
<1>6. ASSUME NEW i \in ToDo \ {Now}, i.p.top = d
      PROVE  Now = Item("entry", RelIn(d)) /\ i = Item("leave", Rel(d))
  <2>1. Follows(Now, i)
    BY <1>2, <1>6 DEF Alike
  <2> QED
    BY <2>1 DEF Follows
<1> QED
  BY <1>1, <1>2, <1>3, <1>4, <1>5, <1>6, RelTyped

\* What a step at one name leaves of the others.
LEMMA StageElsewhere ==
  ASSUME NEW d \in Top, NEW e \in Top, e # d, Stage(e),
         dst'[e] = dst[e], UNCHANGED <<verb, src0, dst0>>, e \in unset => e \in unset',
         RootLevel \notin ToDo, RootLevel \notin ToDo',
         \A i : i.p.top = e => (i \in ToDo <=> i \in ToDo')
  PROVE  Stage(e)'
<1>1. /\ Item("entry", Rel(e)) \in ToDo <=> Item("entry", Rel(e)) \in ToDo'
      /\ Item("level", Rel(e)) \in ToDo <=> Item("level", Rel(e)) \in ToDo'
      /\ Item("leave", Rel(e)) \in ToDo <=> Item("leave", Rel(e)) \in ToDo'
      /\ Item("entry", RelIn(e)) \in ToDo <=> Item("entry", RelIn(e)) \in ToDo'
  BY WorkShapes
<1>2. Busy(e) <=> Busy(e)'
  BY DEF Busy
<1>3. \A s, o, w : Filled(s, o, w) <=> Filled(s, o, w)'
  BY DEF Filled, SameFile, Syncs
<1>4. \A w : Final(e, w) => Final(e, w)'
  BY <1>3 DEF Final, SameFile, Syncs, ModeArrived
<1> QED
  BY <1>1, <1>2, <1>3, <1>4 DEF Stage

LEMMA WriteStep ==
  ASSUME MirrorInv, MirrorTyped', walk = "write", todo # <<>>, NEW d \in Top, Now.p.top = d,
         UNCHANGED <<verb, walk, src, unread, src0, dst0, touched>>, unset \subseteq unset',
         NEW new, new \subseteq {Item("level", Rel(d)), Item("leave", Rel(d)), Item("entry", RelIn(d))},
         Fit(todo'), ToDo' = (ToDo \ {Now}) \cup new,
         \A c \in Top \ {d} : dst'[c] = dst[c],
         skipped \subseteq skipped', FailSound', SeenSound', WroteSeen',
         Item("entry", RelIn(d)) \in ToDo' => Item("leave", Rel(d)) \in ToDo',
         {Item("level", Rel(d)), Item("leave", Rel(d))} \cap ToDo' # {} => dst'[d].kind = "dir",
         Clear(d)' => Stage(d)',
         d \notin touched /\ src0[d] = Special => dst'[d] = dst[d]
  PROVE  MirrorInv'
<1>1. RootLevel \notin ToDo /\ RootLevel \notin ToDo'
  <2>1. RootLevel \notin new
    BY WorkShapes, NoneFacts
  <2> QED
    BY <2>1, NowAt
<1>2. \A i : i.p.top # d => (i \in ToDo <=> i \in ToDo')
  <2>1. \A i \in new : i.p.top = d
    BY WorkShapes
  <2> QED
    BY <2>1
<1>3. TodoSound'
  <2>1. ToDo' \subseteq WriteWork
    <3>1. new \subseteq WriteWork
      BY DEF WriteWork, ListWork
    <3> QED
      BY <3>1 DEF MirrorInv, TodoSound
  <2>2. ASSUME NEW e \in Top
        PROVE  /\ Item("entry", RelIn(e)) \in ToDo' => Item("leave", Rel(e)) \in ToDo'
               /\ {Item("level", Rel(e)), Item("leave", Rel(e))} \cap ToDo' # {} => dst'[e].kind = "dir"
    <3>1. CASE e = d
      BY <3>1
    <3>2. CASE e # d
      <4>1. /\ Item("level", Rel(e)) \in ToDo <=> Item("level", Rel(e)) \in ToDo'
            /\ Item("leave", Rel(e)) \in ToDo <=> Item("leave", Rel(e)) \in ToDo'
            /\ Item("entry", RelIn(e)) \in ToDo <=> Item("entry", RelIn(e)) \in ToDo'
        BY <1>2, <3>2, WorkShapes
      <4> QED
        BY <3>2, <4>1 DEF MirrorInv, TodoSound
    <3> QED
      BY <3>1, <3>2
  <2> QED
    BY <1>1, <2>1, <2>2 DEF TodoSound
<1>4. SourceSame'
  BY DEF MirrorInv, SourceSame
<1>5. StageSound'
  <2>1. ASSUME NEW e \in Top, Clear(e)'
        PROVE  Stage(e)'
    <3>1. CASE e = d
      BY <2>1, <3>1
    <3>2. CASE e # d
      <4>1. Clear(e)
        BY <2>1 DEF Clear
      <4>2. Stage(e)
        BY <4>1 DEF MirrorInv, StageSound
      <4> QED
        BY <1>1, <1>2, <3>2, <4>2, StageElsewhere
    <3> QED
      BY <3>1, <3>2
  <2>2. \A e \in Top \ touched : src0[e] = Special => dst'[e] = dst0[e]
    BY DEF MirrorInv, StageSound
  <2> QED
    BY <2>1, <2>2 DEF StageSound
<1>6. PruneJust' /\ PruneWhole' /\ ArrivedSound'
  BY DEF PruneJust, PruneWhole, ArrivedSound
<1>7. NothingLost'
  BY DEF MirrorInv, SourceSame, NothingLost
<1> QED
  BY <1>3, <1>4, <1>5, <1>6, <1>7 DEF MirrorInv

-----------------------------------------------------------------------------
(* What fails, and what is left as it is.                                  *)

LEMMA FailNoted ==
  ASSUME MirrorInv, failed', UNCHANGED <<verb, dst0>>
  PROVE  FailSound'
BY DEF MirrorInv, FailSound

LEMMA FailSame ==
  ASSUME MirrorInv, UNCHANGED <<verb, skipped, unread, failed, src0, dst0>>, touched \subseteq touched'
  PROVE  FailSound'
BY DEF MirrorInv, FailSound

\* In the second pass the list only grows by what is there.
LEMMA SeenSame ==
  ASSUME MirrorInv, walk = "write", UNCHANGED <<verb, seen, unread, src0, touched>>, walk' \in {"write", "look"},
         skipped \subseteq skipped', RootLevel \notin ToDo'
  PROVE  SeenSound'
BY DEF MirrorInv, SeenSound, Syncs

LEMMA WroteSame ==
  ASSUME MirrorInv, walk = "write", UNCHANGED <<verb, wrote, seen, walk>>, ToDo' \subseteq ToDo
  PROVE  WroteSeen'
BY DEF MirrorInv, WroteSeen, Syncs

\* An entry failed: it is noted, and nothing more is to be done for it.
LEMMA StepFailed ==
  ASSUME MirrorInv, MirrorTyped', walk = "write", todo # <<>>, NEW d \in Top, Now.p.top = d,
         StepOver, NoteFailure(Now.p),
         UNCHANGED <<verb, walk, src, seen, unread, src0, dst0, touched, wrote, unset, unseen>>,
         \A c \in Top \ {d} : dst'[c] = dst[c], Now.p = RelIn(d) => dst' = dst,
         d \notin touched /\ src0[d] = Special => dst'[d] = dst[d]
  PROVE  MirrorInv'
<1>1. Fit(todo') /\ ToDo' = (ToDo \ {Now}) \cup {}
  BY NowSound DEF StepOver, ToDo
<1>2. /\ skipped \subseteq skipped' /\ failed' /\ Now.p \in skipped'
  BY DEF NoteFailure
<1>3. RootLevel \notin ToDo' /\ ToDo' \subseteq ToDo
  BY <1>1, NowAt
<1>4. FailSound' /\ SeenSound' /\ WroteSeen'
  BY <1>2, <1>3, FailNoted, SeenSame, WroteSame
<1>5. ~Clear(d)'
  <2>1. Now.p \in {Rel(d), RelIn(d)}
    BY NowAt
  <2> QED
    BY <1>2, <2>1 DEF Clear
<1>6. \A i \in ToDo' : i.p.top = d => Now = Item("entry", RelIn(d)) /\ i = Item("leave", Rel(d))
  BY <1>1, NowAt
<1>7. ~(Item("entry", RelIn(d)) \in ToDo')
  BY <1>6, FourItems, WorkShapes
<1>8. {Item("level", Rel(d)), Item("leave", Rel(d))} \cap ToDo' # {} => dst'[d].kind = "dir"
  <2> SUFFICES ASSUME {Item("level", Rel(d)), Item("leave", Rel(d))} \cap ToDo' # {}
               PROVE  dst'[d].kind = "dir"
    OBVIOUS
  <2>1. Now = Item("entry", RelIn(d))
    BY <1>6, WorkShapes
  <2>2. dst' = dst
    BY <2>1, WorkShapes
  <2>3. {Item("level", Rel(d)), Item("leave", Rel(d))} \cap ToDo # {}
    BY <1>3
  <2> QED
    BY <2>2, <2>3 DEF MirrorInv, TodoSound
<1> QED
  BY <1>1, <1>2, <1>4, <1>5, <1>7, <1>8, WriteStep

\* What is typed in every step of a pass.
LEMMA TypedStep ==
  ASSUME MirrorInv, todo' \in Seq(Work), src' \in MirrorTree, dst' \in MirrorTree,
         walk' \in {"list", "write", "look", "prune", "remove", "done", "failed"},
         seen' \subseteq Paths, skipped' \subseteq Paths, wrote' \subseteq Paths, touched' \subseteq Top,
         unread' \in BOOLEAN, failed' \in BOOLEAN, faults' \in 0..MaxFaults, turns' \in 0..MaxTurns,
         unset' \subseteq Top, unseen' \subseteq Paths, UNCHANGED <<verb, src0, dst0>>
  PROVE  MirrorTyped'
BY DEF MirrorInv, MirrorTyped

LEMMA Typed ==
  ASSUME MirrorInv
  PROVE  /\ verb \in [name : {"sync", "syncDelete", "copy", "move"}, checksum : BOOLEAN]
         /\ walk \in {"list", "write", "look", "prune", "remove", "done", "failed"}
         /\ todo \in Seq(Work)
         /\ src \in MirrorTree /\ dst \in MirrorTree /\ src0 \in MirrorTree /\ dst0 \in MirrorTree
         /\ seen \subseteq Paths /\ skipped \subseteq Paths /\ wrote \subseteq Paths /\ touched \subseteq Top
         /\ unread \in BOOLEAN /\ failed \in BOOLEAN
         /\ faults \in 0..MaxFaults /\ turns \in 0..MaxTurns
         /\ unset \subseteq Top /\ unseen \subseteq Paths
BY DEF MirrorInv, MirrorTyped

\* A fault is within its bound.
LEMMA FaultTyped ==
  ASSUME MirrorInv, Fault
  PROVE  faults' \in 0..MaxFaults
BY MirrorAssumption, Typed DEF Fault

\* What a walk has in hand.
LEMMA NowPath ==
  ASSUME MirrorInv, todo # <<>>
  PROVE  Now \in Work /\ Now.p \in Paths /\ Tail(todo) \in Seq(Work) /\ Now \in ToDo
<1>1. todo \in Seq(Work) /\ Now \in Work /\ Tail(todo) \in Seq(Work)
  BY Typed, HeadTailProperties DEF Now
<1>2. Now \in ToDo
  <2>1. Len(todo) \in Nat /\ Len(todo) # 0 /\ Now = todo[1]
    BY <1>1, EmptySeq, LenProperties DEF Now
  <2>2. 1 \in 1..Len(todo)
    BY <2>1
  <2> QED
    BY <2>1, <2>2 DEF ToDo, Elems
<1> QED
  BY <1>1, <1>2 DEF Work

LEMMA NoteTyped ==
  ASSUME MirrorInv, todo # <<>>, NoteFailure(Now.p)
  PROVE  skipped' \subseteq Paths /\ failed' \in BOOLEAN /\ failed' /\ skipped \subseteq skipped' /\ Now.p \in skipped'
BY Typed, NowPath DEF NoteFailure

\* The root, or a name.
LEMMA NowWhere ==
  ASSUME MirrorInv, walk = "write", todo # <<>>
  PROVE  \/ Now = RootLevel /\ Now.p = Root /\ ToDo = {RootLevel}
         \/ Now.p # Root /\ Now.p.top \in Top
<1>1. Now \in WriteWork /\ (Now = RootLevel => ToDo = {RootLevel})
  BY NowPath DEF MirrorInv, TodoSound
<1> QED
  BY <1>1, WriteShapes, WorkShapes, RootTyped

LEMMA EnterLevelFailsKeeps == MirrorInv /\ EnterLevelFails => MirrorInv'
<1> SUFFICES ASSUME MirrorInv, EnterLevelFails
             PROVE  MirrorInv'
  OBVIOUS
<1>1. /\ walk = "write" /\ todo # <<>> /\ Now.act = "level" /\ Fault /\ NoteFailure(Now.p)
      /\ UNCHANGED <<verb, walk, src, dst, seen, unread, turns, src0, dst0, touched, wrote, unset, unseen>>
  BY DEF EnterLevelFails, Doing, trees, history
<1>2. faults' \in 0..MaxFaults /\ skipped' \subseteq Paths /\ failed' \in BOOLEAN /\ failed'
      /\ skipped \subseteq skipped' /\ Now.p \in skipped'
  BY <1>1, FaultTyped, NoteTyped
<1>3. Tail(todo) \in Seq(Work) /\ Fit(Tail(todo)) /\ Elems(Tail(todo)) = ToDo \ {Now} /\ Now \in ToDo
  BY <1>1, NowSound
<1>4. CASE Now.p = Root
  <2>1. Now = RootLevel /\ ToDo = {RootLevel}
    BY <1>1, <1>4, NowWhere
  <2>2. StepOver
    BY <1>4 DEF EnterLevelFails
  <2>3. ToDo' = {} /\ todo' = Tail(todo)
    BY <1>3, <2>1, <2>2 DEF StepOver, ToDo
  <2>4. MirrorTyped'
    BY <1>1, <1>2, <1>3, <2>3, Typed, TypedStep
  <2>5. TodoSound' /\ SourceSame'
    BY <1>1, <1>3, <2>3 DEF MirrorInv, TodoSound, SourceSame
  <2>6. FailSound' /\ SeenSound' /\ WroteSeen'
    BY <1>1, <1>2, <2>1, <2>3, FailNoted, SeenSame, WroteSame
  <2>7. StageSound'
    BY <1>1, <1>2, <1>4 DEF MirrorInv, StageSound, Clear
  <2>8. PruneJust' /\ PruneWhole' /\ ArrivedSound' /\ NothingLost'
    BY <1>1 DEF MirrorInv, PruneJust, PruneWhole, ArrivedSound, NothingLost
  <2> QED
    BY <2>4, <2>5, <2>6, <2>7, <2>8 DEF MirrorInv
<1>5. CASE Now.p # Root
  <2> PICK d \in Top : Now.p.top = d
    BY <1>1, <1>5, NowWhere
  <2>1. d \in Top /\ RootLevel \notin ToDo /\ Now = Item("level", Rel(d)) /\ Now.p = Rel(d)
    <3>2. Now \in {Item("level", Rel(d)), Item("entry", Rel(d)), Item("leave", Rel(d)), Item("entry", RelIn(d))}
          /\ RootLevel \notin ToDo
      BY <1>1, NowAt
    <3> QED
      BY <1>1, <3>2, WorkShapes
  <2>2. CASE StepOver
    <3>1. MirrorTyped'
      BY <1>1, <1>2, <1>3, <2>2, Typed, TypedStep DEF StepOver
    <3> QED
      BY <1>1, <2>1, <2>2, <3>1, StepFailed
  <2>3. CASE todo' = <<Item("leave", Now.p)>> \o Tail(todo)
    <3> DEFINE l == Item("leave", Rel(d))
    <3>1. l \in Work /\ <<l>> \in Seq(Work) /\ Fit(<<l>>) /\ Elems(<<l>>) = {l} /\ l.p.top = d
      BY <2>1, WorkShapes, FitOne
    <3>2. \A i \in ToDo \ {Now} : i.p.top # d
      <4>1. Now # Item("entry", RelIn(d))
        BY <2>1, FourItems
      <4> QED
        BY <1>1, <2>1, <4>1, NowAt
    <3>3. \A i \in Elems(<<l>>), j \in Elems(Tail(todo)) : ~Alike(i, j)
      BY <1>3, <3>1, <3>2 DEF Alike
    <3> HIDE DEF l
    <3>4. todo' = <<l>> \o Tail(todo)
      BY <2>1, <2>3 DEF l
    <3>5. todo' \in Seq(Work) /\ Fit(todo') /\ Elems(todo') = {l} \cup Elems(Tail(todo))
      BY <1>3, <3>1, <3>3, <3>4, FitJoin
    <3>6. ToDo' = (ToDo \ {Now}) \cup {l}
      BY <1>3, <3>5 DEF ToDo
    <3>7. MirrorTyped'
      BY <1>1, <1>2, <3>5, Typed, TypedStep
    <3>8. RootLevel \notin ToDo'
      BY <2>1, <3>1, <3>6, WorkShapes, NoneFacts
    <3>9. FailSound' /\ SeenSound'
      BY <1>1, <1>2, <3>8, FailNoted, SeenSame
    <3>10. WroteSeen'
      <4>1. Syncs => Rel(d) \in seen
        BY <1>1, <1>3, <2>1 DEF MirrorInv, WroteSeen
      <4>2. l.act # "entry"
        BY <2>1, WorkShapes DEF l
      <4> QED
        BY <1>1, <3>1, <3>6, <4>1, <4>2 DEF MirrorInv, WroteSeen, Syncs
    <3>11. dst'[d].kind = "dir"
      BY <1>1, <1>3, <2>1 DEF MirrorInv, TodoSound
    <3>12. Item("entry", RelIn(d)) \notin ToDo'
      <4>1. Item("entry", RelIn(d)) # l
        BY <2>1, FourItems DEF l
      <4> QED
        BY <2>1, <3>2, <3>6, <4>1, WorkShapes
    <3>13. ~Clear(d)'
      BY <1>2, <2>1 DEF Clear
    <3>14. {l} \subseteq {Item("level", Rel(d)), Item("leave", Rel(d)), Item("entry", RelIn(d))}
      BY DEF l
    <3> QED
      BY <1>1, <1>2, <2>1, <3>5, <3>6, <3>7, <3>9, <3>10, <3>11, <3>12, <3>13, <3>14, WriteStep
  <2> QED
    BY <2>2, <2>3 DEF EnterLevelFails
<1> QED
  BY <1>4, <1>5

\* The names of items are the names of the elements.
LEMMA OfElems == \A s : Of(s) = {i.p : i \in Elems(s)}
BY DEF Of, Elems

\* The root's names are listed, and each is to be written.
LEMMA EnterRoot ==
  ASSUME MirrorInv, EnterLevel, Now.p = Root
  PROVE  MirrorInv'
<1> DEFINE there == {d \in Top : src[d] # Absent}
           names == Items("entry", there)
<1>1. /\ walk = "write" /\ todo # <<>>
      /\ UNCHANGED <<verb, walk, src, dst, unread, turns, faults, skipped, failed, src0, dst0, touched, wrote, unset, unseen>>
      /\ todo' = (names \o <<>>) \o Tail(todo) /\ seen' = Saw(names)
  BY DEF EnterLevel, Doing, NoFault, IsDirectory, Names, When, trees, history
<1>2. /\ names \in Seq(Work) /\ Fit(names) /\ Elems(names) = {Item("entry", Rel(d)) : d \in there}
  BY FitItems
<1> HIDE DEF names
<1>3. ToDo = {RootLevel} /\ Now = RootLevel
  BY <1>1, NowWhere
<1>4. Tail(todo) \in Seq(Work) /\ Fit(Tail(todo)) /\ Elems(Tail(todo)) = {}
  BY <1>1, <1>3, NowSound
<1>5. names \o <<>> = names
  BY <1>2, ConcatEmptySeq
<1>6. todo' \in Seq(Work) /\ Fit(todo') /\ ToDo' = {Item("entry", Rel(d)) : d \in there}
  <2>1. \A i \in Elems(names), j \in Elems(Tail(todo)) : Alike(i, j) => Follows(i, j)
    BY <1>4
  <2>2. todo' = names \o Tail(todo)
    BY <1>1, <1>5
  <2> QED
    BY <1>2, <1>4, <2>1, <2>2, FitJoin DEF ToDo
<1>7. /\ \A d \in Top : Item("entry", Rel(d)) \in ToDo' <=> src[d] # Absent
      /\ \A d \in Top : /\ Item("level", Rel(d)) \notin ToDo' /\ Item("leave", Rel(d)) \notin ToDo'
                        /\ Item("entry", RelIn(d)) \notin ToDo'
      /\ RootLevel \notin ToDo'
      /\ \A d \in Top : Busy(d)' <=> src[d] # Absent
      /\ \A i \in ToDo' : i.act = "entry" /\ i.p = Rel(i.p.top) /\ i.p.top \in Top
  <2>1. \A i : i \in ToDo' <=> \E d \in Top : src[d] # Absent /\ i = Item("entry", Rel(d))
    BY <1>6
  <2> HIDE DEF there
  <2>2. \A d \in Top : Item("entry", Rel(d)) \in ToDo' <=> src[d] # Absent
    BY <2>1, WorkShapes
  <2>3. \A d \in Top : /\ Item("level", Rel(d)) \notin ToDo' /\ Item("leave", Rel(d)) \notin ToDo'
    BY <2>1, WorkShapes
  <2>4. \A d \in Top : Item("entry", RelIn(d)) \notin ToDo'
    BY <2>1, WorkShapes, RelTyped
  <2>5. RootLevel \notin ToDo'
    BY <2>1, WorkShapes
  <2>6. \A i \in ToDo' : i.act = "entry" /\ i.p = Rel(i.p.top) /\ i.p.top \in Top
    BY <2>1, WorkShapes
  <2>7. \A d \in Top : Busy(d)' <=> src[d] # Absent
    BY <2>1, WorkShapes DEF Busy
  <2> QED
    BY <2>2, <2>3, <2>4, <2>5, <2>6, <2>7
<1>8. /\ seen' = IF Syncs THEN seen \cup {Rel(d) : d \in there} ELSE seen
      /\ seen \subseteq seen' /\ seen' \subseteq Paths
  <2>1. Of(names) = {Rel(d) : d \in there}
    BY <1>2, OfElems, WorkShapes
  <2> QED
    BY <1>1, <2>1, Typed, RelTyped DEF Saw
<1>9. MirrorTyped'
  BY <1>1, <1>6, <1>8, Typed, TypedStep DEF NoFault
<1>10. TodoSound'
  <2>1. ToDo' \subseteq WriteWork
    BY <1>6 DEF WriteWork
  <2> QED
    BY <1>1, <1>6, <1>7, <2>1 DEF TodoSound
<1>11. SourceSame' /\ \A d \in Top \ touched : src[d] = src0[d]
  BY <1>1 DEF MirrorInv, SourceSame
<1>12. FailSound'
  BY <1>1, FailSame
<1>13. SeenSound'
  <2> SUFFICES ASSUME Syncs
               PROVE  SeenSound'
    BY <1>1 DEF SeenSound, Syncs
  <2>1. \A d \in Top \ touched :
          /\ Rel(d) \in seen' => src0[d] # Absent
          /\ RelIn(d) \in seen' => X(src0[d]) # None
    <3> TAKE d \in Top \ touched
    <3>1. Rel(d) \in seen' => Rel(d) \in seen \/ src[d] # Absent
      BY <1>8, RelTyped
    <3>2. RelIn(d) \in seen' => RelIn(d) \in seen
      BY <1>8, RelTyped
    <3> QED
      BY <1>11, <3>1, <3>2 DEF MirrorInv, SeenSound
  <2>2. ~unread => \A d \in Top \ touched :
           /\ src0[d] # Absent => Rel(d) \in seen
           /\ X(src0[d]) # None => RelIn(d) \in seen \/ Rel(d) \in skipped
    BY <1>1 DEF MirrorInv, SeenSound
  <2> QED
    BY <1>1, <1>8, <2>1, <2>2 DEF SeenSound
<1>14. WroteSeen'
  <2> SUFFICES ASSUME Syncs
               PROVE  WroteSeen'
    BY <1>1 DEF WroteSeen, Syncs
  <2>1. \A p \in wrote : p \in seen /\ Rel(p.top) \in seen
    BY DEF MirrorInv, WroteSeen
  <2>2. \A i \in ToDo' : i.p \in seen' /\ i.p = Rel(i.p.top)
    BY <1>6, <1>7, <1>8, WorkShapes
  <2> QED
    BY <1>1, <1>8, <2>1, <2>2 DEF WroteSeen
<1>15. StageSound'
  <2>1. ASSUME NEW d \in Top, Clear(d)'
        PROVE  Stage(d)'
    <3>1. Clear(d) /\ d \notin touched /\ src[d] = src0[d]
      BY <1>1, <1>11, <2>1 DEF Clear
    <3>2. Stage(d) /\ dst[d] = dst0[d]
      BY <1>1, <1>3, <3>1 DEF MirrorInv, StageSound, Stage
    <3>3. CASE src[d] = Absent
      <4>1. src0[d] = Absent => Final(d, dst0[d])'
        BY <1>1, EntryMade DEF Final
      <4> QED
        BY <1>1, <1>7, <3>1, <3>2, <3>3, <4>1 DEF Stage
    <3>4. CASE src[d] # Absent
      BY <1>1, <1>7, <3>1, <3>2, <3>4 DEF Stage
    <3> QED
      BY <3>3, <3>4
  <2> QED
    BY <1>1, <2>1 DEF MirrorInv, StageSound
<1>16. PruneJust' /\ PruneWhole' /\ ArrivedSound' /\ NothingLost'
  BY <1>1 DEF MirrorInv, PruneJust, PruneWhole, ArrivedSound, NothingLost
<1> QED
  BY <1>9, <1>10, <1>11, <1>12, <1>13, <1>14, <1>15, <1>16 DEF MirrorInv

\* A directory's content is listed, and after it comes the directory's mode.
LEMMA EnterDirectory ==
  ASSUME MirrorInv, EnterLevel, NEW d \in Top, Now.p.top = d,
         IsDirectory(src, Now.p), IsDirectory(dst, Now.p)
  PROVE  MirrorInv'
<1> DEFINE in == Item("entry", RelIn(d))
           l == Item("leave", Rel(d))
           names == When(X(src[d]) # None, in)
           new == IF X(src[d]) # None THEN {in, l} ELSE {l}
<1>1. /\ walk = "write" /\ todo # <<>> /\ Now.act = "level"
      /\ UNCHANGED <<verb, walk, src, dst, unread, turns, faults, skipped, failed, src0, dst0, touched, wrote, unset, unseen>>
  BY DEF EnterLevel, Doing, NoFault, trees, history
<1>2. RootLevel \notin ToDo /\ Now = Item("level", Rel(d)) /\ Now.p = Rel(d)
  <2>1. Now \in {Item("level", Rel(d)), Item("entry", Rel(d)), Item("leave", Rel(d)), Item("entry", RelIn(d))}
        /\ RootLevel \notin ToDo
    BY <1>1, NowAt
  <2> QED
    BY <1>1, <2>1, WorkShapes
<1>3. src[d].kind = "dir" /\ dst[d].kind = "dir"
  BY <1>2, RelTyped DEF IsDirectory
<1>4. todo' = (names \o <<l>>) \o Tail(todo) /\ seen' = Saw(names)
  <2>1. Rel(d) # Root /\ Rel(d).top = d
    BY RelTyped
  <2>2. Names(src, Now.p, "entry") = names
    BY <1>2, <2>1 DEF Names
  <2>3. When(Now.p # Root, Item("leave", Now.p)) = <<l>>
    BY <1>2, <2>1 DEF When
  <2> QED
    BY <2>2, <2>3 DEF EnterLevel
<1>5. /\ l \in Work /\ l.p.top = d /\ l.p = Rel(d) /\ l.act = "leave"
      /\ in \in Work /\ in.p.top = d /\ in.p = RelIn(d) /\ in.act = "entry" /\ in # l
      /\ Follows(in, l)
  BY WorkShapes DEF Follows
<1> HIDE DEF in, l
<1>6. /\ names \in Seq(Work) /\ Fit(names) /\ Elems(names) = IF X(src[d]) # None THEN {in} ELSE {}
  BY <1>5, FitOne, FitNone DEF When
<1>7. <<l>> \in Seq(Work) /\ Fit(<<l>>) /\ Elems(<<l>>) = {l}
  BY <1>5, FitOne
<1> HIDE DEF names
<1>8. /\ names \o <<l>> \in Seq(Work) /\ Fit(names \o <<l>>) /\ Elems(names \o <<l>>) = new
  <2>1. \A i \in Elems(names), j \in Elems(<<l>>) : Alike(i, j) => Follows(i, j)
    BY <1>5, <1>6, <1>7
  <2> QED
    BY <1>6, <1>7, <2>1, FitJoin
<1>9. Tail(todo) \in Seq(Work) /\ Fit(Tail(todo)) /\ Elems(Tail(todo)) = ToDo \ {Now}
      /\ Now \in ToDo /\ \A i \in ToDo \ {Now} : i.p.top # d
  <2>1. Now # in
    BY <1>1, <1>5
  <2> QED
    BY <1>1, <2>1, NowSound, NowAt DEF in
<1>10. todo' \in Seq(Work) /\ Fit(todo') /\ ToDo' = (ToDo \ {Now}) \cup new
  <2> DEFINE first == names \o <<l>>
  <2>1. first \in Seq(Work) /\ Fit(first) /\ Elems(first) = new /\ todo' = first \o Tail(todo)
    BY <1>4, <1>8
  <2>2. \A i \in new : i.p.top = d
    BY <1>5
  <2> HIDE DEF first, new
  <2>3. \A i \in Elems(first), j \in Elems(Tail(todo)) : Alike(i, j) => Follows(i, j)
    BY <1>9, <2>1, <2>2 DEF Alike
  <2>4. /\ first \o Tail(todo) \in Seq(Work) /\ Fit(first \o Tail(todo))
        /\ Elems(first \o Tail(todo)) = new \cup (ToDo \ {Now})
    BY <1>9, <2>1, <2>3, FitJoin
  <2> QED
    BY <2>1, <2>4 DEF ToDo
<1>11. /\ RootLevel \notin ToDo' /\ l \in ToDo' /\ (in \in ToDo' <=> X(src[d]) # None)
       /\ Item("level", Rel(d)) \notin ToDo' /\ Item("entry", Rel(d)) \notin ToDo'
  <2>1. RootLevel # in /\ RootLevel # l
    BY <1>5, WorkShapes, NoneFacts
  <2>2. Item("level", Rel(d)) \notin {in, l} /\ Item("entry", Rel(d)) \notin {in, l}
    BY FourItems DEF in, l
  <2> QED
    BY <1>2, <1>5, <1>9, <1>10, <2>1, <2>2, WorkShapes
<1>12. seen \subseteq seen' /\ seen' \subseteq Paths
       /\ seen' = IF Syncs /\ X(src[d]) # None THEN seen \cup {RelIn(d)} ELSE seen
  <2>1. Of(names) = IF X(src[d]) # None THEN {RelIn(d)} ELSE {}
    BY <1>5, <1>6, OfElems
  <2> QED
    BY <1>4, <2>1, Typed, RelTyped DEF Saw
<1>13. MirrorTyped'
  BY <1>1, <1>10, <1>12, Typed, TypedStep
<1>14. FailSound'
  BY <1>1, FailSame
<1>15. \A c \in Top \ touched : src[c] = src0[c]
  BY <1>1 DEF MirrorInv, SourceSame
<1>16. SeenSound'
  <2> SUFFICES ASSUME Syncs
               PROVE  SeenSound'
    BY <1>1 DEF SeenSound, Syncs
  <2>1. \A c \in Top \ touched :
          /\ Rel(c) \in seen' => src0[c] # Absent
          /\ RelIn(c) \in seen' => X(src0[c]) # None
    <3> TAKE c \in Top \ touched
    <3>1. Rel(c) \in seen' => Rel(c) \in seen
      BY <1>12, RelTyped
    <3>2. RelIn(c) \in seen' => RelIn(c) \in seen \/ (c = d /\ X(src[d]) # None)
      BY <1>12, RelTyped
    <3> QED
      BY <1>15, <3>1, <3>2 DEF MirrorInv, SeenSound
  <2>2. ~unread => \A c \in Top \ touched :
           /\ src0[c] # Absent => Rel(c) \in seen
           /\ X(src0[c]) # None => RelIn(c) \in seen \/ Rel(c) \in skipped
    BY <1>1 DEF MirrorInv, SeenSound
  <2> QED
    BY <1>1, <1>12, <2>1, <2>2 DEF SeenSound
<1>17. WroteSeen'
  <2> SUFFICES ASSUME Syncs
               PROVE  WroteSeen'
    BY <1>1 DEF WroteSeen, Syncs
  <2>1. /\ \A p \in wrote : p \in seen /\ Rel(p.top) \in seen
        /\ \A i \in ToDo : i = RootLevel \/ (Rel(i.p.top) \in seen /\ (i.act = "entry" => i.p \in seen))
    BY <1>1 DEF MirrorInv, WroteSeen
  <2>2. Rel(d) \in seen
    BY <1>2, <1>9, <2>1
  <2>3. in \in ToDo' => RelIn(d) \in seen'
    BY <1>11, <1>12
  <2>4. \A i \in ToDo' : i = RootLevel \/ (Rel(i.p.top) \in seen' /\ (i.act = "entry" => i.p \in seen'))
    BY <1>5, <1>10, <1>12, <2>1, <2>2, <2>3
  <2> QED
    BY <1>1, <1>12, <2>1, <2>4 DEF WroteSeen
<1>18. Clear(d)' => Stage(d)'
  <2> SUFFICES ASSUME Clear(d)'
               PROVE  Stage(d)'
    OBVIOUS
  <2>1. Clear(d) /\ src[d] = src0[d]
    BY <1>1, <1>15 DEF Clear
  <2>2. Stage(d)
    BY <1>1, <2>1 DEF MirrorInv, StageSound
  <2>3. src0[d].kind = "dir" /\ X(dst[d]) = X(dst0[d])
    BY <1>2, <1>9, <2>2 DEF Stage
  <2>4. Busy(d)'
    BY <1>5, <1>11 DEF Busy
  <2>5. X(src0[d]) = None => Filled(src0[d], dst0[d], dst[d])'
    BY <1>1, <1>3, <2>3 DEF Filled
  <2>6. IF Item("entry", RelIn(d)) \in ToDo' THEN X(src0[d]) # None /\ X(dst[d]) = X(dst0[d])
        ELSE Filled(src0[d], dst0[d], dst[d])'
    BY <1>11, <2>1, <2>3, <2>5 DEF in
  <2>7. dst'[d] = dst[d] /\ src0' = src0 /\ dst0' = dst0
    BY <1>1
  <2>8. Filled(src0[d], dst0[d], dst[d])' = Filled(src0[d], dst0[d], dst[d])
    BY <1>1 DEF Filled, SameFile, Syncs
  <2> QED
    BY <1>11, <2>3, <2>4, <2>6, <2>7 DEF Stage
<1>19. new \subseteq {Item("level", Rel(d)), Item("leave", Rel(d)), Item("entry", RelIn(d))}
  BY DEF in, l
<1>20. Item("leave", Rel(d)) \in ToDo' /\ dst'[d].kind = "dir"
  BY <1>1, <1>3, <1>11 DEF l
<1> HIDE DEF new
<1> QED
  BY <1>1, <1>10, <1>13, <1>14, <1>16, <1>17, <1>18, <1>19, <1>20, WriteStep

LEMMA EnterLevelKeeps == MirrorInv /\ EnterLevel => MirrorInv'
<1> SUFFICES ASSUME MirrorInv, EnterLevel
             PROVE  MirrorInv'
  OBVIOUS
<1>1. walk = "write" /\ todo # <<>>
  BY DEF EnterLevel, Doing
<1>2. CASE Now.p = Root
  BY <1>2, EnterRoot
<1>3. CASE Now.p # Root /\ IsDirectory(src, Now.p) /\ IsDirectory(dst, Now.p)
  BY <1>1, <1>3, NowWhere, EnterDirectory
<1>4. CASE Now.p # Root /\ ~(IsDirectory(src, Now.p) /\ IsDirectory(dst, Now.p))
  <2>1. /\ StepOver /\ NoteFailure(Now.p)
        /\ UNCHANGED <<verb, walk, src, dst, seen, unread, turns, faults, src0, dst0, touched, wrote, unset, unseen>>
    BY <1>4 DEF EnterLevel, NoFault, trees, history
  <2>2. MirrorTyped'
    BY <1>1, <2>1, NoteTyped, NowPath, Typed, TypedStep DEF StepOver
  <2>3. PICK d \in Top : Now.p.top = d
    BY <1>1, <1>4, NowWhere
  <2> QED
    BY <1>1, <2>1, <2>2, <2>3, StepFailed
<1> QED
  BY <1>2, <1>3, <1>4 DEF IsDirectory

\* An entry of the root, or of a directory that is there already.
LEMMA NowEntry ==
  ASSUME MirrorInv, walk = "write", todo # <<>>, Now.act = "entry"
  PROVE  \E d \in Top :
           /\ Now.p.top = d /\ Now \in ToDo /\ Now.p # Root
           /\ \/ Now = Item("entry", Rel(d)) /\ Now.p = Rel(d) /\ Found(src, Now.p) = src[d]
                 /\ Found(dst, Now.p) = dst[d]
              \/ /\ Now = Item("entry", RelIn(d)) /\ Now.p = RelIn(d)
                 /\ Found(src, Now.p) = (IF X(src[d]) = None THEN Absent ELSE File(X(src[d])))
                 /\ Found(dst, Now.p) = (IF X(dst[d]) = None THEN Absent ELSE File(X(dst[d])))
                 /\ Item("leave", Rel(d)) \in ToDo /\ dst[d].kind = "dir"
<1>1. Now.p # Root /\ Now.p.top \in Top /\ Now \in ToDo
  BY NowWhere, NowPath, WorkShapes
<1>2. PICK d \in Top : Now.p.top = d
  BY <1>1
<1>3. Now = Item("entry", Rel(d)) \/ Now = Item("entry", RelIn(d))
  BY <1>2, NowAt, WorkShapes
<1>4. Now = Item("entry", RelIn(d)) => Item("leave", Rel(d)) \in ToDo /\ dst[d].kind = "dir"
  BY <1>1 DEF MirrorInv, TodoSound
<1> QED
  BY <1>1, <1>2, <1>3, <1>4, WorkShapes, FoundAt

\* One thing is done, and nothing comes of it.
LEMMA OneDone ==
  ASSUME MirrorInv, walk = "write", todo # <<>>, NEW d \in Top, Now.p.top = d, StepOver
  PROVE  /\ todo' \in Seq(Work) /\ Fit(todo') /\ ToDo' = (ToDo \ {Now}) \cup {}
         /\ ToDo' \subseteq ToDo /\ RootLevel \notin ToDo'
         /\ \A i \in ToDo' : i.p.top = d => Now = Item("entry", RelIn(d)) /\ i = Item("leave", Rel(d))
         /\ Item("level", Rel(d)) \notin ToDo' /\ Item("entry", Rel(d)) \notin ToDo'
         /\ Item("entry", RelIn(d)) \notin ToDo'
<1>1. todo' \in Seq(Work) /\ Fit(todo') /\ ToDo' = (ToDo \ {Now}) \cup {}
  BY NowSound DEF StepOver, ToDo
<1>2. \A i \in ToDo' : i.p.top = d => Now = Item("entry", RelIn(d)) /\ i = Item("leave", Rel(d))
  BY <1>1, NowAt
<1>3. RootLevel \notin ToDo
  BY NowAt
<1>4. /\ Item("level", Rel(d)) \notin ToDo' /\ Item("entry", Rel(d)) \notin ToDo'
      /\ Item("entry", RelIn(d)) \notin ToDo'
  BY <1>2, WorkShapes, FourItems
<1> QED
  BY <1>1, <1>2, <1>3, <1>4

\* A device, a pipe or a socket.
LEMMA SkipKeeps ==
  ASSUME MirrorInv, walk = "write", todo # <<>>, Now.act = "entry", NEW d \in Top, Now.p.top = d,
         Found(src, Now.p) = Special, StepOver, Skip(Now.p),
         UNCHANGED <<verb, walk, src, dst, seen, unread, turns, faults, src0, dst0, touched, wrote, unset, unseen>>
  PROVE  MirrorInv'
<1>1. Now = Item("entry", Rel(d)) /\ Now.p = Rel(d) /\ src[d] = Special
  BY NowEntry, EntryMade
<1>2. /\ todo' \in Seq(Work) /\ Fit(todo') /\ ToDo' = (ToDo \ {Now}) \cup {}
      /\ ToDo' \subseteq ToDo /\ RootLevel \notin ToDo'
      /\ Item("level", Rel(d)) \notin ToDo' /\ Item("entry", RelIn(d)) \notin ToDo'
      /\ Item("leave", Rel(d)) \notin ToDo'
  <2>1. Now # Item("entry", RelIn(d))
    BY <1>1, FourItems
  <2> QED
    BY <2>1, OneDone, WorkShapes
<1>3. skipped' = skipped \cup {Rel(d)} /\ failed' = (failed \/ verb.name = "move")
  BY <1>1 DEF Skip
<1>4. MirrorTyped'
  <2>1. skipped' \subseteq Paths /\ failed' \in BOOLEAN
    BY <1>3, Typed, RelTyped
  <2> QED
    BY <1>2, <2>1, Typed, TypedStep
<1>5. FailSound'
  <2>1. d \in touched \/ src0[d] = Special
    BY <1>1 DEF MirrorInv, SourceSame
  <2> QED
    BY <1>3, <2>1, RelTyped DEF MirrorInv, FailSound
<1>6. SeenSound' /\ WroteSeen'
  BY <1>2, <1>3, SeenSame, WroteSame
<1>7. ~Clear(d)'
  BY <1>3 DEF Clear
<1> QED
  BY <1>2, <1>3, <1>4, <1>5, <1>6, <1>7, WriteStep

\* A file in a directory is written.
LEMMA WriteInside ==
  ASSUME MirrorInv, walk = "write", todo # <<>>, NEW d \in Top, Now = Item("entry", RelIn(d)),
         Found(src, Now.p) # Absent, StepOver,
         dst' = Written(Now.p, Found(src, Now.p)), wrote' = wrote \cup {Now.p},
         UNCHANGED <<verb, walk, src, seen, skipped, failed, unread, turns, faults, src0, dst0, touched, unset, unseen>>
  PROVE  MirrorInv'
<1> DEFINE v == X(src[d])
<1>1. Now.p = RelIn(d) /\ Now.act = "entry" /\ Now.p.top = d /\ Now \in ToDo
  BY NowPath, WorkShapes
<1>2. /\ v # None /\ Found(src, Now.p) = File(v) /\ v \in Data /\ dst[d].kind = "dir"
      /\ Found(dst, Now.p) = (IF X(dst[d]) = None THEN Absent ELSE File(X(dst[d])))
      /\ Item("leave", Rel(d)) \in ToDo
  <2>1. Now # Item("entry", Rel(d))
    BY FourItems
  <2>2. v \in Data \cup {None}
    BY Typed, TreeAt, EntryKinds
  <2> QED
    BY <1>1, <2>1, <2>2, NowEntry
<1> HIDE DEF v
<1>3. dst' = MadeFile(RelIn(d), File(v))
  BY <1>1, <1>2, EntryMade DEF Written
<1>4. /\ dst' \in MirrorTree /\ \A c \in Top \ {d} : dst'[c] = dst[c]
      /\ dst'[d].kind = "dir" /\ X(dst'[d]) # None /\ SameFile(v, X(dst'[d]))
  <2>1. CASE Syncs /\ ~NeedsUpdate(RelIn(d))
    <3>1. dst' = dst
      BY <1>3, <2>1 DEF MadeFile
    <3>2. X(dst[d]) # None /\ (X(dst[d]) # v => ~(verb.checksum \/ Stamp[X(dst[d])] # Stamp[v]))
      BY <1>1, <1>2, <2>1, EntryMade DEF NeedsUpdate
    <3>3. SameFile(v, X(dst[d]))
      BY <2>1, <3>2 DEF SameFile
    <3> QED
      BY <1>2, <3>1, <3>2, <3>3, Typed
  <2>2. CASE ~(Syncs /\ ~NeedsUpdate(RelIn(d)))
    <3>1. dst' = Put(RelIn(d), File(v))
      BY <1>3, <2>2 DEF MadeFile
    <3> DEFINE e == IF v = None THEN Absent ELSE File(v)
    <3>2. /\ Put(RelIn(d), e) \in MirrorTree /\ Put(RelIn(d), e)[d] = Dir(dst[d].mode, v)
          /\ \A c \in Top \ {d} : Put(RelIn(d), e)[c] = dst[c]
      BY <1>2, Typed, PutInAt
    <3>3. e = File(v)
      BY <1>2
    <3> HIDE DEF e
    <3>4. dst'[d] = Dir(dst[d].mode, v)
      BY <3>1, <3>2, <3>3
    <3>5. dst[d].mode \in {"plain", "special"}
      BY <1>2, Typed, TreeAt, EntryKinds
    <3>6. dst'[d].kind = "dir" /\ X(dst'[d]) = v
      BY <1>2, <3>4, <3>5, EntryMade
    <3> QED
      BY <1>2, <3>1, <3>2, <3>3, <3>6 DEF SameFile
  <2> QED
    BY <2>1, <2>2
<1>5. /\ todo' \in Seq(Work) /\ Fit(todo') /\ ToDo' = (ToDo \ {Now}) \cup {}
      /\ ToDo' \subseteq ToDo /\ RootLevel \notin ToDo'
      /\ Item("level", Rel(d)) \notin ToDo' /\ Item("entry", RelIn(d)) \notin ToDo'
      /\ Item("entry", Rel(d)) \notin ToDo'
  BY <1>1, OneDone
<1>6. Item("leave", Rel(d)) \in ToDo'
  BY <1>2, <1>5, FourItems
<1>7. MirrorTyped'
  <2>1. wrote' \subseteq Paths
    BY <1>1, Typed, RelTyped
  <2> QED
    BY <1>4, <1>5, <2>1, Typed, TypedStep
<1>8. FailSound' /\ SeenSound'
  BY <1>5, FailSame, SeenSame
<1>9. WroteSeen'
  <2> SUFFICES ASSUME Syncs
               PROVE  WroteSeen'
    BY DEF WroteSeen, Syncs
  <2>1. Now.p \in seen /\ Rel(Now.p.top) \in seen
    <3>1. Now # RootLevel
      BY <1>1, WorkShapes
    <3> QED
      BY <1>1, <3>1 DEF MirrorInv, WroteSeen
  <2> QED
    BY <1>5, <2>1 DEF MirrorInv, WroteSeen
<1>10. Clear(d)' => Stage(d)'
  <2> SUFFICES ASSUME Clear(d)'
               PROVE  Stage(d)'
    OBVIOUS
  <2>1. Clear(d) /\ src[d] = src0[d]
    BY DEF Clear, MirrorInv, SourceSame
  <2>2. Stage(d)
    BY <2>1 DEF MirrorInv, StageSound
  <2>3. src0[d].kind = "dir" /\ X(src0[d]) # None
    BY <1>1, <1>2, <2>2 DEF Stage
  <2>4. Filled(src0[d], dst0[d], dst'[d])
    BY <1>4, <2>1, <2>3 DEF Filled, v
  <2>5. Filled(src0[d], dst0[d], dst[d])' <=> Filled(src0[d], dst0[d], dst'[d])
    BY DEF Filled, SameFile, Syncs
  <2>6. Busy(d)'
    BY <1>6, WorkShapes DEF Busy
  <2> QED
    BY <1>5, <2>3, <2>4, <2>5, <2>6 DEF Stage
<1>11. d \notin touched /\ src0[d] = Special => dst'[d] = dst[d]
  <2>1. src[d] # Special
    BY <1>2, EntryMade DEF v, X
  <2> QED
    BY <2>1 DEF MirrorInv, SourceSame
<1> QED
  BY <1>1, <1>4, <1>5, <1>6, <1>7, <1>8, <1>9, <1>10, <1>11, WriteStep

\* What a written entry becomes.
LEMMA WrittenTop ==
  ASSUME MirrorInv, NEW d \in Top, NEW e \in Entries, e # Absent, e = src[d]
  PROVE  /\ Written(Rel(d), e) \in MirrorTree /\ \A c \in Top \ {d} : Written(Rel(d), e)[c] = dst[c]
         /\ e.kind = "dir" => /\ Written(Rel(d), e)[d].kind = "dir"
                              /\ X(Written(Rel(d), e)[d]) = X(dst[d])
         /\ e.kind = "link" => Written(Rel(d), e)[d] = e
         /\ e.kind = "file" => /\ Written(Rel(d), e)[d].kind = "file"
                               /\ SameFile(e.data, Written(Rel(d), e)[d].data)
<1>1. Found(src, Rel(d)) = e /\ Found(dst, Rel(d)) = dst[d] /\ dst \in MirrorTree
  BY Typed, FoundAt
<1>2. e.kind \in {"dir", "link", "file"}
  BY EntryKinds, EntryMade DEF Entries, Absent, File, Link, Dir
<1>3. CASE e.kind = "dir"
  <2>1. Written(Rel(d), e) = MadeDir(Rel(d))
    BY <1>3 DEF Written
  <2>2. CASE dst[d].kind = "dir"
    BY <1>1, <1>3, <2>1, <2>2 DEF MadeDir
  <2>3. CASE dst[d].kind # "dir"
    <3> DEFINE f == Dir("special", None)
    <3>1. f \in Entries /\ f.kind = "dir" /\ X(f) = None
      BY EntryMade
    <3>2. X(dst[d]) = None
      BY <2>3 DEF X
    <3>3. Written(Rel(d), e) = Put(Rel(d), f)
      BY <1>1, <2>1, <2>3 DEF MadeDir
    <3> HIDE DEF f
    <3> QED
      BY <1>1, <1>3, <3>1, <3>2, <3>3, PutAt
  <2> QED
    BY <2>2, <2>3
<1>4. CASE e.kind = "link"
  <2>1. Written(Rel(d), e) = Put(Rel(d), e)
    BY <1>4 DEF Written, MadeLink
  <2> QED
    BY <1>1, <1>4, <2>1, PutAt
<1>5. CASE e.kind = "file"
  <2>1. Written(Rel(d), e) = MadeFile(Rel(d), e)
    BY <1>5 DEF Written
  <2>2. CASE Syncs /\ ~NeedsUpdate(Rel(d))
    <3>1. Written(Rel(d), e) = dst
      BY <2>1, <2>2 DEF MadeFile
    <3>2. /\ dst[d].kind = "file"
          /\ dst[d].data # e.data => ~(verb.checksum \/ Stamp[dst[d].data] # Stamp[e.data])
      BY <1>1, <2>2 DEF NeedsUpdate
    <3>3. SameFile(e.data, dst[d].data)
      BY <2>2, <3>2 DEF SameFile
    <3> QED
      BY <1>1, <1>5, <3>1, <3>2, <3>3
  <2>3. CASE ~(Syncs /\ ~NeedsUpdate(Rel(d)))
    <3>1. Written(Rel(d), e) = Put(Rel(d), e)
      BY <2>1, <2>3 DEF MadeFile
    <3>2. SameFile(e.data, e.data)
      BY DEF SameFile
    <3> QED
      BY <1>1, <1>5, <3>1, <3>2, PutAt
  <2> QED
    BY <2>2, <2>3
<1> QED
  BY <1>2, <1>3, <1>4, <1>5

\* An entry of the root is written; what is in a directory comes after it.
LEMMA WriteTop ==
  ASSUME MirrorInv, walk = "write", todo # <<>>, NEW d \in Top, Now = Item("entry", Rel(d)),
         src[d] \notin {Absent, Special},
         dst' = Written(Rel(d), src[d]), wrote' = wrote \cup {Rel(d)},
         IF src[d].kind = "dir" THEN todo' = Below(<<Item("level", Rel(d))>>) ELSE StepOver,
         UNCHANGED <<verb, walk, src, seen, skipped, failed, unread, turns, faults, src0, dst0, touched, unset, unseen>>
  PROVE  MirrorInv'
<1> DEFINE l == Item("level", Rel(d))
           new == IF src[d].kind = "dir" THEN {l} ELSE {}
<1>1. Now.p = Rel(d) /\ Now.act = "entry" /\ Now.p.top = d /\ Now \in ToDo
  BY NowPath, WorkShapes
<1>2. src[d] \in Entries
  BY Typed, TreeAt
<1>3. /\ dst' \in MirrorTree /\ \A c \in Top \ {d} : dst'[c] = dst[c]
      /\ src[d].kind = "dir" => dst'[d].kind = "dir" /\ X(dst'[d]) = X(dst[d])
      /\ src[d].kind = "link" => dst'[d] = src[d]
      /\ src[d].kind = "file" => dst'[d].kind = "file" /\ SameFile(src[d].data, dst'[d].data)
  BY <1>2, WrittenTop
<1>4. /\ Tail(todo) \in Seq(Work) /\ Fit(Tail(todo)) /\ Elems(Tail(todo)) = ToDo \ {Now}
      /\ RootLevel \notin ToDo /\ \A i \in ToDo \ {Now} : i.p.top # d
  <2>1. Now # Item("entry", RelIn(d))
    BY FourItems
  <2> QED
    BY <1>1, <2>1, NowSound, NowAt
<1>5. l \in Work /\ <<l>> \in Seq(Work) /\ Fit(<<l>>) /\ Elems(<<l>>) = {l} /\ l.p.top = d /\ l.act = "level"
  BY WorkShapes, FitOne
<1>6. todo' \in Seq(Work) /\ Fit(todo') /\ ToDo' = (ToDo \ {Now}) \cup new
  <2>1. CASE src[d].kind = "dir"
    <3>1. \A i \in Elems(<<l>>), j \in Elems(Tail(todo)) : ~Alike(i, j) /\ ~Alike(j, i)
      BY <1>4, <1>5 DEF Alike
    <3>2. todo' = <<l>> \o Tail(todo) \/ todo' = Tail(todo) \o <<l>>
      BY <2>1 DEF Below
    <3> HIDE DEF l
    <3>3. todo' \in Seq(Work) /\ Fit(todo') /\ Elems(todo') = {l} \cup Elems(Tail(todo))
      <4>1. CASE todo' = <<l>> \o Tail(todo)
        BY <1>4, <1>5, <3>1, <4>1, FitJoin
      <4>2. CASE todo' = Tail(todo) \o <<l>>
        <5> DEFINE s == Tail(todo)
                   t == <<l>>
        <5>1. /\ s \in Seq(Work) /\ t \in Seq(Work) /\ Fit(s) /\ Fit(t) /\ Elems(t) = {l}
              /\ \A i \in Elems(s), j \in Elems(t) : Alike(i, j) => Follows(i, j)
          BY <1>4, <1>5, <3>1
        <5> HIDE DEF s, t
        <5>2. s \o t \in Seq(Work) /\ Fit(s \o t) /\ Elems(s \o t) = Elems(s) \cup {l}
          BY <5>1, FitJoin
        <5> QED
          BY <4>2, <5>2 DEF s, t
      <4> QED
        BY <3>2, <4>1, <4>2
    <3> QED
      BY <1>4, <2>1, <3>3 DEF ToDo
  <2>2. CASE src[d].kind # "dir"
    BY <1>4, <2>2 DEF StepOver, ToDo
  <2> QED
    BY <2>1, <2>2
<1>7. /\ RootLevel \notin ToDo' /\ (l \in ToDo' <=> src[d].kind = "dir") /\ Item("entry", Rel(d)) \notin ToDo'
      /\ Item("leave", Rel(d)) \notin ToDo' /\ Item("entry", RelIn(d)) \notin ToDo'
      /\ (Busy(d)' <=> src[d].kind = "dir")
  <2>1. RootLevel # l
    BY WorkShapes, NoneFacts
  <2>2. \A i \in ToDo' : i.p.top = d => i = l /\ src[d].kind = "dir"
    BY <1>4, <1>6
  <2>3. src[d].kind = "dir" => l \in ToDo'
    BY <1>6
  <2>4. l # Item("entry", Rel(d)) /\ l # Item("leave", Rel(d)) /\ l # Item("entry", RelIn(d))
    BY FourItems
  <2>5. RootLevel \notin ToDo'
    BY <1>4, <1>6, <2>1
  <2> HIDE DEF l
  <2>6. Busy(d)' <=> src[d].kind = "dir"
    BY <1>5, <2>2, <2>3 DEF Busy
  <2> QED
    BY <1>5, <2>2, <2>3, <2>4, <2>5, <2>6, WorkShapes
<1>8. MirrorTyped'
  <2>1. wrote' \subseteq Paths
    BY Typed, RelTyped
  <2> QED
    BY <1>3, <1>6, <2>1, Typed, TypedStep
<1>9. FailSound' /\ SeenSound'
  BY <1>7, FailSame, SeenSame
<1>10. WroteSeen'
  <2> SUFFICES ASSUME Syncs
               PROVE  WroteSeen'
    BY DEF WroteSeen, Syncs
  <2>1. Rel(d) \in seen
    <3>1. Now # RootLevel
      BY <1>1, WorkShapes
    <3> QED
      BY <1>1, <3>1 DEF MirrorInv, WroteSeen
  <2>2. \A i \in ToDo' : i \in ToDo \/ i = l
    BY <1>6
  <2>3. \A i \in ToDo' : i = RootLevel \/ (Rel(i.p.top) \in seen /\ (i.act = "entry" => i.p \in seen))
    <3> HIDE DEF l
    <3> QED
      BY <1>5, <2>1, <2>2 DEF MirrorInv, WroteSeen
  <2>4. \A p \in wrote' : p \in seen /\ Rel(p.top) \in seen
    BY <1>1, <2>1 DEF MirrorInv, WroteSeen
  <2> QED
    BY <2>3, <2>4 DEF WroteSeen
<1>11. Clear(d)' => Stage(d)'
  <2> SUFFICES ASSUME Clear(d)'
               PROVE  Stage(d)'
    OBVIOUS
  <2>1. Clear(d) /\ src[d] = src0[d]
    BY DEF Clear, MirrorInv, SourceSame
  <2>2. Stage(d)
    BY <2>1 DEF MirrorInv, StageSound
  <2>3. dst[d] = dst0[d]
    BY <1>1, <2>2 DEF Stage
  <2>4. src0[d].kind # "dir" => Final(d, dst'[d])
    BY <1>3, <2>1 DEF Final
  <2>5. Final(d, dst[d])' <=> Final(d, dst'[d])
    BY DEF Final, Filled, SameFile, Syncs, ModeArrived
  <2> QED
    BY <1>3, <1>7, <2>1, <2>3, <2>4, <2>5 DEF Stage
<1>12. d \notin touched /\ src0[d] = Special => dst'[d] = dst[d]
  BY DEF MirrorInv, SourceSame
<1>13. new \subseteq {Item("level", Rel(d)), Item("leave", Rel(d)), Item("entry", RelIn(d))}
  OBVIOUS
<1>14. /\ Item("entry", RelIn(d)) \in ToDo' => Item("leave", Rel(d)) \in ToDo'
       /\ {Item("level", Rel(d)), Item("leave", Rel(d))} \cap ToDo' # {} => dst'[d].kind = "dir"
  BY <1>3, <1>7
<1> HIDE DEF new
<1> QED
  BY <1>1, <1>3, <1>6, <1>8, <1>9, <1>10, <1>11, <1>12, <1>13, <1>14, WriteStep

LEMMA WriteEntryKeeps == MirrorInv /\ WriteEntry => MirrorInv'
<1> SUFFICES ASSUME MirrorInv, WriteEntry
             PROVE  MirrorInv'
  OBVIOUS
<1> DEFINE e == Found(src, Now.p)
<1>1. /\ walk = "write" /\ todo # <<>> /\ Now.act = "entry"
      /\ UNCHANGED <<verb, walk, src, seen, unread, turns, faults, src0, dst0, touched, unset, unseen>>
  BY DEF WriteEntry, Doing, NoFault
<1>2. PICK d \in Top :
        /\ Now.p.top = d /\ Now \in ToDo /\ Now.p # Root
        /\ \/ Now = Item("entry", Rel(d)) /\ Now.p = Rel(d) /\ Found(src, Now.p) = src[d]
           \/ Now = Item("entry", RelIn(d)) /\ Now.p = RelIn(d)
              /\ Found(src, Now.p) = (IF X(src[d]) = None THEN Absent ELSE File(X(src[d])))
  BY <1>1, NowEntry
<1>3. ASSUME StepOver, NoteFailure(Now.p), UNCHANGED <<dst, wrote>>
      PROVE  MirrorInv'
  <2>1. MirrorTyped'
    BY <1>1, <1>3, NoteTyped, NowPath, Typed, TypedStep DEF StepOver
  <2> QED
    BY <1>1, <1>2, <1>3, <2>1, StepFailed
<1>4. CASE e = Absent
  <2>1. e # Special
    BY <1>4, EntryMade
  <2>2. StepOver /\ NoteFailure(Now.p) /\ UNCHANGED <<dst, wrote>>
    BY <1>4, <2>1 DEF WriteEntry
  <2> QED
    BY <1>3, <2>2
<1>5. CASE e = Special
  <2>1. e # Absent
    BY <1>5, EntryMade
  <2>2. StepOver /\ Skip(Now.p) /\ UNCHANGED <<dst, wrote>>
    BY <1>5, <2>1 DEF WriteEntry
  <2> QED
    BY <1>1, <1>2, <1>5, <2>2, SkipKeeps
<1>6. CASE e \notin {Absent, Special} /\ ~Replaces(e, Found(dst, Now.p))
  <2>1. StepOver /\ NoteFailure(Now.p) /\ UNCHANGED <<dst, wrote>>
    <3>1. e # Absent /\ e # Special /\ ~Replaces(e, Found(dst, Now.p))
      BY <1>6
    <3> QED
      BY <3>1, Zenon DEF WriteEntry
  <2> QED
    BY <1>3, <2>1
<1>7. CASE e \notin {Absent, Special} /\ Replaces(e, Found(dst, Now.p))
  <2>1. /\ dst' = Written(Now.p, e) /\ wrote' = wrote \cup {Now.p}
        /\ IF e.kind = "dir" THEN todo' = Below(<<Item("level", Now.p)>>) ELSE StepOver
        /\ UNCHANGED <<skipped, failed>>
    BY <1>7 DEF WriteEntry
  <2>2. CASE Now = Item("entry", Rel(d)) /\ Now.p = Rel(d) /\ Found(src, Now.p) = src[d]
    <3>1. src[d] \notin {Absent, Special}
      BY <1>7, <2>2
    <3>2. dst' = Written(Rel(d), src[d]) /\ wrote' = wrote \cup {Rel(d)}
      BY <2>1, <2>2
    <3>3. IF src[d].kind = "dir" THEN todo' = Below(<<Item("level", Rel(d))>>) ELSE StepOver
      BY <2>1, <2>2
    <3> QED
      BY <1>1, <2>1, <2>2, <3>1, <3>2, <3>3, WriteTop
  <2>3. CASE Now = Item("entry", RelIn(d)) /\ Now.p = RelIn(d)
             /\ Found(src, Now.p) = (IF X(src[d]) = None THEN Absent ELSE File(X(src[d])))
    <3>1. e.kind # "dir"
      BY <1>7, <2>3, EntryMade
    <3> QED
      BY <1>1, <1>7, <2>1, <2>3, <3>1, WriteInside
  <2> QED
    BY <1>2, <2>2, <2>3
<1> QED
  BY <1>4, <1>5, <1>6, <1>7

LEMMA WriteEntryFailsKeeps == MirrorInv /\ WriteEntryFails => MirrorInv'
<1> SUFFICES ASSUME MirrorInv, WriteEntryFails
             PROVE  MirrorInv'
  OBVIOUS
<1>1. /\ walk = "write" /\ todo # <<>> /\ Now.act = "entry" /\ Fault /\ StepOver /\ NoteFailure(Now.p)
      /\ UNCHANGED <<verb, walk, src, seen, unread, turns, src0, dst0, touched, wrote, unset, unseen>>
      /\ \/ UNCHANGED dst
         \/ Found(src, Now.p).kind \in {"dir", "link"} /\ dst' = Put(Now.p, Absent)
  BY DEF WriteEntryFails, Doing, history
<1>2. PICK d \in Top :
        /\ Now.p.top = d
        /\ \/ Now = Item("entry", Rel(d)) /\ Now.p = Rel(d) /\ Found(src, Now.p) = src[d]
           \/ Now = Item("entry", RelIn(d)) /\ Now.p = RelIn(d)
              /\ Found(src, Now.p) = (IF X(src[d]) = None THEN Absent ELSE File(X(src[d])))
  BY <1>1, NowEntry
<1>3. \/ dst' = dst
      \/ /\ Now.p = Rel(d) /\ src[d].kind \in {"dir", "link"} /\ dst' = Put(Rel(d), Absent)
  <2>1. Now.p = RelIn(d) => Found(src, Now.p).kind \notin {"dir", "link"}
    BY <1>2, RelTyped, EntryMade
  <2> QED
    BY <1>1, <1>2, <2>1
<1>4. dst' \in MirrorTree /\ \A c \in Top \ {d} : dst'[c] = dst[c]
  BY <1>3, Typed, PutAt, EntryMade
<1>5. Now.p = RelIn(d) => dst' = dst
  BY <1>3, RelTyped
<1>6. d \notin touched /\ src0[d] = Special => dst'[d] = dst[d]
  <2>1. d \notin touched => src[d] = src0[d]
    BY <1>1 DEF MirrorInv, SourceSame
  <2> QED
    BY <1>3, <2>1, EntryMade
<1>7. MirrorTyped'
  BY <1>1, <1>4, FaultTyped, NoteTyped, NowPath, Typed, TypedStep DEF StepOver
<1> QED
  BY <1>1, <1>2, <1>4, <1>5, <1>6, <1>7, StepFailed

\* The directory has its content, and gets its mode.
LEMMA LeaveLevelKeeps == MirrorInv /\ LeaveLevel => MirrorInv'
<1> SUFFICES ASSUME MirrorInv, LeaveLevel
             PROVE  MirrorInv'
  OBVIOUS
<1>1. /\ walk = "write" /\ todo # <<>> /\ Now.act = "leave" /\ StepOver
      /\ UNCHANGED <<verb, walk, src, seen, skipped, failed, unread, turns, src0, dst0, touched, wrote, unseen>>
      /\ faults' \in 0..MaxFaults
  BY FaultTyped, Typed DEF LeaveLevel, Doing, NoFault, notes
<1>2. PICK d \in Top : Now.p.top = d
  BY <1>1, NowWhere, WorkShapes
<1>3. Now = Item("leave", Rel(d)) /\ Now.p = Rel(d) /\ Now \in ToDo
  <2>1. Now \in {Item("level", Rel(d)), Item("entry", Rel(d)), Item("leave", Rel(d)), Item("entry", RelIn(d))}
    BY <1>1, <1>2, NowAt
  <2> QED
    BY <1>1, <2>1, NowPath, WorkShapes
<1>4. dst[d].kind = "dir"
  BY <1>1, <1>3 DEF MirrorInv, TodoSound
<1>5. \/ /\ dst' = IF src[d].kind = "dir" THEN [dst EXCEPT ![d].mode = src[d].mode] ELSE dst
         /\ unset' = unset
      \/ dst' = dst /\ unset' = unset \cup {d}
  <2>1. IsDirectory(src, Now.p) <=> src[d].kind = "dir"
    BY <1>2, <1>3, RelTyped DEF IsDirectory
  <2> QED
    BY <1>2, <2>1 DEF LeaveLevel
<1>6. /\ dst' \in MirrorTree /\ \A c \in Top \ {d} : dst'[c] = dst[c]
      /\ dst'[d].kind = "dir" /\ X(dst'[d]) = X(dst[d])
      /\ dst'[d] = (IF src[d].kind = "dir" THEN Dir(src[d].mode, dst[d].x) ELSE dst[d])
           \/ (dst'[d] = dst[d] /\ d \in unset')
      /\ unset' \subseteq Top /\ unset \subseteq unset'
  <2>1. dst[d] = Dir(dst[d].mode, dst[d].x) /\ dst[d].x \in Data \cup {None} /\ X(dst[d]) = dst[d].x
    BY <1>4, Typed, TreeAt, EntryKinds
  <2>2. CASE src[d].kind = "dir" /\ dst' = [dst EXCEPT ![d].mode = src[d].mode] /\ unset' = unset
    <3> DEFINE m == src[d].mode
               f == Dir(m, dst[d].x)
    <3>1. m \in {"plain", "special"}
      BY <2>2, Typed, TreeAt, EntryKinds
    <3>2. f \in Entries /\ f.kind = "dir" /\ X(f) = dst[d].x
      BY <2>1, <3>1, EntryMade
    <3>3. [dst[d] EXCEPT !.mode = m] = f
      BY <2>1 DEF Dir
    <3>4. dst' = [dst EXCEPT ![d] = f]
      BY <2>2, <3>3
    <3> HIDE DEF f, m
    <3>5. dst' \in MirrorTree /\ dst'[d] = f /\ \A c \in Top \ {d} : dst'[c] = dst[c]
      <4>1. dst \in MirrorTree /\ f \in Entries \cup {Special}
        BY <3>2, Typed
      <4>2. /\ [dst EXCEPT ![d] = f] \in MirrorTree /\ [dst EXCEPT ![d] = f][d] = f
            /\ \A c \in Top \ {d} : [dst EXCEPT ![d] = f][c] = dst[c]
        BY <4>1, TreeWith
      <4> QED
        BY <3>4, <4>2
    <3> QED
      BY <2>1, <2>2, <3>2, <3>5, Typed DEF f, m
  <2>3. CASE src[d].kind # "dir" /\ dst' = dst /\ unset' = unset
    BY <1>4, <2>3, Typed
  <2>4. CASE dst' = dst /\ unset' = unset \cup {d}
    BY <1>4, <2>4, Typed
  <2> QED
    BY <1>5, <2>2, <2>3, <2>4
<1>7. /\ todo' \in Seq(Work) /\ Fit(todo') /\ ToDo' = (ToDo \ {Now}) \cup {}
      /\ ToDo' \subseteq ToDo /\ RootLevel \notin ToDo' /\ \A i \in ToDo' : i.p.top # d
      /\ Item("entry", RelIn(d)) \notin ToDo
  <2>1. Now # Item("entry", RelIn(d))
    BY <1>3, FourItems
  <2> QED
    BY <1>1, <1>2, <2>1, OneDone, NowAt, WorkShapes
<1>8. MirrorTyped'
  BY <1>1, <1>6, <1>7, Typed, TypedStep
<1>9. FailSound' /\ SeenSound' /\ WroteSeen'
  BY <1>1, <1>7, FailSame, SeenSame, WroteSame
<1>10. Clear(d)' => Stage(d)'
  <2> SUFFICES ASSUME Clear(d)'
               PROVE  Stage(d)'
    OBVIOUS
  <2>1. Clear(d) /\ src[d] = src0[d]
    BY <1>1 DEF Clear, MirrorInv, SourceSame
  <2>2. Stage(d)
    BY <1>1, <2>1 DEF MirrorInv, StageSound
  <2>3. src0[d].kind = "dir" /\ Filled(src0[d], dst0[d], dst[d])
    BY <1>3, <1>7, <2>2 DEF Stage
  <2>4. dst'[d].mode = src0[d].mode \/ d \in unset'
    <3>1. src[d].mode \in {"plain", "special"} /\ dst[d].x \in Data \cup {None}
      BY <1>4, <2>1, <2>3, Typed, TreeAt, EntryKinds
    <3> QED
      BY <1>6, <2>1, <2>3, <3>1, EntryMade
  <2>5. Filled(src0[d], dst0[d], dst'[d])
    BY <1>6, <2>3 DEF Filled
  <2>6. Filled(src0[d], dst0[d], dst[d])'
    BY <1>1, <2>5 DEF Filled, SameFile, Syncs
  <2>8. ModeArrived(d, dst[d])'
    BY <1>1, <2>4 DEF ModeArrived
  <2>9. Final(d, dst[d])'
    BY <1>1, <2>3, <2>6, <2>8, EntryMade DEF Final
  <2>7. \A act \in {"level", "entry", "leave"} : Item(act, Rel(d)) \notin ToDo'
    BY <1>7, WorkShapes
  <2> QED
    BY <1>7, <2>7, <2>9 DEF Stage
<1>11. d \notin touched /\ src0[d] = Special => dst'[d] = dst[d]
  <2>1. d \notin touched => src[d] = src0[d]
    BY <1>1 DEF MirrorInv, SourceSame
  <2> QED
    BY <1>6, <2>1, EntryMade
<1>12. Item("entry", RelIn(d)) \notin ToDo'
  BY <1>7
<1> QED
  BY <1>1, <1>2, <1>6, <1>7, <1>8, <1>9, <1>10, <1>11, <1>12, WriteStep

-----------------------------------------------------------------------------
(* The first pass.                                                         *)

LEMMA ListStep ==
  ASSUME MirrorInv, walk = "list", walk' = "list",
         UNCHANGED <<verb, src, dst, src0, dst0, touched, wrote, unset, unseen>>,
         MirrorTyped', TodoSound', FailSound', SeenSound', WroteSeen'
  PROVE  MirrorInv'
<1>1. SourceSame'
  BY DEF MirrorInv, SourceSame
<1>2. StageSound'
  BY DEF MirrorInv, StageSound
<1>3. PruneJust' /\ PruneWhole' /\ ArrivedSound'
  BY DEF PruneJust, PruneWhole, ArrivedSound
<1>4. NothingLost'
  BY DEF MirrorInv, NothingLost
<1> QED
  BY <1>1, <1>2, <1>3, <1>4 DEF MirrorInv

\* A level of the first pass: the root, or a name.
LEMMA ListNow ==
  ASSUME MirrorInv, walk = "list", todo # <<>>
  PROVE  /\ Tail(todo) \in Seq(Work) /\ Fit(Tail(todo)) /\ Elems(Tail(todo)) = ToDo \ {Now} /\ Now \in ToDo
         /\ Syncs /\ ToDo \subseteq ListWork
         /\ \/ Now = RootLevel /\ Now.p = Root /\ ToDo = {RootLevel} /\ Elems(Tail(todo)) = {}
            \/ RootLevel \notin ToDo /\ Now.p # Root /\ \E d \in Top : Now = Item("level", Rel(d)) /\ Now.p = Rel(d)
<1>1. /\ Tail(todo) \in Seq(Work) /\ Fit(Tail(todo)) /\ Elems(Tail(todo)) = ToDo \ {Now} /\ Now \in ToDo
  BY NowSound
<1>2. Syncs /\ ToDo \subseteq ListWork /\ (RootLevel \in ToDo => ToDo = {RootLevel})
  BY DEF MirrorInv, TodoSound
<1>3. CASE Now = RootLevel
  BY <1>1, <1>2, <1>3, WorkShapes
<1>4. CASE Now # RootLevel
  <2>1. PICK d \in Top : Now = Item("level", Rel(d))
    BY <1>1, <1>2, <1>4 DEF ListWork
  <2> QED
    BY <1>1, <1>2, <1>4, <2>1, WorkShapes, RelTyped
<1> QED
  BY <1>3, <1>4

\* What is left of the first pass when a level is done.
LEMMA ListRest ==
  ASSUME MirrorInv, walk = "list", todo # <<>>, StepOver, walk' = walk, UNCHANGED verb
  PROVE  /\ TodoSound' /\ todo' \in Seq(Work) /\ ToDo' = ToDo \ {Now} /\ RootLevel \notin ToDo'
         /\ seen \subseteq seen' /\ wrote' = wrote => WroteSeen'
<1>1. todo' \in Seq(Work) /\ Fit(todo') /\ ToDo' = ToDo \ {Now}
  BY ListNow DEF StepOver, ToDo
<1>2. RootLevel \notin ToDo'
  BY <1>1, ListNow
<1>3. TodoSound'
  BY <1>1, <1>2, ListNow DEF TodoSound, Syncs
<1>4. ASSUME seen \subseteq seen', wrote' = wrote
      PROVE  WroteSeen'
  BY <1>1, <1>4 DEF MirrorInv, WroteSeen, Syncs
<1> QED
  BY <1>1, <1>2, <1>3, <1>4

\* A level that could not be listed is remembered as such.
LEMMA ListMissed ==
  ASSUME MirrorInv, walk = "list", todo # <<>>, StepOver, walk' = walk, Now.p # Root, NoteFailure(Now.p),
         faults' \in 0..MaxFaults,
         UNCHANGED <<verb, src, dst, src0, dst0, touched, wrote, seen, unread, turns, unset, unseen>>
  PROVE  MirrorInv'
<1>1. TodoSound' /\ todo' \in Seq(Work) /\ ToDo' = ToDo \ {Now} /\ RootLevel \notin ToDo' /\ WroteSeen'
  BY ListRest
<1>2. /\ skipped' \subseteq Paths /\ failed' \in BOOLEAN /\ failed' /\ skipped \subseteq skipped' /\ Now.p \in skipped'
  BY NoteTyped
<1>3. MirrorTyped'
  BY <1>1, <1>2, Typed, TypedStep
<1>4. FailSound'
  BY <1>2, FailNoted
<1>5. PICK d \in Top : Now = Item("level", Rel(d)) /\ Now.p = Rel(d)
  BY ListNow
<1>6. SeenSound'
  <2>1. RootLevel \notin ToDo /\ Syncs
    BY ListNow
  <2>2. \A c \in Top : Item("level", Rel(c)) \in ToDo => Item("level", Rel(c)) \in ToDo' \/ Rel(c) \in skipped'
    <3>1. \A c \in Top : Item("level", Rel(c)) = Now => Rel(c) = Rel(d)
      BY <1>5, WorkShapes
    <3> QED
      BY <1>1, <1>2, <1>5, <3>1
  <2> QED
    BY <1>2, <2>1, <2>2 DEF MirrorInv, SeenSound, Syncs
<1> QED
  BY <1>1, <1>3, <1>4, <1>6, ListStep

LEMMA ListLevelFailsKeeps == MirrorInv /\ ListLevelFails => MirrorInv'
<1> SUFFICES ASSUME MirrorInv, ListLevelFails
             PROVE  MirrorInv'
  OBVIOUS
<1>1. /\ walk = "list" /\ todo # <<>> /\ Fault /\ StepOver
      /\ UNCHANGED <<verb, walk, src, dst, seen, turns, src0, dst0, touched, wrote, unset, unseen>>
  BY DEF ListLevelFails, Doing, trees, history
<1>2. faults' \in 0..MaxFaults
  BY <1>1, FaultTyped
<1>3. CASE Now.p = Root
  <2>1. unread' /\ failed' /\ unread' \in BOOLEAN /\ failed' \in BOOLEAN /\ UNCHANGED skipped
    BY <1>3 DEF ListLevelFails
  <2>2. TodoSound' /\ todo' \in Seq(Work) /\ WroteSeen'
    BY <1>1, ListRest
  <2>3. MirrorTyped'
    BY <1>1, <1>2, <2>1, <2>2, Typed, TypedStep
  <2>4. FailSound'
    BY <1>1, <2>1, FailNoted
  <2>5. SeenSound'
    BY <1>1, <2>1 DEF MirrorInv, SeenSound, Syncs
  <2> QED
    BY <1>1, <2>2, <2>3, <2>4, <2>5, ListStep
<1>4. CASE Now.p # Root
  <2>1. NoteFailure(Now.p) /\ UNCHANGED unread
    BY <1>4 DEF ListLevelFails
  <2> QED
    BY <1>1, <1>2, <1>4, <2>1, ListMissed
<1> QED
  BY <1>3, <1>4

\* The root is listed, and its directories come next.
LEMMA ListRoot ==
  ASSUME MirrorInv, ListLevel, Now.p = Root
  PROVE  MirrorInv'
<1> DEFINE there == {d \in Top : src[d] # Absent}
           dirs == {d \in Top : src[d].kind = "dir"}
           names == Items("level", there)
           next == Items("level", dirs)
<1>1. /\ walk = "list" /\ todo # <<>>
      /\ UNCHANGED <<verb, walk, src, dst, unread, turns, faults, skipped, failed, src0, dst0, touched, wrote, unset, unseen>>
      /\ todo' = Tail(todo) \o next /\ seen' = seen \cup Of(names)
  BY DEF ListLevel, Doing, NoFault, IsDirectory, Names, trees, history
<1>2. /\ Elems(names) = {Item("level", Rel(d)) : d \in there}
      /\ next \in Seq(Work) /\ Fit(next) /\ Elems(next) = {Item("level", Rel(d)) : d \in dirs}
  BY FitItems
<1>3. Of(names) = {Rel(d) : d \in there}
  BY <1>2, OfElems, WorkShapes
<1> HIDE DEF names, next
<1>4. /\ Tail(todo) \in Seq(Work) /\ Fit(Tail(todo)) /\ Elems(Tail(todo)) = {} /\ Syncs
  BY <1>1, ListNow
<1>5. todo' \in Seq(Work) /\ Fit(todo') /\ ToDo' = {Item("level", Rel(d)) : d \in dirs}
  <2>1. \A i \in Elems(Tail(todo)), j \in Elems(next) : Alike(i, j) => Follows(i, j)
    BY <1>4
  <2>2. /\ Tail(todo) \o next \in Seq(Work) /\ Fit(Tail(todo) \o next)
        /\ Elems(Tail(todo) \o next) = {} \cup Elems(next)
    <3> DEFINE t == Tail(todo)
    <3> HIDE DEF t
    <3>1. /\ t \o next \in Seq(Work) /\ Fit(t \o next) /\ Elems(t \o next) = Elems(t) \cup Elems(next)
      BY <1>2, <1>4, <2>1, FitJoin DEF t
    <3> QED
      BY <1>4, <3>1 DEF t
  <2> QED
    BY <1>1, <1>2, <2>2 DEF ToDo
<1>6. /\ seen' = seen \cup {Rel(d) : d \in there} /\ seen \subseteq seen' /\ seen' \subseteq Paths
  BY <1>1, <1>3, Typed, RelTyped
<1>7. \A i : i \in ToDo' <=> \E d \in Top : src[d].kind = "dir" /\ i = Item("level", Rel(d))
  BY <1>5
<1>8. \A d \in Top : Rel(d) \in seen' <=> (Rel(d) \in seen \/ src[d] # Absent)
  BY <1>6, RelTyped
<1>9. \A d \in Top : RelIn(d) \in seen' <=> RelIn(d) \in seen
  BY <1>6, RelTyped
<1> HIDE DEF there, dirs
<1>10. RootLevel \notin ToDo'
  BY <1>7, WorkShapes, NoneFacts
<1>11. TodoSound'
  <2>1. ToDo' \subseteq ListWork
    BY <1>7 DEF ListWork
  <2> QED
    BY <1>1, <1>4, <1>5, <1>10, <2>1 DEF TodoSound, Syncs
<1>12. MirrorTyped'
  BY <1>1, <1>5, <1>6, Typed, TypedStep
<1>13. FailSound'
  BY <1>1, FailSame
<1>14. \A d \in Top \ touched : src[d] = src0[d]
  BY <1>1 DEF MirrorInv, SourceSame
<1>15. SeenSound'
  <2>1. \A d \in Top \ touched :
          /\ Rel(d) \in seen' => src0[d] # Absent
          /\ RelIn(d) \in seen' => X(src0[d]) # None
    BY <1>4, <1>8, <1>9, <1>14 DEF MirrorInv, SeenSound
  <2>2. \A d \in Top \ touched :
          /\ src0[d] # Absent => Rel(d) \in seen'
          /\ X(src0[d]) # None => Item("level", Rel(d)) \in ToDo'
    BY <1>7, <1>8, <1>14 DEF X
  <2> QED
    BY <1>1, <2>1, <2>2 DEF SeenSound
<1>16. WroteSeen'
  <2>1. \A i \in ToDo' : Rel(i.p.top) \in seen' /\ i.act # "entry"
    <3> TAKE i \in ToDo'
    <3>1. PICK d \in Top : src[d].kind = "dir" /\ i = Item("level", Rel(d))
      BY <1>7
    <3>2. i.p.top = d /\ i.act = "level"
      BY <3>1, WorkShapes
    <3> QED
      BY <1>8, <3>1, <3>2, EntryMade
  <2>2. \A p \in wrote : p \in seen /\ Rel(p.top) \in seen
    BY <1>4 DEF MirrorInv, WroteSeen
  <2> QED
    BY <1>1, <1>6, <2>1, <2>2 DEF WroteSeen
<1> QED
  BY <1>1, <1>11, <1>12, <1>13, <1>15, <1>16, ListStep

\* A directory is listed.
LEMMA ListDirectory ==
  ASSUME MirrorInv, ListLevel, NEW d \in Top, Now = Item("level", Rel(d)), src[d].kind = "dir"
  PROVE  MirrorInv'
<1> DEFINE in == Item("level", RelIn(d))
           names == When(X(src[d]) # None, in)
<1>1. Now.p = Rel(d) /\ Now.p.top = d /\ Now.p # Root /\ IsDirectory(src, Now.p)
  BY WorkShapes, RelTyped DEF IsDirectory
<1>2. Names(src, Now.p, "level") = names
  BY <1>1 DEF Names
<1>3. Of(names) = IF X(src[d]) # None THEN {RelIn(d)} ELSE {}
  <2>1. in \in Work /\ in.p = RelIn(d)
    BY WorkShapes
  <2> HIDE DEF in
  <2>2. Elems(names) = IF X(src[d]) # None THEN {in} ELSE {}
    BY <2>1, FitOne, FitNone DEF When
  <2> QED
    BY <2>1, <2>2, OfElems
<1> HIDE DEF names, in
<1>4. /\ walk = "list" /\ todo # <<>>
      /\ UNCHANGED <<verb, walk, src, dst, unread, turns, faults, skipped, failed, src0, dst0, touched, wrote, unset, unseen>>
      /\ seen' = seen \cup Of(names)
  BY <1>1, <1>2 DEF ListLevel, Doing, NoFault, trees, history
<1>5. StepOver
  <2>1. todo' = Tail(todo) \o <<>> /\ Tail(todo) \in Seq(Work)
    BY <1>1, <1>4, ListNow DEF ListLevel
  <2> QED
    BY <2>1, ConcatEmptySeq DEF StepOver
<1>6. TodoSound' /\ todo' \in Seq(Work) /\ ToDo' = ToDo \ {Now} /\ WroteSeen'
  BY <1>4, <1>5, ListRest
<1>7. seen \subseteq seen' /\ seen' \subseteq Paths
  BY <1>3, <1>4, Typed, RelTyped
<1>8. MirrorTyped'
  BY <1>4, <1>6, <1>7, Typed, TypedStep
<1>9. FailSound'
  BY <1>4, FailSame
<1>10. SeenSound'
  <2>1. \A c \in Top \ touched : src[c] = src0[c]
    BY <1>4 DEF MirrorInv, SourceSame
  <2>2. RootLevel \notin ToDo /\ Syncs
    BY <1>1, <1>4, ListNow, WorkShapes
  <2>3. \A c \in Top : RelIn(c) \in seen' <=> RelIn(c) \in seen \/ (c = d /\ X(src[d]) # None)
    BY <1>3, <1>4, RelTyped
  <2>4. \A c \in Top : Rel(c) \in seen' <=> Rel(c) \in seen
    BY <1>3, <1>4, RelTyped
  <2>5. \A c \in Top : Item("level", Rel(c)) \in ToDo => c = d \/ Item("level", Rel(c)) \in ToDo'
    BY <1>6, WorkShapes
  <2>6. \A c \in Top \ touched :
          /\ Rel(c) \in seen' => src0[c] # Absent
          /\ RelIn(c) \in seen' => X(src0[c]) # None
    BY <2>1, <2>2, <2>3, <2>4 DEF MirrorInv, SeenSound
  <2>7. ~unread => \A c \in Top \ touched :
           /\ src0[c] # Absent => Rel(c) \in seen'
           /\ X(src0[c]) # None =>
                RelIn(c) \in seen' \/ Rel(c) \in skipped \/ Item("level", Rel(c)) \in ToDo'
    BY <1>4, <2>1, <2>2, <2>3, <2>4, <2>5 DEF MirrorInv, SeenSound
  <2> QED
    BY <1>4, <2>6, <2>7 DEF SeenSound
<1> QED
  BY <1>4, <1>6, <1>8, <1>9, <1>10, ListStep

LEMMA ListLevelKeeps == MirrorInv /\ ListLevel => MirrorInv'
<1> SUFFICES ASSUME MirrorInv, ListLevel
             PROVE  MirrorInv'
  OBVIOUS
<1>1. walk = "list" /\ todo # <<>> /\ faults' = faults
      /\ UNCHANGED <<verb, walk, src, dst, src0, dst0, touched, wrote, unread, turns, unset, unseen>>
  BY DEF ListLevel, Doing, NoFault, trees, history
<1>2. CASE Now.p = Root
  BY <1>2, ListRoot
<1>3. CASE Now.p # Root
  <2>1. PICK d \in Top : Now = Item("level", Rel(d)) /\ Now.p = Rel(d)
    BY <1>1, <1>3, ListNow
  <2>2. IsDirectory(src, Now.p) <=> src[d].kind = "dir"
    BY <2>1, RelTyped DEF IsDirectory
  <2>3. CASE src[d].kind = "dir"
    BY <2>1, <2>3, ListDirectory
  <2>4. CASE src[d].kind # "dir"
    <3>1. StepOver /\ NoteFailure(Now.p) /\ UNCHANGED seen
      BY <2>2, <2>4 DEF ListLevel
    <3> QED
      BY <1>1, <1>3, <3>1, Typed, ListMissed
  <2> QED
    BY <2>3, <2>4
<1> QED
  BY <1>2, <1>3

LEMMA Listed2Keeps == MirrorInv /\ Listed2 => MirrorInv'
<1> SUFFICES ASSUME MirrorInv, Listed2
             PROVE  MirrorInv'
  OBVIOUS
<1>1. /\ walk = "list" /\ todo = <<>> /\ walk' = "write" /\ todo' = <<RootLevel>>
      /\ UNCHANGED <<verb, src, dst, seen, skipped, unread, failed, faults, turns, src0, dst0, touched, wrote, unset, unseen>>
  BY DEF Listed2, RootLevel, trees, notes, history
<1>2. ToDo = {}
  BY <1>1, FitNone DEF ToDo
<1>3. todo' \in Seq(Work) /\ Fit(todo') /\ ToDo' = {RootLevel}
  BY <1>1, WorkShapes, FitOne DEF ToDo
<1>4. \A d \in Top : /\ Item("level", Rel(d)) \notin ToDo' /\ Item("entry", Rel(d)) \notin ToDo'
                     /\ Item("leave", Rel(d)) \notin ToDo' /\ Item("entry", RelIn(d)) \notin ToDo'
  BY <1>3, WorkShapes, NoneFacts
<1>5. MirrorTyped'
  BY <1>1, <1>3, Typed, TypedStep
<1>6. TodoSound'
  <2>1. ToDo' \subseteq WriteWork
    BY <1>3 DEF WriteWork, ListWork
  <2> QED
    BY <1>1, <1>3, <1>4, <2>1 DEF TodoSound
<1>7. SourceSame' /\ FailSound'
  BY <1>1, FailSame DEF MirrorInv, SourceSame
<1>8. SeenSound'
  BY <1>1, <1>2 DEF MirrorInv, SeenSound, Syncs
<1>9. WroteSeen'
  BY <1>1, <1>3 DEF MirrorInv, WroteSeen, Syncs
<1>10. StageSound'
  <2>1. dst = dst0
    BY <1>1 DEF MirrorInv, StageSound
  <2>2. ASSUME NEW d \in Top
        PROVE  Stage(d)'
    BY <1>1, <1>3, <1>4, <2>1 DEF Stage
  <2> QED
    BY <1>1, <2>1, <2>2 DEF StageSound
<1>11. PruneJust' /\ PruneWhole' /\ ArrivedSound' /\ NothingLost'
  BY <1>1 DEF MirrorInv, PruneJust, PruneWhole, ArrivedSound, NothingLost
<1> QED
  BY <1>5, <1>6, <1>7, <1>8, <1>9, <1>10, <1>11 DEF MirrorInv

-----------------------------------------------------------------------------
(* The end of the second pass.                                             *)

\* Nobody got in the way of an entry, so it has arrived, but for what --delete
\* has to take away.
LEMMA FinalArrived ==
  ASSUME MirrorInv, NEW d \in Top, verb.name # "syncDelete", Final(d, dst[d])
  PROVE  Arrived(d)
<1> DEFINE s == src0[d]
           o == dst0[d]
           w == dst[d]
<1>1. s \in Entries \cup {Special} /\ s.kind \in {"absent", "special", "file", "link", "dir"}
      /\ (s = Absent <=> s.kind = "absent") /\ (s = Special <=> s.kind = "special")
  BY Typed, TreeAt, EntryKinds
<1>2. s # Special
  BY DEF Final
<1>3. CASE s = Absent
  BY <1>2, <1>3, EntryMade DEF Arrived, Final, Deletes
<1>4. CASE s.kind = "link"
  BY <1>1, <1>4 DEF Arrived, Final
<1>5. CASE s.kind = "file"
  BY <1>1, <1>5 DEF Arrived, Final
<1>6. CASE s.kind = "dir"
  <2>1. w.kind = "dir" /\ ModeArrived(d, w) /\ Filled(s, o, w)
    BY <1>6 DEF Final, Filled
  <2>2. Contents(d)
    BY <2>1 DEF Contents, Filled, Deletes
  <2> QED
    BY <1>1, <1>6, <2>1, <2>2 DEF Arrived
<1> QED
  BY <1>1, <1>2, <1>3, <1>4, <1>5, <1>6

\* What a command that failed nowhere has carried across.
LEMMA NotFailed ==
  ASSUME MirrorInv, ~failed, NEW d \in Top \ touched, src0[d] # Special
  PROVE  Clear(d)
<1>1. \A p \in skipped : p \in {Rel(c) : c \in Top} /\ (p.top \in touched \/ src0[p.top] = Special)
  BY DEF MirrorInv, FailSound
<1>2. Root \notin skipped /\ RelIn(d) \notin skipped
  BY <1>1, RelTyped
<1>3. Rel(d) \notin skipped
  BY <1>1, RelTyped
<1> QED
  BY <1>2, <1>3 DEF Clear

LEMMA WriteOverKeeps == MirrorInv /\ WriteOver => MirrorInv'
<1> SUFFICES ASSUME MirrorInv, WriteOver
             PROVE  MirrorInv'
  OBVIOUS
<1>1. /\ walk = "write" /\ todo = <<>> /\ walk' = WrittenNext
      /\ UNCHANGED <<verb, src, dst, seen, skipped, unread, failed, faults, turns, src0, dst0, touched, wrote, unset, unseen>>
  BY DEF WriteOver, trees, notes, history
<1>2. ToDo = {}
  BY <1>1, FitNone DEF ToDo
<1>3. /\ walk' \in {"look", "remove", "done", "failed"}
      /\ walk' = "look" <=> verb.name = "syncDelete"
      /\ walk' = "remove" => verb.name = "move" /\ ~failed
      /\ walk' = "done" => verb.name \notin {"move", "syncDelete"} /\ ~failed
  BY <1>1 DEF WrittenNext, Status
<1>4. walk' # "remove" => todo' = <<>>
  BY DEF WriteOver
<1>5. todo' \in Seq(Work)
  <2>1. CASE walk' = "remove"
    <3> DEFINE there == {d \in Top : src[d] # Absent}
               s == Items("entry", there)
               e == Item("end", Root)
    <3>1. todo' = s \o <<e>>
      BY <2>1 DEF WriteOver, Names
    <3>2. s \in Seq(Work)
      BY FitItems
    <3>3. e \in Work /\ <<e>> \in Seq(Work)
      BY ItemTyped, RootTyped, FitOne
    <3> HIDE DEF s, e
    <3> QED
      BY <3>1, <3>2, <3>3, ConcatProperties
  <2>2. CASE walk' # "remove"
    BY <1>4, <2>2, FitNone
  <2> QED
    BY <2>1, <2>2
<1>6. MirrorTyped'
  BY <1>1, <1>3, <1>5, Typed, TypedStep
<1>7. TodoSound'
  BY <1>3, <1>1, <1>4 DEF TodoSound
<1>8. SourceSame'
  BY <1>1 DEF MirrorInv, SourceSame
<1>9. FailSound'
  BY <1>1, FailSame
<1>10. SeenSound'
  BY <1>1, <1>2, <1>3 DEF MirrorInv, SeenSound, Syncs
<1>11. WroteSeen'
  BY <1>1, <1>3 DEF MirrorInv, WroteSeen, Syncs
<1>12. \A d \in Top : Clear(d) => Final(d, dst[d])
  <2>1. \A d \in Top : ~Busy(d)
    BY <1>2 DEF Busy
  <2> QED
    BY <1>1, <1>2, <2>1 DEF MirrorInv, StageSound, Stage
<1>13. \A d \in Top \ touched : src0[d] = Special => dst[d] = dst0[d]
  BY <1>1 DEF MirrorInv, StageSound
<1>14. StageSound'
  <2>1. \A d \in Top : Clear(d)' <=> Clear(d)
    BY <1>1 DEF Clear
  <2>2. \A d \in Top : Final(d, dst[d])' <=> Final(d, dst[d])
    BY <1>1 DEF Final, Filled, SameFile, Syncs, ModeArrived
  <2> QED
    BY <1>1, <1>3, <1>12, <1>13, <2>1, <2>2 DEF StageSound
<1>15. PruneJust' /\ PruneWhole'
  BY <1>3 DEF PruneJust, PruneWhole
<1>16. ArrivedSound'
  <2> SUFFICES ASSUME walk' \in {"remove", "done"}, NEW d \in Top \ touched
               PROVE  Arrived(d)'
    BY <1>1 DEF ArrivedSound
  <2>1. ~failed /\ verb.name # "syncDelete" /\ (verb.name = "move" <=> walk' = "remove")
    BY <1>3
  <2>2. Arrived(d)
    <3>1. CASE src0[d] = Special
      <4>1. verb.name # "move"
        <5>1. ASSUME verb.name = "move"
              PROVE  FALSE
          <6>1. skipped = {}
            BY <2>1, <5>1 DEF MirrorInv, FailSound
          <6>2. Clear(d)
            BY <6>1 DEF Clear
          <6>3. Final(d, dst[d])
            BY <1>12, <6>2
          <6> QED
            BY <3>1, <6>3 DEF Final
        <5> QED
          BY <5>1
      <4> QED
        BY <1>13, <3>1, <4>1, EntryMade DEF Arrived
    <3>2. CASE src0[d] # Special
      <4>1. Clear(d)
        BY <2>1, <3>2, NotFailed
      <4> QED
        BY <1>12, <2>1, <4>1, FinalArrived
    <3> QED
      BY <3>1, <3>2
  <2>3. Arrived(d)' <=> Arrived(d)
    BY <1>1 DEF Arrived, Contents, Deletes, Hidden, ModeArrived, SameFile, Syncs
  <2> QED
    BY <2>2, <2>3
<1>17. NothingLost'
  BY <1>1 DEF MirrorInv, NothingLost
<1> QED
  BY <1>6, <1>7, <1>8, <1>9, <1>10, <1>11, <1>14, <1>15, <1>16, <1>17 DEF MirrorInv

-----------------------------------------------------------------------------
(* The third pass.                                                         *)

LEMMA LookForExtrasKeeps == MirrorInv /\ LookForExtras => MirrorInv'
<1> SUFFICES ASSUME MirrorInv, LookForExtras
             PROVE  MirrorInv'
  OBVIOUS
<1> DEFINE Out(p) == Orphan(p) /\ ~Hidden(p, unseen')
           A == {d \in Top : Out(Rel(d))}
           B == {d \in Top : Compared(d) /\ Out(RelIn(d))}
           s == Items("entry", A)
           t == ItemsIn("entry", B)
<1>1. /\ walk = "look" /\ walk' = "prune" /\ todo' = (IF unread THEN <<>> ELSE s \o t)
      /\ UNCHANGED <<verb, src, dst, seen, skipped, unread, failed, turns, src0, dst0, touched, wrote, unset>>
      /\ faults' \in 0..MaxFaults /\ unseen' \subseteq Paths
  <2>1. LooksAt \subseteq Paths
    BY RootTyped DEF LooksAt
  <2>2. /\ walk = "look" /\ walk' = "prune"
        /\ UNCHANGED <<verb, src, dst, seen, skipped, unread, failed, turns, src0, dst0, touched, wrote, unset>>
    BY DEF LookForExtras, trees, notes
  <2>3. CASE unread
    BY <2>2, <2>3, Typed DEF LookForExtras
  <2>4. CASE ~unread
    <3>1. PICK blind \in SUBSET LooksAt :
             faults' \in faults..MaxFaults /\ unseen' = blind /\ todo' = Extras(blind)
      BY <2>4 DEF LookForExtras
    <3>2. todo' = s \o t
      BY <3>1 DEF Extras
    <3>3. faults' \in 0..MaxFaults
      BY <3>1, Typed, MirrorAssumption
    <3> QED
      BY <2>1, <2>2, <2>4, <3>1, <3>2, <3>3
  <2> QED
    BY <2>3, <2>4
<1>2. /\ s \in Seq(Work) /\ Fit(s) /\ Elems(s) = {Item("entry", Rel(d)) : d \in A}
      /\ t \in Seq(Work) /\ Fit(t) /\ Elems(t) = {Item("entry", RelIn(d)) : d \in B}
  BY FitItems
<1>3. \A i \in Elems(s), j \in Elems(t) : ~Alike(i, j)
  <2>1. \A d \in A : Rel(d) \notin seen
    BY DEF Orphan
  <2>2. \A d \in B : Rel(d) \in seen
    BY DEF Compared
  <2>3. \A i \in Elems(s) : i.p.top \in A
    BY <1>2, WorkShapes
  <2>4. \A j \in Elems(t) : j.p.top \in B
    BY <1>2, WorkShapes
  <2> HIDE DEF A, B, s, t
  <2> QED
    BY <2>1, <2>2, <2>3, <2>4 DEF Alike
<1> HIDE DEF s, t
<1>4. /\ todo' \in Seq(Work) /\ Fit(todo')
      /\ ToDo' = IF unread THEN {} ELSE Elems(s) \cup Elems(t)
  <2>1. /\ s \o t \in Seq(Work) /\ Fit(s \o t) /\ Elems(s \o t) = Elems(s) \cup Elems(t)
    BY <1>2, <1>3, FitJoin
  <2> QED
    BY <1>1, <2>1, FitNone DEF ToDo
<1>5. \A d \in Top : /\ Item("entry", Rel(d)) \in ToDo' <=> ~unread /\ Out(Rel(d))
                     /\ Item("entry", RelIn(d)) \in ToDo' <=> ~unread /\ Compared(d) /\ Out(RelIn(d))
  <2>1. \A i : i \in Elems(s) <=> \E d \in Top : Out(Rel(d)) /\ i = Item("entry", Rel(d))
    BY <1>2
  <2>2. \A i : i \in Elems(t) <=> \E d \in Top : (Compared(d) /\ Out(RelIn(d))) /\ i = Item("entry", RelIn(d))
    BY <1>2
  <2> HIDE DEF A, B, Out
  <2>3. \A d \in Top : Item("entry", Rel(d)) \in Elems(s) <=> Out(Rel(d))
    BY <2>1, WorkShapes
  <2>4. \A d \in Top : Item("entry", RelIn(d)) \in Elems(t) <=> Compared(d) /\ Out(RelIn(d))
    BY <2>2, WorkShapes
  <2>5. \A d, e \in Top : Item("entry", Rel(d)) # Item("entry", RelIn(e))
    BY WorkShapes, RelTyped
  <2>6. \A d \in Top : Item("entry", Rel(d)) \notin Elems(t) /\ Item("entry", RelIn(d)) \notin Elems(s)
    BY <2>1, <2>2, <2>5
  <2> QED
    BY <1>4, <2>3, <2>4, <2>6
<1>6. verb.name = "syncDelete" /\ Syncs
  BY <1>1 DEF MirrorInv, TodoSound, Syncs
<1>7. MirrorTyped'
  BY <1>1, <1>4, Typed, TypedStep
<1>8. TodoSound'
  <2>1. ToDo' \subseteq PruneWork
    BY <1>2, <1>4 DEF PruneWork
  <2> QED
    BY <1>1, <1>4, <1>6, <2>1 DEF TodoSound
<1>9. SourceSame' /\ FailSound'
  BY <1>1, FailSame DEF MirrorInv, SourceSame
<1>10. SeenSound' /\ WroteSeen'
  BY <1>1 DEF MirrorInv, SeenSound, WroteSeen, Syncs
<1>11. StageSound' /\ ArrivedSound' /\ NothingLost'
  BY <1>1, <1>6 DEF StageSound, ArrivedSound, NothingLost
<1>12. \A d \in Top : Clear(d) => Final(d, dst[d])
  BY <1>1 DEF MirrorInv, StageSound
<1>13. /\ \A d \in Top \ touched : /\ Rel(d) \in seen => src0[d] # Absent
                                   /\ RelIn(d) \in seen => X(src0[d]) # None
       /\ ~unread => \A d \in Top \ touched :
            /\ src0[d] # Absent => Rel(d) \in seen
            /\ X(src0[d]) # None => RelIn(d) \in seen \/ Rel(d) \in skipped
  BY <1>1, <1>6 DEF MirrorInv, SeenSound
<1>14. PruneJust'
  <2>1. ASSUME NEW d \in Top, Item("entry", Rel(d)) \in ToDo'
        PROVE  Rel(d) \notin seen /\ (d \in touched \/ src0[d] = Absent) /\ ~Hidden(Rel(d), unseen')
    BY <1>5, <1>13, <2>1 DEF Orphan
  <2>2. ASSUME NEW d \in Top, Item("entry", RelIn(d)) \in ToDo'
        PROVE  /\ RelIn(d) \notin seen /\ dst[d].kind = "dir" /\ ~Hidden(RelIn(d), unseen')
               /\ d \in touched \/ (X(src0[d]) = None /\ (src0[d].kind = "dir" \/ Root \in skipped))
    <3>1. /\ ~unread /\ Rel(d) \in seen /\ Rel(d) \notin skipped /\ RelIn(d) \notin seen
          /\ RelIn(d) \notin skipped /\ Found(dst, RelIn(d)) # Absent /\ ~Hidden(RelIn(d), unseen')
      BY <1>5, <2>2 DEF Orphan, Compared
    <3>2. X(dst[d]) # None
      BY <3>1, FoundAt
    <3>3. dst[d].kind = "dir"
      BY <3>2 DEF X
    <3>4. ASSUME d \notin touched
          PROVE  X(src0[d]) = None /\ src0[d] # Absent
      BY <1>13, <3>1, <3>4
    <3>5. ASSUME d \notin touched, Root \notin skipped
          PROVE  src0[d].kind = "dir"
      <4>1. Clear(d)
        BY <3>1, <3>5 DEF Clear
      <4>2. Final(d, dst[d])
        BY <1>12, <4>1
      <4>3. src0[d].kind \in {"file", "link", "dir"}
        <5>1. src0[d] # Special /\ src0[d] # Absent
          BY <3>4, <3>5, <4>2 DEF Final
        <5> QED
          BY <5>1, Typed, TreeAt, EntryKinds
      <4>4. src0[d].kind # "file" /\ src0[d].kind # "link"
        BY <3>3, <4>2 DEF Final
      <4> QED
        BY <4>3, <4>4
    <3> QED
      BY <3>1, <3>3, <3>4, <3>5
  <2> QED
    BY <1>1, <2>1, <2>2 DEF PruneJust, Hidden
<1>15. PruneWhole'
  <2> SUFFICES ASSUME ~failed, NEW d \in Top \ touched
               PROVE  Pruning(d)'
    BY <1>1 DEF PruneWhole
  <2>1. ~unread
    BY DEF MirrorInv, FailSound
  <2>2. CASE src0[d] = Special
    <3>1. dst[d] = dst0[d]
      BY <1>1, <2>2 DEF MirrorInv, StageSound
    <3> QED
      BY <1>1, <2>2, <3>1, EntryMade DEF Pruning
  <2>3. CASE src0[d] # Special
    <3>1. Clear(d)
      BY <2>3, NotFailed
    <3>2. Final(d, dst[d]) /\ Rel(d) \notin skipped /\ RelIn(d) \notin skipped
      BY <1>12, <3>1 DEF Clear
    <3>3. CASE src0[d] = Absent
      <4>1. dst[d] # Absent /\ ~Hidden(Rel(d), unseen') => Item("entry", Rel(d)) \in ToDo'
        BY <1>5, <1>13, <2>1, <3>2, <3>3, FoundAt DEF Orphan
      <4>2. dst[d] = dst0[d]
        BY <3>2, <3>3 DEF Final
      <4>3. Hidden(Rel(d), unseen)' <=> Hidden(Rel(d), unseen')
        BY DEF Hidden
      <4> QED
        BY <1>1, <3>3, <4>1, <4>2, <4>3, EntryMade DEF Pruning
    <3>4. CASE src0[d].kind = "link"
      BY <1>1, <3>2, <3>4, EntryMade DEF Pruning, Final
    <3>5. CASE src0[d].kind = "file"
      <4>1. dst[d].kind = "file" /\ SameFile(src0[d].data, dst[d].data)
        BY <3>2, <3>5 DEF Final
      <4>2. SameFile(src0[d].data, dst[d].data)'
        BY <1>1, <4>1 DEF SameFile, Syncs
      <4> QED
        BY <1>1, <3>5, <4>1, <4>2, EntryMade DEF Pruning
    <3>6. CASE src0[d].kind = "dir"
      <4>1. dst[d].kind = "dir" /\ ModeArrived(d, dst[d]) /\ Filled(src0[d], dst0[d], dst[d])
        BY <3>2, <3>6 DEF Final, Filled
      <4>4. Hidden(RelIn(d), unseen)' <=> Hidden(RelIn(d), unseen')
        BY DEF Hidden
      <4>5. dst'[d].kind = "dir" /\ ModeArrived(d, dst[d])'
        BY <1>1, <4>1 DEF ModeArrived
      <4>2. X(src0[d]) # None => X(dst[d]) # None /\ SameFile(X(src0[d]), X(dst[d]))'
        BY <1>1, <4>1 DEF Filled, SameFile, Syncs
      <4>3. X(src0[d]) = None =>
              IF Hidden(RelIn(d), unseen') THEN X(dst[d]) = X(dst0[d])
              ELSE X(dst[d]) = None \/ Item("entry", RelIn(d)) \in ToDo'
        <5>4. X(src0[d]) = None => X(dst[d]) = X(dst0[d])
          BY <4>1 DEF Filled
        <5> SUFFICES ASSUME X(src0[d]) = None, X(dst[d]) # None, ~Hidden(RelIn(d), unseen')
                     PROVE  Item("entry", RelIn(d)) \in ToDo'
          BY <5>4
        <5>1. src0[d] # Absent
          BY <3>6, EntryMade
        <5>2. Rel(d) \in seen /\ RelIn(d) \notin seen
          BY <1>13, <2>1, <5>1
        <5>3. Found(dst, RelIn(d)) # Absent
          <6>1. Found(dst, RelIn(d)) = File(X(dst[d]))
            BY FoundAt
          <6> QED
            BY <6>1, EntryMade
        <5> QED
          BY <1>5, <2>1, <3>2, <5>2, <5>3 DEF Orphan, Compared
      <4> QED
        BY <1>1, <3>6, <4>2, <4>3, <4>4, <4>5, EntryMade DEF Pruning
    <3> QED
      BY <2>3, <3>3, <3>4, <3>5, <3>6, Typed, TreeAt, EntryKinds
  <2> QED
    BY <2>2, <2>3
<1> QED
  BY <1>7, <1>8, <1>9, <1>10, <1>11, <1>14, <1>15 DEF MirrorInv

\* What is pruned, at a name.
LEMMA PruneNow ==
  ASSUME MirrorInv, walk = "prune", todo # <<>>
  PROVE  \E d \in Top :
           /\ Now \in ToDo /\ Tail(todo) \in Seq(Work) /\ Fit(Tail(todo)) /\ Elems(Tail(todo)) = ToDo \ {Now}
           /\ \A i \in ToDo \ {Now} : i.p.top # d
           /\ \/ Now = Item("entry", Rel(d)) /\ Now.p = Rel(d)
              \/ Now = Item("entry", RelIn(d)) /\ Now.p = RelIn(d)
<1>1. /\ Tail(todo) \in Seq(Work) /\ Fit(Tail(todo)) /\ Elems(Tail(todo)) = ToDo \ {Now} /\ Now \in ToDo
      /\ \A i \in ToDo \ {Now} : Alike(Now, i) => Follows(Now, i)
  BY NowSound
<1>2. ToDo \subseteq PruneWork
  BY DEF MirrorInv, TodoSound
<1>3. PICK d \in Top : Now \in {Item("entry", Rel(d)), Item("entry", RelIn(d))}
  BY <1>1, <1>2 DEF PruneWork
<1>4. Now.p.top = d
  BY <1>3, WorkShapes
<1>5. \A i \in ToDo : i.act = "entry"
  BY <1>2, WorkShapes DEF PruneWork
<1>6. \A i \in ToDo \ {Now} : i.p.top # d
  BY <1>1, <1>4, <1>5, FollowsOnce DEF Alike
<1> QED
  BY <1>1, <1>3, <1>6, WorkShapes

Modes == {"plain", "special"}

\* The entry goes, and all others stay.
LEMMA Pruned1 ==
  ASSUME MirrorInv, Prune
  PROVE  \E d \in Top :
           /\ walk = "prune" /\ todo # <<>> /\ dst' \in MirrorTree /\ \A c \in Top \ {d} : dst'[c] = dst[c]
           /\ Now \in ToDo /\ todo' \in Seq(Work) /\ Fit(todo') /\ ToDo' = ToDo \ {Now}
           /\ \A i \in ToDo' : i.p.top # d
           /\ \/ Now = Item("entry", Rel(d)) /\ dst'[d] = Absent
              \/ /\ Now = Item("entry", RelIn(d)) /\ dst[d].kind = "dir"
                 /\ \E m \in Modes : dst'[d] = Dir(m, None) /\ (m = dst[d].mode \/ d \in unset')
<1>1. /\ walk = "prune" /\ todo # <<>> /\ todo' = Tail(todo)
      /\ \/ dst' = Put(Now.p, Absent)
         \/ /\ Now.p.x /\ unset' = unset \cup {Now.p.top}
            /\ \E m \in Modes : dst' = [Put(Now.p, Absent) EXCEPT ![Now.p.top].mode = m]
  BY DEF Prune, Doing, StepOver, Modes
<1>2. PICK d \in Top :
           /\ Now \in ToDo /\ Tail(todo) \in Seq(Work) /\ Fit(Tail(todo)) /\ Elems(Tail(todo)) = ToDo \ {Now}
           /\ \A i \in ToDo \ {Now} : i.p.top # d
           /\ \/ Now = Item("entry", Rel(d)) /\ Now.p = Rel(d)
              \/ Now = Item("entry", RelIn(d)) /\ Now.p = RelIn(d)
  BY <1>1, PruneNow
<1>3. todo' \in Seq(Work) /\ Fit(todo') /\ ToDo' = ToDo \ {Now}
  BY <1>1, <1>2 DEF ToDo
<1>4. CASE Now = Item("entry", Rel(d)) /\ Now.p = Rel(d)
  <2>1. /\ Put(Rel(d), Absent) \in MirrorTree /\ Put(Rel(d), Absent)[d] = Absent
        /\ \A c \in Top \ {d} : Put(Rel(d), Absent)[c] = dst[c]
    BY Typed, PutAt, EntryMade
  <2>2. dst' = Put(Rel(d), Absent)
    BY <1>1, <1>4, RelTyped
  <2> QED
    BY <1>1, <1>2, <1>3, <1>4, <2>1, <2>2
<1>5. CASE Now = Item("entry", RelIn(d)) /\ Now.p = RelIn(d)
  <2>1. dst[d].kind = "dir"
    BY <1>1, <1>2, <1>5 DEF MirrorInv, PruneJust
  <2> DEFINE v == None
             e == IF v = None THEN Absent ELSE File(v)
  <2>2. v \in Data \cup {None} /\ v = None /\ e = Absent
    OBVIOUS
  <2>3. e = IF v = None THEN Absent ELSE File(v)
    OBVIOUS
  <2> HIDE DEF v, e
  <2>4. /\ Put(RelIn(d), e) \in MirrorTree /\ Put(RelIn(d), e)[d] = Dir(dst[d].mode, v)
        /\ \A c \in Top \ {d} : Put(RelIn(d), e)[c] = dst[c]
    <3>1. dst \in MirrorTree
      BY Typed
    <3> QED
      BY <2>1, <2>2, <2>3, <3>1, PutInAt
  <2>5. dst[d].mode \in Modes /\ v \in Data \cup {None}
    BY <2>1, <2>2, Typed, TreeAt, EntryKinds DEF Modes
  <2>6. CASE dst' = Put(Now.p, Absent)
    <3>1. dst' = Put(RelIn(d), e)
      BY <1>5, <2>2, <2>6
    <3> QED
      BY <1>1, <1>2, <1>3, <1>5, <2>1, <2>2, <2>4, <2>5, <3>1
  <2>7. ASSUME NEW m \in Modes, unset' = unset \cup {Now.p.top},
               dst' = [Put(Now.p, Absent) EXCEPT ![Now.p.top].mode = m]
        PROVE  /\ dst' \in MirrorTree /\ \A c \in Top \ {d} : dst'[c] = dst[c]
               /\ dst'[d] = Dir(m, None) /\ d \in unset'
    <3> DEFINE t == Put(RelIn(d), e)
               f == Dir(m, v)
    <3>1. Now.p.top = d
      BY <1>5, WorkShapes
    <3>2. t[d] = Dir(dst[d].mode, v) /\ t \in MirrorTree
      BY <2>4
    <3>3. [t[d] EXCEPT !.mode = m] = f
      BY <3>2 DEF Dir
    <3>4. dst' = [t EXCEPT ![d] = f]
      BY <1>5, <2>2, <2>7, <3>1, <3>3
    <3>5. f \in Entries \cup {Special}
      BY <2>5, EntryMade DEF Modes
    <3> HIDE DEF f, t
    <3>6. /\ [t EXCEPT ![d] = f] \in MirrorTree /\ [t EXCEPT ![d] = f][d] = f
          /\ \A c \in Top \ {d} : [t EXCEPT ![d] = f][c] = t[c]
      BY <3>2, <3>5, TreeWith
    <3>7. \A c \in Top \ {d} : t[c] = dst[c]
      BY <2>4 DEF t
    <3>8. f = Dir(m, None)
      BY <2>2 DEF f
    <3> QED
      BY <2>7, <3>1, <3>4, <3>6, <3>7, <3>8
  <2> QED
    BY <1>1, <1>2, <1>3, <1>5, <2>1, <2>6, <2>7
<1> QED
  BY <1>2, <1>4, <1>5

\* What of the invariant is not about the third pass.
LEMMA PruneStep ==
  ASSUME MirrorInv, walk = "prune", walk' = "prune", MirrorTyped', ToDo' \subseteq ToDo, Fit(todo'),
         UNCHANGED <<verb, src, seen, unread, src0, dst0, touched, wrote>>,
         FailSound', PruneJust', PruneWhole'
  PROVE  MirrorInv'
<1>1. verb.name = "syncDelete" /\ ToDo' \subseteq PruneWork
  BY DEF MirrorInv, TodoSound
<1>2. TodoSound'
  BY <1>1 DEF TodoSound
<1>3. SourceSame'
  BY DEF MirrorInv, SourceSame
<1>4. SeenSound' /\ WroteSeen'
  BY DEF MirrorInv, SeenSound, WroteSeen, Syncs
<1>5. StageSound' /\ ArrivedSound' /\ NothingLost'
  BY <1>1 DEF StageSound, ArrivedSound, NothingLost
<1> QED
  BY <1>2, <1>3, <1>4, <1>5 DEF MirrorInv

LEMMA PruneKeeps == MirrorInv /\ Prune => MirrorInv'
<1> SUFFICES ASSUME MirrorInv, Prune
             PROVE  MirrorInv'
  OBVIOUS
<1>1. /\ UNCHANGED <<verb, walk, src, seen, skipped, unread, failed, turns, src0, dst0, touched, wrote, unseen>>
      /\ faults' \in 0..MaxFaults /\ unset \subseteq unset' /\ unset' \subseteq Top
  <2>1. Doing("prune", "entry")
    BY DEF Prune
  <2>2. Now.p.top \in Top
    BY <2>1, PruneNow, RelTyped DEF Doing
  <2> QED
    BY <2>1, <2>2, FaultTyped, Typed DEF Prune, NoFault, notes
<1>2. PICK d \in Top :
           /\ walk = "prune" /\ todo # <<>> /\ dst' \in MirrorTree /\ \A c \in Top \ {d} : dst'[c] = dst[c]
           /\ Now \in ToDo /\ todo' \in Seq(Work) /\ Fit(todo') /\ ToDo' = ToDo \ {Now}
           /\ \A i \in ToDo' : i.p.top # d
           /\ \/ Now = Item("entry", Rel(d)) /\ dst'[d] = Absent
              \/ /\ Now = Item("entry", RelIn(d)) /\ dst[d].kind = "dir"
                 /\ \E m \in Modes : dst'[d] = Dir(m, None) /\ (m = dst[d].mode \/ d \in unset')
  BY Pruned1
<1>3. MirrorTyped'
  BY <1>1, <1>2, Typed, TypedStep
<1>4. FailSound'
  BY <1>1, FailSame
<1>5. \A c \in Top \ {d} :
        /\ Item("entry", Rel(c)) \in ToDo <=> Item("entry", Rel(c)) \in ToDo'
        /\ Item("entry", RelIn(c)) \in ToDo <=> Item("entry", RelIn(c)) \in ToDo'
  <2>1. Now.p.top = d
    BY <1>2, WorkShapes
  <2>2. \A i : i.p.top # d => (i \in ToDo <=> i \in ToDo')
    BY <1>2, <2>1
  <2> QED
    BY <2>2, WorkShapes
<1>6. Item("entry", Rel(d)) \notin ToDo' /\ Item("entry", RelIn(d)) \notin ToDo'
  BY <1>2, WorkShapes
<1>7. PruneJust'
  <2>1. \A c \in Top \ {d} :
          /\ Item("entry", Rel(c)) \in ToDo' =>
               Rel(c) \notin seen /\ (c \in touched \/ src0[c] = Absent) /\ ~Hidden(Rel(c), unseen)
          /\ Item("entry", RelIn(c)) \in ToDo' =>
               /\ RelIn(c) \notin seen /\ dst'[c].kind = "dir" /\ ~Hidden(RelIn(c), unseen)
               /\ c \in touched \/ (X(src0[c]) = None /\ (src0[c].kind = "dir" \/ Root \in skipped))
    BY <1>2, <1>5 DEF MirrorInv, PruneJust
  <2> QED
    BY <1>1, <1>6, <2>1 DEF PruneJust, Hidden
<1>8. PruneWhole'
  <2> SUFFICES ASSUME ~failed, NEW c \in Top \ touched
               PROVE  Pruning(c)'
    BY <1>1 DEF PruneWhole
  <2>1. Pruning(c)
    BY <1>2 DEF MirrorInv, PruneWhole
  <2>5. \A p : Hidden(p, unseen)' <=> Hidden(p, unseen)
    BY <1>1 DEF Hidden
  <2>6. ModeArrived(c, dst[c]) => ModeArrived(c, dst[c])'  \/ dst'[c] # dst[c]
    BY <1>1 DEF ModeArrived
  <2>2. CASE c # d
    <3>1. dst'[c] = dst[c]
      BY <1>2, <2>2
    <3> QED
      BY <1>1, <1>5, <2>1, <2>2, <2>5, <2>6, <3>1 DEF Pruning, SameFile, Syncs
  <2>3. CASE c = d /\ Now = Item("entry", Rel(d)) /\ dst'[d] = Absent
    <3>1. src0[d] = Absent /\ ~Hidden(Rel(d), unseen)
      BY <1>2, <2>3 DEF MirrorInv, PruneJust
    <3> QED
      BY <1>1, <2>3, <2>5, <3>1, EntryMade DEF Pruning
  <2>4. CASE /\ c = d /\ Now = Item("entry", RelIn(d)) /\ dst[d].kind = "dir"
             /\ \E m \in Modes : dst'[d] = Dir(m, None) /\ (m = dst[d].mode \/ d \in unset')
    <3>1. X(src0[d]) = None /\ (src0[d].kind = "dir" \/ Root \in skipped) /\ ~Hidden(RelIn(d), unseen)
      BY <1>2, <2>4 DEF MirrorInv, PruneJust
    <3>2. Root \notin skipped
      BY RelTyped DEF MirrorInv, FailSound
    <3>3. src0[d].kind = "dir"
      BY <3>1, <3>2
    <3>4. dst[d].mode = src0[d].mode \/ d \in unset
      BY <2>1, <2>4, <3>3 DEF Pruning, ModeArrived
    <3>5. PICK m \in Modes : dst'[d] = Dir(m, None) /\ (m = dst[d].mode \/ d \in unset')
      BY <2>4
    <3>6. dst'[d].kind = "dir" /\ dst'[d].mode = m /\ X(dst'[d]) = None
      BY <3>5, EntryMade DEF Modes
    <3>7. ModeArrived(d, dst[d])'
      BY <1>1, <3>4, <3>5, <3>6 DEF ModeArrived
    <3> QED
      BY <1>1, <2>4, <2>5, <3>1, <3>3, <3>6, <3>7, EntryMade DEF Pruning
  <2> QED
    BY <1>2, <2>2, <2>3, <2>4
<1> QED
  BY <1>1, <1>2, <1>3, <1>4, <1>7, <1>8, PruneStep

LEMMA PruneFailsKeeps == MirrorInv /\ PruneFails => MirrorInv'
<1> SUFFICES ASSUME MirrorInv, PruneFails
             PROVE  MirrorInv'
  OBVIOUS
<1>1. /\ walk = "prune" /\ todo # <<>> /\ Fault /\ todo' = Tail(todo) /\ NoteFailure(Now.p)
      /\ UNCHANGED <<verb, walk, src, dst, seen, unread, turns, src0, dst0, touched, wrote, unset, unseen>>
  BY DEF PruneFails, Doing, StepOver, trees, history
<1>2. faults' \in 0..MaxFaults /\ skipped' \subseteq Paths /\ failed' \in BOOLEAN /\ failed' /\ skipped \subseteq skipped'
  BY <1>1, FaultTyped, NoteTyped
<1>3. todo' \in Seq(Work) /\ Fit(todo') /\ ToDo' \subseteq ToDo
  BY <1>1, NowSound DEF ToDo
<1>4. MirrorTyped'
  BY <1>1, <1>2, <1>3, Typed, TypedStep
<1>5. FailSound'
  BY <1>1, <1>2, FailNoted
<1>6. PruneJust'
  BY <1>1, <1>2, <1>3 DEF MirrorInv, PruneJust, Hidden
<1>7. PruneWhole'
  BY <1>2 DEF PruneWhole
<1> QED
  BY <1>1, <1>3, <1>4, <1>5, <1>6, <1>7, PruneStep

LEMMA PrunedKeeps == MirrorInv /\ Pruned => MirrorInv'
<1> SUFFICES ASSUME MirrorInv, Pruned
             PROVE  MirrorInv'
  OBVIOUS
<1>1. /\ walk = "prune" /\ todo = <<>> /\ walk' = Status
      /\ UNCHANGED <<verb, todo, src, dst, seen, skipped, unread, failed, faults, turns, src0, dst0, touched, wrote, unset, unseen>>
  BY DEF Pruned, trees, notes, history
<1>2. ToDo = {} /\ walk' \in {"done", "failed"} /\ (walk' = "done" => ~failed)
  BY <1>1, FitNone DEF ToDo, Status
<1>3. verb.name = "syncDelete"
  BY <1>1 DEF MirrorInv, TodoSound
<1>4. MirrorTyped'
  BY <1>1, <1>2, Typed, TypedStep
<1>5. TodoSound' /\ SourceSame' /\ StageSound' /\ PruneJust' /\ PruneWhole' /\ NothingLost'
  BY <1>1, <1>2, <1>3 DEF TodoSound, SourceSame, StageSound, PruneJust, PruneWhole, NothingLost
<1>6. FailSound'
  BY <1>1, FailSame
<1>7. SeenSound' /\ WroteSeen'
  BY <1>1, <1>2 DEF MirrorInv, SeenSound, WroteSeen, Syncs
<1>8. ArrivedSound'
  <2> SUFFICES ASSUME ~failed, NEW d \in Top \ touched
               PROVE  Arrived(d)'
    BY <1>1, <1>2 DEF ArrivedSound
  <2>1. Pruning(d)
    BY <1>1 DEF MirrorInv, PruneWhole
  <2>2. src0[d].kind = "dir" => Contents(d)
    BY <1>2, <1>3, <2>1 DEF Pruning, Contents, Deletes
  <2>3. Arrived(d)
    <3>1. CASE src0[d] = Special
      BY <1>3, <2>1, <3>1, EntryMade DEF Arrived, Pruning
    <3>2. CASE src0[d] = Absent
      BY <1>2, <1>3, <2>1, <3>2, EntryMade DEF Arrived, Pruning, Deletes
    <3>3. CASE src0[d].kind = "link"
      BY <2>1, <3>3, EntryMade DEF Arrived, Pruning
    <3>4. CASE src0[d].kind = "file"
      BY <2>1, <3>4, EntryMade DEF Arrived, Pruning
    <3>5. CASE src0[d].kind = "dir"
      BY <2>1, <2>2, <3>5, EntryMade DEF Arrived, Pruning
    <3> QED
      BY <3>1, <3>2, <3>3, <3>4, <3>5, Typed, TreeAt, EntryKinds
  <2>4. Arrived(d)' <=> Arrived(d)
    BY <1>1 DEF Arrived, Contents, Deletes, Hidden, ModeArrived, SameFile, Syncs
  <2> QED
    BY <2>3, <2>4
<1> QED
  BY <1>4, <1>5, <1>6, <1>7, <1>8 DEF MirrorInv

-----------------------------------------------------------------------------
(* A move, and what stops a command or goes on beside it.                  *)

\* What a move has carried across is the entry itself, or all of it but its mode.
Carried(d) ==
  \/ src0[d] = dst[d]
  \/ d \in unset /\ src0[d].kind = "dir" /\ dst[d].kind = "dir" /\ X(dst[d]) = X(src0[d])

LEMMA ArrivedMoved ==
  ASSUME MirrorInv, verb.name = "move", NEW d \in Top, Arrived(d)
  PROVE  Carried(d)
<1> DEFINE s == src0[d]
           w == dst[d]
<1>1. dst0[d] = Absent /\ ~Syncs
  BY DEF MirrorInv, FailSound, Syncs
<1>2. s \in Entries \cup {Special} /\ w \in Entries \cup {Special}
  BY Typed, TreeAt
<1>3. CASE s = Special
  BY <1>3, EntryMade DEF Arrived, Carried
<1>4. CASE s = Absent
  BY <1>1, <1>4, EntryMade DEF Arrived, Carried, Deletes
<1>5. CASE s.kind = "link"
  BY <1>5, EntryMade DEF Arrived, Carried
<1>6. CASE s.kind = "file"
  <2>1. w.kind = "file" /\ w.data = s.data
    BY <1>1, <1>6, EntryMade DEF Arrived, SameFile
  <2>2. s = File(s.data) /\ w = File(w.data)
    BY <1>2, <1>6, <2>1, EntryKinds
  <2> QED
    BY <2>1, <2>2 DEF Carried
<1>7. CASE s.kind = "dir"
  <2>1. w.kind = "dir" /\ ModeArrived(d, w) /\ Contents(d)
    BY <1>7, EntryMade DEF Arrived
  <2>2. s = Dir(s.mode, s.x) /\ X(s) = s.x /\ w = Dir(w.mode, w.x) /\ X(w) = w.x
    BY <1>2, <1>7, <2>1, EntryKinds
  <2>3. X(w) = X(s)
    BY <1>1, <2>1, EntryMade DEF Contents, SameFile
  <2> QED
    BY <1>7, <2>1, <2>2, <2>3 DEF Carried, ModeArrived
<1> QED
  BY <1>2, <1>3, <1>4, <1>5, <1>6, <1>7, EntryKinds

\* An entry that is there itself has arrived.
LEMMA MovedArrived ==
  ASSUME MirrorInv, verb.name = "move", NEW d \in Top, dst'[d] = src0[d], UNCHANGED <<verb, src0, dst0>>
  PROVE  Arrived(d)'
<1> DEFINE s == src0[d]
<1>1. dst0[d] = Absent
  BY DEF MirrorInv, FailSound
<1>2. s \in Entries \cup {Special}
  BY Typed, TreeAt
<1>3. \A v : SameFile(v, v)'
  BY DEF SameFile
<1>4. Contents(d)'
  BY <1>1, <1>3, EntryMade DEF Contents
<1>5. s.kind \in {"absent", "special", "file", "link", "dir"} /\ (s = Absent <=> s.kind = "absent")
      /\ (s = Special <=> s.kind = "special")
  BY <1>2, EntryKinds
<1>6. CASE s = Special
  BY <1>6, EntryMade DEF Arrived
<1>7. CASE s = Absent
  BY <1>1, <1>7, EntryMade DEF Arrived, Deletes
<1>8. CASE s.kind \in {"file", "link", "dir"}
  BY <1>3, <1>4, <1>5, <1>8 DEF Arrived, ModeArrived
<1> QED
  BY <1>5, <1>6, <1>7, <1>8

\* A command that is over, or is removing its source, has but this to keep.
LEMMA OverStep ==
  ASSUME MirrorInv, MirrorTyped', walk' \in {"remove", "done", "failed"},
         walk' = "remove" => verb.name = "move", FailSound',
         UNCHANGED <<verb, seen, wrote, src0, touched>>, ArrivedSound', NothingLost'
  PROVE  MirrorInv'
<1>1. TodoSound' /\ SourceSame' /\ StageSound' /\ PruneJust' /\ PruneWhole'
  BY DEF TodoSound, SourceSame, StageSound, PruneJust, PruneWhole
<1>2. SeenSound' /\ WroteSeen'
  BY DEF MirrorInv, SeenSound, WroteSeen, Syncs
<1> QED
  BY <1>1, <1>2 DEF MirrorInv

LEMMA RenameKeeps == MirrorInv /\ Rename => MirrorInv'
<1> SUFFICES ASSUME MirrorInv, Rename
             PROVE  MirrorInv'
  OBVIOUS
<1>1. /\ walk = "write" /\ todo # <<>> /\ verb.name = "move" /\ src' = dst /\ dst' = src
      /\ walk' = "done" /\ todo' = Tail(todo)
      /\ UNCHANGED <<verb, seen, skipped, unread, failed, faults, turns, src0, dst0, touched, wrote, unset, unseen>>
  BY DEF Rename, Doing, StepOver, notes, history
<1>2. Tail(todo) \in Seq(Work)
  BY <1>1, NowPath
<1>3. MirrorTyped'
  BY <1>1, <1>2, Typed, TypedStep
<1>4. FailSound'
  BY <1>1, FailSame
<1>5. \A d \in Top \ touched : dst'[d] = src0[d]
  BY <1>1 DEF MirrorInv, SourceSame
<1>6. ArrivedSound' /\ NothingLost'
  BY <1>1, <1>5, MovedArrived DEF ArrivedSound, NothingLost
<1> QED
  BY <1>1, <1>3, <1>4, <1>6, OverStep

LEMMA RemoveSourceKeeps == MirrorInv /\ RemoveSource => MirrorInv'
<1> SUFFICES ASSUME MirrorInv, RemoveSource
             PROVE  MirrorInv'
  OBVIOUS
<1>1. /\ walk = "remove" /\ todo # <<>> /\ src' = [src EXCEPT ![Now.p.top] = Absent] /\ todo' = Tail(todo)
      /\ UNCHANGED <<verb, walk, dst, seen, skipped, unread, failed, faults, turns, src0, dst0, touched, wrote, unset, unseen>>
  BY DEF RemoveSource, Doing, NoFault, StepOver, notes, history
<1>2. src' \in MirrorTree
  BY <1>1, Typed, EntryMade DEF MirrorTree
<1>3. MirrorTyped'
  BY <1>1, <1>2, NowPath, Typed, TypedStep
<1>4. FailSound'
  BY <1>1, FailSame
<1>5. verb.name = "move"
  BY <1>1 DEF MirrorInv, TodoSound
<1>6. \A d \in Top \ touched : Arrived(d) /\ Carried(d)
  BY <1>1, <1>5, ArrivedMoved DEF MirrorInv, ArrivedSound
<1>7. \A d \in Top : Arrived(d)' <=> Arrived(d)
  BY <1>1 DEF Arrived, Contents, Deletes, Hidden, ModeArrived, SameFile, Syncs
<1>8. ArrivedSound' /\ NothingLost'
  BY <1>1, <1>5, <1>6, <1>7 DEF ArrivedSound, NothingLost, Carried
<1> QED
  BY <1>1, <1>3, <1>4, <1>5, <1>8, OverStep

\* A command that stops where it is.
LEMMA StopsKeeps ==
  ASSUME MirrorInv, walk' \in {"done", "failed"}, walk' = "done" => walk = "remove", faults' \in 0..MaxFaults,
         UNCHANGED <<verb, todo, src, dst, seen, skipped, unread, failed, turns, src0, dst0, touched, wrote, unset, unseen>>
  PROVE  MirrorInv'
<1>1. MirrorTyped'
  BY Typed, TypedStep
<1>2. FailSound'
  BY FailSame
<1>3. NothingLost'
  BY DEF MirrorInv, NothingLost
<1>4. ArrivedSound'
  <2>1. \A d \in Top : Arrived(d)' <=> Arrived(d)
    BY DEF Arrived, Contents, Deletes, Hidden, ModeArrived, SameFile, Syncs
  <2> QED
    BY <2>1 DEF MirrorInv, ArrivedSound
<1> QED
  BY <1>1, <1>2, <1>3, <1>4, OverStep

LEMMA RemoveFailsKeeps == MirrorInv /\ RemoveFails => MirrorInv'
<1> SUFFICES ASSUME MirrorInv, RemoveFails
             PROVE  MirrorInv'
  OBVIOUS
<1>1. /\ Fault /\ walk' = "failed"
      /\ UNCHANGED <<verb, todo, src, dst, seen, skipped, unread, failed, turns, src0, dst0, touched, wrote, unset, unseen>>
  BY DEF RemoveFails, trees, notes, history
<1> QED
  BY <1>1, FaultTyped, StopsKeeps

LEMMA SourceGoneKeeps == MirrorInv /\ SourceGone => MirrorInv'
<1> SUFFICES ASSUME MirrorInv, SourceGone
             PROVE  MirrorInv'
  OBVIOUS
<1>1. /\ walk = "remove" /\ walk' \in {"done", "failed"}
      /\ UNCHANGED <<verb, todo, src, dst, seen, skipped, unread, failed, faults, turns, src0, dst0, touched, wrote, unset, unseen>>
  BY DEF SourceGone, Doing, trees, notes, history
<1> QED
  BY <1>1, Typed, StopsKeeps

LEMMA MirrorInterruptKeeps == MirrorInv /\ Interrupt => MirrorInv'
<1> SUFFICES ASSUME MirrorInv, Interrupt
             PROVE  MirrorInv'
  OBVIOUS
<1>1. /\ walk' = "failed"
      /\ UNCHANGED <<verb, todo, src, dst, seen, skipped, unread, failed, faults, turns, src0, dst0, touched, wrote, unset, unseen>>
  BY DEF Interrupt, trees, notes, history
<1> QED
  BY <1>1, Typed, StopsKeeps

\* What a session changes is held against nobody.
LEMMA TurnKeeps ==
  ASSUME MirrorInv, NEW d \in Top, NEW e \in Turns, Turn(d, e)
  PROVE  MirrorInv'
<1>1. /\ turns < MaxTurns /\ turns' = turns + 1 /\ touched' = touched \cup {d} /\ src' = [src EXCEPT ![d] = e]
      /\ UNCHANGED <<verb, walk, todo, dst, seen, skipped, unread, failed, faults, src0, dst0, wrote, unset, unseen>>
  BY DEF Turn, notes
<1>2. src' \in MirrorTree /\ \A c \in Top \ touched' : src'[c] = src[c] /\ c \notin touched
  <2>1. e \in Entries \cup {Special}
    BY MirrorAssumption
  <2>2. [src EXCEPT ![d] = e] \in MirrorTree /\ \A c \in Top \ {d} : [src EXCEPT ![d] = e][c] = src[c]
    BY <2>1, Typed, TreeWith
  <2> QED
    BY <1>1, <2>2
<1>3. ToDo' = ToDo
  BY <1>1 DEF ToDo
<1>4. MirrorTyped'
  <2>1. turns' \in 0..MaxTurns /\ touched' \subseteq Top
    BY <1>1, MirrorAssumption, Typed
  <2> QED
    BY <1>1, <1>2, <2>1, Typed, TypedStep
<1>5. TodoSound'
  BY <1>1, <1>3 DEF MirrorInv, TodoSound, Syncs
<1>6. SourceSame'
  BY <1>1, <1>2 DEF MirrorInv, SourceSame
<1>7. FailSound'
  BY <1>1, FailSame
<1>8. SeenSound' /\ WroteSeen'
  BY <1>1, <1>3 DEF MirrorInv, SeenSound, WroteSeen, Syncs
<1>9. StageSound'
  <2>1. \A c \in Top : Clear(c)' => Clear(c)
    BY <1>1 DEF Clear
  <2>2. /\ \A c \in Top : \A w : Final(c, w)' <=> Final(c, w)
        /\ \A s, o, w : Filled(s, o, w)' <=> Filled(s, o, w)
    BY <1>1 DEF Final, Filled, SameFile, Syncs, ModeArrived
  <2>3. ToDo' = ToDo /\ \A c \in Top : Busy(c)' <=> Busy(c)
    BY <1>1, <1>3 DEF Busy
  <2>4. \A c \in Top : Stage(c)' <=> Stage(c)
    BY <1>1, <2>2, <2>3 DEF Stage
  <2> QED
    BY <1>1, <2>1, <2>2, <2>4 DEF MirrorInv, StageSound
<1>10. PruneJust'
  BY <1>1, <1>3 DEF MirrorInv, PruneJust, Hidden
<1>11. PruneWhole'
  <2>1. \A c \in Top : Pruning(c)' <=> Pruning(c)
    BY <1>1, <1>3 DEF Pruning, Hidden, ModeArrived, SameFile, Syncs
  <2> QED
    BY <1>1, <2>1 DEF MirrorInv, PruneWhole
<1>12. ArrivedSound'
  <2>1. \A c \in Top : Arrived(c)' <=> Arrived(c)
    BY <1>1 DEF Arrived, Contents, Deletes, Hidden, ModeArrived, SameFile, Syncs
  <2> QED
    BY <1>1, <2>1 DEF MirrorInv, ArrivedSound
<1>13. NothingLost'
  BY <1>1, <1>2 DEF MirrorInv, NothingLost
<1> QED
  BY <1>4, <1>5, <1>6, <1>7, <1>8, <1>9, <1>10, <1>11, <1>12, <1>13 DEF MirrorInv

-----------------------------------------------------------------------------
(* The theorems.                                                           *)

LEMMA MirrorStart == MirrorInit => MirrorInv
<1> SUFFICES ASSUME MirrorInit
             PROVE  MirrorInv
  OBVIOUS
<1> DEFINE none == [n \in Top |-> Absent]
<1>1. PICK s \in Sources, d \in Dests \cup {none} : Starts(s, d)
  BY DEF MirrorInit, SyncStarts, CopyStarts, MoveStarts
<1>2. /\ src = s /\ src0 = s /\ dst = d /\ dst0 = d
      /\ seen = {} /\ skipped = {} /\ unread = FALSE /\ failed = FALSE
      /\ faults = 0 /\ turns = 0 /\ touched = {} /\ wrote = {} /\ unset = {} /\ unseen = {}
      /\ todo = <<RootLevel>>
  BY <1>1 DEF Starts, RootLevel
<1>3. /\ verb \in [name : {"sync", "syncDelete", "copy", "move"}, checksum : BOOLEAN]
      /\ walk \in {"list", "write"} /\ (walk = "list" <=> Syncs)
      /\ verb.name = "move" => dst = none
  <2>1. CASE SyncStarts
    BY <2>1 DEF SyncStarts, Syncs
  <2>2. CASE CopyStarts
    BY <2>2 DEF CopyStarts, Syncs
  <2>3. CASE MoveStarts
    BY <2>3 DEF MoveStarts, Starts, Syncs
  <2> QED
    BY <2>1, <2>2, <2>3 DEF MirrorInit
<1>4. s \in MirrorTree /\ d \in MirrorTree
  <2>1. none \in MirrorTree /\ Tree \subseteq MirrorTree
    BY EntryMade DEF MirrorTree, Tree
  <2> QED
    BY <2>1, MirrorAssumption
<1>5. todo \in Seq(Work) /\ Fit(todo) /\ ToDo = {RootLevel}
  BY <1>2, WorkShapes, FitOne DEF ToDo
<1>6. \A c \in Top : /\ Item("level", Rel(c)) \notin ToDo /\ Item("entry", Rel(c)) \notin ToDo
                     /\ Item("leave", Rel(c)) \notin ToDo /\ Item("entry", RelIn(c)) \notin ToDo
  BY <1>5, WorkShapes, NoneFacts
<1>7. MirrorTyped
  <2>1. 0 \in 0..MaxFaults /\ 0 \in 0..MaxTurns
    BY MirrorAssumption
  <2> QED
    BY <1>2, <1>3, <1>4, <1>5, <2>1 DEF MirrorTyped
<1>8. TodoSound
  <2>1. ToDo \subseteq ListWork /\ ToDo \subseteq WriteWork
    BY <1>5 DEF WriteWork, ListWork
  <2> QED
    BY <1>3, <1>5, <1>6, <2>1 DEF TodoSound
<1>9. SourceSame /\ FailSound
  BY <1>2, <1>3 DEF SourceSame, FailSound
<1>10. SeenSound /\ WroteSeen
  BY <1>2, <1>3, <1>5 DEF SeenSound, WroteSeen
<1>11. StageSound
  <2>1. ASSUME NEW c \in Top
        PROVE  Stage(c)
    BY <1>2, <1>5, <1>6 DEF Stage
  <2> QED
    BY <1>2, <1>3, <2>1 DEF StageSound
<1>12. PruneJust /\ PruneWhole /\ ArrivedSound /\ NothingLost
  BY <1>2, <1>3 DEF PruneJust, PruneWhole, ArrivedSound, NothingLost
<1> QED
  BY <1>7, <1>8, <1>9, <1>10, <1>11, <1>12 DEF MirrorInv

LEMMA MirrorStutters == MirrorInv /\ UNCHANGED mirrorVars => MirrorInv'
<1> SUFFICES ASSUME MirrorInv, UNCHANGED mirrorVars
             PROVE  MirrorInv'
  OBVIOUS
<1>1. UNCHANGED <<verb, walk, todo, src, dst, seen, skipped, unread, failed, faults, turns, src0, dst0, touched, wrote, unset, unseen>>
  BY DEF mirrorVars, trees, notes, history
<1>2. ToDo' = ToDo
  BY <1>1 DEF ToDo
<1>3. MirrorTyped'
  BY <1>1 DEF MirrorInv, MirrorTyped
<1>4. TodoSound' /\ SourceSame' /\ FailSound' /\ SeenSound' /\ WroteSeen'
  BY <1>1, <1>2 DEF MirrorInv, TodoSound, SourceSame, FailSound, SeenSound, WroteSeen, Syncs
<1>5. StageSound'
  <2>1. /\ \A c \in Top : \A w : Final(c, w)' <=> Final(c, w)
        /\ \A s, o, w : Filled(s, o, w)' <=> Filled(s, o, w)
    BY <1>1 DEF Final, Filled, SameFile, Syncs, ModeArrived
  <2>2. \A c \in Top : Stage(c)' <=> Stage(c)
    BY <1>1, <1>2, <2>1 DEF Stage, Busy
  <2> QED
    BY <1>1, <2>1, <2>2 DEF MirrorInv, StageSound, Clear
<1>6. PruneJust' /\ PruneWhole'
  BY <1>1, <1>2 DEF MirrorInv, PruneJust, PruneWhole, Pruning, Hidden, ModeArrived, SameFile, Syncs
<1>7. ArrivedSound' /\ NothingLost'
  BY <1>1 DEF MirrorInv, ArrivedSound, NothingLost, Arrived, Contents, Deletes, Hidden, ModeArrived, SameFile, Syncs
<1> QED
  BY <1>3, <1>4, <1>5, <1>6, <1>7 DEF MirrorInv

LEMMA MirrorInvStep == MirrorInv /\ [MirrorStep]_mirrorVars => MirrorInv'
  BY ListLevelKeeps, ListLevelFailsKeeps, Listed2Keeps, EnterLevelKeeps, EnterLevelFailsKeeps,
     WriteEntryKeeps, WriteEntryFailsKeeps, LeaveLevelKeeps, WriteOverKeeps, LookForExtrasKeeps,
     PruneKeeps, PruneFailsKeeps, PrunedKeeps, RenameKeeps, RemoveSourceKeeps, RemoveFailsKeeps,
     SourceGoneKeeps, TurnKeeps, MirrorInterruptKeeps, MirrorStutters DEF MirrorStep

\* The inductive invariant of `sync`, `copy` and `copy --move`, whatever fails,
\* whatever a session does to the source meanwhile and wherever they stop: how
\* far each entry is, by what the walk still has to do for it.
THEOREM MirrorInvariant == MirrorSpec => []MirrorInv
<1> QED
  BY MirrorStart, MirrorInvStep, PTL DEF MirrorSpec

\* A transfer that exits 0 has carried across every entry nobody changed
\* meanwhile; with --delete the destination holds nothing else.
THEOREM MirrorMirrorsSource == MirrorSpec => []MirrorsSource
<1>1. MirrorInv => MirrorsSource
  BY DEF MirrorInv, ArrivedSound, MirrorsSource, Arrived, ModeArrived
<1> QED
  BY <1>1, MirrorInvariant, PTL

\* Wherever `copy --move` stops, killed or failed, an entry nobody changed
\* meanwhile is whole in one of the two places.
THEOREM MirrorNothingLost == MirrorSpec => []NothingLost
<1>1. MirrorInv => NothingLost
  BY DEF MirrorInv
<1> QED
  BY <1>1, MirrorInvariant, PTL

\* What `sync --delete` takes away it has neither written, nor is it anything the
\* source has had all the time.
LEMMA PruneTakes ==
  ASSUME MirrorInv, Prune, NEW p \in Paths \ {Root}, Found(dst, p) # Absent, Found(dst', p) = Absent
  PROVE  /\ p \notin wrote
         /\ \/ p.top \in touched
            \/ /\ Found(src0, p) = Absent
               /\ dst'[p.top] = Absent \/ src0[p.top].kind = "dir" \/ Root \in skipped
<1>1. PICK d \in Top :
           /\ walk = "prune" /\ \A c \in Top \ {d} : dst'[c] = dst[c] /\ Now \in ToDo
           /\ Now \in ToDo
           /\ \/ Now = Item("entry", Rel(d)) /\ dst'[d] = Absent
              \/ /\ Now = Item("entry", RelIn(d)) /\ dst[d].kind = "dir"
                 /\ \E m \in Modes : dst'[d] = Dir(m, None)
  BY Pruned1
<1>2. p.top \in Top /\ (p = Rel(p.top) \/ p = RelIn(p.top))
  BY PathKinds
<1>3. p.top = d
  <2>1. ASSUME p.top # d
        PROVE  FALSE
    <3>1. dst'[p.top] = dst[p.top]
      BY <1>1, <1>2, <2>1
    <3>2. Found(dst', p) = Found(dst, p)
      BY <1>2, <3>1 DEF Found
    <3> QED
      BY <3>2
  <2> QED
    BY <2>1
<1>4. Syncs /\ \A q \in wrote : q \in seen /\ Rel(q.top) \in seen
  BY <1>1 DEF MirrorInv, TodoSound, WroteSeen, Syncs
<1>5. CASE Now = Item("entry", Rel(d)) /\ dst'[d] = Absent
  <2>1. Rel(d) \notin seen /\ (d \in touched \/ src0[d] = Absent)
    BY <1>1, <1>5 DEF MirrorInv, PruneJust
  <2>2. p \notin wrote
    BY <1>3, <1>4, <2>1
  <2>3. src0[d] = Absent => Found(src0, p) = Absent
    BY <1>2, <1>3, FoundAt, EntryMade
  <2> QED
    BY <1>3, <1>5, <2>1, <2>2, <2>3
<1>6. CASE Now = Item("entry", RelIn(d)) /\ dst[d].kind = "dir" /\ \E m \in Modes : dst'[d] = Dir(m, None)
  <2>1. /\ RelIn(d) \notin seen
        /\ d \in touched \/ (X(src0[d]) = None /\ (src0[d].kind = "dir" \/ Root \in skipped))
    BY <1>1, <1>6 DEF MirrorInv, PruneJust
  <2>2. p = RelIn(d)
    <3>1. PICK m \in Modes : Found(dst', Rel(d)) = Dir(m, None)
      BY <1>6, FoundAt
    <3>2. Dir(m, None) # Absent
      BY EntryMade DEF Dir
    <3> QED
      BY <1>2, <1>3, <3>1, <3>2
  <2>3. X(src0[d]) = None => Found(src0, p) = Absent
    BY <2>2, FoundAt
  <2> QED
    BY <1>3, <1>4, <2>1, <2>2, <2>3
<1> QED
  BY <1>1, <1>5, <1>6

LEMMA PruneSparing ==
  MirrorInv /\ [MirrorStep]_mirrorVars =>
    [walk = "prune" =>
       \A p \in Paths \ {Root} :
         Found(dst, p) # Absent /\ Found(dst', p) = Absent =>
           /\ p \notin wrote
           /\ \/ p.top \in touched
              \/ /\ Found(src0, p) = Absent
                 /\ \/ dst'[p.top] = Absent \/ src0[p.top].kind = "dir"
                    \/ Root \in skipped]_mirrorVars
<1> SUFFICES ASSUME MirrorInv, MirrorStep, walk = "prune", NEW p \in Paths \ {Root},
                    Found(dst, p) # Absent, Found(dst', p) = Absent
             PROVE  /\ p \notin wrote
                    /\ \/ p.top \in touched
                       \/ /\ Found(src0, p) = Absent
                          /\ \/ dst'[p.top] = Absent \/ src0[p.top].kind = "dir"
                             \/ Root \in skipped
  OBVIOUS
<1>1. Prune \/ dst' = dst
  BY DEF MirrorStep, ListLevel, ListLevelFails, Listed2, EnterLevel, EnterLevelFails, WriteEntry,
         WriteEntryFails, LeaveLevel, WriteOver, LookForExtras, PruneFails, Pruned, Rename, RemoveSource,
         RemoveFails, SourceGone, Turn, Interrupt, Doing, trees
<1> QED
  BY <1>1, PruneTakes

\* `sync --delete` takes away nothing the transfer has written, and nothing the
\* source has had all the time, readable or not.
THEOREM MirrorPruneSpares == MirrorSpec => PruneSpares
<1> QED
  BY PruneSparing, MirrorInvariant, PTL DEF MirrorSpec, PruneSpares

-----------------------------------------------------------------------------
(* A path at one end of `copy` or `sync`.                                  *)

USE EndpointAssumption

Maps == [Places -> [Components -> Nodes]]

LEMMA PathParts ==
  ASSUME NEW path \in Seq(Parts), path # <<>>
  PROVE  /\ Head(path) \in Parts /\ Tail(path) \in Seq(Parts)
         /\ Len(Tail(path)) < Len(path) /\ Len(path) \in Nat /\ Len(Tail(path)) \in Nat
         /\ Head(path) # ".." => Head(path) \in Components
  BY DEF Parts

LEMMA Longer ==
  ASSUME NEW S, NEW q \in Seq(S), Len(q) # 0
  PROVE  q # <<>>
  OBVIOUS

LEMMA NodeKinds ==
  ASSUME NEW e \in Nodes
  PROVE  /\ e.is = "dir" => e.room \in Rooms
         /\ e.is = "link" => e.abs \in BOOLEAN /\ e.path \in Seq(Parts)
  BY DEF Nodes

LEMMA AbovePlace ==
  ASSUME NEW map, NEW dir
  PROVE  Above(map, dir) \in Places
  BY DEF Above, Places

---------------------------------------------------------------------------
LookBelow == Before(Looks, [l \in Looks |-> l.fuel], [l \in Looks |-> Len(l.path)])
ViewBelow == Before(Views, [v \in Views |-> v.fuel], [v \in Views |-> Len(v.path)])

LEMMA LookGrounded == Grounded(Looks, LookBelow)
<1>1. [l \in Looks |-> l.fuel] \in [Looks -> Nat] /\ [l \in Looks |-> Len(l.path)] \in [Looks -> Nat]
  BY DEF Looks
<1> QED
  BY <1>1, BeforeGrounded DEF LookBelow

LEMMA ViewGrounded == Grounded(Views, ViewBelow)
<1>1. [v \in Views |-> v.fuel] \in [Views -> Nat] /\ [v \in Views |-> Len(v.path)] \in [Views -> Nat]
  BY DEF Views
<1> QED
  BY <1>1, BeforeGrounded DEF ViewBelow

\* One step of each.
LookStep(map, l, f) ==
  IF l.path = <<>> \/ l.dir = Host THEN l.dir
  ELSE IF Head(l.path) = ".."
    THEN f[Look(Above(map, l.dir), Tail(l.path), l.fuel)]
  ELSE LET e == map[l.dir][Head(l.path)] IN
       IF e.is = "dir" THEN f[Look(e.room, Tail(l.path), l.fuel)]
       ELSE IF e.is = "link" /\ ~e.abs /\ l.fuel > 0
         THEN f[Look(l.dir, e.path \o Tail(l.path), l.fuel - 1)]
       ELSE Host

ViewStep(map, v, f) ==
  IF v.path = <<>> THEN Last(v.dirs)
  ELSE IF Head(v.path) = ".."
    THEN f[View(IF Len(v.dirs) = 1 THEN v.dirs ELSE Front(v.dirs), Tail(v.path), v.fuel)]
  ELSE LET e == map[Last(v.dirs)][Head(v.path)] IN
       IF e.is = "dir" THEN f[View(Append(v.dirs, e.room), Tail(v.path), v.fuel)]
       ELSE IF e.is # "link" THEN f[View(Append(v.dirs, Host), Tail(v.path), v.fuel)]
       ELSE IF v.fuel = 0 THEN Host
       ELSE f[View(IF e.abs THEN <<RootDir>> ELSE v.dirs,
                   e.path \o Tail(v.path), v.fuel - 1)]

LEMMA LookStepDown ==
  ASSUME NEW map \in Maps, NEW l \in Looks, NEW f, NEW g,
         \A m \in Looks : <<m, l>> \in LookBelow => f[m] \in Places /\ f[m] = g[m]
  PROVE  LookStep(map, l, f) \in Places /\ LookStep(map, l, f) = LookStep(map, l, g)
<1> DEFINE p == l.path
           fuel == l.fuel
<1>0. l.dir \in Places /\ p \in Seq(Parts) /\ fuel \in 0..MaxHops
  BY DEF Looks
<1>1. ASSUME NEW dir \in Places, NEW path \in Seq(Parts), NEW n \in 0..MaxHops,
             n < fuel \/ (n = fuel /\ Len(path) < Len(p))
      PROVE  f[Look(dir, path, n)] \in Places /\ f[Look(dir, path, n)] = g[Look(dir, path, n)]
  <2>1. Look(dir, path, n) \in Looks
    BY DEF Look, Looks
  <2>2. Look(dir, path, n).fuel = n /\ Look(dir, path, n).path = path
    BY DEF Look
  <2>3. <<Look(dir, path, n), l>> \in LookBelow
    BY <1>1, <2>1, <2>2 DEF LookBelow, Before
  <2> QED
    BY <2>1, <2>3
<1>2. CASE p = <<>> \/ l.dir = Host
  BY <1>0, <1>2 DEF LookStep
<1>3. CASE p # <<>> /\ l.dir # Host /\ Head(p) = ".."
  <2>1. f[Look(Above(map, l.dir), Tail(p), fuel)] \in Places
        /\ f[Look(Above(map, l.dir), Tail(p), fuel)] = g[Look(Above(map, l.dir), Tail(p), fuel)]
    <3>1. Above(map, l.dir) \in Places
      BY AbovePlace
    <3>2. Tail(p) \in Seq(Parts) /\ Len(Tail(p)) < Len(p)
      BY <1>0, <1>3, PathParts
    <3> QED
      BY <1>0, <1>1, <3>1, <3>2
  <2> QED
    BY <1>3, <2>1 DEF LookStep
<1>4. CASE p # <<>> /\ l.dir # Host /\ Head(p) # ".."
  <2> DEFINE e == map[l.dir][Head(p)]
  <2>1. Head(p) \in Components /\ Tail(p) \in Seq(Parts) /\ Len(Tail(p)) < Len(p)
    BY <1>0, <1>4, PathParts
  <2>2. e \in Nodes
    BY <1>0, <2>1 DEF Maps
  <2>3. CASE e.is = "dir"
    <3>1. e.room \in Places
      BY <2>2, <2>3, NodeKinds DEF Places
    <3>2. f[Look(e.room, Tail(p), fuel)] \in Places /\ f[Look(e.room, Tail(p), fuel)] = g[Look(e.room, Tail(p), fuel)]
      BY <1>0, <1>1, <2>1, <3>1
    <3> QED
      BY <1>4, <2>3, <3>2 DEF LookStep
  <2>4. CASE e.is = "link" /\ ~e.abs /\ fuel > 0
    <3>1. e.path \o Tail(p) \in Seq(Parts) /\ fuel - 1 \in 0..MaxHops /\ fuel - 1 < fuel
      BY <1>0, <2>1, <2>2, <2>4, NodeKinds
    <3> DEFINE m == Look(l.dir, e.path \o Tail(p), fuel - 1)
    <3>2. f[m] \in Places /\ f[m] = g[m]
      BY <1>0, <1>1, <3>1
    <3> QED
      BY <1>4, <2>4, <3>2 DEF LookStep
  <2>5. CASE e.is # "dir" /\ ~(e.is = "link" /\ ~e.abs /\ fuel > 0)
    BY <1>4, <2>5 DEF LookStep, Places
  <2> QED
    BY <2>3, <2>4, <2>5
<1> QED
  BY <1>2, <1>3, <1>4

LEMMA LookedIs ==
  ASSUME NEW map \in Maps, NEW l \in Looks
  PROVE  Looked(map)[l] \in Places /\ Looked(map)[l] = LookStep(map, l, Looked(map))
<1> DEFINE step == [m \in Looks |-> [f \in [Looks -> Places] |-> LookStep(map, m, f)]]
<1>1. step \in [Looks -> [[Looks -> Places] -> Places]]
  <2>1. ASSUME NEW m \in Looks, NEW f \in [Looks -> Places]
        PROVE  LookStep(map, m, f) \in Places
    BY LookStepDown
  <2> QED
    BY <2>1
<1>2. \A m \in Looks : \A f, g \in [Looks -> Places] :
        (\A k \in Looks : <<k, m>> \in LookBelow => f[k] = g[k]) => step[m][f] = step[m][g]
  <2> SUFFICES ASSUME NEW m \in Looks, NEW f \in [Looks -> Places], NEW g \in [Looks -> Places],
                      \A k \in Looks : <<k, m>> \in LookBelow => f[k] = g[k]
               PROVE  step[m][f] = step[m][g]
    OBVIOUS
  <2>1. LookStep(map, m, f) = LookStep(map, m, g)
    BY LookStepDown
  <2> QED
    BY <2>1
<1>3. PICK f \in [Looks -> Places] : \A m \in Looks : f[m] = step[m][f]
  <2>1. Places # {}
    BY DEF Places
  <2>2. StepsUp(Looks, LookBelow, Places, step)
    <3> HIDE DEF step
    <3> QED
      BY <1>1, <1>2 DEF StepsUp
  <2> HIDE DEF step
  <2> QED
    BY <2>1, <2>2, LookGrounded, Recursion
<1>4. f = [m \in Looks |-> LookStep(map, m, f)]
  BY <1>3
<1>5. Looked(map) = [m \in Looks |-> LookStep(map, m, Looked(map))]
  BY <1>4 DEF Looked, LookStep
<1>6. ASSUME NEW m \in Looks
      PROVE  Looked(map)[m] = LookStep(map, m, Looked(map))
  BY <1>5
<1> DEFINE T == {m \in Looks : Looked(map)[m] \in Places}
<1>7. Looks \subseteq T
  <2>1. \A m \in Looks : (\A k \in Looks : <<k, m>> \in LookBelow => k \in T) => m \in T
    BY <1>6, LookStepDown
  <2> HIDE DEF T
  <2> HIDE EndpointAssumption
  <2> QED
    BY <2>1, LookGrounded, GroundedInduct
<1> QED
  BY <1>6, <1>7

LEMMA ViewStepDown ==
  ASSUME NEW map \in Maps, NEW v \in Views, NEW f, NEW g,
         \A m \in Views : <<m, v>> \in ViewBelow => f[m] \in Places /\ f[m] = g[m]
  PROVE  ViewStep(map, v, f) \in Places /\ ViewStep(map, v, f) = ViewStep(map, v, g)
<1> DEFINE p == v.path
           fuel == v.fuel
           ds == v.dirs
<1>0. ds \in Seq(Places) /\ ds # <<>> /\ p \in Seq(Parts) /\ fuel \in 0..MaxHops
  BY DEF Views
<1>1. ASSUME NEW dirs \in Seq(Places), dirs # <<>>, NEW path \in Seq(Parts), NEW n \in 0..MaxHops,
             n < fuel \/ (n = fuel /\ Len(path) < Len(p))
      PROVE  f[View(dirs, path, n)] \in Places /\ f[View(dirs, path, n)] = g[View(dirs, path, n)]
  <2>1. View(dirs, path, n) \in Views
    BY <1>1 DEF View, Views
  <2>2. View(dirs, path, n).fuel = n /\ View(dirs, path, n).path = path
    BY DEF View
  <2>3. <<View(dirs, path, n), v>> \in ViewBelow
    BY <1>1, <2>1, <2>2 DEF ViewBelow, Before
  <2> QED
    BY <2>1, <2>3
<1>2. CASE p = <<>>
  BY <1>0, <1>2 DEF ViewStep, Last
<1>3. CASE p # <<>> /\ Head(p) = ".."
  <2> DEFINE higher == IF Len(ds) = 1 THEN ds ELSE Front(ds)
             m == View(higher, Tail(p), fuel)
  <2>1. higher \in Seq(Places) /\ higher # <<>>
    <3>1. Len(ds) \in Nat /\ Len(ds) >= 1
      BY <1>0
    <3>2. CASE Len(ds) = 1
      BY <1>0, <3>2
    <3>3. CASE Len(ds) # 1
      <4>1. Front(ds) \in Seq(Places) /\ Len(Front(ds)) = Len(ds) - 1
        BY <1>0, <3>1, <3>3 DEF Front
      <4>2. Len(Front(ds)) # 0
        BY <3>1, <3>3, <4>1
      <4>3. Front(ds) # <<>>
        BY <4>1, <4>2, Longer
      <4> QED
        BY <3>3, <4>1, <4>3
    <3> QED
      BY <3>2, <3>3
  <2>2. Tail(p) \in Seq(Parts) /\ Len(Tail(p)) < Len(p)
    BY <1>0, <1>3, PathParts
  <2>3. f[m] \in Places /\ f[m] = g[m]
    <3> HIDE DEF higher
    <3> QED
      BY <1>0, <1>1, <2>1, <2>2
  <2> QED
    BY <1>3, <2>3 DEF ViewStep
<1>4. CASE p # <<>> /\ Head(p) # ".."
  <2> DEFINE e == map[Last(ds)][Head(p)]
  <2>1. Head(p) \in Components /\ Tail(p) \in Seq(Parts) /\ Len(Tail(p)) < Len(p)
    BY <1>0, <1>4, PathParts
  <2>2. e \in Nodes
    <3>1. Last(ds) \in Places
      BY <1>0 DEF Last
    <3> QED
      BY <2>1, <3>1 DEF Maps
  <2>3. CASE e.is = "dir"
    <3>1. Append(ds, e.room) \in Seq(Places) /\ Append(ds, e.room) # <<>>
      BY <1>0, <2>2, <2>3, NodeKinds DEF Places
    <3> DEFINE m == View(Append(ds, e.room), Tail(p), fuel)
    <3>2. f[m] \in Places /\ f[m] = g[m]
      BY <1>0, <1>1, <2>1, <3>1
    <3> QED
      BY <1>4, <2>3, <3>2 DEF ViewStep
  <2>4. CASE e.is # "dir" /\ e.is # "link"
    <3>1. Append(ds, Host) \in Seq(Places) /\ Append(ds, Host) # <<>>
      BY <1>0 DEF Places
    <3> DEFINE m == View(Append(ds, Host), Tail(p), fuel)
    <3>2. f[m] \in Places /\ f[m] = g[m]
      BY <1>0, <1>1, <2>1, <3>1
    <3> QED
      BY <1>4, <2>4, <3>2 DEF ViewStep
  <2>5. CASE e.is = "link" /\ fuel = 0
    BY <1>4, <2>5 DEF ViewStep, Places
  <2>6. CASE e.is = "link" /\ fuel # 0
    <3> DEFINE from == IF e.abs THEN <<RootDir>> ELSE ds
               m == View(from, e.path \o Tail(p), fuel - 1)
    <3>1. e.path \o Tail(p) \in Seq(Parts) /\ fuel - 1 \in 0..MaxHops /\ fuel - 1 < fuel
      BY <1>0, <2>1, <2>2, <2>6, NodeKinds
    <3>2. from \in Seq(Places) /\ from # <<>>
      <4>1. <<RootDir>> \in Seq(Places) /\ <<RootDir>> # <<>>
        BY DEF Places
      <4> QED
        BY <1>0, <4>1
    <3>3. f[m] \in Places /\ f[m] = g[m]
      <4> HIDE DEF from
      <4> QED
        BY <1>0, <1>1, <3>1, <3>2
    <3> QED
      BY <1>4, <2>6, <3>3 DEF ViewStep
  <2> QED
    BY <2>3, <2>4, <2>5, <2>6
<1> QED
  BY <1>2, <1>3, <1>4

LEMMA SeenIs ==
  ASSUME NEW map \in Maps, NEW v \in Views
  PROVE  Seen(map)[v] \in Places /\ Seen(map)[v] = ViewStep(map, v, Seen(map))
<1> DEFINE step == [m \in Views |-> [f \in [Views -> Places] |-> ViewStep(map, m, f)]]
<1>1. step \in [Views -> [[Views -> Places] -> Places]]
  <2>1. ASSUME NEW m \in Views, NEW f \in [Views -> Places]
        PROVE  ViewStep(map, m, f) \in Places
    BY ViewStepDown
  <2> QED
    BY <2>1
<1>2. \A m \in Views : \A f, g \in [Views -> Places] :
        (\A k \in Views : <<k, m>> \in ViewBelow => f[k] = g[k]) => step[m][f] = step[m][g]
  <2> SUFFICES ASSUME NEW m \in Views, NEW f \in [Views -> Places], NEW g \in [Views -> Places],
                      \A k \in Views : <<k, m>> \in ViewBelow => f[k] = g[k]
               PROVE  step[m][f] = step[m][g]
    OBVIOUS
  <2>1. ViewStep(map, m, f) = ViewStep(map, m, g)
    BY ViewStepDown
  <2> QED
    BY <2>1
<1>3. PICK f \in [Views -> Places] : \A m \in Views : f[m] = step[m][f]
  <2>1. Places # {}
    BY DEF Places
  <2>2. StepsUp(Views, ViewBelow, Places, step)
    <3> HIDE DEF step
    <3> QED
      BY <1>1, <1>2 DEF StepsUp
  <2> HIDE DEF step
  <2> QED
    BY <2>1, <2>2, ViewGrounded, Recursion
<1>4. f = [m \in Views |-> ViewStep(map, m, f)]
  BY <1>3
<1>5. Seen(map) = [m \in Views |-> ViewStep(map, m, Seen(map))]
  BY <1>4 DEF Seen, ViewStep
<1>6. ASSUME NEW m \in Views
      PROVE  Seen(map)[m] = ViewStep(map, m, Seen(map))
  BY <1>5
<1> DEFINE T == {m \in Views : Seen(map)[m] \in Places}
<1>7. Views \subseteq T
  <2>1. \A m \in Views : (\A k \in Views : <<k, m>> \in ViewBelow => k \in T) => m \in T
    BY <1>6, ViewStepDown
  <2> HIDE DEF T
  <2> QED
    BY <2>1, ViewGrounded, GroundedInduct
<1> QED
  BY <1>6, <1>7

---------------------------------------------------------------------------
\* A path without links, and the directories it leads through: nowhere, once a
\* name is no directory's.
Onto(map, dir, name) == IF map[dir][name].is = "dir" THEN map[dir][name].room ELSE Host

Trail(map, ds, names) ==
  /\ ds \in Seq(Places) /\ Len(ds) = Len(names) + 1 /\ ds[1] = RootDir
  /\ \A i \in 1..Len(names) :
       map[ds[i]][names[i]].is # "link" /\ ds[i + 1] = Onto(map, ds[i], names[i])

Sound(map) == map \in Maps /\ map[Host] = EmptyRoom

LEMMA TrailHost ==
  ASSUME NEW map, Sound(map), NEW ds, NEW names \in Seq(Components), Trail(map, ds, names),
         NEW k \in 1..Len(ds), ds[k] = Host
  PROVE  Last(ds) = Host
<1> DEFINE n == Len(ds) - k
           S == {i \in 0..n : ds[k + i] = Host}
<1>0. Len(ds) \in Nat /\ Len(names) \in Nat /\ Len(ds) = Len(names) + 1 /\ n \in Nat
  BY DEF Trail
<1>1. 0 \in S
  BY <1>0
<1>2. ASSUME NEW i \in 1..n, i - 1 \in S
      PROVE  i \in S
  <2>1. k + i - 1 \in 1..Len(names) /\ ds[k + i - 1] = Host
    BY <1>0, <1>2
  <2>2. names[k + i - 1] \in Components
    BY <2>1
  <2>3. map[Host][names[k + i - 1]].is = "none"
    BY <2>2 DEF Sound, EmptyRoom, NoEntry
  <2>4. ds[(k + i - 1) + 1] = Onto(map, ds[k + i - 1], names[k + i - 1])
    BY <2>1 DEF Trail
  <2>5. ds[(k + i - 1) + 1] = Host
    BY <2>1, <2>3, <2>4 DEF Onto
  <2> QED
    BY <1>0, <2>5
<1>3. 0..n \subseteq S
  <2> HIDE DEF S, n
  <2> QED
    BY <1>0, <1>1, <1>2, InductTo
<1>4. n \in S
  <2>1. n \in 0..n
    BY <1>0
  <2> HIDE DEF S, n
  <2> QED
    BY <1>3, <2>1
<1> QED
  BY <1>0, <1>4 DEF Last

\* The kernel comes to the end of such a path.
LEMMA LookedTrail ==
  ASSUME NEW map, Sound(map), NEW ds, NEW names \in Seq(Components), Trail(map, ds, names)
  PROVE  Looked(map)[Look(RootDir, names, MaxHops)] = Last(ds)
<1> DEFINE n == Len(names)
           rest(i) == SubSeq(names, i + 1, n)
           at(i) == Look(ds[i + 1], rest(i), MaxHops)
           S == {i \in 0..n : Looked(map)[at(i)] = Last(ds)}
<1>0. n \in Nat /\ Len(ds) = n + 1 /\ ds \in Seq(Places) /\ map \in Maps
  BY DEF Trail, Sound
<1>1. ASSUME NEW i \in 0..n
      PROVE  /\ at(i) \in Looks /\ at(i).dir = ds[i + 1] /\ at(i).path = rest(i) /\ at(i).fuel = MaxHops
             /\ rest(i) \in Seq(Components) /\ Len(rest(i)) = n - i /\ ds[i + 1] \in Places
             /\ i < n => rest(i) # <<>> /\ Head(rest(i)) = names[i + 1] /\ Tail(rest(i)) = rest(i + 1)
  <2>1. rest(i) \in Seq(Components) /\ Len(rest(i)) = n - i
    BY <1>0
  <2>2. rest(i) \in Seq(Parts)
    BY <2>1 DEF Parts
  <2>3. ds[i + 1] \in Places
    BY <1>0
  <2>4. at(i) \in Looks /\ at(i).dir = ds[i + 1] /\ at(i).path = rest(i) /\ at(i).fuel = MaxHops
    <3> HIDE DEF rest
    <3> QED
      BY <2>2, <2>3 DEF Look, Looks
  <2>5. i < n => rest(i) # <<>> /\ Head(rest(i)) = names[i + 1] /\ Tail(rest(i)) = rest(i + 1)
    <3> SUFFICES ASSUME i < n
                 PROVE  rest(i) # <<>> /\ Head(rest(i)) = names[i + 1] /\ Tail(rest(i)) = rest(i + 1)
      OBVIOUS
    <3>1. Tail(rest(i)) \in Seq(Components) /\ Len(Tail(rest(i))) = n - (i + 1)
      <4>1. Len(rest(i)) # 0
        BY <1>0, <2>1
      <4>2. rest(i) # <<>>
        <5> HIDE DEF rest
        <5> QED
          BY <2>1, <4>1, Longer
      <4> HIDE DEF rest
      <4> QED
        BY <1>0, <2>1, <4>2
    <3>2. rest(i + 1) \in Seq(Components) /\ Len(rest(i + 1)) = n - (i + 1)
      BY <1>0
    <3>3. \A j \in 1..(n - (i + 1)) : Tail(rest(i))[j] = rest(i + 1)[j]
      BY <1>0, <2>1
    <3>4. Tail(rest(i)) = rest(i + 1)
      <4> HIDE DEF rest
      <4> QED
        BY <3>1, <3>2, <3>3, SeqEqual
    <3>5. Len(rest(i)) # 0 /\ rest(i)[1] = names[i + 1]
      BY <1>0, <2>1
    <3>6. rest(i) # <<>> /\ Head(rest(i)) = rest(i)[1]
      <4> HIDE DEF rest
      <4> QED
        BY <2>1, <3>5
    <3> QED
      BY <3>4, <3>5, <3>6
  <2> QED
    BY <2>1, <2>3, <2>4, <2>5
<1>2. n \in S
  <2>1. Looked(map)[at(n)] = LookStep(map, at(n), Looked(map))
    <3>1. n \in 0..n
      BY <1>0
    <3>2. at(n) \in Looks
      BY <1>1, <3>1
    <3> HIDE DEF at
    <3> QED
      BY <1>0, <3>2, LookedIs
  <2>2. at(n).path = <<>> /\ at(n).dir = ds[n + 1] /\ n \in 0..n
    BY <1>0, <1>1
  <2> HIDE DEF at
  <2>3. Looked(map)[at(n)] = ds[n + 1]
    BY <2>1, <2>2 DEF LookStep
  <2> QED
    BY <1>0, <2>2, <2>3 DEF Last
<1>3. ASSUME NEW i \in 0..n, i < n, i + 1 \in S
      PROVE  i \in S
  <2>0. i + 1 \in 1..n /\ i + 1 \in 0..n /\ names[i + 1] \in Components /\ names[i + 1] # ".."
    BY <1>0, <1>3
  <2>1. Looked(map)[at(i)] = LookStep(map, at(i), Looked(map))
    BY <1>0, <1>1, LookedIs
  <2>2. /\ at(i).path # <<>> /\ Head(at(i).path) = names[i + 1] /\ Tail(at(i).path) = rest(i + 1)
        /\ at(i).dir = ds[i + 1] /\ at(i).fuel = MaxHops
    BY <1>1, <1>3
  <2>3. CASE ds[i + 1] = Host
    <3>1. Looked(map)[at(i)] = Host
      <4> HIDE DEF at
      <4> QED
        BY <2>1, <2>2, <2>3 DEF LookStep
    <3>2. Last(ds) = Host
      <4>1. i + 1 \in 1..Len(ds)
        BY <1>0, <2>0
      <4> QED
        BY <2>3, <4>1, TrailHost
    <3> QED
      BY <1>3, <3>1, <3>2
  <2>4. CASE ds[i + 1] # Host
    <3> DEFINE e == map[ds[i + 1]][names[i + 1]]
    <3>1. e.is # "link" /\ ds[(i + 1) + 1] = Onto(map, ds[i + 1], names[i + 1])
      BY <2>0 DEF Trail
    <3>2. CASE e.is = "dir"
      <4>1. ds[(i + 1) + 1] = e.room
        BY <3>1, <3>2 DEF Onto
      <4>2. Looked(map)[at(i)] = Looked(map)[Look(e.room, Tail(at(i).path), MaxHops)]
        <5> HIDE DEF at
        <5> QED
          BY <2>0, <2>1, <2>2, <2>4, <3>2 DEF LookStep
      <4>3. Look(e.room, Tail(at(i).path), MaxHops) = at(i + 1)
        BY <2>2, <4>1
      <4> QED
        BY <1>3, <4>2, <4>3
    <3>3. CASE e.is # "dir"
      <4>1. Looked(map)[at(i)] = Host
        <5> HIDE DEF at
        <5> QED
          BY <2>0, <2>1, <2>2, <2>4, <3>1, <3>3 DEF LookStep
      <4>2. ds[(i + 1) + 1] = Host /\ (i + 1) + 1 \in 1..Len(ds)
        BY <1>0, <2>0, <3>1, <3>3 DEF Onto
      <4>3. Last(ds) = Host
        BY <4>2, TrailHost
      <4> QED
        BY <1>3, <4>1, <4>3
    <3> QED
      BY <3>2, <3>3
  <2> QED
    BY <2>3, <2>4
<1>4. 0 \in S
  <2> DEFINE D == {j \in 0..n : n - j \in S}
  <2> HIDE DEF S
  <2>1. 0 \in D
    BY <1>0, <1>2
  <2>2. ASSUME NEW j \in 1..n, j - 1 \in D
        PROVE  j \in D
    <3>1. n - j \in 0..n /\ n - j < n /\ (n - j) + 1 \in S
      BY <1>0, <2>2
    <3> QED
      BY <1>3, <3>1
  <2>3. 0..n \subseteq D
    <3> HIDE DEF D
    <3> QED
      BY <1>0, <2>1, <2>2, InductTo
  <2> QED
    BY <1>0, <2>3
<1>5. at(0) = Look(RootDir, names, MaxHops)
  <2>1. rest(0) = names
    <3>1. rest(0) \in Seq(Components) /\ Len(rest(0)) = n
      BY <1>0, <1>1
    <3>2. \A j \in 1..n : rest(0)[j] = names[j]
      BY <1>0
    <3> HIDE DEF rest
    <3> QED
      BY <3>1, <3>2, SeqEqual
  <2>2. ds[0 + 1] = RootDir
    BY DEF Trail
  <2> QED
    BY <2>1, <2>2
<1> QED
  BY <1>4, <1>5

LEMMA TrailRoot ==
  ASSUME NEW map
  PROVE  Trail(map, <<RootDir>>, <<>>)
  BY DEF Trail, Places

LEMMA TrailUp ==
  ASSUME NEW map, NEW ds, NEW names \in Seq(Components), names # <<>>, Trail(map, ds, names)
  PROVE  Trail(map, Front(ds), Front(names)) /\ Len(ds) # 1
<1>1. /\ Len(names) \in Nat /\ Len(names) # 0 /\ Len(ds) = Len(names) + 1 /\ ds \in Seq(Places)
      /\ ds[1] = RootDir
  BY DEF Trail
<1>2. /\ Len(Front(names)) = Len(names) - 1 /\ Front(names) \in Seq(Components)
      /\ \A i \in 1..(Len(names) - 1) : Front(names)[i] = names[i]
  <2>1. Len(names) - 1 \in 0..Len(names)
    BY <1>1
  <2>2. Front(names) = SubSeq(names, 1, Len(names) - 1)
    BY DEF Front
  <2>3. Len(Front(names)) = Len(names) - 1
    <3> DEFINE k == Len(names) - 1
    <3>1. k \in Nat /\ \A i \in 1..k : names[i] \in Components
      BY <1>1
    <3>2. Len(SubSeq(names, 1, k)) = IF 1 <= k THEN k - 1 + 1 ELSE 0
      <4> HIDE DEF k
      <4> QED
        BY <3>1, SubSeqProperties
    <3>3. Len(SubSeq(names, 1, k)) = k
      <4> HIDE DEF k
      <4> QED
        BY <3>1, <3>2
    <3> QED
      BY <2>2, <3>3
  <2>4. Front(names) \in Seq(Components)
    BY <1>1, <2>1, <2>2
  <2>5. \A i \in 1..(Len(names) - 1) : Front(names)[i] = names[i]
    BY <1>1, <2>1, <2>2
  <2> QED
    BY <2>3, <2>4, <2>5
<1>3. /\ Len(Front(ds)) = Len(names) /\ Front(ds) \in Seq(Places)
      /\ \A i \in 1..Len(names) : Front(ds)[i] = ds[i]
  BY <1>1 DEF Front
<1>4. \A i \in 1..(Len(names) - 1) : map[ds[i]][names[i]].is # "link" /\ ds[i + 1] = Onto(map, ds[i], names[i])
  BY <1>1 DEF Trail
<1>5. \A i \in 1..(Len(names) - 1) : i \in 1..Len(names) /\ i + 1 \in 1..Len(names)
  BY <1>1
<1>6. \A i \in 1..Len(Front(names)) :
        map[Front(ds)[i]][Front(names)[i]].is # "link"
        /\ Front(ds)[i + 1] = Onto(map, Front(ds)[i], Front(names)[i])
  BY <1>2, <1>3, <1>4, <1>5
<1>7. Front(ds)[1] = RootDir
  BY <1>1, <1>3
<1> QED
  BY <1>1, <1>2, <1>3, <1>6, <1>7 DEF Trail

LEMMA TrailOn ==
  ASSUME NEW map, NEW ds, NEW names \in Seq(Components), Trail(map, ds, names), NEW name \in Components,
         map[Last(ds)][name].is # "link", Onto(map, Last(ds), name) \in Places
  PROVE  Trail(map, Append(ds, Onto(map, Last(ds), name)), Append(names, name))
<1> DEFINE d == Onto(map, Last(ds), name)
           es == Append(ds, d)
           more == Append(names, name)
           n == Len(names)
<1>1. n \in Nat /\ Len(ds) = n + 1 /\ ds \in Seq(Places) /\ ds[1] = RootDir /\ Last(ds) = ds[n + 1]
  BY DEF Trail, Last
<1>2. /\ Len(more) = n + 1 /\ more[n + 1] = name /\ \A i \in 1..n : more[i] = names[i]
  BY <1>1
<1>3. d \in Places
  OBVIOUS
<1>4. /\ es \in Seq(Places) /\ Len(es) = n + 2 /\ es[n + 2] = d /\ \A i \in 1..(n + 1) : es[i] = ds[i]
  <2> HIDE DEF d
  <2> QED
    BY <1>1, <1>3
<1>5. \A i \in 1..n : map[ds[i]][names[i]].is # "link" /\ ds[i + 1] = Onto(map, ds[i], names[i])
  BY <1>1 DEF Trail
<1>6. ASSUME NEW i \in 1..Len(more)
      PROVE  map[es[i]][more[i]].is # "link" /\ es[i + 1] = Onto(map, es[i], more[i])
  <2>1. CASE i = n + 1
    <3>1. es[i] = Last(ds) /\ more[i] = name /\ es[i + 1] = d
      <4> HIDE DEF es, more, d
      <4> QED
        BY <1>1, <1>2, <1>4, <2>1
    <3> HIDE DEF es, more
    <3> QED
      BY <3>1
  <2>2. CASE i # n + 1
    <3>1. i \in 1..n /\ i \in 1..(n + 1) /\ i + 1 \in 1..(n + 1)
      BY <1>1, <1>2, <2>2
    <3> HIDE DEF es, more
    <3> QED
      BY <1>2, <1>4, <1>5, <3>1
  <2> QED
    BY <2>1, <2>2
<1>7. es[1] = RootDir /\ Len(es) = Len(more) + 1
  <2> HIDE DEF es, more, d
  <2> QED
    BY <1>1, <1>2, <1>4
<1> HIDE DEF es, more, d
<1>8. Trail(map, es, more)
  BY <1>4, <1>6, <1>7 DEF Trail
<1> QED
  BY <1>8 DEF es, more, d

---------------------------------------------------------------------------
EndpointBase ==
  /\ EndpointTypeOK /\ fd \in Rooms /\ entries[Host] = EmptyRoom
  /\ endpoint = "resolve" => fd = RootDir
  /\ endpoint \in {"pin", "made"} => pending \in Seq(Components)
  /\ endpoint = "made" => asked.create

LEMMA NextEntryNode ==
  ASSUME EndpointBase, pending # <<>>, Head(pending) # ".."
  PROVE  NextEntry \in Nodes
<1>1. Look(RootDir, resolved, MaxHops) \in Looks
  <2>1. resolved \in Seq(Parts)
    BY DEF EndpointBase, EndpointTypeOK, Parts
  <2> QED
    BY <2>1 DEF Look, Looks, Places
<1>2. entries \in Maps
  BY DEF EndpointBase, EndpointTypeOK, Maps
<1>3. Looked(entries)[Look(RootDir, resolved, MaxHops)] \in Places
  BY <1>1, <1>2, LookedIs
<1>4. Head(pending) \in Components
  BY PathParts DEF EndpointBase, EndpointTypeOK
<1> QED
  BY <1>2, <1>3, <1>4 DEF NextEntry, Maps

LEMMA EndpointBaseInit == EndpointInit \/ NoEndpoint => EndpointBase
<1>1. ASSUME EndpointInit
      PROVE  EndpointBase
  <2>1. entries \in [Places -> [Components -> Nodes]] /\ entries[Host] = EmptyRoom
    BY <1>1 DEF EndpointInit
  <2>2. asked \in [path : Seq(Parts), deref : BOOLEAN, inside : BOOLEAN, create : BOOLEAN]
    BY <1>1 DEF EndpointInit
  <2>3. pending \in Seq(Parts)
    <3>1. CASE KeepsName
      <4>1. asked.path \in Seq(Parts) /\ asked.path # <<>>
        BY <2>2, <3>1 DEF KeepsName
      <4>2. Front(asked.path) \in Seq(Parts)
        BY <4>1 DEF Front
      <4> QED
        BY <1>1, <3>1, <4>2 DEF EndpointInit
    <3>2. CASE ~KeepsName
      BY <1>1, <2>2, <3>2 DEF EndpointInit
    <3> QED
      BY <3>1, <3>2
  <2> QED
    BY <1>1, <2>1, <2>2, <2>3 DEF EndpointInit, EndpointBase, EndpointTypeOK, Places
<1>2. ASSUME NoEndpoint
      PROVE  EndpointBase
  <2>1. EmptyRoom \in [Components -> Nodes]
    BY DEF EmptyRoom, NoEntry, Nodes
  <2>2. entries \in [Places -> [Components -> Nodes]] /\ entries[Host] = EmptyRoom
    BY <1>2, <2>1 DEF NoEndpoint, Places
  <2> QED
    BY <1>2, <2>2 DEF NoEndpoint, EndpointBase, EndpointTypeOK, Places
<1> QED
  BY <1>1, <1>2

LEMMA EndpointBaseStep ==
  ASSUME EndpointBase, EndpointStep
  PROVE  EndpointBase'
<1> USE DEF EndpointBase, EndpointTypeOK
<1>0. RootDir \in Places /\ Components \subseteq Parts
  BY DEF Places, Parts
<1>1. CASE ResolveUp
  <2>1. resolved' \in Seq(Components)
    <3>1. resolved # <<>> => Front(resolved) \in Seq(Components)
      BY DEF Front
    <3> QED
      BY <1>1, <3>1 DEF ResolveUp
  <2>2. pending' \in Seq(Parts)
    BY <1>1, PathParts DEF ResolveUp
  <2> QED
    BY <1>1, <2>1, <2>2 DEF ResolveUp
<1>2. CASE ResolveName
  <2>1. pending' \in Seq(Parts) /\ Head(pending) \in Components
    BY <1>2, PathParts DEF ResolveName
  <2>2. resolved' \in Seq(Components)
    BY <1>2, <2>1 DEF ResolveName
  <2> QED
    BY <1>2, <2>1, <2>2 DEF ResolveName
<1>3. CASE ResolveLink
  <2>1. NextEntry \in Nodes
    BY <1>3, NextEntryNode DEF ResolveLink
  <2>2. CASE HopLeft
    <3>1. hops' \in 0..MaxHops
      BY <1>3, <2>2 DEF ResolveLink, HopLeft
    <3>2. resolved' \in Seq(Components)
      <4>1. LinkStart(NextEntry) = <<>> \/ LinkStart(NextEntry) = resolved
        BY DEF LinkStart
      <4>2. resolved' = LinkStart(NextEntry)
        BY <1>3, <2>2 DEF ResolveLink
      <4>3. <<>> \in Seq(Components) /\ resolved \in Seq(Components)
        OBVIOUS
      <4> QED
        BY <4>1, <4>2, <4>3
    <3>3. pending' \in Seq(Parts)
      <4>1. NextEntry.path \in Seq(Parts) /\ Tail(pending) \in Seq(Parts)
        BY <1>3, <2>1, NodeKinds, PathParts DEF ResolveLink
      <4>2. pending' = NextEntry.path \o Tail(pending)
        BY <1>3, <2>2 DEF ResolveLink
      <4> QED
        BY <4>1, <4>2
    <3> QED
      BY <1>3, <2>2, <3>1, <3>2, <3>3 DEF ResolveLink
  <2>3. CASE ~HopLeft
    BY <1>3, <2>3 DEF ResolveLink
  <2> QED
    BY <2>2, <2>3
<1>4. CASE BeginPin
  <2>1. Target \in Seq(Components)
    <3>1. CASE KeepsName
      <4>1. Last(asked.path) \in Components
        <5>1. asked.path \in Seq(Parts) /\ asked.path # <<>>
          BY <3>1 DEF KeepsName
        <5>2. Last(asked.path) \in Parts
          BY <5>1 DEF Last
        <5> QED
          BY <3>1, <5>2 DEF KeepsName, Parts
      <4> QED
        BY <3>1, <4>1 DEF Target
    <3>2. CASE ~KeepsName
      BY <3>2 DEF Target
    <3> QED
      BY <3>1, <3>2
  <2>2. Target # <<>> => Front(Target) \in Seq(Components)
    BY <2>1 DEF Front
  <2>3. resolved' \in Seq(Components) /\ pending' \in Seq(Components)
    BY <1>4, <2>1, <2>2 DEF BeginPin
  <2>4. pending' \in Seq(Parts)
    BY <1>0, <2>3
  <2> QED
    BY <1>4, <2>3, <2>4 DEF BeginPin
<1>5. CASE PinName
  <2>1. Head(pending) \in Components /\ Tail(pending) \in Seq(Components) /\ Tail(pending) \in Seq(Parts)
    BY <1>0, <1>5 DEF PinName
  <2>2. entries[fd][Head(pending)] \in Nodes
    BY <2>1 DEF Places
  <2>3. CASE Steps(fd, Head(pending)) # {}
    <3>1. fd' \in Rooms
      BY <1>5, <2>2, <2>3, NodeKinds DEF PinName, Steps
    <3> QED
      BY <1>5, <2>1, <2>3, <3>1 DEF PinName, Places
  <2>4. CASE /\ Steps(fd, Head(pending)) = {} /\ endpoint = "pin"
             /\ asked.create /\ entries[fd][Head(pending)] = NoEntry /\ Free # {}
    <3>1. PICK r \in Free :
            /\ entries' = [entries EXCEPT ![fd][Head(pending)] = Room(r), ![r] = EmptyRoom]
            /\ endpoint' = "made" /\ UNCHANGED <<fd, pending>>
      BY <1>5, <2>4 DEF PinName
    <3>2. r \in Rooms /\ r # Host /\ fd # Host
      BY DEF Free
    <3>3. EmptyRoom \in [Components -> Nodes] /\ Room(r) \in Nodes
      BY <3>2 DEF EmptyRoom, NoEntry, Room, Nodes
    <3>4. entries' \in [Places -> [Components -> Nodes]]
      BY <2>1, <3>1, <3>3
    <3>5. entries'[Host] = EmptyRoom
      BY <3>1, <3>2 DEF Places
    <3> QED
      BY <1>5, <2>1, <2>4, <3>1, <3>2, <3>4, <3>5 DEF PinName, Places
  <2>5. CASE /\ Steps(fd, Head(pending)) = {}
             /\ ~(endpoint = "pin" /\ asked.create /\ entries[fd][Head(pending)] = NoEntry /\ Free # {})
    BY <1>5, <2>5 DEF PinName
  <2> QED
    BY <2>3, <2>4, <2>5
<1>6. CASE Pinned
  BY <1>6 DEF Pinned
<1>7. ASSUME NEW r \in Rooms, NEW n \in Components, NEW e \in Swaps, Swap(r, n, e)
      PROVE  EndpointBase'
  <2>1. e \in Nodes /\ r # Host
    OBVIOUS
  <2>2. entries' \in [Places -> [Components -> Nodes]] /\ entries'[Host] = EmptyRoom
    BY <1>7, <2>1 DEF Swap, Places
  <2>3. swaps' \in 0..MaxSwaps
    BY <1>7 DEF Swap
  <2> QED
    BY <1>7, <2>2, <2>3 DEF Swap
<1>8. ASSUME NEW r \in Rooms, NEW n \in Components, NEW m \in Components, Exchange(r, n, m)
      PROVE  EndpointBase'
  <2>1. r # Host /\ r \in Places
    BY DEF Places
  <2>2. entries[r][n] \in Nodes /\ entries[r][m] \in Nodes
    BY <2>1
  <2>3. entries' \in [Places -> [Components -> Nodes]] /\ entries'[Host] = EmptyRoom
    BY <1>8, <2>1, <2>2 DEF Exchange, Places
  <2>4. swaps' \in 0..MaxSwaps
    BY <1>8 DEF Exchange
  <2> QED
    BY <1>8, <2>3, <2>4 DEF Exchange
<1> QED
  BY <1>1, <1>2, <1>3, <1>4, <1>5, <1>6, <1>7, <1>8 DEF EndpointStep, Resolving

---------------------------------------------------------------------------
Undisturbed == swaps = 0 /\ asked.inside /\ asked.deref /\ ~asked.create
Sought == Seen(entries)[View(<<RootDir>>, asked.path, MaxHops)]

\* What is resolved so far, with what is left of the path, is seen where the
\* whole path is.
OnTheWay ==
  \E ds : Trail(entries, ds, resolved)
          /\ Sought = Seen(entries)[View(ds, pending, MaxHops - hops)]

\* And the descriptor is on the trail.
Descends ==
  \E ds : /\ Trail(entries, ds, resolved) /\ Sought = Last(ds)
          /\ Len(pending) <= Len(resolved)
          /\ fd = ds[Len(resolved) - Len(pending) + 1]
          /\ \A i \in 1..Len(pending) : pending[i] = resolved[Len(resolved) - Len(pending) + i]

SeenThere ==
  Undisturbed =>
    /\ endpoint = "resolve" => OnTheWay
    /\ endpoint = "pin" => Descends
    /\ endpoint = "pinned" => fd = Sought

EndpointInv == EndpointBase /\ SeenThere

LEMMA SeenThereInit == EndpointInit \/ NoEndpoint => SeenThere
<1>1. ASSUME EndpointInit, Undisturbed
      PROVE  OnTheWay
  <2>1. Trail(entries, <<RootDir>>, resolved)
    BY <1>1, TrailRoot DEF EndpointInit
  <2>2. pending = asked.path /\ MaxHops - hops = MaxHops
    BY <1>1 DEF EndpointInit, Undisturbed, KeepsName
  <2> QED
    BY <2>1, <2>2 DEF OnTheWay, Sought
<1> QED
  BY <1>1 DEF EndpointInit, NoEndpoint, SeenThere

LEMMA ViewIs ==
  ASSUME EndpointBase, NEW ds, Trail(entries, ds, resolved)
  PROVE  LET v == View(ds, pending, MaxHops - hops) IN
         /\ v.dirs = ds /\ v.path = pending /\ v.fuel = MaxHops - hops
         /\ Seen(entries)[v] = ViewStep(entries, v, Seen(entries))
<1> DEFINE v == View(ds, pending, MaxHops - hops)
<1>1. ds \in Seq(Places) /\ ds # <<>>
  <2>1. resolved \in Seq(Components)
    BY DEF EndpointBase, EndpointTypeOK
  <2>2. ds \in Seq(Places) /\ Len(ds) # 0
    BY <2>1 DEF Trail
  <2> QED
    BY <2>2, Longer
<1>2. v \in Views
  BY <1>1 DEF View, Views, EndpointBase, EndpointTypeOK
<1>3. entries \in Maps
  BY DEF EndpointBase, EndpointTypeOK, Maps
<1> QED
  BY <1>2, <1>3, SeenIs DEF View

LEMMA NextEntryOnTrail ==
  ASSUME EndpointBase, NEW ds, Trail(entries, ds, resolved)
  PROVE  NextEntry = entries[Last(ds)][Head(pending)]
<1>1. Sound(entries) /\ resolved \in Seq(Components)
  BY DEF EndpointBase, EndpointTypeOK, Sound, Maps
<1> QED
  BY <1>1, LookedTrail DEF NextEntry

LEMMA SeenThereStep ==
  ASSUME EndpointBase, SeenThere, EndpointStep
  PROVE  SeenThere'
<1> DEFINE fuel == MaxHops - hops
<1>0. /\ entries \in Maps /\ entries[Host] = EmptyRoom
      /\ resolved \in Seq(Components) /\ pending \in Seq(Parts) /\ hops \in 0..MaxHops
  BY DEF EndpointBase, EndpointTypeOK, Maps
<1>1. CASE ResolveUp
  <2> SUFFICES ASSUME Undisturbed'
               PROVE  OnTheWay'
    BY <1>1 DEF ResolveUp, SeenThere
  <2>1. Undisturbed /\ OnTheWay
    BY <1>1 DEF ResolveUp, SeenThere, Undisturbed
  <2>2. PICK ds : Trail(entries, ds, resolved) /\ Sought = Seen(entries)[View(ds, pending, fuel)]
    BY <2>1 DEF OnTheWay
  <2> DEFINE higher == IF Len(ds) = 1 THEN ds ELSE Front(ds)
  <2>3. Sought = Seen(entries)[View(higher, Tail(pending), fuel)]
    BY <1>1, <2>2, ViewIs DEF ResolveUp, ViewStep
  <2>4. Trail(entries, higher, resolved')
    <3>1. CASE resolved = <<>>
      <4>1. Len(ds) = 1
        BY <2>2, <3>1 DEF Trail
      <4> QED
        BY <1>1, <2>2, <3>1, <4>1 DEF ResolveUp
    <3>2. CASE resolved # <<>>
      BY <1>0, <1>1, <2>2, <3>2, TrailUp DEF ResolveUp
    <3> QED
      BY <3>1, <3>2
  <2>5. entries' = entries /\ Sought' = Sought /\ MaxHops - hops' = fuel /\ pending' = Tail(pending)
    BY <1>1 DEF ResolveUp, Sought
  <2> HIDE DEF higher, fuel
  <2> QED
    BY <2>3, <2>4, <2>5 DEF OnTheWay
<1>2. CASE ResolveName
  <2> SUFFICES ASSUME Undisturbed'
               PROVE  OnTheWay'
    BY <1>2 DEF ResolveName, SeenThere
  <2>1. Undisturbed /\ OnTheWay
    BY <1>2 DEF ResolveName, SeenThere, Undisturbed
  <2>2. PICK ds : Trail(entries, ds, resolved) /\ Sought = Seen(entries)[View(ds, pending, fuel)]
    BY <2>1 DEF OnTheWay
  <2> DEFINE name == Head(pending)
             e == entries[Last(ds)][name]
             to == Onto(entries, Last(ds), name)
             on == Append(ds, to)
  <2>3. name \in Components /\ NextEntry = e /\ e \in Nodes /\ e.is # "link"
    BY <1>0, <1>2, <2>2, PathParts, NextEntryOnTrail, NextEntryNode DEF ResolveName
  <2>4. to \in Places
    BY <2>3, NodeKinds DEF Onto, Places
  <2>5. Trail(entries, on, resolved')
    <3>1. resolved' = Append(resolved, name)
      BY <1>2 DEF ResolveName
    <3> QED
      BY <1>0, <2>2, <2>3, <2>4, <3>1, TrailOn
  <2>6. Sought = Seen(entries)[View(on, Tail(pending), fuel)]
    BY <1>2, <2>2, <2>3, ViewIs DEF ResolveName, ViewStep, Onto
  <2>7. entries' = entries /\ Sought' = Sought /\ MaxHops - hops' = fuel /\ pending' = Tail(pending)
    BY <1>2 DEF ResolveName, Sought
  <2> HIDE DEF on, fuel
  <2> QED
    BY <2>5, <2>6, <2>7 DEF OnTheWay
<1>3. CASE ResolveLink
  <2> SUFFICES ASSUME Undisturbed', endpoint' = "resolve"
               PROVE  OnTheWay'
    BY <1>3 DEF ResolveLink, SeenThere
  <2>1. Undisturbed /\ OnTheWay
    BY <1>3 DEF ResolveLink, SeenThere, Undisturbed
  <2>2. PICK ds : Trail(entries, ds, resolved) /\ Sought = Seen(entries)[View(ds, pending, fuel)]
    BY <2>1 DEF OnTheWay
  <2> DEFINE e == entries[Last(ds)][Head(pending)]
             from == IF e.abs THEN <<RootDir>> ELSE ds
  <2>3. NextEntry = e /\ e.is = "link"
    BY <1>3, <2>2, NextEntryOnTrail DEF ResolveLink
  <2>4. /\ HopLeft /\ hops' = hops + 1 /\ resolved' = LinkStart(e)
        /\ pending' = e.path \o Tail(pending)
    BY <1>0, <1>3, <2>3 DEF ResolveLink, HopLeft
  <2>5. fuel # 0 /\ MaxHops - hops' = fuel - 1
    BY <1>0, <2>4 DEF HopLeft
  <2>6. Trail(entries, from, resolved')
    BY <2>2, <2>4, TrailRoot DEF LinkStart
  <2>7. Sought = Seen(entries)[View(from, e.path \o Tail(pending), fuel - 1)]
    BY <1>3, <2>2, <2>3, <2>5, ViewIs DEF ResolveLink, ViewStep
  <2>8. entries' = entries /\ Sought' = Sought
    BY <1>3 DEF ResolveLink, Sought
  <2> HIDE DEF from, fuel, e
  <2> QED
    BY <2>4, <2>5, <2>6, <2>7, <2>8 DEF OnTheWay
<1>4. CASE BeginPin
  <2> SUFFICES ASSUME Undisturbed'
               PROVE  Descends'
    BY <1>4 DEF BeginPin, SeenThere
  <2>1. Undisturbed /\ OnTheWay
    BY <1>4 DEF BeginPin, SeenThere, Undisturbed
  <2>2. PICK ds : Trail(entries, ds, resolved) /\ Sought = Seen(entries)[View(ds, pending, fuel)]
    BY <2>1 DEF OnTheWay
  <2>3. Sought = Last(ds)
    BY <1>4, <2>2, ViewIs DEF BeginPin, ViewStep
  <2>4. resolved' = resolved /\ pending' = resolved /\ entries' = entries /\ Sought' = Sought /\ fd' = fd
    BY <1>4, <2>1 DEF BeginPin, Target, KeepsName, Undisturbed, Sought
  <2>5. Len(pending') <= Len(resolved') /\ Len(resolved') - Len(pending') = 0
    BY <1>0, <2>4
  <2>6. fd' = ds[Len(resolved') - Len(pending') + 1]
    <3>1. fd = ds[1]
      BY <1>4, <2>2 DEF BeginPin, EndpointBase, Trail
    <3> QED
      BY <2>4, <2>5, <3>1
  <2>7. \A i \in 1..Len(pending') : pending'[i] = resolved'[Len(resolved') - Len(pending') + i]
    BY <2>4, <2>5
  <2> QED
    BY <2>2, <2>3, <2>4, <2>5, <2>6, <2>7 DEF Descends
<1>5. CASE PinName
  <2> SUFFICES ASSUME Undisturbed', endpoint' = "pin"
               PROVE  Descends'
    BY <1>5 DEF PinName, SeenThere
  <2>1. Undisturbed /\ Descends
    BY <1>0, <1>5 DEF PinName, SeenThere, Undisturbed, EndpointBase
  <2>2. PICK ds : /\ Trail(entries, ds, resolved) /\ Sought = Last(ds)
                  /\ Len(pending) <= Len(resolved)
                  /\ fd = ds[Len(resolved) - Len(pending) + 1]
                  /\ \A i \in 1..Len(pending) : pending[i] = resolved[Len(resolved) - Len(pending) + i]
    BY <2>1 DEF Descends
  <2> DEFINE k == Len(resolved) - Len(pending)
             name == Head(pending)
  <2>3. /\ Steps(fd, name) # {} /\ fd' \in Steps(fd, name) /\ pending' = Tail(pending)
        /\ entries' = entries /\ resolved' = resolved /\ Sought' = Sought
    BY <1>5, <2>1 DEF PinName, Undisturbed, Sought
  <2>4. pending \in Seq(Components) /\ Len(pending) \in Nat /\ Len(pending) # 0
        /\ Len(resolved) \in Nat /\ k \in Nat
    BY <1>0, <1>5, <2>2 DEF PinName, EndpointBase
  <2>5. name = resolved[k + 1]
    BY <2>2, <2>4
  <2>6. fd' = ds[k + 2]
    <3>1. k + 1 \in 1..Len(resolved)
      BY <2>4
    <3>2. ds[(k + 1) + 1] = Onto(entries, ds[k + 1], resolved[k + 1])
      BY <2>2, <3>1 DEF Trail
    <3>3. fd' = Onto(entries, fd, name)
      BY <2>3 DEF Steps, Onto
    <3>4. (k + 1) + 1 = k + 2
      BY <2>4
    <3> QED
      BY <2>2, <2>5, <3>2, <3>3, <3>4
  <2>7. Len(pending') = Len(pending) - 1 /\ \A i \in 1..Len(pending') : pending'[i] = pending[i + 1]
    BY <2>3, <2>4
  <2>8. \A i \in 1..Len(pending') : pending'[i] = resolved[Len(resolved) - Len(pending') + i]
    <3> SUFFICES ASSUME NEW i \in 1..Len(pending')
                 PROVE  pending'[i] = resolved[Len(resolved) - Len(pending') + i]
      OBVIOUS
    <3>1. i + 1 \in 1..Len(pending) /\ k + (i + 1) = Len(resolved) - Len(pending') + i
      BY <2>4, <2>7
    <3> QED
      BY <2>2, <2>7, <3>1
  <2>9. Len(pending') <= Len(resolved) /\ k + 2 = Len(resolved) - Len(pending') + 1
    BY <2>4, <2>7
  <2> QED
    BY <2>2, <2>3, <2>6, <2>8, <2>9 DEF Descends
<1>6. CASE Pinned
  <2> SUFFICES ASSUME Undisturbed'
               PROVE  fd' = Sought'
    BY <1>6 DEF Pinned, SeenThere
  <2>1. Undisturbed /\ Descends
    BY <1>6 DEF Pinned, SeenThere, Undisturbed
  <2>2. PICK ds : /\ Trail(entries, ds, resolved) /\ Sought = Last(ds)
                  /\ fd = ds[Len(resolved) - Len(pending) + 1]
    BY <2>1 DEF Descends
  <2>3. Len(resolved) - Len(pending) + 1 = Len(ds)
    BY <1>0, <1>6, <2>2 DEF Pinned, Trail
  <2> QED
    BY <1>6, <2>2, <2>3 DEF Pinned, Sought, Last
<1>7. ASSUME swaps' = swaps + 1
      PROVE  SeenThere'
  <2>1. swaps' # 0
    BY <1>7 DEF EndpointBase, EndpointTypeOK
  <2> QED
    BY <2>1 DEF SeenThere, Undisturbed
<1> QED
  BY <1>1, <1>2, <1>3, <1>4, <1>5, <1>6, <1>7
     DEF EndpointStep, Resolving, Swap, Exchange

LEMMA EndpointInvInit == EndpointInit \/ NoEndpoint => EndpointInv
  BY EndpointBaseInit, SeenThereInit DEF EndpointInv

LEMMA EndpointInvStep == EndpointInv /\ [EndpointStep]_endpointVars => EndpointInv'
<1>1. ASSUME EndpointInv, EndpointStep
      PROVE  EndpointInv'
  BY <1>1, EndpointBaseStep, SeenThereStep DEF EndpointInv
<1>2. ASSUME EndpointInv, UNCHANGED endpointVars
      PROVE  EndpointInv'
  <2>1. EndpointBase'
    BY <1>2 DEF EndpointInv, EndpointBase, EndpointTypeOK, endpointVars
  <2>2. SeenThere'
    BY <1>2 DEF EndpointInv, SeenThere, Undisturbed, OnTheWay, Descends, Sought, endpointVars
  <2> QED
    BY <2>1, <2>2 DEF EndpointInv
<1> QED
  BY <1>1, <1>2

\* _resolve_within_root() and pin_path(): while no session has touched the
\* container, what is resolved lies on the trail the container sees, and what is
\* still to be resolved or walked leads where the whole path does.
THEOREM EndpointInvariant == EndpointSpec => []EndpointInv
<1> QED
  BY EndpointInvInit, EndpointInvStep, PTL DEF EndpointSpec

\* Whatever the layout and whatever a session turns its entries into, the walk
\* has a descriptor of a place that exists, counts its hops and resolves names.
THEOREM EndpointTypeCorrect == EndpointSpec => []EndpointTypeOK
<1>1. EndpointInv => EndpointTypeOK
  BY DEF EndpointInv, EndpointBase
<1> QED
  BY <1>1, EndpointInvariant, PTL

LEMMA EndpointInvPins == EndpointInv => PinnedWhereAsked
  BY DEF EndpointInv, EndpointBase, SeenThere, Undisturbed, Sought, PinnedWhereAsked

\* pin_path() pins a directory of the container, whatever a session does; and while
\* it does nothing, the one that the container sees under the path, for any tree of
\* links and any number of hops.
THEOREM PinsWhereAsked == EndpointSpec => []PinnedWhereAsked
<1> QED
  BY EndpointInvPins, EndpointInvariant, PTL

HIDE EndpointAssumption

-----------------------------------------------------------------------------
(* All of them together.                                                   *)

\* Every component is where its own invariant says, or has nothing to do.
TreesInv ==
  /\ BuildInv /\ EndpointInv
  /\ NoStep \/ IInv
  /\ NoMirror \/ MirrorInv
  /\ NoLevels \/ LevelsInv

LEMMA NoStepRests == NoStep /\ [StepStep]_stepVars => NoStep'
<1> SUFFICES ASSUME NoStep, [StepStep]_stepVars
             PROVE  NoStep'
  OBVIOUS
<1>1. \A p \in Procs : proc[p].st = "none"
  BY DEF NoStep, StepStart
<1>2. ~BuildSteps
  BY DEF NoStep, BuildSteps, SeeProotEnd, PollProot, PollAdopted, ListAdopted, ListGroup,
         ProotAnswers, ProotTimesOut
<1>3. \A p \in Procs : ~Exit(p)
  BY <1>1 DEF Exit, Runs
<1>4. ~KernelSteps
  <2>1. DOMAIN proc = Procs /\ Proot \in Procs /\ Command \in Procs
    BY DEF NoStep, StepStart, Procs, Guests
  <2>2. ~Dies
    BY <1>3, <2>1 DEF Dies
  <2> QED
    BY <1>1, <2>1, <2>2 DEF NoStep, KernelSteps, GraceOver, StartCommand, ProotReaps, ProotEnds
<1>5. ~GuestSteps
  <2>1. \A p \in Guests : p \in Procs
    BY DEF Procs
  <2>2. \A k \in Kids : k \in Procs
    BY DEF Procs, Guests
  <2> QED
    BY <1>1, <2>1, <2>2 DEF NoStep, GuestSteps, Fork, Setsid, Abort, AbortAgain
<1>6. UNCHANGED stepVars
  BY <1>2, <1>4, <1>5 DEF StepStep
<1> QED
  BY <1>6 DEF NoStep, stepVars, sweepVars

LEMMA NoStepSound == NoStep => RunStepTypeOK /\ LayerSettled /\ CommandFinishes
<1> SUFFICES ASSUME NoStep
             PROVE  RunStepTypeOK /\ LayerSettled /\ CommandFinishes
  OBVIOUS
<1>1. proc \in [Procs -> Process]
  <2>1. StepStart({}) \in [Procs -> Process]
    BY DEF StepStart, Process, States, Procs
  <2>2. proc = [StepStart({}) EXCEPT ![Proot].st = "none"]
    BY DEF NoStep
  <2>3. Proot \in Procs /\ "none" \in States
    BY DEF Procs, States
  <2>4. [StepStart({})[Proot] EXCEPT !.st = "none"] \in Process
    BY <2>1, <2>3 DEF Process
  <2> QED
    BY <2>1, <2>2, <2>3, <2>4
<1> QED
  BY <1>1 DEF NoStep, RunStepTypeOK, LayerSettled, CommandFinishes

LEMMA NoMirrorRests == NoMirror /\ [MirrorStep]_mirrorVars => UNCHANGED mirrorVars /\ NoMirror'
<1> SUFFICES ASSUME NoMirror, [MirrorStep]_mirrorVars
             PROVE  UNCHANGED mirrorVars /\ NoMirror'
  OBVIOUS
<1>1. walk = "idle"
  BY DEF NoMirror
<1>2. ~MirrorStep
  BY <1>1
     DEF MirrorStep, ListLevel, ListLevelFails, Listed2, EnterLevel, EnterLevelFails, WriteEntry,
         WriteEntryFails, LeaveLevel, WriteOver, LookForExtras, Prune, PruneFails, Pruned, Rename,
         RemoveSource, RemoveFails, SourceGone, Turn, Interrupt, Doing
<1>3. UNCHANGED mirrorVars
  BY <1>2
<1> QED
  BY <1>3 DEF NoMirror, mirrorVars, trees, notes, history

LEMMA NoMirrorSound == NoMirror => MirrorTypeOK /\ MirrorsSource /\ NothingLost
<1> SUFFICES ASSUME NoMirror
             PROVE  MirrorTypeOK /\ MirrorsSource /\ NothingLost
  OBVIOUS
<1>1. src \in MirrorTree /\ dst \in MirrorTree
  BY EntryFrom DEF NoMirror, MirrorTree
<1>2. todo = <<>> /\ Len(todo) = 0
  BY DEF NoMirror
<1>3. 0 \in 0..MaxFaults /\ 0 \in 0..MaxTurns
  BY MirrorAssumption
<1>4. \A i \in 1..Len(todo) : FALSE
  BY <1>2
<1>5. MirrorTypeOK
  BY <1>1, <1>3, <1>4 DEF NoMirror, MirrorTypeOK
<1>6. walk = "idle" /\ verb.name = "sync"
  BY DEF NoMirror
<1> QED
  BY <1>5, <1>6 DEF MirrorsSource, NothingLost

LEMMA MirrorInvSound == MirrorInv => MirrorTypeOK /\ MirrorsSource /\ NothingLost
<1> SUFFICES ASSUME MirrorInv
             PROVE  MirrorTypeOK /\ MirrorsSource /\ NothingLost
  OBVIOUS
<1>1. MirrorTyped
  BY DEF MirrorInv
<1>2. \A i \in 1..Len(todo) : todo[i] \in Work
  BY <1>1, LenProperties DEF MirrorTyped
<1>3. MirrorTypeOK
  BY <1>1, <1>2 DEF MirrorTyped, MirrorTypeOK, Work
<1>4. MirrorsSource /\ NothingLost
  BY DEF MirrorInv, ArrivedSound, MirrorsSource, Arrived, ModeArrived
<1> QED
  BY <1>3, <1>4

LEMMA NoLevelsRests == NoLevels /\ [LevelsStep]_levelVars => UNCHANGED levelVars /\ NoLevels'
  BY DEF NoLevels, LevelsStep, ListDir, ListDirFails, Climb, ClimbOut, Descend, PassBy, Abandon,
         Move, levelVars

LEMMA NoLevelsSound == NoLevels => LevelsTypeOK /\ LevelsHold
<1> SUFFICES ASSUME NoLevels
             PROVE  LevelsTypeOK /\ LevelsHold
  OBVIOUS
<1>1. frames = <<>> /\ Len(frames) = 0 /\ frames \in Seq(Frames)
  BY DEF NoLevels
<1>2. {i \in 1..Len(frames) : frames[i].fd # Nil} = {}
  BY <1>1
<1>3. Cardinality({i \in 1..Len(frames) : frames[i].fd # Nil}) <= OpenLimit + 1
  BY <1>2, FS_EmptySet, LimitNat
<1>4. LevelsHold
  BY <1>1, <1>3 DEF LevelsHold
<1>5. LevelsTypeOK
  BY <1>1, LevelsAssumption DEF NoLevels, LevelsTypeOK
<1> QED
  BY <1>4, <1>5

LEMMA LevelsInvTyped == LevelsInv => LevelsTypeOK
<1> SUFFICES ASSUME LevelsInv
             PROVE  LevelsTypeOK
  OBVIOUS
<1>1. frames \in Seq(Frames) /\ low \in Nat \ {0}
  <2>1. CASE end = "walking"
    <3>1. WalkSound(frames, low)
      BY <2>1 DEF LevelsInv
    <3> QED
      BY <3>1 DEF WalkSound
  <2>2. CASE end # "walking"
    <3>1. frames = <<>> /\ low \in Nat \ {0}
      BY <2>2 DEF LevelsInv
    <3> QED
      BY <3>1, EmptySeq
  <2> QED
    BY <2>1, <2>2
<1> QED
  BY <1>1 DEF LevelsInv, LevelsTypeOK

LEMMA TreesStart == Init => TreesInv
<1> SUFFICES ASSUME Init
             PROVE  TreesInv
  OBVIOUS
<1>1. BuildInv /\ EndpointInv
  BY BuildInvInit, EndpointInvInit DEF Init
<1>2. NoStep \/ IInv
  BY InitIInv DEF Init
<1>3. NoMirror \/ MirrorInv
  BY MirrorStart DEF Init
<1>4. NoLevels \/ LevelsInv
  BY LevelsStart DEF Init
<1> QED
  BY <1>1, <1>2, <1>3, <1>4 DEF TreesInv

\* What one component does, the others sleep through.
LEMMA EachSteps ==
  [Next]_vars => /\ [BuildStep]_buildVars /\ [StepStep]_stepVars /\ [MirrorStep]_mirrorVars
                 /\ [EndpointStep]_endpointVars /\ [LevelsStep]_levelVars
  BY DEF Next, vars

LEMMA TreesKeep == TreesInv /\ [Next]_vars => TreesInv'
<1> SUFFICES ASSUME TreesInv, [Next]_vars
             PROVE  TreesInv'
  OBVIOUS
<1>1. /\ [BuildStep]_buildVars /\ [StepStep]_stepVars /\ [MirrorStep]_mirrorVars
      /\ [EndpointStep]_endpointVars /\ [LevelsStep]_levelVars
  BY EachSteps
<1>2. BuildInv' /\ EndpointInv'
  BY <1>1, BuildInvStep, EndpointInvStep DEF TreesInv
<1>3. NoStep' \/ IInv'
  BY <1>1, NoStepRests, NextIInv DEF TreesInv
<1>4. NoMirror' \/ MirrorInv'
  BY <1>1, NoMirrorRests, MirrorInvStep DEF TreesInv
<1>5. NoLevels' \/ LevelsInv'
  BY <1>1, NoLevelsRests, LevelsStepSound DEF TreesInv
<1> QED
  BY <1>2, <1>3, <1>4, <1>5 DEF TreesInv

\* One command at a time: a build, a RUN step, a transfer, a path or a removal
\* keeps its own invariant, and the rest of the variables stay as they are at rest.
THEOREM TreesInvariant == Spec => []TreesInv
<1> QED
  BY TreesStart, TreesKeep, PTL DEF Spec

\* Every variable keeps its type, whatever the trees, commands, faults, links and
\* moves of a guest.
THEOREM TreesTypeCorrect == Spec => []TypeOK
<1>1. TreesInv => TypeOK
  BY NoStepSound, NoMirrorSound, MirrorInvSound, NoLevelsSound, LevelsInvTyped
     DEF TreesInv, TypeOK, BuildInv, EndpointInv, EndpointBase, IInv
<1> QED
  BY <1>1, TreesInvariant, PTL

\* What holds of a command by itself holds of it among the others.
THEOREM TreesSafe ==
  Spec => [](/\ CleanLayersReplay /\ LayerSettled /\ CommandFinishes
             /\ MirrorsSource /\ NothingLost /\ PinnedWhereAsked /\ LevelsHold)
<1>1. TreesInv => /\ CleanLayersReplay /\ LayerSettled /\ CommandFinishes
                  /\ MirrorsSource /\ NothingLost /\ PinnedWhereAsked /\ LevelsHold
  BY NoStepSound, NoMirrorSound, MirrorInvSound, NoLevelsSound, HoldsInside, EndpointInvPins
     DEF TreesInv, BuildInv, IInv
<1> QED
  BY <1>1, TreesInvariant, PTL

\* So does what a step of `sync --delete` or of a removal may take away.
THEOREM TreesTakeAway == Spec => PruneSpares /\ RemovesTheTree
<1>1. TreesInv /\ [Next]_vars =>
        [walk = "prune" =>
           \A p \in Paths \ {Root} :
             Found(dst, p) # Absent /\ Found(dst', p) = Absent =>
               /\ p \notin wrote
               /\ \/ p.top \in touched
                  \/ /\ Found(src0, p) = Absent
                     /\ \/ dst'[p.top] = Absent \/ src0[p.top].kind = "dir"
                        \/ Root \in skipped]_mirrorVars
  BY EachSteps, NoMirrorRests, PruneSparing DEF TreesInv
<1>2. TreesInv /\ [Next]_vars =>
        [/\ end' = "gone" => \A d \in Dirs \ {Outside} : up'[d] # Nil => ~InTree(d, top)'
         /\ \A d \in Dirs :
              up[d] # Nil /\ up'[d] = Nil =>
                d = top \/ \E i \in 1..Len(frames) : frames[i].dir = up[d]]_levelVars
  BY EachSteps, NoLevelsRests, RemovesSafely DEF TreesInv
<1> QED
  BY <1>1, <1>2, TreesInvariant, PTL DEF Spec, PruneSpares, RemovesTheTree
=============================================================================
