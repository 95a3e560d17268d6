--------------------------- MODULE LockingProofs ---------------------------
(***************************************************************************)
(* Theorems about Locking, for any number of processes, lock files and     *)
(* lock objects, and about DetachedLogin, for any number of logins, spare  *)
(* processes and exclusive commands.                                       *)
(*                                                                         *)
(* Locking: the inductive invariant IInv ties the three places that know   *)
(* about a lock to each other: the Python object, the kernel's open file   *)
(* description, and the process-wide set _held_exclusive.                  *)
(*                                                                         *)
(* DetachedLogin: FamilyInv is about processes and pipes only; KernelInv,  *)
(* about the locks, rests on it: who unlocks a description is the last of  *)
(* its family that could become a session, or was interrupted.             *)
(***************************************************************************)
EXTENDS DetachedLogin, TLAPS

\* At most one description of a file is locked when one is exclusive.
FlockExclusion ==
  \A g, h \in Handle :
    (g # h /\ ofd[g].path = ofd[h].path /\ ofd[g].mode = "EX")
    => ofd[h].mode = "none"

\* A lock object in use has a live owner and a path; one not in use is blank.
LockShape ==
  \A h \in Handle :
    /\ lock[h].st = "none" => lock[h] = NoLock
    /\ lock[h].st # "none" =>
         /\ lock[h].proc \in Proc /\ lock[h].path \in Path
         /\ proc[lock[h].proc] \in {"running", "session"}
    /\ lock[h].st \in {"locked", "failed", "probing"} =>
         /\ proc[lock[h].proc] = "running"
         /\ ~lock[h].reentrant /\ ~lock[h].disowned
    /\ lock[h].st = "locked" => lock[h].path \notin Lockless

\* What a granted object believes is what the kernel holds for it.
OwnerLink ==
  \A h \in Handle : Flocked(h) =>
    /\ ofd[h].path = lock[h].path
    /\ ofd[h].mode = FlockMode(lock[h].excl)
    /\ lock[h].proc \in ofd[h].refs

\* _held_exclusive, entry by entry.
HeldLink ==
  \A p \in Proc, l \in Path : proc[p] = "running" =>
    (l \in heldExclusive[p] <=>
       \E h \in Handle : /\ lock[h].proc = p /\ lock[h].st = "entered"
                         /\ lock[h].path = l /\ lock[h].excl /\ Flocked(h))

\* A re-entrant object always has an outer holder to stand on.
ReentrantLink ==
  \A h \in Handle : (lock[h].st = "entered" /\ lock[h].reentrant) =>
    /\ proc[lock[h].proc] = "running"
    /\ lock[h].path \in heldExclusive[lock[h].proc]

IdleClean ==
  \A p \in Proc : proc[p] = "idle" => heldExclusive[p] = {}

IInv ==
  /\ TypeOK /\ FlockExclusion /\ LockShape /\ OwnerLink
  /\ HeldLink /\ ReentrantLink /\ IdleClean /\ RecordNamesHolder

-----------------------------------------------------------------------------

LEMMA InitIInv == Init => IInv
<1> SUFFICES ASSUME Init PROVE IInv
  OBVIOUS
<1> USE LockingAssumption DEF Init
<1>1. TypeOK
  BY DEF TypeOK, Lock, File, NoLock, NoFile
<1>2. FlockExclusion /\ LockShape /\ IdleClean
  BY DEF FlockExclusion, LockShape, IdleClean, NoLock, NoFile
<1>3. OwnerLink /\ ReentrantLink /\ RecordNamesHolder
  BY DEF OwnerLink, ReentrantLink, RecordNamesHolder, Flocked, NoLock
<1>4. HeldLink
  BY DEF HeldLink, NoLock
<1> QED
  BY <1>1, <1>2, <1>3, <1>4 DEF IInv

\* The records the actions build are well typed.
LEMMA ObjectTyped ==
  ASSUME NEW p \in Proc, NEW l \in Path, NEW x \in BOOLEAN, NEW r \in BOOLEAN,
         NEW s \in {"locked", "entered", "failed", "probing"}
  PROVE  Object(s, p, l, x, r) \in Lock
  BY DEF Lock, Object

LEMMA LockEdited ==
  ASSUME NEW k \in Lock
  PROVE  /\ [k EXCEPT !.st = "entered"] \in Lock
         /\ [k EXCEPT !.disowned = TRUE] \in Lock
  BY DEF Lock

LEMMA BlankTyped == NoLock \in Lock /\ NoFile \in File
  BY DEF Lock, File, NoLock, NoFile

LEMMA FileTyped ==
  ASSUME NEW l \in Path, NEW x \in BOOLEAN, NEW p \in Proc, NEW i \in BOOLEAN
  PROVE  [path |-> l, mode |-> FlockMode(x), refs |-> {p}, inheritable |-> i] \in File
  BY DEF File, FlockMode

LEMMA FileEdited ==
  ASSUME NEW f \in File, NEW p \in Proc
  PROVE  /\ Closed(f, {p}) \in File
         /\ Unlocked(f, p) \in File
         /\ [f EXCEPT !.refs = @ \cup {p}] \in File
  BY DEF Closed, Unlocked, File, NoFile

\* What closing does: a description with another user keeps its path and
\* its lock, one without is gone; unlocking leaves no lock either way.
LEMMA ClosedFacts ==
  ASSUME NEW f \in File, NEW p \in Proc
  PROVE  /\ \/ Closed(f, {p}) = NoFile
            \/ /\ Closed(f, {p}).path = f.path /\ Closed(f, {p}).mode = f.mode
               /\ Closed(f, {p}).refs = f.refs \ {p}
         /\ \A q \in f.refs : q # p => /\ Closed(f, {p}).path = f.path
                                       /\ Closed(f, {p}).mode = f.mode
                                       /\ q \in Closed(f, {p}).refs
  BY DEF Closed, File, NoFile

\* Descriptions that vanish or keep their lock create no conflict.
LEMMA ThinnedExclusion ==
  ASSUME FlockExclusion,
         \A h \in Handle : \/ ofd'[h] = NoFile
                           \/ ofd'[h].path = ofd[h].path /\ ofd'[h].mode = ofd[h].mode
  PROVE  FlockExclusion'
<1> SUFFICES ASSUME NEW g \in Handle, NEW h \in Handle, g # h,
                    ofd'[g].path = ofd'[h].path, ofd'[g].mode = "EX"
             PROVE  ofd'[h].mode = "none"
  BY DEF FlockExclusion
<1>1. ofd'[g].path = ofd[g].path /\ ofd[g].mode = "EX"
  BY DEF NoFile
<1>2. CASE ofd'[h] = NoFile
  BY <1>2 DEF NoFile
<1>3. CASE ofd'[h].path = ofd[h].path /\ ofd'[h].mode = ofd[h].mode
  BY <1>1, <1>3 DEF FlockExclusion
<1> QED
  BY <1>2, <1>3

LEMMA UnlockedMode ==
  ASSUME NEW f \in File, NEW p \in Proc
  PROVE  Unlocked(f, p).mode = "none"
  BY DEF Closed, Unlocked, File, NoFile

-----------------------------------------------------------------------------
(* The steps, one lemma for the acquires that leave the kernel alone and   *)
(* one step per other action.                                              *)

\* acquire() settles without a flock of its own: re-entrant, unlocked, barred
\* or refused.
Settles(p, h, l, x, s, r) ==
  /\ CanConstruct(p, h)
  /\ s = "failed" => ~r
  /\ r <=> l \in heldExclusive[p]
  /\ (s = "entered" /\ ~r) => l \in Lockless
  /\ lock' = [lock EXCEPT ![h] = Object(s, p, l, x, r)]
  /\ UNCHANGED <<proc, ofd, heldExclusive, record>>

LEMMA SettlesStep ==
  ASSUME IInv, NEW p \in Proc, NEW h \in Handle, NEW l \in Path, NEW x \in BOOLEAN,
         NEW s \in {"entered", "failed"}, NEW r \in BOOLEAN,
         Settles(p, h, l, x, s, r)
  PROVE  IInv'
<1> USE LockingAssumption DEF IInv, TypeOK, Settles
<1>1. TypeOK'
  BY ObjectTyped
<1>2. /\ lock'[h] = Object(s, p, l, x, r)
      /\ \A g \in Handle : g # h => lock'[g] = lock[g]
      /\ lock[h] = NoLock
  BY DEF CanConstruct
<1>3. \A g \in Handle : Flocked(g)' => g # h /\ Flocked(g)
  BY <1>2 DEF Flocked, Object
<1>4. \A g \in Handle : Flocked(g) => g # h /\ Flocked(g)'
  BY <1>2 DEF Flocked, NoLock
<1>5. FlockExclusion' /\ IdleClean'
  BY DEF FlockExclusion, IdleClean
<1>6. LockShape'
  BY <1>2 DEF LockShape, CanConstruct, Object
<1>7. OwnerLink' /\ RecordNamesHolder'
  BY <1>2, <1>3 DEF OwnerLink, RecordNamesHolder
<1>8. HeldLink'
  BY <1>2, <1>3, <1>4 DEF HeldLink
<1>9. ReentrantLink'
  BY <1>2 DEF ReentrantLink, CanConstruct, Object
<1> QED
  BY <1>1, <1>5, <1>6, <1>7, <1>8, <1>9

LEMMA AcquireSettles ==
  ASSUME NEW p \in Proc, NEW h \in Handle, NEW l \in Path, NEW x \in BOOLEAN,
         \/ AcquireReentrant(p, h, l, x) \/ AcquireUnlocked(p, h, l, x)
         \/ AcquireBarred(p, h, l, x) \/ AcquireBusy(p, h, l, x)
  PROVE  \E s \in {"entered", "failed"}, r \in BOOLEAN : Settles(p, h, l, x, s, r)
<1>1. CASE AcquireReentrant(p, h, l, x)
  <2>1. Settles(p, h, l, x, "entered", TRUE)
    BY <1>1, Zenon DEF AcquireReentrant, Settles
  <2> QED
    BY <2>1
<1>2. CASE AcquireUnlocked(p, h, l, x)
  <2>1. Settles(p, h, l, x, "entered", FALSE)
    BY <1>2, Zenon DEF AcquireUnlocked, Settles
  <2> QED
    BY <2>1
<1>3. CASE AcquireBarred(p, h, l, x) \/ AcquireBusy(p, h, l, x)
  <2>1. Settles(p, h, l, x, "failed", FALSE)
    BY <1>3, Zenon DEF AcquireBarred, AcquireBusy, Settles
  <2> QED
    BY <2>1
<1> QED
  BY <1>1, <1>2, <1>3

\* flock(2) granted on a fresh description, for acquire() or for a probe.
Granting(p, h, l, x, s, i) ==
  /\ CanConstruct(p, h)
  /\ l \notin Lockless
  /\ Blockers(l, x) = {}
  /\ lock' = [lock EXCEPT ![h] = Object(s, p, l, x, FALSE)]
  /\ ofd' = [ofd EXCEPT ![h] = [path |-> l, mode |-> FlockMode(x),
                                refs |-> {p}, inheritable |-> i]]
  /\ UNCHANGED <<proc, heldExclusive, record>>

LEMMA GrantingStep ==
  ASSUME IInv, NEW p \in Proc, NEW h \in Handle, NEW l \in Path, NEW x \in BOOLEAN,
         NEW s \in {"locked", "probing"}, NEW i \in BOOLEAN,
         Granting(p, h, l, x, s, i)
  PROVE  IInv'
<1> USE LockingAssumption DEF IInv, TypeOK, Granting
<1>1. TypeOK'
  BY ObjectTyped, FileTyped
<1>2. /\ lock'[h] = Object(s, p, l, x, FALSE)
      /\ \A g \in Handle : g # h => lock'[g] = lock[g] /\ ofd'[g] = ofd[g]
      /\ lock[h] = NoLock
      /\ ofd'[h].path = l /\ ofd'[h].mode = FlockMode(x) /\ ofd'[h].refs = {p}
  BY DEF CanConstruct
<1>3. ~Flocked(h) /\ \A g \in Handle : g # h => (Flocked(g)' <=> Flocked(g))
  BY <1>2 DEF Flocked, NoLock
<1>4. FlockExclusion'
  BY <1>2 DEF FlockExclusion, Blockers, FlockMode, File
<1>5. IdleClean'
  BY DEF IdleClean
<1>6. LockShape'
  BY <1>2 DEF LockShape, CanConstruct, Object
<1>7. OwnerLink'
  BY <1>2, <1>3 DEF OwnerLink, Object, FlockMode
<1>8. RecordNamesHolder' /\ HeldLink'
  BY <1>2, <1>3 DEF RecordNamesHolder, HeldLink, Object, NoLock
<1>9. ReentrantLink'
  BY <1>2 DEF ReentrantLink, Object
<1> QED
  BY <1>1, <1>4, <1>5, <1>6, <1>7, <1>8, <1>9

LEMMA AcquireGrants ==
  /\ \A p \in Proc, h \in Handle, l \in Path, x \in BOOLEAN, i \in BOOLEAN :
       AcquireGranted(p, h, l, x, i) => Granting(p, h, l, x, "locked", i)
  /\ \A p \in Proc, h \in Handle, l \in Path :
       Probe(p, h, l) => Granting(p, h, l, FALSE, "probing", FALSE)
<1>1. ASSUME NEW p \in Proc, NEW h \in Handle, NEW l \in Path, NEW x \in BOOLEAN,
             NEW i \in BOOLEAN, AcquireGranted(p, h, l, x, i)
      PROVE  Granting(p, h, l, x, "locked", i)
  BY <1>1, Zenon DEF AcquireGranted, Granting
<1>2. ASSUME NEW p \in Proc, NEW h \in Handle, NEW l \in Path, Probe(p, h, l)
      PROVE  Granting(p, h, l, FALSE, "probing", FALSE)
  BY <1>2, Zenon DEF Probe, Granting
<1> QED
  BY <1>1, <1>2

LEMMA WriteRecordStep ==
  ASSUME IInv, NEW p \in Proc, NEW h \in Handle, WriteRecord(p, h)
  PROVE  IInv'
<1> USE LockingAssumption DEF IInv, TypeOK, WriteRecord
<1>1. PICK r \in {p, None} : record' = [record EXCEPT ![lock[h].path] = r]
  OBVIOUS
<1>2. /\ lock'[h] = [lock[h] EXCEPT !.st = "entered"]
      /\ \A g \in Handle : g # h => lock'[g] = lock[g]
      /\ lock[h].path \in Path /\ ~lock[h].reentrant
      /\ lock[h].path \notin Lockless /\ lock[h].st = "locked"
  BY DEF LockShape
<1>3. /\ lock'[h].st = "entered" /\ lock'[h].path = lock[h].path
      /\ lock'[h].proc = p /\ lock'[h].excl = lock[h].excl
      /\ lock'[h].reentrant = lock[h].reentrant
  BY <1>2 DEF Lock
<1>4. \A g \in Handle : Flocked(g)' <=> Flocked(g)
  BY <1>2, <1>3 DEF Flocked
<1>5. TypeOK'
  <2>1. lock' \in [Handle -> Lock]
    BY LockEdited
  <2>2. record' \in [Path -> Proc \cup {None}]
    BY <1>1
  <2>3. heldExclusive' \in [Proc -> SUBSET Path]
    BY <1>2
  <2> QED
    BY <2>1, <2>2, <2>3
<1>6. FlockExclusion' /\ IdleClean'
  BY DEF FlockExclusion, IdleClean
<1>7. LockShape'
  BY <1>2, <1>3 DEF LockShape
<1>8. OwnerLink'
  BY <1>2, <1>3, <1>4 DEF OwnerLink
<1>9. Flocked(h)
  BY <1>2 DEF Flocked
<1>10. \A q \in Proc, k \in Path :
         k \in heldExclusive'[q] <=>
           k \in heldExclusive[q] \/ (q = p /\ k = lock[h].path /\ lock[h].excl)
  BY <1>2
<1>11. HeldLink'
  BY <1>2, <1>3, <1>4, <1>9, <1>10 DEF HeldLink
<1>12. ReentrantLink'
  BY <1>2, <1>3, <1>10 DEF ReentrantLink, LockShape
<1>13. RecordNamesHolder'
  \* Only one description of the file can be locked while one is exclusive,
  \* so the line just written belongs to the only exclusive holder there is.
  <2>1. SUFFICES ASSUME NEW g \in Handle, g # h, lock[g].st = "entered",
                        lock[g].excl, Flocked(g)
                 PROVE  lock[g].path # lock[h].path
    BY <1>1, <1>2, <1>3, <1>4 DEF RecordNamesHolder
  <2> QED
    BY <2>1, <1>9 DEF OwnerLink, FlockExclusion, FlockMode
<1> QED
  BY <1>5, <1>6, <1>7, <1>8, <1>11, <1>12, <1>13

LEMMA DisownStep ==
  ASSUME IInv, NEW p \in Proc, NEW h \in Handle, Disown(p, h)
  PROVE  IInv'
<1> USE LockingAssumption DEF IInv, TypeOK, Disown
<1>1. TypeOK'
  BY LockEdited
<1>2. /\ lock'[h].st = lock[h].st /\ lock'[h].path = lock[h].path
      /\ lock'[h].proc = lock[h].proc /\ lock'[h].excl = lock[h].excl
      /\ lock'[h].reentrant = lock[h].reentrant
      /\ \A g \in Handle : g # h => lock'[g] = lock[g]
  BY DEF Lock
<1>3. \A g \in Handle : Flocked(g)' <=> Flocked(g)
  BY <1>2 DEF Flocked
<1>4. FlockExclusion' /\ IdleClean'
  BY DEF FlockExclusion, IdleClean
<1>5. LockShape' /\ ReentrantLink'
  BY <1>2 DEF LockShape, ReentrantLink
<1>6. OwnerLink' /\ RecordNamesHolder'
  BY <1>2, <1>3 DEF OwnerLink, RecordNamesHolder
<1>7. HeldLink'
  BY <1>2, <1>3 DEF HeldLink
<1> QED
  BY <1>1, <1>4, <1>5, <1>6, <1>7

LEMMA ReleaseStep ==
  ASSUME IInv, NEW p \in Proc, NEW h \in Handle, Release(p, h)
  PROVE  IInv'
<1> USE LockingAssumption DEF IInv, TypeOK
<1>1. /\ lock[h].st = "entered" /\ lock[h].proc = p /\ proc[p] = "running"
      /\ lock' = [lock EXCEPT ![h] = NoLock] /\ UNCHANGED <<proc, record>>
      /\ Innermost(h)
  BY DEF Release
<1>2. \A g \in Handle : g # h => lock'[g] = lock[g]
  BY <1>1
<1>3. lock'[h] = NoLock /\ ~Flocked(h)'
  BY <1>1 DEF Flocked, NoLock
<1>4. \A g \in Handle : g # h => (Flocked(g)' <=> Flocked(g))
  BY <1>2 DEF Flocked
<1>5. lock' \in [Handle -> Lock] /\ LockShape'
  BY <1>1, <1>2, <1>3, BlankTyped DEF LockShape, NoLock
<1>6. CASE lock[h].reentrant
  \* Neither the kernel nor _held_exclusive is touched.
  <2>1. UNCHANGED <<ofd, heldExclusive>>
    BY <1>6, Zenon DEF Release
  <2>2. ~Flocked(h)
    BY <1>6 DEF Flocked
  <2>3. FlockExclusion' /\ IdleClean'
    BY <1>1, <2>1 DEF FlockExclusion, IdleClean
  <2>4. OwnerLink' /\ RecordNamesHolder'
    BY <1>1, <1>2, <1>3, <1>4, <2>1 DEF OwnerLink, RecordNamesHolder
  <2>5. HeldLink'
    BY <1>1, <1>2, <1>3, <1>4, <2>1, <2>2 DEF HeldLink
  <2>6. ReentrantLink'
    BY <1>1, <1>2, <1>3, <2>1 DEF ReentrantLink, NoLock
  <2> QED
    BY <1>1, <1>5, <2>1, <2>3, <2>4, <2>5, <2>6
<1>7. CASE ~lock[h].reentrant
  <2>1. /\ heldExclusive' = IF lock[h].excl
                              THEN [heldExclusive EXCEPT ![p] = @ \ {lock[h].path}]
                              ELSE heldExclusive
        /\ ofd' = [ofd EXCEPT ![h] = IF lock[h].disowned
                                       THEN Closed(@, {p}) ELSE Unlocked(@, p)]
    BY <1>7, Zenon DEF Release
  <2>2. ofd'[h] \in {Closed(ofd[h], {p}), Unlocked(ofd[h], p)}
    BY <2>1
  <2>3. \A g \in Handle : g # h => ofd'[g] = ofd[g]
    BY <2>1
  <2>4. \A q \in Proc, k \in Path :
          k \in heldExclusive'[q] <=>
            k \in heldExclusive[q] /\ ~(q = p /\ k = lock[h].path /\ lock[h].excl)
    BY <2>1
  <2>5. \/ ofd'[h].mode = "none"
        \/ ofd'[h].path = ofd[h].path /\ ofd'[h].mode = ofd[h].mode
    <3>1. ofd[h] \in File /\ NoFile.mode = "none"
      BY DEF NoFile
    <3>2. CASE ofd'[h] = Closed(ofd[h], {p})
      BY <3>1, <3>2, ClosedFacts
    <3>3. CASE ofd'[h] = Unlocked(ofd[h], p)
      BY <3>1, <3>3, UnlockedMode, Zenon
    <3> QED
      BY <2>2, <3>2, <3>3
  <2>6. ofd' \in [Handle -> File] /\ heldExclusive' \in [Proc -> SUBSET Path]
    BY <2>1, <2>2, FileEdited
  <2>7. FlockExclusion'
    BY <2>3, <2>5 DEF FlockExclusion, File
  <2>8. IdleClean'
    BY <1>1, <2>4, <2>6 DEF IdleClean
  <2>9. OwnerLink' /\ RecordNamesHolder'
    BY <1>1, <1>2, <1>3, <1>4, <2>3 DEF OwnerLink, RecordNamesHolder
  <2>10. HeldLink'
    \* A second exclusive holder of the same file would be excluded by flock.
    <3>1. ASSUME NEW g \in Handle, g # h, Flocked(g), Flocked(h),
                 lock[g].excl, lock[h].excl
          PROVE  lock[g].path # lock[h].path
      BY <3>1 DEF OwnerLink, FlockExclusion, FlockMode
    <3>2. lock[h].path \notin Lockless => Flocked(h)
      BY <1>1, <1>7 DEF Flocked
    <3>3. \A g \in Handle : Flocked(g) => lock[g].path \notin Lockless
      BY DEF Flocked
    <3> QED
      BY <1>1, <1>2, <1>3, <1>4, <2>4, <3>1, <3>2, <3>3 DEF HeldLink, NoLock
  <2>11. ReentrantLink'
    BY <1>1, <1>2, <1>3, <1>7, <2>4 DEF ReentrantLink, Innermost, LockShape, NoLock
  <2> QED
    BY <1>1, <1>5, <2>6, <2>7, <2>8, <2>9, <2>10, <2>11
<1> QED
  BY <1>6, <1>7

LEMMA ProbeDoneStep ==
  ASSUME IInv, NEW p \in Proc, NEW h \in Handle, ProbeDone(p, h)
  PROVE  IInv'
<1> USE LockingAssumption DEF IInv, TypeOK, ProbeDone
<1>1. TypeOK'
  BY BlankTyped, FileEdited
<1>2. /\ lock'[h] = NoLock /\ ofd'[h] = Unlocked(ofd[h], p)
      /\ \A g \in Handle : g # h => lock'[g] = lock[g] /\ ofd'[g] = ofd[g]
  OBVIOUS
<1>3. ~Flocked(h) /\ \A g \in Handle : Flocked(g)' <=> Flocked(g)
  BY <1>2 DEF Flocked, NoLock
<1>4. FlockExclusion'
  <2>1. ofd'[h].mode = "none"
    BY <1>2, UnlockedMode
  <2> QED
    BY <1>2, <2>1 DEF FlockExclusion
<1>5. LockShape' /\ ReentrantLink' /\ IdleClean'
  BY <1>2 DEF LockShape, ReentrantLink, IdleClean, NoLock
<1>6. OwnerLink' /\ RecordNamesHolder'
  BY <1>2, <1>3 DEF OwnerLink, RecordNamesHolder, NoLock
<1>7. HeldLink'
  BY <1>2, <1>3 DEF HeldLink, NoLock
<1> QED
  BY <1>1, <1>4, <1>5, <1>6, <1>7

\* Processes.  The descriptions they share change only in refs, or vanish.
LEMMA StartStep ==
  ASSUME IInv, NEW p \in Proc, Start(p)
  PROVE  IInv'
<1> USE LockingAssumption DEF IInv, TypeOK, Start
<1>1. TypeOK' /\ FlockExclusion' /\ IdleClean'
  BY DEF FlockExclusion, IdleClean
<1>2. \A h \in Handle : Flocked(h)' <=> Flocked(h)
  BY DEF Flocked
<1>3. LockShape' /\ ReentrantLink'
  BY DEF LockShape, ReentrantLink
<1>4. OwnerLink' /\ RecordNamesHolder'
  BY <1>2 DEF OwnerLink, RecordNamesHolder
<1>5. HeldLink'
  \* The starting process held nothing and owned no lock object.
  <2>1. heldExclusive[p] = {}
    BY DEF IdleClean
  <2>2. \A h \in Handle : lock[h].st = "entered" => lock[h].proc # p
    BY DEF LockShape
  <2> QED
    BY <1>2, <2>1, <2>2 DEF HeldLink
<1> QED
  BY <1>1, <1>3, <1>4, <1>5

LEMMA ForkStep ==
  ASSUME IInv, NEW p \in Proc, NEW c \in Proc, Fork(p, c)
  PROVE  IInv'
<1> USE LockingAssumption DEF IInv, TypeOK, Fork
<1>1. TypeOK'
  BY FileEdited
<1>2. \A h \in Handle : /\ ofd'[h].path = ofd[h].path /\ ofd'[h].mode = ofd[h].mode
                        /\ ofd[h].refs \subseteq ofd'[h].refs
  BY DEF File
<1>3. \A h \in Handle : Flocked(h)' <=> Flocked(h)
  BY DEF Flocked
<1>4. FlockExclusion'
  BY <1>2 DEF FlockExclusion
<1>5. \A h \in Handle : lock[h].st # "none" => lock[h].proc # c
  BY DEF LockShape
<1>6. LockShape'
  BY <1>5 DEF LockShape
<1>7. OwnerLink' /\ RecordNamesHolder'
  BY <1>2, <1>3 DEF OwnerLink, RecordNamesHolder
<1>8. HeldLink' /\ ReentrantLink' /\ IdleClean'
  BY <1>3, <1>5 DEF HeldLink, ReentrantLink, LockShape, IdleClean
<1> QED
  BY <1>1, <1>4, <1>6, <1>7, <1>8

LEMMA ExecStep ==
  ASSUME IInv, NEW p \in Proc, Exec(p)
  PROVE  IInv'
<1> USE LockingAssumption DEF IInv, TypeOK, Exec
<1>1. TypeOK'
  BY FileEdited
<1>2. \A h \in Handle : ofd'[h] = ofd[h] \/ ofd'[h] = Closed(ofd[h], {p})
  OBVIOUS
<1>3. ASSUME NEW h \in Handle
      PROVE  \/ ofd'[h] = NoFile
             \/ ofd'[h].path = ofd[h].path /\ ofd'[h].mode = ofd[h].mode
  <2>1. ofd[h] \in File
    OBVIOUS
  <2> QED
    BY <1>2, <2>1, ClosedFacts, Zenon
<1>4. FlockExclusion'
  BY <1>3, ThinnedExclusion
<1>5. \A h \in Handle : Flocked(h)' <=> Flocked(h)
  BY DEF Flocked
<1>6. LockShape'
  BY DEF LockShape
<1>7. OwnerLink'
  \* What p itself holds is inheritable; what others hold keeps its owner.
  <2>1. ASSUME NEW h \in Handle, Flocked(h), lock[h].proc = p
        PROVE  ofd'[h] = ofd[h]
    BY <2>1 DEF Flocked
  <2>2. ASSUME NEW h \in Handle, Flocked(h), lock[h].proc # p
        PROVE  /\ ofd'[h].path = ofd[h].path /\ ofd'[h].mode = ofd[h].mode
               /\ lock[h].proc \in ofd'[h].refs
    BY <1>2, <2>2, ClosedFacts DEF OwnerLink
  <2> QED
    BY <1>5, <2>1, <2>2 DEF OwnerLink
<1>8. RecordNamesHolder' /\ IdleClean'
  BY <1>5 DEF RecordNamesHolder, IdleClean
<1>9. HeldLink'
  BY <1>5 DEF HeldLink
<1>10. ReentrantLink'
  BY DEF ReentrantLink, LockShape
<1> QED
  BY <1>1, <1>4, <1>6, <1>7, <1>8, <1>9, <1>10

LEMMA ExitStep ==
  ASSUME IInv, NEW p \in Proc, Exit(p)
  PROVE  IInv'
<1> USE LockingAssumption DEF IInv, TypeOK, Exit
<1>1. TypeOK'
  BY BlankTyped, FileEdited
<1>2. \A h \in Handle :
        IF lock[h].proc = p THEN lock'[h] = NoLock ELSE lock'[h] = lock[h]
  OBVIOUS
<1>3. \A h \in Handle : ofd'[h] = ofd[h] \/ ofd'[h] = Closed(ofd[h], {p})
  OBVIOUS
<1>4. ASSUME NEW h \in Handle
      PROVE  \/ ofd'[h] = NoFile
             \/ ofd'[h].path = ofd[h].path /\ ofd'[h].mode = ofd[h].mode
  <2>1. ofd[h] \in File
    OBVIOUS
  <2> QED
    BY <1>3, <2>1, ClosedFacts, Zenon
<1>5. FlockExclusion'
  BY <1>4, ThinnedExclusion
<1>6. \A h \in Handle : Flocked(h)' <=> (lock[h].proc # p /\ Flocked(h))
  BY <1>2 DEF Flocked, NoLock
<1>7. LockShape'
  BY <1>2 DEF LockShape, NoLock
<1>8. OwnerLink'
  <2>1. ASSUME NEW h \in Handle, Flocked(h), lock[h].proc # p
        PROVE  /\ ofd'[h].path = ofd[h].path /\ ofd'[h].mode = ofd[h].mode
               /\ lock[h].proc \in ofd'[h].refs
    BY <1>3, <2>1, ClosedFacts DEF OwnerLink
  <2> QED
    BY <1>2, <1>6, <2>1 DEF OwnerLink
<1>9. RecordNamesHolder' /\ IdleClean'
  BY <1>2, <1>6 DEF RecordNamesHolder, IdleClean
<1>10. HeldLink'
  BY <1>2, <1>6 DEF HeldLink, NoLock
<1>11. ReentrantLink'
  BY <1>2 DEF ReentrantLink, LockShape, NoLock
<1> QED
  BY <1>1, <1>5, <1>7, <1>8, <1>9, <1>10, <1>11

-----------------------------------------------------------------------------

LEMMA IInvStep == IInv /\ [Next]_lockVars => IInv'
<1> SUFFICES ASSUME IInv, [Next]_lockVars PROVE IInv'
  OBVIOUS
<1>1. ASSUME NEW p \in Proc, NEW h \in Handle, NEW l \in Path, Acquire(p, h, l)
      PROVE  IInv'
  <2>1. ASSUME NEW x \in BOOLEAN,
               \/ AcquireReentrant(p, h, l, x) \/ AcquireUnlocked(p, h, l, x)
               \/ AcquireBarred(p, h, l, x) \/ AcquireBusy(p, h, l, x)
        PROVE  IInv'
    BY <2>1, AcquireSettles, SettlesStep
  <2>2. ASSUME NEW x \in BOOLEAN, NEW i \in BOOLEAN, AcquireGranted(p, h, l, x, i)
        PROVE  IInv'
    BY <2>2, AcquireGrants, GrantingStep
  <2>3. CASE Probe(p, h, l)
    BY <2>3, AcquireGrants, GrantingStep
  <2> QED
    BY <1>1, <2>1, <2>2, <2>3 DEF Acquire
<1>2. CASE UNCHANGED lockVars
  BY <1>2 DEF lockVars, IInv, TypeOK, FlockExclusion, LockShape, OwnerLink,
     HeldLink, ReentrantLink, IdleClean, RecordNamesHolder, Flocked
<1> QED
  BY <1>1, <1>2, WriteRecordStep, DisownStep, ReleaseStep, ProbeDoneStep,
     StartStep, ForkStep, ExecStep, ExitStep DEF Next

THEOREM LockInvariant == Spec => []IInv
  BY InitIInv, IInvStep, PTL DEF Spec

\* The state of the locks is always well typed, for any number of
\* processes, lock files and lock objects.
THEOREM LockTypeCorrect == Spec => []TypeOK
<1>1. IInv => TypeOK
  BY DEF IInv
<1> QED
  BY <1>1, LockInvariant, PTL

\* Two processes inside with-blocks of one lock file both asked for it
\* shared (__enter__ .. __exit__ of locking.py), re-entrant handles included.
THEOREM LockCriticalExclusion == Spec => []CriticalExclusion
<1>1. IInv => CriticalExclusion
  <2> SUFFICES ASSUME IInv, NEW g \in Handle, NEW h \in Handle,
                      lock[g].st = "entered", lock[h].st = "entered",
                      lock[g].path = lock[h].path, lock[g].path \notin Lockless,
                      lock[g].proc # lock[h].proc, lock[g].excl
               PROVE  FALSE
    BY DEF CriticalExclusion
  <2> USE DEF IInv
  \* Behind each of the two stands an object whose own flock was granted:
  \* the object itself, or the outer holder a re-entrant one rests on.
  <2>1. ASSUME NEW k \in Handle, lock[k].st = "entered", lock[k].path \notin Lockless
        PROVE  \E j \in Handle : /\ Flocked(j) /\ lock[j].proc = lock[k].proc
                                 /\ lock[j].path = lock[k].path
                                 /\ lock[k].excl => lock[j].excl
                                 /\ lock[j].st = "entered"
    <3>1. CASE lock[k].reentrant
      <4>1. /\ proc[lock[k].proc] = "running" /\ lock[k].proc \in Proc
            /\ lock[k].path \in Path /\ lock[k].path \in heldExclusive[lock[k].proc]
        BY <2>1, <3>1 DEF ReentrantLink, LockShape
      <4> QED
        BY <4>1 DEF HeldLink
    <3>2. CASE ~lock[k].reentrant
      BY <2>1, <3>2 DEF Flocked
    <3> QED
      BY <3>1, <3>2
  <2>2. PICK a \in Handle : /\ Flocked(a) /\ lock[a].proc = lock[g].proc
                            /\ lock[a].path = lock[g].path /\ lock[a].excl
    BY <2>1
  <2>3. PICK b \in Handle : /\ Flocked(b) /\ lock[b].proc = lock[h].proc
                            /\ lock[b].path = lock[g].path
    BY <2>1
  <2>4. a # b
    BY <2>2, <2>3
  <2> QED
    BY <2>2, <2>3, <2>4 DEF OwnerLink, FlockExclusion, FlockMode
<1> QED
  BY <1>1, LockInvariant, PTL

\* _held_exclusive names exactly the files flocked exclusively by this
\* process (what acquire() adds and release() discards).
THEOREM LockHeldTracksFlock == Spec => []HeldTracksFlock
<1>1. IInv => HeldTracksFlock
  <2> SUFFICES ASSUME IInv, NEW p \in Proc, proc[p] = "running"
               PROVE  heldExclusive[p] =
                        {lock[h].path : h \in {g \in Handle :
                           /\ lock[g].proc = p /\ lock[g].st = "entered"
                           /\ lock[g].excl /\ Flocked(g)
                           /\ ofd[g].path = lock[g].path
                           /\ ofd[g].mode = "EX" /\ p \in ofd[g].refs}}
    BY DEF HeldTracksFlock
  <2> USE DEF IInv
  <2>1. \A g \in Handle : (lock[g].proc = p /\ lock[g].excl /\ Flocked(g)) =>
          ofd[g].path = lock[g].path /\ ofd[g].mode = "EX" /\ p \in ofd[g].refs
    BY DEF OwnerLink, FlockMode
  <2>2. \A l \in heldExclusive[p] : l \in Path
    BY DEF TypeOK
  <2>3. \A g \in Handle : lock[g].st = "entered" => lock[g].path \in Path
    BY DEF LockShape
  <2> QED
    BY <2>1, <2>2, <2>3 DEF HeldLink
<1> QED
  BY <1>1, LockInvariant, PTL

\* The lock file of an exclusive holder never names another process: the
\* record is rewritten only after the flock is granted (acquire()).
THEOREM LockRecordNamesHolder == Spec => []RecordNamesHolder
<1>1. IInv => RecordNamesHolder
  BY DEF IInv
<1> QED
  BY <1>1, LockInvariant, PTL

-----------------------------------------------------------------------------
(* What a step does to the kernel's locks: a grant on a fresh description, *)
(* or for every description nothing, or a loss LostOnlyByOwner allows.     *)

Kept(h) == ofd'[h].path = ofd[h].path /\ ofd'[h].mode = ofd[h].mode
Granted ==
  \E p \in Proc, h \in Handle, l \in Path, x \in BOOLEAN,
     s \in {"locked", "probing"}, i \in BOOLEAN : Granting(p, h, l, x, s, i)
Settled == \A h \in Handle : Kept(h) \/ (ofd'[h].mode = "none" /\ LossJustified(h))

LEMMA ClosedSettles ==
  ASSUME NEW h \in Handle, NEW p \in Proc, ofd[h] \in File,
         ofd'[h] = ofd[h] \/ ofd'[h] = Closed(ofd[h], {p})
  PROVE  Kept(h) \/ (ofd'[h].mode = "none" /\ LossJustified(h))
  BY DEF Kept, LossJustified, Closed, File, NoFile

LEMMA KernelStep == IInv /\ [Next]_lockVars => Granted \/ Settled
<1> SUFFICES ASSUME IInv, [Next]_lockVars PROVE Granted \/ Settled
  OBVIOUS
<1> USE DEF IInv, TypeOK
<1>0. \A h \in Handle : ofd[h] \in File
  OBVIOUS
<1>1. ASSUME UNCHANGED ofd PROVE Settled
  BY <1>1 DEF Settled, Kept
<1>2. ASSUME NEW p \in Proc, NEW h \in Handle, NEW l \in Path, Acquire(p, h, l)
      PROVE  Granted \/ Settled
  <2>1. ASSUME NEW x \in BOOLEAN,
               \/ AcquireReentrant(p, h, l, x) \/ AcquireUnlocked(p, h, l, x)
               \/ AcquireBarred(p, h, l, x) \/ AcquireBusy(p, h, l, x)
        PROVE  UNCHANGED ofd
    BY <2>1, AcquireSettles DEF Settles
  <2>2. ASSUME NEW x \in BOOLEAN, NEW i \in BOOLEAN, AcquireGranted(p, h, l, x, i)
        PROVE  Granted
    BY <2>2, AcquireGrants DEF Granted
  <2>3. ASSUME Probe(p, h, l) PROVE Granted
    BY <2>3, AcquireGrants DEF Granted
  <2> QED
    BY <1>1, <1>2, <2>1, <2>2, <2>3 DEF Acquire
<1>3. ASSUME NEW p \in Proc, NEW h \in Handle, WriteRecord(p, h) \/ Disown(p, h)
      PROVE  Settled
  BY <1>1, <1>3 DEF WriteRecord, Disown
<1>4. ASSUME NEW p \in Proc, NEW h \in Handle, Release(p, h) PROVE Settled
  <2>1. CASE lock[h].reentrant
    BY <1>1, <1>4, <2>1, Zenon DEF Release
  <2>2. CASE ~lock[h].reentrant
    <3>1. ofd' = [ofd EXCEPT ![h] = IF lock[h].disowned
                                      THEN Closed(@, {p}) ELSE Unlocked(@, p)]
      BY <1>4, <2>2, Zenon DEF Release
    <3>2. CASE lock[h].disowned
      <4>1. \A g \in Handle : ofd'[g] = ofd[g] \/ ofd'[g] = Closed(ofd[g], {p})
        BY <3>1, <3>2
      <4> QED
        BY <1>0, <4>1, ClosedSettles DEF Settled
    <3>3. CASE ~lock[h].disowned
      <4>1. ofd'[h].mode = "none"
        BY <1>0, <3>1, <3>3, UnlockedMode
      <4>2. lock[h] # NoLock /\ lock'[h] = NoLock
        BY <1>4 DEF Release, NoLock
      <4>3. \A g \in Handle : g # h => ofd'[g] = ofd[g]
        BY <3>1
      <4> QED
        BY <3>3, <4>1, <4>2, <4>3 DEF Settled, Kept, LossJustified
    <3> QED
      BY <3>2, <3>3
  <2> QED
    BY <2>1, <2>2
<1>5. ASSUME NEW p \in Proc, NEW h \in Handle, ProbeDone(p, h) PROVE Settled
  <2>1. ofd'[h].mode = "none"
    BY <1>0, <1>5, UnlockedMode DEF ProbeDone
  <2>2. lock[h] # NoLock /\ lock'[h] = NoLock /\ ~lock[h].disowned
    BY <1>5 DEF ProbeDone, LockShape, NoLock
  <2>3. \A g \in Handle : g # h => ofd'[g] = ofd[g]
    BY <1>5 DEF ProbeDone
  <2> QED
    BY <2>1, <2>2, <2>3 DEF Settled, Kept, LossJustified
<1>6. ASSUME NEW p \in Proc, Start(p) PROVE Settled
  BY <1>1, <1>6 DEF Start
<1>7. ASSUME NEW p \in Proc, Exec(p) \/ Exit(p) PROVE Settled
  <2>1. \A g \in Handle : ofd'[g] = ofd[g] \/ ofd'[g] = Closed(ofd[g], {p})
    BY <1>7 DEF Exec, Exit
  <2> QED
    BY <1>0, <2>1, ClosedSettles DEF Settled
<1>8. ASSUME NEW p \in Proc, NEW c \in Proc, Fork(p, c) PROVE Settled
  BY <1>0, <1>8 DEF Fork, Settled, Kept, File
<1>9. CASE UNCHANGED lockVars
  BY <1>1, <1>9 DEF lockVars
<1> QED
  BY <1>2, <1>3, <1>4, <1>5, <1>6, <1>7, <1>8, <1>9 DEF Next

\* No step of another command takes a granted flock from its holder: only
\* the owner's release() of a handle it did not disown unlocks, or the last
\* close of the description does.
THEOREM LockLostOnlyByOwner == Spec => LostOnlyByOwner
<1>1. IInv /\ [Next]_lockVars => [\A h \in Handle : LossJustified(h)]_lockVars
  <2> SUFFICES ASSUME IInv, [Next]_lockVars, NEW h \in Handle
               PROVE  LossJustified(h)
    OBVIOUS
  <2>1. CASE Granted
    BY <2>1 DEF Granted, Granting, CanConstruct, LossJustified, NoFile, IInv, TypeOK
  <2>2. CASE Settled
    BY <2>2 DEF Settled, Kept, LossJustified
  <2> QED
    BY <2>1, <2>2, KernelStep
<1> QED
  BY <1>1, LockInvariant, PTL DEF Spec, LostOnlyByOwner

\* The lock objects, fork, exec, re-entrancy and probes implement a plain
\* readers-writer lock over the open file descriptions.
THEOREM LockRefinesReadersWriter == Spec => ImplementsReadersWriterLock
<1>1. Init => RW!RWInit
  BY DEF Init, NoFile, RW!RWInit
<1>2. IInv /\ [Next]_lockVars => [RW!RWNext]_(RW!rwVars)
  <2> SUFFICES ASSUME IInv, [Next]_lockVars PROVE RW!RWNext
    OBVIOUS
  <2> USE DEF IInv, TypeOK
  <2>1. CASE Settled
    <3>1. PICK gone \in SUBSET Handle : gone = {h \in Handle : ofd'[h].mode = "none"}
      OBVIOUS
    <3>2. RW!Withdraw(gone)
      BY <2>1, <3>1 DEF RW!Withdraw, Settled, Kept
    <3> QED
      BY <3>2 DEF RW!RWNext
  <2>2. CASE Granted
    <3>1. PICK p \in Proc, h \in Handle, l \in Path, x \in BOOLEAN,
               s \in {"locked", "probing"}, i \in BOOLEAN :
                 Granting(p, h, l, x, s, i)
      BY <2>2 DEF Granted
    <3>2. /\ ofd[h].mode = "none"
          /\ ofd'[h].path = l /\ ofd'[h].mode = FlockMode(x)
          /\ \A g \in Handle : g # h => ofd'[g] = ofd[g]
      BY <3>1 DEF Granting, CanConstruct, NoFile
    <3>3. /\ \A g \in Handle : ofd[g].path = l => ofd[g].mode # "EX"
          /\ x => \A g \in Handle : ofd[g].path = l => ofd[g].mode # "SH"
      BY <3>1 DEF Granting, Blockers
    <3>4. CASE x
      <4>1. RW!GrantExclusive(l, h)
        BY <3>2, <3>3, <3>4 DEF RW!GrantExclusive, FlockMode
      <4> QED
        BY <4>1 DEF RW!RWNext
    <3>5. CASE ~x
      <4>1. RW!GrantShared(l, h)
        BY <3>2, <3>3, <3>5 DEF RW!GrantShared, FlockMode
      <4> QED
        BY <4>1 DEF RW!RWNext
    <3> QED
      BY <3>4, <3>5
  <2> QED
    BY <2>1, <2>2, KernelStep
<1> QED
  BY <1>1, <1>2, LockInvariant, PTL DEF Spec, ImplementsReadersWriterLock, RW!RWSpec

-----------------------------------------------------------------------------
(* The processes of a login, and what they have said.                      *)

Starting == {"none", "login", "locked"}
Children == {"middle", "forked", "daemon", "told", "refused"}
Daemons == {"daemon", "told", "refused", "session"}

\* Who can be where.
Roles ==
  \A p \in Proc :
    /\ pc[p] \in {"login", "locked", "spawning", "waiting", "started", "failed",
                  "interrupted", "abandoned", "disowned"} => p \in Login
    /\ pc[p] \in {"exclusive", "changing"} => p \in Writer
    /\ parent[p] # None =>
         /\ parent[p] \in Login /\ p \notin Login \cup Writer
         /\ pc[parent[p]] \in {"spawning", "waiting", "started", "failed", "interrupted",
                               "abandoned", "disowned", "leaving", "killed"}
    /\ pc[p] \in Children => parent[p] # None
    /\ pc[p] = "told" => proc[p] = "child"
    /\ pc[p] = "session" => proc[p] \in {"session", "gone"}
    /\ proc[p] = "idle" => pc[p] = "none" /\ parent[p] = None
    /\ proc[p] = "running" => p \in Login \cup Writer
    /\ proc[p] = "child" => pc[p] \in Children
    /\ proc[p] = "session" => pc[p] = "session"

\* A living child has the pipe open, so who has read to its end has none.
PipeSound ==
  \A p \in Proc :
    /\ pc[p] \in Starting => pipe[p].writers = {} /\ ~pipe[p].pid /\ ~pipe[p].reason
    /\ pc[p] \in {"started", "failed", "disowned"} => pipe[p].writers = {}
    /\ proc[p] = "child" => p \in pipe[parent[p]].writers

\* A login has one daemon, and before its middle process forks nothing else.
OneDaemon ==
  \A d, e \in Proc :
    (parent[d] # None /\ parent[e] = parent[d] /\ d # e) =>
      /\ pc[d] # "middle"
      /\ ~(pc[d] \in Daemons /\ pc[e] \in Daemons)

\* The pipe says what became of the daemon.
Said ==
  \A d \in Proc : parent[d] # None =>
    /\ pc[d] = "middle" => ~pipe[parent[d]].pid
    /\ pc[d] \in {"told", "refused", "session"} => pipe[parent[d]].pid
    /\ pc[d] \in {"middle", "daemon", "told", "session"} => ~pipe[parent[d]].reason
    /\ pc[d] = "refused" => pipe[parent[d]].reason

SaidBy ==
  \A f \in Proc : pipe[f].pid =>
    \E d \in Proc : parent[d] = f /\ pc[d] \in {"told", "refused", "session", "killed"}

Pipe == [writers : SUBSET Proc, pid : BOOLEAN, reason : BOOLEAN]

FamilyTypeOK ==
  /\ proc \in [Proc -> {"idle", "running", "child", "session", "gone"}]
  /\ pc \in [Proc -> {"none", "login", "locked", "spawning", "waiting", "started",
                      "failed", "interrupted", "abandoned", "disowned", "leaving", "middle", "forked",
                      "daemon", "told", "refused", "session", "exclusive",
                      "changing", "killed"}]
  /\ parent \in [Proc -> Proc \cup {None}]
  /\ pipe \in [Proc -> Pipe]

FamilyInv == FamilyTypeOK /\ Roles /\ PipeSound /\ OneDaemon
             /\ Said /\ SaidBy /\ ReportHonest

-----------------------------------------------------------------------------
(* The locks they have.                                                    *)

\* What a lock object of a command at its place stands for.
Sound(h) ==
  lock[h] # NoLock =>
    /\ lock[h].st \in {"locked", "entered", "failed"} /\ lock[h].proc \in Login \cup Writer
    /\ lock[h].path = Container /\ ~lock[h].reentrant
    /\ lock[h].excl <=> lock[h].proc \in Writer
    /\ lock[h].st = "locked" => pc[lock[h].proc] \in {"login", "exclusive"}
    /\ lock[h].st = "entered" => pc[lock[h].proc] \notin {"none", "login", "exclusive"}
    /\ lock[h].st = "failed" => pc[lock[h].proc] = "leaving"
    /\ pc[lock[h].proc] = "disowned" => lock[h].disowned
    /\ (lock[h].st \in {"locked", "entered"} /\ Container \notin Lockless) =>
         /\ lock[h].proc \in ofd[h].refs
         /\ ofd[h].path = Container /\ ofd[h].inheritable = ~lock[h].excl
         /\ lock[h].excl => ofd[h].mode = "EX"
         /\ pc[lock[h].proc] \in {"login", "locked"} => ofd[h].mode = "SH"

ObjectSound == \A h \in Handle : Sound(h)

\* A command has one lock object.
OneObject ==
  \A g, h \in Handle : lock[g].proc \in Proc /\ lock[h].proc = lock[g].proc => g = h

ChangingLocked ==
  \A p \in Proc : pc[p] = "changing" =>
    \E h \in Handle : lock[h].proc = p /\ lock[h].st = "entered"

Family(p) == IF parent[p] = None THEN p ELSE parent[p]

\* An open file description is shared by one login and its children only.
RefsSound ==
  \A h \in Handle : \A p \in ofd[h].refs :
    /\ proc[p] \notin {"idle", "gone"}
    /\ \A q \in ofd[h].refs : Family(q) = Family(p)

Guards(h, p) ==
  /\ p \in ofd[h].refs /\ ofd[h].path = Container
  /\ ofd[h].mode = "SH" /\ ofd[h].inheritable

\* Who is a session or may become one has the shared lock, unless the login
\* was interrupted.
Sheltered ==
  Container \notin Lockless =>
    \A p \in Proc :
      (proc[p] \in {"child", "session"} \/ pc[p] = "locked") =>
        (\E h \in Handle : Guards(h, p)) \/ LoginInterrupted(p)

KernelInv ==
  /\ TypeOK /\ FlockExclusion /\ ObjectSound /\ OneObject /\ ChangingLocked
  /\ RefsSound /\ Sheltered

DetachInv == FamilyInv /\ KernelInv
-----------------------------------------------------------------------------
(* What the steps do to the processes and their pipes, locks aside.        *)

Stays == UNCHANGED <<proc, parent>>

\* p goes on in its command.
Turn(p) ==
  /\ \E t \in {"login", "locked", "leaving", "exclusive", "changing", "failed",
               "disowned", "abandoned"} :
       /\ pc' = [pc EXCEPT ![p] = t]
       /\ \/ pc[p] = "login" /\ t \in {"login", "locked", "leaving"}
          \/ pc[p] = "exclusive" /\ t \in {"exclusive", "changing", "leaving"}
          \/ pc[p] = "locked" /\ t = "failed"
          \/ pc[p] = "started" /\ t = "disowned"
          \/ pc[p] = "interrupted" /\ t = "abandoned"
          \/ pc[p] \in {"changing", "failed", "disowned"} /\ t = "leaving"
  /\ Stays /\ UNCHANGED pipe

\* Nothing is said, and nobody but p lets go of a pipe.
Lets(p) ==
  /\ pipe' \in [Proc -> Pipe]
  /\ \A f \in Proc :
       /\ pipe'[f].pid = pipe[f].pid /\ pipe'[f].reason = pipe[f].reason
       /\ pipe'[f].writers \subseteq pipe[f].writers
       /\ pipe[f].writers \ {p} \subseteq pipe'[f].writers

End(p) ==
  /\ proc[p] \in {"running", "child", "session"}
  /\ proc' = [proc EXCEPT ![p] = "gone"]
  /\ \/ pc' = pc /\ pc[p] # "told"
     \/ /\ proc[p] # "session" /\ pc[p] # "abandoned"
        /\ pc' = [pc EXCEPT ![p] = "killed"]
  /\ parent' = parent /\ Lets(p)

LEMMA DropsLets == ASSUME FamilyTypeOK, NEW p \in Proc, Drops(p) PROVE Lets(p)
<1>1. CASE parent[p] = None
  BY <1>1 DEF Drops, Lets, FamilyTypeOK
<1>2. CASE parent[p] # None
  <2>1. parent[p] \in Proc /\ pipe[parent[p]] \in Pipe
    BY <1>2 DEF FamilyTypeOK
  <2>2. pipe' = [pipe EXCEPT ![parent[p]] = [pipe[parent[p]] EXCEPT !.writers = @ \ {p}]]
    BY <1>2 DEF Drops
  <2>3. [pipe[parent[p]] EXCEPT !.writers = @ \ {p}] \in Pipe
    BY <2>1 DEF Pipe
  <2> QED
    BY <2>1, <2>2, <2>3 DEF Lets, FamilyTypeOK, Pipe
<1> QED
  BY <1>1, <1>2

LEMMA KilledLets ==
  ASSUME FamilyTypeOK, NEW p \in Proc,
         pipe' = [f \in Proc |-> [pipe[f] EXCEPT !.writers = @ \ {p}]]
  PROVE  Lets(p)
<1>1. \A f \in Proc : pipe[f] \in Pipe
  BY DEF FamilyTypeOK
<1>2. \A f \in Proc : /\ pipe'[f] \in Pipe /\ pipe'[f].writers = pipe[f].writers \ {p}
                      /\ pipe'[f].pid = pipe[f].pid /\ pipe'[f].reason = pipe[f].reason
  BY <1>1 DEF Pipe
<1> QED
  BY <1>2 DEF Lets

LEMMA CloseLets ==
  ASSUME FamilyTypeOK, NEW p \in Proc, pipe' = [pipe EXCEPT ![p].writers = @ \ {p}]
  PROVE  Lets(p)
<1>1. pipe[p] \in Pipe /\ pipe' = [pipe EXCEPT ![p] = [pipe[p] EXCEPT !.writers = @ \ {p}]]
  BY DEF FamilyTypeOK
<1>2. [pipe[p] EXCEPT !.writers = @ \ {p}] \in Pipe
  BY <1>1 DEF Pipe
<1> QED
  BY <1>1, <1>2 DEF Lets, FamilyTypeOK, Pipe

\* The steps that only turn, and those that only end.
LEMMA StepTurns ==
  ASSUME NEW p \in Proc, NEW h \in Handle,
         \/ DisownLock(p, h) \/ ReleaseShared(p, h)
         \/ LockShared(p, h) \/ LockExclusive(p, h) \/ ReleaseExclusive(p, h)
  PROVE  Turn(p)
<1>1. CASE DisownLock(p, h)
  <2>1. UNCHANGED <<proc, parent, pipe>> /\ Goes(p, "started", "disowned")
    BY <1>1, Zenon DEF DisownLock, Disown
  <2> QED
    BY <2>1 DEF Goes, Turn, Stays
<1>2. CASE ReleaseShared(p, h)
  <2>1. /\ UNCHANGED <<proc, parent, pipe>>
        /\ pc[p] \in {"failed", "interrupted", "disowned"}
        /\ pc' = [pc EXCEPT ![p] = IF @ = "interrupted" THEN "abandoned" ELSE "leaving"]
    BY <1>2, Zenon DEF ReleaseShared, Release
  <2> QED
    BY <2>1 DEF Turn, Stays
<1>3. CASE LockShared(p, h)
  <2>1. /\ UNCHANGED <<proc, parent, pipe>>
        /\ \E t \in {"login", "locked", "leaving"} : Goes(p, "login", t)
    BY <1>3, Zenon DEF LockShared, AcquireGranted, AcquireUnlocked, AcquireBusy,
                       AcquireBarred, WriteRecord
  <2> QED
    BY <2>1 DEF Goes, Turn, Stays
<1>4. CASE LockExclusive(p, h)
  <2>1. /\ UNCHANGED <<proc, parent, pipe>>
        /\ \E t \in {"exclusive", "changing", "leaving"} : Goes(p, "exclusive", t)
    BY <1>4, Zenon DEF LockExclusive, AcquireGranted, AcquireUnlocked, AcquireBusy,
                       AcquireBarred, WriteRecord
  <2> QED
    BY <2>1 DEF Goes, Turn, Stays
<1>5. CASE ReleaseExclusive(p, h)
  <2>1. UNCHANGED <<proc, parent, pipe>> /\ Goes(p, "changing", "leaving")
    BY <1>5, Zenon DEF ReleaseExclusive, Release
  <2> QED
    BY <2>1 DEF Goes, Turn, Stays
<1> QED
  BY <1>1, <1>2, <1>3, <1>4, <1>5

LEMMA StepEnds ==
  ASSUME FamilyInv, NEW p \in Proc,
         \/ Leave(p) \/ MiddleExit(p) \/ DaemonExit(p) \/ MiddleInterrupted(p)
         \/ SessionEnds(p) \/ Killed(p)
  PROVE  End(p)
<1> USE DEF FamilyInv
<1>0. pipe' = pipe => Lets(p)
  BY DEF Lets, FamilyTypeOK
<1>1. CASE Leave(p)
  BY <1>0, <1>1 DEF Leave, Exit, End
<1>2. CASE MiddleExit(p)
  BY <1>2, DropsLets DEF MiddleExit, Exit, End
<1>3. CASE DaemonExit(p)
  BY <1>3, DropsLets DEF DaemonExit, Exit, End
<1>4. CASE MiddleInterrupted(p)
  BY <1>4, DropsLets DEF MiddleInterrupted, End
<1>5. CASE SessionEnds(p)
  BY <1>0, <1>5 DEF SessionEnds, Exit, End, Roles
<1>6. CASE Killed(p)
  <2>1. Lets(p)
    BY <1>6, KilledLets DEF Killed
  <2>2. pc[p] = "abandoned" => pc' = pc
    BY <1>6 DEF Killed, FamilyTypeOK
  <2> QED
    BY <1>6, <2>1, <2>2 DEF Killed, Exit, End
<1> QED
  BY <1>1, <1>2, <1>3, <1>4, <1>5, <1>6

LEMMA TurnFamily == ASSUME FamilyInv, NEW p \in Proc, Turn(p) PROVE FamilyInv'
<1> USE DEF FamilyInv, Turn, Stays
<1>1. FamilyTypeOK'
  BY DEF FamilyTypeOK
<1>2. Roles'
  BY DEF FamilyTypeOK, Roles, Children
<1>3. PipeSound'
  BY DEF FamilyTypeOK, Roles, PipeSound, Starting
<1>4. OneDaemon'
  BY DEF FamilyTypeOK, OneDaemon, Daemons
<1>5. Said'
  BY DEF FamilyTypeOK, Said
<1>6. SaidBy'
  BY DEF FamilyTypeOK, SaidBy
<1>7. ReportHonest'
  <2>1. \A f, d \in Proc : (DaemonOf(f, d) <=> DaemonOf(f, d)') /\ (DaemonOf(f, d) => pc'[d] = pc[d])
    BY DEF DaemonOf, FamilyTypeOK
  <2> SUFFICES ASSUME NEW f \in Login
               PROVE  /\ pc'[f] \in {"started", "disowned"} =>
                           \E d \in Proc : DaemonOf(f, d)' /\ pc'[d] \in {"session", "killed"}
                      /\ pc'[f] = "failed" => ~\E d \in Proc : DaemonOf(f, d)' /\ pc'[d] = "session"
    BY DEF ReportHonest
  <2>2. f \in Proc
    BY DetachedLoginAssumption
  <2>3. pc'[f] \in {"started", "disowned"} => pc[f] \in {"started", "disowned"}
    BY <2>2 DEF FamilyTypeOK
  <2>4. pc'[f] = "failed" => pc[f] \in {"failed", "locked"}
    BY <2>2 DEF FamilyTypeOK
  <2>5. pc[f] = "locked" => ~\E d \in Proc : DaemonOf(f, d)
    BY <2>2, LockingAssumption DEF Roles, DaemonOf
  <2> QED
    BY <2>1, <2>2, <2>3, <2>4, <2>5 DEF ReportHonest
<1> QED
  BY <1>1, <1>2, <1>3, <1>4, <1>5, <1>6, <1>7

LEMMA EndFamily == ASSUME FamilyInv, NEW p \in Proc, End(p) PROVE FamilyInv'
<1> USE DEF FamilyInv, End
<1>1. FamilyTypeOK'
  BY DEF FamilyTypeOK, Lets
<1>2. Roles'
  BY DEF FamilyTypeOK, Roles, Children
<1>3. PipeSound'
  BY DEF FamilyTypeOK, Roles, PipeSound, Starting, Lets
<1>4. OneDaemon'
  BY DEF FamilyTypeOK, OneDaemon, Daemons
<1>5. Said'
  BY DEF FamilyTypeOK, Said, Lets
<1>6. SaidBy'
  BY DEF FamilyTypeOK, SaidBy, Roles, Lets
<1>7. ReportHonest'
  BY DetachedLoginAssumption DEF FamilyTypeOK, Roles, ReportHonest, DaemonOf
<1> QED
  BY <1>1, <1>2, <1>3, <1>4, <1>5, <1>6, <1>7

LEMMA StartFamily ==
  ASSUME FamilyInv, NEW p \in Proc, StartLogin(p) \/ StartWriter(p) PROVE FamilyInv'
<1> USE DEF FamilyInv, StartLogin, StartWriter, Start, Goes
<1>1. FamilyTypeOK' /\ Roles'
  BY DEF FamilyTypeOK, Roles, Children
<1>2. PipeSound' /\ OneDaemon'
  BY DEF FamilyTypeOK, Roles, PipeSound, OneDaemon, Starting, Daemons
<1>3. Said' /\ SaidBy' /\ ReportHonest'
  BY DetachedLoginAssumption DEF FamilyTypeOK, Said, SaidBy, ReportHonest, DaemonOf
<1> QED
  BY <1>1, <1>2, <1>3

LEMMA ExecFamily ==
  ASSUME FamilyInv, NEW p \in Proc, ExecForeground(p) \/ ExecDaemon(p) PROVE FamilyInv'
<1> USE DEF FamilyInv
<1>0. /\ proc' = [proc EXCEPT ![p] = "session"] /\ pc' = [pc EXCEPT ![p] = "session"]
      /\ parent' = parent /\ Lets(p) /\ pc[p] \in {"locked", "told"}
  BY DropsLets DEF ExecForeground, ExecDaemon, Exec, Goes, Lets, FamilyTypeOK
<1>1. FamilyTypeOK' /\ Roles'
  BY <1>0 DEF FamilyTypeOK, Roles, Children, Lets
<1>2. PipeSound'
  BY <1>0 DEF FamilyTypeOK, Roles, PipeSound, Starting, Lets
<1>3. OneDaemon'
  BY <1>0 DEF FamilyTypeOK, Roles, OneDaemon, Daemons
<1>4. Said' /\ SaidBy'
  BY <1>0 DEF FamilyTypeOK, Roles, Said, SaidBy, Lets
<1>5. ReportHonest'
  <2>1. pc[p] = "told" => p \in pipe[parent[p]].writers
    BY DEF Roles, PipeSound
  <2>2. pc[p] = "told" => pc[parent[p]] # "failed"
    BY <2>1 DEF FamilyTypeOK, Roles, PipeSound, Children
  <2> QED
    BY <1>0, <2>2, DetachedLoginAssumption, LockingAssumption
    DEF FamilyTypeOK, Roles, ReportHonest, DaemonOf
<1> QED
  BY <1>1, <1>2, <1>3, <1>4, <1>5

LEMMA CloseFamily ==
  ASSUME FamilyInv, NEW p \in Proc, CloseWrite(p) \/ Interrupted(p) PROVE FamilyInv'
<1> USE DEF FamilyInv
<1>0. /\ proc' = proc /\ parent' = parent /\ Lets(p) /\ proc[p] \in {"running", "child"}
      /\ \/ pc[p] = "spawning" /\ pc' = [pc EXCEPT ![p] = "waiting"]
         \/ /\ pc[p] \in {"locked", "spawning", "waiting", "started"}
            /\ pc' = [pc EXCEPT ![p] = "interrupted"]
  BY CloseLets DEF CloseWrite, Interrupted, Moves, Goes, lockVars
<1>1. FamilyTypeOK' /\ Roles'
  BY <1>0 DEF FamilyTypeOK, Roles, Children, Lets
<1>2. PipeSound'
  BY <1>0 DEF FamilyTypeOK, Roles, PipeSound, Starting, Children, Lets
<1>3. OneDaemon'
  BY <1>0 DEF FamilyTypeOK, OneDaemon, Daemons
<1>4. Said' /\ SaidBy'
  BY <1>0 DEF FamilyTypeOK, Said, SaidBy, Lets
<1>5. ReportHonest'
  BY <1>0, DetachedLoginAssumption DEF FamilyTypeOK, ReportHonest, DaemonOf
<1> QED
  BY <1>1, <1>2, <1>3, <1>4, <1>5

\* The report is read when nobody is left to change it.
LEMMA ReadFamily == ASSUME FamilyInv, NEW p \in Proc, ReadReport(p) PROVE FamilyInv'
<1> USE DEF FamilyInv
<1>0. /\ UNCHANGED <<proc, parent, pipe>> /\ pc[p] = "waiting" /\ pipe[p].writers = {}
      /\ pc' = [pc EXCEPT ![p] = IF pipe[p].pid /\ ~pipe[p].reason THEN "started" ELSE "failed"]
  BY DEF ReadReport, Moves, Goes, lockVars
<1>1. FamilyTypeOK' /\ Roles'
  BY <1>0 DEF FamilyTypeOK, Roles, Children
<1>2. PipeSound' /\ OneDaemon'
  BY <1>0 DEF FamilyTypeOK, Roles, PipeSound, OneDaemon, Starting, Children, Daemons
<1>3. Said' /\ SaidBy'
  BY <1>0 DEF FamilyTypeOK, Said, SaidBy
<1>4. ReportHonest'
  <2>1. \A d \in Proc : DaemonOf(p, d) => pc[d] # "told"
    BY <1>0 DEF DaemonOf, Roles, PipeSound
  <2>2. (pipe[p].pid /\ ~pipe[p].reason) =>
          \E d \in Proc : DaemonOf(p, d) /\ pc[d] \in {"session", "killed"}
    BY <2>1, LockingAssumption DEF SaidBy, Said, DaemonOf
  <2>3. ~(pipe[p].pid /\ ~pipe[p].reason) => ~\E d \in Proc : DaemonOf(p, d) /\ pc[d] = "session"
    BY LockingAssumption DEF Said, DaemonOf
  <2>4. \A f, d \in Proc : (DaemonOf(f, d) <=> DaemonOf(f, d)') /\ (DaemonOf(f, d) => pc'[d] = pc[d])
    BY <1>0 DEF DaemonOf, FamilyTypeOK
  <2> QED
    BY <1>0, <2>2, <2>3, <2>4, DetachedLoginAssumption DEF ReportHonest, FamilyTypeOK
<1> QED
  BY <1>1, <1>2, <1>3, <1>4

\* A daemon writes to the pipe of its login.
LEMMA SayFamily ==
  ASSUME FamilyInv, NEW p \in Proc, WritePid(p) \/ ExecRefused(p) PROVE FamilyInv'
<1> USE DEF FamilyInv
<1>0. /\ UNCHANGED <<proc, parent>>
      /\ parent[p] \in Proc /\ pipe[parent[p]] \in Pipe
      /\ \/ pc[p] = "daemon" /\ pc' = [pc EXCEPT ![p] = "told"] /\ proc[p] = "child"
            /\ pipe' = [pipe EXCEPT ![parent[p]] = [pipe[parent[p]] EXCEPT !.pid = TRUE]]
         \/ pc[p] = "told" /\ pc' = [pc EXCEPT ![p] = "refused"] /\ proc[p] = "child"
            /\ pipe' = [pipe EXCEPT ![parent[p]] = [pipe[parent[p]] EXCEPT !.reason = TRUE]]
  BY DetachedLoginAssumption
  DEF WritePid, ExecRefused, Moves, Goes, lockVars, FamilyTypeOK, Roles, Children
<1>1. /\ [pipe[parent[p]] EXCEPT !.pid = TRUE] \in Pipe
      /\ [pipe[parent[p]] EXCEPT !.reason = TRUE] \in Pipe
  BY <1>0 DEF Pipe
<1>2. FamilyTypeOK'
  <2>1. pipe' \in [Proc -> Pipe]
    BY <1>0, <1>1 DEF FamilyTypeOK
  <2> QED
    BY <1>0, <2>1 DEF FamilyTypeOK
<1>3. /\ \A f \in Proc : pipe'[f].writers = pipe[f].writers
      /\ \A f \in Proc : f # parent[p] => pipe'[f] = pipe[f]
      /\ pc[p] = "daemon" => pipe'[parent[p]].pid /\ pipe'[parent[p]].reason = pipe[parent[p]].reason
      /\ pc[p] = "told" => pipe'[parent[p]].reason /\ pipe'[parent[p]].pid = pipe[parent[p]].pid
  BY <1>0 DEF FamilyTypeOK, Pipe
<1>4. Roles'
  BY <1>0 DEF FamilyTypeOK, Roles, Children
<1>5. PipeSound'
  BY <1>0, <1>3 DEF FamilyTypeOK, Roles, PipeSound, Starting, Children
<1>6. OneDaemon'
  BY <1>0 DEF FamilyTypeOK, OneDaemon, Daemons
<1>7. Said'
  BY <1>0, <1>3 DEF FamilyTypeOK, Said, OneDaemon, Daemons
<1>8. SaidBy'
  BY <1>0, <1>3 DEF FamilyTypeOK, SaidBy
<1>9. ReportHonest'
  BY <1>0, DetachedLoginAssumption DEF FamilyTypeOK, ReportHonest, DaemonOf
<1> QED
  BY <1>2, <1>4, <1>5, <1>6, <1>7, <1>8, <1>9

LEMMA ForkFamily ==
  ASSUME FamilyInv, NEW p \in Proc, NEW c \in Proc, SpawnFork(p, c) \/ MiddleFork(p, c)
  PROVE  FamilyInv'
<1> USE DEF FamilyInv
<1> DEFINE f == IF pc[p] = "locked" THEN p ELSE parent[p]
<1>0. /\ pc[p] \in {"locked", "middle"} /\ f \in Login /\ f \in Proc /\ p # c
      /\ proc[c] = "idle" /\ proc[p] \in {"running", "child"} /\ c \notin Login \cup Writer
      /\ pc[c] = "none" /\ parent[c] = None /\ f # c
  BY DetachedLoginAssumption DEF SpawnFork, MiddleFork, Fork, Roles, Children
<1>1. /\ proc' = [proc EXCEPT ![c] = "child"] /\ parent' = [parent EXCEPT ![c] = f]
      /\ pc' = IF pc[p] = "locked"
                 THEN [pc EXCEPT ![p] = "spawning", ![c] = "middle"]
                 ELSE [pc EXCEPT ![p] = "forked", ![c] = "daemon"]
  BY <1>0 DEF SpawnFork, MiddleFork, Fork
<1>2. /\ \A g \in Proc : g # f => pipe'[g] = pipe[g]
      /\ pipe'[f] \in Pipe /\ pipe' \in [Proc -> Pipe]
      /\ pipe'[f].pid = pipe[f].pid /\ pipe'[f].reason = pipe[f].reason
      /\ pipe'[f].writers = (IF pc[p] = "locked" THEN {f} ELSE pipe[f].writers) \cup {c}
  <2>1. pipe' = [pipe EXCEPT ![f] = [pipe[f] EXCEPT !.writers =
                   (IF pc[p] = "locked" THEN {f} ELSE pipe[f].writers) \cup {c}]]
    BY <1>0 DEF SpawnFork, MiddleFork
  <2>2. pipe[f] \in Pipe
    BY <1>0 DEF FamilyTypeOK
  <2> QED
    BY <1>0, <2>1, <2>2 DEF FamilyTypeOK, Pipe
<1>3. FamilyTypeOK'
  BY <1>0, <1>1, <1>2 DEF FamilyTypeOK
<1>4. \A d \in Proc : parent[d] = f => pc[p] = "middle" /\ d = p
  BY <1>0, LockingAssumption DEF Roles, OneDaemon, Children
<1>5. Roles'
  BY <1>0, <1>1, LockingAssumption DEF FamilyTypeOK, Roles, Children
<1>6. PipeSound'
  BY <1>0, <1>1, <1>2, <1>4 DEF FamilyTypeOK, Roles, PipeSound, Starting, Children
<1>7. OneDaemon'
  BY <1>0, <1>1, <1>4, LockingAssumption DEF FamilyTypeOK, OneDaemon, Daemons
<1>8. Said'
  BY <1>0, <1>1, <1>2, <1>4 DEF FamilyTypeOK, Roles, Said, PipeSound, Starting, Children
<1>9. SaidBy'
  BY <1>0, <1>1, <1>2, <1>4 DEF FamilyTypeOK, SaidBy
<1>10. ReportHonest'
  BY <1>0, <1>1, <1>4, DetachedLoginAssumption DEF FamilyTypeOK, ReportHonest, DaemonOf
<1> QED
  BY <1>3, <1>5, <1>6, <1>7, <1>8, <1>9, <1>10

\* All kinds of steps.
Kind(p) ==
  \/ Turn(p) \/ End(p)
  \/ StartLogin(p) \/ StartWriter(p) \/ ExecForeground(p) \/ ExecDaemon(p)
  \/ CloseWrite(p) \/ Interrupted(p) \/ ReadReport(p) \/ WritePid(p) \/ ExecRefused(p)
  \/ \E c \in Proc : SpawnFork(p, c) \/ MiddleFork(p, c)

LEMMA StepKinds == ASSUME FamilyInv, DetachNext PROVE \E p \in Proc : Kind(p)
<1>1. ASSUME NEW p \in Proc, ForegroundStep(p) PROVE Kind(p)
  <2>1. CloseWrite(p) \/ ReadReport(p) => Kind(p)
    BY Zenon DEF Kind
  <2>2. Leave(p) => Kind(p)
    BY StepEnds, Zenon DEF Kind
  <2>3. ASSUME NEW h \in Handle PROVE DisownLock(p, h) \/ ReleaseShared(p, h) => Kind(p)
    BY StepTurns, Zenon DEF Kind
  <2> QED
    BY <1>1, <2>1, <2>2, <2>3, Zenon DEF ForegroundStep
<1>2. ASSUME NEW p \in Proc, ChildStep(p) PROVE Kind(p)
  <2>1. MiddleExit(p) \/ DaemonExit(p) => Kind(p)
    BY StepEnds, Zenon DEF Kind
  <2>2. WritePid(p) \/ ExecDaemon(p) \/ ExecRefused(p) => Kind(p)
    BY Zenon DEF Kind
  <2>3. ASSUME NEW d \in Proc PROVE MiddleFork(p, d) => Kind(p)
    BY Zenon DEF Kind
  <2> QED
    BY <1>2, <2>1, <2>2, <2>3, Zenon DEF ChildStep
<1>3. ASSUME NEW p \in Proc PROVE SetupFails(p) => Kind(p)
  BY DEF SetupFails, Moves, Goes, lockVars, Turn, Stays, Kind
<1>4. ASSUME NEW p \in Proc PROVE MiddleInterrupted(p) \/ SessionEnds(p) \/ Killed(p) => Kind(p)
  BY StepEnds, Zenon DEF Kind
<1>5. ASSUME NEW p \in Proc, NEW h \in Handle
      PROVE  LockShared(p, h) \/ LockExclusive(p, h) \/ ReleaseExclusive(p, h) => Kind(p)
  BY StepTurns, Zenon DEF Kind
<1>6. ASSUME NEW p \in Proc
      PROVE  StartLogin(p) \/ ExecForeground(p) \/ StartWriter(p) \/ Interrupted(p) => Kind(p)
  BY Zenon DEF Kind
<1>7. ASSUME NEW p \in Proc, NEW c \in Proc PROVE SpawnFork(p, c) => Kind(p)
  BY Zenon DEF Kind
<1> QED
  BY <1>1, <1>2, <1>3, <1>4, <1>5, <1>6, <1>7, Zenon DEF DetachNext

LEMMA FamilyStep == FamilyInv /\ [DetachNext]_vars => FamilyInv'
<1>1. FamilyInv /\ UNCHANGED vars => FamilyInv'
  BY DEF vars, lockVars, FamilyInv, FamilyTypeOK, Roles, PipeSound, OneDaemon, Said, SaidBy,
         ReportHonest, DaemonOf
<1>2. FamilyInv /\ DetachNext => FamilyInv'
  BY StepKinds, TurnFamily, EndFamily, StartFamily, ExecFamily, CloseFamily, ReadFamily,
     SayFamily, ForkFamily DEF Kind
<1> QED
  BY <1>1, <1>2

\* Being interrupted is for good.
LEMMA InterruptedStays ==
  ASSUME FamilyInv, [DetachNext]_vars, NEW d \in Proc, LoginInterrupted(d)
  PROVE  LoginInterrupted(d)'
<1>1. parent[d] \in Proc /\ pc[parent[d]] = "abandoned"
  BY DEF LoginInterrupted, FamilyInv, FamilyTypeOK
<1> DEFINE f == parent[d]
<1>2. ASSUME NEW p \in Proc, Turn(p) \/ End(p) PROVE parent' = parent /\ pc'[f] = "abandoned"
  BY <1>1, <1>2 DEF Turn, End, Stays, FamilyInv, FamilyTypeOK
<1>3. ASSUME NEW p \in Proc, \/ StartLogin(p) \/ StartWriter(p) \/ ExecForeground(p) \/ ExecDaemon(p)
                             \/ CloseWrite(p) \/ Interrupted(p) \/ ReadReport(p)
                             \/ WritePid(p) \/ ExecRefused(p)
      PROVE  parent' = parent /\ pc'[f] = "abandoned"
  BY <1>1, <1>3 DEF StartLogin, StartWriter, ExecForeground, ExecDaemon, CloseWrite, Interrupted,
       ReadReport, WritePid, ExecRefused, Moves, Goes, FamilyInv, FamilyTypeOK
<1>4. ASSUME NEW p \in Proc, NEW c \in Proc, SpawnFork(p, c) \/ MiddleFork(p, c)
      PROVE  parent'[d] = f /\ pc'[f] = "abandoned"
  BY <1>1, <1>4, LockingAssumption
  DEF SpawnFork, MiddleFork, Fork, FamilyInv, FamilyTypeOK, Roles
<1>5. CASE UNCHANGED vars
  BY <1>5 DEF vars, LoginInterrupted
<1>6. CASE DetachNext
  <2>1. parent'[d] = f /\ pc'[f] = "abandoned"
    BY <1>1, <1>2, <1>3, <1>4, <1>6, StepKinds DEF Kind
  <2> QED
    BY <1>1, <2>1, LockingAssumption DEF LoginInterrupted
<1> QED
  BY <1>5, <1>6

-----------------------------------------------------------------------------
(* What they do to the locks.                                              *)

Lasting == \A d \in Proc : LoginInterrupted(d) => LoginInterrupted(d)'

\* p no longer has the description of h, which the others keep as it was.
Thinned(h, p) ==
  /\ ofd'[h].refs = ofd[h].refs \ {p}
  /\ \/ ofd'[h] = NoFile
     \/ ofd'[h].path = ofd[h].path /\ ofd'[h].mode = ofd[h].mode
  /\ ofd'[h].refs # {} => /\ ofd'[h].path = ofd[h].path /\ ofd'[h].mode = ofd[h].mode
                          /\ ofd'[h].inheritable = ofd[h].inheritable

LEMMA ClosedThins ==
  ASSUME NEW h \in Handle, NEW p \in Proc, ofd[h] \in File, ofd'[h] = Closed(ofd[h], {p})
  PROVE  Thinned(h, p)
<1>1. CASE ofd[h].refs \subseteq {p}
  <2>1. ofd'[h] = NoFile
    BY <1>1 DEF Closed
  <2>2. ofd[h].refs \ {p} = {}
    BY <1>1
  <2> QED
    BY <2>1, <2>2 DEF Thinned, NoFile
<1>2. CASE ~(ofd[h].refs \subseteq {p})
  <2>1. ofd'[h] = [ofd[h] EXCEPT !.refs = @ \ {p}]
    BY <1>2 DEF Closed
  <2> QED
    BY <2>1 DEF Thinned, File
<1> QED
  BY <1>1, <1>2

LEMMA UnlockedThins ==
  ASSUME NEW f \in File, NEW p \in Proc
  PROVE  /\ Unlocked(f, p).refs = f.refs \ {p} /\ Unlocked(f, p).mode = "none"
         /\ Unlocked(f, p).refs # {} =>
              /\ Unlocked(f, p).path = f.path
              /\ Unlocked(f, p).inheritable = f.inheritable
  BY DEF Unlocked, Closed, File, NoFile

LEMMA QuietKernel ==
  ASSUME FamilyInv, KernelInv, FamilyInv', Lasting, NEW p \in Proc, UNCHANGED lockVars,
         parent' = parent, NEW t, pc' = [pc EXCEPT ![p] = t],
         \/ /\ pc[p] \in {"locked", "spawning", "waiting", "started"}
            /\ t \in {"failed", "waiting", "interrupted", "started"}
         \/ pc[p] \in {"daemon", "told"} /\ t \in {"told", "refused"}
  PROVE  KernelInv'
<1> USE DEF KernelInv, lockVars
<1>1. TypeOK' /\ FlockExclusion' /\ OneObject'
  BY DEF TypeOK, FlockExclusion, OneObject
<1>2. ObjectSound' /\ ChangingLocked'
  BY DEF FamilyInv, FamilyTypeOK, ObjectSound, Sound, ChangingLocked
<1>3. RefsSound'
  BY DEF RefsSound, Family
<1>4. Sheltered'
  BY DEF FamilyInv, FamilyTypeOK, Sheltered, Guards, Lasting
<1> QED
  BY <1>1, <1>2, <1>3, <1>4

LEMMA StartKernel ==
  ASSUME FamilyInv, KernelInv, FamilyInv', Lasting, NEW p \in Proc,
         StartLogin(p) \/ StartWriter(p)
  PROVE  KernelInv'
<1> USE DEF KernelInv
<1>0. /\ UNCHANGED <<lock, ofd, heldExclusive, record, parent>>
      /\ proc[p] = "idle" /\ proc' = [proc EXCEPT ![p] = "running"]
      /\ pc[p] = "none" /\ \E t \in {"login", "exclusive"} : pc' = [pc EXCEPT ![p] = t]
  BY DEF StartLogin, StartWriter, Start, Goes
<1>1. TypeOK' /\ FlockExclusion' /\ OneObject'
  BY <1>0 DEF TypeOK, FlockExclusion, OneObject
<1>2. \A h \in Handle : lock[h] # NoLock => lock[h].proc # p
  BY <1>0 DEF ObjectSound, Sound, TypeOK, Lock
<1>3. ObjectSound' /\ ChangingLocked'
  BY <1>0, <1>2 DEF FamilyInv, FamilyTypeOK, ObjectSound, Sound, ChangingLocked
<1>4. RefsSound'
  BY <1>0 DEF RefsSound, Family, TypeOK, File
<1>5. Sheltered'
  BY <1>0 DEF FamilyInv, FamilyTypeOK, Sheltered, Guards, Lasting
<1> QED
  BY <1>1, <1>3, <1>4, <1>5

LEMMA ExitKernel ==
  ASSUME FamilyInv, KernelInv, FamilyInv', Lasting, NEW p \in Proc, Exit(p), End(p),
         pc[p] \in {"locked", "changing"} => pc'[p] = "killed"
  PROVE  KernelInv'
<1> USE DEF KernelInv
<1>0. \A h \in Handle : ofd[h] \in File /\ lock[h] \in Lock
  BY DEF TypeOK
<1>1. /\ \A h \in Handle : lock'[h] = IF lock[h].proc = p THEN NoLock ELSE lock[h]
      /\ parent' = parent /\ \A q \in Proc \ {p} : pc'[q] = pc[q] /\ proc'[q] = proc[q]
      /\ proc'[p] = "gone"
  BY DEF Exit, End, FamilyInv, FamilyTypeOK
<1>2. \A h \in Handle : Thinned(h, p)
  <2> SUFFICES ASSUME NEW h \in Handle PROVE Thinned(h, p)
    OBVIOUS
  <2>1. ofd'[h] = IF p \in ofd[h].refs THEN Closed(ofd[h], {p}) ELSE ofd[h]
    BY DEF Exit
  <2>2. CASE p \in ofd[h].refs
    BY <1>0, <2>1, <2>2, ClosedThins DEF Thinned
  <2>3. CASE p \notin ofd[h].refs
    BY <2>1, <2>3 DEF Thinned
  <2> QED
    BY <2>2, <2>3
<1>3. TypeOK'
  BY <1>0, FileEdited, BlankTyped DEF TypeOK, Exit
<1>4. FlockExclusion'
  BY <1>2, ThinnedExclusion DEF Thinned
<1>5. ObjectSound'
  <2> SUFFICES ASSUME NEW h \in Handle, lock'[h] # NoLock PROVE Sound(h)'
    BY DEF ObjectSound, Sound
  <2> DEFINE q == lock[h].proc
  <2>1. lock'[h] = lock[h] /\ q # p /\ Sound(h)
    BY <1>1 DEF ObjectSound
  <2>2. q \in Proc /\ pc'[q] = pc[q]
    BY <1>1, <2>1, DetachedLoginAssumption DEF Sound
  <2>3. q \in ofd[h].refs => /\ q \in ofd'[h].refs /\ ofd'[h].path = ofd[h].path
                             /\ ofd'[h].mode = ofd[h].mode /\ ofd'[h].inheritable = ofd[h].inheritable
    BY <1>2, <2>1 DEF Thinned
  <2> QED
    BY <2>1, <2>2, <2>3 DEF Sound
<1>6. OneObject'
  BY <1>1, LockingAssumption DEF OneObject, NoLock
<1>9. ChangingLocked'
  <2> SUFFICES ASSUME NEW q \in Proc, pc'[q] = "changing"
               PROVE  \E h \in Handle : lock'[h].proc = q /\ lock'[h].st = "entered"
    BY DEF ChangingLocked
  <2>1. q # p
    BY <1>1 DEF End, FamilyInv, FamilyTypeOK
  <2> QED
    BY <1>1, <2>1 DEF ChangingLocked
<1>7. RefsSound'
  BY <1>0, <1>1, <1>2 DEF RefsSound, Family, Thinned, File
<1>8. Sheltered'
  BY <1>0, <1>1, <1>2 DEF Sheltered, Guards, Thinned, Lasting, End, FamilyInv, FamilyTypeOK
<1> QED
  BY <1>3, <1>4, <1>5, <1>6, <1>7, <1>8, <1>9

LEMMA ExecKernel ==
  ASSUME FamilyInv, KernelInv, FamilyInv', Lasting, NEW p \in Proc,
         ExecForeground(p) \/ ExecDaemon(p)
  PROVE  KernelInv'
<1> USE DEF KernelInv
<1>0. \A h \in Handle : ofd[h] \in File /\ lock[h] \in Lock
  BY DEF TypeOK
<1>1. /\ Exec(p) /\ parent' = parent /\ lock' = lock /\ pc' = [pc EXCEPT ![p] = "session"]
      /\ proc' = [proc EXCEPT ![p] = "session"]
      /\ pc[p] = "locked" \/ (pc[p] = "told" /\ proc[p] = "child")
      /\ \A h \in Handle : lock[h].proc = p =>
           lock[h].st = "entered" /\ (ofd[h].inheritable \/ lock[h].path \in Lockless)
  <2>1. Exec(p) /\ parent' = parent /\ \E s \in {"locked", "told"} : Goes(p, s, "session")
    BY Zenon DEF ExecForeground, ExecDaemon
  <2>2. pc[p] = "told" => proc[p] = "child"
    BY DEF FamilyInv, Roles
  <2> QED
    BY <2>1, <2>2 DEF Exec, Goes
<1>2. \A h \in Handle : \/ ofd'[h] = ofd[h]
                        \/ Thinned(h, p) /\ ~ofd[h].inheritable
  <2> SUFFICES ASSUME NEW h \in Handle, ofd'[h] # ofd[h]
               PROVE  Thinned(h, p) /\ ~ofd[h].inheritable
    OBVIOUS
  <2>1. ofd'[h] = IF p \in ofd[h].refs /\ ~ofd[h].inheritable THEN Closed(ofd[h], {p})
                                                            ELSE ofd[h]
    BY <1>1 DEF Exec
  <2>2. ofd'[h] = Closed(ofd[h], {p}) /\ ~ofd[h].inheritable
    BY <2>1
  <2> QED
    BY <1>0, <2>2, ClosedThins DEF Thinned
<1>3. TypeOK'
  BY <1>0, <1>1, FileEdited DEF TypeOK, Exec
<1>4. FlockExclusion'
  BY <1>2, ThinnedExclusion DEF Thinned
<1>5. ObjectSound'
  BY <1>0, <1>1, <1>2, DetachedLoginAssumption DEF ObjectSound, Sound, Thinned, FamilyInv, FamilyTypeOK
<1>6. OneObject' /\ ChangingLocked'
  BY <1>1 DEF OneObject, ChangingLocked, FamilyInv, FamilyTypeOK
<1>7. RefsSound'
  BY <1>0, <1>1, <1>2 DEF RefsSound, Family, Thinned, File, FamilyInv, FamilyTypeOK
<1>8. Sheltered'
  <2>1. \A h \in Handle, q \in Proc : Guards(h, q) => Guards(h, q)'
    BY <1>2 DEF Guards, Thinned
  <2> QED
    BY <1>1, <2>1 DEF Sheltered, Lasting, FamilyInv, FamilyTypeOK
<1> QED
  BY <1>3, <1>4, <1>5, <1>6, <1>7, <1>8

LEMMA ForkKernel ==
  ASSUME FamilyInv, KernelInv, FamilyInv', Lasting, NEW p \in Proc, NEW c \in Proc,
         SpawnFork(p, c) \/ MiddleFork(p, c)
  PROVE  KernelInv'
<1> USE DEF KernelInv
<1> DEFINE f == IF pc[p] = "locked" THEN p ELSE parent[p]
<1>0. \A h \in Handle : ofd[h] \in File /\ lock[h] \in Lock
  BY DEF TypeOK
<1>1. /\ pc[p] \in {"locked", "middle"} /\ f = Family(p) /\ f \in Proc /\ f # c /\ p # c
      /\ proc[c] = "idle" /\ parent[c] = None /\ c \notin Login \cup Writer
      /\ pc[p] = "middle" => proc[p] = "child" /\ f # p /\ parent[p] = f
      /\ pc[p] = "locked" => parent[p] = None
  BY DetachedLoginAssumption, LockingAssumption
  DEF SpawnFork, MiddleFork, Fork, FamilyInv, FamilyTypeOK, Roles, Children, Family
<1>2. /\ parent' = [parent EXCEPT ![c] = f] /\ proc' = [proc EXCEPT ![c] = "child"]
      /\ pc' = IF pc[p] = "locked" THEN [pc EXCEPT ![p] = "spawning", ![c] = "middle"]
                                   ELSE [pc EXCEPT ![p] = "forked", ![c] = "daemon"]
      /\ lock' = lock
  BY <1>1 DEF SpawnFork, MiddleFork, Fork
<1>3. \A h \in Handle :
        /\ ofd'[h].path = ofd[h].path /\ ofd'[h].mode = ofd[h].mode
        /\ ofd'[h].inheritable = ofd[h].inheritable
        /\ ofd'[h].refs = IF p \in ofd[h].refs THEN ofd[h].refs \cup {c} ELSE ofd[h].refs
  <2>1. ofd' = [h \in Handle |-> IF p \in ofd[h].refs
                                   THEN [ofd[h] EXCEPT !.refs = @ \cup {c}] ELSE ofd[h]]
    BY Zenon DEF SpawnFork, MiddleFork, Fork
  <2> SUFFICES ASSUME NEW h \in Handle
               PROVE  /\ ofd'[h].path = ofd[h].path /\ ofd'[h].mode = ofd[h].mode
                      /\ ofd'[h].inheritable = ofd[h].inheritable
                      /\ ofd'[h].refs = IF p \in ofd[h].refs THEN ofd[h].refs \cup {c}
                                                             ELSE ofd[h].refs
    OBVIOUS
  <2> QED
    BY <1>0, <2>1 DEF File
<1>4. TypeOK'
  <2>1. Fork(p, c)
    BY DEF SpawnFork, MiddleFork
  <2> QED
    BY <1>0, <2>1, FileEdited DEF TypeOK, Fork
<1>5. FlockExclusion'
  BY <1>3 DEF FlockExclusion
<1>6. ObjectSound'
  <2> SUFFICES ASSUME NEW h \in Handle, lock[h] # NoLock PROVE Sound(h)'
    BY <1>2 DEF ObjectSound, Sound
  <2> DEFINE q == lock[h].proc
  <2>1. Sound(h) /\ q \in Login \cup Writer /\ q \in Proc /\ q # c
    BY <1>1, DetachedLoginAssumption DEF ObjectSound, Sound
  <2>2. \/ pc'[q] = pc[q]
        \/ pc'[q] \in {"spawning", "forked"} /\ pc[q] \in {"locked", "middle"}
    BY <1>1, <1>2, <2>1 DEF FamilyInv, FamilyTypeOK
  <2> QED
    BY <1>2, <1>3, <2>1, <2>2 DEF Sound
<1>7. OneObject' /\ ChangingLocked'
  BY <1>1, <1>2 DEF OneObject, ChangingLocked, FamilyInv, FamilyTypeOK
<1>8. RefsSound'
  <2>1. \A h \in Handle : c \notin ofd[h].refs
    BY <1>1 DEF RefsSound
  <2>2. \A q \in Proc : q # c => Family(q)' = Family(q)
    BY <1>2 DEF Family, FamilyInv, FamilyTypeOK
  <2>3. Family(c)' = f
    BY <1>1, <1>2, LockingAssumption DEF Family, FamilyInv, FamilyTypeOK
  <2>4. \A q \in Proc : proc'[q] = IF q = c THEN "child" ELSE proc[q]
    BY <1>2 DEF FamilyInv, FamilyTypeOK
  <2> SUFFICES ASSUME NEW h \in Handle, NEW q \in ofd'[h].refs
               PROVE  /\ proc'[q] \notin {"idle", "gone"}
                      /\ \A r \in ofd'[h].refs : Family(r)' = Family(q)'
    BY DEF RefsSound
  <2>5. \A r \in ofd'[h].refs : r \in Proc /\ (r \in ofd[h].refs \/ (r = c /\ p \in ofd[h].refs))
    <3>1. ofd[h].refs \subseteq Proc
      BY <1>0 DEF File
    <3>2. ofd'[h].refs = IF p \in ofd[h].refs THEN ofd[h].refs \cup {c} ELSE ofd[h].refs
      BY <1>3
    <3>3. CASE p \in ofd[h].refs
      BY <3>1, <3>2, <3>3
    <3>4. CASE p \notin ofd[h].refs
      BY <3>1, <3>2, <3>4
    <3> QED
      BY <3>3, <3>4
  <2>6. \A r \in ofd[h].refs : r \in Proc /\ proc[r] \notin {"idle", "gone"}
                               /\ \A s \in ofd[h].refs : Family(s) = Family(r)
    BY <1>0 DEF RefsSound, File
  <2>7. \A r \in ofd'[h].refs : proc'[r] \notin {"idle", "gone"}
    BY <2>4, <2>5, <2>6
  <2>8. \A r \in ofd'[h].refs : /\ r # c => r \in ofd[h].refs /\ Family(r)' = Family(r)
                                /\ r = c => p \in ofd[h].refs /\ Family(r)' = Family(p)
    BY <1>1, <2>1, <2>2, <2>3, <2>5
  <2> QED
    BY <2>6, <2>7, <2>8
<1>9. Sheltered'
  <2>1. \A h \in Handle, q \in Proc : Guards(h, q) => Guards(h, q)'
    BY <1>3 DEF Guards
  <2>2. \A h \in Handle : Guards(h, p) => Guards(h, c)'
    BY <1>3 DEF Guards
  <2>3. LoginInterrupted(p) => LoginInterrupted(c)'
    BY <1>1, <1>2, LockingAssumption DEF LoginInterrupted, FamilyInv, FamilyTypeOK
  <2>4. \A q \in Proc : q # c /\ (proc'[q] \in {"child", "session"} \/ pc'[q] = "locked") =>
                          proc[q] \in {"child", "session"} \/ pc[q] = "locked"
    BY <1>1, <1>2 DEF FamilyInv, FamilyTypeOK
  <2> QED
    BY <1>1, <2>1, <2>2, <2>3, <2>4 DEF Sheltered, Lasting
<1> QED
  BY <1>4, <1>5, <1>6, <1>7, <1>8, <1>9

LEMMA DisownKernel ==
  ASSUME FamilyInv, KernelInv, FamilyInv', Lasting, NEW p \in Proc, NEW k \in Handle,
         DisownLock(p, k)
  PROVE  KernelInv'
<1> USE DEF KernelInv
<1>0. \A h \in Handle : ofd[h] \in File /\ lock[h] \in Lock
  BY DEF TypeOK
<1>1. /\ UNCHANGED <<proc, ofd, heldExclusive, record, parent>>
      /\ lock[k].proc = p /\ lock[k].st = "entered"
      /\ lock' = [lock EXCEPT ![k] = [lock[k] EXCEPT !.disowned = TRUE]]
      /\ pc[p] = "started" /\ pc' = [pc EXCEPT ![p] = "disowned"]
  BY DEF DisownLock, Disown, Goes
<1>2. TypeOK'
  BY <1>0, <1>1, LockEdited DEF TypeOK
<1>3. /\ \A h \in Handle : h # k => lock'[h] = lock[h] /\ lock[h].proc # p
      /\ lock'[k].disowned /\ lock'[k].st = "entered" /\ lock'[k].proc = p
      /\ lock'[k].path = lock[k].path /\ lock'[k].excl = lock[k].excl
      /\ lock'[k].reentrant = lock[k].reentrant /\ lock[k] # NoLock
  BY <1>0, <1>1 DEF OneObject, TypeOK, Lock, NoLock
<1>4. FlockExclusion' /\ OneObject'
  BY <1>1, <1>3 DEF FlockExclusion, OneObject
<1>5. ObjectSound'
  BY <1>1, <1>3, DetachedLoginAssumption DEF ObjectSound, Sound, FamilyInv, FamilyTypeOK
<1>6. ChangingLocked'
  BY <1>1, <1>3 DEF ChangingLocked, FamilyInv, FamilyTypeOK
<1>7. RefsSound'
  BY <1>1 DEF RefsSound, Family
<1>8. Sheltered'
  BY <1>1 DEF Sheltered, Guards, Lasting, FamilyInv, FamilyTypeOK
<1> QED
  BY <1>2, <1>4, <1>5, <1>6, <1>7, <1>8

LEMMA ReleaseKernel ==
  ASSUME FamilyInv, KernelInv, FamilyInv', Lasting, NEW p \in Proc, NEW k \in Handle,
         ReleaseShared(p, k) \/ ReleaseExclusive(p, k)
  PROVE  KernelInv'
<1> USE DEF KernelInv
<1>0. \A h \in Handle : ofd[h] \in File /\ lock[h] \in Lock
  BY DEF TypeOK
<1>1. /\ Release(p, k) /\ parent' = parent
      /\ \/ pc[p] \in {"failed", "disowned", "changing"} /\ pc' = [pc EXCEPT ![p] = "leaving"]
         \/ pc[p] = "interrupted" /\ pc' = [pc EXCEPT ![p] = "abandoned"]
  BY DEF ReleaseShared, ReleaseExclusive, Goes
<1>2. /\ proc' = proc /\ record' = record /\ lock[k].proc = p /\ lock[k].st = "entered"
      /\ lock' = [lock EXCEPT ![k] = NoLock] /\ proc[p] = "running"
      /\ heldExclusive' \in [Proc -> SUBSET Path]
  BY <1>1 DEF Release, TypeOK
<1>3. Sound(k) /\ ~lock[k].reentrant /\ lock[k] # NoLock
  BY <1>0, <1>2 DEF ObjectSound, Sound, NoLock
<1>4. ofd' = [ofd EXCEPT ![k] = IF lock[k].disowned THEN Closed(ofd[k], {p})
                                                    ELSE Unlocked(ofd[k], p)]
  BY <1>1, <1>3 DEF Release
<1>5. /\ ofd'[k].refs = ofd[k].refs \ {p}
      /\ lock[k].disowned => Thinned(k, p)
      /\ ~lock[k].disowned => ofd'[k].mode = "none"
      /\ \A h \in Handle : h # k => ofd'[h] = ofd[h]
  <2>1. /\ \A h \in Handle : h # k => ofd'[h] = ofd[h]
        /\ ofd'[k] = IF lock[k].disowned THEN Closed(ofd[k], {p}) ELSE Unlocked(ofd[k], p)
    BY <1>4 DEF TypeOK
  <2>2. CASE lock[k].disowned
    BY <1>0, <2>1, <2>2, ClosedThins DEF Thinned
  <2>3. CASE ~lock[k].disowned
    BY <1>0, <2>1, <2>3, UnlockedThins
  <2> QED
    BY <2>1, <2>2, <2>3
<1>6. TypeOK'
  BY <1>0, <1>2, <1>4, FileEdited, BlankTyped DEF TypeOK
<1>7. FlockExclusion'
  <2>1. CASE lock[k].disowned
    BY <1>5, <2>1, ThinnedExclusion DEF Thinned
  <2>2. CASE ~lock[k].disowned
    BY <1>5, <2>2 DEF FlockExclusion
  <2> QED
    BY <2>1, <2>2
<1>8. \A h \in Handle : h # k => lock'[h] = lock[h] /\ lock[h].proc # p
  BY <1>2 DEF OneObject, TypeOK
<1>9. ObjectSound'
  <2> SUFFICES ASSUME NEW h \in Handle, h # k, lock[h] # NoLock PROVE Sound(h)'
    BY <1>2, <1>8 DEF ObjectSound, Sound, TypeOK
  <2>1. Sound(h) /\ pc'[lock[h].proc] = pc[lock[h].proc]
    BY <1>1, <1>8, DetachedLoginAssumption DEF ObjectSound, Sound, FamilyInv, FamilyTypeOK
  <2> QED
    BY <1>5, <1>8, <2>1 DEF Sound
<1>10. OneObject' /\ ChangingLocked'
  BY <1>1, <1>2, <1>8, LockingAssumption
  DEF OneObject, ChangingLocked, NoLock, TypeOK, FamilyInv, FamilyTypeOK
<1>11. RefsSound'
  BY <1>1, <1>2, <1>5 DEF RefsSound, Family
<1>12. Sheltered'
  <2> SUFFICES ASSUME Container \notin Lockless, NEW q \in Proc,
                      proc'[q] \in {"child", "session"} \/ pc'[q] = "locked"
               PROVE  (\E h \in Handle : Guards(h, q)') \/ LoginInterrupted(q)'
    BY DEF Sheltered
  <2>1. q # p /\ pc'[q] = pc[q]
    BY <1>1, <1>2 DEF FamilyInv, FamilyTypeOK
  <2>2. CASE LoginInterrupted(q)
    BY <2>2 DEF Lasting
  <2>3. ASSUME NEW h \in Handle, Guards(h, q), h # k \/ lock[k].disowned PROVE Guards(h, q)'
    BY <1>5, <2>1, <2>3 DEF Guards, Thinned
  <2>4. CASE Guards(k, q) /\ ~lock[k].disowned
    <3>1. Family(q) = p /\ parent[p] = None
      <4>1. Family(q) = Family(p)
        BY <1>2, <1>3, <2>4 DEF Sound, RefsSound, Guards
      <4>2. parent[p] = None
        BY <1>2 DEF FamilyInv, Roles
      <4> QED
        BY <4>1, <4>2 DEF Family
    <3>2. parent[q] = p /\ q \notin Login \cup Writer /\ p \in Login
      BY <2>1, <3>1, LockingAssumption DEF Family, FamilyInv, Roles
    <3>3. pc[q] # "locked" /\ pc[p] \in {"failed", "interrupted"}
      BY <1>1, <1>2, <1>3, <2>4, <3>2, DetachedLoginAssumption DEF Sound, FamilyInv, Roles
    <3>4. CASE pc[p] = "interrupted"
      BY <1>1, <3>2, <3>4, LockingAssumption DEF LoginInterrupted, FamilyInv, FamilyTypeOK
    <3>5. CASE pc[p] = "failed"
      <4>1. proc[q] # "child"
        BY <3>2, <3>5 DEF FamilyInv, PipeSound
      <4>2. proc[q] # "session"
        BY <3>2, <3>5 DEF FamilyInv, Roles, ReportHonest, DaemonOf
      <4> QED
        BY <1>2, <2>1, <3>3, <4>1, <4>2
    <3> QED
      BY <3>3, <3>4, <3>5
  <2> QED
    BY <1>2, <2>1, <2>2, <2>3, <2>4 DEF Sheltered
<1> QED
  BY <1>6, <1>7, <1>9, <1>10, <1>11, <1>12

\* acquire() settles without a flock: none can be had, or it is refused.
LEMMA SettledKernel ==
  ASSUME FamilyInv, KernelInv, FamilyInv', Lasting, NEW p \in Proc, NEW k \in Handle,
         NEW x \in BOOLEAN, x <=> p \in Writer, p \in Login \cup Writer,
         CanConstruct(p, k), pc[p] \in {"login", "exclusive"},
         NEW s \in {"entered", "failed"}, NEW t \in {"locked", "changing", "leaving"},
         s = "failed" <=> t = "leaving", s = "entered" => Container \in Lockless,
         lock' = [lock EXCEPT ![k] = Object(s, p, Container, x, FALSE)],
         pc' = [pc EXCEPT ![p] = t],
         UNCHANGED <<proc, ofd, heldExclusive, record, parent>>
  PROVE  KernelInv'
<1> USE DEF KernelInv
<1>0. \A h \in Handle : ofd[h] \in File /\ lock[h] \in Lock
  BY DEF TypeOK
<1>1. \A h \in Handle : lock[h].proc # p
  BY <1>0, LockingAssumption DEF CanConstruct, ObjectSound, Sound, NoLock
<1>2. /\ lock'[k] = Object(s, p, Container, x, FALSE) /\ lock[k] = NoLock
      /\ \A h \in Handle : h # k => lock'[h] = lock[h]
      /\ lock'[k].proc = p /\ lock'[k].st = s
  BY DEF TypeOK, CanConstruct, Object
<1>3. TypeOK'
  BY <1>0, ObjectTyped, DetachedLoginAssumption DEF TypeOK
<1>4. FlockExclusion'
  BY DEF FlockExclusion
<1>9. OneObject'
  <2> SUFFICES ASSUME NEW g \in Handle, NEW h \in Handle, g # h, lock'[g].proc \in Proc
               PROVE  lock'[h].proc # lock'[g].proc
    BY Zenon DEF OneObject
  <2>1. CASE g # k /\ h # k
    BY <1>2, <2>1, Zenon DEF OneObject
  <2>2. CASE g = k \/ h = k
    BY <1>1, <1>2, <2>2, Zenon
  <2> QED
    BY <2>1, <2>2
<1>5. ObjectSound'
  <2>1. \A h \in Handle : h # k => Sound(h)'
    BY <1>1, <1>2, DetachedLoginAssumption DEF ObjectSound, Sound, FamilyInv, FamilyTypeOK
  <2>2. Sound(k)'
    BY <1>2 DEF Sound, Object, FamilyInv, FamilyTypeOK
  <2> QED
    BY <2>1, <2>2 DEF ObjectSound
<1>6. ChangingLocked'
  <2> SUFFICES ASSUME NEW q \in Proc, pc'[q] = "changing"
               PROVE  \E h \in Handle : lock'[h].proc = q /\ lock'[h].st = "entered"
    BY DEF ChangingLocked
  <2>1. CASE q = p
    BY <1>2, <2>1 DEF FamilyInv, FamilyTypeOK
  <2>2. CASE q # p
    <3>1. PICK h \in Handle : lock[h].proc = q /\ lock[h].st = "entered"
      BY <2>2 DEF ChangingLocked, FamilyInv, FamilyTypeOK
    <3>2. h # k
      BY <1>2, <3>1 DEF NoLock
    <3> QED
      BY <1>2, <3>1, <3>2
  <2> QED
    BY <2>1, <2>2
<1>7. RefsSound'
  BY DEF RefsSound, Family
<1>8. Sheltered'
  BY DEF Sheltered, Guards, Lasting, FamilyInv, FamilyTypeOK, Roles
<1> QED
  BY <1>3, <1>4, <1>5, <1>6, <1>7, <1>8, <1>9

LEMMA GrantedKernel ==
  ASSUME FamilyInv, KernelInv, FamilyInv', Lasting, NEW p \in Proc, NEW k \in Handle,
         NEW x \in BOOLEAN, x <=> p \in Writer, p \in Login \cup Writer,
         AcquireGranted(p, k, Container, x, ~x), pc[p] = IF x THEN "exclusive" ELSE "login",
         pc' = pc, parent' = parent
  PROVE  KernelInv'
<1> USE DEF KernelInv
<1> DEFINE fresh == [path |-> Container, mode |-> FlockMode(x), refs |-> {p}, inheritable |-> ~x]
<1>0. \A h \in Handle : ofd[h] \in File /\ lock[h] \in Lock
  BY DEF TypeOK
<1>1. \A h \in Handle : lock[h].proc # p
  BY <1>0, LockingAssumption DEF AcquireGranted, CanConstruct, ObjectSound, Sound, NoLock
<1>2. /\ lock' = [lock EXCEPT ![k] = Object("locked", p, Container, x, FALSE)]
      /\ ofd' = [ofd EXCEPT ![k] = fresh]
      /\ UNCHANGED <<proc, heldExclusive, record>> /\ proc[p] = "running"
      /\ ofd[k] = NoFile /\ lock[k] = NoLock /\ Blockers(Container, x) = {}
  BY DEF AcquireGranted, CanConstruct
<1>3. /\ lock'[k] = Object("locked", p, Container, x, FALSE) /\ lock'[k].proc = p
      /\ ofd'[k] = fresh
      /\ \A h \in Handle : h # k => lock'[h] = lock[h] /\ ofd'[h] = ofd[h]
  BY <1>2 DEF TypeOK, Object
<1>4. TypeOK'
  BY <1>0, <1>2, ObjectTyped, FileTyped, DetachedLoginAssumption DEF TypeOK
<1>5. FlockExclusion'
  BY <1>0, <1>2, <1>3 DEF FlockExclusion, Blockers, FlockMode, File
<1>6. OneObject'
  BY <1>1, <1>3 DEF OneObject
<1>7. ObjectSound'
  <2>1. \A h \in Handle : h # k => Sound(h)'
    BY <1>3 DEF ObjectSound, Sound
  <2>2. Sound(k)'
    BY <1>3 DEF Sound, Object, FlockMode
  <2> QED
    BY <2>1, <2>2 DEF ObjectSound
<1>8. ChangingLocked'
  <2>1. \A h \in Handle : lock[h].st = "entered" => h # k
    BY <1>2 DEF NoLock
  <2> QED
    BY <1>3, <2>1 DEF ChangingLocked
<1>9. RefsSound'
  BY <1>2, <1>3 DEF RefsSound, Family
<1>10. Sheltered'
  <2>1. \A h \in Handle, q \in Proc : Guards(h, q) => Guards(h, q)'
    BY <1>2, <1>3 DEF Guards, NoFile
  <2> QED
    BY <1>2, <2>1 DEF Sheltered, Lasting
<1> QED
  BY <1>4, <1>5, <1>6, <1>7, <1>8, <1>9, <1>10

\* acquire() returns with the lock.
LEMMA EnterKernel ==
  ASSUME FamilyInv, KernelInv, FamilyInv', Lasting, NEW p \in Proc, NEW k \in Handle,
         WriteRecord(p, k), parent' = parent,
         \/ pc[p] = "login" /\ pc' = [pc EXCEPT ![p] = "locked"]
         \/ pc[p] = "exclusive" /\ pc' = [pc EXCEPT ![p] = "changing"]
  PROVE  KernelInv'
<1> USE DEF KernelInv
<1>0. \A h \in Handle : ofd[h] \in File /\ lock[h] \in Lock
  BY DEF TypeOK
<1>1. /\ UNCHANGED <<proc, ofd>> /\ proc[p] = "running"
      /\ lock[k].proc = p /\ lock[k].st = "locked" /\ lock[k] # NoLock
      /\ lock' = [lock EXCEPT ![k] = [lock[k] EXCEPT !.st = "entered"]]
  BY DEF WriteRecord, NoLock
<1>2. Sound(k)
  BY <1>1 DEF ObjectSound
<1>3. /\ \A h \in Handle : h # k => lock'[h] = lock[h] /\ lock[h].proc # p
      /\ lock'[k].disowned = lock[k].disowned /\ lock'[k].st = "entered" /\ lock'[k].proc = p
      /\ lock'[k].path = lock[k].path /\ lock'[k].excl = lock[k].excl
      /\ lock'[k].reentrant = lock[k].reentrant
  BY <1>0, <1>1 DEF OneObject, TypeOK, Lock
<1>4. TypeOK'
  <2>1. lock[k].path \in Path
    BY <1>2, <1>1, DetachedLoginAssumption DEF Sound
  <2>2. record' \in [Path -> Proc \cup {None}]
    BY DEF WriteRecord, TypeOK
  <2>3. heldExclusive' \in [Proc -> SUBSET Path]
    BY <2>1 DEF WriteRecord, TypeOK
  <2> QED
    BY <1>0, <1>1, <2>2, <2>3, LockEdited DEF TypeOK
<1>5. FlockExclusion' /\ OneObject'
  BY <1>1, <1>3 DEF FlockExclusion, OneObject
<1>6. ObjectSound'
  <2>1. \A h \in Handle : h # k => Sound(h)'
    BY <1>1, <1>3, DetachedLoginAssumption DEF ObjectSound, Sound, FamilyInv, FamilyTypeOK
  <2>2. pc'[p] \in {"locked", "changing"} /\ (pc'[p] = "locked" => pc[p] = "login")
    BY DEF FamilyInv, FamilyTypeOK
  <2>3. Sound(k)'
    BY <1>1, <1>2, <1>3, <2>2 DEF Sound
  <2> QED
    BY <2>1, <2>3 DEF ObjectSound
<1>7. ChangingLocked'
  BY <1>1, <1>3 DEF ChangingLocked, FamilyInv, FamilyTypeOK
<1>8. RefsSound'
  BY <1>1 DEF RefsSound, Family
<1>9. Sheltered'
  <2>1. (pc'[p] = "locked" /\ Container \notin Lockless) => Guards(k, p)
    BY <1>1, <1>2, DetachedLoginAssumption DEF Sound, Guards, FamilyInv, FamilyTypeOK, Roles
  <2> QED
    BY <1>1, <2>1 DEF Sheltered, Guards, Lasting, FamilyInv, FamilyTypeOK
<1> QED
  BY <1>4, <1>5, <1>6, <1>7, <1>8, <1>9

LEMMA AcquireKernel ==
  ASSUME FamilyInv, KernelInv, FamilyInv', Lasting, NEW p \in Proc, NEW k \in Handle,
         LockShared(p, k) \/ LockExclusive(p, k)
  PROVE  KernelInv'
<1>1. CASE LockShared(p, k)
  <2>1. pc[p] = "login" /\ p \in Login /\ p \notin Writer /\ parent' = parent
    BY <1>1, DetachedLoginAssumption DEF LockShared, Goes, FamilyInv, Roles
  <2>2. CASE AcquireGranted(p, k, Container, FALSE, TRUE) /\ Goes(p, "login", "login")
    <3>1. pc' = pc
      BY <2>2 DEF Goes, FamilyInv, FamilyTypeOK
    <3> QED
      BY <2>1, <2>2, <3>1, GrantedKernel
  <2>3. CASE WriteRecord(p, k) /\ Goes(p, "login", "locked")
    BY <2>1, <2>3, EnterKernel DEF Goes
  <2>4. CASE AcquireUnlocked(p, k, Container, FALSE) /\ Goes(p, "login", "locked")
    <3>1. /\ CanConstruct(p, k) /\ Container \in Lockless /\ UNCHANGED <<proc, ofd, heldExclusive, record>>
          /\ lock' = [lock EXCEPT ![k] = Object("entered", p, Container, FALSE, FALSE)]
          /\ pc' = [pc EXCEPT ![p] = "locked"]
      BY <2>4 DEF AcquireUnlocked, Goes
    <3> QED
      BY <2>1, <3>1, SettledKernel
  <2>5. CASE /\ AcquireBusy(p, k, Container, FALSE) \/ AcquireBarred(p, k, Container, FALSE)
             /\ Goes(p, "login", "leaving")
    <3>1. /\ CanConstruct(p, k) /\ UNCHANGED <<proc, ofd, heldExclusive, record>>
          /\ lock' = [lock EXCEPT ![k] = Object("failed", p, Container, FALSE, FALSE)]
          /\ pc' = [pc EXCEPT ![p] = "leaving"]
      BY <2>5 DEF AcquireBusy, AcquireBarred, Goes
    <3> QED
      BY <2>1, <3>1, SettledKernel
  <2> QED
    BY <1>1, <2>2, <2>3, <2>4, <2>5, Zenon DEF LockShared
<1>2. CASE LockExclusive(p, k)
  <2>1. pc[p] = "exclusive" /\ p \in Writer /\ parent' = parent
    BY <1>2 DEF LockExclusive, Goes, FamilyInv, Roles
  <2>2. CASE AcquireGranted(p, k, Container, TRUE, FALSE) /\ Goes(p, "exclusive", "exclusive")
    <3>1. pc' = pc
      BY <2>2 DEF Goes, FamilyInv, FamilyTypeOK
    <3> QED
      BY <2>1, <2>2, <3>1, GrantedKernel
  <2>3. CASE WriteRecord(p, k) /\ Goes(p, "exclusive", "changing")
    BY <2>1, <2>3, EnterKernel DEF Goes
  <2>4. CASE AcquireUnlocked(p, k, Container, TRUE) /\ Goes(p, "exclusive", "changing")
    <3>1. /\ CanConstruct(p, k) /\ Container \in Lockless /\ UNCHANGED <<proc, ofd, heldExclusive, record>>
          /\ lock' = [lock EXCEPT ![k] = Object("entered", p, Container, TRUE, FALSE)]
          /\ pc' = [pc EXCEPT ![p] = "changing"]
      BY <2>4 DEF AcquireUnlocked, Goes
    <3> QED
      BY <2>1, <3>1, SettledKernel
  <2>5. CASE /\ AcquireBusy(p, k, Container, TRUE) \/ AcquireBarred(p, k, Container, TRUE)
             /\ Goes(p, "exclusive", "leaving")
    <3>1. /\ CanConstruct(p, k) /\ UNCHANGED <<proc, ofd, heldExclusive, record>>
          /\ lock' = [lock EXCEPT ![k] = Object("failed", p, Container, TRUE, FALSE)]
          /\ pc' = [pc EXCEPT ![p] = "leaving"]
      BY <2>5 DEF AcquireBusy, AcquireBarred, Goes
    <3> QED
      BY <2>1, <3>1, SettledKernel
  <2> QED
    BY <1>2, <2>2, <2>3, <2>4, <2>5, Zenon DEF LockExclusive
<1> QED
  BY <1>1, <1>2

\* The middle process unlocks while it is the only child, and its login can no
\* longer become a session itself.
LEMMA MiddleKernel ==
  ASSUME FamilyInv, KernelInv, FamilyInv', Lasting, NEW p \in Proc, MiddleInterrupted(p)
  PROVE  KernelInv'
<1> USE DEF KernelInv
<1> DEFINE f == parent[p]
<1>0. \A h \in Handle : ofd[h] \in File /\ lock[h] \in Lock
  BY DEF TypeOK
<1>1. /\ UNCHANGED <<lock, record, pc, parent>> /\ pc[p] = "middle"
      /\ proc' = [proc EXCEPT ![p] = "gone"]
      /\ heldExclusive' = [heldExclusive EXCEPT ![p] = {}]
      /\ f # None /\ f \in Login /\ f \in Proc /\ parent[f] = None /\ Family(p) = f
      /\ pc[f] \notin {"login", "locked"} /\ proc[f] \notin {"child", "session"}
      /\ p \notin Login \cup Writer
  BY DetachedLoginAssumption
  DEF MiddleInterrupted, FamilyInv, FamilyTypeOK, Roles, Children, Family
<1>2. \A h \in Handle :
        /\ p \notin ofd[h].refs => ofd'[h] = ofd[h]
        /\ p \in ofd[h].refs => ofd'[h].mode = "none"
        /\ ofd'[h].refs = ofd[h].refs \ {p}
        /\ ofd'[h].refs # {} => /\ ofd'[h].path = ofd[h].path
                                /\ ofd'[h].inheritable = ofd[h].inheritable
  <2> SUFFICES ASSUME NEW h \in Handle
               PROVE  /\ p \notin ofd[h].refs => ofd'[h] = ofd[h]
                      /\ p \in ofd[h].refs => ofd'[h].mode = "none"
                      /\ ofd'[h].refs = ofd[h].refs \ {p}
                      /\ ofd'[h].refs # {} => /\ ofd'[h].path = ofd[h].path
                                              /\ ofd'[h].inheritable = ofd[h].inheritable
    OBVIOUS
  <2>1. ofd'[h] = IF p \in ofd[h].refs THEN Unlocked(ofd[h], p) ELSE ofd[h]
    BY DEF MiddleInterrupted
  <2>2. CASE p \in ofd[h].refs
    BY <1>0, <2>1, <2>2, UnlockedThins
  <2>3. CASE p \notin ofd[h].refs
    BY <2>1, <2>3
  <2> QED
    BY <2>2, <2>3
<1>3. TypeOK'
  BY <1>0, <1>1, FileEdited DEF TypeOK, MiddleInterrupted
<1>4. FlockExclusion'
  BY <1>2 DEF FlockExclusion
<1>5. \A h \in Handle, q \in Proc : (p \in ofd[h].refs /\ q \in ofd[h].refs) => Family(q) = f
  BY <1>1 DEF RefsSound
<1>6. ObjectSound'
  <2> SUFFICES ASSUME NEW h \in Handle, lock[h] # NoLock PROVE Sound(h)'
    BY <1>1 DEF ObjectSound, Sound
  <2> DEFINE q == lock[h].proc
  <2>1. Sound(h) /\ q \in Login \cup Writer /\ q \in Proc /\ q # p /\ parent[q] = None
    BY <1>1, DetachedLoginAssumption DEF ObjectSound, Sound, FamilyInv, Roles
  <2>2. (p \in ofd[h].refs /\ q \in ofd[h].refs) => q = f
    BY <1>5, <2>1 DEF Family
  <2>3. (p \in ofd[h].refs /\ q \in ofd[h].refs) => ~lock[h].excl
    BY <1>1, <2>1, <2>2, DetachedLoginAssumption DEF Sound
  <2>4. q \in ofd[h].refs => /\ q \in ofd'[h].refs /\ ofd'[h].path = ofd[h].path
                             /\ ofd'[h].inheritable = ofd[h].inheritable
    BY <1>2, <2>1
  <2> QED
    BY <1>1, <1>2, <2>1, <2>2, <2>3, <2>4 DEF Sound
<1>7. OneObject' /\ ChangingLocked'
  BY <1>1 DEF OneObject, ChangingLocked
<1>8. RefsSound'
  BY <1>0, <1>1, <1>2 DEF RefsSound, Family, File, FamilyInv, FamilyTypeOK
<1>9. Sheltered'
  <2> SUFFICES ASSUME Container \notin Lockless, NEW q \in Proc,
                      proc'[q] \in {"child", "session"} \/ pc'[q] = "locked"
               PROVE  (\E h \in Handle : Guards(h, q)') \/ LoginInterrupted(q)'
    BY DEF Sheltered
  <2>1. q # p /\ q # f /\ proc'[q] = proc[q]
    BY <1>1 DEF FamilyInv, FamilyTypeOK
  <2>2. parent[q] # f
    BY <1>1, <2>1 DEF FamilyInv, OneDaemon, Roles, Children, Daemons
  <2>3. ASSUME NEW h \in Handle, Guards(h, q) PROVE Guards(h, q)'
    <3>1. p \notin ofd[h].refs
      BY <1>5, <2>1, <2>2, <2>3 DEF Guards, Family
    <3> QED
      BY <1>2, <2>3, <3>1 DEF Guards
  <2> QED
    BY <1>1, <2>1, <2>3 DEF Sheltered, Lasting
<1> QED
  BY <1>3, <1>4, <1>6, <1>7, <1>8, <1>9

-----------------------------------------------------------------------------
(* The theorems.                                                           *)

LEMMA LocksStep == ASSUME FamilyInv, KernelInv, DetachNext PROVE KernelInv'
<1>1. FamilyInv' /\ Lasting
  <2>1. [DetachNext]_vars
    OBVIOUS
  <2> QED
    BY <2>1, FamilyStep, InterruptedStays DEF Lasting
<1>2. ASSUME NEW p \in Proc, \/ SetupFails(p) \/ CloseWrite(p) \/ ReadReport(p) \/ Interrupted(p)
                             \/ WritePid(p) \/ ExecRefused(p)
      PROVE  KernelInv'
  <2>1. /\ UNCHANGED lockVars /\ parent' = parent
        /\ \E s, t \in {"locked", "spawning", "waiting", "started", "failed", "interrupted",
                        "daemon", "told", "refused"} :
             /\ Goes(p, s, t)
             /\ \/ /\ s \in {"locked", "spawning", "waiting", "started"}
                   /\ t \in {"failed", "waiting", "interrupted", "started"}
                \/ s \in {"daemon", "told"} /\ t \in {"told", "refused"}
    BY <1>2 DEF SetupFails, CloseWrite, ReadReport, Interrupted, WritePid, ExecRefused, Moves
  <2> QED
    BY <1>1, <2>1, QuietKernel DEF Goes
<1>3. ASSUME NEW p \in Proc, \/ Leave(p) \/ MiddleExit(p) \/ DaemonExit(p)
                             \/ SessionEnds(p) \/ Killed(p)
      PROVE  KernelInv'
  <2>1. Exit(p) /\ End(p)
    BY <1>3, StepEnds, Zenon DEF Leave, MiddleExit, DaemonExit, SessionEnds, Killed
  <2>2. pc[p] \in {"locked", "changing"} => pc'[p] = "killed"
    BY <1>3 DEF Leave, MiddleExit, DaemonExit, SessionEnds, Killed, FamilyInv, FamilyTypeOK, Roles
  <2> QED
    BY <1>1, <2>1, <2>2, ExitKernel
<1>4. ASSUME NEW p \in Proc, NEW h \in Handle,
             \/ DisownLock(p, h) \/ ReleaseShared(p, h) \/ ReleaseExclusive(p, h)
             \/ LockShared(p, h) \/ LockExclusive(p, h)
      PROVE  KernelInv'
  BY <1>1, <1>4, DisownKernel, ReleaseKernel, AcquireKernel
<1>5. ASSUME NEW p \in Proc, NEW c \in Proc, SpawnFork(p, c) \/ MiddleFork(p, c)
      PROVE  KernelInv'
  BY <1>1, <1>5, ForkKernel
<1>6. ASSUME NEW p \in Proc, \/ StartLogin(p) \/ StartWriter(p) \/ ExecForeground(p)
                             \/ ExecDaemon(p) \/ MiddleInterrupted(p)
      PROVE  KernelInv'
  BY <1>1, <1>6, StartKernel, ExecKernel, MiddleKernel
<1> QED
  BY <1>2, <1>3, <1>4, <1>5, <1>6, Zenon DEF DetachNext, ForegroundStep, ChildStep

LEMMA DetachStart == DetachInit => DetachInv
<1> SUFFICES ASSUME DetachInit PROVE DetachInv
  OBVIOUS
<1>1. FamilyInv
  BY DetachedLoginAssumption
  DEF DetachInit, Init, FamilyInv, FamilyTypeOK, Pipe, NoPipe, Roles, Starting, Children,
      PipeSound, OneDaemon, Daemons, Said, SaidBy, ReportHonest, DaemonOf
<1>2. TypeOK /\ FlockExclusion
  BY InitIInv DEF DetachInit, IInv
<1>3. ObjectSound /\ OneObject /\ ChangingLocked /\ RefsSound /\ Sheltered
  BY LockingAssumption
  DEF DetachInit, Init, ObjectSound, Sound, OneObject, ChangingLocked, RefsSound, Sheltered,
      NoLock, NoFile
<1> QED
  BY <1>1, <1>2, <1>3 DEF DetachInv, KernelInv

\* The processes of a login, their pipe and their locks fit together, wherever
\* each of them is interrupted or killed.
THEOREM DetachInvariant == DetachSpec => []DetachInv
<1>1. DetachInv /\ [DetachNext]_vars => DetachInv'
  <2>1. FamilyInv /\ KernelInv /\ UNCHANGED vars => KernelInv'
    BY DEF vars, lockVars, KernelInv, TypeOK, FlockExclusion, ObjectSound, Sound, OneObject,
           ChangingLocked, RefsSound, Family, Sheltered, Guards, LoginInterrupted
  <2> QED
    BY <2>1, FamilyStep, LocksStep DEF DetachInv
<1> QED
  BY <1>1, DetachStart, PTL DEF DetachSpec

\* spawn_detached() reports a daemon as started only if it became proot or was
\* killed, and as failed only if none became proot.
THEOREM DetachReportHonest == DetachSpec => []ReportHonest
<1>1. DetachInv => ReportHonest
  BY DEF DetachInv, FamilyInv
<1> QED
  BY <1>1, DetachInvariant, PTL

\* A session is without the shared lock of its container only if its own login
\* was interrupted between the fork and disown(); no other is changed under.
THEOREM DetachLockLostOnlyByInterrupt == DetachSpec => []LockLostOnlyByInterrupt
<1>1. DetachInv => LockLostOnlyByInterrupt
  <2> SUFFICES ASSUME DetachInv, Container \notin Lockless,
                      NEW d \in Proc, proc[d] = "session", ~LoginInterrupted(d)
               PROVE  /\ Locked(d)
                      /\ \A w \in Proc : ~(pc[w] = "changing" /\ proc[w] = "running")
    BY DEF LockLostOnlyByInterrupt
  <2>1. PICK h \in Handle : Guards(h, d)
    BY DEF DetachInv, KernelInv, Sheltered
  <2>2. ASSUME NEW w \in Proc, pc[w] = "changing" PROVE FALSE
    <3>1. PICK k \in Handle : lock[k].proc = w /\ lock[k].st = "entered"
      BY <2>2 DEF DetachInv, KernelInv, ChangingLocked
    <3>2. w \in Writer
      BY <2>2 DEF DetachInv, FamilyInv, Roles
    <3>3. Sound(k) /\ lock[k] # NoLock
      BY <3>1 DEF DetachInv, KernelInv, ObjectSound, NoLock
    <3>4. ofd[k].mode = "EX" /\ ofd[k].path = Container
      BY <3>1, <3>2, <3>3 DEF Sound
    <3> QED
      BY <2>1, <3>4 DEF Guards, DetachInv, KernelInv, FlockExclusion
  <2> QED
    BY <2>1, <2>2 DEF Guards, Locked
<1> QED
  BY <1>1, DetachInvariant, PTL

\* The lock of a container is held for the entire session, in the foreground or
\* detached, whoever is killed, if nobody is interrupted.
THEOREM DetachSessionLocked == ~Interrupts => (DetachSpec => []SessionLocked)
<1> SUFFICES ASSUME ~Interrupts PROVE DetachSpec => []SessionLocked
  OBVIOUS
<1> DEFINE Undisturbed == \A p \in Proc : pc[p] \notin {"interrupted", "abandoned"}
<1>1. DetachInit => Undisturbed
  BY DEF DetachInit
<1>2. DetachInv /\ Undisturbed /\ [DetachNext]_vars => Undisturbed'
  <2> SUFFICES ASSUME DetachInv, Undisturbed, [DetachNext]_vars PROVE Undisturbed'
    OBVIOUS
  <2>1. CASE UNCHANGED vars
    BY <2>1 DEF vars
  <2>2. ASSUME NEW p \in Proc, Kind(p) PROVE Undisturbed'
    <3>1. CASE Turn(p)
      BY <3>1 DEF Turn, DetachInv, FamilyInv, FamilyTypeOK
    <3>2. CASE End(p)
      BY <3>2 DEF End, DetachInv, FamilyInv, FamilyTypeOK
    <3>3. CASE \E c \in Proc : SpawnFork(p, c) \/ MiddleFork(p, c)
      BY <3>3 DEF SpawnFork, MiddleFork, DetachInv, FamilyInv, FamilyTypeOK
    <3>4. CASE \/ StartLogin(p) \/ StartWriter(p) \/ ExecForeground(p) \/ ExecDaemon(p)
               \/ CloseWrite(p) \/ ReadReport(p) \/ WritePid(p) \/ ExecRefused(p)
      BY <3>4 DEF StartLogin, StartWriter, ExecForeground, ExecDaemon, CloseWrite, ReadReport,
           WritePid, ExecRefused, Moves, Goes, DetachInv, FamilyInv, FamilyTypeOK
    <3> QED
      BY <2>2, <3>1, <3>2, <3>3, <3>4 DEF Kind, Interrupted
  <2> QED
    BY <2>1, <2>2, StepKinds DEF DetachInv
<1>3. LockLostOnlyByInterrupt /\ DetachInv /\ Undisturbed => SessionLocked
  BY DEF LockLostOnlyByInterrupt, SessionLocked, LoginInterrupted, DetachInv, FamilyInv, FamilyTypeOK
<1> QED
  BY <1>1, <1>2, <1>3, DetachInvariant, DetachLockLostOnlyByInterrupt, PTL DEF DetachSpec
=============================================================================
