--------------------- MODULE ContainerLifecycleProofs ---------------------
(***************************************************************************)
(* Theorems about ContainerLifecycle, for any number of commands, names    *)
(* and images and with every fault.  The inductive invariant says which    *)
(* lock a command holds at each of its steps, that the locks exclude each  *)
(* other, and what a command may rely on while it holds one: nobody else   *)
(* takes away the rootfs it works on.                                      *)
(***************************************************************************)
EXTENDS ContainerLifecycle, TLAPS

InstallSteps == {"check", "extract", "record", "fixups"}
RestoreSteps == {"restore", "restoring", "recording"}
RemoveSteps == {"remove", "removing"}
OwnerSteps == InstallSteps \cup RestoreSteps \cup RemoveSteps \cup {"wipe"}
Steps == OwnerSteps \cup {"idle", "lock", "lock2", "move", "relink", "enter", "inside"}

\* The job of a command at each of its steps.
Fits(p) ==
  pc[p] # "idle" =>
    /\ job[p].cmd = "rename" <=> job[p].to # job[p].name
    /\ job[p].cmd \in {"install", "reset", "restore"} => job[p].source \in Source
    /\ pc[p] \in InstallSteps => job[p].cmd \in {"install", "reset"}
    /\ pc[p] = "wipe" => job[p].cmd = "reset"
    /\ pc[p] \in RestoreSteps => job[p].cmd = "restore"
    /\ pc[p] \in RemoveSteps => job[p].cmd = "remove"
    /\ pc[p] \in {"lock2", "move"} => job[p].cmd = "rename"
    /\ pc[p] = "relink" => job[p].cmd \in Readers \cup {"rename"}
    /\ pc[p] \in {"enter", "inside"} => job[p].cmd \in Readers

\* The locks it holds there.
Lower(p) == IF job[p].name < job[p].to THEN job[p].name ELSE job[p].to

Holds(p) ==
  /\ pc[p] \in OwnerSteps => p \in exclusive[job[p].name]
  /\ pc[p] = "lock2" => p \in exclusive[Lower(p)]
  /\ (pc[p] = "move" \/ (pc[p] = "relink" /\ job[p].cmd = "rename"))
     => p \in exclusive[job[p].name] /\ p \in exclusive[job[p].to]
  /\ (pc[p] \in {"enter", "inside"} \/ (pc[p] = "relink" /\ job[p].cmd \in Readers))
     => p \in shared[job[p].name]

\* The rootfs it may count on there.
Finds(p) ==
  /\ pc[p] \in {"extract", "record", "fixups", "restoring", "recording", "inside"}
     => rootfs[job[p].name] # None
  /\ pc[p] = "extract" => ~rootfs[job[p].name].whole
  /\ pc[p] = "relink" => rootfs[job[p].to] # None

LocksExclude ==
  \A n \in Name :
    /\ exclusive[n] # {} => shared[n] = {}
    /\ \A p, q \in exclusive[n] : p = q

IInv ==
  /\ TypeOK /\ LocksExclude
  /\ \A p \in Proc : Fits(p) /\ Holds(p) /\ Finds(p)

\* The part of TypeOK that speaks of the disk.
DiskTyped ==
  /\ made \subseteq Name /\ legacy \subseteq Name
  /\ rootfs \in [Name -> Rootfs \cup {None}]
  /\ manifest \in [Name -> Image \cup {None}]
  /\ \A n \in Name : n \notin made => rootfs[n] = None /\ manifest[n] = None

\* What a step of p leaves of a rootfs: its content, whole or not.
Kept(n) ==
  rootfs[n] # None =>
    /\ rootfs'[n] # None
    /\ rootfs'[n].content = rootfs[n].content
    /\ rootfs'[n].whole = rootfs[n].whole

OnlyOwn(p) == \A n \in Name : p \notin exclusive[n] => Kept(n)

\* The others stand where they stood, with the locks they had.
Others(p) == \A q \in Proc \ {p} : pc'[q] = pc[q] /\ job'[q] = job[q]

OthersLocks(p) ==
  \A q \in Proc \ {p}, n \in Name :
    /\ q \in shared'[n] <=> q \in shared[n]
    /\ q \in exclusive'[n] <=> q \in exclusive[n]

-----------------------------------------------------------------------------
(* Facts about the values.                                                 *)

LEMMA TreeTyped ==
  ASSUME NEW s \in Source \cup {Legacy}, NEW w \in BOOLEAN,
         NEW n \in Name \cup {Legacy}
  PROVE  /\ Tree(s, w, n) \in Rootfs
         /\ Tree(s, w, n) # None
         /\ Tree(s, w, n).content = s
         /\ Tree(s, w, n).whole = w
         /\ Tree(s, w, n).home = n
  BY NoneAssumption DEF Tree, Rootfs

LEMMA RootfsEdited ==
  ASSUME NEW t \in Rootfs, NEW w \in BOOLEAN, NEW n \in Name \cup {Legacy}
  PROVE  /\ [t EXCEPT !.whole = w] \in Rootfs
         /\ [t EXCEPT !.whole = w].whole = w
         /\ [t EXCEPT !.whole = w].content = t.content
         /\ [t EXCEPT !.home = n] \in Rootfs
         /\ [t EXCEPT !.home = n].whole = t.whole
         /\ [t EXCEPT !.home = n].content = t.content
         /\ t # None
  BY NoneAssumption DEF Rootfs

\* What a command at work can count on, out of the invariant.
LEMMA AtWork ==
  ASSUME IInv, NEW p \in Proc, pc[p] # "idle"
  PROVE  /\ job[p] \in Job
         /\ job[p].name \in Name /\ job[p].to \in Name
         /\ job[p].source \in Source \cup {None}
         /\ Fits(p) /\ Holds(p) /\ Finds(p)
  BY DEF IInv, TypeOK, Job

LEMMA TypeParts ==
  ASSUME TypeOK
  PROVE  DiskTyped
  BY DEF TypeOK, DiskTyped

-----------------------------------------------------------------------------
(* What a step can do to a rootfs that is not its own: nothing.            *)

LEMMA UnchangedKept ==
  ASSUME NEW p \in Proc, UNCHANGED rootfs
  PROVE  OnlyOwn(p)
  BY DEF OnlyOwn, Kept

\* A step that writes one name that p owns, or where nothing was.
LEMMA WriteKept ==
  ASSUME IInv, NEW p \in Proc, NEW m \in Name, NEW t,
         rootfs' = [rootfs EXCEPT ![m] = t],
         p \in exclusive[m] \/ rootfs[m] = None
  PROVE  OnlyOwn(p)
<1>1. \A n \in Name \ {m} : rootfs'[n] = rootfs[n]
  BY DEF IInv, TypeOK
<1> QED
  BY <1>1 DEF OnlyOwn, Kept

\* A step that rewrites the links of a rootfs.
LEMMA RehomeKept ==
  ASSUME IInv, NEW p \in Proc, NEW n \in Name, NEW from \in Name \cup {Legacy},
         rootfs[n] # None, Rehome(n, from)
  PROVE  /\ OnlyOwn(p) /\ \A m \in Name : Kept(m)
         /\ DiskTyped'
<1>1. rootfs[n] \in Rootfs
  BY DEF IInv, TypeOK
<1> DEFINE h == IF rootfs[n].home = from THEN n ELSE rootfs[n].home
<1>2. h \in Name \cup {Legacy}
  BY <1>1 DEF Rootfs
<1>3. rootfs' = [rootfs EXCEPT ![n] = [rootfs[n] EXCEPT !.home = h]]
  BY DEF Rehome
<1> HIDE DEF h
<1> DEFINE t == [rootfs[n] EXCEPT !.home = h]
<1>4. t \in Rootfs /\ t # None /\ t.content = rootfs[n].content /\ t.whole = rootfs[n].whole
  <2>1. t \in Rootfs /\ t.content = rootfs[n].content /\ t.whole = rootfs[n].whole
    BY <1>1, <1>2, RootfsEdited
  <2> QED
    BY <2>1, NoneAssumption
<1> HIDE DEF t
<1>4a. /\ rootfs'[n] = t
       /\ \A m \in Name \ {n} : rootfs'[m] = rootfs[m]
       /\ rootfs' \in [Name -> Rootfs \cup {None}]
  BY <1>3, <1>4 DEF IInv, TypeOK, t
<1>5. \A m \in Name : Kept(m)
  BY <1>4, <1>4a DEF Kept
<1>6. n \in made
  BY DEF IInv, TypeOK
<1>7. DiskTyped'
  BY <1>4, <1>4a, <1>6 DEF IInv, TypeOK, DiskTyped, Rehome
<1> QED
  BY <1>5, <1>7 DEF OnlyOwn

-----------------------------------------------------------------------------
(* How a step moves its command: it quits, or goes on with what it holds.  *)

\* The others lose nothing by a step of p.
LEMMA OthersStand ==
  ASSUME IInv, NEW p \in Proc, Others(p), OthersLocks(p), OnlyOwn(p)
  PROVE  \A q \in Proc \ {p} : Fits(q)' /\ Holds(q)' /\ Finds(q)'
<1> SUFFICES ASSUME NEW q \in Proc \ {p}, pc[q] # "idle"
             PROVE  Fits(q)' /\ Holds(q)' /\ Finds(q)'
  BY DEF Others, Fits, Holds, Finds, OwnerSteps, InstallSteps, RestoreSteps, RemoveSteps
<1>1. pc'[q] = pc[q] /\ job'[q] = job[q]
  BY DEF Others
<1>2. /\ job[q].name \in Name /\ job[q].to \in Name
      /\ Fits(q) /\ Holds(q) /\ Finds(q)
  BY AtWork
<1>3. Fits(q)'
  BY <1>1, <1>2 DEF Fits
<1>4. Lower(q)' = Lower(q) /\ Lower(q) \in Name
  BY <1>1, <1>2 DEF Lower
<1>5. Holds(q)'
  BY <1>1, <1>2, <1>4 DEF Holds, OthersLocks
<1>6. \A n \in Name : q \in exclusive[n] \/ q \in shared[n] => Kept(n)
  BY DEF OnlyOwn, IInv, LocksExclude
<1>7. Finds(q)'
  <2>1. pc[q] = "relink" => Kept(job[q].to)
    BY <1>2, <1>6 DEF Holds, Fits, Readers
  <2>2. pc[q] \in {"extract", "record", "fixups", "restoring", "recording", "inside"}
        => Kept(job[q].name)
    BY <1>2, <1>6 DEF Holds, OwnerSteps, InstallSteps, RestoreSteps
  <2> QED
    BY <1>1, <1>2, <2>1, <2>2 DEF Finds, Kept
<1> QED
  BY <1>3, <1>5, <1>7

LEMMA QuitStep ==
  ASSUME IInv, NEW p \in Proc, Quit(p), DiskTyped', OnlyOwn(p), hurt' \subseteq Name
  PROVE  IInv'
<1>1. /\ pc' = [pc EXCEPT ![p] = "idle"] /\ job' = [job EXCEPT ![p] = None]
      /\ shared' = [n \in Name |-> shared[n] \ {p}]
      /\ exclusive' = [n \in Name |-> exclusive[n] \ {p}]
  BY DEF Quit, Lock!Withdraw
<1>2. TypeOK'
  BY <1>1 DEF IInv, TypeOK, DiskTyped
<1>3. LocksExclude'
  BY <1>1 DEF IInv, LocksExclude
<1>4. Others(p) /\ OthersLocks(p) /\ pc'[p] = "idle"
  BY <1>1 DEF IInv, TypeOK, Others, OthersLocks
<1>5. Fits(p)' /\ Holds(p)' /\ Finds(p)'
  BY <1>4 DEF Fits, Holds, Finds, OwnerSteps, InstallSteps, RestoreSteps, RemoveSteps
<1> QED
  BY <1>2, <1>3, <1>4, <1>5, OthersStand DEF IInv

LEMMA QuitClean ==
  ASSUME IInv, NEW p \in Proc, Quit(p), UNCHANGED disk, hurt' \subseteq Name
  PROVE  IInv'
<1>1. DiskTyped' /\ OnlyOwn(p)
  BY TypeParts, UnchangedKept DEF IInv, DiskTyped, disk
<1> QED
  BY <1>1, QuitStep

LEMMA GotoStep ==
  ASSUME IInv, NEW p \in Proc, NEW l \in Steps \ {"idle"}, pc[p] # "idle", Goto(p, l),
         DiskTyped', OnlyOwn(p), hurt' \subseteq Name,
         Fits(p)', Holds(p)', Finds(p)'
  PROVE  IInv'
<1>1. /\ pc' = [pc EXCEPT ![p] = l] /\ job' = job
      /\ shared' = shared /\ exclusive' = exclusive
  BY DEF Goto, locks
<1>2. TypeOK'
  BY <1>1 DEF IInv, TypeOK, DiskTyped, Steps, OwnerSteps, InstallSteps, RestoreSteps,
              RemoveSteps
<1>3. LocksExclude'
  BY <1>1 DEF IInv, LocksExclude
<1>4. Others(p) /\ OthersLocks(p)
  BY <1>1 DEF IInv, TypeOK, Others, OthersLocks
<1> QED
  BY <1>2, <1>3, <1>4, OthersStand DEF IInv

\* Where p goes by Goto it still has its job and its locks.
LEMMA GotoKeeps ==
  ASSUME IInv, NEW p \in Proc, NEW l \in Steps \ {"idle"}, pc[p] # "idle", Goto(p, l)
  PROVE  /\ pc'[p] = l /\ job'[p] = job[p]
         /\ shared' = shared /\ exclusive' = exclusive
  BY DEF Goto, locks, IInv, TypeOK

-----------------------------------------------------------------------------
(* What the steps do to the disk.                                          *)

LEMMA DiscardDisk ==
  ASSUME IInv, NEW p \in Proc, NEW n \in Name, p \in exclusive[n], Discard(n)
  PROVE  DiskTyped' /\ OnlyOwn(p)
<1>1. OnlyOwn(p)
  BY WriteKept DEF Discard
<1>2. DiskTyped'
  BY DEF Discard, DiskTyped, IInv, TypeOK
<1> QED
  BY <1>1, <1>2

LEMMA TornTyped ==
  ASSUME IInv, NEW n \in Name
  PROVE  /\ Torn(n) \in Rootfs \cup {None}
         /\ rootfs[n] = None => Torn(n) = None
<1>1. CASE rootfs[n] = None
  BY <1>1 DEF Torn
<1>2. CASE rootfs[n] # None
  <2>1. rootfs[n] \in Rootfs
    BY <1>2 DEF IInv, TypeOK
  <2>2. Torn(n) = [rootfs[n] EXCEPT !.whole = FALSE]
    BY <1>2 DEF Torn
  <2>3. [rootfs[n] EXCEPT !.whole = FALSE] \in Rootfs
    BY <2>1, RootfsEdited
  <2> QED
    BY <1>2, <2>2, <2>3
<1> QED
  BY <1>1, <1>2

LEMMA DiscardSomeDisk ==
  ASSUME IInv, NEW p \in Proc, NEW n \in Name, p \in exclusive[n], DiscardSome(n)
  PROVE  DiskTyped' /\ OnlyOwn(p)
<1>1. PICK t \in {Torn(n), None} : rootfs' = [rootfs EXCEPT ![n] = t]
  BY DEF DiscardSome
<1>2. PICK m \in {manifest[n], None} : manifest' = [manifest EXCEPT ![n] = m]
  BY DEF DiscardSome
<1>3. OnlyOwn(p)
  BY <1>1, WriteKept
<1>4. t \in Rootfs \cup {None} /\ (rootfs[n] = None => t = None)
  BY TornTyped
<1>5. DiskTyped'
  BY <1>1, <1>2, <1>4 DEF DiscardSome, DiskTyped, IInv, TypeOK
<1> QED
  BY <1>3, <1>5

\* A new rootfs, in place of nothing or of one that p owns.
LEMMA FillDisk ==
  ASSUME IInv, NEW p \in Proc, NEW n \in Name, p \in exclusive[n] \/ rootfs[n] = None,
         NEW s \in Source \cup {Legacy}, NEW w \in BOOLEAN,
         NEW h \in Name \cup {Legacy},
         made' = made \cup {n}, rootfs' = [rootfs EXCEPT ![n] = Tree(s, w, h)],
         manifest' = manifest, legacy' \subseteq legacy
  PROVE  /\ DiskTyped' /\ OnlyOwn(p)
         /\ rootfs'[n] # None /\ rootfs'[n].whole = w
<1>1. OnlyOwn(p)
  BY WriteKept
<1>2. Tree(s, w, h) \in Rootfs /\ Tree(s, w, h) # None /\ Tree(s, w, h).whole = w
  BY TreeTyped
<1>3. /\ rootfs' \in [Name -> Rootfs \cup {None}]
      /\ rootfs'[n] = Tree(s, w, h)
      /\ \A m \in Name \ {n} : rootfs'[m] = rootfs[m]
  BY <1>2 DEF IInv, TypeOK
<1>4. DiskTyped'
  BY <1>3 DEF DiskTyped, IInv, TypeOK
<1> QED
  BY <1>1, <1>2, <1>3, <1>4

\* The rest of a rootfs that p owns.
LEMMA WholeDisk ==
  ASSUME IInv, NEW p \in Proc, NEW n \in Name, p \in exclusive[n], rootfs[n] # None,
         rootfs' = [rootfs EXCEPT ![n].whole = TRUE],
         UNCHANGED <<made, manifest, legacy>>
  PROVE  DiskTyped' /\ OnlyOwn(p) /\ rootfs'[n] # None
<1> DEFINE t == [rootfs[n] EXCEPT !.whole = TRUE]
<1>1. rootfs[n] \in Rootfs
  BY DEF IInv, TypeOK
<1>2. t \in Rootfs
  BY <1>1, RootfsEdited
<1>3. t # None
  BY <1>2, NoneAssumption
<1>4. rootfs' = [rootfs EXCEPT ![n] = t]
  OBVIOUS
<1> HIDE DEF t
<1>5. OnlyOwn(p)
  BY <1>4, WriteKept
<1>6. /\ rootfs' \in [Name -> Rootfs \cup {None}]
      /\ rootfs'[n] = t /\ \A m \in Name \ {n} : rootfs'[m] = rootfs[m]
  BY <1>2, <1>4 DEF IInv, TypeOK
<1>7. DiskTyped'
  BY <1>6 DEF DiskTyped, IInv, TypeOK
<1> QED
  BY <1>3, <1>5, <1>6, <1>7

LEMMA RecordsDisk ==
  ASSUME IInv, NEW p \in Proc, pc[p] \in {"record", "recording"}, Records(p)
  PROVE  DiskTyped' /\ OnlyOwn(p) /\ rootfs' = rootfs
<1>1. job[p].name \in Name /\ rootfs[job[p].name] # None
  BY AtWork DEF Finds
<1>2. OnlyOwn(p)
  BY UnchangedKept DEF Records
<1>3. DiskTyped'
  BY <1>1 DEF Records, DiskTyped, IInv, TypeOK
<1> QED
  BY <1>2, <1>3 DEF Records

-----------------------------------------------------------------------------
(* The steps, one by one.                                                  *)

\* The steps of a command to which nothing happens.
LEMMA StepKeeps ==
  ASSUME IInv, NEW p \in Proc, Step(p), hurt' \subseteq Name
  PROVE  IInv' /\ OnlyOwn(p)
<1> USE DEF InstallSteps, RestoreSteps, RemoveSteps, OwnerSteps, Steps, Readers
<1>1. CASE TakeExclusive(p)
  <2> DEFINE w == Wanted(p)
  <2>1. /\ pc[p] = "lock" /\ w \in Name /\ job' = job
        /\ exclusive[w] = {} /\ shared[w] = {}
        /\ exclusive' = [exclusive EXCEPT ![w] = {p}] /\ shared' = shared
        /\ pc' = [pc EXCEPT ![p] = FirstStep[job[p].cmd]]
        /\ job[p].cmd \in {"install", "reset", "restore", "remove", "rename"}
        /\ UNCHANGED disk
    BY <1>1, AtWork DEF TakeExclusive, Wanted, Lock!GrantExclusive, Job
  <2>2. /\ job[p].cmd # "rename" => w = job[p].name
        /\ job[p].cmd = "rename" => w = Lower(p)
    BY <2>1, AtWork DEF Wanted, Lower, Fits
  <2> HIDE DEF w
  <2>3. /\ pc'[p] = FirstStep[job[p].cmd] /\ job'[p] = job[p] /\ p \in exclusive'[w]
    BY <2>1 DEF IInv, TypeOK
  <2>4. /\ job[p].cmd = "install" => pc'[p] = "check"
        /\ job[p].cmd = "reset" => pc'[p] = "wipe"
        /\ job[p].cmd = "restore" => pc'[p] = "restore"
        /\ job[p].cmd = "remove" => pc'[p] = "remove"
        /\ job[p].cmd = "rename" => pc'[p] = "lock2"
    BY <2>3 DEF FirstStep
  <2>5. Others(p) /\ OthersLocks(p) /\ OnlyOwn(p)
    BY <2>1, UnchangedKept DEF Others, OthersLocks, IInv, TypeOK, disk
  <2>6. TypeOK' /\ LocksExclude'
    BY <2>1, <2>3, <2>4 DEF IInv, TypeOK, LocksExclude, disk
  <2>7. Fits(p)' /\ Finds(p)'
    BY <2>1, <2>3, <2>4, AtWork DEF Fits, Finds
  <2>8. Holds(p)'
    BY <2>1, <2>2, <2>3, <2>4 DEF Holds, Lower
  <2> QED
    BY <2>5, <2>6, <2>7, <2>8, OthersStand DEF IInv
<1>2. CASE TakeSecond(p)
  <2> DEFINE w == Wanted(p)
  <2>1. /\ pc[p] = "lock2" /\ job[p].cmd = "rename" /\ w \in Name /\ job' = job
        /\ exclusive[w] = {} /\ shared[w] = {}
        /\ exclusive' = [exclusive EXCEPT ![w] = {p}] /\ shared' = shared
        /\ pc' = [pc EXCEPT ![p] = "move"]
        /\ UNCHANGED disk
    BY <1>2, AtWork DEF TakeSecond, Wanted, Lock!GrantExclusive, Fits
  <2>2. {w, Lower(p)} = {job[p].name, job[p].to} /\ Lower(p) \in Name /\ Lower(p) # w
    BY <2>1, AtWork, LifecycleAssumption DEF Wanted, Lower, Fits
  <2> HIDE DEF w
  <2>3. /\ pc'[p] = "move" /\ job'[p] = job[p]
        /\ p \in exclusive'[w] /\ p \in exclusive'[Lower(p)]
    BY <2>1, <2>2, AtWork DEF IInv, TypeOK, Holds
  <2>4. Others(p) /\ OthersLocks(p) /\ OnlyOwn(p)
    BY <2>1, UnchangedKept DEF Others, OthersLocks, IInv, TypeOK, disk
  <2>5. TypeOK' /\ LocksExclude'
    BY <2>1, <2>3 DEF IInv, TypeOK, LocksExclude, disk
  <2>6. Fits(p)' /\ Finds(p)'
    BY <2>1, <2>3, AtWork DEF Fits, Finds
  <2>7. p \in exclusive'[job[p].name] /\ p \in exclusive'[job[p].to]
    BY <2>2, <2>3
  <2>8. Holds(p)'
    BY <2>1, <2>3, <2>7 DEF Holds
  <2> QED
    BY <2>4, <2>5, <2>6, <2>8, OthersStand DEF IInv
<1>3. CASE TakeShared(p)
  <2> DEFINE w == Wanted(p)
  <2>1. /\ pc[p] = "lock" /\ job[p].cmd \in Readers /\ w \in Name /\ job' = job
        /\ exclusive[w] = {}
        /\ shared' = [shared EXCEPT ![w] = @ \cup {p}] /\ exclusive' = exclusive
        /\ pc' = [pc EXCEPT ![p] = "enter"]
        /\ UNCHANGED disk
    BY <1>3, AtWork DEF TakeShared, Wanted, Lock!GrantShared
  <2>2. w = job[p].name
    BY <2>1, AtWork DEF Wanted, Fits
  <2> HIDE DEF w
  <2>3. pc'[p] = "enter" /\ job'[p] = job[p] /\ p \in shared'[w]
    BY <2>1 DEF IInv, TypeOK
  <2>4. Others(p) /\ OthersLocks(p) /\ OnlyOwn(p)
    BY <2>1, UnchangedKept DEF Others, OthersLocks, IInv, TypeOK, disk
  <2>5. TypeOK' /\ LocksExclude'
    BY <2>1, <2>3 DEF IInv, TypeOK, LocksExclude, disk
  <2>6. Fits(p)' /\ Holds(p)' /\ Finds(p)'
    BY <2>1, <2>2, <2>3, AtWork DEF Fits, Holds, Finds
  <2> QED
    BY <2>4, <2>5, <2>6, OthersStand DEF IInv
<1>4. CASE Busy(p)
  <2>1. Quit(p) /\ UNCHANGED disk
    BY <1>4 DEF Busy
  <2> QED
    BY <2>1, QuitClean, UnchangedKept DEF disk
<1>5. CASE Refuse(p)
  <2>1. Quit(p) /\ UNCHANGED disk
    BY <1>5 DEF Refuse
  <2> QED
    BY <2>1, QuitClean, UnchangedKept DEF disk
<1>6. CASE InstallDone(p)
  <2>1. Quit(p) /\ UNCHANGED disk
    BY <1>6 DEF InstallDone
  <2> QED
    BY <2>1, QuitClean, UnchangedKept DEF disk
<1>7. CASE MoveRefused(p)
  <2>1. Quit(p) /\ UNCHANGED disk
    BY <1>7 DEF MoveRefused
  <2> QED
    BY <2>1, QuitClean, UnchangedKept DEF disk
<1>8. CASE RestoreReject(p)
  <2>1. Quit(p) /\ UNCHANGED disk
    BY <1>8 DEF RestoreReject
  <2> QED
    BY <2>1, QuitClean, UnchangedKept DEF disk
<1>9. CASE EnterRefused(p)
  <2>1. Quit(p) /\ UNCHANGED disk
    BY <1>9 DEF EnterRefused
  <2> QED
    BY <2>1, QuitClean, UnchangedKept DEF disk
<1>10. CASE Leave(p)
  <2>1. Quit(p) /\ UNCHANGED disk
    BY <1>10 DEF Leave
  <2> QED
    BY <2>1, QuitClean, UnchangedKept DEF disk
<1>11. CASE OpenPair(p)
  <2> DEFINE n == job[p].name
  <2>1. pc[p] # "idle" /\ Goto(p, "extract")
    BY <1>11 DEF OpenPair
  <2>2. /\ n \in Name /\ job[p].source \in Source \cup {Legacy}
        /\ p \in exclusive[n] \/ rootfs[n] = None
        /\ made' = made \cup {n} /\ manifest' = manifest /\ legacy' \subseteq legacy
        /\ rootfs' = [rootfs EXCEPT ![n] = Tree(job[p].source, FALSE, n)]
    BY <1>11, <2>1, AtWork DEF OpenPair, Fits, Holds
  <2> HIDE DEF n
  <2>3. DiskTyped' /\ OnlyOwn(p) /\ rootfs'[n] # None /\ rootfs'[n].whole = FALSE
    BY <2>2, FillDisk
  <2>4. /\ pc'[p] = "extract" /\ job'[p] = job[p] /\ n = job[p].name
        /\ shared' = shared /\ exclusive' = exclusive
    BY <2>1, GotoKeeps DEF n
  <2>5. Fits(p)' /\ Holds(p)'
    BY <1>11, <2>1, <2>4, AtWork DEF OpenPair, Fits, Holds
  <2>6. Finds(p)'
    BY <1>11, <2>1, <2>3, <2>4, AtWork DEF OpenPair, Fits, Finds
  <2> QED
    BY <2>1, <2>3, <2>5, <2>6, GotoStep
<1>12. CASE Extract(p)
  <2>1. pc[p] # "idle" /\ Goto(p, "record")
    BY <1>12 DEF Extract
  <2>2. DiskTyped' /\ OnlyOwn(p) /\ rootfs'[job[p].name] # None
    BY <1>12, <2>1, AtWork, WholeDisk DEF Extract, Holds, Finds
  <2>3. Fits(p)' /\ Holds(p)' /\ Finds(p)'
    BY <1>12, <2>1, <2>2, AtWork, GotoKeeps DEF Extract, Fits, Holds, Finds
  <2> QED
    BY <2>1, <2>2, <2>3, GotoStep
<1>13. CASE WriteManifest(p)
  <2>1. pc[p] # "idle" /\ Goto(p, "fixups")
    BY <1>13 DEF WriteManifest
  <2>2. DiskTyped' /\ OnlyOwn(p) /\ rootfs' = rootfs
    BY <1>13, <2>1, AtWork, RecordsDisk DEF WriteManifest
  <2>3. Fits(p)' /\ Holds(p)' /\ Finds(p)'
    BY <1>13, <2>1, <2>2, AtWork, GotoKeeps DEF WriteManifest, Fits, Holds, Finds
  <2> QED
    BY <2>1, <2>2, <2>3, GotoStep
<1>14. CASE InstallFails(p)
  <2>1. DiskTyped' /\ OnlyOwn(p)
    BY <1>14, AtWork, DiscardDisk DEF InstallFails, Holds
  <2> QED
    BY <1>14, <2>1, QuitStep DEF InstallFails
<1>15. CASE Wipe(p)
  <2>1. pc[p] # "idle" /\ Goto(p, "check")
    BY <1>15 DEF Wipe
  <2>2. DiskTyped' /\ OnlyOwn(p)
    BY <1>15, <2>1, AtWork, WriteKept DEF Wipe, Holds, IInv, TypeOK, DiskTyped
  <2>3. Fits(p)' /\ Holds(p)' /\ Finds(p)'
    BY <1>15, <2>1, <2>2, AtWork, GotoKeeps DEF Wipe, Fits, Holds, Finds
  <2> QED
    BY <2>1, <2>2, <2>3, GotoStep
<1>16. CASE RemoveSome(p)
  <2>1. pc[p] # "idle" /\ Goto(p, "removing")
    BY <1>16 DEF RemoveSome
  <2>2. DiskTyped' /\ OnlyOwn(p)
    BY <1>16, <2>1, AtWork, DiscardSomeDisk DEF RemoveSome, Holds
  <2>3. Fits(p)' /\ Holds(p)' /\ Finds(p)'
    BY <1>16, <2>1, <2>2, AtWork, GotoKeeps DEF RemoveSome, Fits, Holds, Finds
  <2> QED
    BY <2>1, <2>2, <2>3, GotoStep
<1>17. CASE RemoveRest(p)
  <2>1. DiskTyped' /\ OnlyOwn(p)
    BY <1>17, AtWork, DiscardDisk DEF RemoveRest, Holds
  <2> QED
    BY <1>17, <2>1, QuitStep DEF RemoveRest
<1>18. CASE Move(p)
  <2> DEFINE a == job[p].name  b == job[p].to
  <2>1. /\ pc[p] = "move" /\ a \in Name /\ b \in Name /\ a # b
        /\ a \in made /\ rootfs[b] = None /\ manifest[b] = None
        /\ made' = (made \ {a}) \cup {b} /\ legacy' = legacy
        /\ rootfs' = [rootfs EXCEPT ![b] = rootfs[a], ![a] = None]
        /\ manifest' = [manifest EXCEPT ![b] = manifest[a], ![a] = None]
        /\ p \in exclusive[a] /\ p \in exclusive[b] /\ job[p].cmd = "rename"
    BY <1>18, AtWork DEF Move, Moves, Bare, Holds, Fits
  <2> HIDE DEF a, b
  <2>2. /\ rootfs'[b] = rootfs[a] /\ rootfs'[a] = None
        /\ \A m \in Name \ {a, b} : rootfs'[m] = rootfs[m]
        /\ \A m \in Name \ {a, b} : manifest'[m] = manifest[m]
        /\ manifest'[a] = None
    BY <2>1 DEF IInv, TypeOK
  <2>3. OnlyOwn(p)
    BY <2>1, <2>2 DEF OnlyOwn, Kept
  <2>4. DiskTyped'
    BY <2>1, <2>2 DEF DiskTyped, IInv, TypeOK
  <2>5. CASE rootfs[a] = None
    BY <1>18, <2>3, <2>4, <2>5, QuitStep DEF Move, a
  <2>6. CASE rootfs[a] # None
    <3>1. pc[p] # "idle" /\ Goto(p, "relink")
      BY <1>18, <2>6 DEF Move, a
    <3>2. Fits(p)' /\ Holds(p)' /\ Finds(p)'
      BY <2>1, <2>2, <2>6, <3>1, AtWork, GotoKeeps DEF Fits, Holds, Finds, a, b
    <3> QED
      BY <2>3, <2>4, <3>1, <3>2, GotoStep
  <2> QED
    BY <2>5, <2>6
<1>19. CASE Relink(p)
  <2>1. DiskTyped' /\ OnlyOwn(p)
    BY <1>19, AtWork, RehomeKept DEF Relink, Finds
  <2> QED
    BY <1>19, <2>1, QuitStep DEF Relink
<1>20. CASE RestoreCommit(p)
  <2> DEFINE n == job[p].name
  <2>1. pc[p] # "idle" /\ Goto(p, "restoring")
    BY <1>20 DEF RestoreCommit
  <2>2. /\ n \in Name /\ job[p].source \in Source \cup {Legacy}
        /\ p \in exclusive[n] \/ rootfs[n] = None
        /\ made' = made \cup {n} /\ manifest' = manifest /\ legacy' \subseteq legacy
        /\ rootfs' = [rootfs EXCEPT ![n] = Tree(job[p].source, FALSE, n)]
    BY <1>20, <2>1, AtWork DEF RestoreCommit, Fits, Holds
  <2> HIDE DEF n
  <2>3. DiskTyped' /\ OnlyOwn(p) /\ rootfs'[n] # None /\ rootfs'[n].whole = FALSE
    BY <2>2, FillDisk
  <2>4. /\ pc'[p] = "restoring" /\ job'[p] = job[p] /\ n = job[p].name
        /\ shared' = shared /\ exclusive' = exclusive
    BY <2>1, GotoKeeps DEF n
  <2>5. Fits(p)' /\ Holds(p)'
    BY <1>20, <2>1, <2>4, AtWork DEF RestoreCommit, Fits, Holds
  <2>6. Finds(p)'
    BY <1>20, <2>1, <2>3, <2>4, AtWork DEF RestoreCommit, Fits, Finds
  <2> QED
    BY <2>1, <2>3, <2>5, <2>6, GotoStep
<1>21. CASE RestoreFill(p)
  <2>1. pc[p] # "idle" /\ Goto(p, "recording")
    BY <1>21 DEF RestoreFill
  <2>2. DiskTyped' /\ OnlyOwn(p) /\ rootfs'[job[p].name] # None
    BY <1>21, <2>1, AtWork, WholeDisk DEF RestoreFill, Holds, Finds
  <2>3. Fits(p)' /\ Holds(p)' /\ Finds(p)'
    BY <1>21, <2>1, <2>2, AtWork, GotoKeeps DEF RestoreFill, Fits, Holds, Finds
  <2> QED
    BY <2>1, <2>2, <2>3, GotoStep
<1>22. CASE RestoreRecord(p)
  <2>1. DiskTyped' /\ OnlyOwn(p)
    BY <1>22, AtWork, RecordsDisk DEF RestoreRecord
  <2> QED
    BY <1>22, <2>1, QuitStep DEF RestoreRecord
<1>23. CASE RestoreBroken(p)
  <2>1. DiskTyped' /\ OnlyOwn(p)
    BY <1>23, AtWork, DiscardDisk DEF RestoreBroken, Holds
  <2> QED
    BY <1>23, <2>1, QuitStep DEF RestoreBroken
<1>24. CASE Migrate(p)
  <2> DEFINE n == job[p].name
  <2>1. pc[p] # "idle" /\ Goto(p, "relink")
    BY <1>24 DEF Migrate
  <2>2. /\ n \in Name /\ Legacy \in Source \cup {Legacy}
        /\ p \in exclusive[n] \/ rootfs[n] = None
        /\ made' = made \cup {n} /\ manifest' = manifest /\ legacy' \subseteq legacy
        /\ rootfs' = [rootfs EXCEPT ![n] = Tree(Legacy, TRUE, Legacy)]
    BY <1>24, <2>1, AtWork DEF Migrate, MustMigrate
  <2> HIDE DEF n
  <2>3. DiskTyped' /\ OnlyOwn(p) /\ rootfs'[n] # None /\ rootfs'[n].whole = TRUE
    BY <2>2, FillDisk
  <2>4. /\ pc'[p] = "relink" /\ job'[p] = job[p] /\ n = job[p].name
        /\ shared' = shared /\ exclusive' = exclusive
    BY <2>1, GotoKeeps DEF n
  <2>5. Fits(p)' /\ Holds(p)'
    BY <1>24, <2>1, <2>4, AtWork DEF Migrate, Fits, Holds
  <2>6. Finds(p)'
    BY <1>24, <2>1, <2>3, <2>4, AtWork DEF Migrate, Fits, Finds, MustMigrate
  <2> QED
    BY <2>1, <2>3, <2>5, <2>6, GotoStep
<1>25. CASE MigrateRelink(p)
  <2>1. pc[p] # "idle" /\ Goto(p, "enter")
    BY <1>25 DEF MigrateRelink
  <2>2. DiskTyped' /\ OnlyOwn(p)
    BY <1>25, <2>1, AtWork, RehomeKept DEF MigrateRelink, Finds, Fits
  <2>3. Fits(p)' /\ Holds(p)' /\ Finds(p)'
    BY <1>25, <2>1, <2>2, AtWork, GotoKeeps DEF MigrateRelink, Fits, Holds, Finds
  <2> QED
    BY <2>1, <2>2, <2>3, GotoStep
<1>26. CASE Enter(p)
  <2>1. pc[p] # "idle" /\ Goto(p, "inside")
    BY <1>26 DEF Enter
  <2>2. DiskTyped' /\ OnlyOwn(p) /\ rootfs' = rootfs
    BY <1>26, <2>1, AtWork, TypeParts, UnchangedKept DEF Enter, IInv, DiskTyped, disk
  <2>3. Fits(p)' /\ Holds(p)' /\ Finds(p)'
    BY <1>26, <2>1, <2>2, AtWork, GotoKeeps DEF Enter, Fits, Holds, Finds
  <2> QED
    BY <2>1, <2>2, <2>3, GotoStep
<1> QED
  BY <1>1, <1>2, <1>3, <1>4, <1>5, <1>6, <1>7, <1>8, <1>9, <1>10, <1>11, <1>12, <1>13, <1>14, <1>15, <1>16, <1>17, <1>18, <1>19, <1>20, <1>21, <1>22, <1>23, <1>24, <1>25, <1>26 DEF Step

\* The faults.
LEMMA FaultKeeps ==
  ASSUME IInv, NEW p \in Proc, Fault(p), hurt' \subseteq Name
  PROVE  IInv' /\ OnlyOwn(p)
<1> USE DEF InstallSteps, RestoreSteps, RemoveSteps, OwnerSteps, Steps, Readers
<1>1. CASE RemoveFails(p)
  <2>1. Quit(p) /\ UNCHANGED disk
    BY <1>1 DEF RemoveFails
  <2> QED
    BY <2>1, QuitClean, UnchangedKept DEF disk
<1>2. CASE RestoreRecordFails(p)
  <2>1. Quit(p) /\ UNCHANGED disk
    BY <1>2 DEF RestoreRecordFails
  <2> QED
    BY <2>1, QuitClean, UnchangedKept DEF disk
<1>3. CASE RestoreAbort(p)
  <2>1. Quit(p) /\ UNCHANGED disk
    BY <1>3 DEF RestoreAbort
  <2> QED
    BY <2>1, QuitClean, UnchangedKept DEF disk
<1>4. CASE Killed(p)
  <2>1. Quit(p) /\ UNCHANGED disk
    BY <1>4 DEF Killed
  <2> QED
    BY <2>1, QuitClean, UnchangedKept DEF disk
<1>5. CASE ManifestFails(p)
  <2>1. pc[p] # "idle" /\ Goto(p, "fixups")
    BY <1>5 DEF ManifestFails
  <2>2. DiskTyped' /\ OnlyOwn(p) /\ rootfs' = rootfs
    BY <1>5, <2>1, AtWork, TypeParts, UnchangedKept DEF ManifestFails, IInv, DiskTyped, disk
  <2>3. Fits(p)' /\ Holds(p)' /\ Finds(p)'
    BY <1>5, <2>1, <2>2, AtWork, GotoKeeps DEF ManifestFails, Fits, Holds, Finds
  <2> QED
    BY <2>1, <2>2, <2>3, GotoStep
<1>6. CASE CleanupFails(p)
  <2>1. DiskTyped' /\ OnlyOwn(p)
    BY <1>6, AtWork, DiscardSomeDisk DEF CleanupFails, Holds
  <2> QED
    BY <1>6, <2>1, QuitStep DEF CleanupFails
<1>7. CASE WipeFails(p)
  <2>1. pc[p] # "idle" /\ Goto(p, "check")
    BY <1>7 DEF WipeFails
  <2>2. DiskTyped' /\ OnlyOwn(p)
    BY <1>7, <2>1, AtWork, WriteKept, TornTyped DEF WipeFails, Holds, IInv, TypeOK, DiskTyped
  <2>3. Fits(p)' /\ Holds(p)' /\ Finds(p)'
    BY <1>7, <2>1, <2>2, AtWork, GotoKeeps DEF WipeFails, Fits, Holds, Finds
  <2> QED
    BY <2>1, <2>2, <2>3, GotoStep
<1>8. CASE FillFails(p)
  <2>1. pc[p] # "idle" /\ Goto(p, "recording")
    BY <1>8 DEF FillFails
  <2>2. DiskTyped' /\ OnlyOwn(p) /\ rootfs' = rootfs
    BY <1>8, <2>1, AtWork, TypeParts, UnchangedKept DEF FillFails, IInv, DiskTyped, disk
  <2>3. Fits(p)' /\ Holds(p)' /\ Finds(p)'
    BY <1>8, <2>1, <2>2, AtWork, GotoKeeps DEF FillFails, Fits, Holds, Finds
  <2> QED
    BY <2>1, <2>2, <2>3, GotoStep
<1>9. CASE RelinkFails(p)
  <2>1. DiskTyped' /\ OnlyOwn(p) /\ rootfs' = rootfs
    BY <1>9, TypeParts, UnchangedKept DEF RelinkFails, IInv, DiskTyped, disk
  <2>2. CASE job[p].cmd = "rename"
    BY <1>9, <2>2, QuitClean, <2>1 DEF RelinkFails
  <2>3. CASE job[p].cmd # "rename"
    <3>1. pc[p] # "idle" /\ Goto(p, "enter")
      BY <1>9, <2>3 DEF RelinkFails
    <3>2. Fits(p)' /\ Holds(p)' /\ Finds(p)'
      BY <1>9, <2>1, <2>3, <3>1, AtWork, GotoKeeps DEF RelinkFails, Fits, Holds, Finds
    <3> QED
      BY <2>1, <3>1, <3>2, GotoStep
  <2> QED
    BY <2>2, <2>3
<1>10. CASE MigrateFails(p)
  <2>1. DiskTyped' /\ OnlyOwn(p)
    BY <1>10, AtWork, TypeParts, UnchangedKept
    DEF MigrateFails, MustMigrate, IInv, DiskTyped, Fits
  <2> QED
    BY <1>10, <2>1, QuitStep DEF MigrateFails
<1> QED
  BY <1>1, <1>2, <1>3, <1>4, <1>5, <1>6, <1>7, <1>8, <1>9, <1>10 DEF Fault

LEMMA BeginKeeps ==
  ASSUME IInv, NEW p \in Proc, NEW n \in Name, NEW m \in Name,
         NEW c \in {"install", "reset", "restore", "remove", "rename",
                    "login", "run", "backup"},
         NEW s \in Source \cup {None},
         c = "rename" <=> m # n, c \in {"install", "reset", "restore"} => s \in Source,
         Begin(p, c, n, m, s), UNCHANGED hurt
  PROVE  IInv' /\ rootfs' = rootfs
<1> DEFINE j == [cmd |-> c, name |-> n, to |-> m, source |-> s]
<1>1. j \in Job /\ j # None
  BY NoneAssumption DEF Job
<1>2. j.cmd = c /\ j.name = n /\ j.to = m /\ j.source = s
  OBVIOUS
<1>3. /\ pc' = [pc EXCEPT ![p] = "lock"] /\ job' = [job EXCEPT ![p] = j]
      /\ UNCHANGED <<disk, shared, exclusive>>
  BY DEF Begin, locks
<1> HIDE DEF j
<1>4. TypeOK' /\ LocksExclude'
  BY <1>1, <1>3 DEF IInv, TypeOK, LocksExclude, disk
<1>5. pc'[p] = "lock" /\ job'[p] = j
  BY <1>3 DEF IInv, TypeOK
<1>6. Others(p) /\ OthersLocks(p) /\ OnlyOwn(p)
  BY <1>3, UnchangedKept DEF Others, OthersLocks, IInv, TypeOK, disk
<1>7. Fits(p)' /\ Holds(p)' /\ Finds(p)'
  BY <1>2, <1>5 DEF Fits, Holds, Finds, InstallSteps, RestoreSteps, RemoveSteps, OwnerSteps
<1> QED
  BY <1>3, <1>4, <1>6, <1>7, OthersStand DEF IInv, disk

LEMMA StartKeeps ==
  ASSUME IInv, NEW p \in Proc, NEW n \in Name, Start(p, n), UNCHANGED hurt
  PROVE  IInv' /\ rootfs' = rootfs
<1>1. CASE StartInstall(p, n)
  BY <1>1, BeginKeeps DEF StartInstall
<1>2. CASE StartRestore(p, n)
  BY <1>2, BeginKeeps DEF StartRestore
<1>3. CASE StartRemove(p, n)
  BY <1>3, BeginKeeps DEF StartRemove
<1>4. CASE StartRename(p, n)
  BY <1>4, BeginKeeps DEF StartRename
<1>5. CASE StartReset(p, n) \/ StartRun(p, n)
  <2>1. manifest[n] \in Source
    BY <1>5 DEF StartReset, StartRun, IInv, TypeOK, Source
  <2> QED
    BY <1>5, <2>1, BeginKeeps DEF StartReset, StartRun
<1>6. CASE StartLogin(p, n)
  BY <1>6, BeginKeeps DEF StartLogin
<1>7. CASE StartBackup(p, n)
  BY <1>7, BeginKeeps DEF StartBackup
<1> QED
  BY <1>1, <1>2, <1>3, <1>4, <1>5, <1>6, <1>7 DEF Start

LEMMA InitIInv == Init => IInv
<1> SUFFICES ASSUME Init PROVE IInv
  OBVIOUS
<1>1. TypeOK
  BY LifecycleAssumption DEF Init, TypeOK, Lock!RWInit
<1>2. LocksExclude
  BY DEF Init, LocksExclude, Lock!RWInit
<1>3. \A p \in Proc : Fits(p) /\ Holds(p) /\ Finds(p)
  BY DEF Init, Fits, Holds, Finds, InstallSteps, RestoreSteps, RemoveSteps, OwnerSteps
<1> QED
  BY <1>1, <1>2, <1>3 DEF IInv

\* The shape of every step: a command at work, or one that starts.
LEMMA NextCases ==
  ASSUME IInv, Next
  PROVE  IInv' /\ \E p \in Proc : \/ (Step(p) \/ Fault(p)) /\ OnlyOwn(p)
                                  \/ rootfs' = rootfs
<1>1. PICK p \in Proc :
        \/ Step(p) /\ hurt' = Mended(p) \cap Present
        \/ Fault(p) /\ hurt' = (hurt \cup Owned(p)) \cap Present
        \/ (\E n \in Name : Start(p, n)) /\ UNCHANGED hurt
  BY DEF Next
<1>2. CASE Step(p) /\ hurt' = Mended(p) \cap Present
  BY <1>2, StepKeeps DEF Present
<1>3. CASE Fault(p) /\ hurt' = (hurt \cup Owned(p)) \cap Present
  BY <1>3, FaultKeeps DEF Present
<1>4. CASE (\E n \in Name : Start(p, n)) /\ UNCHANGED hurt
  BY <1>4, StartKeeps
<1> QED
  BY <1>1, <1>2, <1>3, <1>4

LEMMA StutterIInv ==
  ASSUME IInv, UNCHANGED lifecycleVars
  PROVE  IInv'
<1>1. TypeOK' /\ LocksExclude'
  BY DEF IInv, TypeOK, LocksExclude, lifecycleVars
<1>2. ASSUME NEW p \in Proc PROVE Fits(p)' /\ Holds(p)' /\ Finds(p)'
  <2>1. Fits(p) /\ Holds(p) /\ Finds(p)
    BY DEF IInv
  <2> QED
    BY <2>1 DEF lifecycleVars, Fits, Holds, Finds, Lower
<1> QED
  BY <1>1, <1>2 DEF IInv

-----------------------------------------------------------------------------
(* The theorems.                                                           *)

\* Every reachable state satisfies the invariant, whatever fails on the way.
THEOREM LifecycleInvariant == Spec => []IInv
<1>1. IInv /\ [Next]_lifecycleVars => IInv'
  BY NextCases, StutterIInv
<1> QED
  BY InitIInv, <1>1, PTL DEF Spec

\* The state keeps its shape: no command works on a rootfs that is not there.
THEOREM LifecycleTypeCorrect == Spec => []TypeOK
<1>1. IInv => TypeOK
  BY DEF IInv
<1> QED
  BY LifecycleInvariant, <1>1, PTL

\* Nothing pulls a rootfs from under the sessions and backups that use it.
THEOREM LifecycleSessionUndisturbed == Spec => SessionUndisturbed
<1> DEFINE Undisturbed(q) ==
      pc[q] = "inside" /\ pc'[q] = "inside" =>
        /\ rootfs[job[q].name] # None /\ rootfs'[job[q].name] # None
        /\ rootfs'[job[q].name].content = rootfs[job[q].name].content
        /\ rootfs'[job[q].name].whole = rootfs[job[q].name].whole
<1>1. IInv /\ [Next]_lifecycleVars => \A q \in Proc : Undisturbed(q)
  <2> SUFFICES ASSUME IInv, [Next]_lifecycleVars, NEW q \in Proc, pc[q] = "inside"
               PROVE  Undisturbed(q)
    OBVIOUS
  <2>1. /\ job[q].name \in Name /\ rootfs[job[q].name] # None
        /\ exclusive[job[q].name] = {}
    BY AtWork DEF Holds, Finds, IInv, LocksExclude
  <2>2. Kept(job[q].name)
    <3>1. CASE Next
      BY <2>1, <3>1, NextCases DEF OnlyOwn, Kept
    <3>2. CASE UNCHANGED lifecycleVars
      BY <3>2 DEF lifecycleVars, Kept
    <3> QED
      BY <3>1, <3>2
  <2> QED
    BY <2>1, <2>2 DEF Kept
<1>2. (\A q \in Proc : Undisturbed(q)) <=>
      \A p \in Proc : LET n == job[p].name IN
       pc[p] = "inside" /\ pc'[p] = "inside" =>
         /\ rootfs[n] # None /\ rootfs'[n] # None
         /\ rootfs'[n].content = rootfs[n].content
         /\ rootfs'[n].whole = rootfs[n].whole
  OBVIOUS
<1> QED
  BY LifecycleInvariant, <1>1, <1>2, PTL DEF Spec, SessionUndisturbed

\* The command that made a complete container go was asked to, or it is an
\* install taking back its own, or a rename that carried it to its new name.
Excused(p, n) ==
  \/ job[p].cmd \in {"remove", "reset", "restore"} /\ job[p].name = n
  \/ job[p].cmd = "install" /\ pc[p] \in {"record", "fixups"}
  \/ /\ job[p].cmd = "rename" /\ job[p].name = n
     /\ rootfs'[job[p].to] = rootfs[n]

LEMMA WrittenName ==
  ASSUME IInv, NEW n \in Name, NEW m \in Name, NEW t, ~Kept(n),
         rootfs' = [rootfs EXCEPT ![m] = t]
  PROVE  n = m
  BY DEF IInv, TypeOK, Kept

\* Whose step it is that does not keep a complete rootfs.
LEMMA LossExcused ==
  ASSUME IInv, NEW p \in Proc, Step(p) \/ Fault(p), NEW n \in Name,
         Whole(rootfs[n]), ~Kept(n)
  PROVE  Excused(p, n)
<1> USE DEF InstallSteps, RestoreSteps, RemoveSteps, OwnerSteps
<1>1. rootfs' # rootfs
  BY DEF Kept
<1>2. CASE OpenPair(p)
  <2>1. n = job[p].name /\ rootfs[n] = None
    BY <1>2, AtWork, WrittenName DEF OpenPair
  <2> QED
    BY <2>1 DEF Whole
<1>3. CASE Extract(p)
  <2>1. n = job[p].name
    BY <1>3, AtWork, WrittenName DEF Extract
  <2> QED
    BY <1>3, <2>1, AtWork DEF Extract, Finds, Whole
<1>4. CASE InstallFails(p) \/ CleanupFails(p)
  <2>1. n = job[p].name /\ pc[p] \in {"extract", "record", "fixups"}
    BY <1>4, AtWork, WrittenName DEF InstallFails, CleanupFails, Discard, DiscardSome
  <2>2. pc[p] # "extract"
    BY <2>1, AtWork DEF Finds, Whole
  <2> QED
    BY <2>1, <2>2, AtWork DEF Fits, Excused
<1>5. CASE Wipe(p) \/ WipeFails(p)
  BY <1>5, AtWork, WrittenName DEF Wipe, WipeFails, Fits, Excused
<1>6. CASE RemoveSome(p) \/ RemoveRest(p)
  <2>1. n = job[p].name
    BY <1>6, AtWork, WrittenName DEF RemoveSome, RemoveRest, Discard, DiscardSome
  <2> QED
    BY <1>6, <2>1, AtWork DEF RemoveSome, RemoveRest, Fits, Excused
<1>7. CASE Move(p)
  <2> DEFINE a == job[p].name  b == job[p].to
  <2>1. /\ a \in Name /\ b \in Name /\ a # b /\ rootfs[b] = None
        /\ rootfs' = [rootfs EXCEPT ![b] = rootfs[a], ![a] = None]
        /\ job[p].cmd = "rename"
    BY <1>7, AtWork DEF Move, Moves, Bare, Fits
  <2>2. n = a \/ n = b
    BY <2>1 DEF IInv, TypeOK, Kept
  <2>3. n = a
    BY <2>1, <2>2 DEF Whole
  <2> QED
    BY <2>1, <2>3 DEF Excused, IInv, TypeOK
<1>8. CASE Relink(p) \/ MigrateRelink(p)
  <2>1. PICK m \in Name, from \in Name \cup {Legacy} : rootfs[m] # None /\ Rehome(m, from)
    BY <1>8, AtWork DEF Relink, MigrateRelink, Finds, Fits, Readers
  <2> QED
    BY <2>1, RehomeKept
<1>9. CASE RestoreCommit(p) \/ RestoreFill(p) \/ RestoreBroken(p)
  <2>1. n = job[p].name
    BY <1>9, AtWork, WrittenName DEF RestoreCommit, RestoreFill, RestoreBroken, Discard
  <2> QED
    BY <1>9, <2>1, AtWork DEF RestoreCommit, RestoreFill, RestoreBroken, Fits, Excused
<1>10. CASE Migrate(p)
  <2>1. n = job[p].name /\ rootfs[n] = None
    BY <1>10, AtWork, WrittenName DEF Migrate, MustMigrate
  <2> QED
    BY <2>1 DEF Whole
<1> QED
  BY <1>1, <1>2, <1>3, <1>4, <1>5, <1>6, <1>7, <1>8, <1>9, <1>10
  DEF Step, Fault, disk, Records, Goto,
      TakeExclusive, TakeSecond, TakeShared, Busy, Refuse, WriteManifest, InstallDone,
      MoveRefused, RestoreReject, RestoreRecord, Enter, EnterRefused, Leave,
      ManifestFails, RemoveFails, RelinkFails, FillFails, RestoreRecordFails,
      RestoreAbort, MigrateFails, Killed

\* Only a command that was asked to destroys a complete container.
THEOREM LifecycleDestroyedOnlyOnRequest == Spec => DestroyedOnlyOnRequest
<1> DEFINE Lost(n) == ~(Whole(rootfs'[n]) /\ rootfs'[n].content = rootfs[n].content)
<1>1. IInv /\ [Next]_lifecycleVars =>
        \A n \in Name : Whole(rootfs[n]) /\ Lost(n) =>
          \E p \in exclusive[n] : Excused(p, n)
  <2> SUFFICES ASSUME IInv, [Next]_lifecycleVars, NEW n \in Name,
                      Whole(rootfs[n]), Lost(n)
               PROVE  \E p \in exclusive[n] : Excused(p, n)
    OBVIOUS
  <2>1. ~Kept(n)
    BY DEF Whole, Kept
  <2>2. PICK p \in Proc : (Step(p) \/ Fault(p)) /\ OnlyOwn(p)
    <3>1. rootfs' # rootfs
      BY <2>1 DEF Kept
    <3> QED
      BY <3>1, NextCases DEF lifecycleVars
  <2> QED
    BY <2>1, <2>2, LossExcused DEF OnlyOwn
<1> QED
  BY LifecycleInvariant, <1>1, PTL DEF Spec, DestroyedOnlyOnRequest, Excused


-----------------------------------------------------------------------------
(***************************************************************************)
(* What a container holds, for any number of commands, names and images    *)
(* and with every fault: a rootfs that no fault has hit is whole, at home  *)
(* under its name and recorded in its manifest, unless a command with the  *)
(* exclusive lock is at work on it.                                        *)
(***************************************************************************)

Settled(n) ==
  rootfs[n] # None /\ rootfs[n].content \in Source =>
    /\ rootfs[n].whole /\ rootfs[n].home = n
    /\ rootfs[n].content \in Image => manifest[n] = rootfs[n].content

\* The steps at which a command may leave its rootfs otherwise.
Working(p, n) ==
  \/ /\ pc[p] \in {"extract", "record", "restoring", "recording", "removing"}
     /\ job[p].name = n
  \/ pc[p] = "relink" /\ job[p].cmd = "rename" /\ job[p].to = n

\* What the rootfs a command works on is like there.
Fills(p) ==
  /\ pc[p] \in {"extract", "record", "fixups", "restoring", "recording"} =>
       /\ rootfs[job[p].name].content = job[p].source
       /\ rootfs[job[p].name].home = job[p].name
  /\ pc[p] = "record" => rootfs[job[p].name].whole
  /\ pc[p] = "recording" /\ job[p].name \notin hurt => rootfs[job[p].name].whole
  /\ (pc[p] = "relink" /\ job[p].cmd = "rename" /\ job[p].to \notin hurt
      /\ rootfs[job[p].to].content \in Source) =>
       /\ rootfs[job[p].to].whole /\ rootfs[job[p].to].home = job[p].name
       /\ rootfs[job[p].to].content \in Image
          => manifest[job[p].to] = rootfs[job[p].to].content

WholeInv ==
  /\ \A n \in Name : n \in hurt \/ Settled(n) \/ \E p \in Proc : Working(p, n)
  /\ \A p \in Proc : Fills(p)

-----------------------------------------------------------------------------
(* What a step of p has to leave to the others.                            *)

Same(n) == rootfs'[n] = rootfs[n] /\ manifest'[n] = manifest[n]
StaysHurt(n) == n \in hurt => n \in hurt' \/ rootfs'[n] = None

Elsewhere(p) ==
  \A n \in Name : p \notin exclusive[n] =>
    \/ Same(n) /\ StaysHurt(n)
    \/ exclusive[n] = {} /\ (n \in hurt' \/ Settled(n)')

\* And to itself.
Here(p) ==
  \A n \in Name : p \in exclusive[n] => n \in hurt' \/ Settled(n)' \/ Working(p, n)'

\* Who works on a rootfs has its lock.
LEMMA WorkingOwns ==
  ASSUME IInv, NEW p \in Proc, NEW n \in Name, Working(p, n)
  PROVE  p \in exclusive[n]
<1>1. pc[p] # "idle"
  BY DEF Working
<1>2. Holds(p)
  BY <1>1, AtWork
<1> QED
  BY <1>2 DEF Working, Holds, OwnerSteps, InstallSteps, RestoreSteps, RemoveSteps

LEMMA OwnSettled ==
  ASSUME IInv, WholeInv, NEW p \in Proc, NEW n \in Name, p \in exclusive[n],
         n \notin hurt, ~Working(p, n)
  PROVE  Settled(n)
<1>1. ASSUME NEW q \in Proc, Working(q, n) PROVE FALSE
  <2>1. q \in exclusive[n]
    BY <1>1, WorkingOwns
  <2>2. q = p
    BY <2>1 DEF IInv, LocksExclude
  <2> QED
    BY <1>1, <2>2
<1> QED
  BY <1>1 DEF WholeInv

LEMMA Framed ==
  ASSUME IInv, WholeInv, NEW p \in Proc, Others(p), Elsewhere(p), Here(p), Fills(p)'
  PROVE  WholeInv'
<1>1. ASSUME NEW n \in Name
      PROVE  n \in hurt' \/ Settled(n)' \/ \E q \in Proc : Working(q, n)'
  <2>1. CASE p \in exclusive[n]
    BY <2>1 DEF Here
  <2>2. CASE p \notin exclusive[n] /\ Same(n) /\ StaysHurt(n)
    <3>1. CASE n \in hurt
      BY <2>2, <3>1 DEF StaysHurt, Settled
    <3>2. CASE Settled(n)
      BY <2>2, <3>2 DEF Same, Settled
    <3>3. ASSUME NEW q \in Proc, Working(q, n) PROVE Working(q, n)'
      <4>1. q # p
        BY <2>2, <3>3, WorkingOwns
      <4> QED
        BY <3>3, <4>1 DEF Others, Working
    <3> QED
      BY <3>1, <3>2, <3>3 DEF WholeInv
  <2> QED
    BY <2>1, <2>2 DEF Elsewhere
<1>2. ASSUME NEW q \in Proc \ {p} PROVE Fills(q)'
  <2>1. pc'[q] = pc[q] /\ job'[q] = job[q] /\ Fills(q)
    BY DEF Others, WholeInv
  <2>2. ASSUME NEW n \in Name, q \in exclusive[n]
        PROVE  p \notin exclusive[n] /\ Same(n) /\ StaysHurt(n)
    BY <2>2 DEF IInv, LocksExclude, Elsewhere
  <2>3. CASE pc[q] \in {"extract", "record", "fixups", "restoring", "recording"}
    <3>1. /\ job[q].name \in Name /\ q \in exclusive[job[q].name]
          /\ rootfs[job[q].name] # None
      BY <2>3, AtWork DEF Holds, Finds, OwnerSteps, InstallSteps, RestoreSteps
    <3> QED
      BY <2>1, <2>2, <2>3, <3>1 DEF Fills, Same, StaysHurt
  <2>4. CASE pc[q] = "relink" /\ job[q].cmd = "rename"
    <3>1. job[q].to \in Name /\ q \in exclusive[job[q].to] /\ rootfs[job[q].to] # None
      BY <2>4, AtWork DEF Holds, Finds
    <3> QED
      BY <2>1, <2>2, <2>4, <3>1 DEF Fills, Same, StaysHurt
  <2> QED
    BY <2>1, <2>3, <2>4 DEF Fills
<1> QED
  BY <1>1, <1>2 DEF WholeInv

-----------------------------------------------------------------------------
(* The shapes of a step.                                                   *)

\* The others stand where they stood.
LEMMA QuitOthers ==
  ASSUME IInv, NEW p \in Proc, Quit(p)
  PROVE  Others(p) /\ Fills(p)' /\ pc'[p] = "idle" /\ \A n \in Name : ~Working(p, n)'
  BY DEF Quit, IInv, TypeOK, Others, Fills, Working

LEMMA GotoOthers ==
  ASSUME IInv, NEW p \in Proc, NEW l \in Steps \ {"idle"}, Goto(p, l)
  PROVE  Others(p) /\ pc'[p] = l /\ job'[p] = job[p]
  BY DEF Goto, IInv, TypeOK, Others

\* A command that was not at work and leaves the disk alone.
Resting == {"idle", "lock", "lock2", "check", "fixups", "remove", "wipe", "move", "restore",
            "enter", "inside"}

LEMMA RestSettled ==
  ASSUME IInv, WholeInv, NEW p \in Proc, pc[p] \in Resting, UNCHANGED disk,
         \A n \in Name : StaysHurt(n)
  PROVE  Elsewhere(p) /\ Here(p)
<1>1. \A n \in Name : Same(n)
  BY DEF disk, Same
<1>2. ASSUME NEW n \in Name, p \in exclusive[n] PROVE n \in hurt' \/ Settled(n)'
  <2>1. ~Working(p, n)
    BY DEF Resting, Working
  <2>2. CASE n \notin hurt
    BY <1>1, <1>2, <2>1, <2>2, OwnSettled DEF Settled, Same
  <2>3. CASE n \in hurt
    BY <2>3 DEF StaysHurt, Settled
  <2> QED
    BY <2>2, <2>3
<1> QED
  BY <1>1, <1>2 DEF Elsewhere, Here

\* A step that writes one rootfs that p has to itself.
LEMMA WriteElsewhere ==
  ASSUME IInv, WholeInv, NEW p \in Proc, NEW n \in Name, p \in exclusive[n],
         \A m \in Name \ {n} : Same(m) /\ StaysHurt(m),
         n \in hurt' \/ Settled(n)' \/ Working(p, n)',
         \A m \in Name \ {n} : ~Working(p, m)
  PROVE  Elsewhere(p) /\ Here(p)
<1>1. Elsewhere(p)
  BY DEF Elsewhere
<1>2. ASSUME NEW m \in Name \ {n}, p \in exclusive[m] PROVE m \in hurt' \/ Settled(m)'
  <2>1. CASE m \notin hurt
    BY <1>2, <2>1, OwnSettled DEF Settled, Same
  <2>2. CASE m \in hurt
    BY <2>2 DEF StaysHurt, Settled
  <2> QED
    BY <2>1, <2>2
<1> QED
  BY <1>1, <1>2 DEF Here

\* What Next does to hurt.
LEMMA HurtStays ==
  ASSUME NEW p \in Proc, hurt' = Mended(p) \cap Present, NEW n \in Name
  PROVE  StaysHurt(n) \/ (n = job[p].name /\ pc'[p] \in {"extract", "restoring"})
  BY DEF Mended, Present, StaysHurt

-----------------------------------------------------------------------------
(* The steps, one by one.                                                  *)

LEMMA OnlyName ==
  ASSUME IInv, NEW p \in Proc, pc[p] # "relink"
  PROVE  \A m \in Name \ {job[p].name} : ~Working(p, m)
  BY DEF Working

LEMMA QuitRests ==
  ASSUME IInv, WholeInv, NEW p \in Proc, pc[p] \in Resting, UNCHANGED disk, Quit(p),
         hurt' = Mended(p) \cap Present
  PROVE  WholeInv'
<1>1. Others(p) /\ Fills(p)' /\ pc'[p] = "idle"
  BY QuitOthers
<1>2. \A n \in Name : StaysHurt(n)
  BY <1>1, HurtStays
<1> QED
  BY <1>1, <1>2, RestSettled, Framed

\* A command that goes on to a place where nothing is promised.
LEMMA GoneOn ==
  ASSUME NEW p \in Proc, pc'[p] \in Resting \ {"fixups"}
  PROVE  Fills(p)'
  BY DEF Resting, Fills

LEMMA TakeWhole ==
  ASSUME IInv, WholeInv, NEW p \in Proc,
         TakeExclusive(p) \/ TakeSecond(p) \/ TakeShared(p),
         hurt' = Mended(p) \cap Present
  PROVE  WholeInv'
<1>1. /\ pc[p] \in {"lock", "lock2"} /\ UNCHANGED disk /\ job' = job
      /\ \/ pc' = [pc EXCEPT ![p] = FirstStep[job[p].cmd]] /\ job[p].cmd \notin Readers
         \/ pc' = [pc EXCEPT ![p] = "move"]
         \/ pc' = [pc EXCEPT ![p] = "enter"]
  BY DEF TakeExclusive, TakeSecond, TakeShared
<1>2. job[p].cmd \in {"install", "reset", "restore", "remove", "rename"} \cup Readers
  BY <1>1, AtWork DEF Job, Readers
<1>3. job[p].cmd \notin Readers =>
        FirstStep[job[p].cmd] \in {"check", "wipe", "restore", "remove", "lock2"}
  BY <1>2 DEF FirstStep
<1>4. Others(p) /\ pc'[p] \in {"check", "wipe", "restore", "remove", "lock2", "move", "enter"}
  BY <1>1, <1>3 DEF IInv, TypeOK, Others
<1>5. Fills(p)'
  BY <1>4, GoneOn DEF Resting
<1>6. \A n \in Name : StaysHurt(n)
  BY <1>4, HurtStays
<1>7. pc[p] \in Resting
  BY <1>1 DEF Resting
<1> QED
  BY <1>1, <1>4, <1>5, <1>6, <1>7, RestSettled, Framed

\* What a step that writes the rootfs of p's name makes of it.
LEMMA Written ==
  ASSUME IInv, WholeInv, NEW p \in Proc, NEW n \in Name, n = job[p].name,
         Others(p), Fills(p)', pc[p] # "relink", p \in exclusive[n],
         \A m \in Name \ {n} : Same(m),
         hurt' = Mended(p) \cap Present,
         n \in hurt' \/ Settled(n)' \/ Working(p, n)'
  PROVE  WholeInv'
<1>1. \A m \in Name \ {n} : StaysHurt(m)
  BY HurtStays
<1>2. \A m \in Name \ {n} : ~Working(p, m)
  BY OnlyName
<1>3. Elsewhere(p) /\ Here(p)
  BY <1>1, <1>2, WriteElsewhere
<1> QED
  BY <1>3, Framed

\* A rootfs that is gone, or its container with it.
LEMMA GoneSame ==
  ASSUME IInv, NEW n \in Name, NEW t,
         rootfs' = [rootfs EXCEPT ![n] = t],
         \/ manifest' = manifest
         \/ \E m : manifest' = [manifest EXCEPT ![n] = m]
  PROVE  rootfs'[n] = t /\ \A m \in Name \ {n} : Same(m)
  BY DEF IInv, TypeOK, Same

LEMMA InstallWhole ==
  ASSUME IInv, WholeInv, NEW p \in Proc, hurt' = Mended(p) \cap Present,
         OpenPair(p) \/ Extract(p) \/ WriteManifest(p) \/ InstallFails(p) \/ Wipe(p)
  PROVE  WholeInv'
<1> USE DEF InstallSteps, RestoreSteps, RemoveSteps, OwnerSteps, Steps
<1>0. job[p].name \in Name
  BY AtWork DEF OpenPair, Extract, WriteManifest, InstallFails, Wipe
<1> SUFFICES ASSUME NEW n \in Name, n = job[p].name PROVE WholeInv'
  BY <1>0
<1>1. /\ pc[p] \in {"check", "extract", "record", "fixups", "wipe"}
      /\ p \in exclusive[n] /\ pc[p] # "relink"
      /\ pc[p] # "wipe" => job[p].source \in Source
      /\ pc[p] \in {"extract", "record", "fixups"} => rootfs[n] \in Rootfs /\ rootfs[n] # None
  <2>1. pc[p] \in {"check", "extract", "record", "fixups", "wipe"}
    BY DEF OpenPair, Extract, WriteManifest, InstallFails, Wipe
  <2> QED
    BY <2>1, AtWork DEF Holds, Fits, Finds, IInv, TypeOK
<1>2. CASE OpenPair(p)
  <2>1. Others(p) /\ pc'[p] = "extract" /\ job'[p] = job[p]
    BY <1>2, GotoOthers DEF OpenPair
  <2>a. /\ rootfs' = [rootfs EXCEPT ![n] = Tree(job[p].source, FALSE, n)]
        /\ manifest' = manifest
        /\ job[p].source \in Source \cup {Legacy} /\ n \in Name \cup {Legacy}
    BY <1>1, <1>2 DEF OpenPair
  <2>2. /\ rootfs'[n] = Tree(job[p].source, FALSE, n)
        /\ \A m \in Name \ {n} : Same(m)
    BY <2>a, GoneSame
  <2>3. rootfs'[n].content = job[p].source /\ rootfs'[n].home = n
    BY <2>2 DEF Tree
  <2>4. Fills(p)' /\ Working(p, n)'
    BY <2>1, <2>3 DEF Fills, Working
  <2> QED
    BY <1>1, <2>1, <2>2, <2>4, Written
<1>3. CASE Extract(p)
  <2>1. Others(p) /\ pc'[p] = "record" /\ job'[p] = job[p]
    BY <1>3, GotoOthers DEF Extract
  <2>a. /\ rootfs' = [rootfs EXCEPT ![n] = [rootfs[n] EXCEPT !.whole = TRUE]]
        /\ manifest' = manifest
    BY <1>3 DEF Extract
  <2>2. /\ rootfs'[n] = [rootfs[n] EXCEPT !.whole = TRUE]
        /\ \A m \in Name \ {n} : Same(m)
    BY <2>a, GoneSame
  <2>3. Fills(p)
    BY DEF WholeInv
  <2>4. Fills(p)' /\ Working(p, n)'
    BY <1>1, <1>3, <2>1, <2>2, <2>3 DEF Fills, Working, Extract, Rootfs
  <2> QED
    BY <1>1, <2>1, <2>2, <2>4, Written
<1>4. CASE WriteManifest(p)
  <2>1. Others(p) /\ pc'[p] = "fixups" /\ job'[p] = job[p] /\ pc[p] = "record"
    BY <1>4, GotoOthers DEF WriteManifest
  <2>2. /\ rootfs' = rootfs /\ \A m \in Name \ {n} : Same(m)
        /\ job[p].source \in Image => manifest'[n] = job[p].source
    BY <1>1, <1>4 DEF WriteManifest, Records, Same, IInv, TypeOK
  <2>3. Fills(p)
    BY DEF WholeInv
  <2>4. Fills(p)' /\ Settled(n)'
    BY <1>1, <2>1, <2>2, <2>3 DEF Fills, Settled
  <2> QED
    BY <1>1, <2>1, <2>2, <2>4, Written
<1>5. CASE InstallFails(p)
  <2>1. Others(p) /\ Fills(p)'
    BY <1>5, QuitOthers DEF InstallFails
  <2>2. rootfs'[n] = None /\ \A m \in Name \ {n} : Same(m)
    BY <1>1, <1>5, GoneSame DEF InstallFails, Discard
  <2>3. Settled(n)'
    BY <2>2 DEF Settled
  <2> QED
    BY <1>1, <2>1, <2>2, <2>3, Written
<1>6. CASE Wipe(p)
  <2>1. Others(p) /\ pc'[p] = "check" /\ job'[p] = job[p]
    BY <1>6, GotoOthers DEF Wipe
  <2>2. rootfs'[n] = None /\ \A m \in Name \ {n} : Same(m)
    BY <1>1, <1>6, GoneSame DEF Wipe
  <2>3. Settled(n)' /\ Fills(p)'
    BY <2>1, <2>2 DEF Settled, Fills
  <2> QED
    BY <1>1, <2>1, <2>2, <2>3, Written
<1> QED
  BY <1>2, <1>3, <1>4, <1>5, <1>6

LEMMA RemoveWhole ==
  ASSUME IInv, WholeInv, NEW p \in Proc, hurt' = Mended(p) \cap Present,
         RemoveSome(p) \/ RemoveRest(p)
  PROVE  WholeInv'
<1> USE DEF InstallSteps, RestoreSteps, RemoveSteps, OwnerSteps, Steps
<1>0. job[p].name \in Name
  BY AtWork DEF RemoveSome, RemoveRest
<1> SUFFICES ASSUME NEW n \in Name, n = job[p].name PROVE WholeInv'
  BY <1>0
<1>1. pc[p] \in RemoveSteps /\ p \in exclusive[n] /\ pc[p] # "relink"
  BY AtWork DEF RemoveSome, RemoveRest, Holds
<1>2. CASE RemoveSome(p)
  <2>1. Others(p) /\ pc'[p] = "removing" /\ job'[p] = job[p]
    BY <1>2, GotoOthers DEF RemoveSome
  <2>2. \A m \in Name \ {n} : Same(m)
    BY <1>1, <1>2, GoneSame DEF RemoveSome, DiscardSome
  <2>3. Fills(p)' /\ Working(p, n)'
    BY <2>1 DEF Fills, Working
  <2> QED
    BY <1>1, <2>1, <2>2, <2>3, Written
<1>3. CASE RemoveRest(p)
  <2>1. Others(p) /\ Fills(p)'
    BY <1>3, QuitOthers DEF RemoveRest
  <2>2. rootfs'[n] = None /\ \A m \in Name \ {n} : Same(m)
    BY <1>1, <1>3, GoneSame DEF RemoveRest, Discard
  <2>3. Settled(n)'
    BY <2>2 DEF Settled
  <2> QED
    BY <1>1, <2>1, <2>2, <2>3, Written
<1> QED
  BY <1>2, <1>3

LEMMA RestoreWhole ==
  ASSUME IInv, WholeInv, NEW p \in Proc, hurt' = Mended(p) \cap Present,
         RestoreCommit(p) \/ RestoreFill(p) \/ RestoreRecord(p) \/ RestoreBroken(p)
  PROVE  WholeInv'
<1> USE DEF InstallSteps, RestoreSteps, RemoveSteps, OwnerSteps, Steps
<1>0. job[p].name \in Name
  BY AtWork DEF RestoreCommit, RestoreFill, RestoreRecord, RestoreBroken
<1> SUFFICES ASSUME NEW n \in Name, n = job[p].name PROVE WholeInv'
  BY <1>0
<1>1. /\ pc[p] \in {"restore", "restoring", "recording"}
      /\ p \in exclusive[n] /\ pc[p] # "relink" /\ job[p].source \in Source
      /\ pc[p] \in {"restoring", "recording"} => rootfs[n] \in Rootfs /\ rootfs[n] # None
  <2>1. pc[p] \in {"restore", "restoring", "recording"}
    BY DEF RestoreCommit, RestoreFill, RestoreRecord, RestoreBroken
  <2> QED
    BY <2>1, AtWork DEF Holds, Fits, Finds, IInv, TypeOK
<1>2. CASE RestoreCommit(p)
  <2>1. Others(p) /\ pc'[p] = "restoring" /\ job'[p] = job[p]
    BY <1>2, GotoOthers DEF RestoreCommit
  <2>a. /\ rootfs' = [rootfs EXCEPT ![n] = Tree(job[p].source, FALSE, n)]
        /\ manifest' = manifest
        /\ job[p].source \in Source \cup {Legacy} /\ n \in Name \cup {Legacy}
    BY <1>1, <1>2 DEF RestoreCommit
  <2>2. /\ rootfs'[n] = Tree(job[p].source, FALSE, n)
        /\ \A m \in Name \ {n} : Same(m)
    BY <2>a, GoneSame
  <2>3. rootfs'[n].content = job[p].source /\ rootfs'[n].home = n
    BY <2>2 DEF Tree
  <2>4. Fills(p)' /\ Working(p, n)'
    BY <2>1, <2>3 DEF Fills, Working
  <2> QED
    BY <1>1, <2>1, <2>2, <2>4, Written
<1>3. CASE RestoreFill(p)
  <2>1. Others(p) /\ pc'[p] = "recording" /\ job'[p] = job[p]
    BY <1>3, GotoOthers DEF RestoreFill
  <2>a. /\ rootfs' = [rootfs EXCEPT ![n] = [rootfs[n] EXCEPT !.whole = TRUE]]
        /\ manifest' = manifest
    BY <1>3 DEF RestoreFill
  <2>2. /\ rootfs'[n] = [rootfs[n] EXCEPT !.whole = TRUE]
        /\ \A m \in Name \ {n} : Same(m)
    BY <2>a, GoneSame
  <2>3. Fills(p)
    BY DEF WholeInv
  <2>4. Fills(p)' /\ Working(p, n)'
    BY <1>1, <1>3, <2>1, <2>2, <2>3 DEF Fills, Working, RestoreFill, Rootfs
  <2> QED
    BY <1>1, <2>1, <2>2, <2>4, Written
<1>4. CASE RestoreRecord(p)
  <2>1. Others(p) /\ Fills(p)' /\ pc[p] = "recording" /\ pc'[p] = "idle"
    BY <1>4, QuitOthers DEF RestoreRecord
  <2>2. /\ rootfs' = rootfs /\ \A m \in Name \ {n} : Same(m)
        /\ job[p].source \in Image => manifest'[n] = job[p].source
    BY <1>1, <1>4 DEF RestoreRecord, Records, Same, IInv, TypeOK
  <2>3. Fills(p)
    BY DEF WholeInv
  <2>4. StaysHurt(n)
    BY <1>1, <2>1, HurtStays
  <2>5. n \in hurt' \/ Settled(n)'
    BY <1>1, <2>1, <2>2, <2>3, <2>4 DEF Fills, Settled, StaysHurt
  <2> QED
    BY <1>1, <2>1, <2>2, <2>5, Written
<1>5. CASE RestoreBroken(p)
  <2>1. Others(p) /\ Fills(p)'
    BY <1>5, QuitOthers DEF RestoreBroken
  <2>2. rootfs'[n] = None /\ \A m \in Name \ {n} : Same(m)
    BY <1>1, <1>5, GoneSame DEF RestoreBroken, Discard
  <2>3. Settled(n)'
    BY <2>2 DEF Settled
  <2> QED
    BY <1>1, <2>1, <2>2, <2>3, Written
<1> QED
  BY <1>2, <1>3, <1>4, <1>5

\* rename: nobody else is at work on either name, and what arrives is what left.
LEMMA RenameWhole ==
  ASSUME IInv, WholeInv, NEW p \in Proc, hurt' = Mended(p) \cap Present, Move(p)
  PROVE  WholeInv'
<1>0. /\ pc[p] = "move" /\ job[p].name \in Name /\ job[p].to \in Name
      /\ job[p].name # job[p].to /\ job[p].cmd = "rename"
      /\ p \in exclusive[job[p].name] /\ p \in exclusive[job[p].to]
  BY AtWork DEF Move, Holds, Fits
<1> SUFFICES ASSUME NEW a \in Name, a = job[p].name, NEW b \in Name, b = job[p].to
             PROVE  WholeInv'
  BY <1>0
<1>1. /\ rootfs' = [rootfs EXCEPT ![b] = rootfs[a], ![a] = None]
      /\ manifest' = [manifest EXCEPT ![b] = manifest[a], ![a] = None]
      /\ made' = (made \ {a}) \cup {b} /\ a \in made
      /\ IF rootfs[a] # None THEN Goto(p, "relink") ELSE Quit(p)
  BY DEF Move, Moves
<1>2. /\ rootfs'[b] = rootfs[a] /\ rootfs'[a] = None /\ manifest'[b] = manifest[a]
      /\ \A m \in Name \ {a, b} : Same(m)
  BY <1>0, <1>1 DEF IInv, TypeOK, Same
<1>3. /\ Others(p)
      /\ \/ pc'[p] = "idle" /\ rootfs[a] = None
         \/ pc'[p] = "relink" /\ job'[p] = job[p] /\ rootfs[a] # None
  BY <1>1, QuitOthers, GotoOthers DEF Steps
<1>4. \A m \in Name : StaysHurt(m)
  BY <1>3, HurtStays
<1>5. a \in hurt /\ rootfs[a] # None => b \in hurt'
  BY <1>0, <1>1, <1>2, <1>3 DEF Mended, Present
<1>6. a \in hurt \/ Settled(a)
  BY <1>0, OwnSettled DEF Working
<1>7. Fills(p)'
  BY <1>0, <1>2, <1>3, <1>5, <1>6 DEF Fills, Settled
<1>8. Elsewhere(p)
  BY <1>0, <1>2, <1>4 DEF Elsewhere
<1>9. ASSUME NEW m \in Name, p \in exclusive[m]
      PROVE  m \in hurt' \/ Settled(m)' \/ Working(p, m)'
  <2>1. CASE m = a
    BY <1>2, <2>1 DEF Settled
  <2>2. CASE m = b
    BY <1>0, <1>2, <1>3, <2>2 DEF Settled, Working
  <2>3. CASE m \notin {a, b}
    <3>1. m \in hurt \/ Settled(m)
      BY <1>0, <1>9, OwnSettled DEF Working
    <3> QED
      BY <1>2, <1>4, <2>3, <3>1 DEF Same, StaysHurt, Settled
  <2> QED
    BY <2>1, <2>2, <2>3
<1> QED
  BY <1>3, <1>7, <1>8, <1>9, Framed DEF Here

LEMMA RehomeSame ==
  ASSUME IInv, NEW n \in Name, NEW from \in Name \cup {Legacy}, rootfs[n] # None,
         Rehome(n, from)
  PROVE  /\ \A m \in Name \ {n} : Same(m)
         /\ manifest' = manifest /\ rootfs'[n] # None
         /\ rootfs'[n].content = rootfs[n].content /\ rootfs'[n].whole = rootfs[n].whole
         /\ rootfs'[n].home = IF rootfs[n].home = from THEN n ELSE rootfs[n].home
<1>1. rootfs[n] \in Rootfs
  BY DEF IInv, TypeOK
<1>2. rootfs' = [rootfs EXCEPT ![n] = [rootfs[n] EXCEPT !.home =
                   IF rootfs[n].home = from THEN n ELSE rootfs[n].home]]
  BY DEF Rehome
<1>3. \A m \in Name : Kept(m)
  BY <1>1, <1>2, NoneAssumption DEF IInv, TypeOK, Kept, Rootfs
<1> QED
  BY <1>1, <1>2, <1>3 DEF IInv, TypeOK, Same, Rehome, Kept, Rootfs

LEMMA RelinkWhole ==
  ASSUME IInv, WholeInv, NEW p \in Proc, hurt' = Mended(p) \cap Present, Relink(p)
  PROVE  WholeInv'
<1>0. /\ pc[p] = "relink" /\ job[p].cmd = "rename" /\ job[p].to \in Name
      /\ job[p].name \in Name /\ p \in exclusive[job[p].to] /\ rootfs[job[p].to] # None
  BY AtWork DEF Relink, Holds, Finds
<1> SUFFICES ASSUME NEW b \in Name, b = job[p].to PROVE WholeInv'
  BY <1>0
<1>1. Others(p) /\ Fills(p)' /\ pc'[p] = "idle"
  BY QuitOthers DEF Relink
<1>2. /\ \A m \in Name \ {b} : Same(m)
      /\ manifest' = manifest /\ rootfs'[b] # None
      /\ rootfs'[b].content = rootfs[b].content /\ rootfs'[b].whole = rootfs[b].whole
      /\ rootfs'[b].home = IF rootfs[b].home = job[p].name THEN b ELSE rootfs[b].home
  BY <1>0, RehomeSame DEF Relink
<1>3. \A m \in Name : StaysHurt(m)
  BY <1>1, HurtStays
<1>4. Fills(p)
  BY DEF WholeInv
<1>5. b \in hurt' \/ Settled(b)'
  BY <1>0, <1>2, <1>3, <1>4 DEF Fills, Settled, StaysHurt
<1>6. \A m \in Name \ {b} : ~Working(p, m)
  BY <1>0 DEF Working
<1>7. Elsewhere(p) /\ Here(p)
  BY <1>0, <1>2, <1>3, <1>5, <1>6, WriteElsewhere
<1> QED
  BY <1>1, <1>7, Framed

\* A migration brings what no image made, and relinks nothing else: nobody with
\* the exclusive lock is there while it has the shared one.
LEMMA MigrateWhole ==
  ASSUME IInv, WholeInv, NEW p \in Proc, hurt' = Mended(p) \cap Present,
         Migrate(p) \/ MigrateRelink(p)
  PROVE  WholeInv'
<1>0. /\ pc[p] \in {"enter", "relink"} /\ job[p].cmd \in Readers
      /\ job[p].name \in Name /\ exclusive[job[p].name] = {}
      /\ pc[p] = "relink" => rootfs[job[p].name] # None
  BY AtWork DEF Migrate, MigrateRelink, Holds, Finds, Fits, IInv, LocksExclude, Readers
<1> SUFFICES ASSUME NEW n \in Name, n = job[p].name PROVE WholeInv'
  BY <1>0
<1>1. /\ Others(p) /\ job'[p] = job[p]
      /\ pc'[p] \in {"relink", "enter"}
  BY GotoOthers DEF Migrate, MigrateRelink, Steps
<1>2. Fills(p)'
  BY <1>0, <1>1 DEF Fills, Readers
<1>3. \A m \in Name : StaysHurt(m)
  BY <1>1, HurtStays
<1>4. \A m \in Name : ~Working(p, m)
  BY <1>0 DEF Working, Readers
<1>5. n \in hurt \/ Settled(n)
  <2>1. ASSUME NEW q \in Proc, Working(q, n) PROVE FALSE
    BY <1>0, <2>1, WorkingOwns
  <2> QED
    BY <2>1 DEF WholeInv
<1>6. /\ \A m \in Name \ {n} : Same(m)
      /\ n \in hurt' \/ Settled(n)'
  <2>1. CASE Migrate(p)
    <3>1. rootfs' = [rootfs EXCEPT ![n] = Tree(Legacy, TRUE, Legacy)] /\ manifest' = manifest
      BY <2>1 DEF Migrate
    <3>2. rootfs'[n] = Tree(Legacy, TRUE, Legacy) /\ \A m \in Name \ {n} : Same(m)
      BY <3>1, GoneSame
    <3>3. rootfs'[n].content \notin Source
      BY <3>2, LifecycleAssumption DEF Tree
    <3> QED
      BY <3>2, <3>3 DEF Settled
  <2>2. CASE MigrateRelink(p)
    <3>1. Rehome(n, Legacy) /\ rootfs[n] # None
      BY <1>0, <2>2 DEF MigrateRelink
    <3>2. /\ \A m \in Name \ {n} : Same(m)
          /\ manifest' = manifest /\ rootfs'[n] # None
          /\ rootfs'[n].content = rootfs[n].content /\ rootfs'[n].whole = rootfs[n].whole
          /\ rootfs'[n].home = IF rootfs[n].home = Legacy THEN n ELSE rootfs[n].home
      BY <3>1, RehomeSame
    <3> QED
      BY <1>3, <1>5, <3>1, <3>2 DEF Settled, StaysHurt
  <2> QED
    BY <2>1, <2>2
<1>7. Elsewhere(p)
  BY <1>0, <1>3, <1>6 DEF Elsewhere
<1>8. Here(p)
  <2> SUFFICES ASSUME NEW m \in Name, p \in exclusive[m] PROVE m \in hurt' \/ Settled(m)'
    BY DEF Here
  <2>1. m # n
    BY <1>0
  <2>2. m \in hurt \/ Settled(m)
    BY <1>4, OwnSettled
  <2> QED
    BY <1>3, <1>6, <2>1, <2>2 DEF Same, StaysHurt, Settled
<1> QED
  BY <1>1, <1>2, <1>7, <1>8, Framed

LEMMA StepWhole ==
  ASSUME IInv, WholeInv, NEW p \in Proc, Step(p), hurt' = Mended(p) \cap Present
  PROVE  WholeInv'
<1>1. CASE TakeExclusive(p) \/ TakeSecond(p) \/ TakeShared(p)
  BY <1>1, TakeWhole
<1>2. CASE \/ Busy(p) \/ Refuse(p) \/ InstallDone(p) \/ MoveRefused(p)
           \/ RestoreReject(p) \/ EnterRefused(p) \/ Leave(p)
  BY <1>2, QuitRests
  DEF Busy, Refuse, InstallDone, MoveRefused, RestoreReject, EnterRefused, Leave, Resting
<1>3. CASE Enter(p)
  <2>1. pc[p] = "enter" /\ UNCHANGED disk /\ Others(p) /\ pc'[p] = "inside"
    BY <1>3, GotoOthers DEF Enter, Steps
  <2>2. \A n \in Name : StaysHurt(n)
    BY <2>1, HurtStays
  <2>3. Elsewhere(p) /\ Here(p)
    BY <2>1, <2>2, RestSettled DEF Resting
  <2>4. Fills(p)'
    BY <2>1, GoneOn DEF Resting
  <2> QED
    BY <2>1, <2>3, <2>4, Framed
<1> QED
  BY <1>1, <1>2, <1>3, InstallWhole, RemoveWhole, RestoreWhole, RenameWhole, RelinkWhole,
     MigrateWhole
  DEF Step

\* After a fault, all that its command owned counts as hurt.
LEMMA FaultWhole ==
  ASSUME IInv, WholeInv, NEW p \in Proc, Fault(p), hurt' = (hurt \cup Owned(p)) \cap Present
  PROVE  WholeInv'
<1> USE DEF InstallSteps, RestoreSteps, RemoveSteps, OwnerSteps, Steps
<1>1. \A n \in Name : StaysHurt(n)
  BY DEF Present, StaysHurt
<1>2. Here(p)
  BY DEF Present, Owned, Here, Settled
<1>3. CASE RemoveFails(p) \/ RestoreRecordFails(p) \/ RestoreAbort(p) \/ Killed(p)
  <2>1. Others(p) /\ Fills(p)' /\ UNCHANGED disk
    BY <1>3, QuitOthers DEF RemoveFails, RestoreRecordFails, RestoreAbort, Killed
  <2>2. Elsewhere(p)
    BY <1>1, <2>1 DEF Elsewhere, Same, disk
  <2> QED
    BY <1>2, <2>1, <2>2, Framed
<1>4. CASE ManifestFails(p) \/ FillFails(p)
  <2>1. /\ pc[p] \in {"record", "restoring"} /\ UNCHANGED disk
        /\ Others(p) /\ job'[p] = job[p]
        /\ pc[p] = "record" => pc'[p] = "fixups"
        /\ pc[p] = "restoring" => pc'[p] = "recording"
    BY <1>4, GotoOthers DEF ManifestFails, FillFails
  <2>2. /\ job[p].name \in Name /\ p \in exclusive[job[p].name]
        /\ rootfs[job[p].name] # None /\ Fills(p)
    BY <2>1, AtWork DEF Holds, Finds, WholeInv
  <2>3. job[p].name \in hurt'
    BY <2>1, <2>2 DEF Owned, Present, disk
  <2>4. Fills(p)'
    BY <2>1, <2>2, <2>3 DEF Fills, disk
  <2>5. Elsewhere(p)
    BY <1>1, <2>1 DEF Elsewhere, Same, disk
  <2> QED
    BY <1>2, <2>1, <2>4, <2>5, Framed
<1>5. CASE RelinkFails(p)
  <2>1. Others(p) /\ UNCHANGED disk /\ pc'[p] \in {"idle", "enter"}
    BY <1>5, QuitOthers, GotoOthers DEF RelinkFails
  <2>2. Elsewhere(p) /\ Fills(p)'
    BY <1>1, <2>1 DEF Elsewhere, Same, disk, Fills
  <2> QED
    BY <1>2, <2>1, <2>2, Framed
<1>6. CASE CleanupFails(p) \/ WipeFails(p)
  <2>1. /\ pc[p] \in {"extract", "record", "fixups", "wipe"}
        /\ Others(p) /\ pc'[p] \in {"idle", "check"}
    BY <1>6, QuitOthers, GotoOthers DEF CleanupFails, WipeFails
  <2>2. job[p].name \in Name /\ p \in exclusive[job[p].name]
    BY <2>1, AtWork DEF Holds
  <2>3. \A m \in Name \ {job[p].name} : Same(m)
    BY <1>6, <2>2, GoneSame DEF CleanupFails, WipeFails, DiscardSome
  <2>4. Elsewhere(p) /\ Fills(p)'
    BY <1>1, <2>1, <2>2, <2>3 DEF Elsewhere, Fills
  <2> QED
    BY <1>2, <2>1, <2>4, Framed
<1>7. CASE MigrateFails(p)
  <2>1. Others(p) /\ Fills(p)' /\ UNCHANGED <<rootfs, manifest>>
    BY <1>7, QuitOthers DEF MigrateFails
  <2>2. Elsewhere(p)
    BY <1>1, <2>1 DEF Elsewhere, Same
  <2> QED
    BY <1>2, <2>1, <2>2, Framed
<1> QED
  BY <1>3, <1>4, <1>5, <1>6, <1>7 DEF Fault

LEMMA StartWhole ==
  ASSUME IInv, WholeInv, NEW p \in Proc, NEW n \in Name, Start(p, n), UNCHANGED hurt
  PROVE  WholeInv'
<1>1. pc[p] = "idle" /\ pc' = [pc EXCEPT ![p] = "lock"] /\ UNCHANGED disk
      /\ \E j : job' = [job EXCEPT ![p] = j]
  BY DEF Start, StartInstall, StartRestore, StartRemove, StartRename, StartReset, StartRun,
         StartLogin, StartBackup, Begin
<1>2. Others(p) /\ pc'[p] = "lock"
  BY <1>1 DEF IInv, TypeOK, Others
<1>3. Fills(p)' /\ \A m \in Name : StaysHurt(m)
  BY <1>2 DEF Fills, StaysHurt
<1>4. Elsewhere(p) /\ Here(p)
  BY <1>1, <1>3, RestSettled DEF Resting
<1> QED
  BY <1>2, <1>3, <1>4, Framed

-----------------------------------------------------------------------------
(* The theorems.                                                           *)

\* Every rootfs that no fault has hit is whole, at home and recorded, or some
\* command with its exclusive lock is at work on it.
THEOREM WholeInvariant == Spec => []WholeInv
<1>1. Init => WholeInv
  BY DEF Init, WholeInv, Settled, Fills
<1>2. IInv /\ WholeInv /\ [Next]_lifecycleVars => WholeInv'
  <2> SUFFICES ASSUME IInv, WholeInv, [Next]_lifecycleVars PROVE WholeInv'
    OBVIOUS
  <2>1. CASE UNCHANGED lifecycleVars
    BY <2>1 DEF lifecycleVars, WholeInv, Settled, Working, Fills
  <2>2. CASE Next
    BY <2>2, StepWhole, FaultWhole, StartWhole DEF Next
  <2> QED
    BY <2>1, <2>2
<1> QED
  BY <1>1, <1>2, LifecycleInvariant, PTL DEF Spec

\* Nobody runs or archives a rootfs that is not whole or not at home, unless a
\* fault has hit that very container.
THEOREM LifecycleSessionSeesWhole == Spec => []SessionSeesWhole
<1>1. IInv /\ WholeInv => SessionSeesWhole
  <2> SUFFICES ASSUME IInv, WholeInv, NEW p \in Proc, pc[p] = "inside",
                      NEW n \in Name, n = job[p].name, n \notin hurt,
                      rootfs[n].content \in Source
               PROVE  rootfs[n].whole /\ rootfs[n].home = n
    BY AtWork DEF SessionSeesWhole
  <2>1. exclusive[n] = {} /\ rootfs[n] # None
    BY AtWork DEF Holds, Finds, IInv, LocksExclude
  <2>2. Settled(n)
    BY <2>1, WorkingOwns DEF WholeInv
  <2> QED
    BY <2>1, <2>2 DEF Settled
<1> QED
  BY <1>1, LifecycleInvariant, WholeInvariant, PTL

\* A container at rest that came from an image has that image's manifest, unless
\* a fault has hit that very container.
THEOREM LifecycleManifestNamesRootfs == Spec => []ManifestNamesRootfs
<1>1. IInv /\ WholeInv => ManifestNamesRootfs
  <2> SUFFICES ASSUME IInv, WholeInv, NEW n \in Name, exclusive[n] = {}, n \notin hurt,
                      Whole(rootfs[n]), rootfs[n].content \in Image
               PROVE  manifest[n] = rootfs[n].content
    BY DEF ManifestNamesRootfs
  <2>1. Settled(n)
    BY WorkingOwns DEF WholeInv
  <2> QED
    BY <2>1 DEF Settled, Whole, Source
<1> QED
  BY <1>1, LifecycleInvariant, WholeInvariant, PTL
=============================================================================
