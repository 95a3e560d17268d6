-------------------------- MODULE LayerCacheProofs --------------------------
(***************************************************************************)
(* Theorems about LayerCache, for any number of commands, images and       *)
(* layers.  Each names the overlap of commands it has to leave out: what   *)
(* goes wrong with the others does not depend on it.                       *)
(***************************************************************************)
EXTENDS LayerCache, TLAPS

Labels == {"idle", "lock", "load", "fetch", "verify", "verifyEvict",
           "apply", "applyEvict", "spoilt", "finish",
           "from", "inherit", "step", "hit", "hitEvict", "run",
           "record", "recording", "store",
           "unlink", "keep", "drop", "images", "index", "list", "clear"}
Pulling == {"load", "fetch", "verify", "verifyEvict", "apply", "applyEvict", "spoilt",
            "finish"}
Building == {"from", "inherit", "step", "hit", "hitEvict", "run", "record", "recording",
             "store"}
Entry == [layers : Seq(Layer), built : BOOLEAN]

\* The two halves of TypeOK.
ProcTypeOK ==
  /\ lock \in [Ref -> Proc \cup {None}]
  /\ pc \in [Proc -> Labels]
  /\ job \in [Proc -> Job \cup {None}]
  /\ \A p \in Proc : IF pc[p] = "idle" THEN job[p] = None ELSE job[p] \in Job
  /\ \A r \in Ref : lock[r] # None => pc[lock[r]] # "idle" /\ r \in job[lock[r]].refs
StoreTypeOK ==
  /\ image \in [Ref -> Entry \cup {None}]
  /\ blob \in [Layer -> Content]
  /\ index \in [Recipe -> Layer \cup {None}]
  /\ indexLock \in Proc \cup {None}
  /\ open \in [Proc -> [Layer -> Content]]
  /\ spoilt \subseteq Proc
  /\ copy \in [Proc -> [Recipe -> Layer \cup {None}]]

\* Which command is where, and with what in hand.
HasLock(p) == \E r \in Ref : lock[r] = p
Placed(p) ==
  /\ pc[p] \in Building => job[p].cmd = "build" /\ HasLock(p)
  /\ pc[p] \in Pulling =>
       job[p].cmd \in {"install", "archive"} \/ (job[p].cmd = "build" /\ HasLock(p))
  /\ pc[p] \in {"unlink", "keep"} => job[p].cmd = "remove" /\ HasLock(p)
  /\ pc[p] = "drop" =>
       \/ job[p].cmd = "remove" /\ HasLock(p)
       \/ job[p].cmd \in {"orphan", "build-cache"}
  /\ pc[p] \in {"images", "index", "list"} => job[p].cmd \in {"orphan", "build-cache"}
  /\ pc[p] = "clear" => job[p].cmd = "clear" /\ "clear" \in Overlap
  /\ pc[p] = "lock" => job[p].cmd \in {"build", "remove"}
  /\ pc[p] \in {"load", "fetch"} => job[p].ref \in Ref
  /\ pc[p] \in {"unlink", "keep"} => job[p].ref \in Ref
  /\ (pc[p] = "lock" /\ job[p].cmd = "remove") => job[p].ref \in Ref
  /\ pc[p] \in {"run", "hit", "hitEvict", "record", "recording"} => job[p].instr \in Instr
  /\ pc[p] \in {"hit", "hitEvict", "record", "recording"} => job[p].pick \in Layer
  /\ pc[p] \in {"verifyEvict", "applyEvict"} => More(p)
  /\ pc[p] \notin Pulling \cup Building => open[p] = Closed
  /\ p \in spoilt => pc[p] = "spoilt"

AllPlaced == \A p \in Proc : Placed(p)

-----------------------------------------------------------------------------
(* Types.                                                                  *)

LEMMA TypeParts == TypeOK /\ job \in [Proc -> Job \cup {None}] <=> ProcTypeOK /\ StoreTypeOK
  BY DEF TypeOK, ProcTypeOK, StoreTypeOK, Labels, Entry

\* A step of a command that keeps its locks.
LEMMA Goes ==
  ASSUME ProcTypeOK, NEW p \in Proc, pc[p] # "idle", lock' = lock,
         \A q \in Proc \ {p} : pc'[q] = pc[q] /\ job'[q] = job[q],
         pc' \in [Proc -> Labels], pc'[p] # "idle",
         job' \in [Proc -> Job \cup {None}], job'[p] \in Job, job'[p].refs = job[p].refs
  PROVE  ProcTypeOK'
<1>1. \A q \in Proc : (pc[q] = "idle" <=> pc'[q] = "idle") /\ job'[q].refs = job[q].refs
  OBVIOUS
<1>2. \A q \in Proc : IF pc'[q] = "idle" THEN job'[q] = None ELSE job'[q] \in Job
  BY DEF ProcTypeOK
<1>3. \A r \in Ref : lock[r] # None => lock[r] \in Proc
  BY DEF ProcTypeOK
<1> QED
  BY <1>1, <1>2, <1>3 DEF ProcTypeOK

LEMMA NewJobs ==
  ASSUME NEW c \in {"install", "archive", "build", "remove", "orphan", "build-cache", "clear"},
         NEW rs \in SUBSET Ref, NEW r \in Ref \cup {None}
  PROVE  /\ NewJob(c, rs, r) \in Job
         /\ \A s \in Seq(Layer) : [NewJob(c, rs, r) EXCEPT !.layers = s] \in Job
<1>1. <<>> \in Seq(Layer) /\ {} \in SUBSET Layer /\ 0 \in Nat
  OBVIOUS
<1> QED
  BY <1>1 DEF NewJob, Job

LEMMA JobUpdates ==
  ASSUME NEW j \in Job
  PROVE  /\ \A s \in Seq(Layer), n \in Nat :
              [j EXCEPT !.layers = s, !.at = n] \in Job
         /\ \A n \in Nat : [j EXCEPT !.at = n] \in Job
         /\ \A t \in SUBSET Layer : [j EXCEPT !.todo = t] \in Job
         /\ \A r \in Ref : [j EXCEPT !.ref = r] \in Job
         /\ \A r \in Ref : [j EXCEPT !.cmd = "install", !.ref = r] \in Job
         /\ \A i \in Instr : [j EXCEPT !.instr = i] \in Job
         /\ \A i \in Instr, d \in Layer : [j EXCEPT !.instr = i, !.pick = d] \in Job
         /\ \A d \in Layer : [j EXCEPT !.pick = d] \in Job
         /\ \A ls \in SUBSET Ref : [j EXCEPT !.left = ls] \in Job
  BY DEF Job

LEMMA JobTypes ==
  ASSUME NEW j \in Job
  PROVE  /\ j.layers \in Seq(Layer) /\ Len(j.layers) \in Nat /\ j.at \in Nat
         /\ j.refs \subseteq Ref /\ j.ref \in Ref \cup {None}
         /\ j.todo \subseteq Layer /\ j.left \subseteq Ref
         /\ j.instr \in Instr \cup {None} /\ j.pick \in Layer \cup {None}
         /\ \A i \in 1..Len(j.layers) : j.layers[i] \in Layer
  BY DEF Job

\* The layer whose turn it is.
LEMMA NextLayer ==
  ASSUME NEW p \in Proc, job[p] \in Job, More(p)
  PROVE  Next1(p) \in Layer /\ job[p].at + 1 \in 1..Len(job[p].layers)
<1>1. job[p].at + 1 \in 1..Len(job[p].layers)
  BY JobTypes DEF More
<1> QED
  BY <1>1, JobTypes DEF Next1

LEMMA Appended ==
  ASSUME NEW j \in Job, NEW d \in Layer
  PROVE  [j EXCEPT !.layers = Append(j.layers, d), !.at = Len(j.layers)] \in Job
<1>1. Append(j.layers, d) \in Seq(Layer) /\ Len(j.layers) \in Nat
  BY JobTypes
<1> HIDE DEF Layer
<1> QED
  BY <1>1 DEF Job

LEMMA Opened ==
  ASSUME StoreTypeOK, NEW p \in Proc, NEW d \in Layer, OpenVerified(p, d)
  PROVE  open' \in [Proc -> [Layer -> Content]]
<1>1. [open[p] EXCEPT ![d] = "good"] \in [Layer -> Content]
  BY DEF StoreTypeOK, Content
<1> QED
  BY <1>1 DEF StoreTypeOK, OpenVerified

LEMMA Recipes ==
  ASSUME NEW s \in Seq(Layer), NEW i \in Instr
  PROVE  <<Top(s), i>> \in Recipe
<1>1. CASE s = <<>>
  BY <1>1 DEF Top, Recipe
<1>2. CASE s # <<>>
  <2>1. Len(s) \in 1..Len(s)
    BY <1>2
  <2>2. Last(s) \in Layer
    BY <2>1 DEF Last
  <2> QED
    BY <1>2, <2>2 DEF Top, Recipe
<1> QED
  BY <1>1, <1>2

-----------------------------------------------------------------------------
(* Every step keeps the types and the places.                              *)

Sound == ProcTypeOK /\ StoreTypeOK /\ AllPlaced

\* A command's step is its own.
Alone(p) ==
  /\ \A q \in Proc \ {p} : pc'[q] = pc[q] /\ job'[q] = job[q] /\ open'[q] = open[q]
                            /\ copy'[q] = copy[q]
  /\ spoilt' \subseteq spoilt \cup {p}
  /\ \A q \in Proc \ {p}, r \in Ref : lock'[r] = q <=> lock[r] = q

LEMMA OthersPlaced ==
  ASSUME AllPlaced, NEW p \in Proc, Alone(p), Placed(p)'
  PROVE  AllPlaced'
<1> SUFFICES ASSUME NEW q \in Proc, q # p PROVE Placed(q)'
  BY DEF AllPlaced
<1>1. Placed(q)
  BY DEF AllPlaced
<1>2. /\ pc'[q] = pc[q] /\ job'[q] = job[q] /\ open'[q] = open[q]
      /\ q \in spoilt' => q \in spoilt
      /\ \A r \in Ref : lock'[r] = q <=> lock[r] = q
  BY DEF Alone
<1>3. HasLock(q)' <=> HasLock(q)
  BY <1>2 DEF HasLock
<1>4. More(q)' <=> More(q)
  BY <1>2 DEF More
<1> QED
  BY <1>1, <1>2, <1>3, <1>4 DEF Placed

LEMMA TakeLockSound ==
  ASSUME Sound, NEW p \in Proc, TakeLock(p)
  PROVE  Sound' /\ Alone(p)
<1> USE LayerCacheAssumption
<1>0. Placed(p) /\ ProcTypeOK /\ StoreTypeOK /\ (pc[p] # "idle" => job[p] \in Job)
  BY DEF Sound, AllPlaced, ProcTypeOK
<1>1. ProcTypeOK'
  <2>1. PICK r \in job[p].refs :
          /\ lock[r] = None
          /\ lock' = [lock EXCEPT ![r] = p]
    BY DEF TakeLock
  <2>2. pc[p] = "lock" /\ job[p] \in Job /\ r \in Ref /\ job' = job
    BY <1>0, JobTypes DEF TakeLock
  <2>3. pc' \in [Proc -> Labels] /\ pc'[p] # "idle" /\ \A q \in Proc \ {p} : pc'[q] = pc[q]
    BY <1>0 DEF TakeLock, Goto, ProcTypeOK, Labels
  <2>4. \A q \in Proc : pc'[q] = "idle" <=> pc[q] = "idle"
    BY <2>2, <2>3
  <2> QED
    BY <1>0, <2>1, <2>2, <2>3, <2>4 DEF ProcTypeOK
<1>2. StoreTypeOK'
  BY <1>0, JobTypes, NextLayer, Recipes
  DEF TakeLock, Goto, cache, StoreTypeOK, Entry, Content
<1>3. Alone(p)
  BY <1>0 DEF TakeLock, Alone, Goto, cache, ProcTypeOK, StoreTypeOK
<1>4. Placed(p)'
  BY <1>0, JobTypes, Recipes
  DEF TakeLock, Placed, Goto, cache, ProcTypeOK, StoreTypeOK, Pulling, Building, HasLock,
     More, Job
<1> QED
  BY <1>1, <1>2, <1>3, <1>4, OthersPlaced DEF Sound

LEMMA EndSound ==
  ASSUME Sound, NEW p \in Proc, End(p)
  PROVE  Sound' /\ Alone(p)
<1> USE LayerCacheAssumption
<1>0. Placed(p) /\ ProcTypeOK /\ StoreTypeOK /\ (pc[p] # "idle" => job[p] \in Job)
  BY DEF Sound, AllPlaced, ProcTypeOK
<1>1. ProcTypeOK'
  <2>1. /\ pc' = [pc EXCEPT ![p] = "idle"] /\ job' = [job EXCEPT ![p] = None]
        /\ lock' = [r \in Ref |-> IF lock[r] = p THEN None ELSE lock[r]]
    BY DEF End, Stop, Goto
  <2>2. /\ pc' \in [Proc -> Labels] /\ job' \in [Proc -> Job \cup {None}]
        /\ lock' \in [Ref -> Proc \cup {None}]
    BY <1>0, <2>1 DEF ProcTypeOK, Labels
  <2>3. \A q \in Proc \ {p} : pc'[q] = pc[q] /\ job'[q] = job[q]
    BY <1>0, <2>1 DEF ProcTypeOK
  <2>4. pc'[p] = "idle" /\ job'[p] = None
    BY <1>0, <2>1 DEF ProcTypeOK
  <2>5. \A r \in Ref : lock'[r] # None => lock'[r] = lock[r] /\ lock[r] \in Proc \ {p}
    BY <1>0, <2>1 DEF ProcTypeOK
  <2> QED
    BY <1>0, <2>2, <2>3, <2>4, <2>5 DEF ProcTypeOK
<1>2. StoreTypeOK'
  BY <1>0, JobTypes, NextLayer, Recipes
  DEF End, Goto, cache, StoreTypeOK, Entry, Content, NoIndex, Closed, Stop
<1>3. Alone(p)
  BY <1>0 DEF End, Alone, Goto, cache, ProcTypeOK, StoreTypeOK, Stop
<1>4. Placed(p)'
  BY <1>0, JobTypes, Recipes
  DEF End, Placed, Goto, cache, ProcTypeOK, StoreTypeOK, Stop, Pulling, Building, HasLock,
     More, Job
<1> QED
  BY <1>1, <1>2, <1>3, <1>4, OthersPlaced DEF Sound

LEMMA LoadSound ==
  ASSUME Sound, NEW p \in Proc, Load(p)
  PROVE  Sound' /\ Alone(p)
<1> USE LayerCacheAssumption
<1>0. Placed(p) /\ ProcTypeOK /\ StoreTypeOK /\ (pc[p] # "idle" => job[p] \in Job)
  BY DEF Sound, AllPlaced, ProcTypeOK
<1>3. Alone(p)
  BY <1>0 DEF Load, Alone, Goto, Rest, cache, ProcTypeOK, StoreTypeOK
<1>1. ProcTypeOK'
  <2>0. pc[p] # "idle" /\ job[p] \in Job
    BY <1>0 DEF Load
  <2>1. job'[p] \in Job /\ job'[p].refs = job[p].refs
    <3> DEFINE s == image[job[p].ref].layers
    <3>0. image[job[p].ref] # None => s \in Seq(Layer)
      BY <1>0 DEF Load, Placed, StoreTypeOK, Entry
    <3>1. job'[p] = job[p] \/ (job'[p] = [job[p] EXCEPT !.layers = s, !.at = 0] /\ s \in Seq(Layer))
      BY <1>0, <3>0 DEF Load, Goto, ProcTypeOK, StoreTypeOK, Rest, cache
    <3> HIDE DEF s
    <3>2. s \in Seq(Layer) => [job[p] EXCEPT !.layers = s, !.at = 0] \in Job
      BY <2>0 DEF Job
    <3> QED
      BY <2>0, <3>1, <3>2 DEF Job
  <2>2. pc' \in [Proc -> Labels] /\ pc[p] # "idle" /\ pc'[p] # "idle" /\ lock' = lock
    BY <1>0 DEF Load, Goto, Labels, ProcTypeOK, Rest, cache
  <2>3. job' \in [Proc -> Job \cup {None}]
    BY <1>0, <2>1 DEF Load, Goto, ProcTypeOK, Rest, cache
  <2> QED
    BY <1>0, <1>3, <2>1, <2>2, <2>3, Goes DEF Alone
<1>2. StoreTypeOK'
  BY <1>0, JobTypes, NextLayer, Recipes
  DEF Load, Goto, Rest, cache, StoreTypeOK, Entry, Content
<1>4. Placed(p)'
  BY <1>0, JobTypes, Recipes
  DEF Load, Placed, Goto, Rest, cache, ProcTypeOK, StoreTypeOK, Pulling, Building, HasLock,
     More, Job
<1> QED
  BY <1>1, <1>2, <1>3, <1>4, OthersPlaced DEF Sound

LEMMA FetchSound ==
  ASSUME Sound, NEW p \in Proc, Fetch(p)
  PROVE  Sound' /\ Alone(p)
<1> USE LayerCacheAssumption
<1>0. Placed(p) /\ ProcTypeOK /\ StoreTypeOK /\ (pc[p] # "idle" => job[p] \in Job)
  BY DEF Sound, AllPlaced, ProcTypeOK
<1>3. Alone(p)
  BY <1>0 DEF Fetch, Alone, Goto, Rest, ProcTypeOK, StoreTypeOK
<1>1. ProcTypeOK'
  <2>0. pc[p] # "idle" /\ job[p] \in Job
    BY <1>0 DEF Fetch
  <2>1. job'[p] \in Job /\ job'[p].refs = job[p].refs
    <3>1. PICK s \in Served \cap Seq(Base) : job' = [job EXCEPT ![p] = [job[p] EXCEPT !.layers = s, !.at = 0]]
      BY <1>0 DEF Fetch, Goto, ProcTypeOK, StoreTypeOK, Rest
    <3>2. job'[p] = [job[p] EXCEPT !.layers = s, !.at = 0]
      BY <1>0, <3>1 DEF ProcTypeOK
    <3>3. [job[p] EXCEPT !.layers = s, !.at = 0] \in Job
      BY <2>0, JobTypes DEF Job, Fetch, Layer
    <3> QED
      BY <2>0, <3>2, <3>3 DEF Job
  <2>2. pc' \in [Proc -> Labels] /\ pc[p] # "idle" /\ pc'[p] # "idle" /\ lock' = lock
    BY <1>0 DEF Fetch, Goto, Labels, ProcTypeOK, Rest
  <2>3. job' \in [Proc -> Job \cup {None}]
    BY <1>0, <2>1 DEF Fetch, Goto, ProcTypeOK, Rest
  <2> QED
    BY <1>0, <1>3, <2>1, <2>2, <2>3, Goes DEF Alone
<1>2. StoreTypeOK'
  <2>1. PICK s \in Served \cap Seq(Base) :
          image' = [image EXCEPT ![job[p].ref] = [layers |-> s, built |-> FALSE]]
    BY DEF Fetch
  <2>2. [layers |-> s, built |-> FALSE] \in Entry
    BY DEF Entry
  <2> QED
    BY <1>0, <2>1, <2>2 DEF Fetch, StoreTypeOK, Rest
<1>4. Placed(p)'
  BY <1>0, JobTypes, Recipes
  DEF Fetch, Placed, Goto, Rest, ProcTypeOK, StoreTypeOK, Pulling, Building, HasLock, More,
     Job
<1> QED
  BY <1>1, <1>2, <1>3, <1>4, OthersPlaced DEF Sound

LEMMA VerifySound ==
  ASSUME Sound, NEW p \in Proc, Verify(p)
  PROVE  Sound' /\ Alone(p)
<1> USE LayerCacheAssumption
<1>0. Placed(p) /\ ProcTypeOK /\ StoreTypeOK /\ (pc[p] # "idle" => job[p] \in Job)
  BY DEF Sound, AllPlaced, ProcTypeOK
<1>3. Alone(p)
  BY <1>0
  DEF Verify, Alone, Goto, Advance, Rest, cache, ProcTypeOK, StoreTypeOK, OpenVerified
<1>1. ProcTypeOK'
  <2>0. pc[p] # "idle" /\ job[p] \in Job
    BY <1>0 DEF Verify
  <2>1. job'[p] \in Job /\ job'[p].refs = job[p].refs
    <3>1. job'[p] = job[p] \/ job'[p] = [job[p] EXCEPT !.at = job[p].at + 1]
      BY <1>0 DEF Verify, Goto, Advance, ProcTypeOK, StoreTypeOK, Rest, cache
    <3>2. [job[p] EXCEPT !.at = job[p].at + 1] \in Job
      BY <2>0, JobTypes DEF Job, Verify, Layer
    <3> QED
      BY <2>0, <3>1, <3>2 DEF Job
  <2>2. pc' \in [Proc -> Labels] /\ pc[p] # "idle" /\ pc'[p] # "idle" /\ lock' = lock
    BY <1>0 DEF Verify, Goto, Labels, ProcTypeOK, Rest, cache
  <2>3. job' \in [Proc -> Job \cup {None}]
    BY <1>0, <2>1 DEF Verify, Goto, Advance, ProcTypeOK, Rest, cache
  <2> QED
    BY <1>0, <1>3, <2>1, <2>2, <2>3, Goes DEF Alone
<1>2. StoreTypeOK'
  <2>1. Next1(p) \in Layer
    BY <1>0, NextLayer DEF Verify
  <2>2. open' \in [Proc -> [Layer -> Content]]
    BY <1>0, <2>1, Opened DEF Verify, StoreTypeOK
  <2> QED
    BY <1>0, <2>2 DEF Verify, StoreTypeOK, Rest, cache
<1>4. Placed(p)'
  BY <1>0, JobTypes, Recipes
  DEF Verify, Placed, Goto, Advance, Rest, cache, ProcTypeOK, StoreTypeOK, OpenVerified,
     Pulling, Building, HasLock, More, Job
<1> QED
  BY <1>1, <1>2, <1>3, <1>4, OthersPlaced DEF Sound

LEMMA VerifiedSound ==
  ASSUME Sound, NEW p \in Proc, Verified(p)
  PROVE  Sound' /\ Alone(p)
<1> USE LayerCacheAssumption
<1>0. Placed(p) /\ ProcTypeOK /\ StoreTypeOK /\ (pc[p] # "idle" => job[p] \in Job)
  BY DEF Sound, AllPlaced, ProcTypeOK
<1>3. Alone(p)
  BY <1>0 DEF Verified, Alone, Goto, Rest, cache, ProcTypeOK, StoreTypeOK
<1>1. ProcTypeOK'
  <2>0. pc[p] # "idle" /\ job[p] \in Job
    BY <1>0 DEF Verified
  <2>1. job'[p] \in Job /\ job'[p].refs = job[p].refs
    <3>1. job'[p] = [job[p] EXCEPT !.at = 0]
      BY <1>0 DEF Verified, Goto, ProcTypeOK, StoreTypeOK, Rest, cache
    <3>2. [job[p] EXCEPT !.at = 0] \in Job
      BY <2>0, JobTypes DEF Job, Verified, Layer
    <3> QED
      BY <2>0, <3>1, <3>2 DEF Job
  <2>2. pc' \in [Proc -> Labels] /\ pc[p] # "idle" /\ pc'[p] # "idle" /\ lock' = lock
    BY <1>0 DEF Verified, Goto, Labels, ProcTypeOK, Rest, cache
  <2>3. job' \in [Proc -> Job \cup {None}]
    BY <1>0, <2>1 DEF Verified, Goto, ProcTypeOK, Rest, cache
  <2> QED
    BY <1>0, <1>3, <2>1, <2>2, <2>3, Goes DEF Alone
<1>2. StoreTypeOK'
  BY <1>0, JobTypes, NextLayer, Recipes
  DEF Verified, Goto, Rest, cache, StoreTypeOK, Entry, Content
<1>4. Placed(p)'
  BY <1>0, JobTypes, Recipes
  DEF Verified, Placed, Goto, Rest, cache, ProcTypeOK, StoreTypeOK, Pulling, Building,
     HasLock, More, Job
<1> QED
  BY <1>1, <1>2, <1>3, <1>4, OthersPlaced DEF Sound

LEMMA EvictSound ==
  ASSUME Sound, NEW p \in Proc, Evict(p)
  PROVE  Sound' /\ Alone(p)
<1> USE LayerCacheAssumption
<1>0. Placed(p) /\ ProcTypeOK /\ StoreTypeOK /\ (pc[p] # "idle" => job[p] \in Job)
  BY DEF Sound, AllPlaced, ProcTypeOK
<1>3. Alone(p)
  BY <1>0 DEF Evict, Alone, Goto, Rest, ProcTypeOK, StoreTypeOK
<1>1. ProcTypeOK'
  <2>1. pc[p] # "idle" /\ job' = job /\ lock' = lock
    BY <1>0 DEF Evict, Rest
  <2>2. pc' \in [Proc -> Labels] /\ pc'[p] # "idle"
    BY <1>0 DEF Evict, Goto, Labels, ProcTypeOK, Rest
  <2> QED
    BY <1>0, <1>3, <2>1, <2>2, Goes DEF Alone, ProcTypeOK
<1>2. StoreTypeOK'
  BY <1>0, JobTypes, NextLayer, Recipes DEF Evict, Goto, Rest, StoreTypeOK, Entry, Content
<1>4. Placed(p)'
  BY <1>0, JobTypes, Recipes
  DEF Evict, Placed, Goto, Rest, ProcTypeOK, StoreTypeOK, Pulling, Building, HasLock, More,
     Job
<1> QED
  BY <1>1, <1>2, <1>3, <1>4, OthersPlaced DEF Sound

LEMMA DownloadSound ==
  ASSUME Sound, NEW p \in Proc, Download(p)
  PROVE  Sound' /\ Alone(p)
<1> USE LayerCacheAssumption
<1>0. Placed(p) /\ ProcTypeOK /\ StoreTypeOK /\ (pc[p] # "idle" => job[p] \in Job)
  BY DEF Sound, AllPlaced, ProcTypeOK
<1>3. Alone(p)
  BY <1>0 DEF Download, Alone, Goto, Rest, ProcTypeOK, StoreTypeOK, OpenVerified
<1>1. ProcTypeOK'
  <2>1. pc[p] # "idle" /\ job' = job /\ lock' = lock
    BY <1>0 DEF Download, Rest
  <2>2. pc' \in [Proc -> Labels] /\ pc'[p] # "idle"
    BY <1>0 DEF Download, Goto, Labels, ProcTypeOK, Rest
  <2> QED
    BY <1>0, <1>3, <2>1, <2>2, Goes DEF Alone, ProcTypeOK
<1>2. StoreTypeOK'
  <2>1. Next1(p) \in Layer
    BY <1>0, NextLayer DEF Download
  <2>2. [open[p] EXCEPT ![Next1(p)] = "good"] \in [Layer -> Content]
    BY <1>0, <2>1 DEF StoreTypeOK, Content
  <2>3. open' \in [Proc -> [Layer -> Content]]
    BY <1>0, <2>1, <2>2 DEF Download, StoreTypeOK, OpenVerified
  <2>4. blob' \in [Layer -> Content]
    BY <1>0 DEF Download, StoreTypeOK, Content
  <2> QED
    BY <1>0, <2>3, <2>4 DEF Download, StoreTypeOK, Rest
<1>4. Placed(p)'
  BY <1>0, JobTypes, Recipes
  DEF Download, Placed, Goto, Rest, ProcTypeOK, StoreTypeOK, OpenVerified, Pulling,
     Building, HasLock, More, Job
<1> QED
  BY <1>1, <1>2, <1>3, <1>4, OthersPlaced DEF Sound

LEMMA ApplySound ==
  ASSUME Sound, NEW p \in Proc, Apply(p)
  PROVE  Sound' /\ Alone(p)
<1> USE LayerCacheAssumption
<1>0. Placed(p) /\ ProcTypeOK /\ StoreTypeOK /\ (pc[p] # "idle" => job[p] \in Job)
  BY DEF Sound, AllPlaced, ProcTypeOK
<1>3. Alone(p)
  BY <1>0 DEF Apply, Alone, Goto, Advance, cache, ProcTypeOK, StoreTypeOK
<1>1. ProcTypeOK'
  <2>0. pc[p] # "idle" /\ job[p] \in Job
    BY <1>0 DEF Apply
  <2>1. job'[p] \in Job /\ job'[p].refs = job[p].refs
    <3>1. job'[p] = job[p] \/ job'[p] = [job[p] EXCEPT !.at = job[p].at + 1]
      BY <1>0 DEF Apply, Goto, Advance, ProcTypeOK, StoreTypeOK, cache
    <3>2. [job[p] EXCEPT !.at = job[p].at + 1] \in Job
      BY <2>0, JobTypes DEF Job, Apply, Layer
    <3> QED
      BY <2>0, <3>1, <3>2 DEF Job
  <2>2. pc' \in [Proc -> Labels] /\ pc[p] # "idle" /\ pc'[p] # "idle" /\ lock' = lock
    BY <1>0 DEF Apply, Goto, Labels, ProcTypeOK, cache
  <2>3. job' \in [Proc -> Job \cup {None}]
    BY <1>0, <2>1 DEF Apply, Goto, Advance, ProcTypeOK, cache
  <2> QED
    BY <1>0, <1>3, <2>1, <2>2, <2>3, Goes DEF Alone
<1>2. StoreTypeOK'
  BY <1>0, JobTypes, NextLayer, Recipes DEF Apply, Goto, cache, StoreTypeOK, Entry, Content
<1>4. Placed(p)'
  BY <1>0, JobTypes, Recipes
  DEF Apply, Placed, Goto, Advance, cache, ProcTypeOK, StoreTypeOK, Pulling, Building,
     HasLock, More, Job
<1> QED
  BY <1>1, <1>2, <1>3, <1>4, OthersPlaced DEF Sound

LEMMA AppliedSound ==
  ASSUME Sound, NEW p \in Proc, Applied(p)
  PROVE  Sound' /\ Alone(p)
<1> USE LayerCacheAssumption
<1>0. Placed(p) /\ ProcTypeOK /\ StoreTypeOK /\ (pc[p] # "idle" => job[p] \in Job)
  BY DEF Sound, AllPlaced, ProcTypeOK
<1>3. Alone(p)
  BY <1>0 DEF Applied, Alone, Goto, Rest, cache, ProcTypeOK, StoreTypeOK
<1>1. ProcTypeOK'
  <2>1. pc[p] # "idle" /\ job' = job /\ lock' = lock
    BY <1>0 DEF Applied, Rest, cache
  <2>2. pc' \in [Proc -> Labels] /\ pc'[p] # "idle"
    BY <1>0 DEF Applied, Goto, Labels, ProcTypeOK, Rest, cache
  <2> QED
    BY <1>0, <1>3, <2>1, <2>2, Goes DEF Alone, ProcTypeOK
<1>2. StoreTypeOK'
  BY <1>0, JobTypes, NextLayer, Recipes
  DEF Applied, Goto, Rest, cache, StoreTypeOK, Entry, Content, Closed
<1>4. Placed(p)'
  BY <1>0, JobTypes, Recipes
  DEF Applied, Placed, Goto, Rest, cache, ProcTypeOK, StoreTypeOK, Pulling, Building,
     HasLock, More, Job
<1> QED
  BY <1>1, <1>2, <1>3, <1>4, OthersPlaced DEF Sound

LEMMA FromSound ==
  ASSUME Sound, NEW p \in Proc, From(p)
  PROVE  Sound' /\ Alone(p)
<1> USE LayerCacheAssumption
<1>0. Placed(p) /\ ProcTypeOK /\ StoreTypeOK /\ (pc[p] # "idle" => job[p] \in Job)
  BY DEF Sound, AllPlaced, ProcTypeOK
<1>3. Alone(p)
  BY <1>0 DEF From, Alone, Goto, Rest, cache, ProcTypeOK, StoreTypeOK
<1>1. ProcTypeOK'
  <2>0. pc[p] # "idle" /\ job[p] \in Job
    BY <1>0 DEF From
  <2>1. job'[p] \in Job /\ job'[p].refs = job[p].refs
    <3>1. <<>> \in Seq(Layer)
      OBVIOUS
    <3> HIDE DEF Layer
    <3>2. CASE job' = [job EXCEPT ![p].layers = <<>>, ![p].at = 0]
      <4>1. job'[p] = [job[p] EXCEPT !.layers = <<>>, !.at = 0]
        BY <1>0, <3>2 DEF ProcTypeOK
      <4> DEFINE e == <<>>
      <4>2. e \in Seq(Layer)
        BY <3>1
      <4> HIDE DEF e
      <4>3. [job[p] EXCEPT !.layers = e, !.at = 0] \in Job
        BY <2>0, <4>2 DEF Job
      <4> QED
        BY <2>0, <4>1, <4>3 DEF Job, e
    <3>3. CASE \E r \in Ref : job' = [job EXCEPT ![p].ref = r]
      <4>1. PICK r \in Ref : job'[p] = [job[p] EXCEPT !.ref = r]
        BY <1>0, <3>3 DEF ProcTypeOK
      <4> QED
        BY <2>0, <4>1 DEF Job
    <3>4. CASE job' = [job EXCEPT ![p].at = 0]
      <4>1. job'[p] = [job[p] EXCEPT !.at = 0]
        BY <1>0, <3>4 DEF ProcTypeOK
      <4> QED
        BY <2>0, <4>1 DEF Job
    <3> QED
      BY <3>2, <3>3, <3>4 DEF From
  <2>2. pc' \in [Proc -> Labels] /\ pc[p] # "idle" /\ pc'[p] # "idle" /\ lock' = lock
    BY <1>0 DEF From, Goto, Labels, ProcTypeOK, Rest, cache
  <2>3. job' \in [Proc -> Job \cup {None}]
    BY <1>0, <2>1 DEF From, Goto, ProcTypeOK, Rest, cache
  <2> QED
    BY <1>0, <1>3, <2>1, <2>2, <2>3, Goes DEF Alone
<1>2. StoreTypeOK'
  BY <1>0, JobTypes, NextLayer, Recipes
  DEF From, Goto, Rest, cache, StoreTypeOK, Entry, Content
<1>4. Placed(p)'
  BY <1>0, JobTypes, Recipes
  DEF From, Placed, Goto, Rest, cache, ProcTypeOK, StoreTypeOK, Pulling, Building, HasLock,
     More, Job
<1> QED
  BY <1>1, <1>2, <1>3, <1>4, OthersPlaced DEF Sound

LEMMA InheritSound ==
  ASSUME Sound, NEW p \in Proc, Inherit(p)
  PROVE  Sound' /\ Alone(p)
<1> USE LayerCacheAssumption
<1>0. Placed(p) /\ ProcTypeOK /\ StoreTypeOK /\ (pc[p] # "idle" => job[p] \in Job)
  BY DEF Sound, AllPlaced, ProcTypeOK
<1>3. Alone(p)
  BY <1>0 DEF Inherit, Alone, Goto, Advance, Rest, cache, ProcTypeOK, StoreTypeOK
<1>1. ProcTypeOK'
  <2>0. pc[p] # "idle" /\ job[p] \in Job
    BY <1>0 DEF Inherit
  <2>1. job'[p] \in Job /\ job'[p].refs = job[p].refs
    <3>1. job'[p] = job[p] \/ job'[p] = [job[p] EXCEPT !.at = job[p].at + 1]
      BY <1>0 DEF Inherit, Goto, Advance, ProcTypeOK, StoreTypeOK, Rest, cache
    <3>2. [job[p] EXCEPT !.at = job[p].at + 1] \in Job
      BY <2>0, JobTypes DEF Job, Inherit, Layer
    <3> QED
      BY <2>0, <3>1, <3>2 DEF Job
  <2>2. pc' \in [Proc -> Labels] /\ pc[p] # "idle" /\ pc'[p] # "idle" /\ lock' = lock
    BY <1>0 DEF Inherit, Goto, Labels, ProcTypeOK, Rest, cache
  <2>3. job' \in [Proc -> Job \cup {None}]
    BY <1>0, <2>1 DEF Inherit, Goto, Advance, ProcTypeOK, Rest, cache
  <2> QED
    BY <1>0, <1>3, <2>1, <2>2, <2>3, Goes DEF Alone
<1>2. StoreTypeOK'
  BY <1>0, JobTypes, NextLayer, Recipes
  DEF Inherit, Goto, Rest, cache, StoreTypeOK, Entry, Content
<1>4. Placed(p)'
  BY <1>0, JobTypes, Recipes
  DEF Inherit, Placed, Goto, Advance, Rest, cache, ProcTypeOK, StoreTypeOK, Pulling,
     Building, HasLock, More, Job
<1> QED
  BY <1>1, <1>2, <1>3, <1>4, OthersPlaced DEF Sound

LEMMA NextStageSound ==
  ASSUME Sound, NEW p \in Proc, NextStage(p)
  PROVE  Sound' /\ Alone(p)
<1> USE LayerCacheAssumption
<1>0. Placed(p) /\ ProcTypeOK /\ StoreTypeOK /\ (pc[p] # "idle" => job[p] \in Job)
  BY DEF Sound, AllPlaced, ProcTypeOK
<1>3. Alone(p)
  BY <1>0 DEF NextStage, Alone, Goto, Rest, cache, ProcTypeOK, StoreTypeOK
<1>1. ProcTypeOK'
  <2>1. pc[p] # "idle" /\ job' = job /\ lock' = lock
    BY <1>0 DEF NextStage, Rest, cache
  <2>2. pc' \in [Proc -> Labels] /\ pc'[p] # "idle"
    BY <1>0 DEF NextStage, Goto, Labels, ProcTypeOK, Rest, cache
  <2> QED
    BY <1>0, <1>3, <2>1, <2>2, Goes DEF Alone, ProcTypeOK
<1>2. StoreTypeOK'
  BY <1>0, JobTypes, NextLayer, Recipes
  DEF NextStage, Goto, Rest, cache, StoreTypeOK, Entry, Content
<1>4. Placed(p)'
  BY <1>0, JobTypes, Recipes
  DEF NextStage, Placed, Goto, Rest, cache, ProcTypeOK, StoreTypeOK, Pulling, Building,
     HasLock, More, Job
<1> QED
  BY <1>1, <1>2, <1>3, <1>4, OthersPlaced DEF Sound

LEMMA LookupSound ==
  ASSUME Sound, NEW p \in Proc, NEW i \in Instr, Lookup(p, i)
  PROVE  Sound' /\ Alone(p)
<1> USE LayerCacheAssumption
<1>0. Placed(p) /\ ProcTypeOK /\ StoreTypeOK /\ (pc[p] # "idle" => job[p] \in Job)
  BY DEF Sound, AllPlaced, ProcTypeOK
<1>3. Alone(p)
  BY <1>0 DEF Lookup, Alone, Goto, Rest, cache, ProcTypeOK, StoreTypeOK
<1>1. ProcTypeOK'
  <2>0. pc[p] # "idle" /\ job[p] \in Job
    BY <1>0 DEF Lookup
  <2>1. job'[p] \in Job /\ job'[p].refs = job[p].refs
    <3> DEFINE d == index[<<Top(job[p].layers), i>>]
    <3>1. d \in Layer \cup {None}
      BY <1>0, <2>0, JobTypes, Recipes DEF StoreTypeOK
    <3>2. \/ job' = [job EXCEPT ![p].instr = i]
          \/ d \in Layer /\ job' = [job EXCEPT ![p].instr = i, ![p].pick = d]
      BY <3>1 DEF Lookup
    <3> HIDE DEF d
    <3>3. \/ job'[p] = [job[p] EXCEPT !.instr = i]
          \/ d \in Layer /\ job'[p] = [job[p] EXCEPT !.instr = i, !.pick = d]
      BY <1>0, <3>2 DEF ProcTypeOK
    <3> QED
      BY <2>0, <3>3 DEF Job
  <2>2. pc' \in [Proc -> Labels] /\ pc[p] # "idle" /\ pc'[p] # "idle" /\ lock' = lock
    BY <1>0 DEF Lookup, Goto, Labels, ProcTypeOK, Rest, cache
  <2>3. job' \in [Proc -> Job \cup {None}]
    BY <1>0, <2>1 DEF Lookup, Goto, ProcTypeOK, Rest, cache
  <2> QED
    BY <1>0, <1>3, <2>1, <2>2, <2>3, Goes DEF Alone
<1>2. StoreTypeOK'
  BY <1>0, JobTypes, NextLayer, Recipes
  DEF Lookup, Goto, Rest, cache, StoreTypeOK, Entry, Content
<1>4. Placed(p)'
  BY <1>0, JobTypes, Recipes
  DEF Lookup, Placed, Goto, Rest, cache, ProcTypeOK, StoreTypeOK, Pulling, Building,
     HasLock, More, Job
<1> QED
  BY <1>1, <1>2, <1>3, <1>4, OthersPlaced DEF Sound

LEMMA HitSound ==
  ASSUME Sound, NEW p \in Proc, Hit(p)
  PROVE  Sound' /\ Alone(p)
<1> USE LayerCacheAssumption
<1>0. Placed(p) /\ ProcTypeOK /\ StoreTypeOK /\ (pc[p] # "idle" => job[p] \in Job)
  BY DEF Sound, AllPlaced, ProcTypeOK
<1>3. Alone(p)
  BY <1>0 DEF Hit, Alone, Goto, Rest, cache, ProcTypeOK, StoreTypeOK, OpenVerified
<1>1. ProcTypeOK'
  <2>0. pc[p] # "idle" /\ job[p] \in Job
    BY <1>0 DEF Hit
  <2>1. job'[p] \in Job /\ job'[p].refs = job[p].refs
    <3>1. job[p].pick \in Layer
      BY <1>0 DEF Hit, Placed
    <3>2. job' = job \/ job' = [job EXCEPT ![p] = Append1(p, job[p].pick)]
      BY DEF Hit
    <3>3. job'[p] = job[p] \/ job'[p] = Append1(p, job[p].pick)
      BY <1>0, <3>2 DEF ProcTypeOK
    <3>4. Append1(p, job[p].pick) \in Job /\ Append1(p, job[p].pick).refs = job[p].refs
      BY <2>0, <3>1, Appended DEF Append1, Job
    <3> QED
      BY <2>0, <3>3, <3>4
  <2>2. pc' \in [Proc -> Labels] /\ pc[p] # "idle" /\ pc'[p] # "idle" /\ lock' = lock
    BY <1>0 DEF Hit, Goto, Labels, ProcTypeOK, Rest, cache
  <2>3. job' \in [Proc -> Job \cup {None}]
    BY <1>0, <2>1 DEF Hit, Goto, ProcTypeOK, Rest, cache
  <2> QED
    BY <1>0, <1>3, <2>1, <2>2, <2>3, Goes DEF Alone
<1>2. StoreTypeOK'
  <2>1. job[p].pick \in Layer
    BY <1>0 DEF Hit, Placed
  <2>2. open' \in [Proc -> [Layer -> Content]]
    BY <1>0, <2>1, Opened DEF Hit, StoreTypeOK
  <2> QED
    BY <1>0, <2>2 DEF Hit, StoreTypeOK, Rest, cache
<1>4. Placed(p)'
  <2>1. /\ job[p].pick \in Layer /\ job[p].instr \in Instr /\ job[p] \in Job
        /\ pc[p] = "hit" /\ p \notin spoilt /\ lock' = lock /\ spoilt' = spoilt
        /\ job[p].cmd = "build" /\ HasLock(p)
    BY <1>0 DEF Hit, Placed, Building, Rest
  <2>2. CASE pc' = [pc EXCEPT ![p] = "apply"] /\ job' = [job EXCEPT ![p] = Append1(p, job[p].pick)]
    <3>1. pc'[p] = "apply" /\ job'[p] = Append1(p, job[p].pick)
      BY <1>0, <2>2 DEF ProcTypeOK
    <3>2. job'[p].cmd = "build" /\ HasLock(p)'
      BY <2>1, <3>1 DEF Append1, HasLock, Job
    <3> QED
      BY <2>1, <3>1, <3>2 DEF Placed, Pulling, Building
  <2>3. CASE job' = job /\ open' = open /\ \E l \in {"run", "hitEvict"} : pc' = [pc EXCEPT ![p] = l]
    <3>1. pc'[p] \in {"run", "hitEvict"} /\ HasLock(p)'
      BY <1>0, <2>1, <2>3 DEF ProcTypeOK, HasLock
    <3> QED
      BY <2>1, <2>3, <3>1 DEF Placed, Pulling, Building
  <2> QED
    BY <2>2, <2>3 DEF Hit, Goto
<1> QED
  BY <1>1, <1>2, <1>3, <1>4, OthersPlaced DEF Sound

LEMMA RunSound ==
  ASSUME Sound, NEW p \in Proc, Run(p)
  PROVE  Sound' /\ Alone(p)
<1> USE LayerCacheAssumption
<1>0. Placed(p) /\ ProcTypeOK /\ StoreTypeOK /\ (pc[p] # "idle" => job[p] \in Job)
  BY DEF Sound, AllPlaced, ProcTypeOK
<1>3. Alone(p)
  BY <1>0 DEF Run, Alone, Goto, Rest, ProcTypeOK, StoreTypeOK, Publish
<1>1. ProcTypeOK'
  <2>0. pc[p] # "idle" /\ job[p] \in Job
    BY <1>0 DEF Run
  <2>1. job'[p] \in Job /\ job'[p].refs = job[p].refs
    <3>1. PICK d \in Made : job' = [job EXCEPT ![p] = [job[p] EXCEPT !.pick = d]]
      BY <1>0 DEF Run, Goto, ProcTypeOK, StoreTypeOK
    <3>2. job'[p] = [job[p] EXCEPT !.pick = d]
      BY <1>0, <3>1 DEF ProcTypeOK
    <3>3. [job[p] EXCEPT !.pick = d] \in Job
      BY <2>0, JobTypes DEF Job, Run, Layer
    <3> QED
      BY <2>0, <3>2, <3>3 DEF Job
  <2>2. pc' \in [Proc -> Labels] /\ pc[p] # "idle" /\ pc'[p] # "idle" /\ lock' = lock
    BY <1>0 DEF Run, Publish, Goto, Labels, ProcTypeOK, Rest
  <2>3. job' \in [Proc -> Job \cup {None}]
    BY <1>0, <2>1 DEF Run, Goto, ProcTypeOK
  <2> QED
    BY <1>0, <1>3, <2>1, <2>2, <2>3, Goes DEF Alone
<1>2. StoreTypeOK'
  <2>1. PICK d \in Made : Publish(p, d)
    BY DEF Run
  <2> QED
    BY <1>0, <2>1 DEF Publish, StoreTypeOK, Rest, Content
<1>4. Placed(p)'
  <2>1. /\ job[p].instr \in Instr /\ job[p] \in Job
        /\ pc[p] = "run" /\ p \notin spoilt /\ lock' = lock /\ spoilt' = spoilt
        /\ job[p].cmd = "build" /\ HasLock(p) /\ open' = open
    BY <1>0 DEF Run, Placed, Building, Publish, Rest
  <2>2. PICK d \in Made : job' = [job EXCEPT ![p].pick = d]
    BY DEF Run
  <2>3. pc'[p] = "record" /\ job'[p] = [job[p] EXCEPT !.pick = d] /\ HasLock(p)'
    BY <1>0, <2>1, <2>2 DEF Run, Goto, ProcTypeOK, HasLock
  <2>4. job'[p].pick \in Layer /\ job'[p].cmd = "build" /\ job'[p].instr \in Instr
    BY <2>1, <2>3 DEF Job, Layer
  <2> QED
    BY <2>1, <2>3, <2>4 DEF Placed, Pulling, Building
<1> QED
  BY <1>1, <1>2, <1>3, <1>4, OthersPlaced DEF Sound

LEMMA CopySound ==
  ASSUME Sound, NEW p \in Proc, Copy(p)
  PROVE  Sound' /\ Alone(p)
<1> USE LayerCacheAssumption
<1>0. Placed(p) /\ ProcTypeOK /\ StoreTypeOK /\ (pc[p] # "idle" => job[p] \in Job)
  BY DEF Sound, AllPlaced, ProcTypeOK
<1>3. Alone(p)
  BY <1>0 DEF Copy, Alone, Rest, ProcTypeOK, StoreTypeOK, Publish
<1>1. ProcTypeOK'
  <2>0. pc[p] # "idle" /\ job[p] \in Job
    BY <1>0 DEF Copy
  <2>1. job'[p] \in Job /\ job'[p].refs = job[p].refs
    <3>1. PICK d \in Made : job' = [job EXCEPT ![p] = [job[p] EXCEPT !.layers = Append(job[p].layers, d), !.at = Len(job[p].layers)]]
      BY <1>0 DEF Copy, ProcTypeOK, StoreTypeOK, Append1
    <3>2. job'[p] = [job[p] EXCEPT !.layers = Append(job[p].layers, d), !.at = Len(job[p].layers)]
      BY <1>0, <3>1 DEF ProcTypeOK
    <3>3. [job[p] EXCEPT !.layers = Append(job[p].layers, d), !.at = Len(job[p].layers)] \in Job
      BY <2>0, Appended DEF Layer
    <3> QED
      BY <2>0, <3>2, <3>3 DEF Job
  <2>2. pc' \in [Proc -> Labels] /\ pc[p] # "idle" /\ pc'[p] # "idle" /\ lock' = lock
    BY <1>0 DEF Copy, Publish, Labels, ProcTypeOK, Rest
  <2>3. job' \in [Proc -> Job \cup {None}]
    BY <1>0, <2>1 DEF Copy, ProcTypeOK
  <2> QED
    BY <1>0, <1>3, <2>1, <2>2, <2>3, Goes DEF Alone
<1>2. StoreTypeOK'
  <2>1. PICK d \in Made : Publish(p, d)
    BY DEF Copy
  <2> QED
    BY <1>0, <2>1 DEF Publish, StoreTypeOK, Rest, Content
<1>4. Placed(p)'
  BY <1>0, JobTypes, Recipes
  DEF Copy, Placed, Rest, ProcTypeOK, StoreTypeOK, Publish, Append1, Pulling, Building,
     HasLock, More, Job
<1> QED
  BY <1>1, <1>2, <1>3, <1>4, OthersPlaced DEF Sound

LEMMA RecordSound ==
  ASSUME Sound, NEW p \in Proc, Record(p)
  PROVE  Sound' /\ Alone(p)
<1> USE LayerCacheAssumption
<1>0. Placed(p) /\ ProcTypeOK /\ StoreTypeOK /\ (pc[p] # "idle" => job[p] \in Job)
  BY DEF Sound, AllPlaced, ProcTypeOK
<1>3. Alone(p)
  BY <1>0 DEF Record, Alone, Goto, cache, ProcTypeOK, StoreTypeOK
<1>1. ProcTypeOK'
  <2>1. pc[p] # "idle" /\ job' = job /\ lock' = lock
    BY <1>0 DEF Record, cache
  <2>2. pc' \in [Proc -> Labels] /\ pc'[p] # "idle"
    BY <1>0 DEF Record, Goto, Labels, ProcTypeOK, cache
  <2> QED
    BY <1>0, <1>3, <2>1, <2>2, Goes DEF Alone, ProcTypeOK
<1>2. StoreTypeOK'
  BY <1>0, JobTypes, NextLayer, Recipes DEF Record, Goto, cache, StoreTypeOK, Entry, Content
<1>4. Placed(p)'
  BY <1>0, JobTypes, Recipes
  DEF Record, Placed, Goto, cache, ProcTypeOK, StoreTypeOK, Pulling, Building, HasLock,
     More, Job
<1> QED
  BY <1>1, <1>2, <1>3, <1>4, OthersPlaced DEF Sound

LEMMA RecordedSound ==
  ASSUME Sound, NEW p \in Proc, Recorded(p)
  PROVE  Sound' /\ Alone(p)
<1> USE LayerCacheAssumption
<1>0. Placed(p) /\ ProcTypeOK /\ StoreTypeOK /\ (pc[p] # "idle" => job[p] \in Job)
  BY DEF Sound, AllPlaced, ProcTypeOK
<1>3. Alone(p)
  BY <1>0 DEF Recorded, Alone, Goto, ProcTypeOK, StoreTypeOK
<1>1. ProcTypeOK'
  <2>0. pc[p] # "idle" /\ job[p] \in Job
    BY <1>0 DEF Recorded
  <2>1. job'[p] \in Job /\ job'[p].refs = job[p].refs
    <3>1. job'[p] = [job[p] EXCEPT !.layers = Append(job[p].layers, job[p].pick), !.at = Len(job[p].layers)]
      BY <1>0 DEF Recorded, Goto, ProcTypeOK, StoreTypeOK, Append1
    <3>2. [job[p] EXCEPT !.layers = Append(job[p].layers, job[p].pick), !.at = Len(job[p].layers)] \in Job
      BY <1>0, <2>0, Appended DEF Recorded, Placed
    <3> QED
      BY <2>0, <3>1, <3>2 DEF Job
  <2>2. pc' \in [Proc -> Labels] /\ pc[p] # "idle" /\ pc'[p] # "idle" /\ lock' = lock
    BY <1>0 DEF Recorded, Goto, Labels, ProcTypeOK
  <2>3. job' \in [Proc -> Job \cup {None}]
    BY <1>0, <2>1 DEF Recorded, Goto, ProcTypeOK
  <2> QED
    BY <1>0, <1>3, <2>1, <2>2, <2>3, Goes DEF Alone
<1>2. StoreTypeOK'
  BY <1>0, JobTypes, NextLayer, Recipes
  DEF Recorded, Goto, StoreTypeOK, Entry, Content, NoIndex, RecipeOf
<1>4. Placed(p)'
  BY <1>0, JobTypes, Recipes
  DEF Recorded, Placed, Goto, ProcTypeOK, StoreTypeOK, Append1, Pulling, Building, HasLock,
     More, Job
<1> QED
  BY <1>1, <1>2, <1>3, <1>4, OthersPlaced DEF Sound

LEMMA BuiltSound ==
  ASSUME Sound, NEW p \in Proc, Built(p)
  PROVE  Sound' /\ Alone(p)
<1> USE LayerCacheAssumption
<1>0. Placed(p) /\ ProcTypeOK /\ StoreTypeOK /\ (pc[p] # "idle" => job[p] \in Job)
  BY DEF Sound, AllPlaced, ProcTypeOK
<1>3. Alone(p)
  BY <1>0 DEF Built, Alone, Goto, Rest, cache, ProcTypeOK, StoreTypeOK
<1>1. ProcTypeOK'
  <2>1. pc[p] # "idle" /\ job' = job /\ lock' = lock
    BY <1>0 DEF Built, Rest, cache
  <2>2. pc' \in [Proc -> Labels] /\ pc'[p] # "idle"
    BY <1>0 DEF Built, Goto, Labels, ProcTypeOK, Rest, cache
  <2> QED
    BY <1>0, <1>3, <2>1, <2>2, Goes DEF Alone, ProcTypeOK
<1>2. StoreTypeOK'
  BY <1>0, JobTypes, NextLayer, Recipes
  DEF Built, Goto, Rest, cache, StoreTypeOK, Entry, Content
<1>4. Placed(p)'
  BY <1>0, JobTypes, Recipes
  DEF Built, Placed, Goto, Rest, cache, ProcTypeOK, StoreTypeOK, Pulling, Building,
     HasLock, More, Job
<1> QED
  BY <1>1, <1>2, <1>3, <1>4, OthersPlaced DEF Sound

LEMMA StoreSound ==
  ASSUME Sound, NEW p \in Proc, Store(p)
  PROVE  Sound' /\ Alone(p)
<1> USE LayerCacheAssumption
<1>0. Placed(p) /\ ProcTypeOK /\ StoreTypeOK /\ (pc[p] # "idle" => job[p] \in Job)
  BY DEF Sound, AllPlaced, ProcTypeOK
<1>3. Alone(p)
  BY <1>0 DEF Store, Alone, Rest, ProcTypeOK, StoreTypeOK
<1>1. ProcTypeOK'
  <2>0. pc[p] # "idle" /\ job[p] \in Job
    BY <1>0 DEF Store
  <2>1. job'[p] \in Job /\ job'[p].refs = job[p].refs
    <3>1. PICK r \in job[p].left : job' = [job EXCEPT ![p] = [job[p] EXCEPT !.left = job[p].left \ {r}]]
      BY <1>0 DEF Store, ProcTypeOK, StoreTypeOK, Rest
    <3>2. job'[p] = [job[p] EXCEPT !.left = job[p].left \ {r}]
      BY <1>0, <3>1 DEF ProcTypeOK
    <3>3. [job[p] EXCEPT !.left = job[p].left \ {r}] \in Job
      BY <2>0, JobTypes DEF Job, Store, Layer
    <3> QED
      BY <2>0, <3>2, <3>3 DEF Job
  <2>2. pc' \in [Proc -> Labels] /\ pc[p] # "idle" /\ pc'[p] # "idle" /\ lock' = lock
    BY <1>0 DEF Store, Labels, ProcTypeOK, Rest
  <2>3. job' \in [Proc -> Job \cup {None}]
    BY <1>0, <2>1 DEF Store, ProcTypeOK, Rest
  <2> QED
    BY <1>0, <1>3, <2>1, <2>2, <2>3, Goes DEF Alone
<1>2. StoreTypeOK'
  BY <1>0, JobTypes, NextLayer, Recipes DEF Store, Rest, StoreTypeOK, Entry, Content
<1>4. Placed(p)'
  BY <1>0, JobTypes, Recipes
  DEF Store, Placed, Rest, ProcTypeOK, StoreTypeOK, Pulling, Building, HasLock, More, Job
<1> QED
  BY <1>1, <1>2, <1>3, <1>4, OthersPlaced DEF Sound

LEMMA InstallAsSound ==
  ASSUME Sound, NEW p \in Proc, InstallAs(p)
  PROVE  Sound' /\ Alone(p)
<1> USE LayerCacheAssumption
<1>0. Placed(p) /\ ProcTypeOK /\ StoreTypeOK /\ (pc[p] # "idle" => job[p] \in Job)
  BY DEF Sound, AllPlaced, ProcTypeOK
<1>3. Alone(p)
  BY <1>0 DEF InstallAs, Alone, Goto, Rest, cache, ProcTypeOK, StoreTypeOK
<1>1. ProcTypeOK'
  <2>0. pc[p] # "idle" /\ job[p] \in Job
    BY <1>0 DEF InstallAs
  <2>1. job'[p] \in Job /\ job'[p].refs = job[p].refs
    <3>1. PICK r \in job[p].refs : job' = [job EXCEPT ![p] = [job[p] EXCEPT !.cmd = "install", !.ref = r]]
      BY <1>0 DEF InstallAs, Goto, ProcTypeOK, StoreTypeOK, Rest, cache
    <3>2. job'[p] = [job[p] EXCEPT !.cmd = "install", !.ref = r]
      BY <1>0, <3>1 DEF ProcTypeOK
    <3>3. [job[p] EXCEPT !.cmd = "install", !.ref = r] \in Job
      BY <2>0, JobTypes DEF Job, InstallAs, Layer
    <3> QED
      BY <2>0, <3>2, <3>3 DEF Job
  <2>2. pc' \in [Proc -> Labels] /\ pc[p] # "idle" /\ pc'[p] # "idle" /\ lock' = lock
    BY <1>0 DEF InstallAs, Goto, Labels, ProcTypeOK, Rest, cache
  <2>3. job' \in [Proc -> Job \cup {None}]
    BY <1>0, <2>1 DEF InstallAs, Goto, ProcTypeOK, Rest, cache
  <2> QED
    BY <1>0, <1>3, <2>1, <2>2, <2>3, Goes DEF Alone
<1>2. StoreTypeOK'
  BY <1>0, JobTypes, NextLayer, Recipes
  DEF InstallAs, Goto, Rest, cache, StoreTypeOK, Entry, Content
<1>4. Placed(p)'
  BY <1>0, JobTypes, Recipes
  DEF InstallAs, Placed, Goto, Rest, cache, ProcTypeOK, StoreTypeOK, Pulling, Building,
     HasLock, More, Job
<1> QED
  BY <1>1, <1>2, <1>3, <1>4, OthersPlaced DEF Sound

LEMMA UnlinkSound ==
  ASSUME Sound, NEW p \in Proc, Unlink(p)
  PROVE  Sound' /\ Alone(p)
<1> USE LayerCacheAssumption
<1>0. Placed(p) /\ ProcTypeOK /\ StoreTypeOK /\ (pc[p] # "idle" => job[p] \in Job)
  BY DEF Sound, AllPlaced, ProcTypeOK
<1>3. Alone(p)
  BY <1>0 DEF Unlink, Alone, Goto, Rest, ProcTypeOK, StoreTypeOK
<1>1. ProcTypeOK'
  <2>1. pc[p] # "idle" /\ job' = job /\ lock' = lock
    BY <1>0 DEF Unlink, Rest
  <2>2. pc' \in [Proc -> Labels] /\ pc'[p] # "idle"
    BY <1>0 DEF Unlink, Goto, Labels, ProcTypeOK, Rest
  <2> QED
    BY <1>0, <1>3, <2>1, <2>2, Goes DEF Alone, ProcTypeOK
<1>2. StoreTypeOK'
  BY <1>0, JobTypes, NextLayer, Recipes DEF Unlink, Goto, Rest, StoreTypeOK, Entry, Content
<1>4. Placed(p)'
  BY <1>0, JobTypes, Recipes
  DEF Unlink, Placed, Goto, Rest, ProcTypeOK, StoreTypeOK, Pulling, Building, HasLock,
     More, Job
<1> QED
  BY <1>1, <1>2, <1>3, <1>4, OthersPlaced DEF Sound

LEMMA KeepSound ==
  ASSUME Sound, NEW p \in Proc, Keep(p)
  PROVE  Sound' /\ Alone(p)
<1> USE LayerCacheAssumption
<1>0. Placed(p) /\ ProcTypeOK /\ StoreTypeOK /\ (pc[p] # "idle" => job[p] \in Job)
  BY DEF Sound, AllPlaced, ProcTypeOK
<1>3. Alone(p)
  BY <1>0 DEF Keep, Alone, Goto, Rest, cache, ProcTypeOK, StoreTypeOK
<1>1. ProcTypeOK'
  <2>0. pc[p] # "idle" /\ job[p] \in Job
    BY <1>0 DEF Keep
  <2>1. job'[p] \in Job /\ job'[p].refs = job[p].refs
    <3>1. job'[p] = [job[p] EXCEPT !.todo = ToSet(job[p].layers) \ Referenced]
      BY <1>0 DEF Keep, Goto, ProcTypeOK, StoreTypeOK, Rest, cache
    <3>2. [job[p] EXCEPT !.todo = ToSet(job[p].layers) \ Referenced] \in Job
      BY <2>0, JobTypes DEF Job, Keep, Referenced, Layer, ToSet
    <3> QED
      BY <2>0, <3>1, <3>2 DEF Job
  <2>2. pc' \in [Proc -> Labels] /\ pc[p] # "idle" /\ pc'[p] # "idle" /\ lock' = lock
    BY <1>0 DEF Keep, Goto, Labels, ProcTypeOK, Rest, cache
  <2>3. job' \in [Proc -> Job \cup {None}]
    BY <1>0, <2>1 DEF Keep, Goto, ProcTypeOK, Rest, cache
  <2> QED
    BY <1>0, <1>3, <2>1, <2>2, <2>3, Goes DEF Alone
<1>2. StoreTypeOK'
  BY <1>0, JobTypes, NextLayer, Recipes
  DEF Keep, Goto, Rest, cache, StoreTypeOK, Entry, Content
<1>4. Placed(p)'
  BY <1>0, JobTypes, Recipes
  DEF Keep, Placed, Goto, Rest, cache, ProcTypeOK, StoreTypeOK, Pulling, Building, HasLock,
     More, Job
<1> QED
  BY <1>1, <1>2, <1>3, <1>4, OthersPlaced DEF Sound

LEMMA DropSound ==
  ASSUME Sound, NEW p \in Proc, Drop(p)
  PROVE  Sound' /\ Alone(p)
<1> USE LayerCacheAssumption
<1>0. Placed(p) /\ ProcTypeOK /\ StoreTypeOK /\ (pc[p] # "idle" => job[p] \in Job)
  BY DEF Sound, AllPlaced, ProcTypeOK
<1>3. Alone(p)
  BY <1>0 DEF Drop, Alone, Rest, ProcTypeOK, StoreTypeOK
<1>1. ProcTypeOK'
  <2>0. pc[p] # "idle" /\ job[p] \in Job
    BY <1>0 DEF Drop
  <2>1. job'[p] \in Job /\ job'[p].refs = job[p].refs
    <3>1. PICK d \in job[p].todo : job' = [job EXCEPT ![p] = [job[p] EXCEPT !.todo = job[p].todo \ {d}]]
      BY <1>0 DEF Drop, ProcTypeOK, StoreTypeOK, Rest
    <3>2. job'[p] = [job[p] EXCEPT !.todo = job[p].todo \ {d}]
      BY <1>0, <3>1 DEF ProcTypeOK
    <3>3. [job[p] EXCEPT !.todo = job[p].todo \ {d}] \in Job
      BY <2>0, JobTypes DEF Job, Drop, Layer
    <3> QED
      BY <2>0, <3>2, <3>3 DEF Job
  <2>2. pc' \in [Proc -> Labels] /\ pc[p] # "idle" /\ pc'[p] # "idle" /\ lock' = lock
    BY <1>0 DEF Drop, Labels, ProcTypeOK, Rest
  <2>3. job' \in [Proc -> Job \cup {None}]
    BY <1>0, <2>1 DEF Drop, ProcTypeOK, Rest
  <2> QED
    BY <1>0, <1>3, <2>1, <2>2, <2>3, Goes DEF Alone
<1>2. StoreTypeOK'
  BY <1>0, JobTypes, NextLayer, Recipes DEF Drop, Rest, StoreTypeOK, Entry, Content
<1>4. Placed(p)'
  BY <1>0, JobTypes, Recipes
  DEF Drop, Placed, Rest, ProcTypeOK, StoreTypeOK, Pulling, Building, HasLock, More, Job
<1> QED
  BY <1>1, <1>2, <1>3, <1>4, OthersPlaced DEF Sound

LEMMA SweepImagesSound ==
  ASSUME Sound, NEW p \in Proc, SweepImages(p)
  PROVE  Sound' /\ Alone(p)
<1> USE LayerCacheAssumption
<1>0. Placed(p) /\ ProcTypeOK /\ StoreTypeOK /\ (pc[p] # "idle" => job[p] \in Job)
  BY DEF Sound, AllPlaced, ProcTypeOK
<1>3. Alone(p)
  BY <1>0 DEF SweepImages, Alone, Goto, Rest, cache, ProcTypeOK, StoreTypeOK
<1>1. ProcTypeOK'
  <2>0. pc[p] # "idle" /\ job[p] \in Job
    BY <1>0 DEF SweepImages
  <2>1. job'[p] \in Job /\ job'[p].refs = job[p].refs
    <3>1. job'[p] = [job[p] EXCEPT !.todo = Layer \ Referenced]
      BY <1>0 DEF SweepImages, Goto, ProcTypeOK, StoreTypeOK, Rest, cache
    <3>2. [job[p] EXCEPT !.todo = Layer \ Referenced] \in Job
      BY <2>0, JobTypes DEF Job, SweepImages, Referenced, Layer
    <3> QED
      BY <2>0, <3>1, <3>2 DEF Job
  <2>2. pc' \in [Proc -> Labels] /\ pc[p] # "idle" /\ pc'[p] # "idle" /\ lock' = lock
    BY <1>0 DEF SweepImages, Goto, Labels, ProcTypeOK, Rest, cache
  <2>3. job' \in [Proc -> Job \cup {None}]
    BY <1>0, <2>1 DEF SweepImages, Goto, ProcTypeOK, Rest, cache
  <2> QED
    BY <1>0, <1>3, <2>1, <2>2, <2>3, Goes DEF Alone
<1>2. StoreTypeOK'
  BY <1>0, JobTypes, NextLayer, Recipes
  DEF SweepImages, Goto, Rest, cache, StoreTypeOK, Entry, Content
<1>4. Placed(p)'
  BY <1>0, JobTypes, Recipes
  DEF SweepImages, Placed, Goto, Rest, cache, ProcTypeOK, StoreTypeOK, Pulling, Building,
     HasLock, More, Job
<1> QED
  BY <1>1, <1>2, <1>3, <1>4, OthersPlaced DEF Sound

LEMMA SweepIndexSound ==
  ASSUME Sound, NEW p \in Proc, SweepIndex(p)
  PROVE  Sound' /\ Alone(p)
<1> USE LayerCacheAssumption
<1>0. Placed(p) /\ ProcTypeOK /\ StoreTypeOK /\ (pc[p] # "idle" => job[p] \in Job)
  BY DEF Sound, AllPlaced, ProcTypeOK
<1>3. Alone(p)
  BY <1>0 DEF SweepIndex, Alone, Goto, Rest, cache, ProcTypeOK, StoreTypeOK
<1>1. ProcTypeOK'
  <2>0. pc[p] # "idle" /\ job[p] \in Job
    BY <1>0 DEF SweepIndex
  <2>1. job'[p] \in Job /\ job'[p].refs = job[p].refs
    <3>1. job'[p] = [job[p] EXCEPT !.todo = job[p].todo \ Pinned]
      BY <1>0 DEF SweepIndex, Goto, ProcTypeOK, StoreTypeOK, Rest, cache
    <3>2. [job[p] EXCEPT !.todo = job[p].todo \ Pinned] \in Job
      BY <2>0, JobTypes DEF Job, SweepIndex, Pinned, Layer
    <3> QED
      BY <2>0, <3>1, <3>2 DEF Job
  <2>2. pc' \in [Proc -> Labels] /\ pc[p] # "idle" /\ pc'[p] # "idle" /\ lock' = lock
    BY <1>0 DEF SweepIndex, Goto, Labels, ProcTypeOK, Rest, cache
  <2>3. job' \in [Proc -> Job \cup {None}]
    BY <1>0, <2>1 DEF SweepIndex, Goto, ProcTypeOK, Rest, cache
  <2> QED
    BY <1>0, <1>3, <2>1, <2>2, <2>3, Goes DEF Alone
<1>2. StoreTypeOK'
  BY <1>0, JobTypes, NextLayer, Recipes
  DEF SweepIndex, Goto, Rest, cache, StoreTypeOK, Entry, Content
<1>4. Placed(p)'
  BY <1>0, JobTypes, Recipes
  DEF SweepIndex, Placed, Goto, Rest, cache, ProcTypeOK, StoreTypeOK, Pulling, Building,
     HasLock, More, Job
<1> QED
  BY <1>1, <1>2, <1>3, <1>4, OthersPlaced DEF Sound

LEMMA DiscardIndexSound ==
  ASSUME Sound, NEW p \in Proc, DiscardIndex(p)
  PROVE  Sound' /\ Alone(p)
<1> USE LayerCacheAssumption
<1>0. Placed(p) /\ ProcTypeOK /\ StoreTypeOK /\ (pc[p] # "idle" => job[p] \in Job)
  BY DEF Sound, AllPlaced, ProcTypeOK
<1>3. Alone(p)
  BY <1>0 DEF DiscardIndex, Alone, Goto, Rest, ProcTypeOK, StoreTypeOK
<1>1. ProcTypeOK'
  <2>1. pc[p] # "idle" /\ job' = job /\ lock' = lock
    BY <1>0 DEF DiscardIndex, Rest
  <2>2. pc' \in [Proc -> Labels] /\ pc'[p] # "idle"
    BY <1>0 DEF DiscardIndex, Goto, Labels, ProcTypeOK, Rest
  <2> QED
    BY <1>0, <1>3, <2>1, <2>2, Goes DEF Alone, ProcTypeOK
<1>2. StoreTypeOK'
  BY <1>0, JobTypes, NextLayer, Recipes
  DEF DiscardIndex, Goto, Rest, StoreTypeOK, Entry, Content, NoIndex
<1>4. Placed(p)'
  BY <1>0, JobTypes, Recipes
  DEF DiscardIndex, Placed, Goto, Rest, ProcTypeOK, StoreTypeOK, Pulling, Building,
     HasLock, More, Job
<1> QED
  BY <1>1, <1>2, <1>3, <1>4, OthersPlaced DEF Sound

LEMMA SweepListSound ==
  ASSUME Sound, NEW p \in Proc, SweepList(p)
  PROVE  Sound' /\ Alone(p)
<1> USE LayerCacheAssumption
<1>0. Placed(p) /\ ProcTypeOK /\ StoreTypeOK /\ (pc[p] # "idle" => job[p] \in Job)
  BY DEF Sound, AllPlaced, ProcTypeOK
<1>3. Alone(p)
  BY <1>0 DEF SweepList, Alone, Goto, Rest, cache, ProcTypeOK, StoreTypeOK
<1>1. ProcTypeOK'
  <2>0. pc[p] # "idle" /\ job[p] \in Job
    BY <1>0 DEF SweepList
  <2>1. job'[p] \in Job /\ job'[p].refs = job[p].refs
    <3>1. job'[p] = [job[p] EXCEPT !.todo = {d \in job[p].todo : blob[d] # "none"}]
      BY <1>0 DEF SweepList, Goto, ProcTypeOK, StoreTypeOK, Rest, cache
    <3>2. [job[p] EXCEPT !.todo = {d \in job[p].todo : blob[d] # "none"}] \in Job
      BY <2>0, JobTypes DEF Job, SweepList, Layer
    <3> QED
      BY <2>0, <3>1, <3>2 DEF Job
  <2>2. pc' \in [Proc -> Labels] /\ pc[p] # "idle" /\ pc'[p] # "idle" /\ lock' = lock
    BY <1>0 DEF SweepList, Goto, Labels, ProcTypeOK, Rest, cache
  <2>3. job' \in [Proc -> Job \cup {None}]
    BY <1>0, <2>1 DEF SweepList, Goto, ProcTypeOK, Rest, cache
  <2> QED
    BY <1>0, <1>3, <2>1, <2>2, <2>3, Goes DEF Alone
<1>2. StoreTypeOK'
  BY <1>0, JobTypes, NextLayer, Recipes
  DEF SweepList, Goto, Rest, cache, StoreTypeOK, Entry, Content
<1>4. Placed(p)'
  BY <1>0, JobTypes, Recipes
  DEF SweepList, Placed, Goto, Rest, cache, ProcTypeOK, StoreTypeOK, Pulling, Building,
     HasLock, More, Job
<1> QED
  BY <1>1, <1>2, <1>3, <1>4, OthersPlaced DEF Sound

LEMMA ClearSound ==
  ASSUME Sound, NEW p \in Proc, Clear(p)
  PROVE  Sound' /\ Alone(p)
<1> USE LayerCacheAssumption
<1>0. Placed(p) /\ ProcTypeOK /\ StoreTypeOK /\ (pc[p] # "idle" => job[p] \in Job)
  BY DEF Sound, AllPlaced, ProcTypeOK
<1>3. Alone(p)
  BY <1>0 DEF Clear, Alone, cache, ProcTypeOK, StoreTypeOK
<1>1. ProcTypeOK'
  <2>1. pc[p] # "idle" /\ job' = job /\ lock' = lock
    BY <1>0 DEF Clear, cache
  <2>2. pc' \in [Proc -> Labels] /\ pc'[p] # "idle"
    BY <1>0 DEF Clear, Labels, ProcTypeOK, cache
  <2> QED
    BY <1>0, <1>3, <2>1, <2>2, Goes DEF Alone, ProcTypeOK
<1>2. StoreTypeOK'
  <2>1. image' \in [Ref -> Entry \cup {None}] /\ blob' \in [Layer -> Content]
    BY <1>0 DEF Clear, StoreTypeOK, Content, cache
  <2>2. index' \in [Recipe -> Layer \cup {None}] /\ indexLock' \in Proc \cup {None}
    BY <1>0 DEF Clear, StoreTypeOK, NoIndex, cache
  <2> QED
    BY <1>0, <2>1, <2>2 DEF Clear, StoreTypeOK
<1>4. Placed(p)'
  BY <1>0, JobTypes, Recipes
  DEF Clear, Placed, cache, ProcTypeOK, StoreTypeOK, Pulling, Building, HasLock, More, Job
<1> QED
  BY <1>1, <1>2, <1>3, <1>4, OthersPlaced DEF Sound

LEMMA EnterSound ==
  ASSUME Sound, NEW p \in Proc, NEW l \in Labels, NEW j \in Job, Enter(p, l, j),
         \/ l = "load" /\ j.cmd = "install" /\ j.ref \in Ref
         \/ l = "apply" /\ j.cmd = "archive"
         \/ l = "lock" /\ j.cmd = "build"
         \/ l = "lock" /\ j.cmd = "remove" /\ j.ref \in Ref
         \/ l = "images" /\ j.cmd \in {"orphan", "build-cache"}
         \/ l = "clear" /\ j.cmd = "clear" /\ "clear" \in Overlap
  PROVE  Sound' /\ Alone(p) /\ pc'[p] = l /\ job'[p] = j
<1>0. ProcTypeOK /\ StoreTypeOK /\ Placed(p) /\ pc[p] = "idle"
  BY DEF Sound, AllPlaced, Enter
<1>1. /\ \A q \in Proc \ {p} : pc'[q] = pc[q] /\ job'[q] = job[q]
      /\ pc'[p] = l /\ job'[p] = j /\ l # "idle"
      /\ lock' = lock /\ spoilt' = spoilt /\ open' = open /\ copy' = copy
  BY <1>0 DEF Enter, Goto, ProcTypeOK
<1>2. Alone(p)
  BY <1>1 DEF Alone
<1>3. StoreTypeOK'
  BY <1>0 DEF Enter, StoreTypeOK, cache
<1>4. ProcTypeOK'
  <2>1. pc' \in [Proc -> Labels] /\ job' \in [Proc -> Job \cup {None}]
    BY <1>0 DEF Enter, Goto, ProcTypeOK
  <2>2. \A q \in Proc : IF pc'[q] = "idle" THEN job'[q] = None ELSE job'[q] \in Job
    BY <1>0, <1>1 DEF ProcTypeOK
  <2>3. \A r \in Ref : lock[r] # None =>
          /\ lock[r] \in Proc /\ lock[r] # p /\ pc[lock[r]] # "idle" /\ r \in job[lock[r]].refs
    BY <1>0 DEF ProcTypeOK
  <2> QED
    BY <1>0, <1>1, <2>1, <2>2, <2>3 DEF ProcTypeOK
<1>5. Placed(p)'
  <2>1. open[p] = Closed /\ p \notin spoilt
    BY <1>0 DEF Placed, Pulling, Building
  <2> QED
    BY <1>1, <2>1 DEF Placed, Pulling, Building, More, Closed
<1> QED
  BY <1>1, <1>2, <1>3, <1>4, <1>5, OthersPlaced DEF Sound

\* Commands begin with nothing in hand.
LEMMA StartSound ==
  ASSUME Sound, NEW p \in Proc, Start(p)
  PROVE  Sound' /\ Alone(p)
<1>0. None \notin Ref /\ \A s \in Served : s \in Seq(Layer)
  BY LayerCacheAssumption
<1>1. CASE \E r \in Ref : StartInstall(p, r)
  <2>1. PICK r \in Ref : Enter(p, "load", NewJob("install", {}, r))
    BY <1>1 DEF StartInstall
  <2>2. NewJob("install", {}, r) \in Job
    BY NewJobs
  <2> QED
    BY <2>1, <2>2, EnterSound DEF Labels, NewJob
<1>2. CASE \E r \in Ref : StartRemove(p, r)
  <2>1. PICK r \in Ref : /\ image[r] # None
                         /\ Enter(p, "lock", [NewJob("remove", {r}, r) EXCEPT !.layers = image[r].layers])
    BY <1>2 DEF StartRemove
  <2> DEFINE j == [NewJob("remove", {r}, r) EXCEPT !.layers = image[r].layers]
  <2>2. image[r].layers \in Seq(Layer)
    BY <2>1 DEF Sound, StoreTypeOK, Entry
  <2>3. j \in Job
    BY <2>2, NewJobs
  <2>4. j.cmd = "remove" /\ j.ref \in Ref
    BY DEF NewJob
  <2> HIDE DEF j
  <2>5. Enter(p, "lock", j)
    BY <2>1 DEF j
  <2> QED
    BY <2>3, <2>4, <2>5, EnterSound DEF Labels
<1>3. CASE StartArchive(p)
  <2>1. PICK s \in Served : Enter(p, "apply", [NewJob("archive", {}, None) EXCEPT !.layers = s])
    BY <1>3 DEF StartArchive
  <2> DEFINE j == [NewJob("archive", {}, None) EXCEPT !.layers = s]
  <2>3. j \in Job
    BY <1>0, NewJobs
  <2>4. j.cmd = "archive"
    BY DEF NewJob
  <2> HIDE DEF j
  <2>5. Enter(p, "apply", j)
    BY <2>1 DEF j
  <2> QED
    BY <2>3, <2>4, <2>5, EnterSound DEF Labels
<1>4. CASE StartBuild(p)
  <2>1. PICK rs \in SUBSET Ref : Enter(p, "lock", NewJob("build", rs, None))
    BY <1>4 DEF StartBuild
  <2>2. NewJob("build", rs, None) \in Job
    BY NewJobs
  <2> QED
    BY <2>1, <2>2, EnterSound DEF Labels, NewJob
<1>5. CASE StartSweep(p)
  <2>1. PICK c \in {"orphan", "build-cache"} : Enter(p, "images", NewJob(c, {}, None))
    BY <1>5 DEF StartSweep
  <2>2. NewJob(c, {}, None) \in Job
    BY NewJobs
  <2> QED
    BY <2>1, <2>2, EnterSound DEF Labels, NewJob
<1>6. CASE StartClear(p)
  <2>1. Enter(p, "clear", NewJob("clear", {}, None)) /\ "clear" \in Overlap
    BY <1>6 DEF StartClear
  <2>2. NewJob("clear", {}, None) \in Job
    BY NewJobs
  <2> QED
    BY <2>1, <2>2, EnterSound DEF Labels, NewJob
<1> QED
  BY <1>1, <1>2, <1>3, <1>4, <1>5, <1>6 DEF Start

LEMMA RotSound ==
  ASSUME Sound, NEW d \in Layer, Rot(d)
  PROVE  Sound'
<1>1. PICK ps \in SUBSET {p \in Proc : open[p][d] = "good"} :
        open' = [p \in Proc |-> IF p \in ps THEN [open[p] EXCEPT ![d] = "bad"] ELSE open[p]]
  BY DEF Rot
<1>0. ProcTypeOK /\ StoreTypeOK
  BY DEF Sound
<1>2. StoreTypeOK'
  <2>1. blob' \in [Layer -> Content]
    BY <1>0 DEF Rot, StoreTypeOK, Content
  <2>2. open' \in [Proc -> [Layer -> Content]]
    BY <1>0, <1>1 DEF StoreTypeOK, Content
  <2> QED
    BY <1>0, <2>1, <2>2 DEF Rot, StoreTypeOK, Rest
<1>3. ProcTypeOK'
  BY <1>0 DEF Rot, ProcTypeOK, Rest
<1>4. \A p \in Proc : open[p] = Closed => open'[p] = Closed
  BY <1>1 DEF Closed
<1>5. AllPlaced'
  BY <1>4 DEF Sound, AllPlaced, Placed, Rot, Rest, HasLock, More, Closed
<1> QED
  BY <1>2, <1>3, <1>5 DEF Sound

LEMMA StepSound ==
  ASSUME Sound, NEW p \in Proc, Step(p)
  PROVE  Sound' /\ Alone(p)
  BY TakeLockSound, EndSound, LoadSound, FetchSound, VerifySound, VerifiedSound,
     EvictSound,
     DownloadSound, ApplySound, AppliedSound, FromSound, InheritSound,
     NextStageSound,
     LookupSound, HitSound, RunSound, CopySound, RecordSound,
     RecordedSound, BuiltSound,
     StoreSound, InstallAsSound, UnlinkSound, KeepSound,
     DropSound, SweepImagesSound,
     SweepIndexSound, DiscardIndexSound, SweepListSound,
     ClearSound
  DEF Step

-----------------------------------------------------------------------------
(* Who meets whom.                                                         *)

NoneRemoving(p) == \A q \in Proc \ {p} : ~Removing(q)
Apart ==
  /\ "sweep" \notin Overlap =>
       \A q \in Proc : Sweeping(q) => \A p \in Proc : ~Exclusive(p)
  /\ "remove" \notin Overlap =>
       \A q \in Proc : Removing(q) => \A p \in Proc \ {q} : ~Exclusive(p)

\* Any lock is admitted; so is a removal; a sweep probes.
Admitted(p) ==
  /\ "sweep" \notin Overlap => \A q \in Proc : ~Sweeping(q)
  /\ "remove" \notin Overlap => NoneRemoving(p)
EntersWell(p) ==
  /\ Exclusive(p)' => Exclusive(p) \/ Admitted(p)
  /\ Removing(p)' => \/ Removing(p)
                     \/ "remove" \notin Overlap => \A q \in Proc \ {p} : ~Exclusive(q)
  /\ Sweeping(p)' => Sweeping(p) \/ ((\A q \in Proc : ~Exclusive(q)) /\ ~Exclusive(p)')

LEMMA OthersApart ==
  ASSUME NEW p \in Proc, Alone(p), NEW q \in Proc \ {p}
  PROVE  /\ Exclusive(q)' <=> Exclusive(q)
         /\ Sweeping(q)' <=> Sweeping(q)
         /\ Removing(q)' <=> Removing(q)
  BY DEF Alone, Exclusive, Sweeping, Removing

LEMMA ApartKept ==
  ASSUME Apart, NEW p \in Proc, Alone(p), EntersWell(p)
  PROVE  Apart'
<1>1. ASSUME "sweep" \notin Overlap, NEW q \in Proc, Sweeping(q)', NEW r \in Proc, Exclusive(r)'
      PROVE  FALSE
  <2>1. CASE q = p
    BY <1>1, <2>1, OthersApart DEF Apart, EntersWell, Admitted
  <2>2. CASE q # p
    BY <1>1, <2>2, OthersApart DEF Apart, EntersWell, Admitted
  <2> QED
    BY <2>1, <2>2
<1>2. ASSUME "remove" \notin Overlap, NEW q \in Proc, Removing(q)', NEW r \in Proc \ {q}, Exclusive(r)'
      PROVE  FALSE
  <2>1. CASE q = p
    BY <1>2, <2>1, OthersApart DEF Apart, EntersWell
  <2>2. CASE q # p
    BY <1>2, <2>2, OthersApart DEF Apart, EntersWell, Admitted, NoneRemoving
  <2> QED
    BY <2>1, <2>2
<1> QED
  BY <1>1, <1>2 DEF Apart

LEMMA StepEnters ==
  ASSUME Sound, NEW p \in Proc, Step(p)
  PROVE  EntersWell(p)
<1>0. Placed(p) /\ ProcTypeOK /\ (pc[p] # "idle" => job[p] \in Job)
  BY DEF Sound, AllPlaced, ProcTypeOK
<1> DEFINE Quiet == /\ lock' = lock /\ pc[p] # "idle"
                    /\ job'[p].cmd = job[p].cmd \/ HasLock(p)
                    /\ pc'[p] \in {"images", "index", "list", "drop", "unlink", "keep"} =>
                         /\ job'[p].cmd = job[p].cmd
                         /\ pc[p] \in {"images", "index", "list", "drop", "unlink", "keep"}
                         /\ (pc'[p] \in {"unlink", "keep"} => pc[p] \in {"unlink", "keep"})
                         /\ (pc'[p] \in {"images", "index", "list"} => pc[p] \in {"images", "index", "list"})
<1>1. Quiet => EntersWell(p)
  BY <1>0 DEF EntersWell, Exclusive, Removing, Sweeping, HasLock, Placed
<1>2. CASE TakeLock(p)
  <2>1. /\ pc[p] = "lock" /\ MayLock(p, job[p].cmd) /\ job' = job
        /\ job[p].cmd \in {"build", "remove"}
        /\ pc'[p] \in {"lock", "from", "unlink"}
        /\ pc'[p] = "unlink" => job[p].cmd = "remove"
    BY <1>0, <1>2 DEF TakeLock, Goto, ProcTypeOK, Placed
  <2>2. ~Sweeping(p)'
    BY <2>1 DEF Sweeping
  <2>3. Removing(p)' => ("remove" \notin Overlap => \A q \in Proc \ {p} : ~Exclusive(q))
    BY <2>1 DEF Removing, MayLock
  <2>4. Admitted(p)
    BY <2>1 DEF Admitted, NoneRemoving, MayLock
  <2> QED
    BY <2>2, <2>3, <2>4 DEF EntersWell
<1>3. CASE End(p)
  BY <1>0, <1>3 DEF End, Stop, EntersWell, Goto, ProcTypeOK, Exclusive, Removing, Sweeping
<1>4. CASE \E i \in Instr : Lookup(p, i)
  <2>1. PICK i \in Instr : Lookup(p, i)
    BY <1>4
  <2>2. Quiet
    BY <1>0, <2>1 DEF Lookup, Goto, ProcTypeOK, Job, Rest
  <2> QED
    BY <1>1, <2>2
<1>5. CASE Load(p)
  <2>1. Quiet
    BY <1>0, <1>5 DEF Load, Goto, ProcTypeOK, Placed, Building, HasLock, Rest, cache, Job
  <2> QED
    BY <1>1, <2>1
<1>6. CASE Fetch(p)
  <2>1. Quiet
    BY <1>0, <1>6 DEF Fetch, Goto, ProcTypeOK, Placed, Building, HasLock, Rest, Job
  <2> QED
    BY <1>1, <2>1
<1>7. CASE Verify(p)
  <2>1. Quiet
    BY <1>0, <1>7
    DEF Verify, Goto, Advance, ProcTypeOK, Placed, Building, HasLock, Rest, cache, Job
  <2> QED
    BY <1>1, <2>1
<1>8. CASE Verified(p)
  <2>1. Quiet
    BY <1>0, <1>8
    DEF Verified, Goto, ProcTypeOK, Placed, Building, HasLock, Rest, cache, Job
  <2> QED
    BY <1>1, <2>1
<1>9. CASE Evict(p)
  <2>1. Quiet
    BY <1>0, <1>9 DEF Evict, Goto, ProcTypeOK, Placed, Building, HasLock, Rest, Job
  <2> QED
    BY <1>1, <2>1
<1>10. CASE Download(p)
  <2>1. Quiet
    BY <1>0, <1>10 DEF Download, Goto, ProcTypeOK, Placed, Building, HasLock, Rest, Job
  <2> QED
    BY <1>1, <2>1
<1>11. CASE Apply(p)
  <2>1. Quiet
    BY <1>0, <1>11
    DEF Apply, Goto, Advance, ProcTypeOK, Placed, Building, HasLock, cache, Job
  <2> QED
    BY <1>1, <2>1
<1>12. CASE Applied(p)
  <2>1. Quiet
    BY <1>0, <1>12
    DEF Applied, Goto, ProcTypeOK, Placed, Building, HasLock, Rest, cache, Job
  <2> QED
    BY <1>1, <2>1
<1>13. CASE From(p)
  <2>1. Quiet
    BY <1>0, <1>13 DEF From, Goto, ProcTypeOK, Placed, Building, HasLock, Rest, cache, Job
  <2> QED
    BY <1>1, <2>1
<1>14. CASE Inherit(p)
  <2>1. Quiet
    BY <1>0, <1>14
    DEF Inherit, Goto, Advance, ProcTypeOK, Placed, Building, HasLock, Rest, cache, Job
  <2> QED
    BY <1>1, <2>1
<1>15. CASE NextStage(p)
  <2>1. Quiet
    BY <1>0, <1>15
    DEF NextStage, Goto, ProcTypeOK, Placed, Building, HasLock, Rest, cache, Job
  <2> QED
    BY <1>1, <2>1
<1>16. CASE Hit(p)
  <2>1. Quiet
    BY <1>0, <1>16
    DEF Hit, Goto, Append1, ProcTypeOK, Placed, Building, HasLock, Rest, cache, Job
  <2> QED
    BY <1>1, <2>1
<1>17. CASE Run(p)
  <2>1. Quiet
    BY <1>0, <1>17 DEF Run, Goto, Publish, ProcTypeOK, Placed, Building, HasLock, Rest, Job
  <2> QED
    BY <1>1, <2>1
<1>18. CASE Copy(p)
  <2>1. Quiet
    BY <1>0, <1>18
    DEF Copy, Append1, Publish, ProcTypeOK, Placed, Building, HasLock, Rest, Job
  <2> QED
    BY <1>1, <2>1
<1>19. CASE Record(p)
  <2>1. Quiet
    BY <1>0, <1>19 DEF Record, Goto, ProcTypeOK, Placed, Building, HasLock, cache, Job
  <2> QED
    BY <1>1, <2>1
<1>20. CASE Recorded(p)
  <2>1. Quiet
    BY <1>0, <1>20 DEF Recorded, Goto, Append1, ProcTypeOK, Placed, Building, HasLock, Job
  <2> QED
    BY <1>1, <2>1
<1>21. CASE Built(p)
  <2>1. Quiet
    BY <1>0, <1>21 DEF Built, Goto, ProcTypeOK, Placed, Building, HasLock, Rest, cache, Job
  <2> QED
    BY <1>1, <2>1
<1>22. CASE Store(p)
  <2>1. Quiet
    BY <1>0, <1>22 DEF Store, ProcTypeOK, Placed, Building, HasLock, Rest, Job
  <2> QED
    BY <1>1, <2>1
<1>23. CASE InstallAs(p)
  <2>1. Quiet
    BY <1>0, <1>23
    DEF InstallAs, Goto, ProcTypeOK, Placed, Building, HasLock, Rest, cache, Job
  <2> QED
    BY <1>1, <2>1
<1>24. CASE Unlink(p)
  <2>1. Quiet
    BY <1>0, <1>24 DEF Unlink, Goto, ProcTypeOK, Placed, Building, HasLock, Rest, Job
  <2> QED
    BY <1>1, <2>1
<1>25. CASE Keep(p)
  <2>1. Quiet
    BY <1>0, <1>25 DEF Keep, Goto, ProcTypeOK, Placed, Building, HasLock, Rest, cache, Job
  <2> QED
    BY <1>1, <2>1
<1>26. CASE Drop(p)
  <2>1. Quiet
    BY <1>0, <1>26 DEF Drop, ProcTypeOK, Placed, Building, HasLock, Rest, Job
  <2> QED
    BY <1>1, <2>1
<1>27. CASE SweepImages(p)
  <2>1. Quiet
    BY <1>0, <1>27
    DEF SweepImages, Goto, ProcTypeOK, Placed, Building, HasLock, Rest, cache, Job
  <2> QED
    BY <1>1, <2>1
<1>28. CASE SweepIndex(p)
  <2>1. Quiet
    BY <1>0, <1>28
    DEF SweepIndex, Goto, ProcTypeOK, Placed, Building, HasLock, Rest, cache, Job
  <2> QED
    BY <1>1, <2>1
<1>29. CASE DiscardIndex(p)
  <2>1. Quiet
    BY <1>0, <1>29 DEF DiscardIndex, Goto, ProcTypeOK, Placed, Building, HasLock, Rest, Job
  <2> QED
    BY <1>1, <2>1
<1>30. CASE SweepList(p)
  <2>1. Quiet
    BY <1>0, <1>30
    DEF SweepList, Goto, ProcTypeOK, Placed, Building, HasLock, Rest, cache, Job
  <2> QED
    BY <1>1, <2>1
<1>31. CASE Clear(p)
  <2>1. Quiet
    BY <1>0, <1>31 DEF Clear, ProcTypeOK, Placed, Building, HasLock, cache, Job
  <2> QED
    BY <1>1, <2>1
<1> QED
  BY <1>2, <1>3, <1>4, <1>5, <1>6, <1>7, <1>8, <1>9, <1>10, <1>11, <1>12, <1>13, <1>14,
     <1>15, <1>16, <1>17, <1>18, <1>19, <1>20, <1>21, <1>22, <1>23, <1>24, <1>25, <1>26,
     <1>27, <1>28, <1>29, <1>30, <1>31
  DEF Step

LEMMA StartEnters ==
  ASSUME Sound, NEW p \in Proc, Start(p)
  PROVE  EntersWell(p)
<1>0. /\ ProcTypeOK /\ pc[p] = "idle" /\ \A r \in Ref : lock[r] # p
      /\ lock' = lock /\ \A q \in Proc \ {p} : pc'[q] = pc[q] /\ job'[q] = job[q]
  BY LayerCacheAssumption
  DEF Sound, ProcTypeOK, Start, StartInstall, StartRemove, StartArchive, StartBuild,
     StartSweep, StartClear, Enter, Goto
<1>1. CASE \/ \E r \in Ref : StartInstall(p, r)
           \/ StartArchive(p)
  BY <1>0, <1>1
  DEF StartInstall, StartArchive, MayLock, Enter, Goto, ProcTypeOK, NewJob, EntersWell,
     Admitted, NoneRemoving, Exclusive, Removing, Sweeping
<1>2. CASE StartSweep(p)
  BY <1>0, <1>2
  DEF StartSweep, Enter, Goto, ProcTypeOK, NewJob, EntersWell, Admitted, Exclusive,
     Removing, Sweeping
<1>3. CASE (\E r \in Ref : StartRemove(p, r)) \/ StartBuild(p) \/ StartClear(p)
  <2>1. pc'[p] \in {"lock", "clear"} /\ job'[p].cmd \in {"remove", "build", "clear"}
    <3>1. ASSUME NEW l, NEW j, Enter(p, l, j)
          PROVE  pc'[p] = l /\ job'[p] = j
      BY <1>0, <3>1 DEF Enter, Goto, ProcTypeOK
    <3>2. \A c, rs, r, t : /\ NewJob(c, rs, r).cmd = c
                           /\ [NewJob(c, rs, r) EXCEPT !.layers = t].cmd = c
      BY DEF NewJob
    <3>3. CASE \E r \in Ref : StartRemove(p, r)
      <4>1. PICK r \in Ref :
              Enter(p, "lock", [NewJob("remove", {r}, r) EXCEPT !.layers = image[r].layers])
        BY <3>3 DEF StartRemove
      <4> DEFINE j == [NewJob("remove", {r}, r) EXCEPT !.layers = image[r].layers]
      <4>2. j.cmd = "remove"
        BY DEF NewJob
      <4> HIDE DEF j
      <4>3. Enter(p, "lock", j)
        BY <4>1 DEF j
      <4> QED
        BY <3>1, <4>2, <4>3
    <3>4. CASE StartBuild(p)
      BY <3>1, <3>2, <3>4 DEF StartBuild
    <3>5. CASE StartClear(p)
      BY <3>1, <3>2, <3>5 DEF StartClear
    <3> QED
      BY <1>3, <3>3, <3>4, <3>5
  <2> QED
    BY <1>0, <2>1 DEF EntersWell, Exclusive, Removing, Sweeping
<1> QED
  BY <1>1, <1>2, <1>3 DEF Start

-----------------------------------------------------------------------------
(* What is to be dropped is garbage.                                       *)

Garbage ==
  /\ "sweep" \notin Overlap =>
       \A p \in Proc : Sweeping(p) =>
         /\ pc[p] \in {"index", "list", "drop"} => job[p].todo \cap Referenced = {}
         /\ (pc[p] \in {"list", "drop"} /\ job[p].cmd = "orphan") => job[p].todo \cap Pinned = {}
  /\ "remove" \notin Overlap =>
       \A p \in Proc : (pc[p] = "drop" /\ job[p].cmd = "remove") =>
         job[p].todo \cap Referenced = {}

\* Images and records are added only under a lock.
AddsWell(p) ==
  /\ Referenced' \subseteq Referenced \/ (Exclusive(p) /\ ~Removing(p))
  /\ Pinned' \subseteq Pinned \/ Exclusive(p)

\* What a command that deletes does to its list.
ListsWell(p) ==
  /\ (Sweeping(p)' /\ pc'[p] \in {"index", "list", "drop"}) =>
       \/ Sweeping(p) /\ pc[p] = "images" /\ job'[p].todo = Layer \ Referenced
       \/ /\ Sweeping(p) /\ pc[p] \in {"index", "list", "drop"}
          /\ job'[p].todo \subseteq job[p].todo
  /\ (Sweeping(p)' /\ pc'[p] \in {"list", "drop"} /\ job'[p].cmd = "orphan") =>
       \/ pc[p] = "index" /\ job'[p].todo \cap Pinned = {}
       \/ /\ pc[p] \in {"list", "drop"} /\ job[p].cmd = "orphan"
          /\ job'[p].todo \subseteq job[p].todo
  /\ (pc'[p] = "drop" /\ job'[p].cmd = "remove") =>
       \/ pc[p] = "keep" /\ job'[p].todo \cap Referenced = {}
       \/ /\ pc[p] = "drop" /\ job[p].cmd = "remove"
          /\ job'[p].todo \subseteq job[p].todo
  /\ (Sweeping(p) \/ Removing(p)) => Referenced' \subseteq Referenced /\ Pinned' \subseteq Pinned

LEMMA InReferenced ==
  /\ \A d : d \in Referenced <=> \E r \in Ref : d \in Listed(r)
  /\ \A d : d \in Referenced' <=> \E r \in Ref : d \in Listed(r)'
  BY DEF Referenced

LEMMA InPinned ==
  /\ \A d : d \in Pinned <=> d # None /\ \E q \in Recipe : d = index[q]
  /\ \A d : d \in Pinned' <=> d # None /\ \E q \in Recipe : d = index'[q]
  BY DEF Pinned

LEMMA GarbageKept ==
  ASSUME Apart, Garbage, NEW p \in Proc, Alone(p), AddsWell(p), ListsWell(p)
  PROVE  Garbage'
<1>1. ASSUME "sweep" \notin Overlap, NEW q \in Proc, Sweeping(q)'
      PROVE  /\ pc'[q] \in {"index", "list", "drop"} => job'[q].todo \cap Referenced' = {}
             /\ (pc'[q] \in {"list", "drop"} /\ job'[q].cmd = "orphan")
                  => job'[q].todo \cap Pinned' = {}
  <2>1. CASE q = p
    BY <1>1, <2>1 DEF Garbage, ListsWell, Sweeping
  <2>2. CASE q # p
    <3>1. Sweeping(q) /\ pc'[q] = pc[q] /\ job'[q] = job[q]
      BY <1>1, <2>2, OthersApart DEF Alone
    <3>2. Referenced' \subseteq Referenced /\ Pinned' \subseteq Pinned
      BY <1>1, <3>1 DEF Apart, AddsWell
    <3> QED
      BY <1>1, <3>1, <3>2 DEF Garbage
  <2> QED
    BY <2>1, <2>2
<1>2. ASSUME "remove" \notin Overlap, NEW q \in Proc, pc'[q] = "drop", job'[q].cmd = "remove"
      PROVE  job'[q].todo \cap Referenced' = {}
  <2>1. CASE q = p
    BY <1>2, <2>1 DEF Garbage, ListsWell, Removing
  <2>2. CASE q # p
    <3>1. Removing(q) /\ pc'[q] = pc[q] /\ job'[q] = job[q]
      BY <1>2, <2>2 DEF Alone, Removing
    <3>2. Referenced' \subseteq Referenced
      BY <1>2, <2>2, <3>1 DEF Apart, AddsWell
    <3> QED
      BY <1>2, <3>1, <3>2 DEF Garbage
  <2> QED
    BY <2>1, <2>2
<1> QED
  BY <1>1, <1>2 DEF Garbage

LEMMA Unadded ==
  ASSUME image' = image
  PROVE  Referenced' = Referenced
  BY DEF Referenced, Listed
LEMMA Unpinned ==
  ASSUME index' = index
  PROVE  Pinned' = Pinned
  BY DEF Pinned

LEMMA StepLists ==
  ASSUME Sound, NEW p \in Proc, Step(p)
  PROVE  AddsWell(p) /\ ListsWell(p)
<1>0. /\ Placed(p) /\ ProcTypeOK /\ StoreTypeOK /\ (pc[p] # "idle" => job[p] \in Job)
      /\ None \notin Layer
  BY LayerCacheAssumption DEF Sound, AllPlaced, ProcTypeOK
<1> DEFINE Quiet == /\ pc'[p] \notin {"images", "index", "list", "drop", "unlink", "keep"}
                    /\ image' = image /\ index' = index
<1>1. Quiet => AddsWell(p) /\ ListsWell(p)
  BY Unadded, Unpinned DEF AddsWell, ListsWell, Sweeping
<1> USE DEF Goto, Rest, cache
<1>2. CASE TakeLock(p)
  BY <1>0, <1>2, Unadded, Unpinned, InReferenced, InPinned
  DEF TakeLock, AddsWell, ListsWell, Listed, Exclusive, HasLock, Removing, Sweeping,
     ProcTypeOK, StoreTypeOK, Placed, Pulling, Building, Job
<1>3. CASE End(p)
  <2>1. Quiet
    BY <1>0, <1>3 DEF End, Stop, ProcTypeOK
  <2> QED
    BY <1>1, <2>1
<1>4. CASE Load(p)
  <2>1. Quiet
    BY <1>0, <1>4 DEF Load, ProcTypeOK
  <2> QED
    BY <1>1, <2>1
<1>5. CASE Fetch(p)
  BY <1>0, <1>5, Unadded, Unpinned, InReferenced, InPinned
  DEF Fetch, AddsWell, ListsWell, Listed, Exclusive, HasLock, Removing, Sweeping,
     ProcTypeOK, StoreTypeOK, Placed, Pulling, Building, Job
<1>6. CASE Verify(p)
  <2>1. Quiet
    BY <1>0, <1>6 DEF Verify, ProcTypeOK
  <2> QED
    BY <1>1, <2>1
<1>7. CASE Verified(p)
  <2>1. Quiet
    BY <1>0, <1>7 DEF Verified, ProcTypeOK
  <2> QED
    BY <1>1, <2>1
<1>8. CASE Evict(p)
  <2>1. Quiet
    BY <1>0, <1>8 DEF Evict, ProcTypeOK
  <2> QED
    BY <1>1, <2>1
<1>9. CASE Download(p)
  <2>1. Quiet
    BY <1>0, <1>9 DEF Download, ProcTypeOK
  <2> QED
    BY <1>1, <2>1
<1>10. CASE Apply(p)
  <2>1. Quiet
    BY <1>0, <1>10 DEF Apply, ProcTypeOK
  <2> QED
    BY <1>1, <2>1
<1>11. CASE Applied(p)
  <2>1. Quiet
    BY <1>0, <1>11 DEF Applied, ProcTypeOK
  <2> QED
    BY <1>1, <2>1
<1>12. CASE From(p)
  <2>1. Quiet
    BY <1>0, <1>12 DEF From, ProcTypeOK
  <2> QED
    BY <1>1, <2>1
<1>13. CASE Inherit(p)
  <2>1. Quiet
    BY <1>0, <1>13 DEF Inherit, ProcTypeOK
  <2> QED
    BY <1>1, <2>1
<1>14. CASE NextStage(p)
  <2>1. Quiet
    BY <1>0, <1>14 DEF NextStage, ProcTypeOK
  <2> QED
    BY <1>1, <2>1
<1>15. CASE Hit(p)
  <2>1. Quiet
    BY <1>0, <1>15 DEF Hit, ProcTypeOK
  <2> QED
    BY <1>1, <2>1
<1>16. CASE Run(p)
  <2>1. Quiet
    BY <1>0, <1>16 DEF Run, Publish, ProcTypeOK
  <2> QED
    BY <1>1, <2>1
<1>17. CASE Copy(p)
  <2>1. Quiet
    BY <1>0, <1>17 DEF Copy, Publish, ProcTypeOK
  <2> QED
    BY <1>1, <2>1
<1>18. CASE Record(p)
  <2>1. Quiet
    BY <1>0, <1>18 DEF Record, ProcTypeOK
  <2> QED
    BY <1>1, <2>1
<1>19. CASE Recorded(p)
  BY <1>0, <1>19, Unadded, Unpinned, InReferenced, InPinned
  DEF Recorded, AddsWell, ListsWell, Listed, Exclusive, HasLock, Removing, Sweeping,
     ProcTypeOK, StoreTypeOK, Placed, Pulling, Building, Job, NoIndex
<1>20. CASE Built(p)
  <2>1. Quiet
    BY <1>0, <1>20 DEF Built, ProcTypeOK
  <2> QED
    BY <1>1, <2>1
<1>21. CASE Store(p)
  BY <1>0, <1>21, Unadded, Unpinned, InReferenced, InPinned
  DEF Store, AddsWell, ListsWell, Listed, Exclusive, HasLock, Removing, Sweeping,
     ProcTypeOK, StoreTypeOK, Placed, Pulling, Building, Job
<1>22. CASE InstallAs(p)
  <2>1. Quiet
    BY <1>0, <1>22 DEF InstallAs, ProcTypeOK
  <2> QED
    BY <1>1, <2>1
<1>23. CASE Unlink(p)
  BY <1>0, <1>23, Unadded, Unpinned, InReferenced, InPinned
  DEF Unlink, AddsWell, ListsWell, Listed, Exclusive, HasLock, Removing, Sweeping,
     ProcTypeOK, StoreTypeOK, Placed, Pulling, Building, Job
<1>24. CASE Keep(p)
  BY <1>0, <1>24, Unadded, Unpinned, InReferenced, InPinned
  DEF Keep, AddsWell, ListsWell, Listed, Exclusive, HasLock, Removing, Sweeping,
     ProcTypeOK, StoreTypeOK, Placed, Pulling, Building, Job
<1>25. CASE Drop(p)
  BY <1>0, <1>25, Unadded, Unpinned, InReferenced, InPinned
  DEF Drop, AddsWell, ListsWell, Listed, Exclusive, HasLock, Removing, Sweeping,
     ProcTypeOK, StoreTypeOK, Placed, Pulling, Building, Job
<1>26. CASE SweepImages(p)
  BY <1>0, <1>26, Unadded, Unpinned, InReferenced, InPinned
  DEF SweepImages, AddsWell, ListsWell, Listed, Exclusive, HasLock, Removing, Sweeping,
     ProcTypeOK, StoreTypeOK, Placed, Pulling, Building, Job
<1>27. CASE SweepIndex(p)
  BY <1>0, <1>27, Unadded, Unpinned, InReferenced, InPinned
  DEF SweepIndex, AddsWell, ListsWell, Listed, Exclusive, HasLock, Removing, Sweeping,
     ProcTypeOK, StoreTypeOK, Placed, Pulling, Building, Job
<1>28. CASE DiscardIndex(p)
  BY <1>0, <1>28, Unadded, Unpinned, InReferenced, InPinned
  DEF DiscardIndex, AddsWell, ListsWell, Listed, Exclusive, HasLock, Removing, Sweeping,
     ProcTypeOK, StoreTypeOK, Placed, Pulling, Building, Job, NoIndex
<1>29. CASE SweepList(p)
  BY <1>0, <1>29, Unadded, Unpinned, InReferenced, InPinned
  DEF SweepList, AddsWell, ListsWell, Listed, Exclusive, HasLock, Removing, Sweeping,
     ProcTypeOK, StoreTypeOK, Placed, Pulling, Building, Job
<1>30. CASE Clear(p)
  BY <1>0, <1>30, Unadded, Unpinned, InReferenced, InPinned
  DEF Clear, AddsWell, ListsWell, Listed, Exclusive, HasLock, Removing, Sweeping,
     ProcTypeOK, StoreTypeOK, Placed, Pulling, Building, Job, NoIndex
<1>31. CASE \E i \in Instr : Lookup(p, i)
  <2>1. Quiet
    BY <1>0, <1>31 DEF Lookup, ProcTypeOK
  <2> QED
    BY <1>1, <2>1
<1> QED
  BY <1>2, <1>3, <1>4, <1>5, <1>6, <1>7, <1>8, <1>9, <1>10, <1>11, <1>12, <1>13, <1>14,
     <1>15, <1>16, <1>17, <1>18, <1>19, <1>20, <1>21, <1>22, <1>23, <1>24, <1>25, <1>26,
     <1>27, <1>28, <1>29, <1>30, <1>31
  DEF Step

LEMMA StartLists ==
  ASSUME Sound, NEW p \in Proc, Start(p)
  PROVE  AddsWell(p) /\ ListsWell(p)
<1>1. /\ pc[p] = "idle" /\ image' = image /\ index' = index
      /\ pc'[p] \in {"load", "apply", "lock", "images", "clear"}
  BY DEF Sound, ProcTypeOK, Start, StartInstall, StartRemove, StartArchive, StartBuild,
     StartSweep, StartClear, Enter, Goto, cache
<1> QED
  BY <1>1, Unadded, Unpinned DEF AddsWell, ListsWell, Sweeping

-----------------------------------------------------------------------------
(* The index while a record is made.                                       *)

IndexSound ==
  "clear" \notin Overlap =>
    \A p \in Proc : pc[p] = "recording" =>
      /\ indexLock = p
      /\ \A q \in Recipe : index[q] # None => copy[p][q] # None

NoneLost == \A q \in Recipe : index[q] # None /\ index'[q] = None => index' = NoIndex

LEMMA StepIndex ==
  ASSUME Sound, IndexSound, "clear" \notin Overlap, NEW p \in Proc, Step(p)
  PROVE  IndexSound' /\ NoneLost
<1>0. /\ Placed(p) /\ ProcTypeOK /\ StoreTypeOK /\ Alone(p)
      /\ None \notin Layer /\ None \notin Proc
  BY LayerCacheAssumption, StepSound DEF Sound, AllPlaced
<1> DEFINE Quiet == index' = index /\ indexLock' = indexLock /\ pc'[p] # "recording"
<1>1. Quiet => IndexSound' /\ NoneLost
  BY <1>0 DEF IndexSound, NoneLost, Alone
<1> USE DEF Goto, Rest, cache
<1>2. CASE Record(p)
  BY <1>0, <1>2 DEF Record, IndexSound, NoneLost, Alone, ProcTypeOK, StoreTypeOK
<1>3. CASE Recorded(p)
  <2>1. /\ pc'[p] # "recording" /\ indexLock = p /\ job[p].pick # None
        /\ index' = [copy[p] EXCEPT ![RecipeOf(p)] = job[p].pick]
        /\ \A q \in Recipe : index[q] # None => copy[p][q] # None
    BY <1>0, <1>3 DEF Recorded, IndexSound, ProcTypeOK, Placed
  <2>2. \A q \in Proc : pc'[q] # "recording"
    BY <1>0, <2>1 DEF IndexSound, Alone
  <2>3. NoneLost
    BY <1>0, <2>1 DEF NoneLost, StoreTypeOK
  <2> QED
    BY <2>2, <2>3 DEF IndexSound
<1>4. CASE End(p)
  BY <1>0, <1>4 DEF End, Stop, IndexSound, NoneLost, Alone, ProcTypeOK, StoreTypeOK
<1>5. CASE DiscardIndex(p)
  BY <1>0, <1>5 DEF DiscardIndex, IndexSound, NoneLost, Alone, ProcTypeOK, NoIndex
<1>6. CASE Clear(p)
  BY <1>0, <1>6 DEF Clear, Placed
<1>7. CASE \E i \in Instr : Lookup(p, i)
  <2>1. Quiet
    BY <1>0, <1>7 DEF Lookup, ProcTypeOK
  <2> QED
    BY <1>1, <2>1
<1>8. CASE TakeLock(p)
  <2>1. Quiet
    BY <1>0, <1>8 DEF TakeLock, ProcTypeOK
  <2> QED
    BY <1>1, <2>1
<1>9. CASE Load(p)
  <2>1. Quiet
    BY <1>0, <1>9 DEF Load, ProcTypeOK
  <2> QED
    BY <1>1, <2>1
<1>10. CASE Fetch(p)
  <2>1. Quiet
    BY <1>0, <1>10 DEF Fetch, ProcTypeOK
  <2> QED
    BY <1>1, <2>1
<1>11. CASE Verify(p)
  <2>1. Quiet
    BY <1>0, <1>11 DEF Verify, ProcTypeOK
  <2> QED
    BY <1>1, <2>1
<1>12. CASE Verified(p)
  <2>1. Quiet
    BY <1>0, <1>12 DEF Verified, ProcTypeOK
  <2> QED
    BY <1>1, <2>1
<1>13. CASE Evict(p)
  <2>1. Quiet
    BY <1>0, <1>13 DEF Evict, ProcTypeOK
  <2> QED
    BY <1>1, <2>1
<1>14. CASE Download(p)
  <2>1. Quiet
    BY <1>0, <1>14 DEF Download, ProcTypeOK
  <2> QED
    BY <1>1, <2>1
<1>15. CASE Apply(p)
  <2>1. Quiet
    BY <1>0, <1>15 DEF Apply, ProcTypeOK
  <2> QED
    BY <1>1, <2>1
<1>16. CASE Applied(p)
  <2>1. Quiet
    BY <1>0, <1>16 DEF Applied, ProcTypeOK
  <2> QED
    BY <1>1, <2>1
<1>17. CASE From(p)
  <2>1. Quiet
    BY <1>0, <1>17 DEF From, ProcTypeOK
  <2> QED
    BY <1>1, <2>1
<1>18. CASE Inherit(p)
  <2>1. Quiet
    BY <1>0, <1>18 DEF Inherit, ProcTypeOK
  <2> QED
    BY <1>1, <2>1
<1>19. CASE NextStage(p)
  <2>1. Quiet
    BY <1>0, <1>19 DEF NextStage, ProcTypeOK
  <2> QED
    BY <1>1, <2>1
<1>20. CASE Hit(p)
  <2>1. Quiet
    BY <1>0, <1>20 DEF Hit, ProcTypeOK
  <2> QED
    BY <1>1, <2>1
<1>21. CASE Run(p)
  <2>1. Quiet
    BY <1>0, <1>21 DEF Run, Publish, ProcTypeOK
  <2> QED
    BY <1>1, <2>1
<1>22. CASE Copy(p)
  <2>1. Quiet
    BY <1>0, <1>22 DEF Copy, Publish, ProcTypeOK
  <2> QED
    BY <1>1, <2>1
<1>23. CASE Built(p)
  <2>1. Quiet
    BY <1>0, <1>23 DEF Built, ProcTypeOK
  <2> QED
    BY <1>1, <2>1
<1>24. CASE Store(p)
  <2>1. Quiet
    BY <1>0, <1>24 DEF Store, ProcTypeOK
  <2> QED
    BY <1>1, <2>1
<1>25. CASE InstallAs(p)
  <2>1. Quiet
    BY <1>0, <1>25 DEF InstallAs, ProcTypeOK
  <2> QED
    BY <1>1, <2>1
<1>26. CASE Unlink(p)
  <2>1. Quiet
    BY <1>0, <1>26 DEF Unlink, ProcTypeOK
  <2> QED
    BY <1>1, <2>1
<1>27. CASE Keep(p)
  <2>1. Quiet
    BY <1>0, <1>27 DEF Keep, ProcTypeOK
  <2> QED
    BY <1>1, <2>1
<1>28. CASE Drop(p)
  <2>1. Quiet
    BY <1>0, <1>28 DEF Drop, ProcTypeOK
  <2> QED
    BY <1>1, <2>1
<1>29. CASE SweepImages(p)
  <2>1. Quiet
    BY <1>0, <1>29 DEF SweepImages, ProcTypeOK
  <2> QED
    BY <1>1, <2>1
<1>30. CASE SweepIndex(p)
  <2>1. Quiet
    BY <1>0, <1>30 DEF SweepIndex, ProcTypeOK
  <2> QED
    BY <1>1, <2>1
<1>31. CASE SweepList(p)
  <2>1. Quiet
    BY <1>0, <1>31 DEF SweepList, ProcTypeOK
  <2> QED
    BY <1>1, <2>1
<1> QED
  BY <1>2, <1>3, <1>4, <1>5, <1>6, <1>7, <1>8, <1>9, <1>10, <1>11, <1>12, <1>13, <1>14,
     <1>15, <1>16, <1>17, <1>18, <1>19, <1>20, <1>21, <1>22, <1>23, <1>24, <1>25, <1>26,
     <1>27, <1>28, <1>29, <1>30, <1>31
  DEF Step

LEMMA StartIndex ==
  ASSUME Sound, IndexSound, NEW p \in Proc, Start(p)
  PROVE  IndexSound' /\ NoneLost
<1>1. /\ indexLock' = indexLock /\ index' = index /\ copy' = copy
      /\ pc'[p] \in {"load", "apply", "lock", "images", "clear"}
      /\ \A q \in Proc \ {p} : pc'[q] = pc[q]
  BY DEF Sound, ProcTypeOK, Start, StartInstall, StartRemove, StartArchive, StartBuild,
     StartSweep, StartClear, Enter, Goto, cache
<1> QED
  BY <1>1 DEF IndexSound, NoneLost

-----------------------------------------------------------------------------
(* What a build has in hand stays in the cache.                            *)

Undisturbed == Overlap = {} /\ ~Damage

InHand(p) ==
  /\ \A d \in Layer : open[p][d] # "none" => blob[d] # "none"
  /\ pc[p] \in Building =>
       \A i \in 1..Len(job[p].layers) : blob[job[p].layers[i]] # "none"
  /\ pc[p] = "apply" =>
       \A i \in 1..Len(job[p].layers) : i <= job[p].at => blob[job[p].layers[i]] # "none"
  /\ pc[p] \in {"record", "recording"} => blob[job[p].pick] # "none"
  /\ (pc[p] = "lock" /\ job[p].cmd = "build") => job[p].layers = <<>>
  /\ pc[p] \notin {"verifyEvict", "applyEvict", "hitEvict"}

Present ==
  Undisturbed =>
    /\ \A d \in Layer : blob[d] # "bad"
    /\ \A p \in Proc : InHand(p)
    /\ BuiltImageWhole

LEMMA WholeImages ==
  /\ BuiltImageWhole <=>
       \A r \in Ref : image[r] # None /\ image[r].built =>
         \A i \in DOMAIN image[r].layers : blob[image[r].layers[i]] # "none"
  /\ BuiltImageWhole' <=>
       \A r \in Ref : image'[r] # None /\ image'[r].built =>
         \A i \in DOMAIN image'[r].layers : blob'[image'[r].layers[i]] # "none"
  BY DEF BuiltImageWhole, Listed, ToSet

\* A step that unlinks no blob disturbs nobody else.
LEMMA OthersInHand ==
  ASSUME Sound, NEW p \in Proc, Alone(p), \A q \in Proc : InHand(q),
         \A d \in Layer : blob[d] # "none" => blob'[d] # "none"
  PROVE  \A q \in Proc \ {p} : InHand(q)'
<1> SUFFICES ASSUME NEW q \in Proc \ {p} PROVE InHand(q)'
  OBVIOUS
<1>1. /\ pc'[q] = pc[q] /\ job'[q] = job[q] /\ open'[q] = open[q]
      /\ InHand(q) /\ Placed(q) /\ (pc[q] # "idle" => job[q] \in Job)
  BY DEF Alone, Sound, AllPlaced, ProcTypeOK
<1>2. pc[q] # "idle" => \A i \in 1..Len(job[q].layers) : job[q].layers[i] \in Layer
  BY <1>1, JobTypes
<1>3. pc[q] \in {"record", "recording"} => job[q].pick \in Layer
  BY <1>1 DEF Placed
<1> QED
  BY <1>1, <1>2, <1>3 DEF InHand, Building

\* Nobody has a blob open or in hand while another command drops blobs.
LEMMA DropPresent ==
  ASSUME Sound, Apart, Garbage, Present, Undisturbed, NEW p \in Proc, Drop(p)
  PROVE  Present'
<1>1. PICK d \in job[p].todo : blob' = [blob EXCEPT ![d] = "none"]
  BY DEF Drop
<1>2. /\ pc[p] = "drop" /\ pc' = pc /\ open' = open /\ image' = image
      /\ Placed(p) /\ job[p] \in Job /\ StoreTypeOK /\ ProcTypeOK
      /\ \A q \in Proc \ {p} : job'[q] = job[q]
  BY DEF Drop, Sound, AllPlaced, ProcTypeOK, Rest
<1>3. (Sweeping(p) \/ Removing(p)) /\ d \notin Referenced
  BY <1>1, <1>2 DEF Placed, Sweeping, Removing, Garbage, Undisturbed
<1>4. \A q \in Proc : pc[q] \notin Pulling \cup Building /\ open[q] = Closed
  <2>1. \A q \in Proc \ {p} : ~Exclusive(q)
    BY <1>3 DEF Apart, Undisturbed
  <2>2. \A q \in Proc : Placed(q)
    BY DEF Sound, AllPlaced
  <2>3. pc[p] \notin Pulling \cup Building
    BY <1>2 DEF Pulling, Building
  <2>4. \A q \in Proc \ {p} : pc[q] \notin Pulling \cup Building
    BY <2>1, <2>2 DEF Placed, Exclusive, HasLock, Pulling, Building
  <2> QED
    BY <2>2, <2>3, <2>4 DEF Placed
<1>5. \A q \in Proc : InHand(q)'
  BY <1>2, <1>4 DEF InHand, Pulling, Building, Closed, Present
<1>6. \A e \in Layer : blob'[e] # "bad"
  BY <1>1, <1>2 DEF Present, StoreTypeOK
<1>7. BuiltImageWhole'
  <2>1. BuiltImageWhole
    BY DEF Present
  <2>2. \A r \in Ref : Listed(r)' = Listed(r) /\ d \notin Listed(r)
    BY <1>2, <1>3, InReferenced DEF Listed
  <2>3. \A e : e # d => blob'[e] = blob[e]
    BY <1>1, <1>2 DEF StoreTypeOK
  <2> QED
    BY <1>2, <2>1, <2>2, <2>3 DEF BuiltImageWhole
<1> QED
  BY <1>5, <1>6, <1>7 DEF Present

LEMMA StepPresent ==
  ASSUME Sound, Apart, Garbage, Present, Undisturbed, NEW p \in Proc, Step(p)
  PROVE  Present'
<1>0. /\ Placed(p) /\ ProcTypeOK /\ StoreTypeOK /\ Alone(p) /\ InHand(p) /\ BuiltImageWhole
      /\ \A d \in Layer : blob[d] # "bad"
      /\ \A q \in Proc : InHand(q)
      /\ (pc[p] # "idle" => job[p] \in Job) /\ None \notin Layer
  BY LayerCacheAssumption, StepSound DEF Sound, AllPlaced, ProcTypeOK, Present
<1>a. pc[p] # "idle" =>
        /\ Len(job[p].layers) \in Nat /\ job[p].at \in Nat /\ job[p].layers \in Seq(Layer)
        /\ \A i \in 1..Len(job[p].layers) : job[p].layers[i] \in Layer
  BY <1>0, JobTypes
<1> DEFINE Fills == /\ \A d \in Layer : blob'[d] # "bad" /\ (blob[d] # "none" => blob'[d] # "none")
                    /\ InHand(p)' /\ BuiltImageWhole'
<1>1. Fills => Present'
  BY <1>0, OthersInHand DEF Present
<1>b. image' = image /\ (\A d \in Layer : blob[d] # "none" => blob'[d] # "none") => BuiltImageWhole'
  <2>1. \A r \in Ref : image[r] # None => image[r].layers \in Seq(Layer)
    BY <1>0 DEF StoreTypeOK, Entry
  <2> QED
    BY <1>0, <2>1, WholeImages
<1> USE DEF Goto, Rest, cache
<1>2. CASE TakeLock(p)
  <2>2. /\ pc[p] = "lock" /\ pc'[p] \in {"lock", "from", "unlink"}
        /\ pc'[p] = "from" => job[p].cmd = "build"
        /\ UNCHANGED <<job, open, blob, image>>
    BY <1>0, <1>2 DEF TakeLock, ProcTypeOK
  <2>3. InHand(p)'
    BY <1>0, <2>2 DEF InHand, Building
  <2>1. Fills
    BY <1>0, <1>b, <2>2, <2>3
  <2> QED
    BY <1>1, <2>1
<1>3. CASE End(p)
  <2>1. Fills
    BY <1>0, <1>a, <1>b, <1>3, NextLayer
    DEF End, Stop, InHand, Building, ProcTypeOK, StoreTypeOK, Placed, More, Next1, Closed,
       Undisturbed
  <2> QED
    BY <1>1, <2>1
<1>4. CASE Load(p)
  <2>1. Fills
    BY <1>0, <1>a, <1>b, <1>4, NextLayer
    DEF Load, InHand, Building, ProcTypeOK, StoreTypeOK, Placed, More, Next1, Closed,
       Undisturbed
  <2> QED
    BY <1>1, <2>1
<1>5. CASE Fetch(p)
  <2>2. PICK s \in Served :
          image' = [image EXCEPT ![job[p].ref] = [layers |-> s, built |-> FALSE]]
    BY <1>5 DEF Fetch
  <2>3. pc[p] = "fetch" /\ pc'[p] = "verify" /\ UNCHANGED <<blob, open>>
    BY <1>0, <1>5 DEF Fetch, ProcTypeOK
  <2>4. InHand(p)'
    BY <1>0, <2>3 DEF InHand, Building
  <2>5. \A r \in Ref : image'[r] = image[r] \/ ~image'[r].built
    BY <1>0, <2>2 DEF StoreTypeOK
  <2>6. BuiltImageWhole'
    BY <1>0, <2>3, <2>5, WholeImages
  <2>1. Fills
    BY <1>0, <2>3, <2>4, <2>6
  <2> QED
    BY <1>1, <2>1
<1>6. CASE Verify(p)
  <2>1. Fills
    BY <1>0, <1>a, <1>b, <1>6, NextLayer
    DEF Verify, Advance, OpenVerified, InHand, Building, ProcTypeOK, StoreTypeOK, Placed,
       More, Next1, Closed, Undisturbed
  <2> QED
    BY <1>1, <2>1
<1>7. CASE Verified(p)
  <2>1. Fills
    BY <1>0, <1>a, <1>b, <1>7, NextLayer
    DEF Verified, InHand, Building, ProcTypeOK, StoreTypeOK, Placed, More, Next1, Closed,
       Undisturbed
  <2> QED
    BY <1>1, <2>1
<1>8. CASE Evict(p)
  <2>1. Fills
    BY <1>0, <1>a, <1>b, <1>8, NextLayer
    DEF Evict, InHand, Building, ProcTypeOK, StoreTypeOK, Placed, More, Next1, Closed,
       Undisturbed
  <2> QED
    BY <1>1, <2>1
<1>9. CASE Download(p)
  <2>2. /\ pc[p] = "apply" /\ pc' = pc /\ job' = job /\ image' = image
        /\ Next1(p) \in Layer
    BY <1>0, <1>9, NextLayer DEF Download
  <2>3. \/ blob' = blob /\ blob[Next1(p)] = "good"
        \/ blob' = [blob EXCEPT ![Next1(p)] = "good"]
    BY <1>0, <2>2, <1>9 DEF Download, OpenVerified
  <2>4. open' = [open EXCEPT ![p][Next1(p)] = "good"]
    BY <1>0, <2>2, <1>9 DEF Download, OpenVerified
  <2>5. \A d \in Layer : blob'[d] # "bad" /\ (blob[d] # "none" => blob'[d] # "none")
    BY <1>0, <2>2, <2>3 DEF StoreTypeOK
  <2>6. \A d \in Layer : open'[p][d] # "none" => blob'[d] # "none"
    BY <1>0, <2>2, <2>3, <2>4, <2>5 DEF InHand, StoreTypeOK
  <2>7. InHand(p)'
    BY <1>0, <1>a, <2>2, <2>5, <2>6 DEF InHand, Building
  <2>1. Fills
    BY <1>0, <1>b, <2>2, <2>5, <2>7
  <2> QED
    BY <1>1, <2>1
<1>10. CASE Apply(p)
  <2>2. /\ pc[p] = "apply" /\ UNCHANGED <<blob, open, image>> /\ More(p)
        /\ blob[Next1(p)] # "none"
    BY <1>0, <1>10, NextLayer DEF Apply, InHand
  <2>3. CASE pc'[p] = "spoilt"
    <3>1. InHand(p)'
      BY <1>0, <2>2, <2>3 DEF InHand, Building
    <3> QED
      BY <1>0, <1>b, <2>2, <3>1, <1>1
  <2>4. CASE pc' = pc /\ job' = [job EXCEPT ![p].at = job[p].at + 1]
    <3>1. job'[p] = [job[p] EXCEPT !.at = job[p].at + 1]
      BY <1>0, <2>4 DEF ProcTypeOK
    <3>2. job'[p].layers = job[p].layers /\ job'[p].at = job[p].at + 1
      BY <1>0, <2>2, <3>1 DEF Job
    <3>3. \A i \in 1..Len(job[p].layers) : i <= job[p].at + 1 => blob[job[p].layers[i]] # "none"
      BY <1>0, <1>a, <2>2 DEF InHand, Next1
    <3>4. InHand(p)'
      BY <1>0, <2>2, <2>4, <3>2, <3>3 DEF InHand, Building
    <3> QED
      BY <1>0, <1>b, <2>2, <3>4, <1>1
  <2> QED
    BY <1>0, <1>10, <2>3, <2>4 DEF Apply, Advance, ProcTypeOK
<1>11. CASE Applied(p)
  <2>1. Fills
    BY <1>0, <1>a, <1>b, <1>11, NextLayer
    DEF Applied, InHand, Building, ProcTypeOK, StoreTypeOK, Placed, More, Next1, Closed,
       Undisturbed
  <2> QED
    BY <1>1, <2>1
<1>12. CASE From(p)
  <2>2. pc[p] = "from" /\ UNCHANGED <<blob, open, image>>
    BY <1>12 DEF From
  <2>3. CASE pc' = [pc EXCEPT ![p] = "step"] /\ job' = [job EXCEPT ![p].layers = <<>>, ![p].at = 0]
    <3>1. pc'[p] = "step" /\ job'[p].layers = <<>>
      BY <1>0, <2>2, <2>3 DEF ProcTypeOK, Job
    <3>2. InHand(p)'
      BY <1>0, <2>2, <3>1 DEF InHand, Building
    <3> QED
      BY <1>0, <1>b, <2>2, <3>2, <1>1
  <2>4. CASE pc' = [pc EXCEPT ![p] = "load"]
    <3>1. pc'[p] = "load"
      BY <1>0, <2>4 DEF ProcTypeOK
    <3>2. InHand(p)'
      BY <1>0, <2>2, <3>1 DEF InHand, Building
    <3> QED
      BY <1>0, <1>b, <2>2, <3>2, <1>1
  <2>5. CASE pc' = [pc EXCEPT ![p] = "inherit"] /\ job' = [job EXCEPT ![p].at = 0]
    <3>1. pc'[p] = "inherit" /\ job'[p].layers = job[p].layers
      BY <1>0, <2>2, <2>5 DEF ProcTypeOK, Job
    <3>2. InHand(p)'
      BY <1>0, <2>2, <3>1 DEF InHand, Building
    <3> QED
      BY <1>0, <1>b, <2>2, <3>2, <1>1
  <2> QED
    BY <1>12, <2>3, <2>4, <2>5 DEF From
<1>13. CASE Inherit(p)
  <2>2. pc[p] = "inherit" /\ UNCHANGED <<blob, open, image>> /\ pc'[p] \in {"inherit", "step"}
    BY <1>0, <1>13 DEF Inherit, ProcTypeOK
  <2>3. job' = job \/ job' = [job EXCEPT ![p].at = job[p].at + 1]
    BY <1>0, <1>13 DEF Inherit, Advance, ProcTypeOK
  <2>4. job'[p].layers = job[p].layers
    BY <1>0, <2>2, <2>3 DEF ProcTypeOK, Job
  <2>5. InHand(p)'
    BY <1>0, <2>2, <2>4 DEF InHand, Building
  <2>1. Fills
    BY <1>0, <1>b, <2>2, <2>5
  <2> QED
    BY <1>1, <2>1
<1>14. CASE NextStage(p)
  <2>1. Fills
    BY <1>0, <1>a, <1>b, <1>14, NextLayer
    DEF NextStage, InHand, Building, ProcTypeOK, StoreTypeOK, Placed, More, Next1, Closed,
       Undisturbed
  <2> QED
    BY <1>1, <2>1
<1>15. CASE Hit(p)
  <2>2. /\ pc[p] = "hit" /\ UNCHANGED <<blob, image>> /\ job[p].pick \in Layer
    BY <1>0, <1>15 DEF Hit, Placed
  <2>3. CASE /\ blob[job[p].pick] = "good" /\ open' = [open EXCEPT ![p][job[p].pick] = "good"]
             /\ pc' = [pc EXCEPT ![p] = "apply"]
             /\ job' = [job EXCEPT ![p] = Append1(p, job[p].pick)]
    <3>a. /\ job'[p].layers = Append(job[p].layers, job[p].pick) /\ job'[p].at = Len(job[p].layers)
      BY <1>0, <2>2, <2>3 DEF Append1, ProcTypeOK, Job
    <3>b. /\ Len(job'[p].layers) = Len(job[p].layers) + 1
          /\ \A i \in 1..Len(job'[p].layers) :
               job'[p].layers[i] = IF i <= Len(job[p].layers) THEN job[p].layers[i] ELSE job[p].pick
      BY <1>0, <1>a, <2>2, <3>a
    <3>1. pc'[p] = "apply"
      BY <1>0, <2>3 DEF ProcTypeOK
    <3>2. \A d \in Layer : open'[p][d] # "none" => blob[d] # "none"
      BY <1>0, <2>2, <2>3 DEF InHand, StoreTypeOK
    <3>3. \A i \in 1..Len(job[p].layers) : blob[job[p].layers[i]] # "none"
      BY <1>0, <2>2 DEF InHand, Building
    <3>4. InHand(p)'
      BY <1>0, <1>a, <2>2, <3>a, <3>b, <3>1, <3>2, <3>3 DEF InHand, Building
    <3> QED
      BY <1>0, <1>b, <2>2, <3>4, <1>1
  <2>4. CASE pc' = [pc EXCEPT ![p] = "run"] /\ UNCHANGED <<job, open>>
    <3>1. pc'[p] = "run"
      BY <1>0, <2>4 DEF ProcTypeOK
    <3>2. InHand(p)'
      BY <1>0, <2>2, <2>4, <3>1 DEF InHand, Building
    <3> QED
      BY <1>0, <1>b, <2>2, <3>2, <1>1
  <2> QED
    BY <1>0, <1>15, <2>2, <2>3, <2>4 DEF Hit, OpenVerified
<1>16. CASE Run(p)
  <2>2. PICK d \in Made : /\ blob' = [blob EXCEPT ![d] = "good"]
                          /\ job' = [job EXCEPT ![p].pick = d]
    BY <1>16 DEF Run, Publish
  <2>3. /\ pc[p] = "run" /\ pc'[p] = "record" /\ UNCHANGED <<image, open>> /\ d \in Layer
    BY <1>0, <1>16, <2>2 DEF Run, Publish, ProcTypeOK, Layer
  <2>4. job'[p].pick = d /\ job'[p].layers = job[p].layers
    BY <1>0, <2>2, <2>3 DEF ProcTypeOK, Job
  <2>5. /\ \A e \in Layer : blob'[e] # "bad" /\ (blob[e] # "none" => blob'[e] # "none")
        /\ blob'[d] = "good"
    BY <1>0, <2>2, <2>3 DEF StoreTypeOK
  <2>6. InHand(p)'
    BY <1>0, <1>a, <2>3, <2>4, <2>5 DEF InHand, Building
  <2>1. Fills
    BY <1>0, <1>b, <2>3, <2>5, <2>6
  <2> QED
    BY <1>1, <2>1
<1>17. CASE Copy(p)
  <2>2. PICK d \in Made : /\ blob' = [blob EXCEPT ![d] = "good"]
                          /\ job' = [job EXCEPT ![p] = Append1(p, d)]
    BY <1>17 DEF Copy, Publish
  <2>3. /\ pc[p] = "step" /\ pc' = pc /\ UNCHANGED <<image, open>> /\ d \in Layer
    BY <1>0, <1>17 DEF Copy, Publish, Layer
  <2>5. /\ \A e \in Layer : blob'[e] # "bad" /\ (blob[e] # "none" => blob'[e] # "none")
        /\ blob'[d] = "good"
    BY <1>0, <2>2, <2>3 DEF StoreTypeOK
  <2>6. InHand(p)'
    <3>a. /\ job'[p].layers = Append(job[p].layers, d) /\ job'[p].at = Len(job[p].layers)
      BY <1>0, <2>2, <2>3 DEF Append1, ProcTypeOK, Job
    <3>b. /\ Len(job'[p].layers) = Len(job[p].layers) + 1
          /\ \A i \in 1..Len(job'[p].layers) :
               job'[p].layers[i] = IF i <= Len(job[p].layers) THEN job[p].layers[i] ELSE d
      BY <1>0, <1>a, <2>2, <3>a
    <3>1. \A i \in 1..Len(job[p].layers) : blob[job[p].layers[i]] # "none"
      BY <1>0, <2>3 DEF InHand, Building
    <3> QED
      BY <1>0, <1>a, <2>3, <2>5, <3>a, <3>b, <3>1 DEF InHand, Building
  <2>1. Fills
    BY <1>0, <1>b, <2>3, <2>5, <2>6
  <2> QED
    BY <1>1, <2>1
<1>18. CASE Record(p)
  <2>1. Fills
    BY <1>0, <1>a, <1>b, <1>18, NextLayer
    DEF Record, InHand, Building, ProcTypeOK, StoreTypeOK, Placed, More, Next1, Closed,
       Undisturbed
  <2> QED
    BY <1>1, <2>1
<1>19. CASE Recorded(p)
  <2>1. Fills
    BY <1>0, <1>a, <1>b, <1>19, NextLayer
    DEF Recorded, Append1, InHand, Building, ProcTypeOK, StoreTypeOK, Placed, More, Next1,
       Closed, Undisturbed
  <2> QED
    BY <1>1, <2>1
<1>20. CASE Built(p)
  <2>1. Fills
    BY <1>0, <1>a, <1>b, <1>20, NextLayer
    DEF Built, InHand, Building, ProcTypeOK, StoreTypeOK, Placed, More, Next1, Closed,
       Undisturbed
  <2> QED
    BY <1>1, <2>1
<1>21. CASE Store(p)
  <2>2. PICK r \in job[p].left :
          /\ image' = [image EXCEPT ![r] = [layers |-> job[p].layers, built |-> TRUE]]
          /\ job' = [job EXCEPT ![p].left = job[p].left \ {r}]
    BY <1>21 DEF Store
  <2>3. /\ pc[p] = "store" /\ pc' = pc /\ UNCHANGED <<blob, open>>
    BY <1>21 DEF Store
  <2>4. job'[p].layers = job[p].layers
    BY <1>0, <2>2, <2>3 DEF ProcTypeOK, Job
  <2>5. \A i \in DOMAIN job[p].layers : blob[job[p].layers[i]] # "none"
    BY <1>0, <1>a, <2>3 DEF InHand, Building
  <2>6. \A q \in Ref : image'[q] = image[q] \/ image'[q].layers = job[p].layers
    BY <1>0, <2>2 DEF StoreTypeOK
  <2>7. BuiltImageWhole'
    BY <1>0, <2>3, <2>5, <2>6, WholeImages
  <2>8. InHand(p)'
    BY <1>0, <2>3, <2>4 DEF InHand, Building
  <2>1. Fills
    BY <1>0, <2>3, <2>7, <2>8
  <2> QED
    BY <1>1, <2>1
<1>22. CASE InstallAs(p)
  <2>1. Fills
    BY <1>0, <1>a, <1>b, <1>22, NextLayer
    DEF InstallAs, InHand, Building, ProcTypeOK, StoreTypeOK, Placed, More, Next1, Closed,
       Undisturbed
  <2> QED
    BY <1>1, <2>1
<1>23. CASE Unlink(p)
  <2>2. /\ pc[p] = "unlink" /\ pc'[p] = "keep" /\ UNCHANGED <<blob, open>>
        /\ image' = [image EXCEPT ![job[p].ref] = None]
    BY <1>0, <1>23 DEF Unlink, ProcTypeOK
  <2>3. \A q \in Ref : image'[q] = image[q] \/ image'[q] = None
    BY <1>0, <2>2 DEF StoreTypeOK
  <2>4. BuiltImageWhole'
    BY <1>0, <2>2, <2>3, WholeImages
  <2>5. InHand(p)'
    BY <1>0, <2>2 DEF InHand, Building
  <2>1. Fills
    BY <1>0, <2>2, <2>4, <2>5
  <2> QED
    BY <1>1, <2>1
<1>24. CASE Keep(p)
  <2>1. Fills
    BY <1>0, <1>a, <1>b, <1>24, NextLayer
    DEF Keep, InHand, Building, ProcTypeOK, StoreTypeOK, Placed, More, Next1, Closed,
       Undisturbed
  <2> QED
    BY <1>1, <2>1
<1>25. CASE SweepImages(p)
  <2>1. Fills
    BY <1>0, <1>a, <1>b, <1>25, NextLayer
    DEF SweepImages, InHand, Building, ProcTypeOK, StoreTypeOK, Placed, More, Next1,
       Closed, Undisturbed
  <2> QED
    BY <1>1, <2>1
<1>26. CASE SweepIndex(p)
  <2>1. Fills
    BY <1>0, <1>a, <1>b, <1>26, NextLayer
    DEF SweepIndex, InHand, Building, ProcTypeOK, StoreTypeOK, Placed, More, Next1, Closed,
       Undisturbed
  <2> QED
    BY <1>1, <2>1
<1>27. CASE DiscardIndex(p)
  <2>1. Fills
    BY <1>0, <1>a, <1>b, <1>27, NextLayer
    DEF DiscardIndex, InHand, Building, ProcTypeOK, StoreTypeOK, Placed, More, Next1,
       Closed, Undisturbed
  <2> QED
    BY <1>1, <2>1
<1>28. CASE SweepList(p)
  <2>1. Fills
    BY <1>0, <1>a, <1>b, <1>28, NextLayer
    DEF SweepList, InHand, Building, ProcTypeOK, StoreTypeOK, Placed, More, Next1, Closed,
       Undisturbed
  <2> QED
    BY <1>1, <2>1
<1>29. CASE Clear(p)
  <2>1. Fills
    BY <1>0, <1>a, <1>b, <1>29, NextLayer
    DEF Clear, InHand, Building, ProcTypeOK, StoreTypeOK, Placed, More, Next1, Closed,
       Undisturbed
  <2> QED
    BY <1>1, <2>1
<1>30. CASE \E i \in Instr : Lookup(p, i)
  <2>2. PICK i \in Instr : Lookup(p, i)
    BY <1>30
  <2>3. pc[p] = "step" /\ pc'[p] \in {"run", "hit"} /\ UNCHANGED <<blob, open, image>>
    BY <1>0, <2>2 DEF Lookup, ProcTypeOK
  <2>4. job'[p].layers = job[p].layers
    <3> DEFINE d == index[<<Top(job[p].layers), i>>]
    <3>1. \/ job' = [job EXCEPT ![p].instr = i]
          \/ job' = [job EXCEPT ![p].instr = i, ![p].pick = d]
      BY <2>2 DEF Lookup
    <3> HIDE DEF d
    <3> QED
      BY <1>0, <2>3, <3>1 DEF ProcTypeOK, Job
  <2>5. InHand(p)'
    BY <1>0, <2>3, <2>4 DEF InHand, Building
  <2>1. Fills
    BY <1>0, <1>b, <2>3, <2>5
  <2> QED
    BY <1>1, <2>1
<1>31. CASE Drop(p)
  BY <1>31, DropPresent
<1> QED
  BY <1>2, <1>3, <1>4, <1>5, <1>6, <1>7, <1>8, <1>9, <1>10, <1>11, <1>12, <1>13, <1>14,
     <1>15, <1>16, <1>17, <1>18, <1>19, <1>20, <1>21, <1>22, <1>23, <1>24, <1>25, <1>26,
     <1>27, <1>28, <1>29, <1>30, <1>31
  DEF Step

LEMMA StartPresent ==
  ASSUME Sound, Present, NEW p \in Proc, Start(p)
  PROVE  Present'
<1>1. /\ pc[p] = "idle" /\ UNCHANGED <<image, blob, open>> /\ Alone(p)
      /\ pc'[p] \in {"load", "apply", "lock", "images", "clear"}
  BY StartSound
  DEF Sound, ProcTypeOK, Start, StartInstall, StartRemove, StartArchive, StartBuild,
     StartSweep, StartClear, Enter, Goto, cache
<1> SUFFICES ASSUME Undisturbed PROVE Present'
  BY DEF Present, Undisturbed
<1>2. BuiltImageWhole'
  BY <1>1 DEF Present, BuiltImageWhole, Listed
<1>3. open[p] = Closed
  BY <1>1 DEF Sound, AllPlaced, Placed, Pulling, Building
<1>4. pc'[p] = "apply" => job'[p].at = 0 /\ job'[p].layers \in Seq(Layer)
  <2>1. CASE StartArchive(p)
    <3>1. PICK s \in Served : Enter(p, "apply", [NewJob("archive", {}, None) EXCEPT !.layers = s])
      BY <2>1 DEF StartArchive
    <3>2. job'[p] = [NewJob("archive", {}, None) EXCEPT !.layers = s] /\ s \in Seq(Layer)
      BY <3>1, LayerCacheAssumption DEF Enter, Sound, ProcTypeOK
    <3> QED
      BY <3>2 DEF NewJob
  <2>2. CASE ~StartArchive(p)
    BY <2>2
    DEF Sound, ProcTypeOK, Start, StartInstall, StartRemove, StartBuild, StartSweep,
       StartClear, Enter, Goto
  <2> QED
    BY <2>1, <2>2
<1>5. pc'[p] = "lock" /\ job'[p].cmd = "build" => job'[p].layers = <<>>
  <2>1. CASE StartBuild(p)
    BY <2>1 DEF StartBuild, Enter, NewJob, Sound, ProcTypeOK
  <2>2. CASE \E r \in Ref : StartRemove(p, r)
    <3>1. PICK r \in Ref :
            Enter(p, "lock", [NewJob("remove", {r}, r) EXCEPT !.layers = image[r].layers])
      BY <2>2 DEF StartRemove
    <3>2. job'[p] = [NewJob("remove", {r}, r) EXCEPT !.layers = image[r].layers]
      BY <3>1 DEF Enter, Sound, ProcTypeOK
    <3> QED
      BY <3>2 DEF NewJob
  <2>3. CASE ~StartBuild(p) /\ ~\E r \in Ref : StartRemove(p, r)
    BY <2>3
    DEF Sound, ProcTypeOK, Start, StartInstall, StartArchive, StartSweep, StartClear,
       Enter, Goto
  <2> QED
    BY <2>1, <2>2, <2>3
<1>6. InHand(p)'
  BY <1>1, <1>3, <1>4, <1>5 DEF InHand, Building, Closed
<1> QED
  BY <1>1, <1>2, <1>6, OthersInHand DEF Present

-----------------------------------------------------------------------------
(* The theorems.                                                           *)

IInv == Sound /\ Apart /\ Garbage /\ IndexSound /\ Present

LEMMA InitIInv == Init => IInv
<1> SUFFICES ASSUME Init PROVE IInv
  OBVIOUS
<1>1. Sound
  BY LayerCacheAssumption
  DEF Init, Sound, ProcTypeOK, StoreTypeOK, AllPlaced, Placed, Labels, Entry, Content,
     NoIndex, Closed, Pulling, Building
<1>2. Apart /\ Garbage /\ IndexSound
  BY DEF Init, Apart, Garbage, IndexSound, Sweeping, Removing
<1>3. Present
  BY DEF Init, Present, InHand, Building, Closed, BuiltImageWhole
<1> QED
  BY <1>1, <1>2, <1>3 DEF IInv

LEMMA NextIInv == IInv /\ [Next]_cacheVars => IInv'
<1> SUFFICES ASSUME IInv, [Next]_cacheVars PROVE IInv'
  OBVIOUS
<1>0. Sound /\ Apart /\ Garbage /\ IndexSound /\ Present
  BY DEF IInv
<1>1. ASSUME NEW p \in Proc, Step(p)
      PROVE  IInv'
  <2>1. Sound' /\ Alone(p) /\ AddsWell(p) /\ ListsWell(p) /\ EntersWell(p)
    BY <1>0, <1>1, StepSound, StepLists, StepEnters
  <2>2. Apart' /\ Garbage'
    BY <1>0, <2>1, ApartKept, GarbageKept
  <2>3. IndexSound'
    BY <1>0, <1>1, StepIndex DEF IndexSound
  <2>4. Present'
    BY <1>0, <1>1, StepPresent DEF Present, Undisturbed
  <2> QED
    BY <2>1, <2>2, <2>3, <2>4 DEF IInv
<1>2. ASSUME NEW p \in Proc, Start(p)
      PROVE  IInv'
  <2>1. Sound' /\ Alone(p) /\ AddsWell(p) /\ ListsWell(p) /\ EntersWell(p)
    BY <1>0, <1>2, StartSound, StartLists, StartEnters
  <2>2. Apart' /\ Garbage'
    BY <1>0, <2>1, ApartKept, GarbageKept
  <2>3. IndexSound' /\ Present'
    BY <1>0, <1>2, StartIndex, StartPresent
  <2> QED
    BY <2>1, <2>2, <2>3 DEF IInv
<1>3. ASSUME NEW d \in Layer, Rot(d)
      PROVE  IInv'
  <2>1. Sound'
    BY <1>0, <1>3, RotSound
  <2>2. Damage /\ UNCHANGED <<image, index, pc, job, lock, indexLock, copy>>
    BY <1>3 DEF Rot, Rest
  <2>3. Apart'
    BY <1>0, <2>2 DEF Apart, Sweeping, Removing, Exclusive
  <2>4. Garbage'
    BY <1>0, <2>2, Unadded, Unpinned DEF Garbage, Sweeping
  <2>5. IndexSound' /\ Present'
    BY <1>0, <2>2 DEF IndexSound, Present, Undisturbed
  <2> QED
    BY <2>1, <2>3, <2>4, <2>5 DEF IInv
<1>4. CASE UNCHANGED cacheVars
  <2>1. UNCHANGED <<image, blob, index, lock, indexLock, pc, job, open, spoilt, copy>>
    BY <1>4 DEF cacheVars
  <2>2. Sound'
    BY <1>0, <2>1 DEF Sound, ProcTypeOK, StoreTypeOK, AllPlaced, Placed, HasLock, More
  <2>3. Apart'
    BY <1>0, <2>1 DEF Apart, Sweeping, Removing, Exclusive
  <2>4. Garbage'
    BY <1>0, <2>1, Unadded, Unpinned DEF Garbage, Sweeping
  <2>5. IndexSound'
    BY <1>0, <2>1 DEF IndexSound
  <2>6. Present'
    BY <1>0, <2>1 DEF Present, Undisturbed, InHand, BuiltImageWhole, Listed
  <2> QED
    BY <2>2, <2>3, <2>4, <2>5, <2>6 DEF IInv
<1> QED
  BY <1>1, <1>2, <1>3, <1>4 DEF Next

\* The cache keeps its types, every command has the locks and the data its
\* place takes, sweeps and removals meet nobody, and what is in a list to be
\* dropped is garbage - as far as the overlaps left out allow.
THEOREM CacheInvariant == Spec => []IInv
<1>1. Init => IInv
  BY InitIInv
<1>2. IInv /\ [Next]_cacheVars => IInv'
  BY NextIInv
<1> QED
  BY <1>1, <1>2, PTL DEF Spec

\* Every variable of the cache keeps its type.
THEOREM CacheTypeCorrect == Spec => []TypeOK
<1>1. IInv => TypeOK
  BY TypeParts DEF IInv, Sound, ProcTypeOK
<1> QED
  BY <1>1, CacheInvariant, PTL

\* apply_layer(): whatever overlaps and whatever rots, no command goes on with a
\* rootfs that has got bytes of no digest.
THEOREM CacheOnlyVerifiedContent == Spec => []OnlyVerifiedContent
<1>1. IInv => OnlyVerifiedContent
  BY DEF IInv, Sound, AllPlaced, Placed, OnlyVerifiedContent
<1> QED
  BY <1>1, CacheInvariant, PTL

\* record(): unless plain clear-cache runs, which takes the lock file along, no
\* build loses another's record.
THEOREM CacheRecordsKept == "clear" \notin Overlap => (Spec => RecordsKept)
<1> SUFFICES ASSUME "clear" \notin Overlap PROVE Spec => RecordsKept
  OBVIOUS
<1>1. ASSUME IInv, [Next]_cacheVars
      PROVE  [NoneLost]_cacheVars
  <2>1. ASSUME NEW p \in Proc, Step(p) PROVE NoneLost
    BY <1>1, <2>1, StepIndex DEF IInv
  <2>2. ASSUME NEW p \in Proc, Start(p) PROVE NoneLost
    BY <1>1, <2>2, StartIndex DEF IInv
  <2>3. ASSUME NEW d \in Layer, Rot(d) PROVE NoneLost
    BY <2>3 DEF Rot, NoneLost
  <2> QED
    BY <1>1, <2>1, <2>2, <2>3 DEF Next
<1>2. IInv /\ [Next]_cacheVars =>
        [\A q \in Recipe : index[q] # None /\ index'[q] = None => index' = NoIndex]_cacheVars
  BY <1>1 DEF NoneLost
<1> QED
  BY <1>2, CacheInvariant, PTL DEF Spec, RecordsKept

\* store_in_cache(): if nothing overlaps and nothing rots, an image that was
\* built has all its layers in the cache, for as long as it is there.
THEOREM CacheBuiltImageWhole == (Overlap = {} /\ ~Damage) => (Spec => []BuiltImageWhole)
<1> SUFFICES ASSUME Overlap = {}, ~Damage PROVE Spec => []BuiltImageWhole
  OBVIOUS
<1>1. IInv => BuiltImageWhole
  BY DEF IInv, Present, Undisturbed
<1> QED
  BY <1>1, CacheInvariant, PTL
=============================================================================
