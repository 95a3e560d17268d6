----------------------------- MODULE LayerCache -----------------------------
(***************************************************************************)
(* The download and build cache that the image commands share: the         *)
(* manifest cache (oci_manifests/, one entry per image reference), the     *)
(* layer blobs (oci_layers/, named by digest) and the build index          *)
(* (build_cache_index.json).  Filled by install (from a registry or from a *)
(* local OCI archive) and build, emptied by remove --image and             *)
(* clear-cache.                                                            *)
(*                                                                         *)
(* Only build and remove --image lock the image they work on; install      *)
(* locks its container; no lock guards the blobs.  An open blob is a       *)
(* descriptor, so it outlives the name.                                    *)
(***************************************************************************)
EXTENDS Integers, Sequences, FiniteSets, SequencesExt

CONSTANTS
  Proc,      \* running commands
  Ref,       \* image references
  Base,      \* layers a registry serves
  Made,      \* layers RUN, COPY and ADD can produce
  Served,    \* the layer lists a registry or an archive may name
  Instr,     \* RUN instructions
  MaxLayers, \* bound on the layers of a stage
  Overlap,   \* which commands may meet which (see MayLock)
  Damage,    \* whether the content of a blob may rot
  None

Layer == Base \cup Made
Recipe == (Layer \cup {None}) \X Instr

ASSUME LayerCacheAssumption ==
  /\ Base \cap Made = {} /\ None \notin Layer \cup Proc \cup Ref \cup Instr
  /\ Served \subseteq Seq(Layer) /\ <<>> \notin Served
  /\ MaxLayers \in Nat
  /\ Overlap \subseteq {"sweep",   \* a lock may be taken while a sweep works
                        "remove",  \* remove --image may meet install and build
                        "clear"}   \* plain clear-cache may run
  /\ Damage \in BOOLEAN

VARIABLES
  image,      \* image[r]: the manifest cache entry of r, or None
  blob,       \* blob[d]: the content under the digest's name
  index,      \* index[q]: the layer recorded for the recipe q, or None
  lock,       \* lock[r]: the command holding r's BuildLock, or None
  indexLock,  \* the command holding the index lock file, or None
  pc, job,    \* what each command does next, and with what
  open,       \* open[p][d]: the content behind p's descriptor of d
  spoilt,     \* the commands whose rootfs has content of no digest
  copy        \* copy[p]: the index as record() read it

cache == <<image, blob, index>>
cacheVars == <<image, blob, index, lock, indexLock, pc, job, open, spoilt, copy>>

Content == {"none", "good", "bad"}
NoIndex == [q \in Recipe |-> None]
Closed == [d \in Layer |-> "none"]

Job == [cmd : {"install", "archive", "build", "remove", "orphan", "build-cache", "clear"},
        refs : SUBSET Ref,               \* whose BuildLocks it takes
        ref : Ref \cup {None},           \* the image it pulls
        layers : Seq(Layer),             \* that image's, or the stage's
        at : Nat,                        \* how many of them are dealt with
        todo : SUBSET Layer,             \* blobs to be unlinked
        left : SUBSET Ref,               \* tags to be stored
        instr : Instr \cup {None}, pick : Layer \cup {None}]

NewJob(c, rs, r) ==
  [cmd |-> c, refs |-> rs, ref |-> r, layers |-> <<>>, at |-> 0,
   todo |-> {}, left |-> rs, instr |-> None, pick |-> None]

TypeOK ==
  /\ image \in [Ref -> [layers : Seq(Layer), built : BOOLEAN] \cup {None}]
  /\ blob \in [Layer -> Content]
  /\ index \in [Recipe -> Layer \cup {None}]
  /\ lock \in [Ref -> Proc \cup {None}]
  /\ indexLock \in Proc \cup {None}
  /\ pc \in [Proc -> {"idle", "lock", "load", "fetch", "verify", "verifyEvict",
                      "apply", "applyEvict", "spoilt", "finish",
                      "from", "inherit", "step", "hit", "hitEvict", "run",
                      "record", "recording", "store",
                      "unlink", "keep", "drop", "images", "index", "list", "clear"}]
  /\ \A p \in Proc : IF pc[p] = "idle" THEN job[p] = None ELSE job[p] \in Job
  /\ open \in [Proc -> [Layer -> Content]]
  /\ spoilt \subseteq Proc
  /\ copy \in [Proc -> [Recipe -> Layer \cup {None}]]
  /\ \A r \in Ref : lock[r] # None => pc[lock[r]] # "idle" /\ r \in job[lock[r]].refs

Init ==
  /\ image = [r \in Ref |-> None]
  /\ blob = Closed
  /\ index = NoIndex
  /\ lock = [r \in Ref |-> None] /\ indexLock = None
  /\ pc = [p \in Proc |-> "idle"] /\ job = [p \in Proc |-> None]
  /\ open = [p \in Proc |-> Closed]
  /\ spoilt = {}
  /\ copy = [p \in Proc |-> NoIndex]

-----------------------------------------------------------------------------
(* Starting, locking, stopping.                                            *)

\* Holds an exclusive lock that busy_locks() can see: a container's, an
\* image's.
Exclusive(p) ==
  \/ pc[p] # "idle" /\ job[p].cmd \in {"install", "archive"}
  \/ \E r \in Ref : lock[r] = p

Removing(p) == pc[p] \in {"unlink", "keep"} \/ (pc[p] = "drop" /\ job[p].cmd = "remove")
Sweeping(p) ==
  pc[p] \in {"images", "index", "list", "drop"} /\ job[p].cmd \in {"orphan", "build-cache"}

\* Nothing in the code keeps these apart; the runs that show what is right
\* in spite of it do.
MayLock(p, c) ==
  /\ "sweep" \in Overlap \/ \A q \in Proc : ~Sweeping(q)
  /\ \/ "remove" \in Overlap
     \/ \A q \in Proc \ {p} : ~Removing(q) /\ (c = "remove" => ~Exclusive(q))

Goto(p, l) == pc' = [pc EXCEPT ![p] = l]

Enter(p, l, j) ==
  /\ pc[p] = "idle"
  /\ Goto(p, l)
  /\ job' = [job EXCEPT ![p] = j]
  /\ UNCHANGED <<cache, lock, indexLock, open, spoilt, copy>>

\* install REF, under its container's lock.
StartInstall(p, r) ==
  MayLock(p, "install") /\ Enter(p, "load", NewJob("install", {}, r))

\* install ./image.oci.tar: its layers are cached, its manifest is not.
StartArchive(p) ==
  /\ MayLock(p, "archive")
  /\ \E s \in Served :
       Enter(p, "apply", [NewJob("archive", {}, None) EXCEPT !.layers = s])

StartBuild(p) ==
  \E rs \in SUBSET Ref : rs # {} /\ Enter(p, "lock", NewJob("build", rs, None))

\* The entry is read, its layers remembered, and then it is locked.
StartRemove(p, r) ==
  /\ image[r] # None
  /\ Enter(p, "lock", [NewJob("remove", {r}, r) EXCEPT !.layers = image[r].layers])

\* Mutant: the busy probe is forgotten.
StartSweepUnprobed(p) ==
  \E c \in {"orphan", "build-cache"} : Enter(p, "images", NewJob(c, {}, None))

StartSweep(p) ==
  /\ \A q \in Proc : ~Exclusive(q)
  /\ \E c \in {"orphan", "build-cache"} : Enter(p, "images", NewJob(c, {}, None))

StartClear(p) == "clear" \in Overlap /\ Enter(p, "clear", NewJob("clear", {}, None))

TakeLock(p) ==
  /\ pc[p] = "lock" /\ MayLock(p, job[p].cmd)
  /\ \E r \in job[p].refs :
       /\ lock[r] = None
       /\ lock' = [lock EXCEPT ![r] = p]
       /\ Goto(p, IF \E s \in job[p].refs \ {r} : lock[s] # p THEN "lock"
                  ELSE IF job[p].cmd = "build" THEN "from" ELSE "unlink")
  /\ UNCHANGED <<cache, indexLock, job, open, spoilt, copy>>

\* Mutant: the process lives on with its lock objects.
StopLocked(p) ==
  /\ Goto(p, "idle")
  /\ job' = [job EXCEPT ![p] = None]
  /\ indexLock' = IF indexLock = p THEN None ELSE indexLock
  /\ open' = [open EXCEPT ![p] = Closed]
  /\ spoilt' = spoilt \ {p}
  /\ copy' = [copy EXCEPT ![p] = NoIndex]
  /\ UNCHANGED <<cache, lock>>

\* The end of a command, good or bad: an error, Ctrl-C, a busy lock, a kill.
\* Descriptors and locks go, scratch trees and the rootfs of a failed
\* install are deleted, the cache stays as it is.
Stop(p) ==
  /\ Goto(p, "idle")
  /\ job' = [job EXCEPT ![p] = None]
  /\ lock' = [r \in Ref |-> IF lock[r] = p THEN None ELSE lock[r]]
  /\ indexLock' = IF indexLock = p THEN None ELSE indexLock
  /\ open' = [open EXCEPT ![p] = Closed]
  /\ spoilt' = spoilt \ {p}
  /\ copy' = [copy EXCEPT ![p] = NoIndex]
  /\ UNCHANGED cache

End(p) == pc[p] # "idle" /\ Stop(p)

-----------------------------------------------------------------------------
(* pull_image(), for install and for a build's FROM.                       *)

Next1(p) == job[p].layers[job[p].at + 1]     \* the layer whose turn it is
More(p) == job[p].at < Len(job[p].layers)
Advance(p) == job' = [job EXCEPT ![p].at = @ + 1]
Rest == <<lock, indexLock, spoilt, copy>>

Load(p) ==
  /\ pc[p] = "load"
  /\ IF image[job[p].ref] = None
       THEN Goto(p, "fetch") /\ UNCHANGED job
       ELSE /\ Goto(p, "verify")
            /\ job' = [job EXCEPT ![p].layers = image[job[p].ref].layers, ![p].at = 0]
  /\ UNCHANGED <<cache, open, Rest>>

\* The registry's manifest is cached before any layer of it is.
Fetch(p) ==
  /\ pc[p] = "fetch"
  /\ \E s \in Served \cap Seq(Base) :
       /\ image' = [image EXCEPT ![job[p].ref] = [layers |-> s, built |-> FALSE]]
       /\ job' = [job EXCEPT ![p].layers = s, ![p].at = 0]
  /\ Goto(p, "verify")
  /\ UNCHANGED <<blob, index, open, Rest>>

\* open_verified_layer(): the blob is opened and hashed; one that does not
\* match is unlinked, by name and after the fact.
OpenVerified(p, d) == blob[d] = "good" /\ open' = [open EXCEPT ![p][d] = "good"]

\* _usable_cached_layers(): every layer is tried before any is applied.
Verify(p) ==
  /\ pc[p] = "verify" /\ More(p)
  /\ LET d == Next1(p) IN
       \/ OpenVerified(p, d) /\ Advance(p) /\ UNCHANGED pc
       \/ blob[d] = "none" /\ Advance(p) /\ UNCHANGED <<pc, open>>
       \/ blob[d] = "bad" /\ Goto(p, "verifyEvict") /\ UNCHANGED <<job, open>>
  /\ UNCHANGED <<cache, Rest>>

Verified(p) ==
  /\ pc[p] = "verify" /\ ~More(p)
  /\ Goto(p, "apply")
  /\ job' = [job EXCEPT ![p].at = 0]
  /\ UNCHANGED <<cache, open, Rest>>

Evicted(p) == CASE pc[p] = "hitEvict" -> job[p].pick [] OTHER -> Next1(p)

Evict(p) ==
  /\ pc[p] \in {"verifyEvict", "applyEvict", "hitEvict"}
  /\ blob' = [blob EXCEPT ![Evicted(p)] = "none"]
  /\ Goto(p, CASE pc[p] = "verifyEvict" -> "verify" [] pc[p] = "applyEvict" -> "apply"
               [] OTHER -> "run")
  /\ UNCHANGED <<image, index, job, open, Rest>>

\* download_blob() and its counterpart for archives: the cache is asked once
\* more; what is fetched is published only when its hash is right, and the
\* descriptor it was written through is the one that is read.
Download(p) ==
  /\ pc[p] = "apply" /\ More(p)
  /\ LET d == Next1(p) IN
       /\ open[p][d] = "none"
       /\ \/ OpenVerified(p, d) /\ UNCHANGED <<blob, pc>>
          \/ blob[d] = "bad" /\ Goto(p, "applyEvict") /\ UNCHANGED <<blob, open>>
          \/ /\ blob[d] = "none"
             /\ d \in Base \/ job[p].cmd = "archive"
             /\ blob' = [blob EXCEPT ![d] = "good"]
             /\ open' = [open EXCEPT ![p][d] = "good"]
             /\ UNCHANGED pc
  /\ UNCHANGED <<image, index, job, Rest>>

\* Mutant: the extraction does not hash what it reads.
ApplyUnchecked(p) ==
  /\ pc[p] = "apply" /\ More(p) /\ open[p][Next1(p)] # "none"
  /\ Advance(p)
  /\ spoilt' = IF open[p][Next1(p)] = "bad" THEN spoilt \cup {p} ELSE spoilt
  /\ UNCHANGED <<cache, lock, indexLock, pc, open, copy>>

\* apply_layer() hashes the bytes as it extracts them, so a mismatch shows
\* when the rootfs has them already.
Apply(p) ==
  /\ pc[p] = "apply" /\ More(p) /\ open[p][Next1(p)] # "none"
  /\ IF open[p][Next1(p)] = "good"
       THEN Advance(p) /\ UNCHANGED <<pc, spoilt>>
       ELSE Goto(p, "spoilt") /\ spoilt' = spoilt \cup {p} /\ UNCHANGED job
  /\ UNCHANGED <<cache, lock, indexLock, open, copy>>

Applied(p) ==
  /\ pc[p] = "apply" /\ ~More(p)
  /\ Goto(p, IF job[p].cmd = "build" THEN "step" ELSE "finish")
  /\ open' = [open EXCEPT ![p] = Closed]
  /\ UNCHANGED <<cache, job, Rest>>

-----------------------------------------------------------------------------
(* build: stages, steps, the index, the tags.                              *)

\* FROM scratch, FROM an image, FROM an earlier stage.
From(p) ==
  /\ pc[p] = "from"
  /\ \/ Goto(p, "step") /\ job' = [job EXCEPT ![p].layers = <<>>, ![p].at = 0]
     \/ \E r \in Ref : Goto(p, "load") /\ job' = [job EXCEPT ![p].ref = r]
     \/ job[p].layers # <<>> /\ Goto(p, "inherit") /\ job' = [job EXCEPT ![p].at = 0]
  /\ UNCHANGED <<cache, open, Rest>>

\* open_required_layer(): a missing layer ends the build.
Inherit(p) ==
  /\ pc[p] = "inherit"
  /\ IF More(p) THEN blob[Next1(p)] = "good" /\ Advance(p) /\ UNCHANGED pc
                ELSE Goto(p, "step") /\ UNCHANGED job
  /\ UNCHANGED <<cache, open, Rest>>

NextStage(p) ==
  /\ pc[p] = "step" /\ Goto(p, "from")
  /\ UNCHANGED <<cache, job, open, Rest>>

Top(s) == IF s = <<>> THEN None ELSE Last(s)
RecipeOf(p) == <<Top(job[p].layers), job[p].instr>>

\* RUN, unless --no-cache, asks the index first.
Lookup(p, i) ==
  LET d == index[<<Top(job[p].layers), i>>] IN
  /\ pc[p] = "step" /\ Len(job[p].layers) < MaxLayers
  /\ \/ Goto(p, "run") /\ job' = [job EXCEPT ![p].instr = i]
     \/ /\ d # None /\ Goto(p, "hit")
        /\ job' = [job EXCEPT ![p].instr = i, ![p].pick = d]
  /\ UNCHANGED <<cache, open, Rest>>

Append1(p, d) == [job[p] EXCEPT !.layers = Append(@, d), !.at = Len(job[p].layers)]

Hit(p) ==
  LET d == job[p].pick IN
  /\ pc[p] = "hit"
  /\ \/ /\ OpenVerified(p, d) /\ Goto(p, "apply")
        /\ job' = [job EXCEPT ![p] = Append1(p, d)]
     \/ blob[d] = "none" /\ Goto(p, "run") /\ UNCHANGED <<job, open>>
     \/ blob[d] = "bad" /\ Goto(p, "hitEvict") /\ UNCHANGED <<job, open>>
  /\ UNCHANGED <<cache, Rest>>

\* publish_file(): the layer a step produced, under its digest.
Publish(p, d) ==
  /\ blob' = [blob EXCEPT ![d] = "good"]
  /\ UNCHANGED <<image, index, open, Rest>>

Run(p) ==
  /\ pc[p] = "run" /\ Goto(p, "record")
  /\ \E d \in Made : Publish(p, d) /\ job' = [job EXCEPT ![p].pick = d]

\* COPY and ADD are not recorded in the index.
Copy(p) ==
  /\ pc[p] = "step" /\ Len(job[p].layers) < MaxLayers /\ UNCHANGED pc
  /\ \E d \in Made : Publish(p, d) /\ job' = [job EXCEPT ![p] = Append1(p, d)]

\* Mutant: the index is read without its lock.
RecordUnlocked(p) ==
  /\ pc[p] = "record"
  /\ copy' = [copy EXCEPT ![p] = index]
  /\ Goto(p, "recording")
  /\ UNCHANGED <<cache, lock, indexLock, job, open, spoilt>>

\* record() waits for the index lock, then reads, ...
Record(p) ==
  /\ pc[p] = "record" /\ indexLock = None
  /\ indexLock' = p
  /\ copy' = [copy EXCEPT ![p] = index]
  /\ Goto(p, "recording")
  /\ UNCHANGED <<cache, lock, job, open, spoilt>>

\* ... and replaces the file.
Recorded(p) ==
  LET d == job[p].pick IN
  /\ pc[p] = "recording"
  /\ index' = [copy[p] EXCEPT ![RecipeOf(p)] = d]
  /\ indexLock' = IF indexLock = p THEN None ELSE indexLock
  /\ copy' = [copy EXCEPT ![p] = NoIndex]
  /\ job' = [job EXCEPT ![p] = Append1(p, d)]
  /\ Goto(p, "step")
  /\ UNCHANGED <<image, blob, lock, open, spoilt>>

Built(p) == pc[p] = "step" /\ Goto(p, "store") /\ UNCHANGED <<cache, job, open, Rest>>

\* store_in_cache(), tag after tag.
Store(p) ==
  /\ pc[p] = "store"
  /\ \E r \in job[p].left :
       /\ image' = [image EXCEPT ![r] = [layers |-> job[p].layers, built |-> TRUE]]
       /\ job' = [job EXCEPT ![p].left = @ \ {r}]
  /\ UNCHANGED <<blob, index, pc, open, Rest>>

\* --install-as: install the first tag, still under the BuildLocks.
InstallAs(p) ==
  /\ pc[p] = "store" /\ job[p].left = {}
  /\ Goto(p, "load")
  /\ \E r \in job[p].refs : job' = [job EXCEPT ![p].cmd = "install", ![p].ref = r]
  /\ UNCHANGED <<cache, open, Rest>>

-----------------------------------------------------------------------------
(* remove --image and clear-cache.                                         *)

Listed(r) == IF image[r] = None THEN {} ELSE ToSet(image[r].layers)
Referenced == UNION {Listed(r) : r \in Ref}
Pinned == {index[q] : q \in Recipe} \ {None}

Unlink(p) ==
  /\ pc[p] = "unlink" /\ Goto(p, "keep")
  /\ image' = [image EXCEPT ![job[p].ref] = None]
  /\ UNCHANGED <<blob, index, job, open, Rest>>

\* The inventory is read again after the entry has gone.
Keep(p) ==
  /\ pc[p] = "keep" /\ Goto(p, "drop")
  /\ job' = [job EXCEPT ![p].todo = ToSet(job[p].layers) \ Referenced]
  /\ UNCHANGED <<cache, open, Rest>>

\* One name after the other; one that cannot be unlinked is skipped.
Drop(p) ==
  /\ pc[p] = "drop"
  /\ \E d \in job[p].todo :
       /\ blob' = [blob EXCEPT ![d] = "none"]
       /\ job' = [job EXCEPT ![p].todo = @ \ {d}]
  /\ UNCHANGED <<image, index, pc, open, Rest>>

\* The sweep reads the manifests, then the index or, with --build-cache,
\* deletes it, and then lists the blobs that none of them named.
SweepImages(p) ==
  /\ pc[p] = "images" /\ Goto(p, "index")
  /\ job' = [job EXCEPT ![p].todo = Layer \ Referenced]
  /\ UNCHANGED <<cache, open, Rest>>

SweepIndex(p) ==
  /\ pc[p] = "index" /\ job[p].cmd = "orphan" /\ Goto(p, "list")
  /\ job' = [job EXCEPT ![p].todo = @ \ Pinned]
  /\ UNCHANGED <<cache, open, Rest>>

DiscardIndex(p) ==
  /\ pc[p] = "index" /\ job[p].cmd = "build-cache" /\ Goto(p, "list")
  /\ index' = NoIndex
  /\ UNCHANGED <<image, blob, job, open, Rest>>

SweepList(p) ==
  /\ pc[p] = "list" /\ Goto(p, "drop")
  /\ job' = [job EXCEPT ![p].todo = {d \in @ : blob[d] # "none"}]
  /\ UNCHANGED <<cache, open, Rest>>

\* Plain clear-cache deletes whatever is there, lock file of the index
\* included: its holder is left with the lock of a nameless file.
Clear(p) ==
  /\ pc[p] = "clear"
  /\ \/ \E r \in Ref : image' = [image EXCEPT ![r] = None] /\ UNCHANGED <<blob, index, indexLock>>
     \/ \E d \in Layer : blob' = [blob EXCEPT ![d] = "none"] /\ UNCHANGED <<image, index, indexLock>>
     \/ index' = NoIndex /\ UNCHANGED <<image, blob, indexLock>>
     \/ indexLock' = None /\ UNCHANGED cache
  /\ UNCHANGED <<pc, job, lock, open, spoilt, copy>>

-----------------------------------------------------------------------------
\* Storage, or a guest with the cache bound into it, alters a blob; a
\* descriptor of the same file reads the altered content.
Rot(d) ==
  /\ Damage /\ blob[d] = "good"
  /\ blob' = [blob EXCEPT ![d] = "bad"]
  /\ \E ps \in SUBSET {p \in Proc : open[p][d] = "good"} :
       open' = [p \in Proc |-> IF p \in ps THEN [open[p] EXCEPT ![d] = "bad"] ELSE open[p]]
  /\ UNCHANGED <<image, index, pc, job, Rest>>

Start(p) ==
  \/ \E r \in Ref : StartInstall(p, r) \/ StartRemove(p, r)
  \/ StartArchive(p) \/ StartBuild(p) \/ StartSweep(p) \/ StartClear(p)

Step(p) ==
  \/ TakeLock(p) \/ End(p)
  \/ Load(p) \/ Fetch(p) \/ Verify(p) \/ Verified(p) \/ Evict(p)
  \/ Download(p) \/ Apply(p) \/ Applied(p)
  \/ From(p) \/ Inherit(p) \/ NextStage(p)
  \/ (\E i \in Instr : Lookup(p, i)) \/ Hit(p) \/ Run(p) \/ Copy(p)
  \/ Record(p) \/ Recorded(p) \/ Built(p) \/ Store(p) \/ InstallAs(p)
  \/ Unlink(p) \/ Keep(p) \/ Drop(p)
  \/ SweepImages(p) \/ SweepIndex(p) \/ DiscardIndex(p) \/ SweepList(p)
  \/ Clear(p)

Next == (\E p \in Proc : Start(p) \/ Step(p)) \/ \E d \in Layer : Rot(d)

Spec == Init /\ [][Next]_cacheVars

-----------------------------------------------------------------------------
(* Properties.                                                             *)

\* No container is installed and no image built from bytes that are not of
\* the digests its manifest names, though blobs rot or are swapped between
\* the check and the extraction and other commands sweep, evict and replace
\* them meanwhile.
OnlyVerifiedContent ==
  \A p \in Proc : p \in spoilt => pc[p] \notin {"finish", "step", "store"}

\* record(): "concurrent builds don't clobber each other's records"; an entry
\* goes only when the whole index is discarded.
RecordsKept ==
  [][\A q \in Recipe : index[q] # None /\ index'[q] = None => index' = NoIndex]_cacheVars

\* store_in_cache(): an image that was built installs offline, its layers are
\* all in the cache.
BuiltImageWhole ==
  \A r \in Ref : image[r] # None /\ image[r].built =>
    \A d \in Listed(r) : blob[d] # "none"
=============================================================================
