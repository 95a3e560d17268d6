# proot-distro in TLA+

A verification project for proot-distro, the Termux program that installs Linux
distributions from OCI images, builds images from Dockerfiles and runs sessions
in them under proot. The program is a command-line tool: there is no server.
Every invocation is a process of its own, and what the invocations share is the
runtime directory (`containers/`, the image cache, `locks/`, `sessions/`). What
makes it hard is therefore the interleaving of independent commands over one
directory tree, commands that are killed half way, sessions that outlive the
command that started them, and removals that follow a listing made earlier.

The modules model that. Every definition that stands for code names its lines
in `PROJECT.json` under `map`; the paths below are relative to
`src/proot_distro/`.

Contents: [Inventory](#inventory), [Plan](#plan), [Modules](#modules),
[Runs](#runs-bounds-and-what-they-show), [Findings](#findings),
[Proofs](#proofs), [Fairness and deadlock](#fairness-and-deadlock),
[Not modelled](#not-modelled), [Running](#running).

## Inventory

### Components

| Component | State it keeps | Operations | What is hard | What makes it correct |
|---|---|---|---|---|
| Advisory locks (`locking.py`) | a lock file per container, build tag and for the build index; the kernel's flock on the open file description; `_held` and `_held_exclusive` in the process | `acquire`, `disown`, `release`, re-entrant acquire, `busy_locks` | non-blocking locks raced by many commands; descriptions inherited over fork and exec; file systems without flock | a writer is alone; the in-process set never claims a lock the process does not have; the file names the holder |
| Session registry (`session.py`) | `sessions/<pid>.json`, flocked for the life of the session | `register_session`, `active_sessions` with prune | readers probe, prune and report while sessions register, exec and die; PIDs come back | a running session is listed, a dead one is not, a record is complete when it appears |
| Sessions (`commands/login/`, `run.py`) | the shared container lock, the report pipe | foreground login, detached login (double fork, `disown`, exec), `run` | fork and flock share a description; the daemon may die before it reports; interrupts | a session holds its container's lock for as long as it lives; the foreground reports what happened |
| Container lifecycle (`install`, `reset`, `restore`, `remove`, `rename`, `backup`, migration) | `containers/<name>/rootfs` and `manifest.json`; legacy rootfs | one command each | checks before locks, commit points, cleanup of partial work, failure and SIGKILL between two steps | nothing disappears under a session; rootfs and manifest belong together; only a request to destroy destroys |
| Image caches (`helpers/docker/cache.py`, `layers.py`, `pull.py`, `helpers/build_cache.py`, `commands/clear_cache.py`, `commands/remove.py`) | `manifests/`, `layers/`, the build index | pull, import, build, store, `remove --image`, three kinds of `clear-cache` | content is shared by images, and each command decides what to delete from an inventory it made earlier | no bytes of another digest reach a rootfs; what an image references stays; no index record is lost |
| Build engine (`helpers/build_engine/`) | per stage a rootfs, its layers, the image config; the build index | one handler per instruction | every instruction writes twice, into the rootfs and into a layer; stages, `.dockerignore`, the cache key | the layers applied to the base image give the tree the instructions worked on |
| RUN step processes (`run_step.py`) | the process table, the subreaper flag | start, poll, SIGTERM and SIGKILL at leftovers, reap | daemons that outlive the command, double forks, processes deaf to SIGTERM, stragglers of the step before | a layer is packed only when nothing of the step runs; nothing is stopped before the command has ended |
| `layer_diff.py`, `tar_extract.py` | a tree and its diff; a tree and a layer | diff; apply with whiteouts | order of replacement and whiteouts | applying a diff gives the tree it was made of |
| `kill.py` | none: reads `/proc` and the registry | resolve roots, signal, wait, escalate | the tree changes while it is walked; proot ignores most signals | what was targeted is gone or is reported |
| `copy.py`, `sync.py` | container locks; the lists of what was seen, skipped and failed | copy, `--move`, mirror with `--delete` | the source changes while it is walked twice; listing and deletion apart; any entry may fail | exit 0 means that the destination mirrors the source; `--delete` and `--move` remove nothing that was not carried across |
| `paths.py` | a resolved path, a pinned descriptor | resolve as the container sees it, pin | a session swaps directories and links between the two | the directory worked in is one of the container's |
| `push.py`, `transport.py`, `download.py` | a cached manifest, blobs, the remote repository; a temporary file | authentication, presence check, upload, retries, redirects | requests and answers lost, redirects anywhere, blobs that vanish, bodies cut short | credentials stay with their origin; a tag names only what the registry has; a file is whole or absent |
| `atomic.py`, `dirfd.py`, `statedir.py` | temporary files; open directory levels | publish, descend, remove a tree | descriptors are closed and reopened while a guest moves directories | readers see the old or the new file; a removal leaves nothing behind unsaid and touches nothing else |
| Small parts (`sysdata`, `shm`, `parser`, `help`, `list`, `ps`, `search`, `distros`) | none worth the name | parsing, printing, file contents | nothing concurrent | by reading |

### How they interact

```
 install/reset/restore/remove/rename ──exclusive──┐
 login/run/backup/copy/sync ─────────shared───────┤ containers/<name>.lock
 detached session (inherited description) ────────┘
 login/run ── publish/flock ──> sessions/<pid>.json <── probe, prune ── ps/kill/remove
 install, build ──> manifests/ + layers/ <── remove --image, clear-cache
 build ── index lock ──> build index <── clear-cache --build-cache
 clear-cache --orphan/--build-cache ── busy_locks() probe ──> every lock file
```

* A command calls `acquire` in its own process and either gets the lock or
  stops: no lock is ever waited for, except the build index's.
* `login -d` forks. The flock is on the open file description, so parent and
  daemon have one lock between them, and an unlock by either unlocks both.
* Two components never call back into a third; what they share, they share on
  disk. That is why the modules below can each take the locks as given.

### Hazards

`PROJECT.json` lists each with its line and the properties that would catch it
going wrong. The recurring shapes in this code are: (1) a value read before the
lock and used after it (`reset`, `run`, `rename`), (2) a decision to delete made
from an inventory or a probe (`remove --image`, sweeps, session prune), (3) two
things replaced in two steps (`restore`: rootfs, manifest; `install`: rootfs,
manifest), (4) a lock that is shared through a fork, (5) a check by content
followed by a use by name or by descriptor (layers).

## Plan

| # | Module | What it is about | State |
|---|---|---|---|
| 1 | `ReadersWriterLock`, `Locking`, `LockingProofs` | the locks, the abstract lock they implement, proofs | done |
| 2 | `SessionRegistry`, `SessionRegistryProofs` | records of sessions and their readers, proofs | done |
| 3 | `DetachedLogin` (extends `Locking`), `LockingProofs` | fork, `disown`, exec, report pipe, proofs | done |
| 4 | `ContainerLifecycle`, `ContainerLifecycleProofs` | the commands over containers, proofs | done |
| 5 | `LayerCache`, `LayerCacheProofs` | manifests, layers, build index and their sweeps, proofs | done |
| 6 | `KillTeardown`, `KillTeardownProofs` | process forest, signals, escalation, proofs | done |
| 7 | `HttpClient`, `Download`, `Push`, composed by `Transfer`; `TransferProofs` | push and downloads over a network that loses, repeats and redirects | done |
| 8 | `Rootfs`, `ImageBuild`, `ImageBuildProofs` | trees and layers: diff, extraction, the instructions of a build, proofs | done |
| 9 | `RunStep`, `TreesProofs` | what a RUN step leaves running, proofs | done |
| 10 | `Mirror`, `TreesProofs` | sync, copy, move, proofs | done |
| 11 | `Endpoint`, `TreesProofs` | resolution and pinning of container paths, proofs | done |
| 12 | `Levels`, `TreesProofs` | removal with a bounded number of descriptors, proofs | done |
| | `Trees`, `TreesProofs` | one command of 8 to 12, proofs | done |
| 13 | the overlap check of copy and sync, archive lookup of `install_local.py`, expansion of Dockerfile words | pure algorithms | left |

Abstract specifications worth stating: the readers-writer lock (done); a
container as an atomic register of (rootfs, manifest) that restore and install
write; the content-addressed store that never serves wrong bytes; for sync, that exit 0
means a mirror (`MirrorsSource`); for a build, that its layers give its tree
(`LayersReplay`).

Theorems, in order: `Locking` (done); `TypeOK`, `SessionUndisturbed` and
`DestroyedOnlyOnRequest` for `ContainerLifecycle` (done); all properties of
`SessionRegistry` (done); the safety properties of `Transfer` (done) and of `RunStep`
(done); all properties of `LayerCache`, each without the overlap that breaks it (done);
`SessionSeesWhole` and `ManifestNamesRootfs` for `ContainerLifecycle` (done);
the safety properties of `DetachedLogin` (done), of `KillTeardown` (done), of `Levels`
(done) and of `Mirror` (done); `CleanLayersReplay` for `ImageBuild`, an induction over layers
and their members (done); `PinnedWhereAsked` for `Endpoint` (done); and all of them for
`Trees`, which is what the run checks (done). So every invariant and every action property
of a passing run is stated by a theorem; what is left to TLC alone is liveness. No module
declares a RECURSIVE operator: what recurses (the walk of a path by the kernel and by the
container, the hops of a link) is a recursive function.

## Modules

### ReadersWriterLock

The promise of `locking.py`: a set of readers or one writer per path. Four
actions: admit and retire a reader or a writer. It knows nothing of files,
descriptions or forks.

### Locking

`acquire`, `disown`, `release` and `busy_locks`, with the kernel's side spelled
out:

| Variable | In the code |
|---|---|
| `lock[h]` | a `ContainerLock` or `BuildLock` object: which process, which lock file, shared or exclusive, `_reentrant`, `_disowned`, and how far it got |
| `ofd[h]` | the open file description the object's `acquire` made: path, mode of the flock, the processes that have it open, whether it survives an exec |
| `heldExclusive[p]` | the module global `_held_exclusive` in `p`'s memory |
| `record[l]` | the PID in the first line of the lock file |
| `proc[p]` | the life of the process: not started, running, forked child, proot, gone |

Each way through `acquire` is an action: `AcquireReentrant`, `AcquireUnlocked`
(no lock file can be had, or the file system does not lock: the command goes on
without one), `AcquireBarred` (fails closed), `AcquireBusy`, `AcquireGranted`. The open
and the non-blocking flock are one step, for nobody can tell them apart; the
truncation and the write of the holder line are a second one (`WriteRecord`), for
others run in between. `Release` has the code's three outcomes (re-entrant:
nothing; disowned: close; otherwise: LOCK_UN and close), and LOCK_UN through one
descriptor unlocks the description for everybody who shares it. `Fork`, `Exec`
and `Exit` (a crash or SIGKILL at any point too) are what the kernel does with
descriptors. The client is free except for what every call site does:
`with` blocks nest, only shared locks are inheritable, and a process execs only
while all it holds is inheritable.

The refinement mapping reads the abstract lock off the kernel: the readers of
a path are the descriptions with a shared flock on it, its writer the one
with an exclusive flock. A lock is abstractly granted at the successful flock,
not at the return of `acquire`.

### SessionRegistry

`register_session` opens a temporary file, flocks it, writes the record,
renames it over `<pid>.json` and execs proot, which inherits the lock; any
failure on the way gives up the file and never the session (`Abandon`).
`active_sessions` lists names and, per name, reads the record (`ReadRecord`),
probes with a shared flock (`Probe`, `ProbeUnlock`) and unlinks what is stale
(`Prune`) - each opens the *name* again. Any of these calls may fail although the file is
there (`Fails`): a directory that cannot be listed is an empty one, a record that cannot
be read is not reported, one that cannot be opened counts as dead, and one whose flock
fails, for whatever reason, as alive. `erred` remembers which call failed on whose file. So files have an identity (the session
that made them) and `entry[pid]` says which one a name points to: every
interesting case is one where these two differ. A session has a root process and
guests, which may outlive it. There are fewer PIDs than sessions, so a dead
session's PID comes back. The three properties speak of the sessions
whose PID did not (`OwnPid`), since a name may be taken over between a reader's probe
and its unlink, and each excepts by name the files on which the call that decides had
failed; see the remarks.

### DetachedLogin

Extends `Locking`; every action is a `Locking` action together with a step of
the command's program counter `pc`, or leaves the locks alone. It has the
foreground (lock, set up, exec, or fork; close the write end, read the
report, `disown`, release), the middle process of the double fork, the daemon
(PID, exec, or reason and exit), a `Writer` that stands for any command that
takes the container exclusively, SIGKILL of anybody at any point, and with
`Interrupts` a Ctrl-C in the foreground or in the middle process, which unwinds its
copy of the `with` block (`MiddleInterrupted`, the one step that is not one of
`Locking`: there a process that still shares the description unlocks it while
others rely on it). `pipe[f]` is the set of open write ends and what came through.

### ContainerLifecycle

| Variable | In the code |
|---|---|
| `made` | the directories under `containers/` |
| `rootfs[n]` | `containers/<n>/rootfs`: the image or archive it came from, whether it is all there, and the name its link2symlink targets point to |
| `manifest[n]` | the image `containers/<n>/manifest.json` names |
| `legacy` | names still under `installed-rootfs/` |
| `shared`, `exclusive` | the locks, as `ReadersWriterLock` (which `Locking` is proved to implement) |
| `pc[p]`, `job[p]` | the command, where it is, the names and the source it works with |

The `Start...` actions are what a command looks at before it asks for a lock
(reset and run read the manifest there, rename checks its two names), then it
takes its locks or leaves (`Busy`), and then works. `install` fails at any
point and discards; `remove` deletes in two steps; `rename` moves and then
relinks; `restore` may reject, commits at the first rootfs member, and may
break after it; login and run migrate a legacy rootfs under the shared lock, or fail to
and find nothing installed (`MigrateFails`).
`Faults` selects `"kill"` (SIGKILL between two steps), `"io"` (a removal, a
rewrite or a write that fails half way) and `"abort"` (a restore stopped
after its commit point). Each fault is an action (`Fault(p)` collects them), and
the history variable `hurt` has the names that a fault has hit since they
were last filled: `SessionSeesWhole` and `ManifestNamesRootfs` promise a
whole and correctly named container wherever no fault struck, that is, that
no fault spreads to a container its command did not own and that nothing but a
fault breaks one. Two more sources of divergence are left out of these two
properties by name: content of a legacy rootfs, which never had a manifest, and
archives without one (`Plain`).

### LayerCache

| Variable | In the code |
|---|---|
| `image[r]` | the manifest cache entry of a reference: its layers, and whether a build made it |
| `blob[d]` | what is under the digest's name: nothing, the right bytes, other bytes |
| `index[q]` | the build index: parent layer and instruction to layer |
| `lock`, `indexLock` | the BuildLocks, the index lock |
| `open[p][d]` | what is behind a descriptor of a blob, which outlives the name |
| `spoilt` | commands whose rootfs has got bytes of no digest |
| `copy[p]` | the index as `record()` read it |
| `pc`, `job` | the commands: install, install of a local archive, build, `remove --image`, `clear-cache`, `--orphan`, `--build-cache` |

`pull_image` is `Load`, `Fetch`, `Verify`, `Download`, `Apply`; a blob that
fails its check is evicted by name in a step of its own (`Evict`). A build goes
through stages, looks up RUN steps, publishes layers, records them under the
index lock and stores its tags one after the other. Removal and sweeps first
compute what to drop and then unlink name by name.

`Overlap` names what may meet: `"sweep"` (a lock may be taken while a sweep
works), `"remove"` (`remove --image` may meet install and build), `"clear"`
(plain `clear-cache` may run). Nothing in the code keeps these apart. `cache_damage` runs
with all of them, and `OnlyVerifiedContent` holds there. `cache_whole` runs with none: what it
shows of `BuiltImageWhole` is that a sweep keeps off the builds its probe finds
running and off the images there are, and not what a build loses that takes
its lock after the probe; see the remarks. `Damage` lets blobs rot, under
the name and under an open descriptor.

Simplifications: the BuildLocks of a build with several tags are taken in any
order (the code sorts them; they do not block, so no order can deadlock);
`remove --image` has one target; a verified open is one step (the hash and
the extraction use one descriptor).

### KillTeardown

| Variable | In the code |
|---|---|
| `who[p]`, `ppid[p]` | what `/proc/<p>` says: nobody (or a zombie), the session's proot, a guest, another process, another proot; its `PPid:` |
| `holds` | the processes that have `sessions/<pid>.json` open; the session is live while there is one |
| `readable` | whether `/proc/<pid>/fd` of other processes can be read |
| `quitting`, `orphaned` | proot has got SIGQUIT; somebody else killed proot with SIGKILL while guests lived (history) |
| `at`, `stage` | where `kill` is within one scan (`ReadTable`, `ReadHolders`, `Collect`, `Signal` ..., `PassEnds`) and what the scan is for: `track`, `ask`, `quit`, `sweep`, `report` |
| `parents`, `roots`, `todo` | its `{pid: ppid}` map, the roots it derived from it, the processes it has still to signal |
| `outcome` | what it reports |

The host goes on between any two of these steps: guests fork, exit (their children
pass to init), close the inherited descriptor, proot ends or is killed,
and a PID may come back as an unrelated process or another proot. `kill` derives
its roots from one reading of the process table and its trees from a second
one, as the code does. What `_collect_tree` walks is stated without a walk, as the
smallest set that has the roots and loses no child (`CollectTree`, `WithChildren`). proot ignores all but SIGQUIT and SIGKILL; a guest may die
of SIGTERM or ignore it. Assumed of the host: PIDs that `kill` has in hand are
not reused before it has signalled them (`Reusable`; the kernel hands them out
in ascending order), a scan of `/proc` is one step, every guest is traced,
and the grace is long enough for proot to act on SIGQUIT (`GraceExpires`).

### HttpClient, Download, Push, Transfer

One command that uses the network. `HttpClient` has one HTTP operation, a function handed
to `retry_http()`; `Download` and `Push` run such operations; `Transfer` is either.

| Variable | In the code |
|---|---|
| `wire` | the operation in flight: what it asks for, where it starts again (`start`, `cred0`), where it is now (`url`, `cred`), which attempt and which hop |
| `insecure`, `speaks` | `--allow-insecure`; whether the registry's port speaks TLS, TLS with a certificate nobody trusts, or plain HTTP |
| `fetch`, `tmp`, `framing`, `dest` | `download_file()`: where it is, its temporary file, how the body says where it ends, what is under the name |
| `silent` | nothing of the body has arrived for a while, and the socket timeout is running |
| `unjudged` | history: the check of the password was passed by somebody who was not shown it |
| `push`, `next` | where `push_image()` is, and the blob it is about |
| `hub`, `creds`, `base`, `auth` | what `get_auth_token()` has to go by, and the origin and Authorization it settled on |
| `cache`, `stored`, `tagged` | the blobs of the layer cache, those the registry has, and whether it has the manifest |

Servers answer anything: any failure of `Failures`, any redirect of `Locations` (the
password check's included: the header is dropped on the way to another origin, and the answer
of whoever is there counts), any challenge, any upload location, and bodies that come in
pieces for ever (`Silence`, `Chunk`). One thing is taken of a server: who judges
passwords and is shown a wrong one does not pass it (`CheckPassed`). `Retry` is `retry_http` with the judgement of
`is_retryable`, `Redirect` the redirect handler (`check_redirect` per hop, the credential
dropped where `same_auth_origin` says no), `Refused` and `GivenUp` what gets through to
the caller. `Push` follows `get_auth_token` (Docker Hub's realm, the probe with a Basic or
a Bearer challenge, the password checked before it is redeemed, `ProbeAgain` over http
under `--allow-insecure`), then per blob HEAD, POST and PUT, and the manifest last.
`AnswerLost` is the request that reaches the registry and whose answer does not come back:
the retry then repeats what was already done. `LoseBlob` is another command or a disk.

Simplifications: an origin stands for a URL (no rule looks at the path); the config is
read and checked before the first request and held from there on (`BeginPush`); waiting
times are no steps, except where they decide whether a body ends (`Silence`); the bodies of
the other requests are bounded by the code (`MAX_METADATA_BYTES`) and part of the answer, and an
endless series of interim responses, which `http.client` reads over, is left out.

### Rootfs, ImageBuild

`Rootfs` has a tree of a few names with one entry below each directory, and as operators
on it `Placed` (one member of a layer, `_process_member`), `Apply` (the extraction),
`DiffLayer` (`diff_snapshots` and `write_layer_tar`), `FilesLayer` and `MaterialiseAll`
(what COPY writes into a layer and into the rootfs). None stands for an
extraction or a write that stops with an error. Symlinks in a path are followed
by `Resolved`, as `safe_resolve_parts` does within the root.

`ImageBuild` has the stage (`tree`, `layers`), the stage before (`parent`), the build cache
of RUN steps (`runs`) and one action per instruction: `Run`, `RunCached` (a hit of
the cache replays the layer), `Copy` with `.dockerignore`, `CopyFromStage`, `Workdir`,
`FromImage`, `FromStage`. `clean` is a history variable: no instruction so far did one of the
things of which the code's two ways of writing are known to give two results (see the
findings and remarks). `CleanLayersReplay` says that among the instructions modelled there are
no others; `resolv.conf` and `hosts`, which FROM writes into the tree and into no layer, are
not in the model.

### RunStep

| Variable | In the code |
|---|---|
| `proc[p]` | what the kernel has of a process: running, dying, zombie; its parent, its process group, whether it ignores SIGTERM |
| `code`, `returned` | the exit status of the command, and the one the build got of proot |
| `watch` | where the build is in `_wait_for_step` and `_stop_step` |
| `sweep`, `targets`, `late` | which enumeration of the leftovers this is, what it found, whether the grace is over |
| `baseline` | children of the build that were there before the step (`_adopted` sets them apart) |
| `aborted` | Ctrl-C |
| `look` | history: whether the command had been born when the build looked at proot's children, and whether it was between the two looks |

The command forks, daemonises, exits and turns deaf to SIGTERM between any two steps of
the build; orphans go to the build, which is the subreaper (taken as granted). Every
reading of `/proc` is one step, and the two readings of one look are two steps.

### Mirror

`sync`, `sync --delete`, `copy -r` and `copy --move` of one directory onto another. `todo`
is the work of the walk in hand, in the order in which `listdir_at` sorts the names
(`Sorted`); `seen`, `skipped`, `unread` and `failed` are the lists of
`_Ctx`. The passes are `list` (`_collect_rels`), `write` (`_mirror_at`, `copy_tree_at`), `look`
and `prune` (`_collect_extras_at`, `_remove_extras_at`), `remove` (the end of a move). The listings, the
writes, the deletions and the removals can fail, up to `MaxFaults` times, and are then
reported (`NoteFailure`). Two kinds of failure are passed over in silence, and the command may
exit 0 after them: `copy_metadata` and `_restore_dir_metadata` ignore a `fchmod` that is
refused (`LeaveLevel`, `Prune`; the history variable `unset` has these directories), and the
prune takes what it cannot list, stat or open for empty (`LookForExtras` with `blind`; history
`unseen`). `MirrorsSource` and `NothingLost` except these by name. A session turns entries of the source at any time
(`Turn`: the source is locked shared only), and Ctrl-C stops the command anywhere.
`src0`, `dst0`, `touched` and `wrote` are history too. Not modelled are the modes of files, and
an orphan directory of which a removal that fails has already taken some entries.

### Endpoint

`name:path` of `copy` and `sync`: `_resolve_within_root` component by component
(`ResolveUp`, `ResolveName`, `ResolveLink`), then `pin_path` (`PinName`; for a destination
a `mkdir` and the open that follows it are two steps). A path that as written leaves the rootfs is
refused at once (`Escapes`; that a path may leave it and name it again, as
`../rootfs/x`, is left out). A session exchanges entries and puts links under names in between.
`Looked` is what the host's kernel makes of the resolved path (`readlink` by whole path),
`Seen` what the container would make of the path asked for, as the reference. Both are
recursive functions of a directory, a path and the links that may still be followed; `Host`
is every place outside of the container, and stands for nowhere too: nothing is seen there.
A move keeps the last name of the path as it is, unless there is none or it is `..`
(`KeepsName`, `_walk_spec`).

### Levels

`rmtree_at` with `Levels`: `frames` are the levels of the walk, each with the directory it
was opened as, its descriptor (or `Nil`, parked), what it has still to visit and whether all below
has gone. `Climb` revives a parked level through `..` and checks the identity, or gives
up; the guest moves directories (`Move`).

`Trees` is one of: a build, a RUN step, a mirror, an endpoint or a removal. The five share
nothing while they run, so one run checks them side by side, each in its own initial
states. `BuildSpec`, `StepSpec`, `MirrorSpec`, `EndpointSpec` and `LevelsSpec` are the five by
themselves.

### MC modules

Each has what its cfg cannot say: symmetry sets, and the small trees, layouts, contexts
and lists of layers to start from. Symmetry permutes identities the specifications never
order (container names are numbers, since rename sorts its locks, and are not permuted);
the runs with a liveness property use none (`MCDetachedLogin`, `MCTransfer`, `MCTrees`).

Two runs tell states apart by a VIEW. `Unrecorded` (`MCDetachedLogin`) leaves out the
holder line of the lock files, which nothing in that composition reads; `Readable`
(`MCLayerCache`, for `cache_whole`) leaves out what a command has in memory and
writes anew before it reads it again. So states with one view go on alike, and
the properties of those runs speak of what the view has.

## Runs, bounds and what they show

| Run | Module, configuration | Properties | Shows |
|---|---|---|---|
| `locking` | `MCLocking`, `MCLocking.cfg` | `CriticalExclusion`, `HeldTracksFlock`, `RecordNamesHolder`, `LostOnlyByOwner`, `ImplementsReadersWriterLock` | Three processes share two lock files through every path of acquire/disown/release, busy_locks probes, fork, exec and crashes: exclusion, bookkeeping and the refinement of a readers-writer lock hold. |
| `session_registry` | `MCSessionRegistry`, `MCSessionRegistry.cfg` | `StaysListed`, `ListingComplete`, `ReportedLive` | Three sessions with two PIDs between them register, run, are killed and crash while two readers list, read, probe and prune, any call of theirs failing on a file that is there: a session whose PID is its own stays listed and misses from no finished part of a report as long as it lives, and is not reported after it, but for the errors the properties name. |
| `detached_login` | `MCDetachedLogin`, `MCDetachedLogin.cfg` | `LockLostOnlyByInterrupt`, `ReportHonest`, `ForegroundReturns` | Two logins, foreground or detached, and one exclusive command with interrupts, and with every process killable at every point: a session loses the container lock only by an interrupt of its own foreground before disown(), nothing else changes its container, and the foreground neither hangs on its pipe nor reports a session that is not there. |
| `lifecycle` | `MCContainerLifecycle`, `MCContainerLifecycle.cfg` | `SessionUndisturbed`, `DestroyedOnlyOnRequest`, `SessionSeesWhole`, `ManifestNamesRootfs` | Two commands of any kind on two names, over two images and one legacy rootfs, with SIGKILL, failing removals and writes and aborted restores at every point: nothing is pulled from under a session or backup, no complete container is lost to a command that was not asked to destroy it, and a fault never damages a container other than those its victim had locked. |
| `cache_damage` | `MCLayerCache`, `MCCacheDamage.cfg` | `TypeOK`, `OnlyVerifiedContent` | Two commands of any kind, plain clear-cache included, with blobs that rot under their name or under an open descriptor, and no restriction on who meets whom: no rootfs or image is ever finished from bytes of another digest. |
| `cache_whole` | `MCLayerCache`, `MCCacheWhole.cfg` | `BuiltImageWhole`, `RecordsKept` | Two commands over two references that share layers and two RUN instructions, where no lock is taken while a sweep or a remove --image works: a sweep's probe keeps it off the layers of running builds, built images stay whole, and no build's record is lost to the other's read-modify-write of the index. |
| `kill` | `MCKillTeardown`, `MCKillTeardown.cfg` | `TerminatedMeansGone`, `OnlySessionSignalled` | One kill with SIGTERM, SIGKILL or SIGSTOP of a session of up to four processes, which fork, exit, become daemons, close the inherited descriptor or lose their proot while /proc is scanned and the signals go out: only they are signalled, and "Terminated" means that none is left unless proot was killed over their heads. |
| `transfer` | `MCTransfer`, `MCTransfer.cfg` | `CredentialsStayHome`, `TlsKept`, `DownloadAtomic`, `TagWhole`, `CommandEnds` | A push or a download against servers that answer anything, redirect anywhere, keep a body coming and lose requests and answers, while the layer cache loses blobs: credentials stay with their origin, a wrong password gets nowhere unless somebody who was not shown it passed the check, TLS is not left, what is published is whole, and the command ends unless a server keeps sending. |
| `trees` | `MCTrees`, `MCTrees.cfg` | `TypeOK`, `CleanLayersReplay`, `LayerSettled`, `CommandFinishes`, `MirrorsSource`, `NothingLost`, `PinnedWhereAsked`, `LevelsHold`, `StepEnds`, `PruneSpares`, `EndpointSettles`, `RemovesTheTree` | The commands that work on trees, each from many small trees: a build and what its layers make of the base image, the processes of a RUN step, a sync, copy or move of a source that changes and calls that fail, reported or in silence, the resolution and pinning of a container path under a session's hands, and a removal with parked levels. |

Why the bounds are enough. Races in this code are between two actors, the one
that read, probed or listed and the one that changed the state in between; where
a third can matter it is there.

* Locks: three processes (a holder, its child, a rival), three lock objects
  (an outer one, a re-entrant one inside it, the rival's), and two lock files,
  one of which cannot be locked.
* Registry: three sessions, two PIDs and two readers, so that a PID comes back
  while another session runs, and two probes of one file overlap; one kind of error
  on one file (`MaxErrors`), as often as it likes.
* Detached login: two logins whose double forks share two spare processes, one
  exclusive command, and a lock object for each, with interrupts; the violation needs one
  login only.
* Lifecycle: two names, which is all that a command can touch; two commands at a
  time with every fault, and any number of them in a row; two images, since the
  question is which one it is; one legacy rootfs. `Plain = {}`: no archive
  comes without a manifest, as that is documented to leave the old one (see the
  remarks).
* Cache: two references, a layer that a registry serves and one that steps produce,
  two instructions where records can clobber each other, and stages of at most
  `MaxLayers` = 1 layer (a second layer adds a second use of the same
  steps). Since every image with a base layer shares it, two references are
  enough for "shared with another image".
* Kill: four PIDs are a proot, a guest, its child and its child's child: the
  shortest chain in which a process that has closed the descriptor hangs from one
  that has lost its own parent. All three signals, and `/proc` readable or not.

* Transfer: two attempts and two redirects, so that a retry follows a redirect and a redirect
  a retry; two layers and a config; all three ways a registry's port may speak, every
  kind of credential, and any subset of the blobs already there or already lost.
* Trees, build: two names (one can change its kind, one can be a symlink to the other), two
  instructions and two stages: the first leaves what the second meets, and a hit of the
  cache needs a step before. One command of RUN, which leaves anything under any name.
  `build_replay` needs one base image, one command and one step.
* Trees, RUN step: the command and two processes it forks: the child of a child is what a
  double fork takes, and with one child of the step before as `baseline`.
* Trees, mirror: two names, one fault, one change by a session, every kind of entry
  including one that is not carried across, and two contents with one size and time.
* Trees, endpoint: three directories, three hops and one swap; links up, down, around
  and to the root.
* Trees, removal: five directories in a chain or a fork, at most two open levels for the
  code's 64, two moves. A level is parked at the third.

The type invariants of `Locking`, `SessionRegistry`, `ContainerLifecycle`, `Transfer` and
`KillTeardown` are proved, and not checked again by a run.

All state spaces are finite without a state constraint; the counters are bounded by named
constants (`MaxRetries`, `MaxHops`, `MaxSteps`, `MaxStages`, `MaxFaults`, `MaxTurns`, `MaxSwaps`,
`MaxMoves`) or by a list of at most `MaxLayers` layers. The passing runs have between
some thousand and two million distinct states; the longest takes about two minutes on
two workers.

## Findings

Each is a `violation` run with a single property; `PROJECT.json` quotes the
documented promise.

| Run | Property | What the code does |
|---|---|---|
| `detached_interrupt` | `SessionLocked` | A KeyboardInterrupt between the fork and disown() unwinds the with-block, whose LOCK_UN unlocks the description the daemon inherited: the session runs without the container lock. (`proot_distro/commands/login/__init__.py:580`) |
| `lifecycle_stale` | `ActsOnRecordedImage` | reset and run read the manifest before they have the lock: the container is replaced by one of another image in between, and reset reinstalls the old image, run executes the old entry point in the new rootfs. (`proot_distro/commands/reset.py:65`) |
| `build_replay` | `LayersReplay` | A RUN step that puts a file where a directory was emits the file without a whiteout of the directory: the build goes on with its tree, but extracting its layers stops with an error. (`proot_distro/helpers/tar_extract.py:642`) |

Remarks that have no run of their own. The models reach each of them.

* `active_sessions` reads a record, probes it and unlinks it by three uses of the
  name. A session with the PID of a dead one that publishes over the stale file in
  between makes the dead session's record pass for a live one, or loses its own
  to the unlink (`session.py:197` only says that a stale file left by a dead process that used
  the PID is overwritten).
* An archive without `manifest.json` restored over a container leaves that one's
  manifest beside the new rootfs (`README.md:1218`: "restored without it").
* A restore stopped after its first rootfs member leaves a partial rootfs
  (`STRUCTURE.md:181`: "Restore commits only on success"). That is the fault
  `"abort"`; it marks the name as `hurt`.
* `_session_alive_at` takes a record that it cannot open, whatever the error (`EMFILE`, `EIO`),
  for a dead session's, and `active_sessions` unlinks it; nobody lists that session
  from then on. The comment at `session.py:474` treats any other error of the flock as alive "so
  a still-running session is never pruned by mistake". `StaysListed` excepts the record whose
  open failed.
* `clear-cache --orphan` and `--build-cache` probe the locks, compute what to keep and then unlink;
  nothing stops a build or an install from taking a lock after the probe, and its layers
  may go. The comment at `clear_cache.py:54` advertises the sweep as "only garbage". With
  `"sweep"` in `Overlap` TLC finds `BuiltImageWhole` violated. In the same way
  `remove --image` of one image can race an install or a build of another that shares its layers
  (`"remove"`). A layer that is lost is downloaded again or, if a build made it, has to be
  built again.
* A redirect of the password check to another origin is followed without the password, and any
  2xx there passes for a right one (`transport.py:690`): a wrong password is then sent on, to the realm
  or the registry it was meant for and to nobody else.
* A body of which a piece arrives within every `NETWORK_TIMEOUT` is read for ever: the
  timeout bounds each read (`download.py:94` says so). `CommandEnds` excepts that server.
* `sync` and `copy` say nothing of a directory whose mode the destination refuses (`/sdcard`), and a
  move across file systems then removes the source and the mode with it; `sync --delete` says
  nothing of orphans that it could not see. Both exit 0. `sync.py:285` has modes and timestamps
  preserved, `sync.py:45` a non-zero exit when an entry could not be read or written.
* `clear-cache --build-cache` unlinks the index without its lock, so a `record()`
  that has read it writes all of it back (`build_cache.py:214` expects a fresh
  index).
* The repository's README says that `COPY` and `ADD` are cached by file digests;
  the code publishes their layers but never looks them up, so the step is always
  executed.
* `kill --signal KILL` can report that a session is terminated while guests of it live
  whose proot somebody else had killed and that had closed the record: nothing in
  `/proc` leads to them any more (`orphaned`).
* A RUN step is cached by its command and the digest of the layer below
  (`README.md:501` documents that key). A layer that does not change the tree is the same for
  all of its kind, so of `RUN true`, `RUN echo x >> /a`, `RUN true`, `RUN echo x >> /a` the fourth
  is a hit of the second, and `/a` has one line.
* Beside the file in a directory's place (`build_replay`), the two ways an
  instruction writes differ for: a symlink in a directory's place, whose whiteouts are then
  followed through it; COPY into a directory through a symlink, which gets the
  layer a directory of its own; COPY into a directory of another mode than 0755,
  which the layer's parents reset (`/tmp` from 1777); WORKDIR on one, which resets
  only the tree's. `clean` names them all. And `write_resolv_conf` and `write_hosts` at FROM
  change the tree and no layer.
* `.dockerignore` with `dir` and `!dir/x`: the directory is not entered, so the exception
  has no effect when the whole context is copied.
* The `Location` of an upload is followed to `http://` as well, without a credential: `TlsKept`
  excepts the PUT for that.
* The build looks at proot's children and then at its own. A command that starts and has a
  grandchild orphaned between the two looks counts as ended (`look = "raced"`), and is
  stopped.
* A leftover deaf to SIGTERM may have a child in its own group or one that it forks while the
  last round is under way; that one gets no SIGKILL. It is a process of proot's, though,
  so the step waits for it or kills proot: `LayerSettled` holds.
* `sync` takes away what is under a name before it makes a symlink or a directory there, so
  one that fails leaves nothing. It is reported.
* Without `--checksum`, a file of the same size and time is taken for the same
  (`Stamp`), as documented.
* `sync --delete` whose second pass cannot open the root of the source goes on to
  delete by the list of the first. `PruneSpares` excepts that case (`Root \in skipped`).
* `copy --move` over file systems removes what is in the source at the end, with what a
  session has put there since it was copied. `NothingLost` is about what nobody touched.
* A rename killed after rename(2) keeps link targets under the old name, and
  an install killed while it extracts leaves a partial rootfs that counts as
  installed. Nothing in the documentation promises otherwise.

## Proofs

The first half of `LockingProofs` proves for every set of processes, paths and handles, with
the assumptions of `Locking` (`None` is none of them, and `Lockless` is a set of
paths):

| Theorem | States |
|---|---|
| `LockInvariant` | `Spec => []IInv` |
| `LockTypeCorrect` | `Spec => []TypeOK` |
| `LockCriticalExclusion` | `Spec => []CriticalExclusion`: a writer in its critical section is alone |
| `LockHeldTracksFlock` | `Spec => []HeldTracksFlock`: `_held` and `_held_exclusive` claim only what the kernel confirms |
| `LockRecordNamesHolder` | `Spec => []RecordNamesHolder`: the holder line is the holder's |
| `LockLostOnlyByOwner` | `Spec => LostOnlyByOwner`: nobody else's step takes a flock away |
| `LockRefinesReadersWriter` | `Spec => ImplementsReadersWriterLock` |

The argument. Exclusion is a fact about the kernel's descriptions
(`FlockExclusion`: an exclusive flock of a file is alone), but what the program
acts upon are two other things, the Python object and `_held_exclusive`.
`CriticalExclusion` speaks of objects and is not inductive: as far as it says,
an object in the critical section could refer to a description without a flock, or
be re-entrant with no outer holder. The invariant `IInv` ties the three places
together:

* `LockShape`: an object in use has a live owner and a path; one on its way in
  is not re-entrant and not disowned;
* `OwnerLink`: the description of a granted object has its path, the mode it
  asked for, and its process among those that have it open;
* `HeldLink`: `_held_exclusive` has a path exactly when an object of the process
  is in its critical section with the exclusive flock;
* `ReentrantLink`: a re-entrant object stands on such an entry;
* `IdleClean`: a process that has not started remembers nothing.

Each action preserves each conjunct it can disturb; `Release` and `Exit` are the hard
ones, since they change all three places at once. The refinement then follows
action by action: a grant is a grant, whatever closes or unlocks a description
withdraws, and everything else stutters.

`ContainerLifecycleProofs` proves for every set of commands, names, images and faults,
under the assumptions of `ContainerLifecycle` (names are numbers, sources with and
without a manifest differ, `None` and `Legacy` are nothing else):

| Theorem | States |
|---|---|
| `LifecycleInvariant` | `Spec => []IInv` |
| `LifecycleTypeCorrect` | `Spec => []TypeOK` |
| `LifecycleSessionUndisturbed` | `Spec => SessionUndisturbed` |
| `LifecycleDestroyedOnlyOnRequest` | `Spec => DestroyedOnlyOnRequest` |

The argument. `TypeOK` is not inductive: that the rest of an extraction has a
rootfs to go to depends on nobody having removed it since the first half, hence on
the locks. `IInv` adds, per command and step: which command can be there (`Fits`),
which locks it holds (`Holds`: the exclusive one for what installs, restores, wipes
or removes; the lower name's between the two of a rename, then both; the shared one
for sessions, backups and a migration), and which rootfs it finds (`Finds`); and
`LocksExclude`, which the abstract readers-writer lock keeps. Every step of a command
satisfies `OnlyOwn`: it keeps content and completeness of each rootfs whose
exclusive lock it does not hold. With `LocksExclude` that carries `Finds` over the
steps of the others, and it is all that `SessionUndisturbed` needs; for
`DestroyedOnlyOnRequest`, `LossExcused` then goes through the steps that write a
rootfs. The locks are here the ones of `ReadersWriterLock`;
`LockRefinesReadersWriter` is what lets them stand for `locking.py`.

Its second half builds on that, under the same assumptions:

| Theorem | States |
|---|---|
| `WholeInvariant` | `Spec => []WholeInv` |
| `LifecycleSessionSeesWhole` | `Spec => []SessionSeesWhole` |
| `LifecycleManifestNamesRootfs` | `Spec => []ManifestNamesRootfs` |

The argument. `WholeInv` says of every name that a fault has hit it, or that its rootfs is
`Settled` (whole, at home under that name, its image in the manifest), or that some command is
`Working` on it; and `Fills` says what the rootfs in hand is like at each step of such a
command, from the first half of an extraction to the rewrite behind a rename. Who is
`Working` has the exclusive lock (`WorkingOwns`), so a reader, or a name without an owner, sees
`Settled` only. The proof of a step has two halves (`Framed`): what it leaves to the others,
which is nothing new at a name whose lock it lacks, or a settled rootfs where nobody owns
one (a migration moves a legacy rootfs under the shared lock); and what it leaves to
itself.

`SessionRegistryProofs` proves for every set of sessions, PIDs and readers, under the
assumption of `SessionRegistry` that `None` is neither a session nor a PID, with any
calls of the readers failing:

| Theorem | States |
|---|---|
| `RegistryInvariant` | `Spec => []IInv` |
| `RegistryTypeCorrect` | `Spec => []TypeOK` |
| `RegistryCompleteRecords` | `Spec => []CompleteRecords` |
| `RegistryStaysListed` | `Spec => []StaysListed` |
| `RegistryListingComplete` | `Spec => []ListingComplete` |
| `RegistryReportedLive` | `Spec => ReportedLive` |

The argument. `StaysListed` is not inductive: a reader that stands at `dead` unlinks
whatever the name links when it comes to it. `ReaderSound` says what its memory is
worth by then: the name was that of a session past its registration (`Named`), so a
session that has the name to itself can only be that one; the probe would have been
refused while that session held its lock (by `StaysListed` its file was the one
linked), unless its file could not be opened, which `erred` then has; and a lock once dropped
is not taken again. `SessionSound` ties the lock and
the record to the way through `_register_at`, and `EntrySound` says that a name
links a complete record of the session it is named after, which is what
`ReportedLive` needs to carry the record read before the probe over to the file probed.
`ReportSound` is `ListingComplete` with the record in hand: the name a reader is at is
dealt with when it has been read, and reported when it has been probed.

`TransferProofs` proves for every list of layers and every number of attempts and
redirects, under the assumptions of `HttpClient` and `Push` (`None` is no URL and no request,
the config is no layer):

| Theorem | States |
|---|---|
| `TransferInvariant` | `Spec => []IInv` |
| `TransferTypeCorrect` | `Spec => []TypeOK` |
| `TransferCredentialsStayHome` | `Spec => []CredentialsStayHome` |
| `TransferTlsKept` | `Spec => []TlsKept` |
| `TransferTagWhole` | `Spec => []TagWhole` |
| `TransferDownloadAtomic` | `Spec => []DownloadAtomic` |

The argument. `CredentialsStayHome` speaks of where a request is, and a retry takes it back
to where it began; so `WireSound` says of both addresses that they are fit for the credential
carried there, and that the present one was reached from the first by steps that keep it.
`AuthSound` says that `base` is the registry's and in clear only under `--allow-insecure`, which
is what every upload takes its address and credential from, and that a wrong password has
led to nothing as long as all who passed it had been shown it (`unjudged`). For `TagWhole`, `UploadSound` has the registry hold
every blob before `next`, through lost answers and repeated uploads. `DownloadSound` relates the
temporary file, the framing and the destination to where the download is.

`LayerCacheProofs` proves for every set of commands, images, layers and instructions, under
the assumptions of `LayerCache`. What does not hold under every overlap (see the remarks)
is proved without those that break it:

| Theorem | States |
|---|---|
| `CacheInvariant` | `Spec => []IInv` |
| `CacheTypeCorrect` | `Spec => []TypeOK` |
| `CacheOnlyVerifiedContent` | `Spec => []OnlyVerifiedContent`, whatever overlaps and rots |
| `CacheRecordsKept` | `Spec => RecordsKept`, without plain `clear-cache` |
| `CacheBuiltImageWhole` | `Spec => []BuiltImageWhole`, without overlaps and damage |

The argument. `Placed` says for each place of a command which command can be there, which
locks it holds and what it has in hand. `Apart` turns the overlaps that are left out into
facts: a sweep, or a removal, meets no command that could publish or store. With that,
`Garbage` keeps the lists to be dropped apart from what images and kept records
reference: they were when they were made, and what could reference more is not there.
`IndexSound`: whoever records holds the index lock, and what it read covers the index until it writes
it back. `Present`: what a build has in hand, has recorded or has inherited is in the
cache, since nothing takes blobs away while it is there; so what it stores is whole.

The second half of `LockingProofs` proves for every set of logins, spare processes, exclusive
commands and lock objects, under the assumptions of `Locking` and `DetachedLogin`:

| Theorem | States |
|---|---|
| `DetachInvariant` | `DetachSpec => []DetachInv` |
| `DetachLockLostOnlyByInterrupt` | `DetachSpec => []LockLostOnlyByInterrupt` |
| `DetachReportHonest` | `DetachSpec => []ReportHonest` |
| `DetachSessionLocked` | `DetachSpec => []SessionLocked`, if no keyboard interrupt comes |

The invariant of its first half does not hold here: after `MiddleInterrupted` an object of the
foreground stands for a flock that is gone. `DetachInv` has two halves. `FamilyInv` says
what the processes of a login are to each other and to its pipe, and knows no lock: a living child has
the pipe open (`PipeSound`), so a foreground that read to the end has no child left that is not
proot; a middle process that has not forked is the only child (`OneDaemon`). `KernelInv` says
what the locks are: a description is shared by one login and its children only
(`RefsSound`), an object is what its command's place says (`Sound`), and who is a session or
may become one has the shared flock, unless its login was interrupted (`Sheltered`). Only two
steps unlock a description that others share. A release comes after the end of the report,
when no child is left to become a session, or without an unlock after `disown()`, or from an
interrupt; and the middle process that unwinds has no daemon yet, nor will it.

`KillTeardownProofs` proves for every set of PIDs, under the assumption of `KillTeardown`
that the root and its first guest are two of them and `None` is none:

| Theorem | States |
|---|---|
| `KillInvariant` | `Spec => []IInv` |
| `KillTypeCorrect` | `Spec => []TypeOK` |
| `KillOnlySessionSignalled` | `Spec => OnlySessionSignalled` |
| `KillTerminatedMeansGone` | `Spec => []TerminatedMeansGone` |

The argument. `kill` stops nobody while it looks, so `TerminatedMeansGone` has to rest on
what goes on without it. `HostSound`: parents form no circle (`Topped`), one that is
noted is alive, and proot holds its record until it ends. `TableSound` has the same of
the table once read. By `TreeSmallest` a tree stays within every set that has the roots and
loses no child, which keeps what is collected within the session (`InHand`: and what was of
it can only have ended, as PIDs in hand are not reused). `Places` says what a scan is for at each step.
`QuitReachesRoot`: a proot that is there when SIGQUIT goes round is among its roots, then
among what is to be signalled, and then quits; so by the time of the sweep it has
gone. `NoneLeft`: guests do not outlive a proot that ended so. A report says "terminated"
when nothing alive hangs from a holder of the record; then proot is not up, and by these
two nothing else of the session is.

`TreesProofs` is about four parts of `Trees`, each by itself, and then about `Trees`; the fifth
part, the build, has `ImageBuildProofs`. The first proves for every
set of processes, under the assumption of `RunStep` that the build, proot and the
command are different processes, about `StepSpec`, one RUN step:

| Theorem | States |
|---|---|
| `RunStepInvariant` | `StepSpec => []IInv` |
| `RunStepLayerSettled` | `StepSpec => []LayerSettled` |
| `RunStepCommandFinishes` | `StepSpec => []CommandFinishes` |

The argument. The build does not know what runs; it has proot's exit status. `ProotSound`:
proot ends of itself only when the command and all that it traces are over, so a proot
that ended while something ran was killed, and its status is then not 0. `StatusSound`: the status is
taken once, and nobody else reaps proot. `CommandSound`: a child of the build that was
not there before the step has got there by the end of its parent, and the chain of
parents begins with the command; so the command had started, and without the schedule
`raced` it was over when an adopted child was seen with nothing below proot.

The second proves for every tree, budget and number of moves, under `LevelsAssumption`, about
`LevelsSpec`, one removal:

| Theorem | States |
|---|---|
| `LevelsInvariant` | `LevelsSpec => []LevelsInv` |
| `LevelsLevelsHold` | `LevelsSpec => []LevelsHold` |
| `LevelsRemovesTheTree` | `LevelsSpec => RemovesTheTree` |

The argument. `LevelsHold` is about the level at work and the number of descriptors, and does
not say which levels are parked. `WalkSound` does: exactly those between the first one and
`low`, and each open one is the directory that it was opened as, whatever a guest moves. A
push parks from `low` upwards (`ParkedBounds`); a return revives the level below `low` only
if its identity is right, and else gives the walk up. `RemovesTheTree` then
looks at single steps: a removal of the top succeeds on an empty directory only, and with
nothing in the top nothing is below it.

The third proves for every sequence of names, all contents and stamps, all trees to begin with, and
any number of faults and changes, under `RootfsAssumption` and `MirrorAssumption`, about
`MirrorSpec`, one `sync`, `copy` or `copy --move`:

| Theorem | States |
|---|---|
| `MirrorInvariant` | `MirrorSpec => []MirrorInv` |
| `MirrorMirrorsSource` | `MirrorSpec => []MirrorsSource` |
| `MirrorNothingLost` | `MirrorSpec => []NothingLost` |
| `MirrorPruneSpares` | `MirrorSpec => PruneSpares` |

The argument. `MirrorsSource` speaks of the end only. What holds on the way depends on what
the walk has still to do, so `Stage` says of every name by the work that `todo` has
for it how far its entry is: as it was, written without its content, with its
content and without its mode, or final (`Final`: with its mode, or without it and in
`unset`, `ModeArrived`). `Fit` keeps that readable: the work for one name
is one item, or the content of a directory and then its mode. An entry that failed is
past that (`Clear`), and then `FailSound` says that the command will not exit 0; what is
skipped without a failure is a special entry. `--delete` rests on the lists:
`SeenSound` has the list of the source complete and truthful for what nobody changed, unless
a level could not be read, which is then in `skipped`; `WroteSeen` puts what is written
into the list. So what is to be pruned has no counterpart and was not written
(`PruneJust`, which gives `PruneSpares`), and what is not to be pruned is as it shall be or
where the prune did not look (`PruneWhole`). A move begins to remove when nothing has failed: then every entry
nobody changed has arrived (`ArrivedSound`), which gives `NothingLost` from there on. The
steps of one name leave the other names alone; `WriteStep` says what of the invariant
follows from that for each of them.

The fourth proves for every set of directories and names, every layout of links, path, act of a
session and limit of hops, under `EndpointAssumption`, about `EndpointSpec`, one path:

| Theorem | States |
|---|---|
| `EndpointInvariant` | `EndpointSpec => []EndpointInv` |
| `EndpointTypeCorrect` | `EndpointSpec => []EndpointTypeOK` |
| `PinsWhereAsked` | `EndpointSpec => []PinnedWhereAsked` |

The argument. That the descriptor is a directory of the container is inductive by itself:
`_descend` follows directories only. Where it leads is told by a trail. As long as no session has acted, the
names in `resolved` are a path without symlinks, and the directories it leads through are the
`Trail` (`Host` from where a name is no directory's); so `Looked`, the host's kernel, and
`Seen`, the container, make the same of it, although one takes an absolute link for the
host's and goes up by the tree, the other by the trail (`LookedTrail`).
`OnTheWay` then says that what is `pending`, looked at from the end of the trail with the
hops that are left, leads where the whole path led from the root; a name, `..` and
a link each are one step of `Seen`. When `pin_path` begins, what it walks is the trail
(`Descends`), and it refuses at the first name that is no directory's.
`Seen` and `Looked` are functions by recursion on the hops and then on the length of the
path; `Grounded` and `Recursion` make them what their equations say.

The last proves under the assumptions of all five, about `Spec` of `Trees`, which is what the
run `trees` checks:

| Theorem | States |
|---|---|
| `TreesInvariant` | `Spec => []TreesInv` |
| `TreesTypeCorrect` | `Spec => []TypeOK` |
| `TreesSafe` | `Spec => []` of every invariant of the run but `TypeOK` |
| `TreesTakeAway` | `Spec => PruneSpares /\ RemovesTheTree` |

`TreesInv` says of each part that it is in its invariant or at rest (`NoStep`, `NoMirror`,
`NoLevels`; a build and an endpoint at rest satisfy their invariants). A step of `Trees` is
one of one part and leaves the variables of the others alone (`EachSteps`), and what is at rest
has no step (`NoStepRests`, `NoMirrorRests`, `NoLevelsRests`).

`ImageBuildProofs` proves for every sequence of names, all contents, base images, build
contexts, `.dockerignore` lists, commands, and any number of instructions and stages, under
`RootfsAssumption` and `ImageBuildAssumption`, about `BuildSpec`:

| Theorem | States |
|---|---|
| `BuildInvariant` | `BuildSpec => []BuildInv` |
| `BuildTypeCorrect` | `BuildSpec => []BuildTypeOK` |
| `CleanBuildsReplay` | `BuildSpec => []CleanLayersReplay` |

The argument. `BuildInv` adds to the two properties that everything called a layer (of the
stage, of the stage before, of a record of the cache) is a sequence of members. An instruction
appends a layer, and to replay one layer more is to apply it to what the others gave
(`ApplyAllOneMore`); so each instruction owes that its layer, applied to the tree before it,
gives the tree after it. A cached one pays by definition. For a RUN that is `DiffReplays`: the
diff of two trees of which no name turns from a directory into something else or back, but
for a symlink that becomes a directory. For a COPY it is `CopyReplays`: the parents with mode 0755 and then
the entries give what writing them one by one gave, if nothing goes through a symlink or
below a directory of another mode. Both are proved name by name. `Makes(old, q, d, new)` says
that the members `q` turn the entry `old` under the name `d` into `new` and touch no other; it
composes (`MakesThen`), and `Blocks` puts the names together: a layer that has the members of
each name in turn makes of each entry what they make of it, or fails if they fail for
one. Of COPY's file map, which is a set, only this matters: it has at most one entry for each path, and
an entry inside a name goes with nothing but a directory under that name (`Tidy`;
`FileMapTidy` for every map a COPY makes). So the order in which `SetToSeq` lists them does not.

Induction over data. The library's induction theorems take an operator as a parameter and
cannot be cited, and none is needed: `Least`, which says that a set of natural numbers that is
not empty has a least member, follows from the library's `NatLessThanWellFounded` and `WFMin`, whose
parameters are constants. From it come `Induct` and `InductTo` (for a set instead of a
predicate) and `Recursion`, for functions defined over any relation in which every set has
a least member. A fold of the community modules is a recursive function over sets of
positions; `FoldRuns` makes it a run, a sequence of intermediate results, over which
`InductTo` goes.

Model-checked only: the liveness properties `ForegroundReturns`, `CommandEnds`, `StepEnds` and
`EndpointSettles`, as liveness under fairness is out of the prover's reach; and the
violations, which TLC finds. Every invariant and action property of the passing runs is
proved; those of the cache under the overlaps that the table above says.

## Fairness and deadlock

Four properties are about liveness; all use weak fairness only, and nothing is assumed of users,
of other commands or of guests. Being killed is never forced.

* `ForegroundReturns` (`DetachedLogin`, `DetachFairness`): the steps of the logins and of their
  children, and nobody else's. The kernel
  keeps scheduling runnable processes, and each of those steps stays enabled until
  taken (the read from the pipe becomes enabled for good when the last writer is gone).
* `CommandEnds` (`Transfer`): the command's next step, whatever it is; within a body that is the
  silence before the next piece, and after it the end, the timeout or, which nothing
  forces, another piece (`Chunk`). So each request is answered, fails or times out in the end; which of it is the
  network's choice, and a server that sends the body of a download for ever is left out of
  the property by name.
* `StepEnds` (`RunStep`, `StepFairness`): the build is scheduled, its grace is over in the end, what
  was sent SIGKILL dies, and proot reaps and ends when it can. Guests may go on for
  ever: nothing is assumed of them, and the property begins with the end of the command.
* `EndpointSettles` (`Endpoint`): the command's next step.

Commands may stop for good, so `CHECK_DEADLOCK FALSE` is set where all
processes can end or be killed. The cache runs check for deadlock: there a
command can always be started, and a build that waits for the index lock waits for
a process that can go on.

## Not modelled

* Pure parsing and printing (`parser`, `help`, `list`, `ps`, `search`, image references,
  media types): no state and no interleaving.
* Platform choice and the content of manifests: `Served` stands for what a registry
  answers a pull with. Waiting times of retries.
* The contents written into a rootfs once it is there (fixups, `resolv.conf`,
  `sysdata`, `shm`), and the composition of proot's command line.
* Archive member paths and link resolution of `restore`; hard links, devices, extended
  attributes, owners and deferred modes of `tar_extract`, `layer_diff` and `sync`.
* In the build: parsing and expansion of words, ADD of archives and URLs, ONBUILD, `--chown`
  and `--chmod`, COPY `--from` an image, and instructions that only change the config.
* In `copy` and `sync`: the overlap check and a source that is a single file.
* In a RUN step: Termux's own `--kill-on-exit` and a kernel that refuses the subreaper.
* In the cache: entries without a recorded reference (`annotate_manifest_cache`,
  `_ref_hints`), unreadable entries, images pulled for `COPY --from`, `-o` archives.
* What the plan lists as left.

## Running

```
tlc -workers 2 -config MCLocking.cfg MCLocking.tla
tlc -workers 2 -config MCCacheWhole.cfg MCLayerCache.tla
tlc -workers 2 -config MCBuildReplay.cfg MCTrees.tla
tlapm LockingProofs.tla
tlapm ContainerLifecycleProofs.tla
tlapm SessionRegistryProofs.tla
tlapm TransferProofs.tla
tlapm LayerCacheProofs.tla
tlapm ImageBuildProofs.tla
tlapm KillTeardownProofs.tla
tlapm TreesProofs.tla
```
