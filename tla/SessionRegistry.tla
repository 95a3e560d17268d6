-------------------------- MODULE SessionRegistry --------------------------
(***************************************************************************)
(* proot_distro/session.py: the registry of running sessions.  A session   *)
(* publishes one file <pid>.json and keeps an exclusive flock on it for as *)
(* long as any of its processes lives; `ps` and `kill` list the directory, *)
(* read each record, probe it with a shared flock and unlink, by name, the *)
(* ones nobody holds.  Nothing serialises a reader against a session that  *)
(* is registering, and each call of a reader may fail (EMFILE, EIO, ENOLCK)*)
(* on a file that is there.                                                *)
(*                                                                         *)
(* A session creates at most one file, so the session names the inode: the *)
(* directory maps a PID (a name) to the session whose inode it links.      *)
(***************************************************************************)
EXTENDS Naturals, FiniteSets

CONSTANTS
  Session,    \* login/run invocations, and the inode each may register
  Pid,        \* the PIDs the kernel hands out
  Reader,     \* processes running active_sessions()
  MaxErrors,  \* how many kinds of error, on how many files, readers run into
  None

ASSUME RegistryAssumption ==
  /\ None \notin Session /\ None \notin Pid
  /\ MaxErrors \in Nat

VARIABLES
  pid,      \* pid[s]: the PID s execs into proot under
  step,     \* step[s]: how far s has got
  procs,    \* procs[s]: its living processes, the root proot and guests
  written,  \* sessions whose file holds the complete record
  locked,   \* sessions some process of which holds the exclusive flock
  tmp,      \* sessions whose temporary name exists
  entry,    \* entry[p]: the inode <p>.json links, or None
  erred,    \* <<call, s>> for each call of a reader that failed on the file of s
  at,       \* at[r]: where reader r is in active_sessions()
  listing,  \* listing[r]: the names of its directory listing
  todo,     \* todo[r]: those left to visit
  cur,      \* cur[r]: the name it is at
  read,     \* read[r]: the record it read under that name
  shared,   \* shared[r]: the inode its probe holds locked
  found     \* found[r]: the records it reports

sessionVars == <<pid, step, procs, written, locked, tmp, entry>>
readerVars == <<at, listing, todo, cur, read, shared, found>>
registryVars == <<pid, step, procs, written, locked, tmp, entry, erred,
                  at, listing, todo, cur, read, shared, found>>

TypeOK ==
  /\ pid \in [Session -> Pid \cup {None}]
  /\ step \in [Session -> {"unborn", "starting", "opened", "flocked", "written",
                           "ready", "running", "gone"}]
  /\ procs \in [Session -> SUBSET {"root", "guest"}]
  /\ written \subseteq Session /\ locked \subseteq Session /\ tmp \subseteq Session
  /\ entry \in [Pid -> Session \cup {None}]
  /\ erred \subseteq {"read", "open", "flock"} \X Session
  /\ at \in [Reader -> {"idle", "scan", "read", "shared", "dead"}]
  /\ listing \in [Reader -> SUBSET Pid]
  /\ todo \in [Reader -> SUBSET Pid]
  /\ cur \in [Reader -> Pid \cup {None}]
  /\ read \in [Reader -> Session \cup {None}]
  /\ shared \in [Reader -> Session \cup {None}]
  /\ found \in [Reader -> SUBSET Session]

Init ==
  /\ pid = [s \in Session |-> None]
  /\ step = [s \in Session |-> "unborn"]
  /\ procs = [s \in Session |-> {}]
  /\ written = {} /\ locked = {} /\ tmp = {}
  /\ entry = [p \in Pid |-> None]
  /\ erred = {}
  /\ at = [r \in Reader |-> "idle"]
  /\ listing = [r \in Reader |-> {}]
  /\ todo = [r \in Reader |-> {}]
  /\ cur = [r \in Reader |-> None]
  /\ read = [r \in Reader |-> None]
  /\ shared = [r \in Reader |-> None]
  /\ found = [r \in Reader |-> {}]

-----------------------------------------------------------------------------
(* register_session(), in the process that is about to exec.               *)

\* A PID is free once no root process has it; guests have PIDs of their own.
Launch(s, p) ==
  /\ step[s] = "unborn"
  /\ \A t \in Session : pid[t] = p => "root" \notin procs[t]
  /\ pid' = [pid EXCEPT ![s] = p]
  /\ step' = [step EXCEPT ![s] = "starting"]
  /\ procs' = [procs EXCEPT ![s] = {"root"}]
  /\ UNCHANGED <<written, locked, tmp, entry, erred, readerVars>>

Advance(s, from, to) ==
  /\ step[s] = from
  /\ step' = [step EXCEPT ![s] = to]
  /\ UNCHANGED <<pid, procs>>

\* Mutant: the record is written under its final name.
OpenFinal(s) ==
  /\ Advance(s, "starting", "opened")
  /\ entry' = [entry EXCEPT ![pid[s]] = s]
  /\ UNCHANGED <<written, locked, tmp, erred, readerVars>>

OpenTmp(s) ==
  /\ Advance(s, "starting", "opened")
  /\ tmp' = tmp \cup {s}
  /\ UNCHANGED <<written, locked, entry, erred, readerVars>>

\* Nobody opens a temporary name, so the non-blocking flock is granted.
FlockTmp(s) ==
  /\ Advance(s, "opened", "flocked")
  /\ locked' = locked \cup {s}
  /\ UNCHANGED <<written, tmp, entry, erred, readerVars>>

WriteTmp(s) ==
  /\ Advance(s, "flocked", "written")
  /\ written' = written \cup {s}
  /\ UNCHANGED <<locked, tmp, entry, erred, readerVars>>

\* os.replace(): over whatever stale file has the name.
Publish(s) ==
  /\ Advance(s, "written", "ready")
  /\ tmp' = tmp \ {s}
  /\ entry' = [entry EXCEPT ![pid[s]] = s]
  /\ UNCHANGED <<written, locked, erred, readerVars>>

\* Any failure on the way gives up the file and never the session.
Abandon(s) ==
  /\ step[s] \in {"starting", "opened", "flocked", "written"}
  /\ step' = [step EXCEPT ![s] = "ready"]
  /\ locked' = locked \ {s}
  /\ tmp' = tmp \ {s}
  /\ UNCHANGED <<pid, procs, written, entry, erred, readerVars>>

-----------------------------------------------------------------------------
(* The life of a session.  Guests inherit the descriptor from proot.       *)

Exec(s) ==
  /\ Advance(s, "ready", "running")
  /\ UNCHANGED <<written, locked, tmp, entry, erred, readerVars>>

SpawnGuests(s) ==
  /\ step[s] = "running" /\ "root" \in procs[s]
  /\ procs' = [procs EXCEPT ![s] = @ \cup {"guest"}]
  /\ UNCHANGED <<pid, step, written, locked, tmp, entry, erred, readerVars>>

\* The end of the root (an exit, a refused exec, a crash or SIGKILL at any
\* point) or of the guests.  The kernel drops the flock with the last one.
Die(s, x) ==
  /\ x \in procs[s]
  /\ procs' = [procs EXCEPT ![s] = @ \ {x}]
  /\ IF procs[s] = {x}
       THEN step' = [step EXCEPT ![s] = "gone"] /\ locked' = locked \ {s}
       ELSE UNCHANGED <<step, locked>>
  /\ UNCHANGED <<pid, written, tmp, entry, erred, readerVars>>

-----------------------------------------------------------------------------
(* active_sessions(), one name at a time.                                  *)

\* A call on the file of s fails though the file is there.
Fails(call, s) ==
  /\ s \in Session
  /\ Cardinality(erred \cup {<<call, s>>}) <= MaxErrors
  /\ erred' = erred \cup {<<call, s>>}

\* A directory that will not be listed is reported as empty.
List(r) ==
  /\ at[r] = "idle"
  /\ at' = [at EXCEPT ![r] = "scan"]
  /\ \E names \in {{p \in Pid : entry[p] # None}, {}} :
       /\ listing' = [listing EXCEPT ![r] = names]
       /\ todo' = [todo EXCEPT ![r] = names]
  /\ UNCHANGED <<sessionVars, erred, cur, read, shared, found>>

ReadRecord(r, p) ==
  /\ at[r] = "scan" /\ p \in todo[r]
  /\ at' = [at EXCEPT ![r] = "read"]
  /\ todo' = [todo EXCEPT ![r] = @ \ {p}]
  /\ cur' = [cur EXCEPT ![r] = p]
  /\ \/ /\ read' = [read EXCEPT ![r] = IF entry[p] \in written THEN entry[p] ELSE None]
        /\ UNCHANGED erred
     \/ /\ Fails("read", entry[p])
        /\ read' = [read EXCEPT ![r] = None]
  /\ UNCHANGED <<sessionVars, listing, shared, found>>

\* On to the next name of the listing.
NextName(r) ==
  /\ at' = [at EXCEPT ![r] = "scan"]
  /\ cur' = [cur EXCEPT ![r] = None]
  /\ read' = [read EXCEPT ![r] = None]

\* Mutant: liveness is asked of the recorded PID.
ProbeByPid(r) ==
  /\ at[r] = "read"
  /\ LET i == entry[cur[r]] IN
     IF i # None /\ "root" \in procs[i]
       THEN /\ NextName(r)
            /\ found' = [found EXCEPT ![r] = @ \cup ({read[r]} \ {None})]
       ELSE /\ at' = [at EXCEPT ![r] = "dead"]
            /\ UNCHANGED <<found, cur, read>>
  /\ UNCHANGED <<sessionVars, erred, listing, todo, shared>>

\* Mutant: the probe asks for an exclusive flock, which another reader's
\* probe refuses too.
ProbeExclusive(r) ==
  LET i == entry[cur[r]] IN
  /\ at[r] = "read"
  /\ IF i # None /\ (i \in locked \/ i \in {shared[q] : q \in Reader})
       THEN /\ NextName(r)
            /\ found' = [found EXCEPT ![r] = @ \cup ({read[r]} \ {None})]
            /\ UNCHANGED shared
       ELSE /\ at' = [at EXCEPT ![r] = IF i = None THEN "dead" ELSE "shared"]
            /\ shared' = [shared EXCEPT ![r] = i]
            /\ UNCHANGED <<found, cur, read>>
  /\ UNCHANGED <<sessionVars, erred, listing, todo>>

\* _session_alive_at(): an entry that does not open is dead; a flock refused
\* to the reader is alive, whether a session holds it or the call failed.
Probe(r) ==
  LET i == entry[cur[r]] IN
  /\ at[r] = "read"
  /\ \/ /\ \/ i \in locked /\ UNCHANGED erred
           \/ Fails("flock", i)
        /\ NextName(r)
        /\ found' = [found EXCEPT ![r] = @ \cup ({read[r]} \ {None})]
        /\ UNCHANGED shared
     \/ /\ i # None /\ i \notin locked
        /\ at' = [at EXCEPT ![r] = "shared"]
        /\ shared' = [shared EXCEPT ![r] = i]
        /\ UNCHANGED <<erred, found, cur, read>>
     \/ /\ \/ i = None /\ UNCHANGED erred
           \/ Fails("open", i)
        /\ at' = [at EXCEPT ![r] = "dead"]
        /\ UNCHANGED <<found, shared, cur, read>>
  /\ UNCHANGED <<sessionVars, listing, todo>>

ProbeUnlock(r) ==
  /\ at[r] = "shared"
  /\ at' = [at EXCEPT ![r] = "dead"]
  /\ shared' = [shared EXCEPT ![r] = None]
  /\ UNCHANGED <<sessionVars, erred, listing, todo, cur, read, found>>

\* unlink_quietly(dir_fd, name): by name, whatever the name links by now.
Prune(r) ==
  /\ at[r] = "dead" /\ NextName(r)
  /\ entry' = [entry EXCEPT ![cur[r]] = None]
  /\ UNCHANGED <<pid, step, procs, written, locked, tmp, erred,
                 listing, todo, shared, found>>

\* The report goes to the caller.
Report(r) ==
  /\ at[r] = "scan" /\ todo[r] = {}
  /\ at' = [at EXCEPT ![r] = "idle"]
  /\ listing' = [listing EXCEPT ![r] = {}]
  /\ found' = [found EXCEPT ![r] = {}]
  /\ UNCHANGED <<sessionVars, erred, todo, cur, read, shared>>

Next ==
  \/ \E s \in Session :
       \/ \E p \in Pid : Launch(s, p)
       \/ OpenTmp(s) \/ FlockTmp(s) \/ WriteTmp(s) \/ Publish(s) \/ Abandon(s)
       \/ Exec(s) \/ SpawnGuests(s)
       \/ \E x \in {"root", "guest"} : Die(s, x)
  \/ \E r \in Reader :
       \/ List(r) \/ Probe(r) \/ ProbeUnlock(r) \/ Prune(r) \/ Report(r)
       \/ \E p \in Pid : ReadRecord(r, p)

Spec == Init /\ [][Next]_registryVars

-----------------------------------------------------------------------------
(* Properties.                                                             *)

\* os.replace() publishes a complete record in one step, under the name of
\* the PID it records: no reader sees a partial or a misfiled one.
CompleteRecords ==
  \A p \in Pid : entry[p] # None => entry[p] \in written /\ pid[entry[p]] = p

\* The kernel gave nobody else the PID of s, before or since.
OwnPid(s) == \A t \in Session \ {s} : pid[t] # pid[s]

\* A session that registered stays listed while any of its processes, the
\* reparented guests of a killed proot included, is still running: what readers
\* prune is never the record of a live session, but for one that a reader could
\* not open: _session_alive_at() takes it for dead, although its comment has a
\* still-running session never pruned by mistake.  (A name that is taken
\* over may be pruned: the reader unlinks by name what it probed before.)
StaysListed ==
  \A s \in Session :
    (s \in locked /\ step[s] \in {"ready", "running"} /\ OwnPid(s)
       /\ <<"open", s>> \notin erred)
    => entry[pid[s]] = s

\* A record reported by active_sessions() belonged to a live session when
\* it was added to the report, unless the kernel failed the probe of its file.
ReportedLive ==
  [][\A r \in Reader : \A s \in found'[r] \ found[r] :
       OwnPid(s) => s \in locked \/ <<"flock", s>> \in erred']_registryVars

\* A reader leaves no live session out: of the names it listed and has dealt
\* with, each whose session still runs is in its report, unless the record
\* could not be read or opened.  Records are read before they are probed, and
\* other readers prune in the meantime.
ListingComplete ==
  \A r \in Reader : at[r] = "scan" =>
    \A s \in locked :
      (pid[s] \in listing[r] \ todo[r] /\ OwnPid(s)
         /\ <<"read", s>> \notin erred /\ <<"open", s>> \notin erred)
      => s \in found[r]
=============================================================================
