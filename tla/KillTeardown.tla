---------------------------- MODULE KillTeardown ----------------------------
(***************************************************************************)
(* proot_distro/commands/kill.py: one `proot-distro kill` of one session   *)
(* while the session goes on.  kill holds no lock and stops nobody: it     *)
(* reads the process table and the holders of the session's record, walks  *)
(* the trees, signals one process at a time, waits, and starts over with a *)
(* stronger signal.  Meanwhile guests fork, exit, are handed to init and   *)
(* close the inherited descriptor, and the kernel reuses PIDs.             *)
(*                                                                         *)
(* A scan of /proc is one step, and no PID that kill has just read is      *)
(* handed out again before it looks the next time.                         *)
(***************************************************************************)

CONSTANTS
  Pid,      \* the PIDs of the host that matter
  Root,     \* the session's recorded PID
  First,    \* the PID of its first guest
  Signals,  \* what the user may ask for: subset of {"TERM", "KILL", "STOP"}
  None      \* init, or any parent outside the model

ASSUME KillAssumption ==
  /\ None \notin Pid
  /\ Root \in Pid /\ First \in Pid \ {Root}
  /\ Signals \subseteq {"TERM", "KILL", "STOP"}

VARIABLES
  who,       \* who[p]: the process p names
  ppid,      \* ppid[p]: its parent
  holds,     \* the processes that have the session's record open
  readable,  \* /proc/<pid>/fd of other processes can be read
  quitting,  \* the session's proot has got SIGQUIT
  orphaned,  \* somebody else killed proot with SIGKILL before its guests
  sig,       \* the requested signal
  at,        \* where kill is within a scan
  stage,     \* what the scan is for
  parents,   \* kill's {pid: ppid}
  roots,     \* the live entry points it has found
  todo,      \* the processes left to signal
  outcome    \* what it reports

processVars == <<who, ppid, holds, readable, quitting, orphaned>>
scanVars == <<parents, roots, todo>>
killVars == <<sig, at, stage, parents, roots, todo, outcome>>
vars == <<who, ppid, holds, readable, quitting, orphaned,
          sig, at, stage, parents, roots, todo, outcome>>

Guests == {p \in Pid : who[p] = "guest"}

TypeOK ==
  /\ who \in [Pid -> {"free", "proot", "guest", "other", "otherProot"}]
  /\ ppid \in [Pid -> Pid \cup {None}]
  /\ holds \subseteq {p \in Pid : who[p] \in {"proot", "guest"}}
  /\ readable \in BOOLEAN /\ quitting \in BOOLEAN /\ orphaned \in BOOLEAN
  /\ sig \in Signals
  /\ at \in {"parents", "holders", "collect", "signal", "wait", "done"}
  /\ stage \in {"track", "ask", "quit", "sweep", "report"}
  /\ parents \in UNION {[S -> Pid \cup {None}] : S \in SUBSET Pid}
  /\ roots \subseteq Pid /\ todo \subseteq Pid
  /\ outcome \in {"", "no session", "sent", "terminated", "survived"}

NoParents == [p \in {} |-> None]

\* active_sessions() has just listed the session.
Init ==
  /\ who = [p \in Pid |-> IF p = Root THEN "proot"
                          ELSE IF p = First THEN "guest" ELSE "free"]
  /\ ppid = [p \in Pid |-> IF p = First THEN Root ELSE None]
  /\ holds = {Root, First}
  /\ readable \in BOOLEAN
  /\ quitting = FALSE /\ orphaned = FALSE
  /\ sig \in Signals
  /\ at = "parents" /\ stage = "track"
  /\ parents = NoParents /\ roots = {} /\ todo = {}
  /\ outcome = ""

-----------------------------------------------------------------------------
(* The host.                                                               *)

\* What a death leaves: children of init, and a descriptor fewer.
Dead(S) ==
  /\ who' = [p \in Pid |-> IF p \in S THEN "free" ELSE who[p]]
  /\ ppid' = [p \in Pid |-> IF p \in S \/ ppid[p] \in S THEN None ELSE ppid[p]]
  /\ holds' = holds \ S

\* PIDs that kill has in hand are not reused under it.
Reusable(p) ==
  who[p] = "free" /\ p \notin (DOMAIN parents \cup roots \cup todo)

Fork(p, c) ==
  /\ who[p] = "guest" /\ Reusable(c)
  /\ who' = [who EXCEPT ![c] = "guest"]
  /\ ppid' = [ppid EXCEPT ![c] = p]
  /\ holds' = IF p \in holds THEN holds \cup {c} ELSE holds
  /\ UNCHANGED <<readable, quitting, orphaned, killVars>>

\* A guest that turns into a daemon closes what it has inherited.
CloseInherited(p) ==
  /\ who[p] = "guest" /\ p \in holds
  /\ holds' = holds \ {p}
  /\ UNCHANGED <<who, ppid, readable, quitting, orphaned, killVars>>

GuestExits(p) ==
  /\ who[p] = "guest"
  /\ Dead({p})
  /\ UNCHANGED <<readable, quitting, orphaned, killVars>>

\* The event loop ends through ECHILD, or on SIGQUIT kills every tracee first.
ProotExits ==
  /\ who[Root] = "proot" /\ (quitting \/ Guests = {})
  /\ Dead(Guests \cup {Root})
  /\ quitting' = FALSE
  /\ UNCHANGED <<readable, orphaned, killVars>>

\* Somebody's `kill -9` of proot leaves the guests behind.
ProotKilled ==
  /\ who[Root] = "proot"
  /\ Dead({Root})
  /\ quitting' = FALSE
  /\ orphaned' = (orphaned \/ Guests # {})
  /\ UNCHANGED <<readable, killVars>>

\* An unrelated process, which may be another proot, gets the PID.
Recycle(p, kind) ==
  /\ Reusable(p)
  /\ who' = [who EXCEPT ![p] = kind]
  /\ UNCHANGED <<ppid, holds, readable, quitting, orphaned, killVars>>

-----------------------------------------------------------------------------
(* Reading the process table.                                              *)

Alive(p) == who[p] # "free"
CommIsProot(p) == who[p] \in {"proot", "otherProot"}
Live == holds # {}

\* Mutant: the recorded PID is trusted although the session may have ended.
RootsUnprobed(found) ==
  IF found # {}
    THEN {p \in found : p \notin DOMAIN parents \/ parents[p] \notin found}
    ELSE {p \in {Root} : Alive(p) /\ CommIsProot(p)}

SessionRoots(found) ==
  IF found # {}
    THEN {p \in found : p \notin DOMAIN parents \/ parents[p] \notin found}
    ELSE {p \in {Root} : Live /\ Alive(p) /\ CommIsProot(p)}

Holders == IF readable THEN holds ELSE {}

Drained == ~Live /\ SessionRoots(Holders) = {}

\* The members of from with all their descendants in map: the smallest set that
\* has them and, with a process, its children.
WithChildren(S, map) == \A p \in DOMAIN map : map[p] \in S => p \in S

CollectTree(from, map) ==
  LET closed == {S \in SUBSET Pid : from \subseteq S /\ WithChildren(S, map)}
  IN {p \in Pid : \A S \in closed : p \in S}

PidPpid == [p \in {q \in Pid : Alive(q)} |-> ppid[p]]

-----------------------------------------------------------------------------
(* The command.                                                            *)

Scan(next) ==
  /\ at' = "parents" /\ stage' = next
  /\ parents' = NoParents /\ roots' = {} /\ todo' = {}

Done(result) ==
  /\ at' = "done" /\ outcome' = result
  /\ parents' = NoParents /\ roots' = {} /\ todo' = {}
  /\ UNCHANGED stage

ReadTable ==
  /\ at = "parents"
  /\ parents' = PidPpid
  /\ at' = "holders"
  /\ UNCHANGED <<processVars, sig, stage, roots, todo, outcome>>

\* _tracked_sessions(): is there anything to signal?
Track ==
  /\ at = "holders" /\ stage = "track"
  /\ IF SessionRoots(Holders) = {}
       THEN Done("no session")
       ELSE Scan("ask") /\ UNCHANGED outcome
  /\ UNCHANGED <<processVars, sig>>

ReadHolders ==
  /\ at = "holders" /\ stage \in {"ask", "quit", "sweep"}
  /\ roots' = SessionRoots(Holders)
  /\ parents' = NoParents
  /\ at' = "collect"
  /\ UNCHANGED <<processVars, sig, stage, todo, outcome>>

\* Mutant: no SIGQUIT, since what proot ignores it will ignore.
CollectNoQuit ==
  /\ at = "collect"
  /\ at' = "signal"
  /\ todo' = IF stage = "quit" THEN {} ELSE CollectTree(roots, PidPpid)
  /\ roots' = {}
  /\ UNCHANGED <<processVars, sig, stage, parents, outcome>>

\* _signal_pass() reads the table again and walks it; _escalate() takes the
\* roots as they are.
Collect ==
  /\ at = "collect"
  /\ at' = "signal"
  /\ todo' = IF stage = "quit" THEN roots ELSE CollectTree(roots, PidPpid)
  /\ roots' = {}
  /\ UNCHANGED <<processVars, sig, stage, parents, outcome>>

Delivered ==
  CASE stage = "quit" -> "QUIT"
    [] stage = "sweep" -> "KILL"
    [] OTHER -> sig

\* proot ignores all but SIGQUIT and SIGKILL; a guest may ignore SIGTERM, too.
Effect(p) ==
  \/ Delivered = "KILL" /\ Dead({p}) /\ quitting' = (quitting /\ p # Root)
  \/ /\ Delivered = "QUIT" /\ who[p] = "proot"
     /\ quitting' = TRUE /\ UNCHANGED <<who, ppid, holds>>
  \/ Delivered = "TERM" /\ who[p] = "guest" /\ Dead({p}) /\ UNCHANGED quitting
  \/ /\ Delivered # "KILL" /\ ~(Delivered = "QUIT" /\ who[p] = "proot")
     /\ UNCHANGED <<who, ppid, holds, quitting>>

Signal(p) ==
  /\ at = "signal" /\ p \in todo
  /\ todo' = todo \ {p}
  /\ IF Alive(p) /\ (stage = "quit" => CommIsProot(p))
       THEN Effect(p)
       ELSE UNCHANGED <<who, ppid, holds, quitting>>
  /\ UNCHANGED <<readable, orphaned, sig, at, stage, parents, roots, outcome>>

\* A pass is over: report, wait, or report after the last one.
PassEnds ==
  /\ at = "signal" /\ todo = {}
  /\ \/ stage = "ask" /\ sig = "STOP" /\ Done("sent")
     \/ /\ stage = "quit" \/ (stage = "ask" /\ sig # "STOP")
        /\ at' = "wait"
        /\ UNCHANGED <<stage, scanVars, outcome>>
     \/ stage = "sweep" /\ Scan("report") /\ UNCHANGED outcome
  /\ UNCHANGED <<processVars, sig>>

WaitOver ==
  /\ at = "wait" /\ Drained
  /\ Scan("report")
  /\ UNCHANGED <<processVars, sig, outcome>>

\* The grace is long enough for proot to act upon a SIGQUIT.
GraceExpires ==
  /\ at = "wait" /\ ~quitting
  /\ Scan(IF stage = "ask" THEN "quit" ELSE "sweep")
  /\ UNCHANGED <<processVars, sig, outcome>>

\* _survivors() and _report().
Report ==
  /\ at = "holders" /\ stage = "report"
  /\ Done(IF \E p \in CollectTree(SessionRoots(Holders), parents) : Alive(p)
            THEN "survived" ELSE "terminated")
  /\ UNCHANGED <<processVars, sig>>

\* Followed for as long as kill works.
Host ==
  /\ at # "done"
  /\ \/ \E p, c \in Pid : Fork(p, c)
     \/ \E p \in Pid : CloseInherited(p) \/ GuestExits(p)
     \/ ProotExits \/ ProotKilled
     \/ \E p \in Pid, kind \in {"other", "otherProot"} : Recycle(p, kind)

Next ==
  \/ Host
  \/ ReadTable \/ Track \/ ReadHolders \/ Collect \/ PassEnds
  \/ WaitOver \/ GraceExpires \/ Report
  \/ \E p \in Pid : Signal(p)

Spec == Init /\ [][Next]_vars

-----------------------------------------------------------------------------
(* Properties.                                                             *)

\* Only processes of the session are signalled, however PIDs are reused while
\* kill scans, walks and waits.  (The recorded PID of a host whose /proc cannot
\* be read is the documented exception.)
OnlySessionSignalled ==
  [][\A p \in todo \ todo' :
       (at = "signal" /\ Alive(p) /\ (stage = "quit" => CommIsProot(p)))
       => who[p] \in {"proot", "guest"} \/ (~readable /\ p = Root)]_vars

\* "Terminated" is the truth: nothing holds the session's record any more, and
\* unless proot was killed over the heads of its guests, none of them is left,
\* also of those that closed the descriptor and lost their parent.
TerminatedMeansGone ==
  (outcome = "terminated" /\ readable) =>
    /\ holds = {}
    /\ sig # "KILL" /\ ~orphaned => Guests = {}
=============================================================================
