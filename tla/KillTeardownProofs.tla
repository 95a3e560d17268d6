------------------------- MODULE KillTeardownProofs -------------------------
(***************************************************************************)
(* Theorems about KillTeardown, for any number of PIDs and of processes    *)
(* that guests fork.  kill stops nobody, so that what it relies on is what *)
(* goes on without it: a parent lives as long as its children say so, the  *)
(* table it reads is a forest, and proot is there until it has taken its   *)
(* guests along, or somebody has answered for it.                          *)
(***************************************************************************)
EXTENDS KillTeardown, TLAPS

-----------------------------------------------------------------------------
(* The walk.                                                               *)

\* _collect_tree() returns its roots.
LEMMA TreeHasRoots ==
  ASSUME NEW from \in SUBSET Pid, NEW map
  PROVE  from \subseteq CollectTree(from, map)
BY DEF CollectTree

\* It stays within every set that has the roots and loses no child.
LEMMA TreeSmallest ==
  ASSUME NEW from, NEW map, NEW S \in SUBSET Pid,
         from \subseteq S, WithChildren(S, map)
  PROVE  CollectTree(from, map) \subseteq S
BY DEF CollectTree

\* And it has every child of its members.
LEMMA TreeClosed ==
  ASSUME NEW from, NEW map, DOMAIN map \subseteq Pid
  PROVE  WithChildren(CollectTree(from, map), map)
BY DEF CollectTree, WithChildren

-----------------------------------------------------------------------------
(* The inductive invariant.                                                *)

\* A set of processes that follows `map` has a top: no parents in a circle.
Topped(map) ==
  \A S \in SUBSET (DOMAIN map) : S # {} => \E p \in S : map[p] \notin S

RootUp == who[Root] = "proot"

\* Only guests have parents that matter, and those are alive; proot holds its
\* record until it ends.
HostSound ==
  /\ \A p \in Pid : ppid[p] # None => who[p] = "guest" /\ who[ppid[p]] # "free"
  /\ Topped(ppid)
  /\ \A p \in Pid : who[p] = "proot" => p = Root
  /\ RootUp => Root \in holds

TableSound ==
  /\ Topped(parents)
  /\ RootUp /\ Root \in DOMAIN parents => parents[Root] = None

\* Where kill is, and what for.
Places ==
  /\ at = "collect" => stage \in {"ask", "quit", "sweep"}
  /\ at = "signal" => stage \in {"ask", "quit", "sweep"}
  /\ at = "wait" => stage \in {"ask", "quit"}
  /\ at # "done" => outcome = ""

\* What kill has found was of the session, and ends if it is no more.
InHand ==
  \A p \in roots \cup todo :
    who[p] \in {"proot", "guest", "free"} \/ (~readable /\ p = Root)

\* A proot that is there when SIGQUIT goes round gets it.
QuitReachesRoot ==
  readable /\ RootUp =>
    /\ stage # "sweep"
    /\ stage = "quit" /\ at = "collect" => Root \in roots
    /\ stage = "quit" /\ at = "signal" => Root \in todo \/ quitting
    /\ stage = "quit" /\ at = "wait" => quitting

\* Guests do not outlive proot, unless by SIGKILL.
NoneLeft ==
  readable /\ sig # "KILL" /\ ~orphaned /\ ~RootUp => Guests = {}

IInv ==
  /\ TypeOK /\ HostSound /\ TableSound /\ Places /\ InHand
  /\ QuitReachesRoot /\ NoneLeft /\ TerminatedMeansGone

-----------------------------------------------------------------------------
(* The host.                                                               *)

LEMMA NoParentsTyped ==
  NoParents \in UNION {[S -> Pid \cup {None}] : S \in SUBSET Pid}
<1>1. NoParents \in [{} -> Pid \cup {None}]
  BY DEF NoParents
<1> QED
  BY <1>1

LEMMA TableTyped ==
  ASSUME TypeOK
  PROVE  /\ PidPpid \in UNION {[S -> Pid \cup {None}] : S \in SUBSET Pid}
         /\ DOMAIN PidPpid \subseteq Pid
<1> DEFINE live == {q \in Pid : Alive(q)}
<1>1. live \in SUBSET Pid
  OBVIOUS
<1>2. PidPpid \in [live -> Pid \cup {None}]
  BY DEF TypeOK, PidPpid
<1> QED
  BY <1>1, <1>2

\* A death leaves orphans to init and nothing else behind.
LEMMA DeadTyped ==
  ASSUME TypeOK, NEW S \in SUBSET Pid, Dead(S)
  PROVE  /\ who' \in [Pid -> {"free", "proot", "guest", "other", "otherProot"}]
         /\ ppid' \in [Pid -> Pid \cup {None}]
         /\ holds' \subseteq {p \in Pid : who'[p] \in {"proot", "guest"}}
BY DEF TypeOK, Dead

LEMMA DeadSound ==
  ASSUME TypeOK, HostSound, NEW S \in SUBSET Pid, Dead(S)
  PROVE  HostSound'
<1> USE KillAssumption DEF TypeOK, Dead
<1>1. (\A p \in Pid : ppid[p] # None => who[p] = "guest" /\ who[ppid[p]] # "free")'
  BY DEF HostSound
<1>2. Topped(ppid)'
  <2> SUFFICES ASSUME NEW T \in SUBSET Pid, T # {}
               PROVE  \E p \in T : ppid'[p] \notin T
    BY DEF Topped
  <2>1. PICK p \in T : ppid[p] \notin T
    BY DEF HostSound, Topped
  <2>2. ppid'[p] \in {None, ppid[p]}
    OBVIOUS
  <2> QED
    BY <2>1, <2>2
<1>3. (\A p \in Pid : who[p] = "proot" => p = Root)'
  BY DEF HostSound
<1>4. (RootUp => Root \in holds)'
  BY DEF HostSound, RootUp
<1> QED
  BY <1>1, <1>2, <1>3, <1>4 DEF HostSound

\* A child whose PID was free is a leaf of the forest.
LEMMA ForkSound ==
  ASSUME TypeOK, HostSound, NEW p \in Pid, NEW c \in Pid, Fork(p, c)
  PROVE  HostSound'
<1> USE KillAssumption
<1>0. /\ who \in [Pid -> {"free", "proot", "guest", "other", "otherProot"}]
      /\ ppid \in [Pid -> Pid \cup {None}]
      /\ who[p] = "guest" /\ who[c] = "free" /\ c # p
      /\ who' = [who EXCEPT ![c] = "guest"] /\ ppid' = [ppid EXCEPT ![c] = p]
      /\ holds \subseteq holds'
  BY DEF TypeOK, Fork, Reusable
<1>1. (\A q \in Pid : ppid[q] # None => who[q] = "guest" /\ who[ppid[q]] # "free")'
  <2> SUFFICES ASSUME NEW q \in Pid, ppid'[q] # None
               PROVE  who'[q] = "guest" /\ who'[ppid'[q]] # "free"
    OBVIOUS
  <2>1. CASE q = c
    BY <1>0, <2>1
  <2>2. CASE q # c
    <3>1. ppid'[q] = ppid[q] /\ who'[q] = who[q] /\ ppid[q] \in Pid
      BY <1>0, <2>2
    <3>2. who[q] = "guest" /\ who[ppid[q]] # "free"
      BY <3>1 DEF HostSound
    <3> QED
      BY <1>0, <3>1, <3>2
  <2> QED
    BY <2>1, <2>2
<1>2. Topped(ppid)'
  <2> SUFFICES ASSUME NEW T \in SUBSET Pid, T # {}
               PROVE  \E q \in T : ppid'[q] \notin T
    BY <1>0 DEF Topped
  <2>1. CASE T \subseteq {c}
    <3>1. T = {c} /\ ppid'[c] = p
      BY <1>0, <2>1
    <3> QED
      BY <1>0, <3>1
  <2>2. CASE ~(T \subseteq {c})
    <3>1. PICK q \in T \ {c} : ppid[q] \notin T \ {c}
      <4>1. T \ {c} \in SUBSET (DOMAIN ppid) /\ T \ {c} # {}
        BY <1>0, <2>2
      <4> QED
        BY <4>1 DEF HostSound, Topped
    <3>2. ppid[q] # c
      <4>1. ppid[q] # None => who[ppid[q]] # "free"
        BY <3>1 DEF HostSound
      <4> QED
        BY <1>0, <4>1
    <3> QED
      BY <1>0, <3>1, <3>2
  <2> QED
    BY <2>1, <2>2
<1>3. (\A q \in Pid : who[q] = "proot" => q = Root)'
  BY <1>0 DEF HostSound
<1>4. (RootUp => Root \in holds)'
  BY <1>0 DEF HostSound, RootUp
<1> QED
  BY <1>1, <1>2, <1>3, <1>4 DEF HostSound

LEMMA HostStep ==
  ASSUME TypeOK, HostSound, [Next]_vars
  PROVE  HostSound'
<1> USE KillAssumption
<1>1. ASSUME NEW p \in Pid, CloseInherited(p)
      PROVE  HostSound'
  <2>1. UNCHANGED <<who, ppid>> /\ who[p] = "guest" /\ holds' = holds \ {p}
    BY <1>1 DEF CloseInherited
  <2> QED
    BY <2>1 DEF HostSound, RootUp, Topped
<1>2. ASSUME NEW p \in Pid, GuestExits(p)
      PROVE  HostSound'
  BY <1>2, DeadSound DEF GuestExits
<1>3. CASE ProotExits
  BY <1>3, DeadSound DEF ProotExits, Guests
<1>4. CASE ProotKilled
  BY <1>4, DeadSound DEF ProotKilled
<1>5. ASSUME NEW p \in Pid, NEW kind \in {"other", "otherProot"}, Recycle(p, kind)
      PROVE  HostSound'
  <2>1. UNCHANGED <<ppid, holds>> /\ who' = [who EXCEPT ![p] = kind] /\ who[p] = "free"
    BY <1>5 DEF Recycle, Reusable
  <2>2. (\A q \in Pid : ppid[q] # None => who[q] = "guest" /\ who[ppid[q]] # "free")'
    BY <2>1 DEF HostSound, TypeOK
  <2>3. Topped(ppid)'
    BY <2>1 DEF HostSound, Topped
  <2> QED
    BY <2>1, <2>2, <2>3 DEF HostSound, TypeOK, RootUp
<1>6. ASSUME NEW p \in Pid, Signal(p)
      PROVE  HostSound'
  <2>1. CASE Dead({p})
    BY <2>1, DeadSound
  <2>2. CASE UNCHANGED <<who, ppid, holds>>
    BY <2>2 DEF HostSound, RootUp, Topped
  <2> QED
    BY <1>6, <2>1, <2>2 DEF Signal, Effect
<1>7. CASE UNCHANGED processVars
  BY <1>7 DEF HostSound, RootUp, Topped, processVars
<1>8. \/ Host \/ UNCHANGED processVars \/ \E p \in Pid : Signal(p)
  BY DEF Next, ReadTable, Track, ReadHolders, Collect, PassEnds, WaitOver, GraceExpires,
     Report, vars, processVars
<1> QED
  BY <1>1, <1>2, <1>3, <1>4, <1>5, <1>6, <1>7, <1>8, ForkSound DEF Host

-----------------------------------------------------------------------------
(* The command.                                                            *)

LEMMA RootsTyped ==
  ASSUME TypeOK
  PROVE  SessionRoots(Holders) \in SUBSET Pid
BY KillAssumption DEF TypeOK, SessionRoots, Holders

LEMMA TypeStep ==
  ASSUME TypeOK, [Next]_vars
  PROVE  TypeOK'
<1> USE KillAssumption
<1>1. ASSUME NEW p \in Pid, NEW c \in Pid, Fork(p, c)
      PROVE  TypeOK'
  <2>1. /\ who' = [who EXCEPT ![c] = "guest"] /\ ppid' = [ppid EXCEPT ![c] = p]
        /\ holds' \subseteq holds \cup {c} /\ who[c] = "free"
        /\ UNCHANGED <<readable, quitting, orphaned, killVars>>
    BY <1>1 DEF Fork, Reusable
  <2>2. ASSUME NEW q \in holds'
        PROVE  q \in Pid /\ who'[q] \in {"proot", "guest"}
    <3>1. CASE q = c
      BY <2>1, <3>1 DEF TypeOK
    <3>2. CASE q # c
      BY <2>1, <2>2, <3>2 DEF TypeOK
    <3> QED
      BY <3>1, <3>2
  <2> QED
    BY <2>1, <2>2 DEF TypeOK, killVars
<1>2. ASSUME NEW p \in Pid, CloseInherited(p)
      PROVE  TypeOK'
  BY <1>2 DEF CloseInherited, TypeOK, killVars
<1>3. ASSUME NEW p \in Pid, GuestExits(p)
      PROVE  TypeOK'
  BY <1>3, DeadTyped DEF GuestExits, TypeOK, killVars
<1>4. CASE ProotExits
  <2>1. Guests \cup {Root} \in SUBSET Pid
    BY DEF Guests
  <2> QED
    BY <1>4, <2>1, DeadTyped DEF ProotExits, TypeOK, killVars
<1>5. CASE ProotKilled
  <2>1. orphaned' \in BOOLEAN
    BY <1>5 DEF ProotKilled, TypeOK
  <2> QED
    BY <1>5, <2>1, DeadTyped DEF ProotKilled, TypeOK, killVars
<1>6. ASSUME NEW p \in Pid, NEW kind \in {"other", "otherProot"}, Recycle(p, kind)
      PROVE  TypeOK'
  BY <1>6 DEF Recycle, Reusable, TypeOK, killVars
<1>7. CASE ReadTable
  BY <1>7, TableTyped DEF ReadTable, TypeOK, processVars
<1>8. CASE Track
  BY <1>8, NoParentsTyped DEF Track, Done, Scan, TypeOK, processVars
<1>9. CASE ReadHolders
  BY <1>9, NoParentsTyped, RootsTyped DEF ReadHolders, TypeOK, processVars
<1>10. CASE Collect
  <2>1. CollectTree(roots, PidPpid) \subseteq Pid
    BY DEF CollectTree
  <2> QED
    BY <1>10, <2>1 DEF Collect, TypeOK, processVars
<1>11. CASE PassEnds
  BY <1>11, NoParentsTyped DEF PassEnds, Done, Scan, TypeOK, processVars, scanVars
<1>12. CASE WaitOver
  BY <1>12, NoParentsTyped DEF WaitOver, Scan, TypeOK, processVars
<1>13. CASE GraceExpires
  BY <1>13, NoParentsTyped DEF GraceExpires, Scan, TypeOK, processVars
<1>14. CASE Report
  BY <1>14, NoParentsTyped DEF Report, Done, TypeOK, processVars
<1>15. ASSUME NEW p \in Pid, Signal(p)
       PROVE  TypeOK'
  <2>1. /\ todo' = todo \ {p}
        /\ UNCHANGED <<readable, orphaned, sig, at, stage, parents, roots, outcome>>
    BY <1>15 DEF Signal
  <2>2. CASE Dead({p}) /\ quitting' \in BOOLEAN
    BY <2>1, <2>2, DeadTyped DEF TypeOK
  <2>3. CASE UNCHANGED <<who, ppid, holds>> /\ quitting' \in BOOLEAN
    BY <2>1, <2>3 DEF TypeOK
  <2>4. quitting \in BOOLEAN /\ (quitting /\ p # Root) \in BOOLEAN
    BY DEF TypeOK
  <2> QED
    BY <1>15, <2>2, <2>3, <2>4 DEF Signal, Effect
<1>16. CASE UNCHANGED vars
  BY <1>16 DEF TypeOK, vars
<1> QED
  BY <1>1, <1>2, <1>3, <1>4, <1>5, <1>6, <1>7, <1>8, <1>9, <1>10, <1>11, <1>12, <1>13,
     <1>14, <1>15, <1>16 DEF Next, Host

LEMMA PlacesStep ==
  ASSUME TypeOK, Places, [Next]_vars
  PROVE  Places'
<1>1. CASE Host
  BY <1>1 DEF Host, Fork, CloseInherited, GuestExits, ProotExits, ProotKilled, Recycle,
     Places, killVars
<1>2. CASE ReadTable \/ Track \/ ReadHolders \/ Collect
  BY <1>2 DEF ReadTable, Track, ReadHolders, Collect, Scan, Done, Places
<1>3. CASE PassEnds \/ WaitOver \/ GraceExpires \/ Report
  BY <1>3 DEF PassEnds, WaitOver, GraceExpires, Report, Scan, Done, Places
<1>4. ASSUME NEW p \in Pid, Signal(p)
      PROVE  Places'
  BY <1>4 DEF Signal, Places
<1>5. CASE UNCHANGED vars
  BY <1>5 DEF Places, vars
<1> QED
  BY <1>1, <1>2, <1>3, <1>4, <1>5 DEF Next

\* kill's map is the table as it is read, or empty.
LEMMA TableMoves ==
  ASSUME [Next]_vars
  PROVE  parents' \in {parents, NoParents, PidPpid}
BY DEF Next, Host, Fork, CloseInherited, GuestExits, ProotExits, ProotKilled,
   Recycle, ReadTable, Track, ReadHolders, Collect, PassEnds, WaitOver, GraceExpires, Report,
   Signal, Scan, Done, scanVars, killVars, vars

\* Whatever gets the PID of proot is another process.
LEMMA RootStaysDown ==
  ASSUME TypeOK, [Next]_vars
  PROVE  RootUp' => RootUp
<1> USE KillAssumption
<1>1. ASSUME NEW S \in SUBSET Pid, Dead(S)
      PROVE  RootUp' => RootUp
  BY <1>1 DEF Dead, RootUp
<1>2. ASSUME NEW p \in Pid, NEW kind \in {"guest", "other", "otherProot"},
             who' = [who EXCEPT ![p] = kind]
      PROVE  RootUp' => RootUp
  BY <1>2 DEF RootUp, TypeOK
<1>3. CASE UNCHANGED who
  BY <1>3 DEF RootUp
<1>4. CASE Host
  <2>1. \/ \E S \in SUBSET Pid : Dead(S)
        \/ \E p \in Pid, kind \in {"guest", "other", "otherProot"} :
             who' = [who EXCEPT ![p] = kind]
        \/ UNCHANGED who
    BY <1>4 DEF Host, Fork, CloseInherited, GuestExits, ProotExits, ProotKilled, Recycle, Guests
  <2> QED
    BY <1>1, <1>2, <1>3, <2>1
<1>5. ASSUME NEW p \in Pid, Signal(p)
      PROVE  RootUp' => RootUp
  BY <1>1, <1>3, <1>5 DEF Signal, Effect
<1> QED
  BY <1>3, <1>4, <1>5 DEF Next, ReadTable, Track, ReadHolders, Collect, PassEnds, WaitOver,
     GraceExpires, Report, processVars, vars

\* The table of the living is a forest like the host's.
LEMMA TableStep ==
  ASSUME TypeOK, HostSound, TableSound, [Next]_vars
  PROVE  TableSound'
<1> USE KillAssumption
<1>1. Topped(parents)'
  <2>1. CASE parents' = parents
    BY <2>1 DEF TableSound, Topped
  <2>2. CASE parents' = NoParents
    BY <2>2 DEF NoParents, Topped
  <2>3. CASE parents' = PidPpid
    <3> DEFINE live == {q \in Pid : Alive(q)}
    <3> SUFFICES ASSUME NEW S \in SUBSET live, S # {}
                 PROVE  \E p \in S : PidPpid[p] \notin S
      BY <2>3 DEF Topped, PidPpid
    <3>1. S \in SUBSET (DOMAIN ppid)
      BY DEF TypeOK
    <3>2. PICK p \in S : ppid[p] \notin S
      BY <3>1 DEF HostSound, Topped
    <3>3. PidPpid[p] = ppid[p]
      BY DEF PidPpid
    <3> QED
      BY <3>2, <3>3
  <2> QED
    BY <2>1, <2>2, <2>3, TableMoves
<1>2. (RootUp /\ Root \in DOMAIN parents => parents[Root] = None)'
  <2>1. RootUp' => RootUp
    BY RootStaysDown
  <2>2. CASE parents' = parents
    BY <2>1, <2>2 DEF TableSound
  <2>3. CASE parents' = NoParents
    BY <2>3 DEF NoParents
  <2>4. CASE parents' = PidPpid
    BY <2>1, <2>4 DEF PidPpid, RootUp, HostSound
  <2> QED
    BY <2>2, <2>3, <2>4, TableMoves
<1> QED
  BY <1>1, <1>2 DEF TableSound

\* Nobody gets a PID that kill has in hand.
LEMMA InHandKept ==
  ASSUME TypeOK, InHand, [Next]_vars, roots' \subseteq roots, todo' \subseteq todo
  PROVE  InHand'
<1> DEFINE Fine(q) == who[q] \in {"proot", "guest", "free"} \/ (~readable /\ q = Root)
<1> SUFFICES ASSUME NEW q \in roots \cup todo, Fine(q)
             PROVE  Fine(q)'
  BY DEF InHand
<1>0. readable' = readable /\ q \in Pid
  BY DEF Next, Host, Fork, CloseInherited, GuestExits, ProotExits, ProotKilled,
     Recycle, ReadTable, Track, ReadHolders, Collect, PassEnds, WaitOver, GraceExpires, Report,
     Signal, processVars, vars, TypeOK
<1>1. who'[q] \in {who[q], "free"}
  <2>1. ASSUME NEW S \in SUBSET Pid, Dead(S)
        PROVE  who'[q] \in {who[q], "free"}
    BY <1>0, <2>1 DEF Dead
  <2>2. ASSUME NEW p \in Pid, Reusable(p), NEW k, who' = [who EXCEPT ![p] = k]
        PROVE  who'[q] \in {who[q], "free"}
    BY <1>0, <2>2 DEF Reusable, TypeOK
  <2>3. CASE Host
    <3>1. \/ \E S \in SUBSET Pid : Dead(S)
          \/ \E p \in Pid : Reusable(p) /\ \E k : who' = [who EXCEPT ![p] = k]
          \/ UNCHANGED who
      <4>1. CASE \E p, c \in Pid : Fork(p, c)
        BY <4>1 DEF Fork
      <4>2. CASE \E p \in Pid, kind \in {"other", "otherProot"} : Recycle(p, kind)
        BY <4>2 DEF Recycle
      <4>3. CASE \E p \in Pid : CloseInherited(p) \/ GuestExits(p)
        BY <4>3 DEF CloseInherited, GuestExits
      <4>4. CASE ProotExits \/ ProotKilled
        <5>1. Guests \cup {Root} \in SUBSET Pid /\ {Root} \in SUBSET Pid
          BY KillAssumption DEF Guests
        <5> QED
          BY <4>4, <5>1 DEF ProotExits, ProotKilled
      <4> QED
        BY <2>3, <4>1, <4>2, <4>3, <4>4 DEF Host
    <3> QED
      BY <2>1, <2>2, <3>1
  <2>4. ASSUME NEW p \in Pid, Signal(p)
        PROVE  who'[q] \in {who[q], "free"}
    BY <2>1, <2>4 DEF Signal, Effect
  <2> QED
    BY <2>3, <2>4 DEF Next, ReadTable, Track, ReadHolders, Collect, PassEnds, WaitOver,
       GraceExpires, Report, processVars, vars
<1> QED
  BY <1>0, <1>1

LEMMA InHandStep ==
  ASSUME TypeOK, HostSound, Places, InHand, [Next]_vars
  PROVE  InHand'
<1> USE KillAssumption
<1>1. CASE ReadHolders
  <2>1. todo' = todo /\ UNCHANGED <<who, readable>> /\ roots' = SessionRoots(Holders)
    BY <1>1 DEF ReadHolders, processVars
  <2>2. \A p \in SessionRoots(Holders) : who[p] \in {"proot", "guest"} \/ (~readable /\ p = Root)
    BY DEF SessionRoots, Holders, Live, TypeOK
  <2> QED
    BY <2>1, <2>2 DEF InHand
<1>2. CASE Collect
  <2>1. /\ roots' = {} /\ UNCHANGED <<who, readable>>
        /\ todo' = roots \/ todo' = CollectTree(roots, PidPpid)
    BY <1>2 DEF Collect, processVars
  <2>2. \A p \in CollectTree(roots, PidPpid) : p \in roots \/ who[p] = "guest"
    <3> DEFINE S == roots \cup Guests
    <3>1. S \in SUBSET Pid /\ roots \subseteq S
      BY DEF TypeOK, Guests
    <3>2. WithChildren(S, PidPpid)
      <4> SUFFICES ASSUME NEW p \in DOMAIN PidPpid, PidPpid[p] \in S
                   PROVE  p \in S
        BY DEF WithChildren
      <4>1. p \in Pid /\ ppid[p] # None
        BY <3>1 DEF PidPpid
      <4> QED
        BY <4>1 DEF HostSound, Guests
    <3>3. CollectTree(roots, PidPpid) \subseteq S
      <4> HIDE DEF S
      <4> QED
        BY <3>1, <3>2, TreeSmallest
    <3> QED
      BY <3>3 DEF Guests
  <2> QED
    BY <2>1, <2>2 DEF InHand
<1>3. CASE roots' \subseteq roots /\ todo' \subseteq todo
  BY <1>3, InHandKept
<1>4. \/ ReadHolders \/ Collect
      \/ roots' \subseteq roots /\ todo' \subseteq todo
  BY DEF Next, Host, Fork, CloseInherited, GuestExits, ProotExits, ProotKilled,
     Recycle, ReadTable, Track, PassEnds, WaitOver, GraceExpires, Report,
     Signal, Scan, Done, scanVars, killVars, vars
<1> QED
  BY <1>1, <1>2, <1>3, <1>4

-----------------------------------------------------------------------------
(* The escalation.                                                         *)

\* The grace after SIGQUIT ends only when proot has gone: WaitOver and
\* GraceExpires find it acted upon.
LEMMA QuitStep ==
  ASSUME TypeOK, HostSound, TableSound, Places, QuitReachesRoot, [Next]_vars
  PROVE  QuitReachesRoot'
<1> USE KillAssumption
<1> SUFFICES ASSUME readable', RootUp'
             PROVE  (/\ stage # "sweep"
                     /\ stage = "quit" /\ at = "collect" => Root \in roots
                     /\ stage = "quit" /\ at = "signal" => Root \in todo \/ quitting
                     /\ stage = "quit" /\ at = "wait" => quitting)'
  BY DEF QuitReachesRoot
<1>0. readable /\ RootUp
  <2>1. readable' = readable
    BY DEF Next, Host, Fork, CloseInherited, GuestExits, ProotExits, ProotKilled,
       Recycle, ReadTable, Track, ReadHolders, Collect, PassEnds, WaitOver, GraceExpires, Report,
       Signal, processVars, vars
  <2> QED
    BY <2>1, RootStaysDown
<1>1. /\ stage # "sweep"
      /\ stage = "quit" /\ at = "collect" => Root \in roots
      /\ stage = "quit" /\ at = "signal" => Root \in todo \/ quitting
      /\ stage = "quit" /\ at = "wait" => quitting
  BY <1>0 DEF QuitReachesRoot
<1>2. CASE Host
  <2>1. UNCHANGED killVars
    BY <1>2 DEF Host, Fork, CloseInherited, GuestExits, ProotExits, ProotKilled, Recycle
  <2>2. quitting' = quitting
    <3>1. ~ProotExits /\ ~ProotKilled
      BY DEF ProotExits, ProotKilled, Dead, RootUp
    <3> QED
      BY <1>2, <3>1 DEF Host, Fork, CloseInherited, GuestExits, Recycle
  <2> QED
    BY <1>1, <2>1, <2>2 DEF killVars
<1>3. CASE ReadHolders
  <2>1. Root \in SessionRoots(Holders)
    <3>1. Holders = holds /\ Root \in holds /\ holds \subseteq Pid
      BY <1>0 DEF Holders, HostSound, TypeOK
    <3>2. Root \notin DOMAIN parents \/ parents[Root] \notin holds
      BY <1>0, <3>1 DEF TableSound
    <3> QED
      BY <3>1, <3>2 DEF SessionRoots
  <2> QED
    BY <1>1, <1>3, <2>1 DEF ReadHolders
<1>4. CASE Collect
  BY <1>1, <1>4 DEF Collect
<1>5. ASSUME NEW p \in Pid, Signal(p)
      PROVE  (/\ stage # "sweep"
              /\ stage = "quit" /\ at = "collect" => Root \in roots
              /\ stage = "quit" /\ at = "signal" => Root \in todo \/ quitting
              /\ stage = "quit" /\ at = "wait" => quitting)'
  <2>1. at = "signal" /\ todo' = todo \ {p} /\ UNCHANGED <<at, stage>>
    BY <1>5 DEF Signal
  <2>2. stage = "quit" /\ p = Root => quitting'
    BY <1>0, <1>5 DEF Signal, Effect, Delivered, Alive, CommIsProot, RootUp
  <2>3. stage = "quit" /\ quitting => quitting'
    BY <1>0, <1>5 DEF Signal, Effect, Delivered
  <2> QED
    BY <1>1, <2>1, <2>2, <2>3
<1>6. CASE PassEnds
  BY <1>1, <1>6 DEF PassEnds, Done, Scan, processVars
<1>7. CASE GraceExpires
  BY <1>0, <1>1, <1>7 DEF GraceExpires, Scan, Places
<1>8. CASE ReadTable \/ Track \/ WaitOver \/ Report
  BY <1>1, <1>8 DEF ReadTable, Track, WaitOver, Report, Done, Scan
<1>9. CASE UNCHANGED vars
  BY <1>1, <1>9 DEF vars
<1> QED
  BY <1>2, <1>3, <1>4, <1>5, <1>6, <1>7, <1>8, <1>9 DEF Next

\* kill's own SIGKILL finds proot gone, and nobody forks without a guest.
LEMMA NoneLeftStep ==
  ASSUME TypeOK, HostSound, QuitReachesRoot, NoneLeft, [Next]_vars
  PROVE  NoneLeft'
<1> USE KillAssumption
<1> SUFFICES ASSUME readable', sig' # "KILL", ~orphaned', ~RootUp'
             PROVE  Guests' = {}
  BY DEF NoneLeft
<1>0. readable /\ sig # "KILL" /\ ~orphaned
  BY DEF Next, Host, Fork, CloseInherited, GuestExits, ProotExits, ProotKilled,
     Recycle, ReadTable, Track, ReadHolders, Collect, PassEnds, WaitOver, GraceExpires, Report,
     Signal, processVars, killVars, vars, TypeOK
<1>1. ~RootUp => Guests = {}
  BY <1>0 DEF NoneLeft
<1>2. ASSUME NEW S \in SUBSET Pid, Dead(S)
      PROVE  Guests' = Guests \ S
  BY <1>2 DEF Dead, Guests
<1>3. CASE UNCHANGED who
  BY <1>1, <1>3 DEF Guests, RootUp
<1>4. ASSUME NEW p \in Pid, NEW c \in Pid, Fork(p, c)
      PROVE  FALSE
  <2>1. RootUp
    BY <1>1, <1>4 DEF Fork, Guests
  <2> QED
    BY <1>4, <2>1 DEF Fork, Reusable, RootUp, TypeOK
<1>5. ASSUME NEW p \in Pid, GuestExits(p)
      PROVE  Guests' = {}
  <2>1. ~RootUp
    BY <1>5 DEF GuestExits, Dead, RootUp
  <2> QED
    BY <1>1, <1>2, <1>5, <2>1 DEF GuestExits
<1>6. CASE ProotExits
  <2>1. Guests \cup {Root} \in SUBSET Pid
    BY DEF Guests
  <2> QED
    BY <1>2, <1>6, <2>1 DEF ProotExits
<1>7. CASE ProotKilled
  <2>1. Guests = {}
    BY <1>7 DEF ProotKilled
  <2> QED
    BY <1>2, <1>7, <2>1 DEF ProotKilled
<1>8. ASSUME NEW p \in Pid, NEW kind \in {"other", "otherProot"}, Recycle(p, kind)
      PROVE  Guests' = {}
  <2>1. who' = [who EXCEPT ![p] = kind] /\ who[p] = "free"
    BY <1>8 DEF Recycle, Reusable
  <2>2. ~RootUp
    BY <2>1 DEF RootUp, TypeOK
  <2> QED
    BY <1>1, <2>1, <2>2 DEF Guests, TypeOK
<1>9. ASSUME NEW p \in Pid, Signal(p)
      PROVE  Guests' = {}
  <2>1. CASE UNCHANGED who
    BY <1>3, <2>1
  <2>2. CASE Dead({p}) /\ who[p] = "guest"
    <3>1. ~RootUp
      BY <2>2 DEF Dead, RootUp
    <3> QED
      BY <1>1, <1>2, <2>2, <3>1
  <2>3. CASE Dead({p}) /\ stage = "sweep"
    <3>1. ~RootUp
      BY <1>0, <2>3 DEF QuitReachesRoot
    <3> QED
      BY <1>1, <1>2, <2>3, <3>1
  <2> QED
    BY <1>0, <1>9, <2>1, <2>2, <2>3 DEF Signal, Effect, Delivered
<1>10. CASE \E p \in Pid : CloseInherited(p)
  BY <1>3, <1>10 DEF CloseInherited
<1> QED
  BY <1>3, <1>4, <1>5, <1>6, <1>7, <1>8, <1>9, <1>10 DEF Next, Host, ReadTable, Track,
     ReadHolders, Collect, PassEnds, WaitOver, GraceExpires, Report, processVars, vars

\* A report of success found no holder: the table is a forest, so that some
\* holder would have been a root.
LEMMA ReportStep ==
  ASSUME TypeOK, HostSound, TableSound, Places, NoneLeft, TerminatedMeansGone, [Next]_vars
  PROVE  TerminatedMeansGone'
<1> USE KillAssumption
<1>1. CASE Report
  <2> SUFFICES ASSUME outcome' = "terminated", readable'
               PROVE  holds' = {} /\ (sig # "KILL" /\ ~orphaned => Guests = {})'
    BY DEF TerminatedMeansGone
  <2>1. UNCHANGED <<processVars, sig>>
    BY <1>1 DEF Report
  <2>2. \A p \in CollectTree(SessionRoots(Holders), parents) : ~Alive(p)
    BY <1>1 DEF Report, Done
  <2>3. \A p \in SessionRoots(Holders) : ~Alive(p)
    BY <2>2, RootsTyped, TreeHasRoots
  <2>4. Holders = holds
    BY <2>1 DEF Holders, processVars
  <2>5. holds = {}
    <3> SUFFICES ASSUME holds # {}
                 PROVE  FALSE
      OBVIOUS
    <3>1. PICK p \in holds : p \notin DOMAIN parents \/ parents[p] \notin holds
      <4>1. CASE holds \subseteq DOMAIN parents
        BY <4>1 DEF TableSound, Topped
      <4>2. CASE ~(holds \subseteq DOMAIN parents)
        BY <4>2
      <4> QED
        BY <4>1, <4>2
    <3>2. p \in SessionRoots(Holders)
      BY <2>4, <3>1 DEF SessionRoots
    <3>3. Alive(p)
      BY DEF Alive, TypeOK
    <3> QED
      BY <2>3, <3>2, <3>3
  <2>6. ~RootUp
    BY <2>5 DEF HostSound
  <2> QED
    BY <2>1, <2>5, <2>6 DEF NoneLeft, Guests, processVars
<1>2. CASE outcome' = outcome /\ at = "done"
  BY <1>2 DEF Next, Host, ReadTable, Track, ReadHolders, Collect, PassEnds, WaitOver, GraceExpires,
     Report, Signal, TerminatedMeansGone, Guests, vars
<1>3. CASE outcome' # "terminated"
  BY <1>3 DEF TerminatedMeansGone
<1>4. Report \/ (outcome' = outcome) \/ outcome' # "terminated"
  BY DEF Next, Host, Fork, CloseInherited, GuestExits, ProotExits, ProotKilled,
     Recycle, ReadTable, Track, ReadHolders, Collect, PassEnds, WaitOver, GraceExpires,
     Signal, Scan, Done, killVars, vars
<1> QED
  BY <1>1, <1>2, <1>3, <1>4 DEF Places

-----------------------------------------------------------------------------
(* The theorems.                                                           *)

LEMMA InitSound == Init => IInv
<1> SUFFICES ASSUME Init
             PROVE  IInv
  OBVIOUS
<1> USE KillAssumption DEF Init
<1>1. TypeOK
  BY NoParentsTyped DEF TypeOK
<1>2. HostSound
  <2>1. Topped(ppid)
    <3> SUFFICES ASSUME NEW S \in SUBSET Pid, S # {}
                 PROVE  \E p \in S : ppid[p] \notin S
      BY DEF Topped
    <3>1. CASE First \in S /\ Root \in S
      BY <3>1
    <3>2. CASE First \in S /\ Root \notin S
      BY <3>2
    <3>3. CASE First \notin S
      BY <3>3
    <3> QED
      BY <3>1, <3>2, <3>3
  <2> QED
    BY <2>1 DEF HostSound, RootUp
<1>3. TableSound
  BY DEF TableSound, Topped, NoParents
<1>4. Places /\ InHand /\ QuitReachesRoot /\ NoneLeft /\ TerminatedMeansGone
  BY DEF Places, InHand, QuitReachesRoot, NoneLeft, RootUp, TerminatedMeansGone
<1> QED
  BY <1>1, <1>2, <1>3, <1>4 DEF IInv

\* The inductive invariant of a kill: what it has found is of the session, what
\* it reads is a forest, and proot goes before the sweep (commands/kill.py).
THEOREM KillInvariant == Spec => []IInv
<1>1. Init => IInv
  BY InitSound
<1>2. IInv /\ [Next]_vars => IInv'
  BY TypeStep, HostStep, TableStep, PlacesStep, InHandStep, QuitStep, NoneLeftStep, ReportStep
     DEF IInv
<1> QED
  BY <1>1, <1>2, PTL DEF Spec

\* Every variable keeps its type, for any number of PIDs.
THEOREM KillTypeCorrect == Spec => []TypeOK
<1>1. IInv => TypeOK
  BY DEF IInv
<1> QED
  BY <1>1, KillInvariant, PTL

\* _signal_pass() and _escalate() signal nobody but processes of the session,
\* whatever PID is used again meanwhile.
THEOREM KillOnlySessionSignalled == Spec => OnlySessionSignalled
<1> DEFINE A == \A p \in todo \ todo' :
                  (at = "signal" /\ Alive(p) /\ (stage = "quit" => CommIsProot(p)))
                  => who[p] \in {"proot", "guest"} \/ (~readable /\ p = Root)
<1>1. IInv => A
  BY DEF IInv, InHand, Alive
<1>2. IInv /\ [Next]_vars => [A]_vars
  BY <1>1
<1> QED
  BY <1>2, KillInvariant, PTL DEF Spec, OnlySessionSignalled

\* What _report() calls terminated is gone, with whatever closed the record and
\* lost its parent.
THEOREM KillTerminatedMeansGone == Spec => []TerminatedMeansGone
<1>1. IInv => TerminatedMeansGone
  BY DEF IInv
<1> QED
  BY <1>1, KillInvariant, PTL
=============================================================================
