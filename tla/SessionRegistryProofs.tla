----------------------- MODULE SessionRegistryProofs -----------------------
(***************************************************************************)
(* Theorems about SessionRegistry, for any number of sessions, PIDs and    *)
(* readers.  Readers act on names and on what they saw under them before;  *)
(* the inductive invariant says what such a memory is still worth.         *)
(***************************************************************************)
EXTENDS SessionRegistry, TLAPS

\* Past the point where its record can still appear.
Settled(s) == step[s] \in {"ready", "running", "gone"}

\* The lock of a session's file goes with its way through _register_at().
SessionSound ==
  \A s \in Session :
    /\ step[s] = "unborn" <=> pid[s] = None
    /\ step[s] = "unborn" => procs[s] = {}
    /\ step[s] \in {"starting", "opened", "unborn", "gone"} => s \notin locked
    /\ step[s] = "written" => s \in written

EntrySound ==
  \A p \in Pid : entry[p] # None =>
    entry[p] \in written /\ pid[entry[p]] = p /\ Settled(entry[p])

\* A name that a reader visits was once that of a session, and a probe that
\* found nobody was right about each session that has the name to itself, or
\* could not open its file.
Named(p) == \E s \in Session : pid[s] = p /\ Settled(s)

ReaderSound ==
  \A r \in Reader :
    /\ todo[r] \subseteq listing[r] /\ \A p \in listing[r] : Named(p)
    /\ at[r] \in {"read", "shared", "dead"} => cur[r] \in Pid /\ Named(cur[r])
    /\ (at[r] = "read" /\ read[r] # None) => pid[read[r]] = cur[r]
    /\ at[r] \in {"shared", "dead"} =>
         \A s \in Session : pid[s] = cur[r] /\ OwnPid(s) =>
           s \notin locked \/ <<"open", s>> \in erred

\* Of the names a reader has listed, the live sessions of those it is done with
\* are in its report, and it holds the record of the one it is at.
ReportSound ==
  \A r \in Reader : \A s \in Session :
    (/\ at[r] # "idle" /\ s \in locked /\ pid[s] \in listing[r] \ todo[r] /\ OwnPid(s)
     /\ <<"read", s>> \notin erred /\ <<"open", s>> \notin erred)
    => \/ s \in found[r]
       \/ at[r] = "read" /\ cur[r] = pid[s] /\ read[r] = s

IInv ==
  TypeOK /\ SessionSound /\ EntrySound /\ ReaderSound /\ StaysListed /\ ReportSound

-----------------------------------------------------------------------------

LEMMA InitIInv == Init => IInv
<1> SUFFICES ASSUME Init PROVE IInv
  OBVIOUS
<1> USE RegistryAssumption DEF Init
<1>1. TypeOK
  BY DEF TypeOK
<1>2. SessionSound /\ EntrySound /\ ReaderSound /\ StaysListed /\ ReportSound
  BY DEF SessionSound, EntrySound, ReaderSound, StaysListed, ReportSound
<1> QED
  BY <1>1, <1>2 DEF IInv

\* PIDs are never given back, and what has settled stays so: names stay known,
\* and nobody comes to have a name to himself that he had not.
LEMMA NamesStay ==
  ASSUME IInv,
         \A s \in Session : pid[s] # None => pid'[s] = pid[s],
         \A s \in Session : Settled(s) => Settled(s)'
  PROVE  \A p \in Pid : Named(p) => Named(p)'
  BY RegistryAssumption DEF Named

\* A step of a session: what readers remember keeps its worth as long as PIDs
\* stay, and no settled session's file is locked anew.
LEMMA ReadersStand ==
  ASSUME IInv, TypeOK', UNCHANGED readerVars, erred' = erred,
         \A s \in Session : pid[s] # None => pid'[s] = pid[s],
         \A s \in Session : Settled(s) => Settled(s)',
         \A s \in Session : Settled(s) /\ s \in locked' => s \in locked
  PROVE  ReaderSound' /\ ReportSound'
<1>1. \A p \in Pid : Named(p) => Named(p)'
  BY NamesStay
\* Whoever has a known name to himself had it, and his lock, before the step.
<1>2. ASSUME NEW s \in Session, Named(pid'[s]), pid'[s] \in Pid, OwnPid(s)', s \in locked'
      PROVE  pid[s] = pid'[s] /\ OwnPid(s) /\ s \in locked
  <2>1. PICK t \in Session : pid[t] = pid'[s] /\ Settled(t)
    BY <1>2 DEF Named
  <2>2. pid'[t] = pid'[s]
    BY <1>2, <2>1, RegistryAssumption
  <2>3. t = s
    BY <1>2, <2>2 DEF OwnPid
  <2>4. OwnPid(s)
    BY <1>2, <2>1, <2>3, RegistryAssumption DEF OwnPid
  <2> QED
    BY <1>2, <2>1, <2>3, <2>4
<1>3. ReaderSound'
  <2> SUFFICES ASSUME NEW r \in Reader
      PROVE  /\ todo[r] \subseteq listing[r] /\ \A p \in listing[r] : Named(p)'
             /\ at[r] \in {"read", "shared", "dead"} => cur[r] \in Pid /\ Named(cur[r])'
             /\ (at[r] = "read" /\ read[r] # None) => pid'[read[r]] = cur[r]
             /\ at[r] \in {"shared", "dead"} =>
                  \A s \in Session : pid'[s] = cur[r] /\ OwnPid(s)' =>
                    s \notin locked' \/ <<"open", s>> \in erred
    BY DEF ReaderSound, readerVars
  <2>1. todo[r] \subseteq listing[r] /\ \A p \in listing[r] : p \in Pid /\ Named(p)
    BY DEF IInv, ReaderSound, TypeOK
  <2>2. at[r] \in {"read", "shared", "dead"} => cur[r] \in Pid /\ Named(cur[r])
    BY DEF IInv, ReaderSound
  <2>3. (at[r] = "read" /\ read[r] # None) => pid'[read[r]] = cur[r]
    BY RegistryAssumption DEF IInv, ReaderSound, TypeOK
  <2>4. ASSUME at[r] \in {"shared", "dead"}, NEW s \in Session,
               pid'[s] = cur[r], OwnPid(s)', s \in locked'
        PROVE  <<"open", s>> \in erred
    <3>1. pid[s] = cur[r] /\ OwnPid(s) /\ s \in locked
      BY <1>2, <2>2, <2>4
    <3> QED
      BY <2>4, <3>1 DEF IInv, ReaderSound
  <2> QED
    BY <1>1, <2>1, <2>2, <2>3, <2>4 DEF Named, readerVars
<1>4. ReportSound'
  <2> SUFFICES ASSUME NEW r \in Reader, NEW s \in Session, at[r] # "idle", s \in locked',
                      pid'[s] \in listing[r] \ todo[r], OwnPid(s)',
                      <<"read", s>> \notin erred, <<"open", s>> \notin erred
      PROVE  s \in found[r] \/ (at[r] = "read" /\ cur[r] = pid'[s] /\ read[r] = s)
    BY DEF ReportSound, readerVars
  <2>1. pid'[s] \in Pid /\ Named(pid'[s])
    BY DEF IInv, ReaderSound, TypeOK
  <2>2. pid[s] = pid'[s] /\ OwnPid(s) /\ s \in locked
    BY <1>2, <2>1
  <2> QED
    BY <2>2 DEF IInv, ReportSound
<1> QED
  BY <1>3, <1>4

-----------------------------------------------------------------------------
(* The steps of sessions.                                                  *)

LEMMA SessionKeeps ==
  ASSUME IInv, NEW s \in Session,
         \/ \E p \in Pid : Launch(s, p)
         \/ OpenTmp(s) \/ FlockTmp(s) \/ WriteTmp(s) \/ Publish(s) \/ Abandon(s)
         \/ Exec(s) \/ SpawnGuests(s)
         \/ \E x \in {"root", "guest"} : Die(s, x)
  PROVE  IInv'
<1> USE RegistryAssumption
<1>1. CASE \E p \in Pid : Launch(s, p)
  <2> PICK p \in Pid : Launch(s, p)
    BY <1>1
  <2>1. /\ step[s] = "unborn" /\ pid[s] = None
        /\ pid' = [pid EXCEPT ![s] = p] /\ step' = [step EXCEPT ![s] = "starting"]
        /\ procs' = [procs EXCEPT ![s] = {"root"}]
        /\ UNCHANGED <<written, locked, tmp, entry, erred, readerVars>>
    BY DEF Launch, IInv, SessionSound
  <2>2. TypeOK'
    BY <2>1 DEF IInv, TypeOK, readerVars
  <2>3. SessionSound'
    BY <2>1 DEF IInv, TypeOK, SessionSound
  <2>4. EntrySound'
    BY <2>1 DEF IInv, TypeOK, EntrySound, Settled
  <2>5. ReaderSound' /\ ReportSound'
    BY <2>1, <2>2, ReadersStand DEF IInv, TypeOK, Settled
  <2>6. StaysListed'
    BY <2>1 DEF IInv, TypeOK, SessionSound, StaysListed, OwnPid
  <2> QED
    BY <2>2, <2>3, <2>4, <2>5, <2>6 DEF IInv
<1>2. CASE OpenTmp(s) \/ WriteTmp(s) \/ Exec(s) \/ SpawnGuests(s)
  <2>1. /\ pid' = pid /\ entry' = entry /\ locked' = locked /\ UNCHANGED <<erred, readerVars>>
        /\ \A t \in Session \ {s} : procs'[t] = procs[t]
        /\ \/ step' = [step EXCEPT ![s] = "opened"] /\ step[s] = "starting" /\ written' = written
           \/ /\ step' = [step EXCEPT ![s] = "written"] /\ step[s] = "flocked"
              /\ written' = written \cup {s}
           \/ step' = [step EXCEPT ![s] = "running"] /\ step[s] = "ready" /\ written' = written
           \/ step' = step /\ step[s] = "running" /\ written' = written
    BY <1>2 DEF IInv, TypeOK, OpenTmp, WriteTmp, Exec, SpawnGuests, Advance
  <2>2. TypeOK'
    BY <1>2 DEF IInv, TypeOK, OpenTmp, WriteTmp, Exec, SpawnGuests, Advance, readerVars
  <2>3. SessionSound'
    BY <2>1 DEF IInv, TypeOK, SessionSound
  <2>4. EntrySound'
    BY <2>1 DEF IInv, TypeOK, EntrySound, Settled
  <2>5. ReaderSound' /\ ReportSound'
    BY <2>1, <2>2, ReadersStand DEF IInv, TypeOK, Settled
  <2>6. StaysListed'
    BY <2>1 DEF IInv, TypeOK, StaysListed, OwnPid
  <2> QED
    BY <2>2, <2>3, <2>4, <2>5, <2>6 DEF IInv
<1>3. CASE FlockTmp(s)
  <2>1. /\ pid' = pid /\ entry' = entry /\ locked' = locked \cup {s} /\ written' = written
        /\ procs' = procs
        /\ step[s] = "opened" /\ step' = [step EXCEPT ![s] = "flocked"]
        /\ UNCHANGED <<erred, readerVars>>
    BY <1>3 DEF FlockTmp, Advance
  <2>2. TypeOK'
    BY <1>3 DEF IInv, TypeOK, FlockTmp, Advance, readerVars
  <2>3. SessionSound'
    BY <2>1 DEF IInv, TypeOK, SessionSound
  <2>4. EntrySound'
    BY <2>1 DEF IInv, TypeOK, EntrySound, Settled
  <2>5. ReaderSound' /\ ReportSound'
    BY <2>1, <2>2, ReadersStand DEF IInv, TypeOK, Settled
  <2>6. StaysListed'
    BY <2>1 DEF IInv, TypeOK, StaysListed, OwnPid
  <2> QED
    BY <2>2, <2>3, <2>4, <2>5, <2>6 DEF IInv
<1>4. CASE Publish(s)
  <2>1. /\ pid' = pid /\ entry' = [entry EXCEPT ![pid[s]] = s]
        /\ locked' = locked /\ written' = written /\ procs' = procs
        /\ step[s] = "written" /\ step' = [step EXCEPT ![s] = "ready"]
        /\ pid[s] \in Pid /\ s \in written /\ UNCHANGED <<erred, readerVars>>
    BY <1>4 DEF Publish, Advance, IInv, TypeOK, SessionSound
  <2>2. TypeOK'
    BY <1>4 DEF IInv, TypeOK, Publish, Advance, readerVars
  <2>3. SessionSound'
    BY <2>1 DEF IInv, TypeOK, SessionSound
  <2>4. EntrySound'
    BY <2>1 DEF IInv, TypeOK, EntrySound, Settled
  <2>5. ReaderSound' /\ ReportSound'
    BY <2>1, <2>2, ReadersStand DEF IInv, TypeOK, Settled
  <2>6. StaysListed'
    BY <2>1 DEF IInv, TypeOK, StaysListed, OwnPid
  <2> QED
    BY <2>2, <2>3, <2>4, <2>5, <2>6 DEF IInv
<1>5. CASE Abandon(s) \/ \E x \in {"root", "guest"} : Die(s, x)
  <2>1. /\ pid' = pid /\ entry' = entry /\ written' = written /\ UNCHANGED <<erred, readerVars>>
        /\ step[s] # "unborn" /\ \A t \in Session \ {s} : procs'[t] = procs[t]
        /\ \/ /\ locked' = locked \ {s} /\ step' = [step EXCEPT ![s] = "ready"]
           \/ /\ locked' = locked \ {s} /\ step' = [step EXCEPT ![s] = "gone"]
           \/ locked' = locked /\ step' = step
    BY <1>5 DEF Abandon, Die, IInv, TypeOK, SessionSound
  <2>2. TypeOK'
    BY <1>5 DEF IInv, TypeOK, Abandon, Die, readerVars
  <2>3. SessionSound'
    BY <2>1 DEF IInv, TypeOK, SessionSound
  <2>4. EntrySound'
    BY <2>1 DEF IInv, TypeOK, EntrySound, Settled
  <2>5. ReaderSound' /\ ReportSound'
    BY <2>1, <2>2, ReadersStand DEF IInv, TypeOK, Settled
  <2>6. StaysListed'
    BY <2>1 DEF IInv, TypeOK, StaysListed, OwnPid
  <2> QED
    BY <2>2, <2>3, <2>4, <2>5, <2>6 DEF IInv
<1> QED
  BY <1>1, <1>2, <1>3, <1>4, <1>5

-----------------------------------------------------------------------------
(* The steps of readers.                                                   *)

\* What the listing holds is named, and so is what readers remember.
LEMMA ReaderKeeps ==
  ASSUME IInv, NEW r \in Reader,
         \/ List(r) \/ Probe(r) \/ ProbeUnlock(r) \/ Prune(r) \/ Report(r)
         \/ \E p \in Pid : ReadRecord(r, p)
  PROVE  IInv'
<1> USE RegistryAssumption
<1>1. CASE List(r)
  <2>1. PICK names \in SUBSET Pid :
          /\ \A p \in names : entry[p] # None
          /\ at' = [at EXCEPT ![r] = "scan"]
          /\ listing' = [listing EXCEPT ![r] = names] /\ todo' = [todo EXCEPT ![r] = names]
          /\ UNCHANGED <<sessionVars, erred, cur, read, shared, found>>
    BY <1>1 DEF List
  <2>2. TypeOK'
    BY <2>1 DEF IInv, TypeOK, sessionVars
  <2>3. SessionSound' /\ EntrySound' /\ StaysListed'
    BY <2>1 DEF IInv, sessionVars, SessionSound, EntrySound, Settled, StaysListed, OwnPid
  <2>4. \A p \in names : Named(p)
    BY <2>1 DEF IInv, TypeOK, EntrySound, Named
  <2>5. ReaderSound'
    BY <2>1, <2>4 DEF IInv, TypeOK, sessionVars, ReaderSound, Named, Settled, OwnPid
  <2>6. ReportSound'
    BY <2>1 DEF IInv, TypeOK, sessionVars, ReportSound, OwnPid
  <2> QED
    BY <2>2, <2>3, <2>5, <2>6 DEF IInv
<1>2. CASE \E p \in Pid : ReadRecord(r, p)
  <2> PICK p \in Pid : ReadRecord(r, p)
    BY <1>2
  <2>1. /\ at[r] = "scan" /\ p \in todo[r] /\ at' = [at EXCEPT ![r] = "read"]
        /\ todo' = [todo EXCEPT ![r] = @ \ {p}] /\ cur' = [cur EXCEPT ![r] = p]
        /\ UNCHANGED <<sessionVars, listing, shared, found>>
        /\ read' \in [Reader -> Session \cup {None}]
        /\ \A q \in Reader \ {r} : read'[q] = read[q]
        /\ erred \subseteq erred' /\ erred' \subseteq {"read", "open", "flock"} \X Session
        /\ read'[r] \in {entry[p], None}
        /\ entry[p] \in written => read'[r] = entry[p] \/ <<"read", entry[p]>> \in erred'
    BY DEF ReadRecord, Fails, IInv, TypeOK
  <2>2. TypeOK'
    BY <2>1 DEF IInv, TypeOK, sessionVars
  <2>3. SessionSound' /\ EntrySound' /\ StaysListed'
    BY <2>1 DEF IInv, sessionVars, SessionSound, EntrySound, Settled, StaysListed, OwnPid
  <2>4. read'[r] # None => pid[read'[r]] = p
    BY <2>1 DEF IInv, TypeOK, EntrySound
  <2>5. ReaderSound'
    BY <2>1, <2>4 DEF IInv, TypeOK, sessionVars, ReaderSound, Named, Settled, OwnPid
  <2>6. ReportSound'
    <3> SUFFICES ASSUME NEW q \in Reader, NEW s \in Session, at'[q] # "idle", s \in locked,
                        pid[s] \in listing[q] \ todo'[q], OwnPid(s),
                        <<"read", s>> \notin erred', <<"open", s>> \notin erred'
        PROVE  s \in found[q] \/ (at'[q] = "read" /\ cur'[q] = pid[s] /\ read'[q] = s)
      BY <2>1 DEF ReportSound, sessionVars, OwnPid
    <3>1. <<"read", s>> \notin erred /\ <<"open", s>> \notin erred
      BY <2>1
    <3>2. CASE q = r /\ pid[s] = p
      <4>1. Named(p)
        BY <2>1 DEF IInv, ReaderSound
      <4>2. Settled(s)
        BY <3>2, <4>1 DEF Named, OwnPid
      <4>3. entry[p] = s
        BY <3>1, <3>2, <4>2 DEF IInv, SessionSound, Settled, StaysListed
      <4>4. s \in written
        BY <4>3 DEF IInv, EntrySound
      <4> QED
        BY <2>1, <3>2, <4>3, <4>4 DEF IInv, TypeOK
    <3>3. CASE q = r /\ pid[s] # p
      BY <2>1, <3>1, <3>3 DEF IInv, TypeOK, ReportSound
    <3>4. CASE q # r
      BY <2>1, <3>1, <3>4 DEF IInv, TypeOK, ReportSound
    <3> QED
      BY <3>2, <3>3, <3>4
  <2> QED
    BY <2>2, <2>3, <2>5, <2>6 DEF IInv
<1>3. CASE Probe(r)
  <2> DEFINE i == entry[cur[r]]
  <2>1. at[r] = "read" /\ cur[r] \in Pid /\ UNCHANGED <<sessionVars, listing, todo>>
    BY <1>3 DEF Probe, IInv, ReaderSound
  <2>2. /\ TypeOK' /\ erred \subseteq erred'
        /\ \/ /\ NextName(r) /\ shared' = shared
              /\ found' = [found EXCEPT ![r] = @ \cup ({read[r]} \ {None})]
           \/ /\ \/ at' = [at EXCEPT ![r] = "shared"] /\ i \notin locked
                 \/ /\ at' = [at EXCEPT ![r] = "dead"]
                    /\ i = None \/ <<"open", i>> \in erred'
              /\ UNCHANGED <<found, cur, read>>
    <3>1. TypeOK'
      BY <1>3, <2>1 DEF Probe, Fails, NextName, IInv, TypeOK, sessionVars
    <3> QED
      BY <1>3, <3>1 DEF Probe, Fails
  <2>3. SessionSound' /\ EntrySound' /\ StaysListed'
    BY <2>1, <2>2 DEF IInv, sessionVars, SessionSound, EntrySound, Settled, StaysListed, OwnPid
  <2>4. ASSUME at'[r] \in {"shared", "dead"}, NEW s \in Session, pid[s] = cur[r], OwnPid(s),
               s \in locked
        PROVE  <<"open", s>> \in erred'
    <3>1. Settled(s)
      BY <2>1, <2>4 DEF IInv, ReaderSound, Named, OwnPid
    <3>2. CASE <<"open", s>> \in erred
      BY <2>2, <3>2
    <3>3. CASE <<"open", s>> \notin erred
      <4>1. i = s
        BY <2>4, <3>1, <3>3 DEF IInv, SessionSound, Settled, StaysListed
      <4> QED
        BY <2>2, <2>4, <4>1 DEF NextName, IInv, TypeOK
    <3> QED
      BY <3>2, <3>3
  <2>5. ReaderSound'
    <3>1. CASE NextName(r)
      BY <2>1, <2>2, <3>1 DEF NextName, IInv, TypeOK, sessionVars, ReaderSound, Named,
                              Settled, OwnPid
    <3>2. CASE at' \in {[at EXCEPT ![r] = "shared"], [at EXCEPT ![r] = "dead"]}
               /\ UNCHANGED <<found, cur, read>>
      BY <2>1, <2>2, <2>4, <3>2 DEF IInv, TypeOK, sessionVars, ReaderSound, Named,
                                    Settled, OwnPid
    <3> QED
      BY <2>2, <3>1, <3>2
  <2>6. ReportSound'
    <3> SUFFICES ASSUME NEW q \in Reader, NEW s \in Session, at'[q] # "idle", s \in locked,
                        pid[s] \in listing[q] \ todo[q], OwnPid(s),
                        <<"read", s>> \notin erred', <<"open", s>> \notin erred'
        PROVE  s \in found'[q] \/ (at'[q] = "read" /\ cur'[q] = pid[s] /\ read'[q] = s)
      BY <2>1 DEF ReportSound, sessionVars, OwnPid
    <3>1. at[q] # "idle"
      BY <2>1, <2>2 DEF NextName, IInv, TypeOK
    <3>2. s \in found[q] \/ (at[q] = "read" /\ cur[q] = pid[s] /\ read[q] = s)
      BY <2>2, <3>1 DEF IInv, ReportSound
    <3>3. CASE q # r
      BY <2>2, <3>2, <3>3 DEF NextName, IInv, TypeOK
    <3>4. CASE q = r
      <4>1. CASE NextName(r) /\ found' = [found EXCEPT ![r] = @ \cup ({read[r]} \ {None})]
        BY <3>2, <3>4, <4>1 DEF IInv, TypeOK
      <4>2. CASE at'[r] \in {"shared", "dead"} /\ UNCHANGED <<found, cur, read>>
        <5>1. pid[s] # cur[r]
          BY <2>4, <4>2
        <5> QED
          BY <3>2, <3>4, <4>2, <5>1
      <4> QED
        BY <2>2, <4>1, <4>2 DEF IInv, TypeOK
    <3> QED
      BY <3>3, <3>4
  <2> QED
    BY <2>2, <2>3, <2>5, <2>6 DEF IInv
<1>4. CASE ProbeUnlock(r) \/ Report(r)
  <2>1. TypeOK'
    BY <1>4 DEF IInv, TypeOK, Report, ProbeUnlock, sessionVars
  <2>2. SessionSound' /\ EntrySound' /\ StaysListed'
    BY <1>4 DEF Report, ProbeUnlock, IInv, sessionVars, SessionSound, EntrySound, Settled,
                StaysListed, OwnPid
  <2>3. ReaderSound'
    BY <1>4 DEF IInv, TypeOK, Report, ProbeUnlock, sessionVars, ReaderSound,
                Named, Settled, OwnPid
  <2>4. ReportSound'
    BY <1>4 DEF IInv, TypeOK, Report, ProbeUnlock, sessionVars, ReportSound, OwnPid
  <2> QED
    BY <2>1, <2>2, <2>3, <2>4 DEF IInv
<1>5. CASE Prune(r)
  <2>1. /\ at[r] = "dead" /\ cur[r] \in Pid /\ NextName(r)
        /\ entry' = [entry EXCEPT ![cur[r]] = None]
        /\ UNCHANGED <<pid, step, procs, written, locked, tmp, erred, listing, todo, shared, found>>
    BY <1>5 DEF Prune, IInv, ReaderSound
  <2>2. TypeOK'
    BY <2>1 DEF NextName, IInv, TypeOK
  <2>3. SessionSound' /\ EntrySound'
    BY <2>1 DEF IInv, TypeOK, SessionSound, EntrySound, Settled
  <2>4. ReaderSound'
    BY <2>1 DEF NextName, IInv, TypeOK, ReaderSound, Named, Settled, OwnPid
  <2>5. StaysListed'
    BY <2>1 DEF IInv, TypeOK, ReaderSound, StaysListed, OwnPid
  <2>6. ReportSound'
    BY <2>1 DEF NextName, IInv, TypeOK, ReportSound, OwnPid
  <2> QED
    BY <2>2, <2>3, <2>4, <2>5, <2>6 DEF IInv
<1> QED
  BY <1>1, <1>2, <1>3, <1>4, <1>5

-----------------------------------------------------------------------------
(* The theorems.                                                           *)

\* The inductive invariant of the registry.
THEOREM RegistryInvariant == Spec => []IInv
<1>1. Init => IInv
  BY InitIInv
<1>2. IInv /\ [Next]_registryVars => IInv'
  <2> SUFFICES ASSUME IInv, [Next]_registryVars PROVE IInv'
    OBVIOUS
  <2>1. CASE UNCHANGED registryVars
    BY <2>1 DEF registryVars, IInv, TypeOK, SessionSound, EntrySound, ReaderSound,
                Named, Settled, StaysListed, ReportSound, OwnPid
  <2>2. CASE Next
    BY <2>2, SessionKeeps, ReaderKeeps DEF Next
  <2> QED
    BY <2>1, <2>2
<1> QED
  BY <1>1, <1>2, PTL DEF Spec

\* Every variable keeps its type.
THEOREM RegistryTypeCorrect == Spec => []TypeOK
<1>1. IInv => TypeOK
  BY DEF IInv
<1> QED
  BY <1>1, RegistryInvariant, PTL

\* Whatever name the directory links, it links the complete record of the
\* session whose PID the name is: os.replace() never shows a partial file.
THEOREM RegistryCompleteRecords == Spec => []CompleteRecords
<1>1. IInv => CompleteRecords
  BY DEF IInv, EntrySound, CompleteRecords
<1> QED
  BY <1>1, RegistryInvariant, PTL

\* No number of readers pruning by name, whatever they saw under it before,
\* makes a session vanish from the registry while one of its processes runs,
\* unless the kernel gave its PID to another session too or a reader could not
\* open its file.
THEOREM RegistryStaysListed == Spec => []StaysListed
<1>1. IInv => StaysListed
  BY DEF IInv
<1> QED
  BY <1>1, RegistryInvariant, PTL

\* Whatever other readers prune in the meantime, active_sessions() leaves out no
\* live session whose name it listed and whose file it could read and open.
THEOREM RegistryListingComplete == Spec => []ListingComplete
<1>1. IInv => ListingComplete
  BY DEF IInv, TypeOK, ReportSound, ListingComplete
<1> QED
  BY <1>1, RegistryInvariant, PTL

\* What active_sessions() reports is a session of which a process holds the lock,
\* or on whose file flock failed, though it read the record before it probed the
\* file, one name at a time.
THEOREM RegistryReportedLive == Spec => ReportedLive
<1> DEFINE Live == \A r \in Reader : \A s \in found'[r] \ found[r] :
             OwnPid(s) => s \in locked \/ <<"flock", s>> \in erred'
<1>1. IInv /\ [Next]_registryVars => [Live]_registryVars
  <2> SUFFICES ASSUME IInv, Next, NEW r \in Reader, NEW s \in found'[r] \ found[r], OwnPid(s)
      PROVE  s \in locked \/ <<"flock", s>> \in erred'
    OBVIOUS
  <2>1. PICK q \in Reader : \/ List(q) \/ Probe(q) \/ ProbeUnlock(q) \/ Prune(q) \/ Report(q)
                            \/ \E p \in Pid : ReadRecord(q, p)
    BY DEF Next, Launch, OpenTmp, FlockTmp, WriteTmp, Publish, Abandon, Exec, SpawnGuests,
           Die, Advance, readerVars
  <2>2. Probe(r)
    BY <2>1 DEF IInv, TypeOK, List, Probe, NextName, ProbeUnlock, Prune, Report, ReadRecord
  <2>3. /\ at[r] = "read" /\ s = read[r] /\ s \in Session
        /\ entry[cur[r]] \in locked \/ <<"flock", entry[cur[r]]>> \in erred'
    BY <2>2, RegistryAssumption DEF IInv, TypeOK, Probe, Fails
  <2>4. /\ cur[r] \in Pid /\ pid[s] = cur[r]
        /\ entry[cur[r]] \in Session /\ pid[entry[cur[r]]] = cur[r]
    <3>1. cur[r] \in Pid /\ pid[s] = cur[r]
      BY <2>3, RegistryAssumption DEF IInv, TypeOK, ReaderSound
    <3>2. entry[cur[r]] # None
      BY <2>2, <2>3, <3>1, RegistryAssumption DEF Probe, Fails, IInv, TypeOK
    <3> QED
      BY <3>1, <3>2 DEF IInv, TypeOK, EntrySound
  <2>5. entry[cur[r]] = s
    BY <2>3, <2>4 DEF OwnPid
  <2> QED
    BY <2>3, <2>5
<1> QED
  BY <1>1, RegistryInvariant, PTL DEF Spec, ReportedLive
=============================================================================
