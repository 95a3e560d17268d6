------------------------- MODULE ReadersWriterLock -------------------------
(***************************************************************************)
(* What proot_distro/locking.py promises of one lock file: "multiple       *)
(* shared locks on the same name coexist freely; an exclusive lock blocks  *)
(* all other locks".  The module knows nothing of processes, descriptors,  *)
(* re-entrancy or fork: a lock is granted to a grantee (one open file      *)
(* description of the detailed module) and withdrawn from a set of them.   *)
(***************************************************************************)
CONSTANTS
  Path,     \* lock files
  Handle    \* grantees

VARIABLES
  shared,      \* shared[l]: the grantees holding l in shared mode
  exclusive    \* exclusive[l]: the grantees holding l in exclusive mode

rwVars == <<shared, exclusive>>

RWInit ==
  /\ shared = [l \in Path |-> {}]
  /\ exclusive = [l \in Path |-> {}]

GrantShared(l, h) ==
  /\ exclusive[l] = {}
  /\ shared' = [shared EXCEPT ![l] = @ \cup {h}]
  /\ UNCHANGED exclusive

GrantExclusive(l, h) ==
  /\ exclusive[l] = {} /\ shared[l] = {}
  /\ exclusive' = [exclusive EXCEPT ![l] = {h}]
  /\ UNCHANGED shared

\* A process that ends closes all its descriptors in one step.
Withdraw(hs) ==
  /\ shared' = [l \in Path |-> shared[l] \ hs]
  /\ exclusive' = [l \in Path |-> exclusive[l] \ hs]

RWNext ==
  \/ \E l \in Path, h \in Handle : GrantShared(l, h) \/ GrantExclusive(l, h)
  \/ \E hs \in SUBSET Handle : Withdraw(hs)

RWSpec == RWInit /\ [][RWNext]_rwVars
=============================================================================
