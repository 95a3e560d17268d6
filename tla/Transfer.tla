----------------------------- MODULE Transfer -------------------------------
(***************************************************************************)
(* One command that uses the network: a push or the download of an archive.*)
(***************************************************************************)
EXTENDS Push, Download

vars == <<insecure, speaks, wire, downloadVars, pushVars>>

Init ==
  /\ insecure \in BOOLEAN /\ speaks \in {"tls", "untrusted", "plain"} /\ wire = None
  /\ DownloadInit
  /\ \/ push = "start" /\ fetch = "idle" /\ PushInit /\ FlagReaches
     \/ push = "idle" /\ fetch = "start" /\ NoPush

\* What the command does, and what its servers do to a request of it.
Step == \/ PushStep /\ UNCHANGED downloadVars
        \/ DownloadStep /\ UNCHANGED pushVars

Next == \/ Step
        \/ (LoseBlob \/ KillPush) /\ UNCHANGED downloadVars
        \/ (Chunk \/ KillDownload) /\ UNCHANGED pushVars

\* A request fails or is answered, and a body that falls silent goes on, ends or
\* is given up; one that keeps coming need not end.
Spec == Init /\ [][Next]_vars /\ WF_vars(Step /\ (Reading /\ ~silent => Silence))

\* Every variable keeps its type.
TypeOK == HttpTypeOK /\ PushTypeOK /\ DownloadTypeOK

\* No request waits for ever, none is retried or redirected for ever, and the
\* probe changes its scheme once: every command that uses the network ends,
\* unless a server keeps sending it the body of an archive.
CommandEnds ==
  \/ <>(push \in {"done", "failed", "dead"} \/ fetch \in {"done", "failed", "dead"})
  \/ []<><<Chunk>>_vars
=============================================================================
