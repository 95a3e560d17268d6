------------------------------ MODULE Download ------------------------------
(***************************************************************************)
(* download_file(): an HTTP operation inside atomic_write().  Each attempt *)
(* has a temporary of its own; the name is replaced when the body is over  *)
(* and not short of the length it declared.                                *)
(***************************************************************************)
EXTENDS HttpClient

VARIABLES
  fetch,     \* where download_file() is
  tmp,       \* its temporary file: what is in it
  framing,   \* how the body in progress says where it ends
  silent,    \* nothing of it has arrived for a while
  dest       \* what is under the destination's name

downloadVars == <<fetch, tmp, framing, silent, dest>>

DownloadTypeOK ==
  /\ fetch \in {"idle", "start", "head", "body", "done", "failed", "dead"}
  /\ tmp \in {"none", "part", "whole"}
  /\ framing \in {"length", "chunked", "close"}
  /\ silent \in BOOLEAN
  /\ dest \in {"old", "cut", "whole"}

DownloadInit ==
  /\ tmp = "none" /\ framing = "length" /\ silent = FALSE /\ dest = "old"

\* The URL is the user's, and either scheme is theirs to choose.
BeginDownload ==
  /\ fetch = "start"
  /\ \E s \in {"http", "https"} : wire' = Sent("get", Origin(s, "store"), "none")
  /\ fetch' = "head" /\ tmp' = "part"
  /\ UNCHANGED <<insecure, speaks, framing, silent, dest>>

Headers ==
  /\ fetch = "head" /\ Answered("get")
  /\ fetch' = "body" /\ framing' \in {"length", "chunked", "close"}
  /\ silent' = FALSE
  /\ UNCHANGED <<insecure, speaks, wire, tmp, dest>>

Reading == fetch = "body" /\ tmp = "part"

\* The socket timeout bounds the wait for each read, not the transfer: its clock
\* begins again with every piece that arrives.
Silence ==
  /\ Reading /\ ~silent
  /\ silent' = TRUE
  /\ UNCHANGED <<insecure, speaks, wire, fetch, tmp, framing, dest>>

Chunk ==
  /\ Reading /\ silent
  /\ silent' = FALSE
  /\ UNCHANGED <<insecure, speaks, wire, fetch, tmp, framing, dest>>

LastChunk ==
  /\ Reading
  /\ tmp' = "whole"
  /\ UNCHANGED <<insecure, speaks, wire, fetch, framing, silent, dest>>

\* Mutant: no require_complete_body(), as before.
CompleteUnchecked == tmp = "whole" \/ framing \in {"close", "length"}

\* A chunked body that is cut raises in read(), one with a declared length in
\* require_complete_body(); without either, the end is the end.
Complete == tmp = "whole" \/ framing = "close"

Publish ==
  /\ fetch = "body" /\ Complete
  /\ dest' = IF tmp = "whole" THEN "whole" ELSE "cut"
  /\ tmp' = "none" /\ fetch' = "done" /\ wire' = None
  /\ UNCHANGED <<insecure, speaks, framing, silent>>

\* atomic_write() drops the temporary on the way out of a failed attempt.
RetryDownload ==
  /\ fetch \in {"head", "body"} /\ Retry
  /\ fetch' = "head" /\ tmp' = "part"
  /\ UNCHANGED <<framing, silent, dest>>

RedirectDownload ==
  /\ fetch = "head" /\ Redirect
  /\ UNCHANGED downloadVars

FailDownload ==
  /\ fetch \in {"head", "body"}
  /\ GivenUp # {} \/ (fetch = "head" /\ Refused)
  /\ fetch' = "failed" /\ tmp' = "none" /\ wire' = None
  /\ UNCHANGED <<insecure, speaks, framing, silent, dest>>

\* SIGKILL: nobody removes the temporary.  (A KeyboardInterrupt does.)
KillDownload ==
  /\ fetch \in {"start", "head", "body"}
  /\ fetch' = "dead" /\ wire' = None
  /\ UNCHANGED <<insecure, speaks, tmp, framing, silent, dest>>

DownloadStep ==
  \/ BeginDownload \/ Headers \/ Silence \/ LastChunk \/ Publish
  \/ RetryDownload \/ RedirectDownload \/ FailDownload

-----------------------------------------------------------------------------

\* However many attempts were cut at whatever point, what is under the name is
\* what was there before or all of one body; only a body whose end nothing
\* declares can be cut unnoticed.  A command that comes to its end leaves no
\* temporary, and one that fails or is killed leaves the old file.
DownloadAtomic ==
  /\ dest = "cut" => framing = "close"
  /\ fetch \in {"done", "failed"} => tmp = "none"
  /\ fetch \in {"failed", "dead"} => dest = "old"
=============================================================================
