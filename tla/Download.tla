---------------------------- MODULE Download ----------------------------
(***************************************************************************)
(* resumableBody (internal/watcher/seed.go): the body of the dump download,*)
(* which outlives its HTTP connections.  When a connection fails it asks   *)
(* for the rest of the file with Range and If-Match, so that what is read  *)
(* is one file from its beginning, whatever the server does.               *)
(*                                                                         *)
(* A file is known by its ETag; a byte is a line of the dump.              *)
(***************************************************************************)
EXTENDS Integers

CONSTANTS
  File,        \* the files the server may have under the URL, by their ETags
  Size,        \* Size[f]: their lengths
  MaxRetries   \* dumpResumeMaxRetries

ASSUME SizeAssumption == Size \in [File -> Nat]
ASSUME RetriesAssumption == MaxRetries \in Nat

VARIABLES
  remote,    \* the file the server has now
  st,        \* the body: "none", "open", "broken" (in reconnect), "eof", "failed", "changed" (ErrDumpChanged)
  file,      \* the ETag of the first response
  resumable, \* it had an ETag
  src, pos,  \* the connection: the file it sends and how far it is
  offset,    \* rb.offset
  retries,   \* rb.retries
  got        \* what Read has returned so far

bodyVars == <<st, file, resumable, src, pos, offset, retries, got>>
downloadVars == <<remote, bodyVars>>

Line == [f : File, n : Nat]
Prefix(f, k) == {[f |-> f, n |-> i] : i \in 1..k}

DownloadTypeOK ==
  /\ remote \in File
  /\ st \in {"none", "open", "broken", "eof", "failed", "changed"}
  /\ file \in File /\ src \in File
  /\ resumable \in BOOLEAN
  /\ pos \in Nat /\ offset \in Nat
  /\ retries \in 0..MaxRetries
  /\ got \subseteq Line

DownloadInit ==
  /\ remote \in File
  /\ st = "none"
  /\ file = remote /\ src = remote
  /\ resumable = FALSE
  /\ pos = 0 /\ offset = 0
  /\ retries = 0
  /\ got = {}

\* The server gets another file under the URL; open connections go on with
\* the one they began.
Replace ==
  /\ \E f \in File \ {remote} : remote' = f
  /\ UNCHANGED bodyVars

\* openDumpStream: GET, 200.  Without an ETag the body is not wrapped.
OpenBody ==
  /\ st = "none"
  /\ st' = "open"
  /\ file' = remote /\ src' = remote
  /\ resumable' \in BOOLEAN
  /\ UNCHANGED <<remote, pos, offset, retries, got>>

\* Faulty variant: a read does not reset the retry counter.
ReadLineKeepsCount ==
  /\ st = "open"
  /\ pos < Size[src]
  /\ got' = got \cup {[f |-> src, n |-> pos + 1]}
  /\ pos' = pos + 1
  /\ offset' = offset + 1
  /\ UNCHANGED <<remote, st, file, resumable, src, retries>>

\* Read returns data.
ReadLine ==
  /\ st = "open"
  /\ pos < Size[src]
  /\ got' = got \cup {[f |-> src, n |-> pos + 1]}
  /\ pos' = pos + 1
  /\ offset' = offset + 1
  /\ retries' = 0
  /\ UNCHANGED <<remote, st, file, resumable, src>>

\* Read returns io.EOF.
ReadEOF ==
  /\ st = "open"
  /\ pos = Size[src]
  /\ st' = "eof"
  /\ UNCHANGED <<remote, file, resumable, src, pos, offset, retries, got>>

\* Read fails, after the data of a last ReadLine perhaps: the connection is
\* lost, or the body was closed.  A body without an ETag hands the error on.
Drop ==
  /\ st = "open"
  /\ st' = IF resumable THEN "broken" ELSE "failed"
  /\ UNCHANGED <<remote, file, resumable, src, pos, offset, retries, got>>

\* Faulty variant: the Range request has no If-Match.
ResumeAnyFile ==
  /\ st = "broken"
  /\ retries < MaxRetries
  /\ offset < Size[remote]
  /\ st' = "open"
  /\ src' = remote /\ pos' = offset
  /\ retries' = retries + 1
  /\ UNCHANGED <<remote, file, resumable, offset, got>>

\* reconnect: 206, because the server still has the file and more of it.
Resume ==
  /\ st = "broken"
  /\ retries < MaxRetries
  /\ remote = file /\ offset < Size[file]
  /\ st' = "open"
  /\ src' = remote /\ pos' = offset
  /\ retries' = retries + 1
  /\ UNCHANGED <<remote, file, resumable, offset, got>>

\* reconnect: 412 or, at the end of the file, 416.
Changed ==
  /\ st = "broken"
  /\ retries < MaxRetries
  /\ remote # file \/ offset >= Size[file]
  /\ st' = "changed"
  /\ retries' = retries + 1
  /\ UNCHANGED <<remote, file, resumable, src, pos, offset, got>>

\* reconnect fails for good: the retries are used up, the one request it makes
\* is not answered or is answered with a 200 or another status, or the context
\* is done.  (Nothing reads the count of a body that has failed.)
GiveUp ==
  /\ st = "broken"
  /\ st' = "failed"
  /\ UNCHANGED <<remote, file, resumable, src, pos, offset, retries, got>>

DownloadNext == \/ Replace \/ OpenBody \/ ReadLine \/ ReadEOF
                \/ Drop \/ Resume \/ Changed \/ GiveUp

DownloadSpec == DownloadInit /\ [][DownloadNext]_downloadVars

-------------------------------------------------------------------------
\* "The compressed byte stream is identical": what was read, over any number
\* of connections, is the beginning of the file first opened, nothing missing,
\* nothing twice, nothing of a file that replaced it; and an end of file is
\* reported only at its end.
PrefixOfOneFile ==
  /\ got = Prefix(file, offset)
  /\ offset <= Size[file]
  /\ st = "eof" => offset = Size[file]
=========================================================================
