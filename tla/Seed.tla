------------------------------ MODULE Seed ------------------------------
(***************************************************************************)
(* Seeder.Seed (internal/watcher/seed.go): three goroutines import a dump. *)
(*                                                                         *)
(*   decompressor  reads the download (module Download) and fills chunks   *)
(*   parser        Seed's own goroutine: locates and opens the dump, clears*)
(*                 the store, scans lines, feeds entityCh, sets dump_time  *)
(*   writer        collects batches and writes them, each several times if *)
(*                 need be                                                 *)
(*                                                                         *)
(* They end one another through the error channel of the decompressor, the *)
(* closing of the channels, the context of the process and the cause of    *)
(* writeCtx.  Channels hold lines in order: the next one is the one with   *)
(* the smallest number.                                                    *)
(***************************************************************************)
EXTENDS Download, FiniteSets

CONSTANTS
  Kind,           \* Kind[l]: "entity", "skip" (no item, unparsable, over 4 MB), "huge" (over 16 MB)
  ChunkCap,       \* dumpDecompChanCap
  EntityCap,      \* the capacity of entityCh
  BatchSize,      \* dumpBatchSize
  WriteAttempts,  \* dumpWriteMaxRetries
  Environments    \* subset of {"steady", "hostile"}, see below

(***************************************************************************)
(* In a "hostile" environment any call may fail, the file may be replaced  *)
(* and the process interrupted.  A "steady" one loses connections and      *)
(* writes too, as often as it likes, but never so that a retry limit is    *)
(* reached: every connection but the last of MaxRetries brings something   *)
(* or is answered again, and one of WriteAttempts writes succeeds.  Nor is *)
(* one lost after the last byte of the file: a response with a length ends *)
(* there (and a Range request for nothing would be answered with 416, which*)
(* reconnect takes for another file).                                      *)
(***************************************************************************)
ASSUME EnvironmentsAssumption == Environments \subseteq {"steady", "hostile"}
ASSUME KindAssumption == \A f \in File : \A n \in 1..Size[f] : Kind[[f |-> f, n |-> n]] \in {"entity", "skip", "huge"}
ASSUME CapAssumption == /\ ChunkCap \in Nat \ {0} /\ EntityCap \in Nat \ {0}
                        /\ BatchSize \in Nat \ {0} /\ WriteAttempts \in Nat \ {0}

VARIABLES
  env,        \* the environment; never changes
  idle,       \* the connections in a row that brought nothing
  cancelled,  \* the context of the process is done
  dec,        \* the decompressor: "off", "read", "put", "ended" (chunks is closed)
  chunk,      \* the line it is about to put, a set of at most one
  chunks,     \* the lines in the channel
  errCh,      \* it has reported an error
  pc,         \* the parser
  item,       \* the entity it is about to send, a set of at most one
  scanErr,    \* the scanner stopped with an error
  entityCh,   \* the entities in the channel
  closed,     \* the channel is closed
  writer,     \* the writer: "off", "take", "flush", "ended"
  batch,      \* its batch
  attempt,    \* failed attempts to write it
  cause,      \* writeCtx was cancelled with the writer's error
  stored,     \* the store
  dumpTime    \* meta.dump_time is set

decVars == <<dec, chunk, errCh>>
parserVars == <<pc, item, scanErr, closed>>
writerVars == <<writer, batch, attempt, cause>>
storeVars == <<stored, dumpTime>>
seedVars == <<cancelled, decVars, chunks, parserVars, entityCh, writerVars, storeVars>>
vars == <<downloadVars, seedVars, env, idle>>

Entities(S) == {l \in S : Kind[l] = "entity"}
Old == [f |-> "old", n |-> 0]  \* what the store held before

SeedTypeOK ==
  /\ DownloadTypeOK
  /\ env \in Environments /\ idle \in Nat
  /\ cancelled \in BOOLEAN
  /\ dec \in {"off", "read", "put", "ended"} /\ errCh \in BOOLEAN
  /\ chunk \subseteq Line /\ Cardinality(chunk) = (IF dec = "put" THEN 1 ELSE 0)
  /\ chunks \subseteq Line /\ Cardinality(chunks) <= ChunkCap
  /\ pc \in {"locate", "open", "flush", "mark", "scan", "send", "close", "wait", "stamp",
             "done", "failed", "returned"}
  /\ item \subseteq Line /\ Cardinality(item) = (IF pc = "send" THEN 1 ELSE 0)
  /\ scanErr \in BOOLEAN /\ closed \in BOOLEAN
  /\ entityCh \subseteq Line /\ Cardinality(entityCh) <= EntityCap
  /\ writer \in {"off", "take", "flush", "ended"} /\ cause \in BOOLEAN
  /\ batch \subseteq Line /\ Cardinality(batch) <= BatchSize
  /\ attempt \in 0..WriteAttempts - 1
  /\ stored \subseteq Line \cup {Old} /\ dumpTime \in BOOLEAN

Init ==
  /\ DownloadInit
  /\ env \in Environments /\ idle = 0
  /\ cancelled = FALSE
  /\ dec = "off" /\ chunk = {} /\ chunks = {} /\ errCh = FALSE
  /\ pc = "locate" /\ item = {} /\ scanErr = FALSE
  /\ entityCh = {} /\ closed = FALSE
  /\ writer = "off" /\ batch = {} /\ attempt = 0 /\ cause = FALSE
  /\ stored = {Old} /\ dumpTime \in BOOLEAN

Hostile == env = "hostile"
First(S) == CHOOSE l \in S : \A k \in S : l.n <= k.n

-------------------------------------------------------------------------
(* Seed, before the import. *)

\* findDatedDumpURL: some HEAD request of the last two weeks finds a dump, or
\* none does.
Locate ==
  /\ pc = "locate"
  /\ pc' \in {"open"} \cup (IF Hostile THEN {"failed"} ELSE {})
  /\ UNCHANGED <<downloadVars, cancelled, decVars, chunks, item, scanErr, closed, entityCh, writerVars, storeVars>>

Open ==
  /\ pc = "open"
  /\ \/ /\ OpenBody
        /\ resumable' \/ Hostile
        /\ pc' = "flush"
     \/ Hostile /\ pc' = "failed" /\ UNCHANGED downloadVars
  /\ UNCHANGED <<cancelled, decVars, chunks, item, scanErr, closed, entityCh, writerVars, storeVars>>

\* FlushDataContext: FLUSHDB, then the schema version; either may fail.
FlushData ==
  /\ pc = "flush"
  /\ \/ pc' = "mark" /\ stored' = {} /\ dumpTime' = FALSE
     \/ Hostile /\ pc' = "failed" /\ stored' = {} /\ dumpTime' = FALSE
     \/ Hostile /\ pc' = "failed" /\ UNCHANGED storeVars
  /\ UNCHANGED <<downloadVars, cancelled, decVars, chunks, item, scanErr, closed, entityCh, writerVars>>

\* config_hash and state are set, the goroutines start.
Mark ==
  /\ pc = "mark"
  /\ \/ pc' = "scan" /\ dec' = "read" /\ writer' = "take"
     \/ Hostile /\ pc' = "failed" /\ UNCHANGED <<dec, writer>>
  /\ UNCHANGED <<downloadVars, cancelled, chunk, chunks, errCh, item, scanErr, closed, entityCh,
                 batch, attempt, cause, storeVars>>

-------------------------------------------------------------------------
(* The decompressor. *)

\* Faulty variant: chunks is closed and the error is lost.
DecEndSilent == dec' = "ended" /\ chunk' = {} /\ UNCHANGED errCh

\* The deferred close(chunks) comes after the error is in errCh.
DecEnd == dec' = "ended" /\ chunk' = {} /\ errCh' \in {st # "eof", st # "eof" \/ cancelled}

\* The download between two reads of the decompressor: the server sends, stops
\* sending, answers a Range request or does not.
DecDownload ==
  /\ dec = "read"
  /\ \/ ReadEOF
     \/ Drop /\ (Hostile \/ cancelled \/ (pos < Size[src] /\ idle < MaxRetries))
     \/ Resume
     \/ Changed
     \/ GiveUp /\ (Hostile \/ cancelled)
  /\ UNCHANGED <<cancelled, decVars, chunks, parserVars, entityCh, writerVars, storeVars>>

DecRead ==
  /\ dec = "read"
  /\ ReadLine
  /\ chunk' = got' \ got
  /\ dec' = "put"
  /\ UNCHANGED <<cancelled, errCh, chunks, parserVars, entityCh, writerVars, storeVars>>

DecPut ==
  /\ dec = "put"
  /\ Cardinality(chunks) < ChunkCap
  /\ chunks' = chunks \cup chunk
  /\ chunk' = {}
  /\ dec' = "read"
  /\ UNCHANGED <<downloadVars, cancelled, errCh, parserVars, entityCh, writerVars, storeVars>>

\* It ends at the end of the file, with the error of the download, or when the
\* context is done, whatever it has in hand.
DecStop ==
  /\ \/ dec = "read" /\ (st \in {"eof", "failed", "changed"} \/ cancelled)
     \/ dec = "put" /\ cancelled
  /\ DecEnd
  /\ UNCHANGED <<downloadVars, cancelled, chunks, parserVars, entityCh, writerVars, storeVars>>

-------------------------------------------------------------------------
(* The parser: processDumpStream. *)

\* The scanner has a line.  The contexts are looked at before it is used; a
\* line that does not fit the buffer stops the scanner before that.
ScanLine ==
  /\ pc = "scan"
  /\ chunks # {}
  /\ LET l == First(chunks)
     IN  /\ chunks' = chunks \ {l}
         /\ \/ /\ Kind[l] = "huge"
               /\ scanErr' = TRUE /\ pc' = "close" /\ UNCHANGED item
            \/ /\ Kind[l] # "huge"
               /\ cancelled \/ cause
               /\ pc' = "close" /\ UNCHANGED <<item, scanErr>>
            \/ /\ Kind[l] = "skip"
               /\ ~cancelled /\ ~cause
               /\ UNCHANGED <<pc, item, scanErr>>
            \/ /\ Kind[l] = "entity"
               /\ ~cancelled /\ ~cause
               /\ item' = {l} /\ pc' = "send" /\ UNCHANGED scanErr
  /\ UNCHANGED <<downloadVars, cancelled, decVars, closed, entityCh, writerVars, storeVars>>

\* chunks is closed and empty: chanReader looks into errCh.
ScanEnd ==
  /\ pc = "scan"
  /\ chunks = {} /\ dec = "ended"
  /\ scanErr' = errCh
  /\ pc' = "close"
  /\ UNCHANGED <<downloadVars, cancelled, decVars, chunks, item, closed, entityCh, writerVars, storeVars>>

\* Faulty variant: the parser does not watch writeCtx while it sends.
SendUnwatched ==
  /\ pc = "send"
  /\ Cardinality(entityCh) < EntityCap
  /\ entityCh' = entityCh \cup item
  /\ pc' = "scan"
  /\ item' = {}
  /\ UNCHANGED <<downloadVars, cancelled, decVars, chunks, scanErr, closed, writerVars, storeVars>>

\* entityCh has room, or one of the contexts is done (either, if both hold).
Send ==
  /\ pc = "send"
  /\ \/ /\ Cardinality(entityCh) < EntityCap
        /\ entityCh' = entityCh \cup item
        /\ pc' = "scan"
     \/ /\ cause \/ cancelled
        /\ pc' = "close"
        /\ UNCHANGED entityCh
  /\ item' = {}
  /\ UNCHANGED <<downloadVars, cancelled, decVars, chunks, scanErr, closed, writerVars, storeVars>>

\* close(entityCh)
Close ==
  /\ pc = "close"
  /\ closed' = TRUE
  /\ pc' = "wait"
  /\ UNCHANGED <<downloadVars, cancelled, decVars, chunks, item, scanErr, entityCh, writerVars, storeVars>>

\* wg.Wait, then ctx.Err, the cause of writeCtx and scanner.Err.
Wait ==
  /\ pc = "wait"
  /\ writer = "ended"
  /\ pc' = IF cancelled \/ cause \/ scanErr THEN "failed" ELSE "stamp"
  /\ UNCHANGED <<downloadVars, cancelled, decVars, chunks, item, scanErr, closed, entityCh, writerVars, storeVars>>

\* dump_time.  When the command fails it may have been executed all the same.
Stamp ==
  /\ pc = "stamp"
  /\ \/ pc' = "done" /\ dumpTime' = TRUE
     \/ (Hostile \/ cancelled) /\ pc' = "failed" /\ dumpTime' \in {dumpTime, TRUE}
  /\ UNCHANGED <<downloadVars, cancelled, decVars, chunks, item, scanErr, closed, entityCh, writerVars, stored>>

-------------------------------------------------------------------------
(* The writer. *)

Take ==
  /\ writer = "take"
  /\ entityCh # {}
  /\ LET l == First(entityCh)
     IN  /\ entityCh' = entityCh \ {l}
         /\ batch' = batch \cup {l}
  /\ writer' = IF Cardinality(batch') >= BatchSize THEN "flush" ELSE "take"
  /\ UNCHANGED <<downloadVars, cancelled, decVars, chunks, parserVars, attempt, cause, storeVars>>

\* The channel is closed and empty: what is left is flushed.
TakeEnd ==
  /\ writer = "take"
  /\ entityCh = {} /\ closed
  /\ writer' = IF batch = {} THEN "ended" ELSE "flush"
  /\ UNCHANGED <<downloadVars, cancelled, decVars, chunks, parserVars, entityCh, batch, attempt, cause, storeVars>>

Flush ==
  /\ writer = "flush"
  /\ stored' = stored \cup batch
  /\ batch' = {}
  /\ attempt' = 0
  /\ writer' = "take"
  /\ UNCHANGED <<downloadVars, cancelled, decVars, chunks, parserVars, entityCh, cause, dumpTime>>

\* Faulty variant: one attempt more than there are delays.
FlushFailsOnceMore ==
  /\ writer = "flush"
  /\ Hostile \/ cancelled \/ attempt + 1 < WriteAttempts
  /\ \E part \in SUBSET batch : stored' = stored \cup part
  /\ IF cancelled \/ attempt = WriteAttempts
     THEN writer' = "ended" /\ cause' = TRUE /\ UNCHANGED attempt
     ELSE attempt' = attempt + 1 /\ UNCHANGED <<writer, cause>>
  /\ UNCHANGED <<downloadVars, cancelled, decVars, chunks, parserVars, entityCh, batch, dumpTime>>

\* The pipeline of a batch fails after any part of it; the last attempt, and a
\* context that is done, end the writer, which cancels writeCtx.
FlushFails ==
  /\ writer = "flush"
  /\ Hostile \/ cancelled \/ attempt + 1 < WriteAttempts
  /\ \E part \in SUBSET batch : stored' = stored \cup part
  /\ IF cancelled \/ attempt + 1 = WriteAttempts
     THEN writer' = "ended" /\ cause' = TRUE /\ UNCHANGED attempt
     ELSE attempt' = attempt + 1 /\ UNCHANGED <<writer, cause>>
  /\ UNCHANGED <<downloadVars, cancelled, decVars, chunks, parserVars, entityCh, batch, dumpTime>>

-------------------------------------------------------------------------
(* The process. *)

\* Seed returns an error: its deferred resp.Body.Close makes the read of a
\* decompressor that still runs fail, which for a resumable body means: resume.
CloseBody ==
  /\ pc = "failed"
  /\ pc' = "returned"
  /\ IF st = "open" THEN Drop ELSE UNCHANGED downloadVars
  /\ UNCHANGED <<cancelled, decVars, chunks, item, scanErr, closed, entityCh, writerVars, storeVars>>

\* main: the error of runPrimary stops the process.
Shutdown ==
  /\ pc = "returned"
  /\ ~cancelled
  /\ cancelled' = TRUE
  /\ UNCHANGED <<downloadVars, decVars, chunks, parserVars, entityCh, writerVars, storeVars>>

\* A signal, or the error of another role.
Interrupt ==
  /\ Hostile
  /\ ~cancelled
  /\ cancelled' = TRUE
  /\ UNCHANGED <<downloadVars, decVars, chunks, parserVars, entityCh, writerVars, storeVars>>

ReplaceDump == Hostile /\ Replace /\ UNCHANGED seedVars

Decompressor == DecDownload \/ DecRead \/ DecPut \/ DecStop
Parser == \/ Locate \/ Open \/ FlushData \/ Mark
          \/ ScanLine \/ ScanEnd \/ Send \/ Close \/ Wait \/ Stamp \/ CloseBody
Writer == Take \/ TakeEnd \/ Flush \/ FlushFails

Steps == Decompressor \/ Parser \/ Writer \/ Shutdown \/ Interrupt \/ ReplaceDump

Next ==
  /\ Steps
  /\ idle' = CASE got' # got -> 0
              [] st = "open" /\ st' \in {"broken", "failed"} -> idle + 1
              [] OTHER -> idle
  /\ UNCHANGED env

Spec == Init /\ [][Next]_vars

\* The goroutines run, and the server sends, ends a connection or answers (the
\* client of the download has no time limit: a server that does none of these
\* for ever keeps the seed waiting for ever).
progressVars == <<downloadVars, seedVars>>
FairSpec == /\ Spec
            /\ WF_progressVars(Decompressor) /\ WF_progressVars(Parser)
            /\ WF_progressVars(Writer) /\ WF_progressVars(Shutdown)

-------------------------------------------------------------------------
(* Properties. *)

\* The import implements Import: the store is emptied first; it receives
\* entities of one dump only; dump_time is set only when it has them all, with
\* whatever the three goroutines had in hand when one of them failed; and
\* nothing is written once Seed has returned.
Contents(f) == Entities(Prefix(f, Size[f]))
Phase == CASE pc \in {"locate", "open", "flush"} -> "before"
           [] pc \in {"failed", "returned"} -> "abandoned"
           [] pc = "done" -> "complete"
           [] OTHER -> "importing"
Abstract == INSTANCE Import WITH Dumps <- {Contents(f) : f \in File}, phase <- Phase
ImplementsImport == Abstract!Spec

\* A seed succeeds whatever number of connections and writes is lost, as long
\* as no retry limit is reached in a row (and the dump has no line that does
\* not fit the scanner's buffer).
SeedSucceeds ==
  env = "steady" /\ (\A l \in Prefix(remote, Size[remote]) : Kind[l] # "huge") => <>(pc = "done")

\* No goroutine is left behind: in the end all three have ended, whichever of
\* them failed first, though the body is closed under the decompressor (which
\* resumes the download) and nobody empties its channel any more.
AllEnd == <>[](/\ pc \in {"done", "returned"}
               /\ dec \in {"off", "ended"}
               /\ writer \in {"off", "ended"})
=========================================================================
