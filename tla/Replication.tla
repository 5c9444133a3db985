-------------------------- MODULE Replication ---------------------------
(***************************************************************************)
(* One primary store, the replicator that serves it, and one replica.      *)
(*                                                                         *)
(*   primary     entities and changelog, written by the Lua scripts (module*)
(*               Store), trimmed, and flushed when the primary reseeds     *)
(*   replicator  the snapshot generator (a scan that other writes overlap),*)
(*               the published snapshot, and one /replicate/stream handler *)
(*   replica     internal/replica: fetchSnapshot with resume, connectStream*)
(*               the entities it has stored and its meta hash, which       *)
(*               survive a crash; everything else does not                 *)
(*                                                                         *)
(* Stream ids are numbers, a snapshot is its sequence of entity lines (the *)
(* checkpoint and done lines are implied by the positions), a resume offset*)
(* is the number of the frame that starts there.  Every command on a       *)
(* Kvrocks node and every message that crosses the network is one step.    *)
(***************************************************************************)
EXTENDS Integers, Sequences, FiniteSets

CONSTANTS
  QID, Doc, NoDoc,  \* items, mappings documents, "no entity" (as in Store)
  Name, NoName,     \* snapshot file names (also their ETags)
  FrameSize,        \* entity lines per snapshot frame (SnapshotFrameSize)
  ReadCount,        \* entries one XREAD returns (StreamReadCount)
  MaxId,            \* bound: changelog entries written in a run
  MaxReseeds,       \* bound: reseeds after the first seed
  MaxFaults,        \* bound: crashes, lost connections, failed generations
  Environments      \* what else the environment may do: the sets of hazards a run considers

(***************************************************************************)
(* A set of hazards names the interleavings and failures that a behaviour  *)
(* admits beyond crashes and lost connections.  Each is something the code *)
(* permits.                                                                *)
(*   "trim"    the trimmer passes a position a connected handler has not   *)
(*             read yet                                                    *)
(*   "reseed"  the primary flushes its store while a stream is connected   *)
(*   "torn"    a pipeline whose error is ignored takes effect in part      *)
(*   "skip"    in the pipeline of a change the script fails and the HSET   *)
(*             of the cursor does not                                      *)
(*   "cut"     a connection is lost in the middle of a data line           *)
(***************************************************************************)
ASSUME HazardsAssumption ==
  Environments \subseteq SUBSET {"trim", "reseed", "torn", "skip", "cut"}
ASSUME SentinelAssumption == NoDoc \notin Doc /\ NoName \notin Name
ASSUME SizeAssumption == /\ FrameSize \in Nat \ {0}
                         /\ ReadCount \in Nat \ {0}
                         /\ MaxId \in Nat /\ MaxReseeds \in Nat /\ MaxFaults \in Nat

VARIABLES
  entities, changelog, lastId,  \* the primary's store, as in Store
  seed,      \* the primary: "flushed" (seed begun, state not set yet), "seeding", "streaming"
  reseeds,   \* reseeds so far
  gen,       \* the snapshot generator
  snapshot,  \* the published snapshot (meta.json and the file it names)
  handler,   \* the stream handler: its step and its cursor
  inflight,  \* changes the handler has written and the replica has not applied, read in id order
  rentities, \* the replica's entities hash
  meta,      \* the replica's meta hash: cursor and download progress
  rc,        \* where the replica client is
  dl,        \* its snapshot download
  faults,    \* faults so far
  hazards    \* the hazards of this behaviour; never changes

primaryVars == <<entities, changelog, lastId, seed, reseeds>>
replicatorVars == <<gen, snapshot>>
streamVars == <<handler, inflight>>
replicaVars == <<rentities, meta, rc, dl>>
protocolVars == <<primaryVars, replicatorVars, streamVars, replicaVars, faults>>
vars == <<protocolVars, hazards>>

DocOrNone == Doc \cup {NoDoc}
Change == [id : 1..MaxId, q : QID, d : DocOrNone]
Line == [q : QID, d : Doc]
Snapshot == [name : Name \cup {NoName}, id : 0..MaxId, lines : Seq(Line)]
NoSnapshot == [name |-> NoName, id |-> 0, lines |-> <<>>]

\* last_replicated_id, snapshot_etag, snapshot_resume_offset and
\* snapshot_resume_entities; 0, NoName, 0 and -1 stand for a missing field.
NoMeta == [cursor |-> 0, etag |-> NoName, offset |-> 0, before |-> -1]
NoDownload == [file |-> NoSnapshot, pos |-> 0, total |-> 0, checked |-> FALSE]

TypeOK ==
  /\ entities \in [QID -> DocOrNone]
  /\ changelog \subseteq Change
  /\ lastId \in 0..MaxId
  /\ seed \in {"flushed", "seeding", "streaming"}
  /\ reseeds \in 0..MaxReseeds
  /\ gen \in [pc : {"idle", "scan"}, id : 0..MaxId, todo : SUBSET QID, lines : Seq(Line)]
  /\ snapshot \in Snapshot
  /\ handler \in [pc : {"closed", "reset", "open"}, cursor : 0..MaxId]
  /\ inflight \subseteq Change
  /\ rentities \in [QID -> DocOrNone]
  /\ meta \in [cursor : 0..MaxId, etag : Name \cup {NoName}, offset : Nat, before : Nat \cup {-1}]
  /\ rc \in {"start", "flush", "persist", "apply", "final", "stream", "cursor", "await", "purge"}
  /\ dl \in [file : Snapshot, pos : Nat, total : Nat, checked : BOOLEAN]
  /\ dl.pos <= Len(dl.file.lines)
  /\ faults \in 0..MaxFaults
  /\ hazards \in Environments

Init ==
  /\ entities = [q \in QID |-> NoDoc]
  /\ changelog = {}
  /\ lastId = 0
  /\ seed = "flushed"
  /\ reseeds = 0
  /\ gen = [pc |-> "idle", id |-> 0, todo |-> {}, lines |-> <<>>]
  /\ snapshot = NoSnapshot
  /\ handler = [pc |-> "closed", cursor |-> 0]
  /\ inflight = {}
  /\ rentities = [q \in QID |-> NoDoc]
  /\ meta = NoMeta
  /\ rc = "start"
  /\ dl = NoDownload
  /\ faults = 0
  /\ hazards \in Environments

\* One of the bounded number of failures.
Fault == faults < MaxFaults /\ faults' = faults + 1

-------------------------------------------------------------------------
(* The primary. *)

\* upsertScript and deleteScript (d = NoDoc), without the reverse index.
Write(q, d) ==
  /\ seed # "flushed"
  /\ entities[q] # d
  /\ lastId < MaxId
  /\ entities' = [entities EXCEPT ![q] = d]
  /\ lastId' = lastId + 1
  /\ changelog' = changelog \cup {[id |-> lastId + 1, q |-> q, d |-> d]}
  /\ UNCHANGED <<seed, reseeds, replicatorVars, streamVars, replicaVars, faults>>

\* XTRIM changelog MINID t.  Store proves that a trim removes a prefix and
\* keeps the newest entry.
Trim(t) ==
  /\ \E x \in changelog : x.id = t
  /\ \E x \in changelog : x.id < t
  /\ \/ "trim" \in hazards
     \/ handler.pc # "open"
     \/ \A x \in changelog : x.id < t => x.id <= handler.cursor
  /\ changelog' = {x \in changelog : x.id >= t}
  /\ UNCHANGED <<entities, lastId, seed, reseeds, replicatorVars, streamVars, replicaVars, faults>>

\* Seed begins again: FLUSHDB takes the changelog and meta.state with it.
ReseedFlush ==
  /\ seed = "streaming"
  /\ reseeds < MaxReseeds
  /\ "reseed" \in hazards \/ handler.pc # "open"
  /\ reseeds' = reseeds + 1
  /\ seed' = "flushed"
  /\ entities' = [q \in QID |-> NoDoc]
  /\ changelog' = {}
  /\ UNCHANGED <<lastId, replicatorVars, streamVars, replicaVars, faults>>

\* SetSyncState("state", "seeding")
SeedMark ==
  /\ seed = "flushed"
  /\ seed' = "seeding"
  /\ UNCHANGED <<entities, changelog, lastId, reseeds, replicatorVars, streamVars, replicaVars, faults>>

\* The dump is imported: runPrimary sets the state to streaming.
SeedDone ==
  /\ seed = "seeding"
  /\ seed' = "streaming"
  /\ UNCHANGED <<entities, changelog, lastId, reseeds, replicatorVars, streamVars, replicaVars, faults>>

-------------------------------------------------------------------------
(* The replicator: snapshots. *)

NewestId == (CHOOSE x \in changelog : \A y \in changelog : y.id <= x.id).id
FirstId == (CHOOSE x \in changelog : \A y \in changelog : x.id <= y.id).id

\* The retained changelog reaches back to position c (checkStreamGap,
\* isSnapshotCurrent).
Covers(c) == changelog # {} /\ FirstId <= c

\* generate: the position is recorded before the scan; an empty changelog is
\* an error.
GenStart ==
  /\ gen.pc = "idle"
  /\ changelog # {}
  /\ gen' = [pc |-> "scan", id |-> NewestId, todo |-> QID, lines |-> <<>>]
  /\ UNCHANGED <<primaryVars, snapshot, streamVars, replicaVars, faults>>

\* HSCAN reaches the field of q, in whatever order the store keeps them.
GenScan(q) ==
  /\ gen.pc = "scan"
  /\ q \in gen.todo
  /\ gen' = [gen EXCEPT !.todo = @ \ {q},
                        !.lines = IF entities[q] = NoDoc THEN @
                                  ELSE Append(@, [q |-> q, d |-> entities[q]])]
  /\ UNCHANGED <<primaryVars, snapshot, streamVars, replicaVars, faults>>

\* Faulty variant: the position is read when the scan is over.
GenPublishLatePosition ==
  /\ gen.pc = "scan"
  /\ gen.todo = {}
  /\ changelog # {}
  /\ \E n \in Name \ {snapshot.name, meta.etag, dl.file.name} :
       snapshot' = [name |-> n, id |-> NewestId, lines |-> gen.lines]
  /\ gen' = [gen EXCEPT !.pc = "idle", !.lines = <<>>, !.id = 0]
  /\ UNCHANGED <<primaryVars, streamVars, replicaVars, faults>>

\* The scan is complete: the done line, meta.json renamed into place, older
\* files deleted.  A download in progress keeps its open file.
GenPublish ==
  /\ gen.pc = "scan"
  /\ gen.todo = {}
  /\ \E n \in Name \ {snapshot.name, meta.etag, dl.file.name} :
       snapshot' = [name |-> n, id |-> gen.id, lines |-> gen.lines]
  /\ gen' = [gen EXCEPT !.pc = "idle", !.lines = <<>>, !.id = 0]
  /\ UNCHANGED <<primaryVars, streamVars, replicaVars, faults>>

\* A generation fails or the replicator restarts: nothing was published.
GenFail ==
  /\ gen.pc = "scan"
  /\ Fault
  /\ gen' = [gen EXCEPT !.pc = "idle", !.todo = {}, !.lines = <<>>, !.id = 0]
  /\ UNCHANGED <<primaryVars, snapshot, streamVars, replicaVars>>

-------------------------------------------------------------------------
(* The replica: snapshot download (fetchSnapshot).  Where the code writes  *)
(* 500 lines in one pipeline, the lines are applied one by one: each runs  *)
(* its own script on the server and a crash may fall between any two.      *)

\* isSnapshotCurrent: the position of the published snapshot is still covered.
Current == snapshot.name # NoName /\ Covers(snapshot.id)

\* Lines before frame f begins.
Before(f) == f * FrameSize

\* The client has an etag, an offset and a count: it sends Range and If-Range.
ResumeRequested == meta.etag # NoName /\ meta.offset > 0 /\ meta.before # -1

\* The server honours the range while the ETag names the published file.
ResumeGranted == ResumeRequested /\ meta.etag = snapshot.name

\* Faulty variant: the range is sent without If-Range.
FetchSnapshotAnyFile ==
  /\ rc = "start"
  /\ meta.cursor = 0
  /\ Current
  /\ IF ResumeRequested
     THEN /\ dl' = [file |-> snapshot, pos |-> Before(meta.offset), total |-> meta.before, checked |-> FALSE]
          /\ rc' = "persist"
     ELSE /\ dl' = [file |-> snapshot, pos |-> 0, total |-> 0, checked |-> FALSE]
          /\ rc' = "flush"
  /\ UNCHANGED <<primaryVars, replicatorVars, streamVars, rentities, meta, faults>>

\* Run has no cursor: GET /replicate/snapshot.  A snapshot that is missing or
\* not current is answered with 503 and the client tries again.
FetchSnapshot ==
  /\ rc = "start"
  /\ meta.cursor = 0
  /\ Current
  /\ IF ResumeGranted
     THEN /\ dl' = [file |-> snapshot, pos |-> Before(meta.offset), total |-> meta.before, checked |-> FALSE]
          /\ rc' = "persist"
     ELSE /\ dl' = [file |-> snapshot, pos |-> 0, total |-> 0, checked |-> FALSE]
          /\ rc' = "flush"
  /\ UNCHANGED <<primaryVars, replicatorVars, streamVars, rentities, meta, faults>>

\* A whole file: FLUSHDB before anything of it is applied.
FlushForSnapshot ==
  /\ rc = "flush"
  /\ rentities' = [q \in QID |-> NoDoc]
  /\ meta' = NoMeta
  /\ rc' = "persist"
  /\ UNCHANGED <<primaryVars, replicatorVars, streamVars, dl, faults>>

\* The fields of the meta hash set by one pipeline whose error is ignored:
\* all of them or, when pipelines may be torn, only the first n.
SetFields(new, fields) ==
  \/ meta' = new /\ UNCHANGED faults
  \/ /\ "torn" \in hazards
     /\ Fault
     /\ \E n \in 0..Len(fields) - 1 :
          meta' = [f \in DOMAIN meta |->
                     IF \E i \in 1..n : fields[i] = f THEN new[f] ELSE meta[f]]

\* snapshot_etag, snapshot_resume_offset, snapshot_resume_entities
PersistProgress ==
  /\ rc = "persist"
  /\ LET new == [meta EXCEPT !.etag = dl.file.name,
                             !.offset = dl.pos \div FrameSize,
                             !.before = dl.total]
     IN  SetFields(new, <<"etag", "offset", "before">>)
  /\ rc' = "apply"
  /\ UNCHANGED <<primaryVars, replicatorVars, streamVars, rentities, dl>>

\* The download is given up with an error; Run tries again.
GiveUp == rc' = "start" /\ dl' = NoDownload

AtCheckpoint == /\ ~dl.checked
                /\ dl.pos % FrameSize = 0
                /\ dl.pos = 0 \/ dl.pos < Len(dl.file.lines)

\* Faulty variant: the count is not stored with the offset.
ApplyCheckpointOffsetOnly ==
  /\ rc = "apply"
  /\ AtCheckpoint
  /\ IF dl.total # dl.pos
     THEN GiveUp /\ UNCHANGED meta
     ELSE /\ meta' = [meta EXCEPT !.offset = dl.pos \div FrameSize]
          /\ dl' = [dl EXCEPT !.checked = TRUE]
          /\ UNCHANGED rc
  /\ UNCHANGED <<primaryVars, replicatorVars, streamVars, rentities, faults>>

\* A checkpoint line: the count must match, then it becomes the resume point.
ApplyCheckpoint ==
  /\ rc = "apply"
  /\ AtCheckpoint
  /\ IF dl.total # dl.pos
     THEN GiveUp /\ UNCHANGED <<meta, faults>>
     ELSE /\ LET new == [meta EXCEPT !.offset = dl.pos \div FrameSize, !.before = dl.pos]
             IN  SetFields(new, <<"offset", "before">>)
          /\ dl' = [dl EXCEPT !.checked = TRUE]
          /\ UNCHANGED rc
  /\ UNCHANGED <<primaryVars, replicatorVars, streamVars, rentities>>

\* An entity line: UpsertRawEntity.
ApplyLine ==
  /\ rc = "apply"
  /\ ~AtCheckpoint
  /\ dl.pos < Len(dl.file.lines)
  /\ LET line == dl.file.lines[dl.pos + 1]
     IN  rentities' = [rentities EXCEPT ![line.q] = line.d]
  /\ dl' = [dl EXCEPT !.pos = @ + 1, !.total = @ + 1, !.checked = FALSE]
  /\ UNCHANGED <<primaryVars, replicatorVars, streamVars, meta, rc, faults>>

\* The done line: the count must match.
ApplyDone ==
  /\ rc = "apply"
  /\ ~AtCheckpoint
  /\ dl.pos = Len(dl.file.lines)
  /\ IF dl.total # dl.pos THEN GiveUp ELSE rc' = "final" /\ UNCHANGED dl
  /\ UNCHANGED <<primaryVars, replicatorVars, streamVars, rentities, meta, faults>>

\* The final pipeline: last_replicated_id first, the progress fields deleted
\* last; on an error Run starts from what was written.
FinishSnapshot ==
  /\ rc = "final"
  /\ SetFields([NoMeta EXCEPT !.cursor = dl.file.id], <<"cursor", "etag", "offset", "before">>)
  /\ rc' = "start"
  /\ dl' = NoDownload
  /\ UNCHANGED <<primaryVars, replicatorVars, streamVars, rentities>>

-------------------------------------------------------------------------
(* The stream: ServeStream and connectStream. *)

\* Faulty variants: the gap check is missing; it is off by one.
ConnectStreamUnchecked ==
  /\ rc = "start"
  /\ meta.cursor # 0
  /\ handler' = [pc |-> "open", cursor |-> meta.cursor] /\ rc' = "stream"
  /\ UNCHANGED <<primaryVars, replicatorVars, inflight, rentities, meta, dl, faults>>

ConnectStreamStrict ==
  /\ rc = "start"
  /\ meta.cursor # 0
  /\ IF changelog # {} /\ FirstId < meta.cursor
     THEN handler' = [pc |-> "open", cursor |-> meta.cursor] /\ rc' = "stream"
     ELSE handler' = [handler EXCEPT !.pc = "reset"] /\ rc' = "await"
  /\ UNCHANGED <<primaryVars, replicatorVars, inflight, rentities, meta, dl, faults>>

\* Run has a cursor: GET /replicate/stream?since=<cursor>.  The gap is checked
\* once, when the request arrives.
ConnectStream ==
  /\ rc = "start"
  /\ meta.cursor # 0
  /\ IF Covers(meta.cursor)
     THEN handler' = [pc |-> "open", cursor |-> meta.cursor] /\ rc' = "stream"
     ELSE handler' = [handler EXCEPT !.pc = "reset"] /\ rc' = "await"
  /\ UNCHANGED <<primaryVars, replicatorVars, inflight, rentities, meta, dl, faults>>

\* Faulty variant: the replica keeps its data on every reset.
ServeResetKeeps ==
  /\ rc = "await"
  /\ handler.pc = "reset"
  /\ handler' = [pc |-> "closed", cursor |-> 0]
  /\ rc' = "start"
  /\ UNCHANGED <<primaryVars, replicatorVars, inflight, rentities, meta, dl, faults>>

\* The handler looks up meta.state for the reset event; a replica whose
\* upstream is seeding keeps its data and retries later.
ServeReset ==
  /\ rc = "await"
  /\ handler.pc = "reset"
  /\ handler' = [pc |-> "closed", cursor |-> 0]
  /\ rc' = IF seed = "seeding" THEN "start" ELSE "purge"
  /\ UNCHANGED <<primaryVars, replicatorVars, inflight, rentities, meta, dl, faults>>

\* A reset from an upstream that is not seeding: FLUSHDB.
Purge ==
  /\ rc = "purge"
  /\ rentities' = [q \in QID |-> NoDoc]
  /\ meta' = NoMeta
  /\ rc' = "start"
  /\ UNCHANGED <<primaryVars, replicatorVars, streamVars, dl, faults>>

\* The entries of S with the smallest ids, n at most.
FirstOf(S, n) == {x \in S : Cardinality({y \in S : y.id <= x.id}) <= n}

\* XREAD COUNT n STREAMS changelog <cursor>; the entries are written to the
\* response and the handler's cursor moves to the last of them.
HandlerRead ==
  /\ handler.pc = "open"
  /\ \E x \in changelog : x.id > handler.cursor
  /\ LET read == FirstOf({x \in changelog : x.id > handler.cursor}, ReadCount)
     IN  /\ inflight' = inflight \cup read
         /\ handler' = [handler EXCEPT !.cursor = (CHOOSE x \in read : \A y \in read : y.id <= x.id).id]
  /\ UNCHANGED <<primaryVars, replicatorVars, replicaVars, faults>>

\* The request reaches its event limit or its deadline.
HandlerClose ==
  /\ handler.pc = "open"
  /\ handler' = [pc |-> "closed", cursor |-> 0]
  /\ UNCHANGED <<primaryVars, replicatorVars, inflight, replicaVars, faults>>

\* The replica has read everything of a response that was closed.
StreamEnds ==
  /\ rc = "stream"
  /\ handler.pc = "closed"
  /\ inflight = {}
  /\ rc' = "start"
  /\ UNCHANGED <<primaryVars, replicatorVars, streamVars, rentities, meta, dl, faults>>

\* Faulty variant: the newest change is taken first.
NextChangeNewest == CHOOSE x \in inflight : \A y \in inflight : x.id >= y.id

\* The change event the client reads next: ids arrive in stream order.
NextChange == CHOOSE x \in inflight : \A y \in inflight : x.id <= y.id

\* A change event, first command of its pipeline: the upsert or delete script.
ApplyChange ==
  /\ rc = "stream"
  /\ inflight # {}
  /\ rentities' = [rentities EXCEPT ![NextChange.q] = NextChange.d]
  /\ rc' = "cursor"
  /\ UNCHANGED <<primaryVars, replicatorVars, streamVars, meta, dl, faults>>

\* Faulty variant: the cursor is stored as the next id expected.
AdvanceCursorPast ==
  /\ rc = "cursor"
  /\ meta' = [meta EXCEPT !.cursor = NextChange.id + 1]
  /\ inflight' = inflight \ {NextChange}
  /\ rc' = "stream"
  /\ UNCHANGED <<primaryVars, replicatorVars, handler, rentities, dl, faults>>

\* Second command: HSET meta last_replicated_id.
AdvanceCursor ==
  /\ rc = "cursor"
  /\ meta' = [meta EXCEPT !.cursor = NextChange.id]
  /\ inflight' = inflight \ {NextChange}
  /\ rc' = "stream"
  /\ UNCHANGED <<primaryVars, replicatorVars, handler, rentities, dl, faults>>

Disconnected == handler' = [pc |-> "closed", cursor |-> 0] /\ inflight' = {} /\ rc' = "start"

\* The script of a change fails, the HSET behind it in the plain pipeline does
\* not; Exec returns the error and the stream is given up.
SkipChange ==
  /\ "skip" \in hazards
  /\ rc = "stream"
  /\ inflight # {}
  /\ Fault
  /\ meta' = [meta EXCEPT !.cursor = NextChange.id]
  /\ Disconnected
  /\ UNCHANGED <<primaryVars, replicatorVars, rentities, dl>>

\* The connection is lost inside the data line of a change.  bufio.Scanner
\* hands the cut line over before it reports the error: cut in or right after
\* the number it is a delete, of another item or of this one, and the cursor
\* of this change is stored with it.  (Cut inside the document it is
\* SkipChange as far as the cursor goes; module Replay has what the store
\* makes of the document.)
CutChange ==
  /\ "cut" \in hazards
  /\ rc = "stream"
  /\ inflight # {}
  /\ \E p \in QID : /\ p = NextChange.q => NextChange.d # NoDoc
                   /\ rentities' = [rentities EXCEPT ![p] = NoDoc]
  /\ Fault
  /\ meta' = [meta EXCEPT !.cursor = NextChange.id]
  /\ Disconnected
  /\ UNCHANGED <<primaryVars, replicatorVars, dl>>

\* The data line of a reset is cut: its JSON does not parse, the error is
\* ignored, and no state is no reason to keep the data.
CutReset ==
  /\ "cut" \in hazards
  /\ rc = "await"
  /\ handler.pc = "reset"
  /\ Fault
  /\ handler' = [pc |-> "closed", cursor |-> 0]
  /\ rc' = "purge"
  /\ UNCHANGED <<primaryVars, replicatorVars, inflight, rentities, meta, dl>>

\* The connection is lost between lines, or the replica restarts: what it was
\* doing is forgotten, its store is not.
Drop ==
  /\ rc # "start"
  /\ Fault
  /\ Disconnected
  /\ dl' = NoDownload
  /\ UNCHANGED <<primaryVars, replicatorVars, rentities, meta>>

-------------------------------------------------------------------------
Seeder == SeedMark \/ SeedDone
Generator == GenStart \/ (\E q \in QID : GenScan(q)) \/ GenPublish
Replica == \/ FetchSnapshot \/ FlushForSnapshot \/ PersistProgress
           \/ ApplyCheckpoint \/ ApplyLine \/ ApplyDone \/ FinishSnapshot
           \/ ConnectStream \/ ServeReset \/ Purge
           \/ ApplyChange \/ AdvanceCursor \/ StreamEnds

Steps == \/ \E q \in QID, d \in DocOrNone : Write(q, d)
         \/ \E t \in 1..MaxId : Trim(t)
         \/ ReseedFlush
         \/ Seeder
         \/ Generator
         \/ GenFail
         \/ Replica
         \/ HandlerRead
         \/ HandlerClose
         \/ SkipChange
         \/ CutChange
         \/ CutReset
         \/ Drop

Next == Steps /\ UNCHANGED hazards

Spec == Init /\ [][Next]_vars

\* A seed that has begun goes on, the generator and the replica loop for ever,
\* and a handler that is opened again and again reads in the end (it reads
\* before its deadline, minutes away).  Writes, trims, reseeds and faults need
\* not happen.
FairSpec == /\ Spec
            /\ WF_protocolVars(Seeder)
            /\ WF_protocolVars(Generator)
            /\ WF_protocolVars(Replica)
            /\ SF_protocolVars(HandlerRead)

-------------------------------------------------------------------------
(* Properties. *)

Quiet(q, c) == ~ \E x \in changelog : x.q = q /\ x.id > c

\* At-least-once delivery: while the changelog covers the replica's cursor,
\* every item without a change after the cursor is on the replica exactly as
\* on the primary.  No change up to the cursor was lost, whatever mix of
\* snapshot, resume, replay, trim, reseed and crash led there.
NoLostChange ==
  meta.cursor # 0 /\ Covers(meta.cursor) =>
    \A q \in QID : Quiet(q, meta.cursor) => rentities[q] = entities[q]

\* Crashes, lost connections and pipelines that take effect in part do not
\* lose a change; what does is a trim or a reseed under an open stream, a
\* change skipped or a change cut off.
NoLostChangeUnlessHostile == hazards \subseteq {"torn"} => NoLostChange

Holds(lines, q, d) == \E i \in 1..Len(lines) : lines[i] = [q |-> q, d |-> d]

\* The published snapshot: a scan that ran while items were written, deleted,
\* trimmed or reseeded still has, for every item that did not change since the
\* recorded position, exactly its current document, as long as the snapshot is
\* served at all (isSnapshotCurrent).
SnapshotFaithful ==
  Current => \A q \in QID : Quiet(q, snapshot.id) =>
               \A d \in Doc : Holds(snapshot.lines, q, d) <=> entities[q] = d

\* Resume: when the server would grant the range, the replica holds every line
\* of the published file before the resume offset, and nothing that is not in
\* that file, whatever the environment did.
ResumeFaithful ==
  meta.cursor = 0 /\ ResumeGranted =>
    /\ \A i \in 1..Len(snapshot.lines) :
         i <= Before(meta.offset) => rentities[snapshot.lines[i].q] = snapshot.lines[i].d
    /\ \A q \in QID : rentities[q] # NoDoc => Holds(snapshot.lines, q, rentities[q])

\* The resume point is a pair: the count stored with an offset is the number
\* of lines before that frame (else every resume fails at its checkpoint).
ResumePairMatches == meta.offset > 0 => meta.before = Before(meta.offset)

\* A replica drops its data on a reset only if the primary can no longer
\* replay from the replica's cursor: when the flush happens the cursor is
\* still not covered, however long ago the handler looked.
PurgeOnlyUncovered == [][Purge => ~Covers(meta.cursor)]_vars

\* The cursor only moves forward, except when the store is flushed: batches
\* are neither repeated nor reordered within and across connections.
CursorMovesForward == [][meta'.cursor >= meta.cursor \/ meta' = NoMeta]_vars

\* Eventual consistency: when the primary stops changing, the replica becomes
\* and stays equal to it, in spite of trims that outrun it, reseeds, lost
\* connections and failed generations.  (A primary whose changelog stays
\* empty, because nothing was written since a flush, has no snapshot to give.)
Converges == <>[](changelog # {}) => <>[](rentities = entities)

\* connectStream on a reset: "If upstream is still seeding, keep serving
\* current data rather than flushing".
KeepsDataDuringSeed == [][Purge => seed = "streaming"]_vars
=========================================================================
