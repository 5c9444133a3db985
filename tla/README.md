# wdxref: a TLA+ verification project

wdxref maps Wikidata items to external identifiers and back. A *primary* imports
a Wikidata dump into Kvrocks and follows Wikimedia EventStreams; a *replicator*
serves its data as snapshots and a change stream; *replicas* follow it; an *API*
role answers lookups. This directory models that system from its source, checks
the models with TLC and proves theorems about them with TLAPS. `PROJECT.json`
maps every definition to the lines it models, and lists runs, mutants, findings,
hazards and theorems. Paths below are relative to `internal/` of the repository
unless they start with `cmd/` or `docs/`.

## 1. The system

| component | code | state | operations |
|---|---|---|---|
| store: write scripts | `store/writer.go` | Kvrocks: `entities` hash, `p:<property>` hashes, `changelog` stream, `meta` hash | `upsertScript`, `deleteScript` (atomic Lua), `FlushDataContext` |
| changelog trimmer | `store/writer.go` | one timer | `RunChangelogTrimmer`, `StreamTrimOlderThan` (XRANGE, then XTRIM) |
| store readers | `store/reader.go` | the flag `schemaOK`, set once | lookups, `StreamInfo`, `StreamRead`, `ScanEntities`, statistics |
| snapshot generator | `replicate/snapshot.go` | the published `meta.json` and file | `generate`, `isSnapshotCurrent`, `ServeSnapshot` with ranges |
| replication stream | `replicate/stream.go`, `protocol.go` | per request: cursor, limits, deadline | `ServeStream`, gap check, reset, XREAD loop |
| replicator health | `replicate/handler.go` | none | a report of two positions |
| replica client | `replica/client.go` | `meta` hash: cursor, resume point; per run: a download or a stream | `Run`, `fetchSnapshot`, `connectStream` |
| seeder | `watcher/seed.go` | `meta`: `config_hash`, `state`, `dump_time` | `NeedsSeed`, `Seed`, import pipeline |
| resumable download | `watcher/seed.go` | offset, ETag | `resumableBody.Read`, `reconnect` |
| EventStream ingest | `watcher/eventstream.go` | `pending` set, `last_event_id`, SSE connection, enqueue buffer | `Watch`, `connectAndProcess` |
| queue: drain and retry | `watcher/eventstream.go`, `processor.go`, `store/writer.go` | `pending`, `processing`, `failed` | `drainQueue`, `handleBatchResult`, `retryFailedEntities`, `RecoverProcessing` |
| Wikidata client | `watcher/wikidata.go` | maxlag back-off | `FetchEntitiesRaw`, claim extraction |
| throttle, user agent | `watcher/http.go` | a mutex, a rate limiter, the cooldown | `ThrottleTransport.RoundTrip` |
| API server | `api/server.go` | per request: a deadline | lookups, health and statistics over HTTP |
| HTTP encodings | `httpencoding/` | per response | negotiation, compressed writers |
| process and roles | `cmd/wdxref/main.go` | the set of roles | `runPrimary`, `runReplica`, HTTP roles, shutdown |
| schema | `store/schema.go`, `writer.go` | `meta.schema_version` | `MigrateSchema` |
| connection pool | `store/client.go` | ten connections per process | `NewClient`, its timeouts |
| model types | `model/` | none | plain types |

**How they interact.** Everything shared is in Kvrocks. The ingest goroutines put
items in `pending`, the drain goroutine claims them into `processing`, fetches
them and writes documents through the scripts; every script appends to
`changelog`. The replicator reads the same store: the generator scans `entities`,
each stream handler XREADs `changelog`. The replica calls the replicator over
HTTP and writes through the same scripts to a Kvrocks of its own, so replicas can
be chained. The trimmer of each writing process removes old changelog entries at
its own pace. `ErrStreamTooOld` sends `runPrimary` back to `NeedsSeed`, which
flushes the database under the feet of the replicator.

**What is hard.** Several goroutines and processes write one database with
commands that are atomic one by one and pipelines that are not; each process may
stop between any two commands; connections are lost anywhere; snapshots are scans
of data that changes; a stream may be outrun by the trimmer or by a reseed; items
are fetched again while an older fetch is still being written; markers in `meta`
must never be ahead of the data they describe; everything in a process shares ten
connections and one throttled transport; a seed is three goroutines that have to
end one another. What makes each component correct:

- *store*: index, counter, documents and changelog agree after every command;
- *trimmer*: removes an expired prefix, never the newest entry, and keeps up;
- *snapshot*: with the changelog after its position it reproduces the primary;
- *stream and replica*: no change is lost, the cursor never goes back, a reset
  destroys nothing that could be replayed, the replica converges;
- *queue*: every edit is stored, queued, or ahead of the cursor; failures are
  retried; only a failing call to Kvrocks strands an item, until a restart; the
  store catches up;
- *primary*: a marker is written after what it vouches for, also for a reader that
  looks at it once; a hole in the event stream is found; a reseed comes to an end
  unless its dump is too old;
- *download and import*: what is read is one file from its beginning; `dump_time`
  stands only over a complete import of one dump; no goroutine is left behind;
- *serving*: requests keep their deadlines but in cases that can be named, streams
  do not lock out the writer, and a process that is told to stop does;
- *requests to Wikimedia*: the robot policy holds for the whole process, and
  fetches get through to a server that lags behind.

## 2. Modules

| module | models | composed with |
|---|---|---|
| `CrossReference` | abstract specification: a relation of items and identifiers with its inverse | |
| `Store` | the scripts, the flush and the trimmer on one Kvrocks | `INSTANCE CrossReference` (refinement) |
| `Replication` | primary store (without index), generator, stream handler and replica | uses what `Store` shows of trims and entries |
| `Replay` | a replica that applies a snapshot with lines cut off in the middle | `INSTANCE Store`: the replica's store, index included |
| `Queue` | ingest, drain, retry, recovery | |
| `Primary` | migration, seeding, watcher connection, reseeding | its "has" is what `Queue` works off, its import what `Seed` does |
| `Download` | `resumableBody`, the dump download over many connections | |
| `Import` | abstract specification: the store is emptied, filled from one dump, and marked when it has it all | |
| `Seed` | the three goroutines of `Seeder.Seed` | extends `Download`; `INSTANCE Import` (refinement) |
| `Serving` | one process: start, roles, requests, the connection pool, time, shutdown | |
| `Wikimedia` | the throttled transport and the maxlag back-off | |
| `StoreProofs`, `ReplicationProofs`, `QueueProofs`, `PrimaryProofs`, `SeedProofs`, `ServingProofs`, `WikimediaProofs` | theorems | each extends the module it is about |
| `MC*` | symmetry sets, document tables, files and worlds for TLC | extend the module of the same name |

Some modules begin with the choice of an environment: `hazards` of `Replication`,
`world` of `Queue`, `feed` of `Primary`, `env` of `Seed`, `roles` of `Serving`,
`lag` of `Wikimedia`. `Init` picks one of those the constants list and no step
changes it, so one run covers several, and a property that holds only in some
says so in its first words.

The definitions named "Faulty variant" (`DeleteUnguarded`, `FlushCursorFirst`,
...) are not part of any specification. Each is a plausible bug in one mapped
definition, put beside it; replacing the definition by it breaks the property
listed with it in `PROJECT.json`.

### Store
One action per command. `Upsert`/`Delete` are the scripts: the early return on an
equal or missing document is the guard, `Reindex` is `add_idx`/`del_idx` on the
set difference, `Xadd` the changelog entry, `entityCount` the HINCRBY. A mappings
JSON is a member of `Doc` and `EntriesOf` says which identifiers it lists: two
documents may list the same ones, since the script compares strings. A tick of
the trimmer is two actions, `TrimTick` (XRANGE of at most `TrimBatch + 1` expired
entries) and `TrimXtrim`, with every writer between them. Stream ids are numbers
that a flush does not reset, because the ids Kvrocks issues follow the clock.

### Replication
`entities, changelog, lastId, seed` are the primary, `gen, snapshot` the
generator, `handler` and `inflight` one stream request and the changes on the
wire, `rentities, meta` the replica's Kvrocks, `rc` the place of its client. A
snapshot is a sequence of entity lines; checkpoint and done lines are implied by
positions, and a resume offset is the number of the frame that starts there. The
client's steps are those of `Run`: fetch (whole or by range), flush, keep the
resume point, apply lines and checkpoints, finish, connect, apply a change, store
its cursor. `Drop` is a lost connection or a restart: `rc` is lost, the store is
not. `hazards` admits what the code permits and what breaks some of the
properties (section 6); `NoLostChangeUnlessHostile` is `NoLostChange` where none of
those is admitted.

### Replay
`Replication` takes a script for atomic. It is not when it fails: `upsertScript`
stores the string before it decodes it. `Replay` puts the replica's snapshot client
in front of the whole of `Store` and cuts lines: `FailingUpsert` is a script that
stops after its HSET, over a cut document or in place of one.

### Queue
`pending`, `processing`, `failed`, `cursor`, `stored` are in Kvrocks and survive
`Crash`; `ingest`, `jobs` and `drain` do not. A document is the revision it was
fetched at. `failed` has its two keys, the sorted set and the details; of the scores
only the order they give is kept (`older`), which is what a retry selects by. `jobs` holds the `ProcessEntities` calls of the channels `pending` and
`nextPending` and of the retry; a call fetches, then writes item by item, and may
fail at either point. `drain` is the place in the loop of `drainQueue`, with its
three ways out after an error. `RecoverProcessing` is two actions, since a crash
may fall between SUNIONSTORE and DEL. A claim, an acknowledgement, a requeue and the
deletion of a failed item may fail like any fetch or write. Their pipelines are
plain, so that one that fails may have taken effect in part: a prefix of its
commands (`AckFails`, `Requeue`, `ForgetCut`). That a command is refused and a later
one of the same pipeline accepted is left out.

### Primary
`meta` is the meta hash; `data` what the database holds: which edits, how complete
the import is and which schema and configuration wrote it. Every HSET, HDEL and
FLUSHDB of `MigrateSchema`, `Seed` and `runPrimary` is an action, and `Crash` may
fall between any two. `Init` has the four kinds of database a start may find.
`schemaOK` is the opinion of the youngest reader: `NewReader` may look at the version
at any moment, as the readers of other processes do, and its HGET may fail. A dump is
`DumpAge` ticks old, which may be more than the stream reaches back.
Time is in ticks, one event each, an edit or an irrelevant one, and the stream
keeps `Retention` of them. In a `"mixed"` feed some event ids have no timestamp.

### Download, Import and Seed
`Download` is `resumableBody`: `offset`, `retries` and the ETag `file` on the
client, `remote`, `src` and `pos` on the server. A file is known by its ETag and
a byte is a line of the dump. `Resume`, `Changed` and `GiveUp` are the ends of
`reconnect`, which makes one request per call. `Seed` adds the goroutines:
`dec` the decompressor, `pc` the parser (which is `Seed` itself, from the search
for a dump to `dump_time`), `writer` the batch writer; `chunks` and `entityCh` are
the bounded channels, sets of numbered lines from which the first is taken;
`errCh`, `closed`, `cause` and `cancelled` are the ways in which they end one
another. A batch may fail after any part of it. `CloseBody` and `Shutdown` are
what follows when `Seed` returns an error while the decompressor still runs.
`Import` says what all this is for, with a set of entities and a phase.

### Serving
`proc` is the process from `Boot` to its exit, `req` the HTTP requests. A stream
request goes through the gap check, the loop, the wait for a connection, and
XREAD; `left` is its own time, `wait` what is left of the wait or block it is in,
`block` the block time it has computed. The pool is counted: a request in XREAD
holds a connection, every other command needs one for an instant, the writer's
too, unless it is another process (`WriteElsewhere`). `Tick` passes
time, and only when nothing is due at once, as the code between two commands takes
milliseconds against seconds. What a handler writes takes as long as its client takes
to read it, since the server's `WriteTimeout` is 0: `preamble`, `write` (a batch or a
keepalive) and `send` (the last thing a handler sends, a snapshot among it) end with
`Written`, which need not happen. Only the API sets a write deadline, and `ReplyCut`
is its end.

### Wikimedia
`at[u]` is where each user of the transport is: waiting for the mutex or for the
limiter, in the round trip, cooling down under the mutex, or at its response. `due[u]`
is what is left of the timeout of a fetch, which `http.Client` makes the deadline of
the request's context and which runs on while the fetch waits for the mutex: it ends
the wait for a token (`WaitFails`) and the cooldown (`Cooled`, which `cut` records),
and a response is of use only before it. A reader has the context of the process. The
maxlag fields are shared and unlocked: `Lagged` reads them and `Store` writes
them, with the other fetchers between; the parameter of a request is computed when
it is built, before it waits.

## 3. Runs

Twelve, of which four show a disagreement (section 6).

| run | shows | bounds |
|---|---|---|
| `MCStore` | index, counter, changelog and both read paths agree; trims remove an expired prefix; the backlog drains; `CrossReference` is implemented | 2 items, 2 identifiers, 4 documents, 4 entries, 1 failed cycle |
| `MCReplication` | nothing is lost; and, hostile or not: a resume applies one file only, snapshot faithful, cursor monotone, no needless purge | 2 items, 3 changes, 1 reseed, 1 fault, with torn pipelines or with all of trim, reseed, skip and cut |
| `MCReplicationLive` | convergence; the resume pair matches | 2 changes, 1 reseed, 1 fault |
| `MCReplicationTrim` | violation: a trim overtakes an open stream | 3 changes, no fault |
| `MCReplicationSeedWindow` | violation: a reset between FLUSHDB and the state marker | 2 changes, 1 reseed |
| `MCReplay` | violation: a cut line leaves an entity without index entries | 3 lines in frames of 2, 1 lost connection |
| `MCQueue` | no edit is forgotten; which steps may strand an item; failures kept, catch-up, no starvation | 3 edits in three worlds: single claims, an item that never parses, 2 faults; batches of 2, such an item, 1 fault; batches of 2, any of which may be written, 1 fault. A fault is a failing fetch, write, claim, acknowledgement, requeue or deletion, or a crash |
| `MCQueueOverlap` | violation: an acknowledgement takes the claim of a later batch | 2 items, 2 edits, no fault |
| `MCPrimary` | markers are never ahead of the data, for readers too; no hole longer than the threshold; the primary catches up unless every dump is too old | 6 ticks, retention 3, dump age 5, threshold 2, 2 faults, both feeds |
| `MCSeed` | one file only; `Import` is implemented; a seed survives what its retries allow; no goroutine is left | a dump of 6 lines with one to skip, one of 2 with a line too long for the scanner, 2 retries, channels of 1, batches of 2, 2 write attempts |
| `MCServing` | deadlines, but for three named cases; the writer is not locked out; shutdown | 2 requests, a pool of 1, timeouts of 1 (API) to 5 (pool), a combined process and a replicator alone, whose primary is another process |
| `MCWikimedia` | the robot policy; fetches get through | 2 fetchers and the event stream, a lag of 0 and of 3, threshold 1, cooldown 2, fetch timeout 6 |

**Why the bounds are enough.** Two items are the least with which an entry of one
can be skipped for, confused with or retained beside another; four documents
include two that differ only in order and one without identifiers. Three changes
let one lie before the snapshot, one during the scan and one after it, and one
trim past the middle. `FrameSize` 1 gives two frames and so a resume point inside
the file. Three items in batches of two give a full batch, a partial one and an
item left over. Six ticks with a retention of three let the position fall out of
the stream, a reseed run, and the position fall out again; a dump age of five is
beyond the retention and the threshold together, so that a dump made at the first
ticks is too old and a later one is not. Six lines fill
both channels and the hands of the goroutines, so that each of them waits for the
next; five of them are entities, so that the last batch is a partial one. A pool of one is full with one stream; a change can then end its block only when
it is written by another process, which is the second deployment. Timeouts are a tick apart in
the order the code has them (API read, API write and keepalive, shutdown, read,
pool), which the assumption of `Serving` states and the proofs use. A fetch timeout
of 6 lets one fetch wait behind the slow response and the cooldown of another and
still be in time, or be cut off in its own cooldown. The lag of 3 is above the
parameter that is sent at first. Two faults give a failure during the handling of
a failure. `MaxId`, `MaxEdits`, `MaxTime`, `MaxReseeds`, `MaxFaults`, `MaxErrors`,
`MaxCuts`, `MaxLate` only bound runs (`MaxLate` is beyond what `OnTime` allows);
deadlock checking is off where they end a behaviour (a system that nobody edits is
allowed to be quiet). Symmetry is used in runs without liveness properties only.

## 4. Fairness

- `Store`: the timer of `RunChangelogTrimmer` is reset on every path, and the
  clock it reads advances: WF of the trimmer, SF of a tick with a later cutoff.
- `Replication`: weak fairness of the seeder, the generator's loop and the
  replica's loop, each of which retries for ever; SF of `HandlerRead`, since a
  handler is opened again and again and reads long before its deadline.
- `Queue`: every goroutine keeps running and every call returns (the HTTP client
  has a timeout): WF. SF of the flush and the retry only makes up for the guard
  `Apart`, which keeps overlapping calls out of the run; the code has no such
  guard and would simply do them later.
- `Primary`: the program goes on and the flush ticker fires: WF.
- `Seed`: WF of each goroutine and of the stop of the process after an error. With
  the decompressor this assumes that the server sends, ends the connection or
  answers: the client of the download has no time limit, and a server that does
  none of these keeps a seed waiting for ever.
- `Serving`: handlers go on and a role that is told to stop does (WF); the pool does
  not pass over the writer for ever if it has a free connection again and again
  (SF; waiters queue); time passes (SF, since `Tick` waits for what is due). Clients
  are under no obligation to read what they are sent.
- `Wikimedia`: time and goroutines go on (WF); a response that is there in time is
  judged by what it says, and not refused, again and again (SF). `GetsThrough` itself
  assumes that the process is not stopped and that responses are there in time again
  and again: a server that never answers the event stream holds the mutex for ever,
  because that client has no timeout, and every fetch runs into its own.

Writes, edits, trims, reseeds, faults, signals, clients and, but for the two modules
above, the clock need not do anything. `Converges` assumes that the changelog does
not stay empty: after a flush with nothing written since, the generator has no
position and publishes no snapshot.

## 5. What is proved

Seven modules of theorems, for every value of the constants that satisfies the
named assumptions of the module: any finite set of items, any identifiers,
documents and bounds (`Store`); any items, documents, file names, frame and read
sizes and numbers of writes, reseeds and faults (`Replication`); any items, edits,
faults, batch sizes and items that never parse (`Queue`); any retention, dump age and threshold (`Primary`);
any files, channel capacities, batch sizes and retry limits (`Seed`); any requests,
pool and timeouts in the code's order (`Serving`); any fetchers, readers, limits
and timeout (`Wikimedia`).

| theorem | property |
|---|---|
| `StoreTypeOK` | `TypeOK`; in particular the counter never goes below zero |
| `StoreEntityCount` | `EntityCountExact` |
| `StoreIndexExact` | `IndexExact`, and with it that both read paths agree |
| `StoreImplementsCrossReference` | `ImplementsCrossReference` |
| `StoreChangelog` | `ChangelogReplays` |
| `StoreTrim` | `TrimRemovesOldPrefix` |
| `ReplicationTypeOK` | `TypeOK` |
| `ReplicationNoLostChange` | `NoLostChangeUnlessHostile` |
| `ReplicationSnapshotFaithful` | `SnapshotFaithful` |
| `ReplicationResumeFaithful` | `ResumeFaithful` |
| `ReplicationResumePairMatches` | `ResumePairMatches` (where pipelines are not torn) |
| `ReplicationPurgeOnlyUncovered` | `PurgeOnlyUncovered` |
| `ReplicationCursorMovesForward` | `CursorMovesForward` |
| `QueueTypeOK` | `TypeOK`; in particular a failed item always has its details |
| `QueueNoLostEdit` | `NoLostEdit` (where calls do not overlap) |
| `QueueInFlightRecoverable` | `InFlightRecoverable` (where calls do not overlap) |
| `QueueNothingStranded` | `NothingStranded` |
| `QueueFailuresKept` | `FailuresKept` (where calls do not overlap) |
| `PrimaryTypeOK` | `TypeOK` |
| `PrimaryMarkers` | `MarkersTruthful` |
| `PrimaryImport` | `ImportComplete` |
| `PrimaryCursor` | `CursorOfThisSeed` |
| `PrimaryNoLongHole` | `NoLongHole` (where every event id has a timestamp) |
| `PrimaryReaders` | `ReaderVersion` |
| `SeedPrefix` | `PrefixOfOneFile` |
| `SeedImplementsImport` | `ImplementsImport` |
| `SeedTypes` | `SeedTypeOK`: channels, batch and write attempts within their limits |
| `ServingOnTime` | `OnTime` |
| `ServingGraceSuffices` | `GraceSuffices`, the safety half of `StopsCleanly` |
| `ServingTypeOK` | `TypeOK`: the pool is never exceeded, no clock leaves its limit |
| `WikimediaPolicyKept` | `PolicyKept` |

*Store.* `EntityCountExact` is what keeps the counter a natural number on a delete
(an existing entity is counted, so the count is positive). So the types of
everything but the sign of the counter are proved first (`TypeCore`), then the
count, and `TypeOK` follows from both. `IndexExact` is inductive over `TypeCore`.
The changelog property needs that no entry is newer than the last id issued
(`LogBelow`): a new entry is then the newest of its item, and the one before it
held the old document. `TrimRemovesOldPrefix` has to relate the XTRIM to the
XRANGE before it: `TrimInv` says that, whatever was written or flushed since, at
most `TrimBatch` entries lie below the id the trimmer holds, all of them expired,
and that a stream with entries has one at or above it. The refinement follows
step by step from `IndexExact` before and after.

*Replication.* A position is a promise: as long as the changelog covers it, an item
without a later entry has had its present document since. The lemma `Stable` says
that the primary only ever withdraws such promises, by writing, trimming or
flushing, and never makes a new one about the past; a step of the primary is
therefore the same argument for a scan in progress (`GenInv`), the published file
and the one being downloaded (`FileInv`) and the replica (`StreamInv`). None of the
properties is inductive alone. `SnapshotFaithful` needs the scan, with the items
already passed. `ResumeFaithful` needs the download in progress (`DownInv`: what is
stored of it never runs ahead of what was applied, nor is it stored with the name of
another file), and that a name stands for one file. Proving it showed that its former
restriction to mild environments was not needed. `NoLostChange` speaks of the
cursor, but the stream runs ahead of it: `StreamInv` says that what the replica has
and what is on the wire add up to what the *handler's* position promises, and
`FlightInv` that the wire is in order, ends at that position, and is still in the
changelog as long as that reaches back to it. It needs two facts about XREAD,
that it returns something if there is something and skips nothing (`ReadFacts`), and
that a finished download holds the file and nothing else (`CompleteDownload`).
`PurgeOnlyUncovered` is `ResetInv`: once uncovered, a cursor stays so however late
the reset arrives. Least and greatest entries come from the well-foundedness of the
naturals.

*Queue.* `NothingStranded` and `FailuresKept` rest on where each goroutine can be:
which slots are empty at which place of `drainQueue` (`DrainInv`), that a call works
on its own items only (`JobInv`), that what is retried stays on record (`RetryInv`),
and that between the two commands of `RecoverProcessing` nothing is in one set only
(`RecoverInv`). `NoLostEdit` needs also that what a connection has read beyond the
cursor is in its buffer (`IngestInv`), and `FetchedInv`: a document in hand is
current, or its item was edited after the fetch and that edit is still ahead of the
cursor. It holds because the item is in one place only (`ApartInv`), which the code
does not ensure: with overlapping calls the older document may be written last and
an acknowledgement may take the claim of another batch (section 6). Hence the
condition `NoOverlap` of `NoLostEdit`, `InFlightRecoverable` and `FailuresKept`.
`NothingStranded` needs no such condition: it names the steps that strand an item,
and says that no other does. `FailuresKept` goes through those steps as well, and
through a crash, because what they leave behind is in `processing`, where a restart
finds it.

*Primary.* The properties speak of databases a crash may leave behind, so
none is inductive: that `SeedDumpTime` may write its marker depends on what the
flush and `Import` did before. `StepInv` says what each step of the program
has established (after FLUSHDB everything is gone, during the import no marker
but the configuration is set, at the end the data is whole), `DataInv` what a
restart may rely on. `ReaderInv` is the first half of `ReaderVersion`: a version that
is read as the present one stays right about the data, since no step brings data of
another schema back. `CursorInv` adds that dump times are not in the future, that
a connection starts behind the dump, and that the ids read from it do too.
`NoLongHole` needs `HoleInv`: the position is the tick of a stored edit or of the
dump, so it is never itself a missing edit and a hole cannot grow across it; and
what an open connection has passed over is stored, buffered, or missing in short
runs only (`GapBounds` is the arithmetic of the check). The threshold must be at
least one tick, as the code's hour is.

*Download and Seed.* `PrefixOfOneFile` becomes inductive with what If-Match gives:
an open connection sends `file`, at `offset` (`DownloadInv`). The refinement rests
on `ImportInv`, five parts: `DownloadInv`; `Untouched`, nothing is in any hand
before the goroutines start; `Control`, which place of one goroutine goes with
which of another (the writer ends only with `cause` set or after the channel is
closed and empty, the parser reaches `stamp` only after the writer has ended with
neither error nor interrupt); `FromDump`, whatever is held is an entity of `file`;
and `Conserved`, the heart of it: as long as nothing has failed, every entity read
so far is in one of the hands (the chunk, a channel, the item, the batch) or
stored. At `stamp` all hands are empty and the download is at its end, so what
is stored is the dump. `SeedTypes` adds the limits (`LimitInv`): a channel is filled
only below its capacity, and a batch that may still grow is not full.

*Serving.* `OnTime` follows from `Clocks`: for a request in XREAD, the time it
already is late and the time it will still wait together stay below the limit of
its case, which `Loop` fixes when it computes the block; a request that is late in a
write comes to `loop`, where it ends, and so never begins another read.
`ServingTypeOK` needs `PoolInv`: a request enters XREAD only with a connection left.
`GraceSuffices` needs `StopInv`: a read may begin after the signal, but only before
time passes, so a block with a limit ends within a keepalive interval of the signal,
a lookup is answered at once, and its answer is cut off within the API's write
deadline; the grace period is longer than either.

*Wikimedia.* `TransportInv`: at most one user is past the mutex, and while one
cools down, the ticks since the slow response and the rest of the cooldown together
are at least `Cooldown`; when it leaves early, the process has stopped or `cut` says
that its deadline had passed.

*Only model-checked*: `BacklogDrains`, `Converges`, `CatchesUp` (both),
`EveryFailureRetried`, `SeedSucceeds`, `AllEnd`, `WritesProceed`, `GetsThrough` and
the first half of `StopsCleanly` (liveness under fairness is beyond this prover), and
`Replay`, whose property is violated. Every invariant and every action property of the
passing runs is stated by a theorem.

## 6. Where code and documentation disagree

Four runs show a disagreement:

- **A stream is checked once** (`MCReplicationTrim`). `checkStreamGap` runs when a
  request arrives. A handler that the trimmer overtakes later goes on with XREAD
  from its cursor and skips the trimmed entries; the cursor moves on, and the
  README's fall-back to a snapshot never happens.
- **The seeding window** (`MCReplicationSeedWindow`). FLUSHDB removes `meta.state`
  too, and `seeding` is set two commands later. A reset in between carries no
  state, and a replica drops the data it was meant to keep.
- **One claim, two batches** (`MCQueueOverlap`). An item edited while its batch is
  in flight is claimed again by the next batch; the SREM of the first takes it out
  of `processing`, and a crash then loses the second edit.
- **A cut line in the store** (`MCReplay`). A snapshot line cut by a lost
  connection is stored as it is, the script failing on it afterwards. The next
  attempt replaces it and fails on the old string; the one after that finds the
  string equal and does nothing. The entity stays without index entries.

The models also admit, with other values of their environments, behaviour that
needs a rarer cause. None has a run of its own; the constants reproduce each:

- `Replication`, `"reseed"`: a stream open across a reseed never learns of the
  items that the new dump lacks.
- `Replication`, `"skip"`: a change whose script fails is passed over, since the
  HSET of the cursor behind it in the pipeline succeeds.
- `Replication`, `"cut"`: a data line cut off inside the item number parses as the
  delete of another item, and a reset line cut before its state as one without.
- `Queue`, `"overlap"`: two fetches of one item in flight, the older written last.
- `Primary`, `"mixed"`: a stored event id without a timestamp makes the next
  connection start at the present, unchecked.
- `Seed`, `"hostile"`: `reconnect` gives up on the first request that is not
  answered, although it counts retries; and a connection lost after the last byte
  is resumed with an empty range, whose 416 is reported as a changed dump. Both end
  the seed without `dump_time`, so that the next start repeats it.

Met while modelling, and described by the properties rather than violated by a run:

- `docs/replication-stream-bounds.md:52` and the repository's `README.md:127` call the
  timeout the maximum total lifetime of a stream request. `OnTime`
  says how it is exceeded: by a keepalive interval after a wait for a connection; by
  the client's read timeout after a block time below one millisecond, which becomes
  BLOCK 0; and without any bound in a write to a client that does not read, as the
  server's `WriteTimeout` is 0 (`cmd/wdxref/main.go:429`) and no write deadline is
  set. The time of the first preamble and of the last thing sent is not even begun,
  or not looked at any more.
- A failed claim throws away the finished result of the batch before it, its failures
  included; a claim whose reply is lost, a failed acknowledgement and a failed requeue
  (`watcher/eventstream.go:540-542`, which is only logged) leave items in
  `processing` until the next restart (`NothingStranded`, `FailuresKept`,
  `CatchesUp`).
- `DeleteFailedEntity` is ZREM and DEL in a plain pipeline: when only the first takes
  effect, `failed:<id>` stays for ever (`TypeOK` of `Queue` says that it is never the
  other way round).
- The cooldown after a slow response is promised by `ThrottleTransport` for all
  clients, but a fetch leaves it when its context is done, and `http.Client` puts the
  client's five minutes (`cmd/wdxref/main.go:192`) there, counted from before the wait
  for the mutex: the next request then starts within the cooldown (`PolicyKept`, the
  case `cut`).
- `Seed` accepts dumps of up to 14 days with a warning that it "will continue anyway"
  (`watcher/seed.go:59-60, 368-370`). If the event stream does not go back to the
  dump, the gap check ends in the next reseed, from the same dump, and so on for ever
  (`CatchesUp`, the case `DumpTooOld`).
- `docs/replication-stream-bounds.md:152` promises a 503 on a failure of Kvrocks,
  "never an empty successful response and never a destructive reset". That is so
  for the coverage check; a `GetStats` that fails afterwards leaves a reset without
  a state, and a read that fails ends a 200 response that may hold no event.
- A process answers lookups with 503 until it is restarted when its reader was made
  before `MigrateSchema`, as that of a fresh combined process is, between the FLUSHDB
  and the HSET of a migration or reseed, as may happen to any other process or after
  a crash there, or when the HGET of `NewReader` failed (`ReaderVersion`).
- A SIGTERM during a snapshot transfer, or while any client of the replicator does not
  read what it was sent, ends with status 1 (`StopsCleanly`).
- The HSET of `dump_time` may take effect although `Seed` is told that it failed; the
  process ends with an error over a complete import (`Abandon` of `Import`).
- `Seed` closes the body under a decompressor that still reads; the resumable body
  takes this for a lost connection and resumes, until the process stops (`AllEnd`).
- `apiReadTimeout` bounds the wait for a connection, not the read of a reply, which
  the Kvrocks client bounds by its own timeout.
- `extractExternalIDs` (`watcher/wikidata.go`) removes neighbouring duplicates after
  a sort by property, rank and value; a value with two ranks and another between
  them is not a neighbour of itself and stays twice.
- The encoding negotiation accepts gzip for `gzip;q=0, *`.
- The failed set is retried in the order of the *last* failure
  (`recordFailedScript`), not of `first_failed` as `LastFailedEntities` says; this
  is what `EveryFailureRetried` needs.
- The entry that XTRIM spares is removed by a later tick only when a newer expired
  one follows, so that the newest entry stays (`TrimRemovesOldPrefix`).

## 7. What is not modelled

| part | why |
|---|---|
| claim extraction, ranks, canonical JSON | conversions of text without state; planned as operators |
| content encodings and negotiation | parsing of headers and compression of bodies, on which no other part's state depends |
| health and statistics reports | read-only; their requests are among those of `Serving` |
| environment variables, formats of responses, logging, metrics | text; the roles and limits they configure are constants |
| line protocol, compression, files, the generator's timer | data layout; a cut line is modelled by its effect (`CutChange`, `CutReset`, `Replay`) |
| Kvrocks itself | commands are atomic and so are scripts that succeed, pipelines are not; a script that fails keeps what it has done (`Replay`) |

The trimmer runs in `Store` and, by its effect, in `Replication`; one replica and
one stream request at a time are modelled in `Replication`, since replicas do not
share anything there, and several requests in `Serving`.

## 8. Plan

1. Done: the modules of section 2, their runs, and the proofs of section 5.
2. Abstract specifications worth stating: `Queue` as a set of due items per
   revision, `Replication` as a register that lags behind another.
3. Claim extraction as operators against a reference definition.

## 9. How to run

    tlc -config MCStore.cfg MCStore.tla      # and so for every run of section 3
    tlapm StoreProofs.tla                    # and the other six proofs modules

The runs of one module share it: `MCReplicationLive`, `MCReplicationTrim` and
`MCReplicationSeedWindow` use `MCReplication.tla`, `MCQueueOverlap` uses `MCQueue.tla`.
