---------------------------- MODULE Primary -----------------------------
(***************************************************************************)
(* The life of a primary: MigrateSchema at startup, then runPrimary's loop *)
(* of NeedsSeed, Seed, the sync state and the EventStream watcher, with a  *)
(* crash possible between any two commands.  What is in the database is    *)
(* abstracted to the edits it has, whether its import is complete, and     *)
(* whether another schema or seed configuration wrote it.                  *)
(*                                                                         *)
(* Time is counted in ticks, and EventStreams has one event at every tick, *)
(* an edit of an item or something irrelevant; it keeps the last Retention *)
(* ticks.  A dump of tick d has the edits up to d.  An event that has been *)
(* enqueued counts as had: what becomes of it is module Queue.             *)
(*                                                                         *)
(* Beside it there is a reader, of this process or of one that only serves,*)
(* which has looked at the version of the schema once, when it was made.   *)
(***************************************************************************)
EXTENDS Integers, FiniteSets

CONSTANTS
  Retention,  \* ticks that EventStreams goes back
  DumpAge,    \* ticks a dump may be old when a seed begins, more than Retention
              \* or less: Seed takes the newest one there is, however old
  Threshold,  \* streamGapThreshold
  MaxTime,    \* bound: ticks in a run
  MaxFaults,  \* bound: failed commands and crashes in a run
  Feeds       \* the kinds of event feed considered: "timed", where every id has a
              \* timestamp, and "mixed", where some ids have none

ASSUME TimeAssumption == Retention \in Nat /\ DumpAge \in Nat /\ Threshold \in Nat \ {0}
ASSUME PrimaryBounds == MaxTime \in Nat \ {0} /\ MaxFaults \in Nat
ASSUME FeedsAssumption == Feeds \subseteq {"timed", "mixed"}

VARIABLES
  now, edits,  \* the clock, and the ticks at which an item was edited
  feed,        \* the kind of feed that EventStreams is in this behaviour
  meta,        \* the meta hash: schema_version, config_hash, state, dump_time, last_event_id
  data,        \* the entities (and queues): the edits they reflect, how far the
               \* import came, and the versions that wrote them
  pc,          \* where runPrimary is
  dump,        \* the dump being imported
  conn,        \* the SSE connection and its enqueue buffer
  schemaOK,    \* Reader.schemaOK, without which it answers no lookup
  faults

dbVars == <<meta, data>>
vars == <<now, edits, feed, dbVars, pc, dump, conn, schemaOK, faults>>

Time == 0..MaxTime
None == -1      \* a missing meta field, no since parameter
Untimed == -2   \* a last_event_id without a timestamp

NoData == [has |-> {}, loaded |-> "none", by |-> {}]
NoMeta == [schema |-> "none", hash |-> "none", state |-> "none", dumpTime |-> None, cursor |-> None]
NoConn == [since |-> None, pos |-> 0, checked |-> FALSE, batch |-> {}, last |-> None]

MetaType == [schema : {"none", "old", "cur"}, hash : {"none", "old", "cur"},
             state : {"none", "seeding", "streaming"},
             dumpTime : Time \cup {None}, cursor : Time \cup {None, Untimed}]
DataType == [has : SUBSET edits, loaded : {"none", "partial", "full"},
             by : SUBSET {"oldschema", "oldconfig", "current"}]
Connection == [since : Time \cup {None}, pos : 0..MaxTime + 1, checked : BOOLEAN,
               batch : SUBSET edits, last : Time \cup {None, Untimed}]

TypeOK ==
  /\ now \in Time /\ edits \subseteq 1..now /\ feed \in Feeds
  /\ meta \in MetaType
  /\ data \in DataType
  /\ pc \in {"migrate", "mark", "check", "seed", "schema", "config", "import", "dump",
             "state", "connect", "read", "toold"}
  /\ dump \in Time
  /\ conn \in Connection
  /\ schemaOK \in BOOLEAN
  /\ faults \in 0..MaxFaults

\* A new database; one that another schema version filled; one seeded to the
\* end, or partly, with another configuration.
Init ==
  /\ now = 1 /\ edits = {} /\ feed \in Feeds
  /\ \/ meta = NoMeta /\ data = NoData
     \/ /\ meta = [schema |-> "old", hash |-> "cur", state |-> "streaming", dumpTime |-> 0, cursor |-> 0]
        /\ data = [has |-> {}, loaded |-> "full", by |-> {"oldschema"}]
     \/ /\ meta = [schema |-> "cur", hash |-> "old", state |-> "streaming", dumpTime |-> 0, cursor |-> 0]
        /\ data = [has |-> {}, loaded |-> "full", by |-> {"oldconfig"}]
     \/ /\ meta = [schema |-> "cur", hash |-> "old", state |-> "seeding", dumpTime |-> None, cursor |-> None]
        /\ data = [has |-> {}, loaded |-> "partial", by |-> {"oldconfig"}]
  /\ pc = "migrate"
  /\ dump = 0
  /\ conn = NoConn
  /\ schemaOK = FALSE
  /\ faults = 0

Fault == faults < MaxFaults /\ faults' = faults + 1

EditsTo(t) == {e \in edits : e <= t}

-------------------------------------------------------------------------
(* The world: a tick, with or without an edit. *)
Tick ==
  /\ now < MaxTime
  /\ now' = now + 1
  /\ edits' \in {edits, edits \cup {now'}}
  /\ UNCHANGED <<feed, dbVars, pc, dump, conn, schemaOK, faults>>

Go(p) == pc' = p /\ UNCHANGED <<now, edits, feed, dump, conn, schemaOK, faults>>

-------------------------------------------------------------------------
(* Startup. *)

\* Faulty variant: the version is written before the flush.
MigrateSchemaMarkFirst ==
  /\ pc \in {"migrate", "mark"}
  /\ IF pc = "mark"
     THEN /\ meta' = [NoMeta EXCEPT !.schema = "cur"] /\ data' = NoData
          /\ Go("check")
     ELSE /\ meta' = [meta EXCEPT !.schema = "cur"] /\ UNCHANGED data
          /\ Go(IF meta.schema = "cur" THEN "check" ELSE "mark")

\* MigrateSchema: FLUSHDB unless the stored version is the current one.
MigrateSchema ==
  /\ pc = "migrate"
  /\ IF meta.schema = "cur"
     THEN UNCHANGED dbVars /\ Go("check")
     ELSE meta' = NoMeta /\ data' = NoData /\ Go("mark")

\* Its second command: HSET meta schema_version.
MarkSchema ==
  /\ pc = "mark"
  /\ meta' = [meta EXCEPT !.schema = "cur"]
  /\ UNCHANGED data
  /\ Go("check")

\* Faulty variant: any version will do.
NewReaderAnyVersion ==
  /\ schemaOK' \in {meta.schema # "none", FALSE}
  /\ UNCHANGED <<now, edits, feed, dbVars, pc, dump, conn, faults>>

\* NewReader, of this process (before MigrateSchema) or of another one that is
\* started; its HGET may fail.
NewReader ==
  /\ schemaOK' \in {meta.schema = "cur", FALSE}
  /\ UNCHANGED <<now, edits, feed, dbVars, pc, dump, conn, faults>>

-------------------------------------------------------------------------
(* Seeding. *)

NeedsSeed == meta.dumpTime = None \/ meta.hash # "cur"

CheckSeed ==
  /\ pc = "check"
  /\ UNCHANGED dbVars
  /\ Go(IF NeedsSeed THEN "seed" ELSE "state")

\* Faulty variant: the watcher's position survives the flush.
SeedFlushKeepsCursor ==
  /\ pc = "seed"
  /\ dump' \in {d \in 0..now : d >= now - DumpAge}
  /\ meta' = [NoMeta EXCEPT !.cursor = meta.cursor]
  /\ data' = NoData
  /\ pc' = "schema"
  /\ UNCHANGED <<now, edits, feed, conn, schemaOK, faults>>

\* Seed: a dump is located and opened, then FLUSHDB.
SeedFlush ==
  /\ pc = "seed"
  /\ dump' \in {d \in 0..now : d >= now - DumpAge}
  /\ meta' = NoMeta
  /\ data' = NoData
  /\ pc' = "schema"
  /\ UNCHANGED <<now, edits, feed, conn, schemaOK, faults>>

\* HSET meta schema_version
SeedSchema ==
  /\ pc = "schema"
  /\ meta' = [meta EXCEPT !.schema = "cur"]
  /\ UNCHANGED data
  /\ Go("config")

\* Faulty variant: dump_time is set with the configuration.
SeedConfigWithDumpTime ==
  /\ pc = "config"
  /\ meta' = [meta EXCEPT !.hash = "cur", !.state = "seeding", !.dumpTime = dump]
  /\ UNCHANGED data
  /\ Go("import")

\* HSET meta config_hash, HSET meta state "seeding"
SeedConfig ==
  /\ pc = "config"
  /\ meta' = [meta EXCEPT !.hash = "cur", !.state = "seeding"]
  /\ UNCHANGED data
  /\ Go("import")

\* Batches of the dump are written, or its end is reached.
Import ==
  /\ pc = "import"
  /\ UNCHANGED meta
  /\ \/ /\ data.loaded = "none"
        /\ \E S \in SUBSET EditsTo(dump) :
             data' = [has |-> S, loaded |-> "partial", by |-> {"current"}]
        /\ Go("import")
     \/ /\ data' = [has |-> EditsTo(dump), loaded |-> "full", by |-> {"current"}]
        /\ Go("dump")

\* HSET meta dump_time, when the import is complete
SeedDumpTime ==
  /\ pc = "dump"
  /\ meta' = [meta EXCEPT !.dumpTime = dump]
  /\ UNCHANGED data
  /\ Go("state")

\* HSET meta state "streaming"
SetStreaming ==
  /\ pc = "state"
  /\ meta' = [meta EXCEPT !.state = "streaming"]
  /\ UNCHANGED data
  /\ Go("connect")

-------------------------------------------------------------------------
(* The watcher's connection. *)

\* Where the stream is asked to start: at the stored event id, or at the dump
\* time; an id without a timestamp gives no since parameter at all.
Since == IF meta.cursor = None THEN meta.dumpTime
         ELSE IF meta.cursor = Untimed THEN None ELSE meta.cursor

Oldest == IF now >= Retention THEN now - Retention + 1 ELSE 0

\* A connection without since starts with the next event, and is not checked.
Connect ==
  /\ pc = "connect"
  /\ conn' = [since |-> Since,
              pos |-> IF Since = None THEN now + 1
                      ELSE IF Since < Oldest THEN Oldest ELSE Since,
              checked |-> Since = None, batch |-> {}, last |-> None]
  /\ pc' = "read"
  /\ UNCHANGED <<now, edits, feed, dbVars, dump, schemaOK, faults>>

\* Faulty variant: extractEvent lets irrelevant events through.
EnqueueAll(id) == [conn EXCEPT !.pos = @ + 1, !.batch = @ \cup {conn.pos}, !.last = id]

\* The event at conn.pos is for the store: it goes to the enqueue buffer, or is
\* dropped when it is no edit.
Enqueue(id) ==
  IF conn.pos \in edits
  THEN [conn EXCEPT !.pos = @ + 1, !.batch = @ \cup {conn.pos}, !.last = id]
  ELSE [conn EXCEPT !.pos = @ + 1]

\* Faulty variant: the distance is measured from the clock.
GapFromNow == ~conn.checked /\ conn.pos - now > Threshold

\* The first event lies more than the threshold after the start asked for.
Gap == ~conn.checked /\ conn.pos - conn.since > Threshold

\* An event whose id has a timestamp: the first one shows whether the stream
\* goes back far enough.
ReadEvent ==
  /\ pc = "read"
  /\ conn.pos <= now
  /\ ~Gap
  /\ conn' = [Enqueue(conn.pos) EXCEPT !.checked = TRUE]
  /\ UNCHANGED <<now, edits, feed, dbVars, pc, dump, schemaOK, faults>>

\* An event whose id has none is not checked.
ReadUntimed ==
  /\ feed = "mixed"
  /\ pc = "read"
  /\ conn.pos <= now
  /\ conn' = Enqueue(Untimed)
  /\ UNCHANGED <<now, edits, feed, dbVars, pc, dump, schemaOK, faults>>

\* Faulty variant: only the event id is deleted.
StreamTooOldCursorOnly ==
  /\ pc = "read"
  /\ conn.pos <= now
  /\ Gap
  /\ meta' = [meta EXCEPT !.cursor = None]
  /\ pc' = "toold"
  /\ UNCHANGED <<now, edits, feed, data, dump, conn, schemaOK, faults>>

\* The first event is too late: HDEL meta dump_time last_event_id.  An error is
\* logged and forgotten.
StreamTooOld ==
  /\ pc = "read"
  /\ conn.pos <= now
  /\ Gap
  /\ \/ meta' = [meta EXCEPT !.dumpTime = None, !.cursor = None] /\ UNCHANGED faults
     \/ UNCHANGED meta /\ Fault
  /\ pc' = "toold"
  /\ UNCHANGED <<now, edits, feed, data, dump, conn, schemaOK>>

\* The buffer is written with the id of its last event.
Flushed == /\ data' = [data EXCEPT !.has = @ \cup conn.batch]
           /\ meta' = IF conn.batch = {} THEN meta ELSE [meta EXCEPT !.cursor = conn.last]

Flush ==
  /\ pc = "read"
  /\ conn.batch # {}
  /\ Flushed
  /\ conn' = [conn EXCEPT !.batch = {}]
  /\ UNCHANGED <<now, edits, feed, pc, dump, schemaOK, faults>>

\* The connection ends, by itself or because a flush failed; the rest of the
\* buffer is written or lost, and the watcher reconnects.
Disconnect ==
  /\ pc = "read"
  /\ Fault
  /\ Flushed \/ UNCHANGED dbVars
  /\ conn' = NoConn
  /\ pc' = "connect"
  /\ UNCHANGED <<now, edits, feed, dump, schemaOK>>

\* ErrStreamTooOld: the enqueue writer flushes what it has when its channel is
\* closed, the goroutines are awaited, and runPrimary starts over.
WatchEnds ==
  /\ pc = "toold"
  /\ Flushed
  /\ conn' = NoConn
  /\ pc' = "check"
  /\ UNCHANGED <<now, edits, feed, dump, schemaOK, faults>>

\* A crash, or a command that fails and makes the process exit.
Crash ==
  /\ Fault
  /\ pc' = "migrate"
  /\ conn' = NoConn
  /\ dump' = 0
  /\ UNCHANGED <<now, edits, feed, dbVars, schemaOK>>

-------------------------------------------------------------------------
Program == \/ MigrateSchema \/ MarkSchema
           \/ CheckSeed \/ SeedFlush \/ SeedSchema \/ SeedConfig \/ Import \/ SeedDumpTime
           \/ SetStreaming \/ Connect \/ ReadEvent \/ StreamTooOld \/ WatchEnds

Next == Tick \/ Program \/ Flush \/ ReadUntimed \/ Disconnect \/ Crash \/ NewReader

Spec == Init /\ [][Next]_vars

\* The program goes on, and the flush ticker fires.  Neither faults nor the
\* clock have to.
FairSpec == Spec /\ WF_vars(Program) /\ WF_vars(Flush)

-------------------------------------------------------------------------
(* Properties. *)

\* The version markers never vouch for data they do not describe: not between
\* the two commands of a migration or a seed, not after a crash between them.
\* And the watcher never adds to data of another version.
MarkersTruthful ==
  /\ pc \in {"connect", "read"} => data.by = {"current"}
  /\ meta.schema = "cur" => "oldschema" \notin data.by
  /\ meta.schema = "cur" /\ meta.hash = "cur" /\ meta.dumpTime # None => "oldconfig" \notin data.by

\* A database that will not be seeded again, and one that calls itself
\* streaming (the replicator then tells replicas to drop their data), holds a
\* complete import.
ImportComplete ==
  /\ meta.schema = "cur" /\ ~NeedsSeed => data.loaded = "full"
  /\ meta.state = "streaming" => data.loaded = "full"

\* The position a restart continues from, if it has one.
Position == IF meta.schema # "cur" \/ NeedsSeed THEN None ELSE Since
Missing == EditsTo(Position) \ data.has

\* Behind the position no stretch of Threshold ticks is missing, if every event
\* id has a timestamp: the gap check caught every longer hole, whatever
\* reconnections, reseeds and crashes.
NoLongHole ==
  feed = "timed" => \A t \in 1..MaxTime : ~ (t..t + Threshold - 1 \subseteq Missing)

\* A stream found too old leads to a full reseed: the event ids of the old data
\* never become the position of the new data.
CursorOfThisSeed ==
  meta.schema = "cur" /\ ~NeedsSeed /\ meta.cursor >= 0 => meta.cursor >= meta.dumpTime

\* A reader that answers lookups never does so from data of another schema,
\* although it looks at the version only once: not after a crash between the
\* commands of a migration or a reseed either.  And a reader made while the primary
\* is in neither finds the version there (one made in between, or whose HGET fails,
\* answers 503 for as long as it lives).
ReaderVersion ==
  /\ schemaOK => "oldschema" \notin data.by
  /\ pc \notin {"migrate", "mark", "schema"} => meta.schema = "cur"

\* The import that runs is of a dump that EventStreams does not go back to.
DumpTooOld == pc = "import" /\ Oldest - dump > Threshold

\* Once the clock stands, the store has every edit of a feed with timestamps,
\* but for the holes that the threshold lets through: no failure is for ever, and
\* reseeding comes to an end unless it is always from a dump that is too old.
CatchesUp ==
  feed = "timed" => \/ <>[](\A t \in 1..MaxTime : ~ (t..t + Threshold - 1 \subseteq edits \ data.has))
                    \/ []<>DumpTooOld
=========================================================================
