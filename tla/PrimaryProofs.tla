------------------------- MODULE PrimaryProofs --------------------------
(***************************************************************************)
(* Proofs about Primary for any retention, dump age and threshold: however *)
(* often the primary crashes, reseeds or reconnects, the markers in its    *)
(* meta hash are never ahead of its data.  StepInv says what each step of  *)
(* the program has established, DataInv what a restart may rely on,        *)
(* CursorInv relates the position of the stream to the dump, and HoleInv   *)
(* what lies behind the position to what is stored.                        *)
(***************************************************************************)
EXTENDS Primary, TLAPS

\* A complete import of the current version, and the meta hash before and
\* during an import.
Whole == data.loaded = "full" /\ data.by = {"current"}
Versioned == [schema |-> "cur", hash |-> "none", state |-> "none", dumpTime |-> None, cursor |-> None]
Seeding == [schema |-> "cur", hash |-> "cur", state |-> "seeding", dumpTime |-> None, cursor |-> None]

\* What holds at each step of the program.
StepInv ==
  /\ pc \in {"mark", "schema"} => meta = NoMeta /\ data = NoData
  /\ pc = "config" => meta = Versioned /\ data = NoData
  /\ pc \in {"import", "dump"} => meta = Seeding
  /\ pc = "import" => data.by \subseteq {"current"}
  /\ pc = "dump" => Whole
  /\ pc \in {"check", "seed"} => meta.schema = "cur"
  /\ pc \in {"state", "connect", "read", "toold"} => meta.schema = "cur" /\ meta.hash = "cur" /\ Whole
  /\ pc \in {"state", "connect", "read"} => meta.dumpTime # None

\* What holds at every step, and so after a crash.
DataInv ==
  /\ meta.schema = "cur" => "oldschema" \notin data.by
  /\ meta.schema = "cur" /\ ~NeedsSeed => Whole
  /\ meta.state = "streaming" => data.loaded = "full"

\* The stream starts behind the dump, and so do the ids read from it.
CursorInv ==
  /\ dump <= now /\ meta.dumpTime <= now
  /\ CursorOfThisSeed
  /\ pc \in {"read", "toold"} /\ meta.dumpTime # None =>
       /\ conn.pos >= meta.dumpTime
       /\ conn.last >= 0 => conn.last >= meta.dumpTime

-------------------------------------------------------------------------
(* Type correctness. *)

\* Time and the type of an event id.
LEMMA TimeFacts == Time \subseteq Int /\ 0 \in Time /\ 1 \in Time
  BY PrimaryBounds DEF Time

\* Reading an event keeps the connection in its type: the position stays
\* within the events there are, and only edits are buffered.
LEMMA EnqueueType ==
  ASSUME TypeOK, conn.pos <= now, NEW id \in Time \cup {Untimed}
  PROVE  /\ Enqueue(id) \in Connection
         /\ [Enqueue(id) EXCEPT !.checked = TRUE] \in Connection
<1>1. conn \in Connection /\ conn.pos \in Int /\ conn.pos + 1 \in 0..MaxTime + 1
  BY PrimaryBounds DEF TypeOK, Connection, Time
<1>2. Enqueue(id) \in Connection
  <2>1. CASE conn.pos \in edits
    BY <1>1, <2>1 DEF Enqueue, Connection
  <2>2. CASE conn.pos \notin edits
    BY <1>1, <2>2 DEF Enqueue, Connection
  <2> QED BY <2>1, <2>2
<1> QED BY <1>2 DEF Connection

\* The variables of the database after the buffer was written.
LEMMA FlushedType ==
  ASSUME TypeOK, Flushed, UNCHANGED <<now, edits>>
  PROVE  (meta \in MetaType /\ data \in DataType)'
<1>1. data' \in DataType'
  BY DEF TypeOK, Flushed, DataType, Connection
<1>2. meta' \in MetaType
  <2>1. CASE conn.batch = {}
    BY <2>1 DEF TypeOK, Flushed, MetaType
  <2>2. CASE conn.batch # {}
    BY <2>2 DEF TypeOK, Flushed, MetaType, Connection
  <2> QED BY <2>1, <2>2
<1> QED BY <1>1, <1>2 DEF MetaType, Time

\* The type invariant is inductive: every step of the program, the world and
\* a crash.
LEMMA TypeInductive == (Init => TypeOK) /\ (TypeOK /\ [Next]_vars => TypeOK')
<1> USE PrimaryBounds, TimeAssumption DEF Time, None, Untimed
<1>1. Init => TypeOK
  <2>1. NoMeta \in MetaType /\ NoConn \in Connection /\ NoData \in DataType
    BY DEF NoMeta, NoConn, NoData, MetaType, Connection, DataType
  <2> SUFFICES ASSUME Init PROVE TypeOK
    OBVIOUS
  <2>2. meta \in MetaType
    BY <2>1 DEF Init, NoMeta, MetaType
  <2>3. data \in DataType
    BY <2>1 DEF Init, NoData, DataType
  <2>4. conn \in Connection /\ now \in Time /\ edits \subseteq 1..now
    BY <2>1 DEF Init
  <2>5. schemaOK \in BOOLEAN
    BY Zenon DEF Init
  <2>6. pc = "migrate" /\ dump \in Time /\ faults \in 0..MaxFaults /\ feed \in Feeds
    BY DEF Init
  <2> QED BY <2>2, <2>3, <2>4, <2>5, <2>6, Zenon DEF TypeOK
<1>2. ASSUME TypeOK, [Next]_vars PROVE TypeOK'
  <2> USE <1>2 DEF TypeOK
  <2>0. /\ NoMeta \in MetaType /\ NoConn \in Connection /\ NoData \in DataType
        /\ now \in Int /\ now \in Time /\ edits \subseteq Time
    BY DEF NoMeta, NoConn, NoData, MetaType, Connection, DataType
  <2>1. CASE Tick
    <3>1. now' \in Time /\ edits' \subseteq 1..now' /\ edits \subseteq edits'
      BY <2>1 DEF Tick
    <3>2. data \in DataType' /\ conn \in Connection'
      BY <3>1 DEF DataType, Connection
    <3> QED BY <2>1, <3>1, <3>2 DEF Tick, dbVars, MetaType
  <2>2. CASE MigrateSchema
    BY <2>0, <2>2 DEF MigrateSchema, Go, dbVars, MetaType, DataType, Connection
  <2>3. CASE MarkSchema
    BY <2>3 DEF MarkSchema, Go, MetaType, DataType, Connection
  <2>4. CASE CheckSeed
    BY <2>4 DEF CheckSeed, Go, dbVars, MetaType, DataType, Connection
  <2>5. CASE SeedFlush
    BY <2>0, <2>5 DEF SeedFlush, MetaType, DataType, Connection
  <2>6. CASE SeedSchema
    BY <2>6 DEF SeedSchema, Go, MetaType, DataType, Connection
  <2>7. CASE SeedConfig
    BY <2>7 DEF SeedConfig, Go, MetaType, DataType, Connection
  <2>8. CASE Import
    <3>1. /\ EditsTo(dump) \subseteq edits
          /\ pc' \in {"import", "dump"}
          /\ UNCHANGED <<now, edits, feed, meta, dump, conn, schemaOK, faults>>
      BY <2>8 DEF Import, Go, EditsTo
    <3>2. data' \in DataType
      BY <2>8, <3>1 DEF Import, DataType
    <3> QED BY <3>1, <3>2 DEF MetaType, DataType, Connection
  <2>9. CASE SeedDumpTime
    BY <2>9 DEF SeedDumpTime, Go, MetaType, DataType, Connection
  <2>10. CASE SetStreaming
    BY <2>10 DEF SetStreaming, Go, MetaType, DataType, Connection
  <2>11. CASE Connect
    <3>1. Since \in Time \cup {None} /\ Oldest \in 0..MaxTime + 1
      BY DEF Since, Oldest, MetaType
    <3>2. conn' \in Connection
      BY <2>11, <3>1 DEF Connect, Connection
    <3> QED BY <2>11, <3>2 DEF Connect, dbVars, MetaType, DataType, Connection
  <2>12. CASE ReadEvent
    <3>1. conn.pos \in Time
      BY <2>12 DEF ReadEvent, Connection
    <3>2. conn' \in Connection
      BY <2>12, <3>1, EnqueueType DEF ReadEvent
    <3> QED BY <2>12, <3>2 DEF ReadEvent, dbVars, MetaType, DataType, Connection
  <2>13. CASE ReadUntimed
    <3>1. conn' \in Connection
      BY <2>13, EnqueueType DEF ReadUntimed
    <3> QED BY <2>13, <3>1 DEF ReadUntimed, dbVars, MetaType, DataType, Connection
  <2>14. CASE StreamTooOld
    <3>1. meta' \in MetaType /\ faults' \in 0..MaxFaults
      <4>1. CASE meta' = [meta EXCEPT !.dumpTime = None, !.cursor = None] /\ UNCHANGED faults
        BY <4>1 DEF MetaType
      <4>2. CASE UNCHANGED meta /\ Fault
        BY <4>2 DEF Fault, MetaType
      <4> QED BY <2>14, <4>1, <4>2 DEF StreamTooOld
    <3>2. pc' = "toold" /\ UNCHANGED <<now, edits, feed, data, dump, conn, schemaOK>>
      BY <2>14 DEF StreamTooOld
    <3> QED BY <3>1, <3>2 DEF MetaType, DataType, Connection
  <2>15. CASE Flush
    <3>1. (meta \in MetaType /\ data \in DataType)'
      BY <2>15, FlushedType DEF Flush
    <3>2. conn' \in Connection
      BY <2>15 DEF Flush, Connection
    <3> QED BY <2>15, <3>1, <3>2 DEF Flush, Connection
  <2>16. CASE Disconnect
    <3>1. (meta \in MetaType /\ data \in DataType)'
      <4>1. CASE Flushed
        BY <2>16, <4>1, FlushedType DEF Disconnect
      <4>2. CASE UNCHANGED dbVars
        BY <2>16, <4>2 DEF Disconnect, dbVars, MetaType, DataType
      <4> QED BY <2>16, <4>1, <4>2 DEF Disconnect
    <3> QED BY <2>0, <2>16, <3>1 DEF Disconnect, Fault, Connection
  <2>17. CASE WatchEnds
    <3>1. (meta \in MetaType /\ data \in DataType)'
      BY <2>17, FlushedType DEF WatchEnds
    <3> QED BY <2>0, <2>17, <3>1 DEF WatchEnds, Connection
  <2>18. CASE Crash
    BY <2>0, <2>18 DEF Crash, Fault, dbVars, MetaType, DataType, Connection
  <2>19. CASE UNCHANGED vars
    BY <2>19 DEF vars, dbVars, MetaType, DataType, Connection
  <2>20. CASE NewReader
    <3>1. schemaOK' \in BOOLEAN
      BY <2>20, Zenon DEF NewReader
    <3>2. UNCHANGED <<now, edits, feed, dbVars, pc, dump, conn, faults>>
      BY <2>20 DEF NewReader
    <3> QED BY <3>1, <3>2 DEF dbVars, MetaType, DataType, Connection
  <2> QED BY <2>1, <2>2, <2>3, <2>4, <2>5, <2>6, <2>7, <2>8, <2>9, <2>10, <2>11, <2>12, <2>13,
             <2>14, <2>15, <2>16, <2>17, <2>18, <2>19, <2>20 DEF Next, Program
<1> QED BY <1>1, <1>2

\* Whatever happens to the primary, its variables keep their types: event
\* ids and dump times are times, only edits that were made are stored.
THEOREM PrimaryTypeOK == Spec => []TypeOK
  BY TypeInductive, PTL DEF Spec

-------------------------------------------------------------------------
(* The markers and the data. *)

DataStepInv == StepInv /\ DataInv

\* The markers stay behind the data: an import that is complete before
\* dump_time is written, a flush that takes every marker with it.
LEMMA DataStepInductive ==
  /\ Init => DataStepInv
  /\ TypeOK /\ DataStepInv /\ [Next]_vars => DataStepInv'
<1> USE DEF DataStepInv, StepInv, DataInv, NeedsSeed, Whole
<1>1. Init => DataStepInv
  BY DEF Init, NoMeta, NoData
<1>2. ASSUME TypeOK, DataStepInv, [Next]_vars PROVE DataStepInv'
  <2> USE <1>2
  <2>0. meta \in MetaType /\ data \in DataType
    BY DEF TypeOK
  <2>1. CASE Tick
    BY <2>1 DEF Tick, dbVars
  <2>2. CASE MigrateSchema
    BY <2>0, <2>2 DEF MigrateSchema, Go, dbVars, NoMeta, NoData
  <2>3. CASE MarkSchema
    BY <2>0, <2>3 DEF MarkSchema, Go, NoMeta, NoData
  <2>4. CASE CheckSeed
    BY <2>0, <2>4 DEF CheckSeed, Go, dbVars, MetaType
  <2>5. CASE SeedFlush
    BY <2>0, <2>5 DEF SeedFlush, NoMeta, NoData
  <2>6. CASE SeedSchema
    BY <2>0, <2>6 DEF SeedSchema, Go, NoMeta, NoData, Versioned
  <2>7. CASE SeedConfig
    <3>1. meta = Versioned /\ data = NoData
      BY <2>7 DEF SeedConfig
    <3>2. meta' = Seeding
      BY <2>7, <3>1 DEF SeedConfig, Versioned, Seeding
    <3>3. pc' = "import" /\ UNCHANGED data
      BY <2>7 DEF SeedConfig, Go
    <3> QED BY <3>1, <3>2, <3>3 DEF Seeding, NoData
  <2>8. CASE Import
    BY <2>0, <2>8 DEF Import, Go, NoMeta, Seeding
  <2>9. CASE SeedDumpTime
    <3>1. meta' = [Seeding EXCEPT !.dumpTime = dump] /\ UNCHANGED data /\ pc' = "state" /\ Whole
      BY <2>9 DEF SeedDumpTime, Go
    <3>2. dump # None
      BY DEF TypeOK, Time, None
    <3> QED BY <3>1, <3>2 DEF Seeding, NoMeta
  <2>10. CASE SetStreaming
    BY <2>0, <2>10 DEF SetStreaming, Go, MetaType
  <2>11. CASE Connect
    BY <2>11 DEF Connect, dbVars
  <2>12. CASE ReadEvent
    BY <2>12 DEF ReadEvent, dbVars
  <2>13. CASE ReadUntimed
    BY <2>13 DEF ReadUntimed, dbVars
  <2>14. CASE StreamTooOld
    BY <2>0, <2>14 DEF StreamTooOld, MetaType
  <2>15. ASSUME Flushed PROVE UNCHANGED <<meta.schema, meta.hash, meta.state, meta.dumpTime,
                                          data.loaded, data.by>>
    BY <2>0, <2>15 DEF Flushed, MetaType, DataType
  <2>16. CASE Flush
    BY <2>15, <2>16 DEF Flush
  <2>17. CASE Disconnect
    BY <2>15, <2>17 DEF Disconnect, dbVars
  <2>18. CASE WatchEnds
    BY <2>15, <2>18 DEF WatchEnds
  <2>19. CASE Crash
    BY <2>19 DEF Crash, dbVars
  <2>20. CASE UNCHANGED vars
    BY <2>20 DEF vars, dbVars
  <2>21. CASE NewReader
    BY <2>21 DEF NewReader, dbVars
  <2> QED BY <2>1, <2>2, <2>3, <2>4, <2>5, <2>6, <2>7, <2>8, <2>9, <2>10, <2>11, <2>12, <2>13,
             <2>14, <2>16, <2>17, <2>18, <2>19, <2>20, <2>21 DEF Next, Program
<1> QED BY <1>1, <1>2

\* The version markers never vouch for data they do not describe, and the
\* watcher never adds to data of another version.
THEOREM PrimaryMarkers == Spec => []MarkersTruthful
<1>1. DataStepInv => MarkersTruthful
  BY DEF DataStepInv, StepInv, DataInv, MarkersTruthful, NeedsSeed, Whole
<1> QED BY <1>1, TypeInductive, DataStepInductive, PTL DEF Spec

\* A primary that will not seed again, or that tells replicas it is streaming,
\* holds a complete import.
THEOREM PrimaryImport == Spec => []ImportComplete
<1>1. DataStepInv => ImportComplete
  BY DEF DataStepInv, DataInv, ImportComplete, Whole
<1> QED BY <1>1, TypeInductive, DataStepInductive, PTL DEF Spec

\* What a reader that answers saw is still true of the data.
ReaderInv == schemaOK => "oldschema" \notin data.by

\* No step brings the data of another schema back: what a step writes is of the
\* current version.
LEMMA ReaderStep == ASSUME TypeOK, DataStepInv, ReaderInv, [Next]_vars PROVE ReaderInv'
<1>0. data \in DataType
  BY DEF TypeOK
<1>1. CASE NewReader
  <2>1. (schemaOK' => meta.schema = "cur") /\ UNCHANGED data
    BY <1>1 DEF NewReader, dbVars
  <2> QED BY <2>1 DEF ReaderInv, DataStepInv, DataInv
<1>2. ASSUME ~NewReader
      PROVE  UNCHANGED schemaOK /\ ("oldschema" \in data'.by => "oldschema" \in data.by)
  <2>1. ASSUME Flushed PROVE data'.by = data.by
    BY <1>0, <2>1 DEF Flushed, DataType
  <2>2. CASE MigrateSchema \/ MarkSchema \/ CheckSeed \/ SeedFlush \/ SeedSchema \/ SeedConfig
             \/ SeedDumpTime \/ SetStreaming
    BY <2>2 DEF MigrateSchema, MarkSchema, CheckSeed, SeedFlush, SeedSchema, SeedConfig,
                SeedDumpTime, SetStreaming, Go, dbVars, NoData
  <2>3. CASE Import
    BY <2>3 DEF Import, Go
  <2>4. CASE Tick \/ Connect \/ ReadEvent \/ ReadUntimed \/ StreamTooOld \/ Crash \/ UNCHANGED vars
    BY <2>4 DEF Tick, Connect, ReadEvent, ReadUntimed, StreamTooOld, Crash, vars, dbVars
  <2>5. CASE Flush \/ Disconnect \/ WatchEnds
    BY <2>1, <2>5 DEF Flush, Disconnect, WatchEnds, dbVars
  <2> QED BY <1>2, <2>2, <2>3, <2>4, <2>5 DEF Next, Program
<1> QED BY <1>1, <1>2 DEF ReaderInv

\* A reader that answers lookups has the data of its schema before it, through
\* every migration, reseed and crash, and a reader made outside of them finds its
\* version there.
THEOREM PrimaryReaders == Spec => []ReaderVersion
<1>1. Init => ReaderInv
  BY DEF Init, ReaderInv
<1>2. TypeOK /\ DataStepInv /\ ReaderInv => ReaderVersion
  BY DEF TypeOK, DataStepInv, StepInv, ReaderInv, ReaderVersion, Versioned, Seeding
<1>3. TypeOK /\ DataStepInv /\ ReaderInv /\ [Next]_vars => ReaderInv'
  BY ReaderStep
<1> QED BY <1>1, <1>2, <1>3, TypeInductive, DataStepInductive, PTL DEF Spec

-------------------------------------------------------------------------
(* The position and the dump. *)

\* A connection starts behind the dump time, and no event id is older than the
\* start of its connection.
LEMMA CursorInductive ==
  /\ Init => CursorInv
  /\ TypeOK /\ DataStepInv /\ CursorInv /\ [Next]_vars => CursorInv'
<1> USE DEF CursorInv, CursorOfThisSeed, NeedsSeed, None, Untimed
<1>1. Init => CursorInv
  BY DEF Init, NoMeta
<1>2. ASSUME TypeOK, DataStepInv, CursorInv, [Next]_vars PROVE CursorInv'
  <2> USE <1>2
  <2>0. /\ meta \in MetaType /\ data \in DataType /\ conn \in Connection
        /\ now \in Nat /\ dump \in Int /\ conn.pos \in Int
        /\ meta.dumpTime \in Int /\ meta.cursor \in Int /\ conn.last \in Int
    BY PrimaryBounds DEF TypeOK, MetaType, Connection, Time
  <2>1. CASE Tick
    BY <2>0, <2>1 DEF Tick, dbVars
  <2>2. CASE MigrateSchema
    <3>1. UNCHANGED meta \/ meta' = NoMeta
      BY <2>2 DEF MigrateSchema, dbVars
    <3>2. pc' \in {"check", "mark"} /\ UNCHANGED <<now, dump>>
      BY <2>2 DEF MigrateSchema, Go
    <3> QED BY <2>0, <3>1, <3>2 DEF NoMeta
  <2>3. CASE MarkSchema
    BY <2>0, <2>3 DEF MarkSchema, Go, DataStepInv, StepInv, NoMeta
  <2>4. CASE CheckSeed
    BY <2>0, <2>4 DEF CheckSeed, Go, dbVars
  <2>5. CASE SeedFlush
    BY <2>0, <2>5 DEF SeedFlush, NoMeta
  <2>6. CASE SeedSchema
    BY <2>0, <2>6 DEF SeedSchema, Go, DataStepInv, StepInv, NoMeta
  <2>7. CASE SeedConfig
    BY <2>0, <2>7 DEF SeedConfig, Go, DataStepInv, StepInv, Versioned
  <2>8. CASE Import
    BY <2>0, <2>8 DEF Import, Go
  <2>9. CASE SeedDumpTime
    <3>1. meta = Seeding /\ meta' = [meta EXCEPT !.dumpTime = dump] /\ pc' = "state" /\ UNCHANGED <<now, dump>>
      BY <2>9 DEF SeedDumpTime, Go, DataStepInv, StepInv
    <3>2. meta'.cursor = None /\ meta'.dumpTime = dump
      BY <3>1 DEF Seeding
    <3> QED BY <2>0, <3>1, <3>2
  <2>10. CASE SetStreaming
    BY <2>0, <2>10 DEF SetStreaming, Go, MetaType
  <2>11. CASE Connect
    <3>1. meta.dumpTime # None /\ meta.schema = "cur" /\ meta.hash = "cur"
      BY <2>11 DEF Connect, DataStepInv, StepInv
    <3>2. Since # None => Since >= meta.dumpTime
      BY <2>0, <3>1 DEF Since, MetaType, Time
    <3>3. conn'.pos >= meta.dumpTime /\ conn'.last = None
      <4>1. Since \in Int /\ Oldest \in Int
        BY <2>0, TimeAssumption DEF Since, Oldest
      <4> QED BY <2>0, <2>11, <3>2, <4>1 DEF Connect
    <3> QED BY <2>0, <2>11, <3>3 DEF Connect, dbVars
  <2>12. CASE ReadEvent
    <3>1. conn'.pos = conn.pos + 1 /\ conn'.last \in {conn.last, conn.pos}
      BY <2>0, <2>12 DEF ReadEvent, Enqueue, Connection
    <3> QED BY <2>0, <2>12, <3>1 DEF ReadEvent, dbVars
  <2>13. CASE ReadUntimed
    <3>1. conn'.pos = conn.pos + 1 /\ conn'.last \in {conn.last, Untimed}
      BY <2>0, <2>13 DEF ReadUntimed, Enqueue, Connection
    <3> QED BY <2>0, <2>13, <3>1 DEF ReadUntimed, dbVars
  <2>14. CASE StreamTooOld
    <3>1. \/ UNCHANGED meta
          \/ meta'.dumpTime = None /\ meta'.cursor = None
      BY <2>0, <2>14 DEF StreamTooOld, MetaType
    <3>2. pc = "read" /\ pc' = "toold" /\ UNCHANGED <<now, dump, conn>>
      BY <2>14 DEF StreamTooOld
    <3> QED BY <2>0, <3>1, <3>2
  <2>15. ASSUME Flushed PROVE /\ UNCHANGED <<meta.schema, meta.hash, meta.dumpTime>>
                              /\ meta'.cursor \in {meta.cursor, conn.last}
    BY <2>0, <2>15 DEF Flushed, MetaType
  <2>16. CASE Flush
    <3>1. UNCHANGED <<conn.pos, conn.last>>
      BY <2>0, <2>16 DEF Flush, Connection
    <3> QED BY <2>0, <2>15, <2>16, <3>1 DEF Flush
  <2>17. CASE Disconnect
    BY <2>0, <2>15, <2>17 DEF Disconnect, dbVars
  <2>18. CASE WatchEnds
    BY <2>0, <2>15, <2>18 DEF WatchEnds
  <2>19. CASE Crash
    BY <2>0, <2>19, PrimaryBounds DEF Crash, dbVars, TypeOK, Time
  <2>20. CASE UNCHANGED vars
    BY <2>20 DEF vars, dbVars
  <2>21. CASE NewReader
    BY <2>21 DEF NewReader, dbVars
  <2> QED BY <2>1, <2>2, <2>3, <2>4, <2>5, <2>6, <2>7, <2>8, <2>9, <2>10, <2>11, <2>12, <2>13,
             <2>14, <2>16, <2>17, <2>18, <2>19, <2>20, <2>21 DEF Next, Program
<1> QED BY <1>1, <1>2

\* A stream found too old leads to a full reseed: an event id of the data
\* before the flush never becomes the position of the data after it.
THEOREM PrimaryCursor == Spec => []CursorOfThisSeed
<1>1. CursorInv => CursorOfThisSeed
  BY DEF CursorInv
<1> QED BY <1>1, TypeInductive, DataStepInductive, CursorInductive, PTL DEF Spec

-------------------------------------------------------------------------
(* Holes. *)

NoRun(S) == \A t \in 1..MaxTime : ~ (t..t + Threshold - 1 \subseteq S)

\* A restart continues from the stored position without a new seed.
Valid == meta.schema = "cur" /\ ~NeedsSeed

\* What the connection has passed over and not taken.
Passed == {e \in edits : e < conn.pos} \ (data.has \cup conn.batch)

\* The position is the tick of an edit that is stored, or the dump; behind it
\* there is no long run of missing edits.  An open connection that passed the
\* check has none behind its next event either; one that did not has not
\* taken any event.
HoleInv ==
  /\ meta.cursor # Untimed /\ meta.cursor <= now
  /\ conn.last # Untimed /\ conn.last <= now
  /\ pc = "dump" => data.has = EditsTo(dump)
  /\ Valid => NoRun(EditsTo(Since) \ data.has) /\ Since \notin edits \ data.has
  /\ pc = "read" => /\ conn.pos <= now + 1
                    /\ conn.checked => NoRun(Passed)
                    /\ ~conn.checked => conn.batch = {} /\ conn.since = Since
                    /\ conn.batch # {} => conn.last \in conn.batch /\ conn.last < conn.pos
  /\ pc = "toold" => conn.batch = {}

\* A run of missing edits does not vanish when more edits count as missing.
LEMMA NoRunSubset == ASSUME NEW S, NEW T, S \subseteq T, NoRun(T) PROVE NoRun(S)
  BY DEF NoRun

\* The gap check: a connection whose first event lies within the threshold
\* adds no long run to what was missing behind its start.
LEMMA GapBounds ==
  ASSUME NEW S, NEW T, NEW s \in Int, NEW p \in Int, p - s <= Threshold,
         NoRun(S), s \notin T,
         \A e \in T : e \in Int /\ e < p,
         \A e \in T : e <= s => e \in S
  PROVE  NoRun(T)
<1> SUFFICES ASSUME NEW t \in 1..MaxTime, t..t + Threshold - 1 \subseteq T PROVE FALSE
  BY DEF NoRun
<1> DEFINE last == t + Threshold - 1
<1>1. t \in Int /\ Threshold \in Int /\ Threshold > 0 /\ last \in Int /\ t <= last /\ last = t + Threshold - 1
  BY PrimaryBounds, TimeAssumption
<1> HIDE DEF last
<1>2. t..last \subseteq T
  BY DEF last
<1>3. t \in T /\ last \in T
  BY <1>1, <1>2
<1>4. CASE s < t
  BY <1>1, <1>3, <1>4
<1>5. CASE t <= s /\ s <= last
  BY <1>1, <1>2, <1>5
<1>6. CASE last < s
  <2>1. t..last \subseteq S
    BY <1>1, <1>2, <1>6
  <2> QED BY <2>1 DEF NoRun, last
<1> QED BY <1>1, <1>4, <1>5, <1>6

\* HoleInv is kept by every step when each event id has a timestamp.
LEMMA HoleInductive ==
  /\ Init => HoleInv
  /\ feed = "timed" /\ TypeOK /\ DataStepInv /\ CursorInv /\ HoleInv /\ [Next]_vars => HoleInv'
<1> USE DEF None, Untimed
<1>1. Init => HoleInv
  BY DEF Init, HoleInv, Valid, NeedsSeed, NoMeta, NoConn
<1>2. ASSUME feed = "timed", TypeOK, DataStepInv, CursorInv, HoleInv, [Next]_vars PROVE HoleInv'
  <2> USE <1>2
  <2>0. /\ meta \in MetaType /\ data \in DataType /\ conn \in Connection
        /\ now \in Nat /\ dump \in Nat /\ conn.pos \in Nat /\ dump <= now
        /\ meta.dumpTime \in Int /\ meta.cursor \in Int /\ conn.last \in Int
        /\ edits \subseteq Nat /\ \A e \in edits : e > 0 /\ e <= now
    BY PrimaryBounds DEF TypeOK, MetaType, Connection, Time, CursorInv
  <2>01. Valid => Since \in Int /\ Since <= now /\ Since >= 0
    BY <2>0 DEF Valid, NeedsSeed, Since, CursorInv, HoleInv, MetaType, Time
  <2>02. pc \in {"read", "connect", "state"} => Valid
    BY DEF DataStepInv, StepInv, Valid, NeedsSeed
  <2>03. ASSUME ~Valid', meta'.cursor # Untimed, meta'.cursor <= now', conn'.last # Untimed,
                conn'.last <= now', pc' \notin {"dump", "read", "toold"}
         PROVE  HoleInv'
    BY <2>03 DEF HoleInv
  \* Steps that leave the database, the connection and the clock alone.
  <2>04. ASSUME UNCHANGED <<now, edits, data, conn, dump>>,
                UNCHANGED <<meta.schema, meta.hash, meta.dumpTime, meta.cursor>>,
                pc' \notin {"dump", "read", "toold"}
         PROVE  HoleInv'
    BY <2>04 DEF HoleInv, Valid, NeedsSeed, Since, EditsTo
  <2>1. CASE Tick
    <3>1. /\ UNCHANGED <<meta, data, pc, dump, conn>> /\ now' = now + 1
          /\ edits \subseteq edits' /\ edits' \subseteq edits \cup {now + 1}
      BY <2>1 DEF Tick, dbVars
    <3>2. ASSUME NEW t \in Int, t <= now PROVE {e \in edits' : e <= t} = {e \in edits : e <= t}
      <4>1. ASSUME NEW e \in edits', e <= t PROVE e \in edits
        BY <2>0, <3>1, <3>2, <4>1
      <4> QED BY <3>1, <4>1
    <3>3. EditsTo(dump)' = EditsTo(dump)
      BY <2>0, <3>1, <3>2 DEF EditsTo
    <3>4. Valid' <=> Valid
      BY <3>1 DEF Valid, NeedsSeed
    <3>5. Since' = Since
      BY <3>1 DEF Since
    <3>6. Valid => EditsTo(Since)' = EditsTo(Since) /\ Since \notin (edits' \ edits)
      BY <2>0, <2>01, <3>1, <3>2, <3>5 DEF EditsTo
    <3>7. ASSUME conn.pos <= now + 1 PROVE Passed' \subseteq Passed
      <4>1. ASSUME NEW e \in edits', e < conn.pos PROVE e \in edits
        BY <2>0, <3>1, <3>7, <4>1
      <4> QED BY <3>1, <4>1 DEF Passed
    <3>8. ASSUME conn.pos <= now + 1, NoRun(Passed) PROVE NoRun(Passed)'
      BY <3>7, <3>8, NoRunSubset DEF NoRun
    <3>9. Valid => NoRun(EditsTo(Since) \ data.has)' /\ (Since \notin edits \ data.has)'
      BY <3>1, <3>5, <3>6 DEF HoleInv, NoRun
    <3> QED BY <2>0, <3>1, <3>3, <3>4, <3>5, <3>8, <3>9 DEF HoleInv
  <2>2. CASE MigrateSchema
    <3>1. CASE UNCHANGED dbVars /\ Go("check")
      BY <2>04, <3>1 DEF dbVars, Go
    <3>2. CASE meta' = NoMeta /\ data' = NoData /\ Go("mark")
      BY <2>0, <2>03, <3>2 DEF Go, NoMeta, Valid, HoleInv
    <3> QED BY <2>2, <3>1, <3>2 DEF MigrateSchema
  <2>3. CASE MarkSchema
    <3>1. meta = NoMeta /\ meta' = [meta EXCEPT !.schema = "cur"] /\ pc' = "check"
          /\ UNCHANGED <<now, conn>>
      BY <2>3 DEF MarkSchema, Go, DataStepInv, StepInv
    <3>2. meta'.dumpTime = None /\ meta'.cursor = None
      BY <3>1 DEF NoMeta
    <3> QED BY <2>0, <2>03, <3>1, <3>2 DEF Valid, NeedsSeed, HoleInv
  <2>4. CASE CheckSeed
    BY <2>04, <2>4 DEF CheckSeed, Go, dbVars
  <2>5. CASE SeedFlush
    BY <2>0, <2>03, <2>5 DEF SeedFlush, NoMeta, Valid, HoleInv
  <2>6. CASE SeedSchema
    <3>1. meta = NoMeta /\ meta' = [meta EXCEPT !.schema = "cur"] /\ pc' = "config"
          /\ UNCHANGED <<now, conn>>
      BY <2>6 DEF SeedSchema, Go, DataStepInv, StepInv
    <3>2. meta'.dumpTime = None /\ meta'.cursor = None
      BY <3>1 DEF NoMeta
    <3> QED BY <2>0, <2>03, <3>1, <3>2 DEF Valid, NeedsSeed, HoleInv
  <2>7. CASE SeedConfig
    <3>1. meta = Versioned /\ meta' = [meta EXCEPT !.hash = "cur", !.state = "seeding"]
          /\ pc' = "import" /\ UNCHANGED <<now, conn>>
      BY <2>7 DEF SeedConfig, Go, DataStepInv, StepInv
    <3>2. meta'.dumpTime = None /\ meta'.cursor = None
      BY <3>1 DEF Versioned
    <3> QED BY <2>0, <2>03, <3>1, <3>2 DEF Valid, NeedsSeed, HoleInv
  <2>8. CASE Import
    <3>1. /\ meta' = Seeding /\ UNCHANGED <<now, edits, dump, conn>>
          /\ pc' = "import" \/ (pc' = "dump" /\ data'.has = EditsTo(dump))
      BY <2>8 DEF Import, Go, DataStepInv, StepInv
    <3>2. meta'.dumpTime = None /\ meta'.cursor = None
      BY <3>1 DEF Seeding
    <3>3. EditsTo(dump)' = EditsTo(dump)
      BY <3>1 DEF EditsTo
    <3> QED BY <2>0, <3>1, <3>2, <3>3 DEF Valid, NeedsSeed, HoleInv
  <2>9. CASE SeedDumpTime
    <3>1. /\ meta = Seeding /\ meta' = [meta EXCEPT !.dumpTime = dump] /\ pc' = "state"
          /\ data.has = EditsTo(dump) /\ UNCHANGED <<now, edits, data, dump, conn>>
      BY <2>9 DEF SeedDumpTime, Go, DataStepInv, StepInv, HoleInv
    <3>2. meta'.cursor = None /\ meta'.dumpTime = dump
      BY <3>1 DEF Seeding
    <3>3. Since' = dump
      BY <3>2 DEF Since
    <3>4. EditsTo(Since)' \ data'.has = {} /\ Since' \notin edits' \ data'.has
      BY <2>0, <3>1, <3>3 DEF EditsTo
    <3>5. NoRun({})
      BY PrimaryBounds, TimeAssumption DEF NoRun
    <3> QED BY <2>0, <3>1, <3>2, <3>4, <3>5 DEF HoleInv
  <2>10. CASE SetStreaming
    <3>1. UNCHANGED <<meta.schema, meta.hash, meta.dumpTime, meta.cursor>>
      BY <2>0, <2>10 DEF SetStreaming, MetaType
    <3> QED BY <2>04, <2>10, <3>1 DEF SetStreaming, Go
  <2>11. CASE Connect
    <3>1. Valid /\ Since # None
      BY <2>01, <2>02, <2>11 DEF Connect
    <3>2. /\ UNCHANGED <<now, edits, meta, data, dump>> /\ pc' = "read"
          /\ conn'.since = Since /\ conn'.batch = {} /\ conn'.last = None /\ conn'.checked = FALSE
          /\ conn'.pos = Since \/ conn'.pos = Oldest
      BY <2>11, <3>1 DEF Connect, dbVars
    <3>3. Oldest \in Int /\ Oldest <= now + 1
      BY <2>0, TimeAssumption DEF Oldest
    <3>4. conn'.pos <= now + 1
      <4>1. now \in Int /\ Since \in Int /\ Since <= now
        BY <2>0, <2>01, <3>1
      <4> QED BY <3>2, <3>3, <4>1
    <3>5. Since' = Since /\ (Valid' <=> Valid) /\ EditsTo(Since)' = EditsTo(Since)
      BY <3>2 DEF Since, Valid, NeedsSeed, EditsTo
    <3> QED BY <2>0, <3>1, <3>2, <3>4, <3>5 DEF HoleInv
  <2>12. CASE ReadEvent
    <3>1. /\ pc = "read" /\ pc' = "read" /\ conn.pos <= now /\ ~Gap /\ Valid
          /\ UNCHANGED <<now, edits, meta, data, dump>>
      BY <2>02, <2>12 DEF ReadEvent, dbVars
    <3>2. /\ conn'.pos = conn.pos + 1 /\ conn'.checked = TRUE
          /\ \/ /\ conn.pos \in edits /\ conn'.batch = conn.batch \cup {conn.pos}
                /\ conn'.last = conn.pos
             \/ conn.pos \notin edits /\ conn'.batch = conn.batch /\ conn'.last = conn.last
      BY <2>0, <2>12 DEF ReadEvent, Enqueue, Connection
    <3>3. Passed' \subseteq Passed
      <4> SUFFICES ASSUME NEW e \in edits', e < conn'.pos, e \notin data'.has, e \notin conn'.batch
                   PROVE  e < conn.pos /\ e \notin conn.batch
        BY <3>1 DEF Passed
      <4>1. e # conn.pos /\ e \notin conn.batch /\ e \in Int
        BY <2>0, <3>1, <3>2
      <4> QED BY <2>0, <3>2, <4>1
    <3>4. NoRun(Passed)
      <4>1. CASE conn.checked
        BY <3>1, <4>1 DEF HoleInv
      <4>2. CASE ~conn.checked
        <5>1. conn.batch = {} /\ conn.since = Since /\ conn.pos - Since <= Threshold
          BY <2>0, <2>01, <3>1, <4>2, TimeAssumption DEF HoleInv, Gap
        <5>2. \A e \in Passed : e \in Int /\ e < conn.pos /\ (e <= Since => e \in EditsTo(Since) \ data.has)
          BY <2>0, <5>1 DEF Passed, EditsTo
        <5>3. Since \notin Passed /\ NoRun(EditsTo(Since) \ data.has)
          BY <3>1, <5>1 DEF Passed, HoleInv
        <5> QED BY <2>0, <2>01, <3>1, <5>1, <5>2, <5>3, GapBounds
      <4> QED BY <4>1, <4>2, <2>0 DEF Connection
    <3>5. NoRun(Passed)'
      BY <3>3, <3>4, NoRunSubset DEF NoRun
    <3>6. Since' = Since /\ (Valid' <=> Valid) /\ EditsTo(Since)' = EditsTo(Since)
      BY <3>1 DEF Since, Valid, NeedsSeed, EditsTo
    <3>7. conn'.batch # {} => conn'.last \in conn'.batch /\ conn'.last < conn'.pos
      BY <2>0, <3>1, <3>2 DEF HoleInv
    <3> QED BY <2>0, <3>1, <3>2, <3>5, <3>6, <3>7 DEF HoleInv
  <2>13. CASE ReadUntimed
    BY <2>13 DEF ReadUntimed
  <2>14. CASE StreamTooOld
    <3>1. /\ pc = "read" /\ pc' = "toold" /\ conn.batch = {}
          /\ UNCHANGED <<now, edits, data, dump, conn>>
      BY <2>14 DEF StreamTooOld, Gap, HoleInv
    <3>2. CASE UNCHANGED meta
      BY <3>1, <3>2 DEF HoleInv, Valid, NeedsSeed, Since, EditsTo
    <3>3. CASE meta' = [meta EXCEPT !.dumpTime = None, !.cursor = None]
      <4>1. meta'.dumpTime = None /\ meta'.cursor = None
        BY <2>0, <3>3 DEF MetaType
      <4> QED BY <2>0, <3>1, <4>1 DEF HoleInv, Valid, NeedsSeed
    <3> QED BY <2>14, <3>2, <3>3 DEF StreamTooOld
  \* The buffer is written with the id of its last event.
  <2>15. ASSUME Flushed, pc = "read", conn.batch # {}, UNCHANGED <<now, edits>>
         PROVE  /\ meta'.cursor = conn.last /\ Since' = conn.last
                /\ data'.has = data.has \cup conn.batch
                /\ NoRun(EditsTo(Since)' \ data'.has) /\ Since' \notin edits' \ data'.has
                /\ meta'.cursor # Untimed /\ meta'.cursor <= now
    <3>1. meta'.cursor = conn.last /\ data'.has = data.has \cup conn.batch
      BY <2>0, <2>15 DEF Flushed, MetaType, DataType
    <3>2. /\ conn.checked /\ NoRun(Passed) /\ conn.last \in conn.batch /\ conn.last < conn.pos
          /\ conn.last # Untimed /\ conn.last <= now /\ conn.last >= 0
      BY <2>0, <2>15 DEF HoleInv, Connection
    <3>3. Since' = conn.last
      BY <3>1, <3>2 DEF Since
    <3>4. EditsTo(Since)' \ data'.has \subseteq Passed
      <4> SUFFICES ASSUME NEW e \in edits, e <= conn.last, e \notin data.has, e \notin conn.batch
                   PROVE  e < conn.pos
        BY <2>15, <3>1, <3>3 DEF EditsTo, Passed
      <4> QED BY <2>0, <3>2
    <3>5. NoRun(EditsTo(Since)' \ data'.has)
      BY <3>2, <3>4, NoRunSubset
    <3> QED BY <3>1, <3>2, <3>3, <3>5
  <2>16. CASE Flush
    <3>1. /\ Flushed /\ pc = "read" /\ conn.batch # {} /\ UNCHANGED <<now, edits, pc, dump>>
          /\ conn' = [conn EXCEPT !.batch = {}]
      BY <2>16 DEF Flush
    <3>2. conn'.batch = {} /\ UNCHANGED <<conn.pos, conn.last, conn.checked, conn.since>>
      BY <2>0, <3>1 DEF Connection
    <3>3. conn.checked /\ NoRun(Passed) /\ conn.pos <= now + 1
      BY <3>1, <2>0 DEF HoleInv, Connection
    <3>4. Passed' \subseteq Passed
      BY <2>15, <3>1, <3>2 DEF Passed
    <3>5. NoRun(Passed)'
      BY <3>3, <3>4, NoRunSubset DEF NoRun
    <3> QED BY <2>0, <2>15, <3>1, <3>2, <3>3, <3>5 DEF HoleInv
  <2>17. CASE Disconnect
    <3>1. pc = "read" /\ pc' = "connect" /\ conn' = NoConn /\ UNCHANGED <<now, edits, dump>>
      BY <2>17 DEF Disconnect
    <3>2. conn'.last = None /\ conn'.batch = {}
      BY <3>1 DEF NoConn
    <3>3. CASE UNCHANGED dbVars
      BY <2>0, <3>1, <3>2, <3>3 DEF dbVars, HoleInv, Valid, NeedsSeed, Since, EditsTo
    <3>4. CASE Flushed /\ conn.batch = {}
      <4>1. meta' = meta /\ data'.has = data.has
        BY <2>0, <3>4 DEF Flushed, DataType
      <4> QED BY <2>0, <3>1, <3>2, <4>1 DEF HoleInv, Valid, NeedsSeed, Since, EditsTo
    <3>5. CASE Flushed /\ conn.batch # {}
      BY <2>0, <2>15, <3>1, <3>2, <3>5 DEF HoleInv
    <3> QED BY <2>17, <3>3, <3>4, <3>5 DEF Disconnect
  <2>18. CASE WatchEnds
    <3>1. /\ pc = "toold" /\ pc' = "check" /\ conn' = NoConn /\ UNCHANGED <<now, edits, dump>>
          /\ Flushed /\ conn.batch = {}
      BY <2>18 DEF WatchEnds, HoleInv
    <3>2. conn'.last = None /\ conn'.batch = {}
      BY <3>1 DEF NoConn
    <3>3. meta' = meta /\ data'.has = data.has
      BY <2>0, <3>1 DEF Flushed, DataType
    <3> QED BY <2>0, <3>1, <3>2, <3>3 DEF HoleInv, Valid, NeedsSeed, Since, EditsTo
  <2>19. CASE Crash
    <3>1. pc' = "migrate" /\ conn' = NoConn /\ UNCHANGED <<now, edits, meta, data>>
      BY <2>19 DEF Crash, dbVars
    <3>2. conn'.last = None
      BY <3>1 DEF NoConn
    <3> QED BY <2>0, <3>1, <3>2 DEF HoleInv, Valid, NeedsSeed, Since, EditsTo
  <2>20. CASE UNCHANGED vars
    BY <2>20 DEF vars, dbVars, HoleInv, Valid, NeedsSeed, Since, EditsTo, Passed
  <2>21. CASE NewReader
    BY <2>21 DEF NewReader, dbVars, HoleInv, Valid, NeedsSeed, Since, EditsTo, Passed
  <2> QED BY <2>1, <2>2, <2>3, <2>4, <2>5, <2>6, <2>7, <2>8, <2>9, <2>10, <2>11, <2>12, <2>13,
             <2>14, <2>16, <2>17, <2>18, <2>19, <2>20, <2>21 DEF Next, Program
<1> QED BY <1>1, <1>2

\* When every event id has a timestamp, the gap check catches every hole of
\* Threshold ticks, on every reconnection and after every crash and reseed.
THEOREM PrimaryNoLongHole == Spec => []NoLongHole
<1>0. [Next]_vars => feed' = feed
  BY DEF Next, Program, vars, Tick, MigrateSchema, MarkSchema, CheckSeed, SeedFlush, SeedSchema,
         SeedConfig, Import, SeedDumpTime, SetStreaming, Connect, ReadEvent, StreamTooOld,
         WatchEnds, Flush, ReadUntimed, Disconnect, Crash, NewReader, Go
<1>1. TypeOK /\ (feed = "timed" => HoleInv) => NoLongHole
  <2> SUFFICES ASSUME TypeOK, HoleInv PROVE NoRun(Missing)
    BY DEF NoLongHole, NoRun
  <2>1. CASE Valid
    BY <2>1 DEF HoleInv, Missing, Position, Valid
  <2>2. CASE ~Valid
    <3>1. Missing = {}
      <4>1. Missing = EditsTo(None) \ data.has
        BY <2>2 DEF Missing, Position, Valid
      <4>2. \A e \in edits : ~ (e <= None)
        BY DEF TypeOK, Time, None
      <4> QED BY <4>1, <4>2 DEF EditsTo
    <3> QED BY <3>1, PrimaryBounds, TimeAssumption DEF NoRun
  <2> QED BY <2>1, <2>2
<1>2. Init => (feed = "timed" => HoleInv)
  BY HoleInductive
<1>3. TypeOK /\ DataStepInv /\ CursorInv /\ (feed = "timed" => HoleInv) /\ [Next]_vars
      => (feed = "timed" => HoleInv)'
  BY <1>0, HoleInductive
<1> QED BY <1>1, <1>2, <1>3, TypeInductive, DataStepInductive, CursorInductive, PTL DEF Spec
=========================================================================
