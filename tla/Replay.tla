----------------------------- MODULE Replay -----------------------------
(***************************************************************************)
(* A replica writes the lines of one snapshot into its store (module Store,*)
(* reverse index included) while its connection is lost in the middle of   *)
(* lines.  bufio.Scanner hands over what it has of the last line before it *)
(* reports the error, so the beginning of a document reaches upsertScript, *)
(* which stores the string first and decodes it afterwards.  The error of  *)
(* a script does not undo the commands it has executed.                    *)
(***************************************************************************)
EXTENDS Integers, Sequences, FiniteSets

CONSTANTS
  QID, Entry, Doc, EntriesOf, NoDoc,  \* as in Store
  Cut,        \* the beginning of a mappings document: a string, but no JSON
  Lines,      \* the entity lines of the published snapshot
  FrameSize,  \* entity lines per frame (SnapshotFrameSize)
  MaxCuts     \* bound: lost connections

VARIABLES
  entities, index, entityCount, changelog, lastId,  \* the replica's store
  trim,       \* its trimmer, which does not run here
  pc,         \* the client: "apply" (fetchSnapshot reads lines), "lost", "done"
  pos,        \* lines read
  resume,     \* lines before the stored resume offset
  cuts        \* lost connections so far

storeVars == <<entities, index, entityCount, changelog, lastId, trim>>
vars == <<storeVars, pc, pos, resume, cuts>>

S == INSTANCE Store WITH TrimBatch <- 1, MaxId <- Len(Lines) * (MaxCuts + 1), MaxErrors <- 0

Init == /\ S!Init
        /\ pc = "apply"
        /\ pos = 0
        /\ resume = 0
        /\ cuts = 0

Line == Lines[pos + 1]

\* The script stops with an error after its HSET: cjson.decode refuses the new
\* string or the one it replaces.
FailingUpsert(q, m) ==
  /\ entities' = [entities EXCEPT ![q] = m]
  /\ UNCHANGED <<index, entityCount, changelog, lastId, trim>>

\* A checkpoint line: the lines before it are applied.
Checkpoint ==
  /\ pc = "apply"
  /\ pos < Len(Lines) /\ pos % FrameSize = 0 /\ resume < pos
  /\ resume' = pos
  /\ UNCHANGED <<storeVars, pc, pos, cuts>>

\* An entity line.  A string equal to the stored one is no change; over a
\* document that does not decode the script fails, and with it the download.
ApplyLine ==
  /\ pc = "apply"
  /\ pos < Len(Lines)
  /\ pos % FrameSize = 0 => resume >= pos
  /\ \/ /\ entities[Line.q] = Line.d
        /\ pos' = pos + 1
        /\ UNCHANGED <<storeVars, pc>>
     \/ /\ entities[Line.q] # Cut
        /\ S!Upsert(Line.q, Line.d)
        /\ pos' = pos + 1
        /\ UNCHANGED pc
     \/ /\ entities[Line.q] = Cut
        /\ FailingUpsert(Line.q, Line.d)
        /\ pc' = "lost"
        /\ UNCHANGED pos
  /\ UNCHANGED <<resume, cuts>>

\* The connection is lost inside the document of a line.
CutLine ==
  /\ pc = "apply"
  /\ pos < Len(Lines)
  /\ pos % FrameSize = 0 => resume >= pos
  /\ cuts < MaxCuts
  /\ cuts' = cuts + 1
  /\ FailingUpsert(Line.q, Cut)
  /\ pc' = "lost"
  /\ UNCHANGED <<pos, resume>>

\* Run calls fetchSnapshot again: from the resume offset, or, when there is
\* none, the whole file into an empty store.
Reconnect ==
  /\ pc = "lost"
  /\ pc' = "apply"
  /\ pos' = resume
  /\ IF resume = 0 THEN S!FlushDB ELSE UNCHANGED storeVars
  /\ UNCHANGED <<resume, cuts>>

\* The done line: the count is that of the lines, and it becomes entity_count.
Finish ==
  /\ pc = "apply"
  /\ pos = Len(Lines)
  /\ pc' = "done"
  /\ entityCount' = Len(Lines)
  /\ UNCHANGED <<entities, index, changelog, lastId, trim, pos, resume, cuts>>

Next == Checkpoint \/ ApplyLine \/ CutLine \/ Reconnect \/ Finish

Spec == Init /\ [][Next]_vars

-------------------------------------------------------------------------
\* upsertScript, "If unchanged, returns 0. If changed, rewrites indexes,
\* appends to the changelog, and updates counters": once the snapshot is
\* applied, every stored document is in the reverse index.
IndexedWhenApplied == pc = "done" => S!IndexExact
=========================================================================
