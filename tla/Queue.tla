----------------------------- MODULE Queue ------------------------------
(***************************************************************************)
(* How an edit on Wikidata reaches the primary's store.  EventStreams      *)
(* announces the edited item; the ingest goroutines put it in the pending  *)
(* set together with their cursor; the drain goroutine claims batches of   *)
(* it, fetching the next batch while the previous one is written; items    *)
(* whose document cannot be had go to the failed set, from which a third   *)
(* goroutine retries them, oldest score first.                             *)
(*                                                                         *)
(* A document is the revision of the item it was fetched at.  The pending, *)
(* processing and failed sets, the cursor and the documents are in Kvrocks *)
(* and survive a crash; buffers and batches in flight do not.  A pipeline  *)
(* is split where another actor or a crash may see it in part; one that    *)
(* fails was executed up to some command.                                  *)
(***************************************************************************)
EXTENDS Integers, Sequences, FiniteSets

CONSTANTS
  QID,        \* items
  MaxEdits,   \* bound: edits in a run
  MaxFaults,  \* bound: faults in a run
  Worlds      \* the circumstances a run considers, see below

(***************************************************************************)
(* A world fixes the items that are edited, those of them whose documents  *)
(* never parse, the items of one wbgetentities call (retryBatchSize), the  *)
(* bound on failed calls, lost connections and crashes, and whether there  *)
(* is one hazard beyond those:                                             *)
(*   "overlap"  an item that a call in flight still holds is announced and *)
(*              queued again, or is retried while it is queued             *)
(***************************************************************************)
World == [items : SUBSET QID, poison : SUBSET QID, batch : Nat \ {0}, faults : 0..MaxFaults,
          hazards : SUBSET {"overlap"}]
ASSUME QueueBounds == MaxEdits \in Nat /\ MaxFaults \in Nat
ASSUME WorldsAssumption == Worlds \subseteq World

VARIABLES
  revision,   \* Wikidata: the newest revision of every item
  events,     \* EventStreams: the edited items in order
  ingest,     \* the SSE connection: events read, items not yet flushed (batchSet)
  cursor,     \* meta.last_event_id: the events before it are in the store
  pending, processing, \* the sets of the same names
  failed,     \* the failed ZSET, the order of its scores, and the items with a failed:<id> hash
  stored,     \* the revision of the document in the entities hash
  up,         \* the process: "union", "del" (RecoverProcessing), "run"
  drain,      \* where drainQueue is
  jobs,       \* the ProcessEntities calls: of pending, of nextPending, of the retry
  faults,     \* faults so far
  world       \* the circumstances of this behaviour; never changes

dbVars == <<cursor, pending, processing, failed, stored>>
queueVars == <<revision, events, ingest, dbVars, up, drain, jobs, faults>>
vars == <<queueVars, world>>

Slots == {"pending", "next", "retry"}
Job == [pc : {"none", "fetch", "write", "error"}, qids : SUBSET QID, bad : SUBSET QID,
        todo : SUBSET QID, got : [QID -> 0..MaxEdits]]
Unread == [q \in QID |-> 0]
NoJob == [pc |-> "none", qids |-> {}, bad |-> {}, todo |-> {}, got |-> Unread]
NewJob(S) == [NoJob EXCEPT !.pc = "fetch", !.qids = S]

\* The strict total orders on S, as sets of pairs.
Orders(S) == {r \in SUBSET (S \X S) :
                /\ \A p \in S : <<p, p>> \notin r
                /\ \A p, q \in S : p # q => <<p, q>> \in r \/ <<q, p>> \in r
                /\ \A p, q, t \in S : <<p, q>> \in r /\ <<q, t>> \in r => <<p, t>> \in r}

TypeOK ==
  /\ revision \in [QID -> 0..MaxEdits]
  /\ events \in Seq(QID) /\ Len(events) <= MaxEdits
  /\ ingest.pos \in 0..Len(events) /\ ingest.batch \subseteq QID
  /\ cursor \in 0..Len(events)
  /\ pending \subseteq QID /\ processing \subseteq QID
  /\ failed.zset \subseteq QID /\ failed.older \in Orders(failed.zset)
  /\ failed.zset \subseteq failed.info /\ failed.info \subseteq QID
  /\ stored \in [QID -> 0..MaxEdits]
  /\ up \in {"union", "del", "run"}
  /\ drain \in {"claim", "handle", "last", "bail", "discard"}
  /\ jobs \in [Slots -> Job]
  /\ faults \in 0..MaxFaults
  /\ world \in Worlds

Init ==
  /\ revision = [q \in QID |-> 0]
  /\ events = <<>>
  /\ ingest = [pos |-> 0, batch |-> {}]
  /\ cursor = 0
  /\ pending = {} /\ processing = {}
  /\ failed = [zset |-> {}, older |-> {}, info |-> {}]
  /\ stored = [q \in QID |-> 0]
  /\ up = "union"
  /\ drain = "claim"
  /\ jobs = [s \in Slots |-> NoJob]
  /\ faults = 0
  /\ world \in Worlds

Fault == faults < world.faults /\ faults' = faults + 1

FailedSet == failed.zset

\* The items that a ProcessEntities call or its caller still holds.
Held == UNION {jobs[s].qids : s \in Slots}
NoOverlap == "overlap" \notin world.hazards
Apart(S, T) == NoOverlap => S \cap T = {}

-------------------------------------------------------------------------
(* Wikidata and EventStreams. *)

Edit(q) ==
  /\ q \in world.items
  /\ Len(events) < MaxEdits
  /\ revision' = [revision EXCEPT ![q] = @ + 1]
  /\ events' = Append(events, q)
  /\ UNCHANGED <<ingest, dbVars, up, drain, jobs, faults>>

-------------------------------------------------------------------------
(* connectAndProcess.  Events that extractEvent drops are left out. *)

ReadEvent ==
  /\ up = "run"
  /\ ingest.pos < Len(events)
  /\ ingest' = [pos |-> ingest.pos + 1, batch |-> ingest.batch \cup {events[ingest.pos + 1]}]
  /\ UNCHANGED <<revision, events, dbVars, up, drain, jobs, faults>>

\* Faulty variant: the cursor is stored in a pipeline before the items.
FlushCursorFirst ==
  /\ up = "run"
  /\ ingest.batch # {}
  /\ Apart(ingest.batch, Held)
  /\ \/ /\ pending' = pending \cup ingest.batch
        /\ cursor' = ingest.pos
        /\ ingest' = [ingest EXCEPT !.batch = {}]
        /\ UNCHANGED faults
     \/ /\ Fault
        /\ cursor' = ingest.pos
        /\ ingest' = [pos |-> cursor', batch |-> {}]
        /\ UNCHANGED pending
  /\ UNCHANGED <<revision, events, processing, failed, stored, up, drain, jobs>>

\* flushOnce: SADD pending, then HSET last_event_id.  An error, after either or
\* none of the two, ends the connection; the next one starts at the cursor.
FlushBatch ==
  /\ up = "run"
  /\ ingest.batch # {}
  /\ Apart(ingest.batch, Held)
  /\ \/ /\ pending' = pending \cup ingest.batch
        /\ cursor' = ingest.pos
        /\ ingest' = [ingest EXCEPT !.batch = {}]
        /\ UNCHANGED faults
     \/ /\ Fault
        /\ pending' \in {pending, pending \cup ingest.batch}
        /\ ingest' = [pos |-> cursor, batch |-> {}]
        /\ UNCHANGED cursor
  /\ UNCHANGED <<revision, events, processing, failed, stored, up, drain, jobs>>

\* A new connection asks for events since a time, not since an id: it may
\* start before the cursor.  What the old one had read is flushed by then.
Reconnect ==
  /\ up = "run"
  /\ ingest.batch = {}
  /\ Fault
  /\ \E p \in 0..cursor : ingest' = [pos |-> p, batch |-> {}]
  /\ UNCHANGED <<revision, events, dbVars, up, drain, jobs>>

-------------------------------------------------------------------------
(* ProcessEntities, called in slot s. *)

\* The response: the current documents, but for items that are absent from it
\* or do not parse.
FetchOk(s) ==
  /\ jobs[s].pc = "fetch"
  /\ \E bad \in SUBSET jobs[s].qids :
       /\ world.poison \cap jobs[s].qids \subseteq bad
       /\ IF bad \subseteq world.poison THEN UNCHANGED faults ELSE Fault
       /\ jobs' = [jobs EXCEPT ![s].pc = "write", ![s].bad = bad,
                               ![s].todo = @ \cup (jobs[s].qids \ bad),
                               ![s].got = [q \in QID |-> IF q \in jobs[s].qids \ bad
                                                         THEN revision[q] ELSE 0]]
  /\ UNCHANGED <<revision, events, ingest, dbVars, up, drain>>

\* No usable response, a rate limit included: the whole batch fails.
FetchFails(s) ==
  /\ jobs[s].pc = "fetch"
  /\ Fault
  /\ jobs' = [jobs EXCEPT ![s].pc = "error"]
  /\ UNCHANGED <<revision, events, ingest, dbVars, up, drain>>

\* One upsert or delete of the batch's pipeline.
WriteItem(s, q) ==
  /\ jobs[s].pc = "write"
  /\ q \in jobs[s].todo
  /\ stored' = [stored EXCEPT ![q] = jobs[s].got[q]]
  /\ jobs' = [jobs EXCEPT ![s].todo = @ \ {q}, ![s].got[q] = 0]
  /\ UNCHANGED <<revision, events, ingest, cursor, pending, processing, failed, up, drain, faults>>

\* The pipeline fails before its rest is executed: the whole batch fails.
WriteFails(s) ==
  /\ jobs[s].pc = "write"
  /\ jobs[s].todo # {}
  /\ Fault
  /\ jobs' = [jobs EXCEPT ![s].pc = "error", ![s].todo = {}, ![s].got = Unread]
  /\ UNCHANGED <<revision, events, ingest, dbVars, up, drain>>

Succeeded(s) == jobs[s].pc = "write" /\ jobs[s].todo = {}
Returned(s) == Succeeded(s) \/ jobs[s].pc = "error"
Idle(s) == jobs[s].pc = "none"

-------------------------------------------------------------------------
(* The failed set. *)

\* What is left of an order without the items of S.
Without(r, S) == {x \in r : x[1] \notin S /\ x[2] \notin S}

\* Faulty variant: the score is the time of the first failure.
RecordKeepsScore(f, S, r) ==
  [zset |-> f.zset \cup S,
   older |-> f.older \cup (f.zset \X (S \ f.zset)) \cup Without(r, f.zset),
   info |-> f.info \cup S]

\* recordFailedScript for the items of S in the order r: every failure moves
\* its item to the end of the ZSET.
Record(f, S, r) ==
  [zset |-> f.zset \cup S,
   older |-> Without(f.older, S) \cup ((f.zset \ S) \X S) \cup r,
   info |-> f.info \cup S]

\* DeleteFailedEntity: ZREM failed, DEL failed:<id>
Forget(f, q) ==
  [zset |-> f.zset \ {q}, older |-> Without(f.older, {q}), info |-> f.info \ {q}]

\* Faulty variant: DEL is the first of the two.
ForgetCutDelFirst(f, q) == [f EXCEPT !.info = @ \ {q}]

\* Its pipeline fails after the first command.
ForgetCut(f, q) == [zset |-> f.zset \ {q}, older |-> Without(f.older, {q}), info |-> f.info]

-------------------------------------------------------------------------
(* drainQueue: pending and next are its two channels.                      *)
(*   "claim"    the top of the loop, where it also waits for the next tick *)
(*   "handle"   a batch was claimed (next), the previous one is awaited    *)
(*   "last"     the batch was not full: it is awaited, then the drain ends *)
(*   "bail"     the previous batch failed: next is awaited and given back  *)
(*   "discard"  the claim failed: the previous result is awaited           *)

\* ClaimPendingBatch returns the items S, all that SPOP finds or a full batch.
Claim(S) ==
  /\ up = "run"
  /\ drain = "claim"
  /\ S \subseteq pending
  /\ Cardinality(S) = world.batch \/ (S = pending /\ Cardinality(S) < world.batch)
  /\ S # {} \/ ~Idle("pending")
  /\ pending' = pending \ S
  /\ processing' = processing \cup S
  /\ jobs' = IF S = {} THEN jobs ELSE [jobs EXCEPT !["next"] = NewJob(S)]
  /\ drain' = "handle"
  /\ UNCHANGED <<revision, events, ingest, cursor, failed, stored, up, faults>>

\* The claim script fails, or runs and its reply is lost; the client library
\* may run it again, for other items, or give up.
ClaimFails ==
  /\ up = "run"
  /\ drain = "claim"
  /\ Fault
  /\ \/ drain' = "discard" /\ UNCHANGED <<pending, processing>>
     \/ \E S \in SUBSET pending :
          /\ S # {} /\ Cardinality(S) <= world.batch
          /\ pending' = pending \ S
          /\ processing' = processing \cup S
          /\ drain' \in {"claim", "discard"}
  /\ UNCHANGED <<revision, events, ingest, cursor, failed, stored, up, jobs>>

Discard ==
  /\ drain = "discard"
  /\ Idle("pending") \/ Returned("pending")
  /\ jobs' = [jobs EXCEPT !["pending"] = NoJob]
  /\ drain' = "claim"
  /\ UNCHANGED <<revision, events, ingest, dbVars, up, faults>>

\* pending = nextPending, and how the loop goes on.
Advance == /\ jobs' = [jobs EXCEPT !["pending"] = jobs["next"], !["next"] = NoJob]
           /\ drain' = IF Idle("next") \/ Cardinality(jobs["next"].qids) = world.batch
                       THEN "claim" ELSE "last"

Finish == jobs' = [jobs EXCEPT !["pending"] = NoJob] /\ drain' = "claim"
Continue == IF drain = "handle" THEN Advance ELSE Finish

SkipHandle ==
  /\ drain = "handle"
  /\ Idle("pending")
  /\ Advance
  /\ UNCHANGED <<revision, events, ingest, dbVars, up, faults>>

\* Faulty variants: failures are acknowledged and not recorded; failures are
\* recorded and stay in the processing set.
HandleOkUnrecorded ==
  /\ drain \in {"handle", "last"}
  /\ Succeeded("pending")
  /\ processing' = processing \ jobs["pending"].qids
  /\ Continue
  /\ UNCHANGED <<revision, events, ingest, cursor, pending, failed, stored, up, faults>>

HandleOkAcksGood ==
  /\ drain \in {"handle", "last"}
  /\ Succeeded("pending")
  /\ \E r \in Orders(jobs["pending"].bad) : failed' = Record(failed, jobs["pending"].bad, r)
  /\ processing' = processing \ (jobs["pending"].qids \ jobs["pending"].bad)
  /\ Continue
  /\ UNCHANGED <<revision, events, ingest, cursor, pending, stored, up, faults>>

\* handleBatchResult: failures are recorded, the batch is acknowledged.
HandleOk ==
  /\ drain \in {"handle", "last"}
  /\ Succeeded("pending")
  /\ \E r \in Orders(jobs["pending"].bad) : failed' = Record(failed, jobs["pending"].bad, r)
  /\ processing' = processing \ jobs["pending"].qids
  /\ Continue
  /\ UNCHANGED <<revision, events, ingest, cursor, pending, stored, up, faults>>

\* The pipeline of handleBatchResult fails, some failures recorded; it is
\* logged, the loop goes on.
AckFails ==
  /\ drain \in {"handle", "last"}
  /\ Succeeded("pending")
  /\ Fault
  /\ \E S \in SUBSET jobs["pending"].bad :
       \E r \in Orders(S) : failed' = Record(failed, S, r)
  /\ Continue
  /\ UNCHANGED <<revision, events, ingest, cursor, pending, processing, stored, up>>

\* requeueOnFailure: SADD pending, SREM processing; an error is logged.
Requeue(S) ==
  \/ /\ pending' = pending \cup S
     /\ processing' = processing \ S
     /\ UNCHANGED faults
  \/ /\ Fault
     /\ pending' \in {pending, pending \cup S}
     /\ UNCHANGED processing

\* Faulty variant: both batches are given back at once.
HandleErrorBoth ==
  /\ drain \in {"handle", "last"}
  /\ jobs["pending"].pc = "error"
  /\ Requeue(jobs["pending"].qids \cup jobs["next"].qids)
  /\ jobs' = [jobs EXCEPT !["pending"] = NoJob]
  /\ drain' = IF Idle("next") THEN "claim" ELSE "bail"
  /\ UNCHANGED <<revision, events, ingest, cursor, failed, stored, up>>

\* The whole batch failed: it is given back, and the drain ends, after the
\* other batch in flight.
HandleError ==
  /\ drain \in {"handle", "last"}
  /\ jobs["pending"].pc = "error"
  /\ Requeue(jobs["pending"].qids)
  /\ jobs' = [jobs EXCEPT !["pending"] = NoJob]
  /\ drain' = IF Idle("next") THEN "claim" ELSE "bail"
  /\ UNCHANGED <<revision, events, ingest, cursor, failed, stored, up>>

\* Whatever became of the other batch, it is given back too.
Bail ==
  /\ drain = "bail"
  /\ Returned("next")
  /\ Requeue(jobs["next"].qids)
  /\ jobs' = [jobs EXCEPT !["next"] = NoJob]
  /\ drain' = "claim"
  /\ UNCHANGED <<revision, events, ingest, cursor, failed, stored, up>>

-------------------------------------------------------------------------
(* retryFailedEntities. *)

\* LastFailedEntities: ZRANGE failed 0 world.batch-1
RetryStart ==
  /\ up = "run"
  /\ Idle("retry")
  /\ \E S \in (SUBSET failed.zset) \ {{}} :
       /\ Cardinality(S) = world.batch \/ (S = failed.zset /\ Cardinality(S) < world.batch)
       /\ \A p \in S, q \in failed.zset \ S : <<p, q>> \in failed.older
       /\ Apart(S, pending \cup Held)
       /\ jobs' = [jobs EXCEPT !["retry"] = NewJob(S)]
  /\ UNCHANGED <<revision, events, ingest, dbVars, up, drain, faults>>

\* Faulty variant: the goroutine ends with the first batch that fails.
RetryErrorReturns == jobs["retry"].pc = "error" /\ UNCHANGED queueVars

\* The whole batch failed: nothing is recorded.
RetryError ==
  /\ jobs["retry"].pc = "error"
  /\ jobs' = [jobs EXCEPT !["retry"] = NoJob]
  /\ UNCHANGED <<revision, events, ingest, dbVars, up, drain, faults>>

\* The record of one item of the batch is updated or deleted; an error is
\* logged and the loop goes on.
RetryItem(q) ==
  /\ Succeeded("retry")
  /\ q \in jobs["retry"].qids
  /\ \/ /\ failed' = IF q \in jobs["retry"].bad THEN Record(failed, {q}, {}) ELSE Forget(failed, q)
        /\ UNCHANGED faults
     \/ /\ Fault
        /\ \/ UNCHANGED failed
           \/ q \notin jobs["retry"].bad /\ failed' = ForgetCut(failed, q)
  /\ jobs' = IF jobs["retry"].qids = {q} THEN [jobs EXCEPT !["retry"] = NoJob]
             ELSE [jobs EXCEPT !["retry"].qids = @ \ {q}, !["retry"].bad = @ \ {q}]
  /\ UNCHANGED <<revision, events, ingest, cursor, pending, processing, stored, up, drain>>

-------------------------------------------------------------------------
(* Crash and restart. *)

Crash ==
  /\ Fault
  /\ up' = "union"
  /\ ingest' = [pos |-> cursor, batch |-> {}]
  /\ drain' = "claim"
  /\ jobs' = [s \in Slots |-> NoJob]
  /\ UNCHANGED <<revision, events, dbVars>>

\* RecoverProcessing, before the goroutines start: SUNIONSTORE pending pending
\* processing, DEL processing.
RecoverUnion ==
  /\ up = "union"
  /\ pending' = pending \cup processing
  /\ up' = "del"
  /\ UNCHANGED <<revision, events, ingest, cursor, processing, failed, stored, drain, jobs, faults>>

RecoverDel ==
  /\ up = "del"
  /\ processing' = {}
  /\ up' = "run"
  /\ UNCHANGED <<revision, events, ingest, cursor, pending, failed, stored, drain, jobs, faults>>

-------------------------------------------------------------------------
Call(s) == FetchOk(s) \/ \E q \in QID : WriteItem(s, q)
Drainer == \/ \E S \in SUBSET QID : Claim(S)
           \/ SkipHandle \/ HandleOk \/ HandleError \/ Bail \/ Discard
Retryer == RetryStart \/ RetryError \/ \E q \in QID : RetryItem(q)

Steps == \/ \E q \in QID : Edit(q)
         \/ ReadEvent
         \/ FlushBatch
         \/ Reconnect
         \/ \E s \in Slots : Call(s) \/ FetchFails(s) \/ WriteFails(s)
         \/ Drainer
         \/ ClaimFails
         \/ AckFails
         \/ Retryer
         \/ Crash
         \/ RecoverUnion
         \/ RecoverDel

Next == Steps /\ UNCHANGED world

Spec == Init /\ [][Next]_vars

\* Every goroutine keeps running and every call returns.  Strong fairness
\* only makes up for Apart: a flush or a retry that an overlap rules out now is
\* possible at some later tick.
FairSpec == /\ Spec
            /\ WF_queueVars(ReadEvent) /\ SF_queueVars(FlushBatch)
            /\ WF_queueVars(RecoverUnion) /\ WF_queueVars(RecoverDel)
            /\ \A s \in Slots : WF_queueVars(Call(s))
            /\ WF_queueVars(Drainer) /\ SF_queueVars(Retryer)

-------------------------------------------------------------------------
(* Properties. *)

\* What the database remembers to do: a restart finds all of it.
Due == pending \cup processing \cup FailedSet
         \cup {events[i] : i \in cursor + 1..Len(events)}

\* No edit is ever forgotten: an item whose stored document is not current is
\* in a set that is worked off, or ahead of the event cursor, at every step of
\* every goroutine, and so after a crash at any point.
NoLostEdit == \A q \in QID : stored[q] # revision[q] => q \in Due

\* "The processing set guarantees crash safety": the batches in flight are in
\* it until they are acknowledged or given back.
InFlightRecoverable ==
  jobs["pending"].qids \cup jobs["next"].qids \subseteq processing

\* Only a restart looks at what is in the processing set and nowhere else.
Stranded == processing \ (pending \cup jobs["pending"].qids \cup jobs["next"].qids)

\* Nothing gets stuck in the processing set, but by a claim, an acknowledgement
\* or a requeue that fails, or by the result that drainQueue drops when it
\* returns on a failed claim; a failed fetch or write, a batch given back
\* together with its successor and the end of a drain leave nothing behind.
NothingStranded ==
  [][up' = "run" => \/ Stranded' \subseteq Stranded
                    \/ ClaimFails \/ Discard \/ AckFails
                    \/ (HandleError \/ Bail) /\ faults' # faults]_vars

\* A per-entity failure that a fetch reported stays known, through failing
\* acknowledgements and requeues, dropped results and crashes: it is recorded,
\* or its item is queued again, or left in the processing set for a restart.
Reported == UNION {jobs[s].bad : s \in Slots}
FailuresKept ==
  [][NoOverlap => Reported \subseteq Reported' \cup FailedSet' \cup pending' \cup Stranded']_vars

\* The store catches up with Wikidata, whatever failed, and items that never
\* parse do not stop the others; only what is stranded waits for a restart.
CatchesUp ==
  NoOverlap => <>[](\A q \in QID \ world.poison : stored[q] = revision[q] \/ q \in Stranded)

\* No starvation in the failed set: each of its items is tried again, however
\* many items that always fail were there first.
EveryFailureRetried ==
  \A q \in QID : q \in FailedSet ~> (q \in jobs["retry"].qids \/ q \notin FailedSet)
=========================================================================
