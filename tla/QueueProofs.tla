--------------------------- MODULE QueueProofs ---------------------------
(***************************************************************************)
(* Theorems about Queue, for any items, worlds and bounds.                 *)
(*                                                                         *)
(* An edit is followed through five places: ahead of the cursor, in the    *)
(* ingest buffer, in one of the three sets, in a call, in the store.  The  *)
(* invariant says at each of them what the next one may rely on.           *)
(***************************************************************************)
EXTENDS Queue, TLAPS

\* The items ahead of the cursor.
Ahead == {events[i] : i \in cursor + 1..Len(events)}

\* A well-formed failed set.
FailedOK(f) ==
  /\ f \in [zset : SUBSET QID, older : SUBSET (QID \X QID), info : SUBSET QID]
  /\ f.older \in Orders(f.zset)
  /\ f.zset \subseteq f.info

\* The types, of all fields, and revisions that the events account for.
TypeInv ==
  /\ TypeOK
  /\ ingest \in [pos : Nat, batch : SUBSET QID]
  /\ FailedOK(failed)
  /\ \A q \in QID : revision[q] <= Len(events)

\* A call: its failures and what it has still to write are items of its own,
\* and a slot without a call is empty.
JobOK(j) ==
  /\ j.bad \subseteq j.qids
  /\ j.todo \subseteq j.qids \ j.bad
  /\ j.pc = "none" => j = NoJob
  /\ j.pc = "fetch" => j.bad = {} /\ j.todo = {}
JobInv ==
  /\ \A s \in Slots : JobOK(jobs[s])
  /\ up # "run" => drain = "claim" /\ \A s \in Slots : jobs[s] = NoJob

\* What is retried has its failure on record until it is dealt with.
RetryInv == jobs["retry"].qids \subseteq FailedSet

\* Between the two commands of RecoverProcessing nothing is in one set only.
RecoverInv == up = "del" => processing \subseteq pending

\* What the connection has read beyond the cursor is in its buffer.
IngestInv == \A i \in 1..Len(events) : cursor < i /\ i <= ingest.pos => events[i] \in ingest.batch

\* The slots of drainQueue.
DrainInv ==
  /\ drain \in {"claim", "last", "discard"} => Idle("next")
  /\ drain = "bail" => Idle("pending")

\* No item is in two places at once, unless overlaps are admitted.
ApartInv ==
  /\ \A s, t \in Slots : s # t => jobs[s].qids \cap jobs[t].qids = {}
  /\ \A s \in Slots : jobs[s].qids \cap pending = {}

\* A document that was fetched is current, or its item was edited since and is
\* still ahead of the cursor; and so is the stored document once it is written.
Fresh(s, q) ==
  q \in Ahead \/ (IF q \in jobs[s].todo THEN jobs[s].got[q] ELSE stored[q]) = revision[q]
FetchedInv ==
  \A s \in Slots : jobs[s].pc = "write" => \A q \in jobs[s].qids \ jobs[s].bad : Fresh(s, q)

Base == TypeInv /\ JobInv /\ RetryInv /\ RecoverInv /\ IngestInv /\ DrainInv
EditInv == ApartInv /\ InFlightRecoverable /\ FetchedInv /\ NoLostEdit
IInv == Base /\ (NoOverlap => EditInv)

-------------------------------------------------------------------------
(* The order of the failed set. *)

LEMMA RecordOrder ==
  ASSUME NEW A, NEW a \in Orders(A), NEW S, NEW r \in Orders(S)
  PROVE  Without(a, S) \cup ((A \ S) \X S) \cup r \in Orders(A \cup S)
<1> DEFINE n == Without(a, S) \cup ((A \ S) \X S) \cup r
<1>1. n \subseteq (A \cup S) \X (A \cup S)
  BY DEF Orders, Without
<1>2. ASSUME NEW p \in A \cup S, NEW q \in A \cup S
      PROVE  <<p, q>> \in n <=> \/ p \notin S /\ q \notin S /\ <<p, q>> \in a
                                \/ p \notin S /\ q \in S
                                \/ p \in S /\ q \in S /\ <<p, q>> \in r
  BY DEF Orders, Without
<1> HIDE DEF n
<1>3. \A p \in A \cup S : <<p, p>> \notin n
  BY <1>2 DEF Orders
<1>4. ASSUME NEW p \in A \cup S, NEW q \in A \cup S, p # q
      PROVE  <<p, q>> \in n \/ <<q, p>> \in n
  BY <1>2, <1>4 DEF Orders
<1>5. ASSUME NEW p \in A \cup S, NEW q \in A \cup S, NEW t \in A \cup S,
             <<p, q>> \in n, <<q, t>> \in n
      PROVE  <<p, t>> \in n
  BY <1>2, <1>5 DEF Orders
<1>6. n \in Orders(A \cup S)
  BY <1>1, <1>3, <1>4, <1>5 DEF Orders
<1> QED BY <1>6 DEF n

LEMMA ForgetOrder ==
  ASSUME NEW A, NEW a \in Orders(A), NEW S
  PROVE  Without(a, S) \in Orders(A \ S)
<1> DEFINE n == Without(a, S)
<1>1. n \subseteq (A \ S) \X (A \ S)
  BY DEF Orders, Without
<1>2. ASSUME NEW p \in A \ S, NEW q \in A \ S
      PROVE  <<p, q>> \in n <=> <<p, q>> \in a
  BY DEF Orders, Without
<1> HIDE DEF n
<1>3. n \in Orders(A \ S)
  BY <1>1, <1>2 DEF Orders
<1> QED BY <1>3 DEF n

LEMMA OneOrder == ASSUME NEW q PROVE {} \in Orders({q})
  BY DEF Orders

LEMMA RecordOK ==
  ASSUME NEW f, FailedOK(f), NEW S \in SUBSET QID, NEW r \in Orders(S)
  PROVE  FailedOK(Record(f, S, r)) /\ Record(f, S, r).zset = f.zset \cup S
<1>1. Without(f.older, S) \cup ((f.zset \ S) \X S) \cup r \in Orders(f.zset \cup S)
  BY RecordOrder DEF FailedOK
<1>2. Without(f.older, S) \cup ((f.zset \ S) \X S) \cup r \subseteq QID \X QID
  BY <1>1 DEF Orders, FailedOK
<1> QED BY <1>1, <1>2 DEF FailedOK, Record

LEMMA ForgetOK ==
  ASSUME NEW f, FailedOK(f), NEW q \in QID
  PROVE  /\ FailedOK(Forget(f, q)) /\ Forget(f, q).zset = f.zset \ {q}
         /\ FailedOK(ForgetCut(f, q)) /\ ForgetCut(f, q).zset = f.zset \ {q}
<1>1. Without(f.older, {q}) \in Orders(f.zset \ {q})
  BY ForgetOrder DEF FailedOK
<1>2. Without(f.older, {q}) \subseteq QID \X QID
  BY <1>1 DEF Orders, FailedOK
<1> QED BY <1>1, <1>2 DEF FailedOK, Forget, ForgetCut

\* What a retry makes of the record of one item.
LEMMA RetryRecord ==
  ASSUME FailedOK(failed), NEW q \in QID, RetryItem(q)
  PROVE  /\ FailedOK(failed')
         /\ \/ failed'.zset = failed.zset
            \/ q \in jobs["retry"].bad /\ failed'.zset = failed.zset \cup {q}
            \/ q \notin jobs["retry"].bad /\ failed'.zset = failed.zset \ {q}
<1>1. {q} \in SUBSET QID /\ {} \in Orders({q})
  BY OneOrder
<1>2. FailedOK(Record(failed, {q}, {})) /\ Record(failed, {q}, {}).zset = failed.zset \cup {q}
  BY ONLY <1>1, FailedOK(failed), RecordOK
<1>3. /\ FailedOK(Forget(failed, q)) /\ Forget(failed, q).zset = failed.zset \ {q}
      /\ FailedOK(ForgetCut(failed, q)) /\ ForgetCut(failed, q).zset = failed.zset \ {q}
  BY ForgetOK
<1>4. \/ failed' = failed
      \/ q \in jobs["retry"].bad /\ failed' = Record(failed, {q}, {})
      \/ q \notin jobs["retry"].bad /\ failed' \in {Forget(failed, q), ForgetCut(failed, q)}
  BY Zenon DEF RetryItem
<1> QED BY <1>2, <1>3, <1>4

-------------------------------------------------------------------------
(* Types. *)

LEMMA JobTypes ==
  /\ NoJob \in Job
  /\ \A S \in SUBSET QID : NewJob(S) \in Job
  /\ \A S : NewJob(S).pc = "fetch" /\ NewJob(S).qids = S /\ NewJob(S).bad = {} /\ NewJob(S).todo = {}
  /\ NoJob.pc = "none" /\ NoJob.qids = {} /\ NoJob.bad = {} /\ NoJob.todo = {}
<1>1. Unread \in [QID -> 0..MaxEdits]
  BY QueueBounds DEF Unread
<1> QED BY <1>1 DEF NoJob, NewJob, Job

LEMMA SlotNames == "pending" \in Slots /\ "next" \in Slots /\ "retry" \in Slots
  BY DEF Slots

\* What the steps of a call make of its slot.
LEMMA JobFetchOk ==
  ASSUME NEW s \in Slots, jobs \in [Slots -> Job], revision \in [QID -> 0..MaxEdits], FetchOk(s)
  PROVE  \E bad \in SUBSET jobs[s].qids :
           /\ world.poison \cap jobs[s].qids \subseteq bad
           /\ faults' = faults \/ Fault
           /\ jobs' \in [Slots -> Job]
           /\ \A t \in Slots \ {s} : jobs'[t] = jobs[t]
           /\ jobs'[s].pc = "write" /\ jobs'[s].qids = jobs[s].qids /\ jobs'[s].bad = bad
           /\ jobs'[s].todo = jobs[s].todo \cup (jobs[s].qids \ bad)
           /\ \A q \in jobs[s].qids \ bad : jobs'[s].got[q] = revision[q]
<1> DEFINE g(b) == [q \in QID |-> IF q \in jobs[s].qids \ b THEN revision[q] ELSE 0]
           j(b) == [jobs[s] EXCEPT !.pc = "write", !.bad = b, !.todo = @ \cup (jobs[s].qids \ b),
                                   !.got = g(b)]
<1>0. jobs[s] \in Job
  OBVIOUS
<1>1. PICK bad \in SUBSET jobs[s].qids :
        /\ world.poison \cap jobs[s].qids \subseteq bad
        /\ faults' = faults \/ Fault
        /\ jobs' = [jobs EXCEPT ![s].pc = "write", ![s].bad = bad,
                                ![s].todo = @ \cup (jobs[s].qids \ bad), ![s].got = g(bad)]
  BY Zenon DEF FetchOk
<1>2. g(bad) \in [QID -> 0..MaxEdits] /\ \A q \in jobs[s].qids \ bad : g(bad)[q] = revision[q]
  BY <1>0, QueueBounds DEF Job
<1> HIDE DEF g
<1>3. jobs' = [jobs EXCEPT ![s] = j(bad)]
  BY <1>1
<1>4. /\ j(bad) \in Job
      /\ j(bad).pc = "write" /\ j(bad).qids = jobs[s].qids /\ j(bad).bad = bad /\ j(bad).got = g(bad)
      /\ j(bad).todo = jobs[s].todo \cup (jobs[s].qids \ bad)
  BY <1>0, <1>2 DEF Job
<1> HIDE DEF j
<1>5. /\ jobs' \in [Slots -> Job]
      /\ \A t \in Slots \ {s} : jobs'[t] = jobs[t]
      /\ jobs'[s] = j(bad)
  BY <1>3, <1>4
<1>6. WITNESS bad \in SUBSET jobs[s].qids
<1> QED BY <1>1, <1>2, <1>4, <1>5

LEMMA JobWriteItem ==
  ASSUME NEW s \in Slots, jobs \in [Slots -> Job], NEW q \in QID, WriteItem(s, q)
  PROVE  /\ jobs' \in [Slots -> Job]
         /\ \A t \in Slots \ {s} : jobs'[t] = jobs[t]
         /\ jobs'[s].pc = "write" /\ jobs'[s].qids = jobs[s].qids /\ jobs'[s].bad = jobs[s].bad
         /\ jobs'[s].todo = jobs[s].todo \ {q}
         /\ \A p \in QID \ {q} : jobs'[s].got[p] = jobs[s].got[p]
         /\ q \in jobs[s].todo /\ jobs[s].got[q] \in 0..MaxEdits
         /\ stored' = [stored EXCEPT ![q] = jobs[s].got[q]]
<1> DEFINE g == [jobs[s].got EXCEPT ![q] = 0]
           j == [jobs[s] EXCEPT !.todo = @ \ {q}, !.got = g]
<1>0. jobs[s] \in Job /\ jobs[s].got \in [QID -> 0..MaxEdits]
  BY DEF Job
<1>1. /\ jobs' = [jobs EXCEPT ![s].todo = @ \ {q}, ![s].got[q] = 0]
      /\ jobs[s].pc = "write" /\ q \in jobs[s].todo
      /\ stored' = [stored EXCEPT ![q] = jobs[s].got[q]]
  BY DEF WriteItem
<1>2. jobs' = [jobs EXCEPT ![s] = j]
  BY <1>1
<1>3. g \in [QID -> 0..MaxEdits] /\ \A p \in QID \ {q} : g[p] = jobs[s].got[p]
  BY <1>0, QueueBounds
<1> HIDE DEF g
<1>4. /\ j \in Job
      /\ j.pc = jobs[s].pc /\ j.qids = jobs[s].qids /\ j.bad = jobs[s].bad /\ j.got = g
      /\ j.todo = jobs[s].todo \ {q}
  BY <1>0, <1>3 DEF Job
<1> HIDE DEF j
<1> QED BY <1>0, <1>1, <1>2, <1>3, <1>4

LEMMA JobFails ==
  ASSUME NEW s \in Slots, jobs \in [Slots -> Job], FetchFails(s) \/ WriteFails(s)
  PROVE  /\ jobs' \in [Slots -> Job]
         /\ \A t \in Slots \ {s} : jobs'[t] = jobs[t]
         /\ jobs[s].pc \in {"fetch", "write"} /\ jobs'[s].pc = "error"
         /\ jobs'[s].qids = jobs[s].qids /\ jobs'[s].bad = jobs[s].bad
         /\ jobs'[s].todo \subseteq jobs[s].todo
<1> DEFINE j == [jobs[s] EXCEPT !.pc = "error", !.todo = {}, !.got = Unread]
           k == [jobs[s] EXCEPT !.pc = "error"]
<1>0. jobs[s] \in Job /\ Unread \in [QID -> 0..MaxEdits]
  BY QueueBounds DEF Unread
<1>1. jobs[s].pc \in {"fetch", "write"} /\ (jobs' = [jobs EXCEPT ![s] = j] \/ jobs' = [jobs EXCEPT ![s] = k])
  BY DEF FetchFails, WriteFails
<1>2. j \in Job /\ j.pc = "error" /\ j.qids = jobs[s].qids /\ j.bad = jobs[s].bad /\ j.todo = {}
  BY <1>0 DEF Job
<1>3. k \in Job /\ k.pc = "error" /\ k.qids = jobs[s].qids /\ k.bad = jobs[s].bad /\ k.todo = jobs[s].todo
  BY <1>0 DEF Job
<1> HIDE DEF j, k
<1> QED BY <1>1, <1>2, <1>3

LEMMA JobRetryItem ==
  ASSUME jobs \in [Slots -> Job], NEW q \in QID, RetryItem(q)
  PROVE  /\ jobs' \in [Slots -> Job]
         /\ \A t \in Slots \ {"retry"} : jobs'[t] = jobs[t]
         /\ jobs'["retry"].qids = jobs["retry"].qids \ {q}
         /\ \/ jobs'["retry"] = NoJob
            \/ /\ jobs'["retry"].pc = "write" /\ jobs'["retry"].bad = jobs["retry"].bad \ {q}
               /\ jobs'["retry"].todo = {}
<1> DEFINE j == [jobs["retry"] EXCEPT !.qids = @ \ {q}, !.bad = @ \ {q}]
<1>0. jobs["retry"] \in Job /\ jobs["retry"].pc = "write" /\ jobs["retry"].todo = {}
  BY SlotNames DEF RetryItem, Succeeded
<1>1. \/ jobs["retry"].qids = {q} /\ jobs' = [jobs EXCEPT !["retry"] = NoJob]
      \/ jobs' = [jobs EXCEPT !["retry"] = j]
  BY DEF RetryItem
<1>2. j \in Job /\ j.pc = "write" /\ j.qids = jobs["retry"].qids \ {q} /\ j.bad = jobs["retry"].bad \ {q} /\ j.todo = {}
  BY <1>0 DEF Job
<1> HIDE DEF j
<1> QED BY <1>1, <1>2, SlotNames, JobTypes

LEMMA JobContinue ==
  ASSUME jobs \in [Slots -> Job], Continue
  PROVE  /\ jobs' \in [Slots -> Job]
         /\ jobs'["retry"] = jobs["retry"]
         /\ \/ /\ drain = "handle" /\ jobs'["pending"] = jobs["next"] /\ jobs'["next"] = NoJob
               /\ drain' \in {"claim", "last"}
            \/ /\ drain # "handle" /\ jobs'["pending"] = NoJob /\ jobs'["next"] = jobs["next"]
               /\ drain' = "claim"
<1>1. \/ /\ drain = "handle" /\ drain' \in {"claim", "last"}
         /\ jobs' = [jobs EXCEPT !["pending"] = jobs["next"], !["next"] = NoJob]
      \/ drain # "handle" /\ drain' = "claim" /\ jobs' = [jobs EXCEPT !["pending"] = NoJob]
  BY DEF Continue, Advance, Finish
<1> QED BY <1>1, SlotNames, JobTypes

LEMMA TypeInit == Init => TypeInv
<1> SUFFICES ASSUME Init PROVE TypeInv
  OBVIOUS
<1>1. FailedOK(failed)
  BY DEF Init, FailedOK, Orders
<1>2. jobs \in [Slots -> Job]
  BY JobTypes DEF Init
<1>3. revision \in [QID -> 0..MaxEdits] /\ stored \in [QID -> 0..MaxEdits] /\ faults \in 0..MaxFaults
  BY QueueBounds DEF Init
<1>4. \A q \in QID : revision[q] <= Len(events)
  BY DEF Init
<1> QED BY <1>1, <1>2, <1>3, <1>4, QueueBounds DEF Init, TypeInv, TypeOK, FailedOK

LEMMA TypeStep == ASSUME TypeInv, [Next]_vars PROVE TypeInv'
<1> USE QueueBounds, SlotNames, JobTypes
<1>0. world' = world /\ world \in World
  BY WorldsAssumption DEF Next, vars, TypeInv, TypeOK
<1>f. Fault => faults' \in 0..MaxFaults
  BY <1>0 DEF Fault, World, TypeInv, TypeOK
<1>j. jobs \in [Slots -> Job]
  BY DEF TypeInv, TypeOK
<1>1. ASSUME NEW q \in QID, Edit(q) PROVE TypeInv'
  BY <1>0, <1>1 DEF Edit, dbVars, TypeInv, TypeOK
<1>2. CASE ReadEvent
  <2>1. /\ ingest' = [pos |-> ingest.pos + 1, batch |-> ingest.batch \cup {events[ingest.pos + 1]}]
        /\ ingest.pos \in 0..Len(events) /\ ingest.pos < Len(events) /\ ingest.batch \subseteq QID
        /\ events \in Seq(QID)
        /\ UNCHANGED <<revision, events, cursor, pending, processing, failed, stored, up, drain, jobs, faults>>
    BY <1>2 DEF ReadEvent, dbVars, TypeInv, TypeOK
  <2>2. /\ ingest' \in [pos : Nat, batch : SUBSET QID]
        /\ ingest'.pos \in 0..Len(events) /\ ingest'.batch \subseteq QID
    BY <2>1
  <2> QED BY <1>0, <2>1, <2>2 DEF TypeInv, TypeOK
<1>3. CASE FlushBatch
  <2>1. /\ ingest' \in [pos : Nat, batch : SUBSET QID]
        /\ ingest'.pos \in 0..Len(events)
        /\ cursor' \in 0..Len(events)
        /\ pending' \subseteq QID
        /\ faults' \in 0..MaxFaults
    <3>0. /\ ingest.pos \in 0..Len(events) /\ ingest.batch \subseteq QID /\ ingest.pos \in Nat
          /\ cursor \in 0..Len(events) /\ pending \subseteq QID /\ faults \in 0..MaxFaults
          /\ ingest \in [pos : Nat, batch : SUBSET QID] /\ Len(events) \in Nat
      BY DEF TypeInv, TypeOK
    <3>1. CASE pending' = pending \cup ingest.batch /\ cursor' = ingest.pos
               /\ ingest' = [ingest EXCEPT !.batch = {}] /\ faults' = faults
      BY <3>0, <3>1
    <3>2. CASE Fault /\ pending' \in {pending, pending \cup ingest.batch}
               /\ ingest' = [pos |-> cursor, batch |-> {}] /\ cursor' = cursor
      BY <1>f, <3>0, <3>2
    <3> QED BY <1>3, <3>1, <3>2 DEF FlushBatch
  <2>2. UNCHANGED <<revision, events, processing, failed, stored, up, drain, jobs>>
    BY <1>3 DEF FlushBatch
  <2> QED BY <1>0, <2>1, <2>2 DEF TypeInv, TypeOK
<1>4. CASE Reconnect
  BY <1>0, <1>f, <1>4 DEF Reconnect, dbVars, TypeInv, TypeOK
<1>5. ASSUME NEW s \in Slots, FetchOk(s) PROVE TypeInv'
  <2>0. UNCHANGED <<revision, events, ingest, cursor, pending, processing, failed, stored, up, drain>>
    BY <1>5 DEF FetchOk, dbVars
  <2>1. faults \in 0..MaxFaults /\ revision \in [QID -> 0..MaxEdits]
    BY DEF TypeInv, TypeOK
  <2>2. jobs' \in [Slots -> Job] /\ (faults' = faults \/ Fault)
    BY <1>5, <1>j, <2>1, JobFetchOk
  <2>4. faults' \in 0..MaxFaults
    BY <1>f, <2>1, <2>2
  <2> QED BY <1>0, <2>0, <2>2, <2>4 DEF TypeInv, TypeOK
<1>6. ASSUME NEW s \in Slots, NEW q \in QID, WriteItem(s, q) PROVE TypeInv'
  <2>1. jobs' \in [Slots -> Job]
    BY <1>6, <1>j, JobWriteItem
  <2>2. stored' \in [QID -> 0..MaxEdits]
    BY <1>6, <1>j, JobWriteItem DEF TypeInv, TypeOK
  <2>3. UNCHANGED <<revision, events, ingest, cursor, pending, processing, failed, up, drain, faults>>
    BY <1>6 DEF WriteItem
  <2> QED BY <1>0, <2>1, <2>2, <2>3 DEF TypeInv, TypeOK
<1>7. ASSUME NEW s \in Slots, FetchFails(s) \/ WriteFails(s) PROVE TypeInv'
  <2>1. jobs' \in [Slots -> Job]
    BY <1>7, <1>j, JobFails
  <2>2. UNCHANGED <<revision, events, ingest, cursor, pending, processing, failed, stored, up, drain>>
    BY <1>7 DEF FetchFails, WriteFails, dbVars
  <2>3. faults' \in 0..MaxFaults
    BY <1>f, <1>7 DEF FetchFails, WriteFails
  <2> QED BY <1>0, <2>1, <2>2, <2>3 DEF TypeInv, TypeOK
<1>8. ASSUME NEW S \in SUBSET QID, Claim(S) PROVE TypeInv'
  BY <1>0, <1>8 DEF Claim, TypeInv, TypeOK
<1>9. CASE ClaimFails
  <2>1. pending' \subseteq QID /\ processing' \subseteq QID /\ drain' \in {"claim", "discard"}
    BY <1>9 DEF ClaimFails, TypeInv, TypeOK
  <2>2. UNCHANGED <<revision, events, ingest, cursor, failed, stored, up, jobs>> /\ Fault
    BY <1>9 DEF ClaimFails
  <2> QED BY <1>0, <1>f, <2>1, <2>2 DEF TypeInv, TypeOK
<1>c. Continue => jobs' \in [Slots -> Job] /\ drain' \in {"claim", "last"}
  BY <1>j, JobContinue
<1>10. CASE SkipHandle
  <2>1. Continue
    BY <1>10 DEF SkipHandle, Continue
  <2> QED BY <1>0, <1>c, <1>10, <2>1 DEF SkipHandle, dbVars, TypeInv, TypeOK
<1>b. jobs["pending"].bad \subseteq QID
  BY DEF TypeInv, TypeOK, Job
<1>11. CASE HandleOk
  <2>1. FailedOK(failed')
    BY <1>11, <1>b, RecordOK DEF HandleOk, TypeInv
  <2> QED BY <1>0, <1>c, <1>11, <2>1 DEF HandleOk, TypeInv, TypeOK, FailedOK
<1>12. CASE AckFails
  <2>1. FailedOK(failed')
    BY <1>12, <1>b, RecordOK DEF AckFails, TypeInv
  <2> QED BY <1>0, <1>c, <1>f, <1>12, <2>1 DEF AckFails, TypeInv, TypeOK, FailedOK
<1>13. CASE HandleError \/ Bail \/ Discard
  <2>1. jobs["pending"].qids \subseteq QID /\ jobs["next"].qids \subseteq QID
    BY DEF TypeInv, TypeOK, Job
  <2>2. /\ pending' \subseteq QID /\ processing' \subseteq QID
        /\ faults' = faults \/ Fault
    BY <1>13, <2>1 DEF HandleError, Bail, Discard, Requeue, dbVars, TypeInv, TypeOK
  <2>3. faults' \in 0..MaxFaults
    BY <1>f, <2>2 DEF TypeInv, TypeOK
  <2>4. /\ jobs' \in [Slots -> Job] /\ drain' \in {"claim", "bail"}
        /\ UNCHANGED <<revision, events, ingest, cursor, failed, stored, up>>
    BY <1>13, <1>j DEF HandleError, Bail, Discard, dbVars
  <2> QED BY <1>0, <2>2, <2>3, <2>4 DEF TypeInv, TypeOK
<1>14. CASE RetryStart \/ RetryError
  <2>0. failed.zset \subseteq QID
    BY DEF TypeInv, TypeOK
  <2>1. jobs' \in [Slots -> Job]
    BY <1>14, <1>j, <2>0 DEF RetryStart, RetryError
  <2>2. UNCHANGED <<revision, events, ingest, cursor, pending, processing, failed, stored, up, drain,
                    faults>>
    BY <1>14 DEF RetryStart, RetryError, dbVars
  <2> QED BY <1>0, <2>1, <2>2 DEF TypeInv, TypeOK
<1>15. ASSUME NEW q \in QID, RetryItem(q) PROVE TypeInv'
  <2>1. FailedOK(failed')
    BY <1>15, RetryRecord DEF TypeInv
  <2>2. jobs' \in [Slots -> Job]
    BY <1>15, <1>j, JobRetryItem
  <2>3. faults' \in 0..MaxFaults
    BY <1>15, <1>f DEF RetryItem, TypeInv, TypeOK
  <2>4. UNCHANGED <<revision, events, ingest, cursor, pending, processing, stored, up, drain>>
    BY <1>15 DEF RetryItem
  <2> QED BY <1>0, <2>1, <2>2, <2>3, <2>4 DEF TypeInv, TypeOK, FailedOK
<1>16. CASE Crash
  BY <1>0, <1>f, <1>16 DEF Crash, dbVars, TypeInv, TypeOK
<1>17. CASE RecoverUnion \/ RecoverDel
  BY <1>0, <1>17 DEF RecoverUnion, RecoverDel, TypeInv, TypeOK
<1>18. CASE UNCHANGED vars
  BY <1>18 DEF vars, queueVars, dbVars, TypeInv, TypeOK
<1> QED BY <1>1, <1>2, <1>3, <1>4, <1>5, <1>6, <1>7, <1>8, <1>9, <1>10, <1>11, <1>12, <1>13,
           <1>14, <1>15, <1>16, <1>17, <1>18 DEF Next, Steps, Call, Drainer, Retryer

-------------------------------------------------------------------------
(* The bookkeeping of calls, connections and the drain loop. *)

\* A step within a call changes neither the sets nor what any call holds.
CallStep(s) == \/ FetchOk(s) \/ FetchFails(s) \/ WriteFails(s)
               \/ \E q \in QID : WriteItem(s, q)

LEMMA CallFrame ==
  ASSUME TypeInv, NEW s \in Slots, CallStep(s)
  PROVE  /\ \A t \in Slots : jobs'[t].qids = jobs[t].qids
         /\ \A t \in Slots \ {s} : jobs'[t] = jobs[t]
         /\ jobs[s].pc # "none" /\ jobs'[s].pc # "none"
         /\ UNCHANGED <<revision, events, ingest, cursor, pending, processing, failed, up, drain>>
<1> USE DEF TypeInv, TypeOK
<1>1. CASE FetchOk(s)
  BY <1>1, JobFetchOk DEF FetchOk, dbVars
<1>2. CASE FetchFails(s) \/ WriteFails(s)
  BY <1>2, JobFails DEF FetchFails, WriteFails, dbVars
<1>3. ASSUME NEW q \in QID, WriteItem(s, q)
      PROVE  /\ \A t \in Slots : jobs'[t].qids = jobs[t].qids
             /\ \A t \in Slots \ {s} : jobs'[t] = jobs[t]
             /\ jobs[s].pc # "none" /\ jobs'[s].pc # "none"
             /\ UNCHANGED <<revision, events, ingest, cursor, pending, processing, failed, up, drain>>
  BY <1>3, JobWriteItem DEF WriteItem
<1> QED BY <1>1, <1>2, <1>3 DEF CallStep

\* Next, with the steps of a call taken together.
LEMMA NextCases ==
  ASSUME Next
  PROVE  /\ world' = world
         /\ \/ \E q \in QID : Edit(q)
            \/ ReadEvent \/ FlushBatch \/ Reconnect
            \/ \E s \in Slots : CallStep(s)
            \/ \E S \in SUBSET QID : Claim(S)
            \/ ClaimFails \/ Discard \/ SkipHandle \/ HandleOk \/ AckFails \/ HandleError \/ Bail
            \/ RetryStart \/ RetryError \/ \E q \in QID : RetryItem(q)
            \/ Crash \/ RecoverUnion \/ RecoverDel
  BY DEF Next, Steps, Call, Drainer, Retryer, CallStep

LEMMA BaseInit == Init => Base
<1> SUFFICES ASSUME Init PROVE Base
  OBVIOUS
<1>1. TypeInv
  BY TypeInit
<1>2. JobInv /\ RetryInv /\ DrainInv
  BY JobTypes, SlotNames DEF Init, JobInv, JobOK, RetryInv, DrainInv, Idle
<1>3. RecoverInv /\ IngestInv
  BY DEF Init, RecoverInv, IngestInv
<1> QED BY <1>1, <1>2, <1>3 DEF Base

LEMMA JobStep == ASSUME Base, Next PROVE JobInv'
<1> USE SlotNames, JobTypes
<1>0. /\ jobs \in [Slots -> Job] /\ revision \in [QID -> 0..MaxEdits]
      /\ failed.zset \subseteq QID
      /\ \A s \in Slots : JobOK(jobs[s])
      /\ up # "run" => drain = "claim" /\ \A s \in Slots : jobs[s] = NoJob
  BY DEF Base, TypeInv, TypeOK, JobInv
<1>n. JobOK(NoJob) /\ \A S \in SUBSET QID : JobOK(NewJob(S))
  BY DEF JobOK
<1>1. CASE UNCHANGED <<jobs, up, drain>>
  BY <1>0, <1>1 DEF JobInv
<1>2. ASSUME NEW s \in Slots, CallStep(s) PROVE JobInv'
  <2>1. up = "run" /\ up' = up
    BY <1>0, <1>2, CallFrame DEF Base
  <2>2. JobOK(jobs'[s])
    <3>1. CASE FetchOk(s)
      <4>1. jobs[s].pc = "fetch"
        BY <3>1 DEF FetchOk
      <4> QED BY <1>0, <3>1, <4>1, JobFetchOk DEF JobOK
    <3>2. CASE FetchFails(s) \/ WriteFails(s)
      BY <1>0, <3>2, JobFails DEF JobOK
    <3>3. ASSUME NEW q \in QID, WriteItem(s, q) PROVE JobOK(jobs'[s])
      BY <1>0, <3>3, JobWriteItem DEF JobOK
    <3> QED BY <1>2, <3>1, <3>2, <3>3 DEF CallStep
  <2>3. \A t \in Slots \ {s} : jobs'[t] = jobs[t]
    BY <1>2, CallFrame DEF Base
  <2> QED BY <1>0, <2>1, <2>2, <2>3 DEF JobInv
<1>3. ASSUME NEW S \in SUBSET QID, Claim(S) PROVE JobInv'
  BY <1>0, <1>n, <1>3 DEF Claim, JobInv
<1>4. CASE ClaimFails
  BY <1>0, <1>4 DEF ClaimFails, JobInv
<1>5. CASE Discard \/ HandleError \/ Bail
  BY <1>0, <1>n, <1>5 DEF Discard, HandleError, Bail, JobInv
<1>6. CASE SkipHandle \/ HandleOk \/ AckFails
  <2>1. Continue /\ up' = up /\ drain # "claim"
    BY <1>6 DEF SkipHandle, HandleOk, AckFails, Continue
  <2>2. \A s \in Slots : jobs'[s] \in {jobs["retry"], jobs["next"], NoJob}
    BY <1>0, <2>1, JobContinue DEF Slots
  <2> QED BY <1>0, <1>n, <2>1, <2>2 DEF JobInv
<1>7. CASE RetryStart \/ RetryError
  BY <1>0, <1>n, <1>7 DEF RetryStart, RetryError, JobInv, dbVars
<1>8. ASSUME NEW q \in QID, RetryItem(q) PROVE JobInv'
  <2>1. jobs["retry"].pc = "write" /\ up' = up
    BY <1>8 DEF RetryItem, Succeeded
  <2>2. JobOK(jobs'["retry"])
    BY <1>0, <1>8, <1>n, JobRetryItem DEF JobOK
  <2>3. \A t \in Slots \ {"retry"} : jobs'[t] = jobs[t]
    BY <1>0, <1>8, JobRetryItem
  <2> QED BY <1>0, <2>1, <2>2, <2>3 DEF JobInv
<1>9. CASE Crash
  BY <1>n, <1>9 DEF Crash, JobInv
<1>10. CASE RecoverUnion \/ RecoverDel
  BY <1>0, <1>10 DEF RecoverUnion, RecoverDel, JobInv
<1>11. \A q \in QID : Edit(q) => UNCHANGED <<jobs, up, drain>>
  BY DEF Edit
<1>12. ReadEvent \/ FlushBatch \/ Reconnect => UNCHANGED <<jobs, up, drain>>
  BY DEF ReadEvent, FlushBatch, Reconnect
<1> QED BY <1>1, <1>2, <1>3, <1>4, <1>5, <1>6, <1>7, <1>8, <1>9, <1>10, <1>11, <1>12, NextCases

LEMMA DrainStep == ASSUME Base, Next PROVE DrainInv'
<1> USE SlotNames, JobTypes DEF DrainInv, Idle
<1>0. jobs \in [Slots -> Job] /\ failed.zset \subseteq QID /\ DrainInv /\ world' = world
  BY NextCases DEF Base, TypeInv, TypeOK
<1>1. CASE UNCHANGED <<jobs, drain>>
  BY <1>0, <1>1
<1>2. ASSUME NEW s \in Slots, CallStep(s) PROVE DrainInv'
  BY <1>0, <1>2, CallFrame DEF Base
<1>3. ASSUME NEW S \in SUBSET QID, Claim(S) PROVE DrainInv'
  BY <1>3 DEF Claim
<1>4. CASE ClaimFails
  BY <1>0, <1>4 DEF ClaimFails
<1>5. CASE Discard \/ HandleError \/ Bail
  BY <1>0, <1>5 DEF Discard, HandleError, Bail
<1>6. CASE SkipHandle \/ HandleOk \/ AckFails
  <2>1. Continue /\ drain \in {"handle", "last"}
    BY <1>6 DEF SkipHandle, HandleOk, AckFails, Continue
  <2> QED BY <1>0, <2>1, JobContinue
<1>7. CASE RetryStart \/ RetryError
  BY <1>0, <1>7 DEF RetryStart, RetryError
<1>8. ASSUME NEW q \in QID, RetryItem(q) PROVE DrainInv'
  <2>1. drain' = drain
    BY <1>8 DEF RetryItem
  <2> QED BY <1>0, <1>8, <2>1, JobRetryItem
<1>9. CASE Crash
  BY <1>9 DEF Crash
<1>10. CASE RecoverUnion \/ RecoverDel
  BY <1>1, <1>10 DEF RecoverUnion, RecoverDel
<1>11. \A q \in QID : Edit(q) => UNCHANGED <<jobs, drain>>
  BY DEF Edit
<1>12. ReadEvent \/ FlushBatch \/ Reconnect => UNCHANGED <<jobs, drain>>
  BY DEF ReadEvent, FlushBatch, Reconnect
<1> QED BY <1>1, <1>2, <1>3, <1>4, <1>5, <1>6, <1>7, <1>8, <1>9, <1>10, <1>11, <1>12, NextCases

\* What the steps make of the failed set.
LEMMA FailedStep ==
  ASSUME Base, Next
  PROVE  \/ failed.zset \subseteq failed'.zset
         \/ \E q \in QID : RetryItem(q) /\ failed'.zset = failed.zset \ {q} /\ q \notin jobs["retry"].bad
<1>0. FailedOK(failed) /\ jobs["pending"].bad \subseteq QID
  BY SlotNames DEF Base, TypeInv, TypeOK, Job
<1>1. HandleOk \/ AckFails => failed.zset \subseteq failed'.zset
  BY <1>0, RecordOK DEF HandleOk, AckFails
<1>2. ASSUME NEW q \in QID, RetryItem(q)
      PROVE  \/ failed.zset \subseteq failed'.zset
             \/ RetryItem(q) /\ failed'.zset = failed.zset \ {q} /\ q \notin jobs["retry"].bad
  BY <1>0, <1>2, RetryRecord
<1>3. \A s \in Slots : CallStep(s) => failed' = failed
  BY CallFrame DEF Base
<1>4. ASSUME ~HandleOk, ~AckFails, \A q \in QID : ~RetryItem(q) PROVE failed' = failed
  BY <1>3, <1>4, NextCases
     DEF Edit, ReadEvent, FlushBatch, Reconnect, Claim, ClaimFails, Discard, SkipHandle, HandleError,
         Bail, RetryStart, RetryError, Crash, RecoverUnion, RecoverDel, dbVars
<1> QED BY <1>1, <1>2, <1>4

LEMMA RetryStep == ASSUME Base, Next PROVE RetryInv'
<1> USE SlotNames, JobTypes
<1>0. jobs \in [Slots -> Job] /\ jobs["retry"].qids \subseteq failed.zset
  BY DEF Base, TypeInv, TypeOK, RetryInv, FailedSet
<1>1. ASSUME NEW q \in QID, RetryItem(q) PROVE jobs'["retry"].qids \subseteq failed'.zset
  <2>1. jobs'["retry"].qids = jobs["retry"].qids \ {q}
    BY <1>0, <1>1, JobRetryItem
  <2>2. failed.zset \ {q} \subseteq failed'.zset
    BY <1>1, RetryRecord DEF Base, TypeInv
  <2> QED BY <1>0, <2>1, <2>2
<1>2. ASSUME jobs'["retry"].qids \subseteq jobs["retry"].qids \/ jobs'["retry"].qids \subseteq failed.zset,
             \A q \in QID : ~RetryItem(q)
      PROVE  jobs'["retry"].qids \subseteq failed'.zset
  BY <1>0, <1>2, FailedStep
<1>3. \A s \in Slots : CallStep(s) => jobs'["retry"].qids = jobs["retry"].qids
  BY CallFrame DEF Base
<1>4. SkipHandle \/ HandleOk \/ AckFails => jobs'["retry"] = jobs["retry"]
  BY <1>0, JobContinue DEF SkipHandle, HandleOk, AckFails, Continue
<1>5. ASSUME \A q \in QID : ~RetryItem(q)
      PROVE  jobs'["retry"].qids \subseteq jobs["retry"].qids \/ jobs'["retry"].qids \subseteq failed.zset
  <2>1. \A S \in SUBSET QID : Claim(S) => jobs'["retry"] = jobs["retry"]
    BY <1>0 DEF Claim
  <2>2. ClaimFails \/ Discard \/ HandleError \/ Bail => jobs'["retry"] = jobs["retry"]
    BY <1>0 DEF ClaimFails, Discard, HandleError, Bail
  <2>3. RetryStart => jobs'["retry"].qids \subseteq failed.zset
    BY <1>0 DEF RetryStart
  <2>4. RetryError \/ Crash => jobs'["retry"].qids \subseteq jobs["retry"].qids
    BY <1>0 DEF RetryError, Crash
  <2>5. ReadEvent \/ FlushBatch \/ Reconnect \/ RecoverUnion \/ RecoverDel => jobs' = jobs
    BY DEF ReadEvent, FlushBatch, Reconnect, RecoverUnion, RecoverDel
  <2>6. \A q \in QID : Edit(q) => jobs' = jobs
    BY DEF Edit
  <2> QED BY <1>3, <1>4, <1>5, <2>1, <2>2, <2>3, <2>4, <2>5, <2>6, NextCases
<1> QED BY <1>1, <1>2, <1>5 DEF RetryInv, FailedSet

LEMMA RecoverStep == ASSUME Base, Next PROVE RecoverInv'
<1>0. RecoverInv /\ (up # "run" => drain = "claim" /\ \A s \in Slots : jobs[s].pc = "none")
  BY JobTypes DEF Base, JobInv
<1>1. CASE up = "run"
  <2>1. up' # "del"
    <3>1. \A s \in Slots : CallStep(s) => up' = up
      BY CallFrame DEF Base
    <3> QED BY <1>1, <3>1, NextCases
       DEF Edit, ReadEvent, FlushBatch, Reconnect, Claim, ClaimFails, Discard, SkipHandle, HandleOk,
           AckFails, HandleError, Bail, RetryStart, RetryError, RetryItem, Crash, RecoverUnion, RecoverDel
  <2> QED BY <2>1 DEF RecoverInv
<1>2. CASE up # "run"
  <2>1. \A s \in Slots : ~CallStep(s)
    BY <1>0, <1>2, CallFrame DEF Base
  <2>2. \/ \E q \in QID : Edit(q)
        \/ Crash \/ RecoverUnion \/ RecoverDel
    BY <1>0, <1>2, <2>1, SlotNames, NextCases
       DEF ReadEvent, FlushBatch, Reconnect, Claim, ClaimFails, Discard, SkipHandle, HandleOk,
           AckFails, HandleError, Bail, RetryStart, RetryError, RetryItem, Succeeded
  <2> QED BY <1>0, <2>2 DEF RecoverInv, Edit, Crash, RecoverUnion, RecoverDel, dbVars
<1> QED BY <1>1, <1>2

LEMMA IngestStep == ASSUME Base, Next PROVE IngestInv'
<1>0. /\ events \in Seq(QID) /\ cursor \in 0..Len(events) /\ ingest.pos \in 0..Len(events) /\ IngestInv
      /\ ingest \in [pos : Nat, batch : SUBSET QID]
  BY DEF Base, TypeInv, TypeOK
<1>1. ASSUME NEW q \in QID, Edit(q) PROVE IngestInv'
  BY <1>0, <1>1 DEF Edit, dbVars, IngestInv
<1>2. CASE ReadEvent
  BY <1>0, <1>2 DEF ReadEvent, dbVars, IngestInv
<1>3. CASE FlushBatch
  BY <1>0, <1>3 DEF FlushBatch, IngestInv
<1>4. CASE Reconnect
  BY <1>0, <1>4 DEF Reconnect, IngestInv, dbVars
<1>5. CASE Crash
  BY <1>0, <1>5 DEF Crash, IngestInv, dbVars
<1>6. ASSUME ~ReadEvent, ~FlushBatch, ~Reconnect, ~Crash, \A q \in QID : ~Edit(q)
      PROVE  UNCHANGED <<events, ingest, cursor>>
  <2>1. \A s \in Slots : CallStep(s) => UNCHANGED <<events, ingest, cursor>>
    BY CallFrame DEF Base
  <2> QED BY <1>6, <2>1, NextCases
     DEF Claim, ClaimFails, Discard, SkipHandle, HandleOk, AckFails, HandleError, Bail, RetryStart,
         RetryError, RetryItem, RecoverUnion, RecoverDel, dbVars
<1>7. CASE UNCHANGED <<events, ingest, cursor>>
  BY <1>0, <1>7 DEF IngestInv
<1> QED BY <1>1, <1>2, <1>3, <1>4, <1>5, <1>6, <1>7

LEMMA BaseStep == ASSUME Base, [Next]_vars PROVE Base'
<1>1. TypeInv'
  BY TypeStep DEF Base
<1>2. CASE Next
  BY <1>1, <1>2, JobStep, DrainStep, RetryStep, RecoverStep, IngestStep DEF Base
<1>3. CASE UNCHANGED vars
  BY <1>1, <1>3 DEF Base, JobInv, RetryInv, RecoverInv, IngestInv, DrainInv, Idle, FailedSet,
                    vars, queueVars, dbVars
<1> QED BY <1>2, <1>3

\* The named steps aside, nothing gets stuck in the processing set.
LEMMA StrandedStep ==
  ASSUME Base, Next, up' = "run",
         ~ClaimFails, ~Discard, ~AckFails, ~((HandleError \/ Bail) /\ faults' # faults)
  PROVE  Stranded' \subseteq Stranded
<1> USE SlotNames, JobTypes DEF Stranded
<1>0. /\ jobs \in [Slots -> Job] /\ DrainInv /\ RecoverInv /\ failed.zset \subseteq QID
      /\ \A s \in Slots : jobs[s].pc = "none" => jobs[s].qids = {}
  BY DEF Base, TypeInv, TypeOK, JobInv, JobOK
<1>1. ASSUME processing' = processing, pending \subseteq pending',
             \A s \in {"pending", "next"} : jobs'[s].qids = jobs[s].qids
      PROVE  Stranded' \subseteq Stranded
  BY <1>1
<1>2. ASSUME NEW s \in Slots, CallStep(s) PROVE Stranded' \subseteq Stranded
  BY <1>1, <1>2, CallFrame DEF Base
<1>3. ASSUME NEW S \in SUBSET QID, Claim(S) PROVE Stranded' \subseteq Stranded
  BY <1>0, <1>3 DEF Claim, DrainInv, Idle
<1>4. CASE SkipHandle \/ HandleOk
  <2>1. Continue /\ pending' = pending /\ drain \in {"handle", "last"}
    BY <1>4 DEF SkipHandle, HandleOk, Continue, dbVars
  <2>2. processing' = processing \ jobs["pending"].qids
    BY <1>0, <1>4 DEF SkipHandle, HandleOk, dbVars, Idle
  <2> QED BY <1>0, <2>1, <2>2, JobContinue DEF DrainInv, Idle
<1>5. CASE HandleError \/ Bail
  <2>1. faults' = faults
    BY <1>5
  <2>2. \E s \in {"pending", "next"} :
          /\ jobs' = [jobs EXCEPT ![s] = NoJob]
          /\ pending' = pending \cup jobs[s].qids /\ processing' = processing \ jobs[s].qids
    BY <1>0, <1>5, <2>1 DEF HandleError, Bail, Requeue, Fault, Base, TypeInv, TypeOK
  <2> QED BY <1>0, <2>2
<1>6. CASE RecoverDel
  BY <1>6 DEF RecoverDel
<1>7. CASE RetryStart \/ RetryError
  BY <1>0, <1>1, <1>7 DEF RetryStart, RetryError, dbVars
<1>8. ASSUME NEW q \in QID, RetryItem(q) PROVE Stranded' \subseteq Stranded
  <2>1. pending' = pending /\ processing' = processing
    BY <1>8 DEF RetryItem
  <2> QED BY <1>0, <1>1, <1>8, <2>1, JobRetryItem
<1>9. ~Crash /\ ~RecoverUnion
  BY DEF Crash, RecoverUnion
<1>10. ASSUME (\E q \in QID : Edit(q)) \/ ReadEvent \/ FlushBatch \/ Reconnect
       PROVE  pending \subseteq pending' /\ UNCHANGED <<processing, jobs>>
  BY <1>10 DEF Edit, ReadEvent, FlushBatch, Reconnect, dbVars
<1> QED BY <1>1, <1>2, <1>3, <1>4, <1>5, <1>6, <1>7, <1>8, <1>9, <1>10, NextCases

-------------------------------------------------------------------------
(* The way of an edit, when no item is held twice. *)

LEMMA AheadEdit ==
  ASSUME Base, NEW q \in QID, Edit(q)
  PROVE  Ahead \subseteq Ahead' /\ q \in Ahead'
<1>0. events \in Seq(QID) /\ cursor \in 0..Len(events)
  BY DEF Base, TypeInv, TypeOK
<1>1. events' = Append(events, q) /\ cursor' = cursor
  BY DEF Edit, dbVars
<1>2. Len(events') = Len(events) + 1 /\ events'[Len(events) + 1] = q
      /\ \A i \in 1..Len(events) : events'[i] = events[i]
  BY <1>0, <1>1
<1>3. q \in Ahead'
  <2>1. Len(events) + 1 \in cursor' + 1..Len(events')
    BY <1>0, <1>1, <1>2
  <2> QED BY <1>2, <2>1 DEF Ahead
<1>4. ASSUME NEW i \in cursor + 1..Len(events) PROVE events[i] \in Ahead'
  <2>1. i \in cursor' + 1..Len(events') /\ events'[i] = events[i]
    BY <1>0, <1>1, <1>2
  <2> QED BY <2>1 DEF Ahead
<1> QED BY <1>3, <1>4 DEF Ahead

\* A flush moves what it takes from ahead of the cursor to pending.
LEMMA AheadFlush ==
  ASSUME Base, FlushBatch
  PROVE  /\ Ahead \subseteq Ahead' \cup ingest.batch
         /\ Ahead \subseteq Ahead' \cup pending'
         /\ pending \subseteq pending' /\ pending' \subseteq pending \cup ingest.batch
<1>0. /\ events \in Seq(QID) /\ cursor \in 0..Len(events) /\ ingest.pos \in 0..Len(events)
      /\ \A i \in 1..Len(events) : cursor < i /\ i <= ingest.pos => events[i] \in ingest.batch
  BY DEF Base, TypeInv, TypeOK, IngestInv
<1>1. events' = events /\ \/ cursor' = cursor
                          \/ cursor' = ingest.pos /\ pending' = pending \cup ingest.batch
  BY DEF FlushBatch
<1>2. pending \subseteq pending' /\ pending' \subseteq pending \cup ingest.batch
  BY DEF FlushBatch
<1>3. CASE cursor' = cursor
  BY <1>1, <1>2, <1>3 DEF Ahead
<1>4. CASE cursor' = ingest.pos /\ pending' = pending \cup ingest.batch
  <2>1. ASSUME NEW i \in cursor + 1..Len(events)
        PROVE  events[i] \in Ahead' \/ events[i] \in ingest.batch
    <3>1. CASE i <= ingest.pos
      BY <1>0, <2>1, <3>1
    <3>2. CASE i > ingest.pos
      <4>1. i \in cursor' + 1..Len(events') /\ events'[i] = events[i]
        BY <1>0, <1>1, <1>4, <3>2
      <4> QED BY <4>1 DEF Ahead
    <3> QED BY <1>0, <3>1, <3>2
  <2> QED BY <1>2, <1>4, <2>1 DEF Ahead
<1> QED BY <1>1, <1>3, <1>4

\* The other steps leave the events and the cursor alone.
LEMMA AheadSame ==
  ASSUME Base, Next, ~FlushBatch, \A q \in QID : ~Edit(q)
  PROVE  Ahead' = Ahead /\ revision' = revision
<1>1. \A s \in Slots : CallStep(s) => UNCHANGED <<events, cursor, revision>>
  BY CallFrame DEF Base
<1>2. UNCHANGED <<events, cursor, revision>>
  BY <1>1, NextCases
     DEF ReadEvent, Reconnect, Claim, ClaimFails, Discard, SkipHandle, HandleOk, AckFails, HandleError,
         Bail, RetryStart, RetryError, RetryItem, Crash, RecoverUnion, RecoverDel, dbVars
<1> QED BY <1>2 DEF Ahead

LEMMA ApartStep ==
  ASSUME Base, NoOverlap, ApartInv, Next
  PROVE  ApartInv'
<1> USE SlotNames, JobTypes
<1>0. /\ jobs \in [Slots -> Job]
      /\ up # "run" => \A s \in Slots : jobs[s].qids = {}
      /\ \A s, t \in Slots : s # t => jobs[s].qids \cap jobs[t].qids = {}
      /\ \A s \in Slots : jobs[s].qids \cap pending = {}
  BY DEF Base, TypeInv, TypeOK, JobInv, ApartInv
<1>1. ASSUME \A s \in Slots : jobs'[s].qids \subseteq jobs[s].qids, pending' \subseteq pending
      PROVE  ApartInv'
  BY <1>0, <1>1 DEF ApartInv
<1>2. CASE FlushBatch
  <2>1. \A s \in Slots : jobs[s].qids \cap ingest.batch = {}
    BY <1>2 DEF FlushBatch, Apart, NoOverlap, Held
  <2>2. pending' \subseteq pending \cup ingest.batch /\ jobs' = jobs
    BY <1>2, AheadFlush DEF FlushBatch
  <2> QED BY <1>0, <2>1, <2>2 DEF ApartInv
<1>3. ASSUME NEW S \in SUBSET QID, Claim(S) PROVE ApartInv'
  <2>1. /\ S \subseteq pending /\ pending' = pending \ S
        /\ jobs' = jobs \/ jobs' = [jobs EXCEPT !["next"] = NewJob(S)]
    BY <1>3 DEF Claim
  <2> QED BY <1>0, <2>1 DEF ApartInv
<1>4. CASE SkipHandle \/ HandleOk \/ AckFails
  <2>1. Continue /\ pending' = pending
    BY <1>4 DEF SkipHandle, HandleOk, AckFails, Continue, dbVars
  <2>2. \/ jobs'["pending"].qids = jobs["next"].qids /\ jobs'["next"].qids = {}
        \/ jobs'["pending"].qids = {} /\ jobs'["next"].qids = jobs["next"].qids
    BY <1>0, <2>1, JobContinue
  <2>3. jobs'["retry"].qids = jobs["retry"].qids
    BY <1>0, <2>1, JobContinue
  <2> QED BY <1>0, <2>1, <2>2, <2>3 DEF ApartInv, Slots
<1>5. CASE HandleError
  BY <1>0, <1>5 DEF HandleError, Requeue, ApartInv
<1>6. CASE Bail
  BY <1>0, <1>6 DEF Bail, Requeue, ApartInv
<1>7. CASE RetryStart
  <2>0. PICK S \in SUBSET failed.zset : /\ jobs' = [jobs EXCEPT !["retry"] = NewJob(S)]
                                        /\ Apart(S, pending \cup Held)
    BY <1>7, Zenon DEF RetryStart
  <2>1. S \cap pending = {} /\ \A s \in Slots : S \cap jobs[s].qids = {}
    BY <2>0 DEF Apart, NoOverlap, Held
  <2>2. pending' = pending
    BY <1>7 DEF RetryStart, dbVars
  <2> QED BY <1>0, <2>0, <2>1, <2>2 DEF ApartInv
<1>8. ASSUME NEW q \in QID, RetryItem(q) PROVE ApartInv'
  <2>1. pending' = pending
    BY <1>8 DEF RetryItem
  <2> QED BY <1>0, <1>1, <1>8, <2>1, JobRetryItem
<1>9. CASE RecoverUnion \/ RecoverDel
  BY <1>0, <1>9 DEF RecoverUnion, RecoverDel, ApartInv
<1>10. ASSUME NEW s \in Slots, CallStep(s) PROVE ApartInv'
  BY <1>1, <1>10, CallFrame DEF Base
<1>11. CASE ClaimFails \/ Discard \/ RetryError \/ Crash
  BY <1>0, <1>1, <1>11 DEF ClaimFails, Discard, RetryError, Crash, dbVars
<1>12. ASSUME (\E q \in QID : Edit(q)) \/ ReadEvent \/ Reconnect
       PROVE  UNCHANGED <<pending, jobs>>
  BY <1>12 DEF Edit, ReadEvent, Reconnect, dbVars
<1> QED BY <1>1, <1>2, <1>3, <1>4, <1>5, <1>6, <1>7, <1>8, <1>9, <1>10, <1>11, <1>12, NextCases

LEMMA InFlightStep ==
  ASSUME Base, ApartInv, InFlightRecoverable, Next
  PROVE  InFlightRecoverable'
<1> USE SlotNames, JobTypes DEF InFlightRecoverable
<1>0. /\ jobs \in [Slots -> Job]
      /\ up # "run" => \A s \in Slots : jobs[s].qids = {}
      /\ jobs["pending"].qids \cap jobs["next"].qids = {}
      /\ \A s \in Slots : jobs[s].pc = "none" => jobs[s].qids = {}
      /\ DrainInv
  BY DEF Base, TypeInv, TypeOK, JobInv, JobOK, ApartInv
<1>1. ASSUME \A s \in {"pending", "next"} : jobs'[s].qids \subseteq jobs[s].qids,
             processing \subseteq processing'
      PROVE  InFlightRecoverable'
  BY <1>1
<1>2. ASSUME NEW S \in SUBSET QID, Claim(S) PROVE InFlightRecoverable'
  BY <1>0, <1>2 DEF Claim
<1>3. CASE SkipHandle \/ HandleOk \/ AckFails
  <2>1. Continue /\ drain \in {"handle", "last"} /\ processing \ jobs["pending"].qids \subseteq processing'
    BY <1>3 DEF SkipHandle, HandleOk, AckFails, Continue, dbVars
  <2> QED BY <1>0, <2>1, JobContinue DEF DrainInv, Idle
<1>4. CASE HandleError \/ Bail
  BY <1>0, <1>4 DEF HandleError, Bail, Requeue
<1>5. CASE RetryStart \/ RetryError
  BY <1>0, <1>1, <1>5 DEF RetryStart, RetryError, dbVars
<1>6. ASSUME NEW q \in QID, RetryItem(q) PROVE InFlightRecoverable'
  <2>1. processing' = processing
    BY <1>6 DEF RetryItem
  <2> QED BY <1>0, <1>1, <1>6, <2>1, JobRetryItem
<1>7. CASE RecoverUnion \/ RecoverDel
  BY <1>0, <1>7 DEF RecoverUnion, RecoverDel
<1>8. ASSUME NEW s \in Slots, CallStep(s) PROVE InFlightRecoverable'
  BY <1>1, <1>8, CallFrame DEF Base
<1>9. CASE ClaimFails \/ Discard \/ Crash
  BY <1>0, <1>1, <1>9 DEF ClaimFails, Discard, Crash, dbVars
<1>10. ASSUME (\E q \in QID : Edit(q)) \/ ReadEvent \/ Reconnect \/ FlushBatch
       PROVE  UNCHANGED <<processing, jobs>>
  BY <1>10 DEF Edit, ReadEvent, Reconnect, FlushBatch, dbVars
<1> QED BY <1>1, <1>2, <1>3, <1>4, <1>5, <1>6, <1>7, <1>8, <1>9, <1>10, NextCases

LEMMA FetchedStep ==
  ASSUME Base, NoOverlap, ApartInv, FetchedInv, Next
  PROVE  FetchedInv'
<1> USE SlotNames, JobTypes
<1>0. /\ jobs \in [Slots -> Job] /\ revision \in [QID -> 0..MaxEdits] /\ stored \in [QID -> 0..MaxEdits]
      /\ \A s, t \in Slots : s # t => jobs[s].qids \cap jobs[t].qids = {}
      /\ \A s \in Slots : /\ jobs[s].bad \subseteq jobs[s].qids /\ jobs[s].qids \subseteq QID
                          /\ jobs[s].todo \subseteq jobs[s].qids
                          /\ jobs[s].pc = "fetch" => jobs[s].todo = {}
      /\ \A s \in Slots : jobs[s].pc = "write" => \A q \in jobs[s].qids \ jobs[s].bad : Fresh(s, q)
  BY DEF Base, TypeInv, TypeOK, Job, JobInv, JobOK, ApartInv, FetchedInv
<1>1. ASSUME Ahead \subseteq Ahead', revision' = revision, stored' = stored,
             \A s \in Slots : jobs'[s].pc # "write" \/ \E t \in Slots : jobs'[s] = jobs[t]
      PROVE  FetchedInv'
  BY <1>0, <1>1 DEF FetchedInv, Fresh
<1>2. ASSUME NEW q \in QID, Edit(q) PROVE FetchedInv'
  <2>1. Ahead \subseteq Ahead' /\ q \in Ahead'
    BY <1>2, AheadEdit
  <2>2. jobs' = jobs /\ stored' = stored /\ \A p \in QID \ {q} : revision'[p] = revision[p]
    BY <1>0, <1>2 DEF Edit, dbVars
  <2> QED BY <1>0, <2>1, <2>2 DEF FetchedInv, Fresh
<1>3. CASE FlushBatch
  <2>1. \A s \in Slots : jobs[s].qids \cap ingest.batch = {}
    BY <1>3 DEF FlushBatch, Apart, NoOverlap, Held
  <2>2. Ahead \subseteq Ahead' \cup ingest.batch
    BY <1>3, AheadFlush
  <2>3. UNCHANGED <<jobs, revision, stored>>
    BY <1>3 DEF FlushBatch
  <2> QED BY <1>0, <2>1, <2>2, <2>3 DEF FetchedInv, Fresh
<1>a. CASE (\A q \in QID : ~Edit(q)) /\ ~FlushBatch
  <2>0. Ahead' = Ahead /\ revision' = revision
    BY <1>a, AheadSame
  <2>1. ASSUME NEW s \in Slots, FetchOk(s) PROVE FetchedInv'
    <3>1. jobs[s].pc = "fetch" /\ stored' = stored
      BY <2>1 DEF FetchOk, dbVars
    <3>2. \A q \in jobs'[s].qids \ jobs'[s].bad : q \in jobs'[s].todo /\ jobs'[s].got[q] = revision[q]
      BY <1>0, <2>1, JobFetchOk
    <3>3. \A t \in Slots \ {s} : jobs'[t] = jobs[t]
      BY <1>0, <2>1, JobFetchOk
    <3> QED BY <1>0, <2>0, <3>1, <3>2, <3>3 DEF FetchedInv, Fresh
  <2>2. ASSUME NEW s \in Slots, NEW q \in QID, WriteItem(s, q) PROVE FetchedInv'
    <3>0. jobs[s].pc = "write"
      BY <2>2 DEF WriteItem
    <3>1. \A t \in Slots \ {s} : jobs'[t] = jobs[t] /\ q \notin jobs[t].qids
      BY <1>0, <2>2, JobWriteItem
    <3>2. stored'[q] = jobs[s].got[q] /\ \A p \in QID \ {q} : stored'[p] = stored[p]
      BY <1>0, <2>2, JobWriteItem
    <3>3. /\ jobs'[s].qids = jobs[s].qids /\ jobs'[s].bad = jobs[s].bad
          /\ jobs'[s].todo = jobs[s].todo \ {q} /\ q \in jobs[s].todo
          /\ \A p \in QID \ {q} : jobs'[s].got[p] = jobs[s].got[p]
      BY <1>0, <2>2, JobWriteItem
    <3>4. ASSUME NEW p \in jobs'[s].qids \ jobs'[s].bad PROVE Fresh(s, p)'
      <4>1. Fresh(s, p) /\ p \in QID
        BY <1>0, <3>0, <3>3
      <4>2. CASE p = q
        BY <2>0, <3>2, <3>3, <4>1, <4>2 DEF Fresh
      <4>3. CASE p # q
        BY <2>0, <3>2, <3>3, <4>1, <4>3 DEF Fresh
      <4> QED BY <4>2, <4>3
    <3>5. ASSUME NEW t \in Slots \ {s}, jobs'[t].pc = "write", NEW p \in jobs'[t].qids \ jobs'[t].bad
          PROVE  Fresh(t, p)'
      <4>1. Fresh(t, p) /\ p \in QID /\ p # q
        BY <1>0, <3>1, <3>5
      <4> QED BY <2>0, <3>1, <3>2, <4>1 DEF Fresh
    <3> QED BY <3>4, <3>5 DEF FetchedInv
  <2>3. ASSUME NEW s \in Slots, FetchFails(s) \/ WriteFails(s) PROVE FetchedInv'
    <3>1. stored' = stored
      BY <2>3 DEF FetchFails, WriteFails, dbVars
    <3> QED BY <1>0, <1>1, <2>0, <2>3, <3>1, JobFails
  <2>4. CASE SkipHandle \/ HandleOk \/ AckFails
    <3>1. Continue /\ stored' = stored
      BY <2>4 DEF SkipHandle, HandleOk, AckFails, Continue, dbVars
    <3>2. \A s \in Slots : jobs'[s] \in {NoJob, jobs["next"], jobs["retry"]}
      BY <1>0, <3>1, JobContinue DEF Slots
    <3> QED BY <1>1, <2>0, <3>1, <3>2
  <2>5. ASSUME NEW q \in QID, RetryItem(q) PROVE FetchedInv'
    <3>1. stored' = stored /\ jobs["retry"].pc = "write" /\ jobs["retry"].todo = {}
      BY <2>5 DEF RetryItem, Succeeded
    <3>2. \A t \in Slots \ {"retry"} : jobs'[t] = jobs[t]
      BY <1>0, <2>5, JobRetryItem
    <3>3. jobs'["retry"].pc = "write" =>
            /\ jobs'["retry"].qids \ jobs'["retry"].bad \subseteq jobs["retry"].qids \ jobs["retry"].bad
            /\ jobs'["retry"].todo = {}
      BY <1>0, <2>5, JobRetryItem
    <3> QED BY <1>0, <2>0, <3>1, <3>2, <3>3 DEF FetchedInv, Fresh
  <2>6. ASSUME NEW S \in SUBSET QID, Claim(S) PROVE FetchedInv'
    <3>1. stored' = stored /\ (jobs' = jobs \/ jobs' = [jobs EXCEPT !["next"] = NewJob(S)])
      BY <2>6 DEF Claim
    <3> QED BY <1>0, <1>1, <2>0, <3>1
  <2>7. CASE RetryStart
    <3>1. stored' = stored /\ \E S : jobs' = [jobs EXCEPT !["retry"] = NewJob(S)]
      BY <2>7 DEF RetryStart, dbVars
    <3> QED BY <1>0, <1>1, <2>0, <3>1
  <2>8. CASE Discard \/ HandleError \/ Bail \/ RetryError
    <3>1. stored' = stored /\ \E s \in Slots : jobs' = [jobs EXCEPT ![s] = NoJob]
      BY <2>8 DEF Discard, HandleError, Bail, RetryError, dbVars
    <3> QED BY <1>0, <1>1, <2>0, <3>1
  <2>9. CASE Crash
    BY <1>1, <2>0, <2>9 DEF Crash, dbVars
  <2>10. CASE ReadEvent \/ Reconnect \/ ClaimFails \/ RecoverUnion \/ RecoverDel
    <3>1. UNCHANGED <<stored, jobs>>
      BY <2>10 DEF ReadEvent, Reconnect, ClaimFails, RecoverUnion, RecoverDel, dbVars
    <3> QED BY <1>1, <2>0, <3>1
  <2> QED BY <1>a, <2>1, <2>2, <2>3, <2>4, <2>5, <2>6, <2>7, <2>8, <2>9, <2>10, NextCases DEF CallStep
<1> QED BY <1>2, <1>3, <1>a

LEMMA NoLostEditStep ==
  ASSUME Base, EditInv, Next
  PROVE  NoLostEdit'
<1> USE SlotNames
<1>0. /\ jobs \in [Slots -> Job] /\ revision \in [QID -> 0..MaxEdits] /\ stored \in [QID -> 0..MaxEdits]
      /\ \A s \in Slots : jobs[s].pc = "write" => \A q \in jobs[s].qids \ jobs[s].bad : Fresh(s, q)
      /\ \A q \in QID : stored[q] # revision[q] => q \in pending \cup processing \cup failed.zset \cup Ahead
  BY DEF Base, TypeInv, TypeOK, EditInv, FetchedInv, NoLostEdit, Due, Ahead, FailedSet
<1>s. SUFFICES \A q \in QID : stored'[q] # revision'[q] =>
                 q \in pending' \cup processing' \cup failed'.zset \cup Ahead'
  BY DEF NoLostEdit, Due, Ahead, FailedSet
<1>1. ASSUME NEW q \in QID, Edit(q), NEW p \in QID, stored'[p] # revision'[p]
      PROVE  p \in pending' \cup processing' \cup failed'.zset \cup Ahead'
  <2>1. Ahead \subseteq Ahead' /\ q \in Ahead'
    BY <1>1, AheadEdit
  <2>2. UNCHANGED <<stored, pending, processing, failed>> /\ (p # q => revision'[p] = revision[p])
    BY <1>0, <1>1 DEF Edit, dbVars
  <2> QED BY <1>0, <1>1, <2>1, <2>2
<1>2. CASE FlushBatch
  <2>1. Ahead \subseteq Ahead' \cup pending' /\ pending \subseteq pending'
    BY <1>2, AheadFlush
  <2>2. UNCHANGED <<revision, processing, failed, stored>>
    BY <1>2 DEF FlushBatch
  <2> QED BY <1>0, <2>1, <2>2
<1>a. CASE (\A q \in QID : ~Edit(q)) /\ ~FlushBatch
  <2>0. Ahead' = Ahead /\ revision' = revision
    BY <1>a, AheadSame
  <2>g. ASSUME stored' = stored, pending \cup processing \subseteq pending' \cup processing',
               failed.zset \subseteq failed'.zset
        PROVE  NoLostEdit'
    BY <1>0, <2>0, <2>g DEF NoLostEdit, Due, Ahead, FailedSet
  <2>1. ASSUME NEW s \in Slots, NEW q \in QID, WriteItem(s, q), NEW p \in QID, stored'[p] # revision[p]
        PROVE  p \in pending' \cup processing' \cup failed'.zset \cup Ahead
    <3>1. /\ stored' = [stored EXCEPT ![q] = jobs[s].got[q]] /\ q \in jobs[s].todo /\ jobs[s].pc = "write"
          /\ UNCHANGED <<pending, processing, failed>>
      BY <2>1 DEF WriteItem
    <3>2. Fresh(s, q)
      BY <1>0, <3>1 DEF Base, JobInv, JobOK
    <3> QED BY <1>0, <2>1, <3>1, <3>2 DEF Fresh
  <2>2. CASE HandleOk
    <3>1. /\ jobs["pending"].pc = "write" /\ jobs["pending"].todo = {} /\ UNCHANGED <<pending, stored>>
          /\ processing' = processing \ jobs["pending"].qids
      BY <2>2 DEF HandleOk, Succeeded
    <3>2. failed'.zset = failed.zset \cup jobs["pending"].bad
      <4>1. PICK r \in Orders(jobs["pending"].bad) : failed' = Record(failed, jobs["pending"].bad, r)
        BY <2>2 DEF HandleOk
      <4>2. FailedOK(failed) /\ jobs["pending"].bad \in SUBSET QID
        BY DEF Base, TypeInv, TypeOK, Job
      <4> QED BY <4>1, <4>2, RecordOK
    <3>3. ASSUME NEW q \in QID, stored[q] # revision[q]
          PROVE  q \in pending \cup processing' \cup failed'.zset \cup Ahead
      BY <1>0, <3>1, <3>2, <3>3 DEF Fresh
    <3> QED BY <2>0, <3>1, <3>3
  <2>3. ASSUME NEW q \in QID, RetryItem(q), NEW p \in QID, stored'[p] # revision[p]
        PROVE  p \in pending' \cup processing' \cup failed'.zset \cup Ahead
    <3>1. /\ jobs["retry"].pc = "write" /\ jobs["retry"].todo = {} /\ q \in jobs["retry"].qids
          /\ UNCHANGED <<pending, processing, stored>>
      BY <2>3 DEF RetryItem, Succeeded
    <3>2. q \notin jobs["retry"].bad => q \in Ahead \/ stored[q] = revision[q]
      BY <1>0, <3>1 DEF Fresh
    <3>3. CASE failed.zset \subseteq failed'.zset
      BY <1>0, <2>3, <3>1, <3>3
    <3>4. CASE q \notin jobs["retry"].bad /\ failed.zset \ {q} \subseteq failed'.zset
      BY <1>0, <2>3, <3>1, <3>2, <3>4
    <3>5. \/ failed.zset \subseteq failed'.zset
          \/ q \notin jobs["retry"].bad /\ failed.zset \ {q} \subseteq failed'.zset
      BY <2>3, RetryRecord DEF Base, TypeInv
    <3> QED BY <3>3, <3>4, <3>5
  <2>f. ASSUME \A q \in QID : ~RetryItem(q) PROVE failed.zset \subseteq failed'.zset
    BY <2>f, FailedStep
  <2>4. ASSUME NEW s \in Slots, FetchOk(s) \/ FetchFails(s) \/ WriteFails(s) PROVE NoLostEdit'
    BY <2>g, <2>4 DEF FetchOk, FetchFails, WriteFails, dbVars
  <2>5. ASSUME NEW S \in SUBSET QID, Claim(S) PROVE NoLostEdit'
    BY <2>g, <2>5 DEF Claim
  <2>6. ASSUME ClaimFails \/ HandleError \/ Bail
        PROVE  NoLostEdit'
    BY <2>g, <2>6 DEF ClaimFails, HandleError, Bail, Requeue
  <2>7. ASSUME ReadEvent \/ Reconnect \/ Discard \/ SkipHandle \/ RetryStart \/ RetryError \/ Crash
        PROVE  NoLostEdit'
    BY <2>g, <2>7 DEF ReadEvent, Reconnect, Discard, SkipHandle, RetryStart, RetryError, Crash, dbVars
  <2>8. ASSUME AckFails
        PROVE  NoLostEdit'
    <3>1. UNCHANGED <<pending, processing, stored>>
      BY <2>8 DEF AckFails
    <3>2. failed.zset \subseteq failed'.zset
      <4>1. FailedOK(failed) /\ jobs["pending"].bad \in SUBSET QID
        BY DEF Base, TypeInv, TypeOK, Job
      <4>2. PICK S \in SUBSET jobs["pending"].bad : \E r \in Orders(S) : failed' = Record(failed, S, r)
        BY <2>8, Zenon DEF AckFails
      <4> QED BY <4>1, <4>2, RecordOK
    <3> QED BY <2>g, <3>1, <3>2
  <2>9. ASSUME RecoverUnion \/ RecoverDel
        PROVE  NoLostEdit'
    BY <2>g, <2>9 DEF RecoverUnion, RecoverDel, Base, RecoverInv
  <2>10. NoLostEdit' => \A q \in QID : stored'[q] # revision'[q] =>
                          q \in pending' \cup processing' \cup failed'.zset \cup Ahead'
    BY DEF NoLostEdit, Due, Ahead, FailedSet
  <2> QED BY <1>a, <2>0, <2>1, <2>2, <2>3, <2>4, <2>5, <2>6, <2>7, <2>8, <2>9, <2>10, NextCases
          DEF CallStep
<1> QED BY <1>1, <1>2, <1>a

\* A failure that is known stays known.
LEMMA FailuresStep ==
  ASSUME Base, ApartInv, InFlightRecoverable, Next,
         NEW s \in Slots, NEW p \in jobs[s].bad
  PROVE  \/ \E t \in Slots : p \in jobs'[t].bad
         \/ p \in failed'.zset \/ p \in pending' \/ p \in Stranded'
<1> USE SlotNames, JobTypes
<1>0. /\ jobs \in [Slots -> Job] /\ revision \in [QID -> 0..MaxEdits]
      /\ \A t \in Slots : /\ jobs[t].bad \subseteq jobs[t].qids
                          /\ jobs[t].pc \in {"none", "fetch"} => jobs[t].bad = {}
                          /\ jobs[t].pc = "none" => jobs[t].qids = {}
      /\ jobs["retry"].qids \subseteq failed.zset /\ FailedOK(failed)
      /\ jobs["pending"].bad \in SUBSET QID /\ p \in QID
      /\ \A t, w \in Slots : t # w => jobs[t].qids \cap jobs[w].qids = {}
      /\ s # "retry" => p \in processing
  BY DEF Base, TypeInv, TypeOK, Job, JobInv, JobOK, RetryInv, FailedSet, ApartInv, InFlightRecoverable,
         Slots
<1>1. CASE p \in jobs'[s].bad
  BY <1>1
<1>k. ASSUME processing' = processing, s # "retry",
             \A t \in {"pending", "next"} : p \notin jobs'[t].qids
      PROVE  p \in pending' \/ p \in Stranded'
  BY <1>0, <1>k DEF Stranded
<1>2. ASSUME NEW t \in Slots, CallStep(t) PROVE p \in jobs'[s].bad
  <2>1. CASE FetchOk(t)
    <3>1. jobs[t].pc = "fetch"
      BY <2>1 DEF FetchOk
    <3>2. jobs[t].bad = {}
      BY <1>0, <3>1
    <3>3. \A w \in Slots \ {t} : jobs'[w] = jobs[w]
      BY <1>0, <2>1, JobFetchOk
    <3> QED BY <3>2, <3>3
  <2>2. CASE FetchFails(t) \/ WriteFails(t)
    BY <1>0, <2>2, JobFails
  <2>3. ASSUME NEW q \in QID, WriteItem(t, q) PROVE p \in jobs'[s].bad
    BY <1>0, <2>3, JobWriteItem
  <2> QED BY <1>2, <2>1, <2>2, <2>3 DEF CallStep
<1>3. ASSUME NEW S \in SUBSET QID, Claim(S) PROVE p \in jobs'[s].bad
  <2>1. drain = "claim" /\ (jobs' = jobs \/ jobs' = [jobs EXCEPT !["next"] = NewJob(S)])
    BY <1>3 DEF Claim
  <2>2. jobs["next"].bad = {}
    BY <1>0, <2>1 DEF Base, DrainInv, Idle
  <2> QED BY <1>0, <2>1, <2>2
<1>4. CASE SkipHandle \/ HandleOk \/ AckFails
  <2>1. Continue /\ drain \in {"handle", "last"}
    BY <1>4 DEF SkipHandle, HandleOk, AckFails, Continue
  <2>2. CASE s = "pending"
    <3>1. CASE SkipHandle
      BY <1>0, <2>2, <3>1 DEF SkipHandle, Idle
    <3>2. CASE HandleOk
      BY <1>0, <2>2, <3>2, RecordOK DEF HandleOk
    <3>3. CASE AckFails
      <4>1. processing' = processing
        BY <3>3 DEF AckFails
      <4>2. \A t \in {"pending", "next"} : p \notin jobs'[t].qids
        BY <1>0, <2>1, <2>2, JobContinue DEF Base, DrainInv, Idle
      <4> QED BY <1>k, <2>2, <4>1, <4>2
    <3> QED BY <1>4, <3>1, <3>2, <3>3
  <2>3. CASE s # "pending"
    <3>1. drain = "last" => jobs["next"].bad = {}
      BY <1>0 DEF Base, DrainInv, Idle
    <3> QED BY <1>0, <2>1, <2>3, <3>1, JobContinue DEF Slots
  <2> QED BY <2>2, <2>3
<1>5. CASE HandleError \/ Bail \/ Discard
  <2>1. PICK t \in {"pending", "next"} :
          /\ jobs' = [jobs EXCEPT ![t] = NoJob]
          /\ processing' = processing \/ jobs[t].qids \subseteq pending'
    BY <1>0, <1>5 DEF HandleError, Bail, Discard, Requeue, dbVars
  <2>2. CASE s # t
    BY <1>0, <2>1, <2>2
  <2>3. CASE s = t
    <3>1. \A w \in {"pending", "next"} : p \notin jobs'[w].qids
      BY <1>0, <2>1, <2>3
    <3> QED BY <1>0, <1>k, <2>1, <2>3, <3>1
  <2> QED BY <2>2, <2>3
<1>6. CASE RetryStart
  <2>1. jobs["retry"].pc = "none" /\ \E S : jobs' = [jobs EXCEPT !["retry"] = NewJob(S)]
    BY <1>6 DEF RetryStart, Idle
  <2> QED BY <1>0, <1>1, <2>1
<1>7. CASE RetryError
  <2>1. failed' = failed /\ jobs' = [jobs EXCEPT !["retry"] = NoJob]
    BY <1>7 DEF RetryError, dbVars
  <2> QED BY <1>0, <1>1, <2>1
<1>8. ASSUME NEW q \in QID, RetryItem(q), p \notin jobs'[s].bad PROVE p \in failed'.zset
  <2>1. s = "retry"
    BY <1>0, <1>8, JobRetryItem
  <2>2. p = q
    BY <1>0, <1>8, <2>1, JobRetryItem
  <2> QED BY <1>0, <1>8, <2>1, <2>2, RetryRecord
<1>9. CASE Crash
  <2>1. /\ UNCHANGED <<processing, failed>>
        /\ jobs' = [t \in Slots |-> NoJob]
    BY <1>9 DEF Crash, dbVars
  <2> QED BY <1>0, <1>k, <2>1
<1>10. ASSUME (\E q \in QID : Edit(q)) \/ ReadEvent \/ FlushBatch \/ Reconnect \/ ClaimFails
              \/ RecoverUnion \/ RecoverDel
       PROVE  jobs' = jobs
  BY <1>10 DEF Edit, ReadEvent, FlushBatch, Reconnect, ClaimFails, RecoverUnion, RecoverDel
<1> QED BY <1>1, <1>2, <1>3, <1>4, <1>5, <1>6, <1>7, <1>8, <1>9, <1>10, NextCases

-------------------------------------------------------------------------
(* The theorems. *)

LEMMA QueueInvariant == Spec => []IInv
<1>1. Init => IInv
  <2> SUFFICES ASSUME Init PROVE IInv
    OBVIOUS
  <2>1. Base
    BY BaseInit
  <2>2. ApartInv /\ InFlightRecoverable /\ FetchedInv /\ NoLostEdit
    BY SlotNames, JobTypes
       DEF Init, ApartInv, InFlightRecoverable, FetchedInv, NoLostEdit
  <2> QED BY <2>1, <2>2 DEF IInv, EditInv
<1>2. IInv /\ [Next]_vars => IInv'
  <2> SUFFICES ASSUME IInv, [Next]_vars PROVE IInv'
    OBVIOUS
  <2>1. Base'
    BY BaseStep DEF IInv
  <2>2. CASE Next
    <3>1. ASSUME NoOverlap' PROVE EditInv'
      <4>1. NoOverlap /\ Base /\ EditInv
        BY <2>2, <3>1, NextCases DEF NoOverlap, IInv
      <4> QED BY <2>2, <4>1, ApartStep, InFlightStep, FetchedStep, NoLostEditStep DEF EditInv
    <3> QED BY <2>1, <3>1 DEF IInv
  <2>3. CASE UNCHANGED vars
    BY <2>1, <2>3
       DEF IInv, NoOverlap, EditInv, ApartInv, InFlightRecoverable, FetchedInv, Fresh,
           Ahead, NoLostEdit, Due, FailedSet, vars, queueVars, dbVars
  <2> QED BY <2>2, <2>3
<1> QED BY <1>1, <1>2, PTL DEF Spec

\* The types: in particular an item of the failed set has its failed:<id> hash,
\* also when a deletion fails half way, and the scores stay a total order, under
\* every record, deletion and retry.
THEOREM QueueTypeOK == Spec => []TypeOK
<1>1. IInv => TypeOK
  BY DEF IInv, Base, TypeInv
<1> QED BY <1>1, QueueInvariant, PTL

\* No edit is lost, for any items, batches, poison and faults, whichever call
\* fails, unless two calls hold one item.
THEOREM QueueNoLostEdit == Spec => [](NoOverlap => NoLostEdit)
<1>1. IInv => (NoOverlap => NoLostEdit)
  BY DEF IInv, EditInv
<1> QED BY <1>1, QueueInvariant, PTL

\* Batches in flight are in the processing set, under the same circumstances.
THEOREM QueueInFlightRecoverable == Spec => [](NoOverlap => InFlightRecoverable)
<1>1. IInv => (NoOverlap => InFlightRecoverable)
  BY DEF IInv, EditInv
<1> QED BY <1>1, QueueInvariant, PTL

\* In every circumstance, overlaps included, only the steps that NothingStranded
\* names leave an item in the processing set that no batch in flight holds.
THEOREM QueueNothingStranded == Spec => NothingStranded
<1> DEFINE Kept == up' = "run" => \/ Stranded' \subseteq Stranded
                                  \/ ClaimFails \/ Discard \/ AckFails
                                  \/ (HandleError \/ Bail) /\ faults' # faults
<1>1. IInv /\ [Next]_vars => [Kept]_vars
  BY StrandedStep DEF IInv
<1> QED BY <1>1, QueueInvariant, PTL DEF Spec, NothingStranded

\* A failure that a fetch reported is recorded, or its item is queued again, or
\* left where a restart finds it, in every step that follows, crashes included.
THEOREM QueueFailuresKept == Spec => FailuresKept
<1> DEFINE Kept == NoOverlap => Reported \subseteq Reported' \cup FailedSet' \cup pending' \cup Stranded'
<1>1. IInv /\ [Next]_vars => [Kept]_vars
  <2> SUFFICES ASSUME IInv, Next, NoOverlap, NEW p \in Reported
               PROVE  p \in Reported' \cup FailedSet' \cup pending' \cup Stranded'
    OBVIOUS
  <2>1. PICK s \in Slots : p \in jobs[s].bad
    BY DEF Reported
  <2>2. (\E t \in Slots : p \in jobs'[t].bad) \/ p \in failed'.zset \/ p \in pending' \/ p \in Stranded'
    BY <2>1, FailuresStep DEF IInv, EditInv
  <2> QED BY <2>2 DEF Reported, FailedSet
<1> QED BY <1>1, QueueInvariant, PTL DEF Spec, FailuresKept
==========================================================================
