----------------------------- MODULE Store ------------------------------
(***************************************************************************)
(* The Kvrocks data of one node: the entities hash, the reverse index      *)
(* (p:<property> hashes), the changelog stream, meta.entity_count, and the *)
(* goroutine that trims the changelog.  The Lua scripts run atomically on  *)
(* the server, so each is one action; the trimmer issues two commands      *)
(* (XRANGE, XTRIM) and any writer may run between them.                    *)
(*                                                                         *)
(* A mappings JSON is a member of Doc; EntriesOf gives the identifiers it  *)
(* lists.  Two documents may list the same identifiers (the JSON strings   *)
(* differ by rank order), and a document may list none ("[]").  A stream   *)
(* is the set of its entries, ordered by their ids.                        *)
(***************************************************************************)
EXTENDS Integers, FiniteSets

CONSTANTS
  QID,        \* Wikidata items
  Entry,      \* "P<property>:<value>" identifiers
  Doc,        \* mappings documents
  EntriesOf,  \* EntriesOf[d]: the identifiers document d lists
  NoDoc,      \* no such field in the entities hash; the "m" of a delete entry
  TrimBatch,  \* entries one trim cycle may remove (trimBatchSize)
  MaxId,      \* bound: stream ids used in a run
  MaxErrors   \* bound: failed trim cycles in a run

ASSUME EntriesOfAssumption == EntriesOf \in [Doc -> SUBSET Entry]
ASSUME QIDAssumption == IsFiniteSet(QID)
ASSUME NoDocAssumption == NoDoc \notin Doc
ASSUME BoundsAssumption == /\ TrimBatch \in Nat \ {0}
                           /\ MaxId \in Nat
                           /\ MaxErrors \in Nat

VARIABLES
  entities,     \* HGETALL entities
  index,        \* index[e]: the eids listed at HGET p:<prop> <value>; {} is no field
  entityCount,  \* HGET meta entity_count
  changelog,    \* XRANGE changelog - +
  lastId,       \* the newest id XADD * has issued (ids follow the clock, FLUSHDB does not reset it)
  trim          \* the trimmer: its step, the cutoff of this tick, the id for XTRIM, its errors

dataVars == <<entities, index, entityCount, changelog, lastId>>
vars == <<entities, index, entityCount, changelog, lastId, trim>>

DocOrNone == Doc \cup {NoDoc}
EntriesIn(d) == IF d = NoDoc THEN {} ELSE EntriesOf[d]
TrimState == [pc : {"wait", "xtrim"}, cutoff : 0..MaxId + 1, id : 0..MaxId, errors : 0..MaxErrors]
LogEntry == [id : 1..MaxId, q : QID, d : DocOrNone]

TypeOK == /\ entities \in [QID -> DocOrNone]
          /\ index \in [Entry -> SUBSET QID]
          /\ entityCount \in Nat
          /\ changelog \subseteq LogEntry
          /\ lastId \in 0..MaxId
          /\ trim \in TrimState

Init == /\ entities = [q \in QID |-> NoDoc]
        /\ index = [e \in Entry |-> {}]
        /\ entityCount = 0
        /\ changelog = {}
        /\ lastId = 0
        /\ trim = [pc |-> "wait", cutoff |-> 0, id |-> 0, errors |-> 0]

-------------------------------------------------------------------------
(* The write scripts. *)

\* Faulty variant: replaced entries are never taken out of the index.
ReindexAddOnly(q, old, new) ==
  [e \in Entry |-> IF e \in new \ old THEN index[e] \cup {q} ELSE index[e]]

\* add_idx on every entry of new that old lacks, del_idx on every entry of
\* old that new lacks.
Reindex(q, old, new) ==
  [e \in Entry |-> CASE e \in new \ old -> index[e] \cup {q}
                     [] e \in old \ new -> index[e] \ {q}
                     [] OTHER -> index[e]]

\* XADD changelog * q <eid> m <d>
Xadd(q, d) == /\ lastId < MaxId
              /\ lastId' = lastId + 1
              /\ changelog' = changelog \cup {[id |-> lastId + 1, q |-> q, d |-> d]}

\* Faulty variants: the string comparison is lost, every write counts as new.
UpsertEcho(q, d) ==
  /\ entities' = [entities EXCEPT ![q] = d]
  /\ index' = Reindex(q, EntriesIn(entities[q]), EntriesOf[d])
  /\ Xadd(q, d)
  /\ entityCount' = entityCount + (IF entities[q] = NoDoc THEN 1 ELSE 0)
  /\ UNCHANGED trim

UpsertCountsAll(q, d) ==
  /\ entities[q] # d
  /\ entities' = [entities EXCEPT ![q] = d]
  /\ index' = Reindex(q, EntriesIn(entities[q]), EntriesOf[d])
  /\ Xadd(q, d)
  /\ entityCount' = entityCount + 1
  /\ UNCHANGED trim

\* upsertScript: nothing happens when the stored string equals the new one.
Upsert(q, d) ==
  /\ entities[q] # d
  /\ entities' = [entities EXCEPT ![q] = d]
  /\ index' = Reindex(q, EntriesIn(entities[q]), EntriesOf[d])
  /\ Xadd(q, d)
  /\ entityCount' = entityCount + (IF entities[q] = NoDoc THEN 1 ELSE 0)
  /\ UNCHANGED trim

\* Faulty variant: a delete of a missing entity still counts.
DeleteUnguarded(q) ==
  /\ entities' = [entities EXCEPT ![q] = NoDoc]
  /\ index' = Reindex(q, EntriesIn(entities[q]), {})
  /\ Xadd(q, NoDoc)
  /\ entityCount' = entityCount - 1
  /\ UNCHANGED trim

\* deleteScript: nothing happens when the entity is already gone.
Delete(q) ==
  /\ entities[q] # NoDoc
  /\ entities' = [entities EXCEPT ![q] = NoDoc]
  /\ index' = Reindex(q, EntriesIn(entities[q]), {})
  /\ Xadd(q, NoDoc)
  /\ entityCount' = entityCount - 1
  /\ UNCHANGED trim

\* FlushData: FLUSHDB (the schema_version written next is in module Primary).
FlushDB ==
  /\ entities' = [q \in QID |-> NoDoc]
  /\ index' = [e \in Entry |-> {}]
  /\ entityCount' = 0
  /\ changelog' = {}
  /\ UNCHANGED <<lastId, trim>>

-------------------------------------------------------------------------
(* The changelog trimmer. *)

Older(cutoff) == {x \in changelog : x.id < cutoff}

\* t is the id of the last entry of S when S is read from its start, n at most.
LastOfFirst(S, n, t) ==
  \E x \in S : /\ x.id = t
               /\ \/ Cardinality({y \in S : y.id <= t}) = n
                  \/ /\ Cardinality({y \in S : y.id <= t}) < n
                     /\ \A y \in S : y.id <= t

\* Faulty variant: XRANGE asks for limit entries, not limit+1.
TrimTickNoExtra(cutoff) ==
  /\ trim.pc = "wait"
  /\ trim.cutoff <= cutoff
  /\ \/ /\ Older(cutoff) = {}
        /\ trim' = [trim EXCEPT !.cutoff = cutoff]
     \/ \E t \in 1..MaxId :
          /\ LastOfFirst(Older(cutoff), TrimBatch, t)
          /\ trim' = [trim EXCEPT !.pc = "xtrim", !.cutoff = cutoff, !.id = t]
  /\ UNCHANGED dataVars

\* A tick: XRANGE changelog - (<cutoff> COUNT limit+1.  The cutoff is the
\* clock minus the retention, so it only moves forward.
TrimTick(cutoff) ==
  /\ trim.pc = "wait"
  /\ trim.cutoff <= cutoff
  /\ \/ /\ Older(cutoff) = {}
        /\ trim' = [trim EXCEPT !.cutoff = cutoff]
     \/ \E t \in 1..MaxId :
          /\ LastOfFirst(Older(cutoff), TrimBatch + 1, t)
          /\ trim' = [trim EXCEPT !.pc = "xtrim", !.cutoff = cutoff, !.id = t]
  /\ UNCHANGED dataVars

\* Faulty variant: the entry named by MINID goes too.
TrimXtrimInclusive ==
  /\ trim.pc = "xtrim"
  /\ changelog' = {x \in changelog : x.id > trim.id}
  /\ trim' = [trim EXCEPT !.pc = "wait"]
  /\ UNCHANGED <<entities, index, entityCount, lastId>>

\* XTRIM changelog MINID <id>
TrimXtrim ==
  /\ trim.pc = "xtrim"
  /\ changelog' = {x \in changelog : x.id >= trim.id}
  /\ trim' = [trim EXCEPT !.pc = "wait"]
  /\ UNCHANGED <<entities, index, entityCount, lastId>>

\* XTRIM fails: the tick ends and the next one starts over.
TrimFails ==
  /\ trim.pc = "xtrim"
  /\ trim.errors < MaxErrors
  /\ trim' = [trim EXCEPT !.pc = "wait", !.errors = @ + 1]
  /\ UNCHANGED dataVars

Trimmer == (\E cutoff \in 0..lastId + 1 : TrimTick(cutoff)) \/ TrimXtrim

Next == \/ \E q \in QID, d \in Doc : Upsert(q, d)
        \/ \E q \in QID : Delete(q)
        \/ FlushDB
        \/ Trimmer
        \/ TrimFails

Spec == Init /\ [][Next]_vars

\* A tick whose clock has moved on since the last one.
LaterTick == \E cutoff \in trim.cutoff + 1..lastId + 1 : TrimTick(cutoff)

\* The timer of RunChangelogTrimmer is reset on every path, so ticks never
\* stop, and the clock they read keeps advancing.
FairSpec == Spec /\ WF_vars(Trimmer) /\ SF_vars(LaterTick)

-------------------------------------------------------------------------
(* The readers. *)

Empty(d) == EntriesIn(d) = {}

\* LookupByProperty: the eids of the index field that still have an entity
\* whose mappings are not "[]".
LookupByProperty(e) == {q \in index[e] : entities[q] # NoDoc /\ ~Empty(entities[q])}

\* LookupByWikidataID: an entity without mappings is reported as missing.
LookupByWikidataID(q) == IF Empty(entities[q]) THEN NoDoc ELSE entities[q]

-------------------------------------------------------------------------
(* Properties. *)

\* The reverse index and the entities hash never disagree: an eid is listed
\* under an identifier exactly when its stored document lists it, whatever
\* sequence of replacements, reorderings, deletes and flushes came before
\* (the set difference of upsertScript, the loops of deleteScript).
IndexExact ==
  \A e \in Entry, q \in QID : q \in index[e] <=> e \in EntriesIn(entities[q])

\* The two read paths agree: the API finds an item by an identifier exactly
\* when it finds that identifier on the item (reader.go LookupBy*).
LookupsAgree ==
  \A e \in Entry, q \in QID :
    q \in LookupByProperty(e) <=> e \in EntriesIn(LookupByWikidataID(q))

\* meta.entity_count, kept by HINCRBY in the scripts, is the number of
\* entities (the count /health and snapshots report).
EntityCountExact == entityCount = Cardinality({q \in QID : entities[q] # NoDoc})

\* Every entry that is the newest one of its item holds the item's current
\* document: the changelog never lags, leads or contradicts the entities
\* hash, however it was trimmed.
Newest(x) == \A y \in changelog : y.q = x.q => y.id <= x.id
ChangelogTracksEntities ==
  \A x \in changelog : Newest(x) => entities[x.q] = x.d

\* No echo: two successive entries of one item never hold the same document,
\* so a follower that applies one always changes its own store (and, chained,
\* writes exactly one entry of its own).
Successive(x, y) == /\ x.q = y.q
                    /\ x.id < y.id
                    /\ ~ \E z \in changelog : z.q = x.q /\ x.id < z.id /\ z.id < y.id
NoEcho == \A x, y \in changelog : Successive(x, y) => x.d # y.d

\* Both together: a follower that replays the changelog from any entry on ends
\* with the entities, and writes one entry for each it reads.
ChangelogReplays == ChangelogTracksEntities /\ NoEcho

\* A trim removes only a prefix of the stream, at most TrimBatch entries,
\* none as new as the cutoff, and never the newest entry, whatever was
\* written or flushed between its XRANGE and its XTRIM.
TrimRemovesOldPrefix ==
  [][TrimXtrim =>
       LET removed == changelog \ changelog'
       IN  /\ \A x \in removed, y \in changelog' : x.id < y.id
           /\ \A x \in removed : x.id < trim.cutoff
           /\ Cardinality(removed) <= TrimBatch
           /\ changelog # {} => changelog' # {}]_vars

\* The trimmer keeps up: every entry that has a successor is removed in the
\* end, though a tick removes only a batch, spares the entry it names, and may
\* fail.
BacklogDrains ==
  \A i \in 1..MaxId :
    (\E x, y \in changelog : x.id = i /\ x.id < y.id) ~> ~ \E x \in changelog : x.id = i

-------------------------------------------------------------------------
(* The store implements CrossReference: its index is the inverse of its    *)
(* entities at every step.                                                 *)
CR == INSTANCE CrossReference WITH
        xref <- [q \in QID |-> EntriesIn(entities[q])],
        lookup <- index
ImplementsCrossReference == CR!Spec
=========================================================================
