--------------------------- MODULE StoreProofs --------------------------
(***************************************************************************)
(* Proofs about Store for any set of items, identifiers and documents and  *)
(* any trim batch.  TypeCore, IndexExact and EntityCountExact are          *)
(* inductive together; the changelog properties rest on LogBelow (no entry *)
(* is newer than the last id issued).                                      *)
(***************************************************************************)
EXTENDS Store, FiniteSetTheorems, TLAPS

\* TypeOK with the range of the counter left open: that it never becomes
\* negative follows from EntityCountExact.
TypeCore == /\ entities \in [QID -> DocOrNone]
            /\ index \in [Entry -> SUBSET QID]
            /\ entityCount \in Int
            /\ changelog \subseteq LogEntry
            /\ lastId \in 0..MaxId
            /\ trim \in TrimState

\* The type invariant is inductive: every script and every trim step keeps
\* the variables in their ranges.
LEMMA TypeCoreInductive ==
  /\ Init => TypeCore
  /\ TypeCore /\ [Next]_vars => TypeCore'
<1> USE BoundsAssumption, EntriesOfAssumption DEF TypeCore, DocOrNone
<1>1. Init => TypeCore
  BY DEF Init, TrimState
<1>2. ASSUME TypeCore, [Next]_vars PROVE TypeCore'
  <2>1. ASSUME NEW q \in QID, NEW d \in Doc, Upsert(q, d) PROVE TypeCore'
    <3>1. index' \in [Entry -> SUBSET QID]
      BY <1>2, <2>1 DEF Upsert, Reindex
    <3>2. changelog' \subseteq LogEntry /\ lastId' \in 0..MaxId
      BY <1>2, <2>1 DEF Upsert, Xadd, LogEntry
    <3>3. entities' \in [QID -> DocOrNone] /\ entityCount' \in Int /\ UNCHANGED trim
      BY <1>2, <2>1 DEF Upsert
    <3> QED BY <1>2, <3>1, <3>2, <3>3
  <2>2. ASSUME NEW q \in QID, Delete(q) PROVE TypeCore'
    <3>1. index' \in [Entry -> SUBSET QID]
      BY <1>2, <2>2 DEF Delete, Reindex
    <3>2. changelog' \subseteq LogEntry /\ lastId' \in 0..MaxId
      BY <1>2, <2>2 DEF Delete, Xadd, LogEntry
    <3>3. entities' \in [QID -> DocOrNone] /\ entityCount' \in Int /\ UNCHANGED trim
      BY <1>2, <2>2 DEF Delete
    <3> QED BY <1>2, <3>1, <3>2, <3>3
  <2>3. CASE FlushDB
    BY <1>2, <2>3 DEF FlushDB
  <2>4. ASSUME NEW cutoff \in 0..lastId + 1, TrimTick(cutoff) PROVE TypeCore'
    <3>1. cutoff \in 0..MaxId + 1
      BY <1>2, <2>4
    <3>2. \/ trim' = [trim EXCEPT !.cutoff = cutoff]
          \/ \E t \in 1..MaxId :
               trim' = [trim EXCEPT !.pc = "xtrim", !.cutoff = cutoff, !.id = t]
      BY <2>4 DEF TrimTick
    <3>3. trim \in TrimState
      BY <1>2
    <3>4. ASSUME trim' = [trim EXCEPT !.cutoff = cutoff] PROVE trim' \in TrimState
      BY <3>1, <3>3, <3>4 DEF TrimState
    <3>5. ASSUME NEW t \in 1..MaxId,
                 trim' = [trim EXCEPT !.pc = "xtrim", !.cutoff = cutoff, !.id = t]
          PROVE trim' \in TrimState
      <4>1. t \in 0..MaxId
        OBVIOUS
      <4> QED BY <3>1, <3>3, <3>5, <4>1 DEF TrimState
    <3>6. UNCHANGED dataVars
      BY <2>4 DEF TrimTick
    <3> QED BY <1>2, <3>2, <3>4, <3>5, <3>6 DEF dataVars
  <2>5. CASE TrimXtrim
    <3>1. trim' \in TrimState
      BY <1>2, <2>5 DEF TrimXtrim, TrimState
    <3> QED BY <1>2, <2>5, <3>1 DEF TrimXtrim
  <2>6. CASE TrimFails
    <3>1. trim.errors + 1 \in 0..MaxErrors
      BY <1>2, <2>6 DEF TrimFails, TrimState
    <3>2. trim' \in TrimState
      BY <1>2, <2>6, <3>1 DEF TrimFails, TrimState
    <3> QED BY <1>2, <2>6, <3>2 DEF TrimFails, dataVars
  <2>7. CASE UNCHANGED vars
    BY <1>2, <2>7 DEF vars
  <2> QED BY <1>2, <2>1, <2>2, <2>3, <2>4, <2>5, <2>6, <2>7 DEF Next, Trimmer
<1> QED BY <1>1, <1>2

-------------------------------------------------------------------------
\* The reverse index is exact after every step: the two write scripts keep
\* an eid listed under exactly the identifiers of its stored document.
LEMMA IndexExactInductive ==
  /\ Init => IndexExact
  /\ TypeCore /\ IndexExact /\ [Next]_vars => IndexExact'
<1> USE NoDocAssumption DEF IndexExact, EntriesIn
<1>1. Init => IndexExact
  BY DEF Init
<1>2. ASSUME TypeCore, IndexExact, [Next]_vars PROVE IndexExact'
  <2>1. ASSUME NEW p \in QID, NEW d \in Doc, Upsert(p, d) PROVE IndexExact'
    <3> SUFFICES ASSUME NEW e \in Entry, NEW q \in QID
                 PROVE (q \in index[e] <=> e \in EntriesIn(entities[q]))'
      OBVIOUS
    <3>1. entities' = [entities EXCEPT ![p] = d]
      BY <2>1 DEF Upsert
    <3>2. index'[e] = CASE e \in EntriesOf[d] \ EntriesIn(entities[p]) -> index[e] \cup {p}
                        [] e \in EntriesIn(entities[p]) \ EntriesOf[d] -> index[e] \ {p}
                        [] OTHER -> index[e]
      BY <2>1 DEF Upsert, Reindex
    <3>3. CASE q = p
      BY <1>2, <3>1, <3>2, <3>3 DEF TypeCore
    <3>4. CASE q # p
      BY <1>2, <3>1, <3>2, <3>4 DEF TypeCore
    <3> QED BY <3>3, <3>4
  <2>2. ASSUME NEW p \in QID, Delete(p) PROVE IndexExact'
    <3> SUFFICES ASSUME NEW e \in Entry, NEW q \in QID
                 PROVE (q \in index[e] <=> e \in EntriesIn(entities[q]))'
      OBVIOUS
    <3>1. entities' = [entities EXCEPT ![p] = NoDoc]
      BY <2>2 DEF Delete
    <3>2. index'[e] = IF e \in EntriesIn(entities[p]) THEN index[e] \ {p} ELSE index[e]
      BY <2>2 DEF Delete, Reindex
    <3>3. CASE q = p
      BY <1>2, <3>1, <3>2, <3>3 DEF TypeCore
    <3>4. CASE q # p
      BY <1>2, <3>1, <3>2, <3>4 DEF TypeCore
    <3> QED BY <3>3, <3>4
  <2>3. CASE FlushDB
    BY <2>3 DEF FlushDB
  <2>4. CASE UNCHANGED <<entities, index>>
    BY <1>2, <2>4
  <2> QED BY <1>2, <2>1, <2>2, <2>3, <2>4
          DEF Next, Trimmer, TrimTick, TrimXtrim, TrimFails, dataVars, vars
<1> QED BY <1>1, <1>2

\* Both read paths of the API follow from the exact index.
LEMMA IndexExactLookups == TypeCore /\ IndexExact => LookupsAgree
<1> SUFFICES ASSUME TypeCore, IndexExact, NEW e \in Entry, NEW q \in QID
             PROVE q \in LookupByProperty(e) <=> e \in EntriesIn(LookupByWikidataID(q))
  BY DEF LookupsAgree
<1>1. LookupByWikidataID(q) \in {NoDoc, entities[q]}
  BY DEF LookupByWikidataID
<1> QED BY <1>1 DEF IndexExact, LookupByProperty, LookupByWikidataID, Empty, EntriesIn

-------------------------------------------------------------------------
Present == {q \in QID : entities[q] # NoDoc}

\* meta.entity_count follows the size of the entities hash through every
\* script and flush.
LEMMA EntityCountInductive ==
  /\ Init => EntityCountExact
  /\ TypeCore /\ EntityCountExact /\ [Next]_vars => EntityCountExact'
<1> USE NoDocAssumption, QIDAssumption
<1>1. Init => EntityCountExact
  BY FS_EmptySet DEF Init, EntityCountExact
<1>2. ASSUME TypeCore, EntityCountExact, [Next]_vars PROVE EntityCountExact'
  <2>0. IsFiniteSet(Present) /\ entityCount = Cardinality(Present) /\ Cardinality(Present) \in Nat
    BY <1>2, FS_Subset, FS_CardinalityType DEF Present, EntityCountExact
  <2> SUFFICES entityCount' = Cardinality(Present')
    BY DEF Present, EntityCountExact
  <2>1. ASSUME NEW p \in QID, NEW d \in Doc, Upsert(p, d) PROVE entityCount' = Cardinality(Present')
    <3>1. CASE entities[p] = NoDoc
      <4>1. p \notin Present /\ Present' = Present \cup {p}
        BY <1>2, <2>1, <3>1 DEF Upsert, Present, TypeCore
      <4>2. Cardinality(Present \cup {p}) = Cardinality(Present) + 1
        BY <2>0, <4>1, FS_AddElement
      <4> QED BY <2>0, <2>1, <3>1, <4>1, <4>2 DEF Upsert
    <3>2. CASE entities[p] # NoDoc
      <4>1. Present' = Present
        BY <1>2, <2>1, <3>2 DEF Upsert, Present, TypeCore
      <4> QED BY <2>0, <2>1, <3>2, <4>1 DEF Upsert
    <3> QED BY <3>1, <3>2
  <2>2. ASSUME NEW p \in QID, Delete(p) PROVE entityCount' = Cardinality(Present')
    <3>1. p \in Present /\ Present' = Present \ {p}
      BY <1>2, <2>2 DEF Delete, Present, TypeCore
    <3>2. Cardinality(Present \ {p}) = Cardinality(Present) - 1
      BY <2>0, <3>1, FS_RemoveElement
    <3> QED BY <2>0, <2>2, <3>1, <3>2 DEF Delete
  <2>3. CASE FlushDB
    <3>1. Present' = {}
      BY <2>3 DEF FlushDB, Present
    <3> QED BY <2>3, <3>1, FS_EmptySet DEF FlushDB
  <2>4. CASE UNCHANGED <<entities, entityCount>>
    BY <2>0, <2>4 DEF Present
  <2> QED BY <1>2, <2>1, <2>2, <2>3, <2>4
          DEF Next, Trimmer, TrimTick, TrimXtrim, TrimFails, dataVars, vars
<1> QED BY <1>1, <1>2

\* The counter is the size of a finite set, hence a natural number.
LEMMA CountedType == TypeCore /\ EntityCountExact => TypeOK
<1> SUFFICES ASSUME TypeCore, EntityCountExact PROVE entityCount \in Nat
  BY DEF TypeCore, TypeOK
<1> QED BY QIDAssumption, FS_Subset, FS_CardinalityType DEF EntityCountExact

\* No command sequence takes a variable of the store out of its range; in
\* particular meta.entity_count never becomes negative.
THEOREM StoreTypeOK == Spec => []TypeOK
<1>1. Init => TypeCore /\ EntityCountExact
  BY TypeCoreInductive, EntityCountInductive
<1>2. TypeCore /\ EntityCountExact /\ [Next]_vars => (TypeCore /\ EntityCountExact)'
  BY TypeCoreInductive, EntityCountInductive
<1>3. TypeCore /\ EntityCountExact => TypeOK
  BY CountedType
<1> QED BY <1>1, <1>2, <1>3, PTL DEF Spec

\* meta.entity_count is always the number of stored entities.
THEOREM StoreEntityCount == Spec => []EntityCountExact
<1>1. Init => TypeCore /\ EntityCountExact
  BY TypeCoreInductive, EntityCountInductive
<1>2. TypeCore /\ EntityCountExact /\ [Next]_vars => (TypeCore /\ EntityCountExact)'
  BY TypeCoreInductive, EntityCountInductive
<1> QED BY <1>1, <1>2, PTL DEF Spec

\* The reverse index and the entities hash agree in every reachable state,
\* and with them the two read paths of the API.
THEOREM StoreIndexExact == Spec => [](IndexExact /\ LookupsAgree)
<1>1. Init => TypeCore /\ IndexExact
  BY TypeCoreInductive, IndexExactInductive
<1>2. TypeCore /\ IndexExact /\ [Next]_vars => (TypeCore /\ IndexExact)'
  BY TypeCoreInductive, IndexExactInductive
<1>3. TypeCore /\ IndexExact => LookupsAgree
  BY IndexExactLookups
<1> QED BY <1>1, <1>2, <1>3, PTL DEF Spec

-------------------------------------------------------------------------
\* The store refines CrossReference: each write script replaces the
\* identifiers of one item, or is a stutter when only their order changes.
THEOREM StoreImplementsCrossReference == Spec => ImplementsCrossReference
<1> USE NoDocAssumption, EntriesOfAssumption
<1> DEFINE xr == [q \in QID |-> EntriesIn(entities[q])]
<1>1. Init => CR!Init
  BY DEF Init, CR!Init, EntriesIn
<1>2. ASSUME TypeCore, IndexExact, IndexExact', TypeCore', [Next]_vars PROVE [CR!Next]_CR!vars
  <2>1. index' = [e \in Entry |-> CR!Carriers(xr', e)]
    <3>1. \A e \in Entry : index'[e] = CR!Carriers(xr', e)
      BY <1>2 DEF TypeCore, IndexExact, CR!Carriers
    <3> QED BY <1>2, <3>1 DEF TypeCore
  <2>2. ASSUME NEW p \in QID, NEW d \in DocOrNone, entities' = [entities EXCEPT ![p] = d]
        PROVE CR!Next
    <3>1. EntriesIn(d) \in SUBSET Entry
      BY DEF EntriesIn, DocOrNone
    <3>2. xr' = [xr EXCEPT ![p] = EntriesIn(d)]
      BY <1>2, <2>2 DEF TypeCore
    <3>3. CR!Replace(p, EntriesIn(d))
      BY <2>1, <3>2 DEF CR!Replace
    <3> QED BY <3>1, <3>3 DEF CR!Next
  <2>3. ASSUME NEW p \in QID, NEW d \in Doc, Upsert(p, d) PROVE CR!Next
    BY <2>2, <2>3 DEF Upsert, DocOrNone
  <2>4. ASSUME NEW p \in QID, Delete(p) PROVE CR!Next
    BY <2>2, <2>4 DEF Delete, DocOrNone
  <2>5. CASE FlushDB
    <3>1. xr' = [q \in QID |-> {}] /\ index' = [e \in Entry |-> {}]
      BY <2>5 DEF FlushDB, EntriesIn
    <3> QED BY <3>1 DEF CR!Next, CR!Clear
  <2>6. CASE UNCHANGED <<entities, index>>
    BY <2>6 DEF CR!vars
  <2> QED BY <1>2, <2>3, <2>4, <2>5, <2>6
          DEF Next, Trimmer, TrimTick, TrimXtrim, TrimFails, dataVars, vars
<1>3. Init => TypeCore /\ IndexExact
  BY TypeCoreInductive, IndexExactInductive
<1>4. TypeCore /\ IndexExact /\ [Next]_vars => (TypeCore /\ IndexExact)'
  BY TypeCoreInductive, IndexExactInductive
<1> QED BY <1>1, <1>2, <1>3, <1>4, PTL DEF Spec, CR!Spec, ImplementsCrossReference

-------------------------------------------------------------------------
(* The changelog. *)

\* No entry is newer than the newest id XADD has issued.
LogBelow == \A x \in changelog : x.id <= lastId

ChangelogInv == LogBelow /\ ChangelogTracksEntities /\ NoEcho

\* One logged write: the item's new document, different from the old one, is
\* appended under a fresh id.  Both write scripts have this shape.
LEMMA LoggedWriteKeepsChangelogInv ==
  ASSUME TypeCore, ChangelogInv, NEW p \in QID, NEW d \in DocOrNone,
         entities[p] # d, entities' = [entities EXCEPT ![p] = d], Xadd(p, d)
  PROVE  ChangelogInv'
<1> DEFINE new == [id |-> lastId + 1, q |-> p, d |-> d]
<1>1. /\ changelog' = changelog \cup {new}
      /\ lastId' = lastId + 1
      /\ lastId \in Int
      /\ \A x \in changelog : x.id \in Int /\ x.id <= lastId /\ x.q \in QID
      /\ new.id = lastId + 1 /\ new.q = p /\ new.d = d
  BY BoundsAssumption DEF Xadd, TypeCore, LogEntry, ChangelogInv, LogBelow
<1> HIDE DEF new
<1>2. LogBelow'
  BY <1>1 DEF LogBelow
<1>3. ChangelogTracksEntities'
  <2> SUFFICES ASSUME NEW x \in changelog', Newest(x)' PROVE entities'[x.q] = x.d
    BY DEF ChangelogTracksEntities
  <2>1. CASE x = new
    BY <1>1, <2>1 DEF TypeCore
  <2>2. CASE x \in changelog
    <3>1. Newest(x)
      BY <1>1, <2>2 DEF Newest
    <3>2. x.q # p
      BY <1>1, <2>2 DEF Newest
    <3> QED BY <1>1, <2>2, <3>1, <3>2 DEF ChangelogInv, ChangelogTracksEntities, TypeCore
  <2> QED BY <1>1, <2>1, <2>2
<1>4. NoEcho'
  <2> SUFFICES ASSUME NEW x \in changelog', NEW y \in changelog', Successive(x, y)' PROVE x.d # y.d
    BY DEF NoEcho
  <2>1. CASE y = new
    <3>1. x \in changelog /\ x.q = p
      BY <1>1, <2>1 DEF Successive
    <3>2. Newest(x)
      BY <1>1, <2>1, <3>1 DEF Successive, Newest
    <3> QED BY <1>1, <2>1, <3>1, <3>2 DEF ChangelogInv, ChangelogTracksEntities
  <2>2. CASE y \in changelog
    <3>1. x \in changelog
      BY <1>1, <2>2 DEF Successive
    <3>2. Successive(x, y)
      BY <1>1, <2>2, <3>1 DEF Successive
    <3> QED BY <2>2, <3>1, <3>2 DEF ChangelogInv, NoEcho
  <2> QED BY <1>1, <2>1, <2>2
<1> QED BY <1>2, <1>3, <1>4 DEF ChangelogInv

\* The changelog and the entities hash move together through every script,
\* trim and flush.
LEMMA ChangelogInvInductive ==
  /\ Init => ChangelogInv
  /\ TypeCore /\ ChangelogInv /\ [Next]_vars => ChangelogInv'
<1>1. Init => ChangelogInv
  BY DEF Init, ChangelogInv, LogBelow, ChangelogTracksEntities, NoEcho
<1>2. ASSUME TypeCore, ChangelogInv, [Next]_vars PROVE ChangelogInv'
  <2>1. ASSUME NEW p \in QID, NEW d \in Doc, Upsert(p, d) PROVE ChangelogInv'
    BY <1>2, <2>1, LoggedWriteKeepsChangelogInv DEF Upsert, DocOrNone
  <2>2. ASSUME NEW p \in QID, Delete(p) PROVE ChangelogInv'
    BY <1>2, <2>2, LoggedWriteKeepsChangelogInv DEF Delete, DocOrNone
  <2>3. CASE FlushDB
    BY <2>3 DEF FlushDB, ChangelogInv, LogBelow, ChangelogTracksEntities, NoEcho
  <2>4. CASE TrimXtrim
    <3>1. /\ changelog' = {x \in changelog : x.id >= trim.id}
          /\ UNCHANGED <<entities, lastId>>
          /\ \A x \in changelog : x.id \in Int
          /\ trim.id \in Int
      BY <1>2, <2>4, BoundsAssumption DEF TrimXtrim, TypeCore, LogEntry, TrimState
    <3>2. LogBelow'
      BY <1>2, <3>1 DEF ChangelogInv, LogBelow
    <3>3. ASSUME NEW x \in changelog', Newest(x)' PROVE Newest(x)
      BY <3>1, <3>3 DEF Newest
    <3>4. ChangelogTracksEntities'
      BY <1>2, <3>1, <3>3 DEF ChangelogInv, ChangelogTracksEntities
    <3>5. ASSUME NEW x \in changelog', NEW y \in changelog', Successive(x, y)' PROVE Successive(x, y)
      BY <3>1, <3>5 DEF Successive
    <3>6. NoEcho'
      BY <1>2, <3>1, <3>5 DEF ChangelogInv, NoEcho
    <3> QED BY <3>2, <3>4, <3>6 DEF ChangelogInv
  <2>5. CASE UNCHANGED dataVars
    <3>1. UNCHANGED <<entities, changelog, lastId>>
      BY <2>5 DEF dataVars
    <3> QED BY <1>2, <3>1 DEF ChangelogInv, LogBelow, ChangelogTracksEntities, NoEcho, Newest, Successive
  <2> QED BY <1>2, <2>1, <2>2, <2>3, <2>4, <2>5
          DEF Next, Trimmer, TrimTick, TrimFails, dataVars, vars
<1> QED BY <1>1, <1>2

\* The newest entry of every item holds its current document, and no two
\* successive entries of an item repeat a document: what a follower that
\* replays the stream relies on.
THEOREM StoreChangelog == Spec => []ChangelogReplays
<1>1. Init => TypeCore /\ ChangelogInv
  BY TypeCoreInductive, ChangelogInvInductive
<1>2. TypeCore /\ ChangelogInv /\ [Next]_vars => (TypeCore /\ ChangelogInv)'
  BY TypeCoreInductive, ChangelogInvInductive
<1>3. ChangelogInv => ChangelogReplays
  BY DEF ChangelogInv, ChangelogReplays
<1> QED BY <1>1, <1>2, <1>3, PTL DEF Spec

-------------------------------------------------------------------------
(* The trimmer. *)

\* What an XRANGE has established by the time its XTRIM runs, whatever was
\* appended or flushed in between: few enough entries lie below the id, all
\* older than the cutoff, and if the stream has entries one is not below it.
TrimInv ==
  /\ IsFiniteSet(changelog)
  /\ trim.pc = "xtrim" =>
       /\ trim.id <= lastId
       /\ trim.id < trim.cutoff
       /\ Cardinality(Older(trim.id)) <= TrimBatch
       /\ changelog # {} => \E y \in changelog : y.id >= trim.id

\* The entries that XTRIM removes are those below its id.
LEMMA OlderFinite ==
  ASSUME IsFiniteSet(changelog), NEW i
  PROVE  IsFiniteSet(Older(i)) /\ Cardinality(Older(i)) \in Nat
BY FS_Subset, FS_CardinalityType DEF Older

\* An append between XRANGE and XTRIM does not add to the entries to remove.
LEMMA AppendKeepsTrimInv ==
  ASSUME TypeCore, TrimInv, NEW p \in QID, NEW d \in DocOrNone, Xadd(p, d), UNCHANGED trim
  PROVE  TrimInv'
<1> DEFINE new == [id |-> lastId + 1, q |-> p, d |-> d]
<1>1. /\ changelog' = changelog \cup {new}
      /\ lastId' = lastId + 1
      /\ lastId \in Int /\ trim.id \in Int
      /\ \A x \in changelog : x.id \in Int
      /\ new.id = lastId + 1
  BY BoundsAssumption DEF Xadd, TypeCore, LogEntry, TrimState
<1> HIDE DEF new
<1>2. IsFiniteSet(changelog')
  BY <1>1, FS_AddElement DEF TrimInv
<1>3. ASSUME trim.pc = "xtrim"
      PROVE  /\ trim.id <= lastId' /\ trim.id < trim.cutoff
             /\ Older(trim.id)' = Older(trim.id)
             /\ \E y \in changelog' : y.id >= trim.id
  BY <1>1, <1>3 DEF TrimInv, Older
<1> QED BY <1>1, <1>2, <1>3 DEF TrimInv

\* TrimInv holds from every XRANGE to its XTRIM.
LEMMA TrimInvInductive ==
  /\ Init => TrimInv
  /\ TypeCore /\ TrimInv /\ [Next]_vars => TrimInv'
<1>1. Init => TrimInv
  BY FS_EmptySet DEF Init, TrimInv
<1>2. ASSUME TypeCore, TrimInv, [Next]_vars PROVE TrimInv'
  <2>1. ASSUME NEW p \in QID, NEW d \in Doc, Upsert(p, d) PROVE TrimInv'
    BY <1>2, <2>1, AppendKeepsTrimInv DEF Upsert, DocOrNone
  <2>2. ASSUME NEW p \in QID, Delete(p) PROVE TrimInv'
    BY <1>2, <2>2, AppendKeepsTrimInv DEF Delete, DocOrNone
  <2>3. CASE FlushDB
    <3>1. Older(trim.id)' = {} /\ changelog' = {} /\ UNCHANGED <<trim, lastId>>
      BY <2>3 DEF FlushDB, Older
    <3> QED BY <1>2, <3>1, FS_EmptySet, BoundsAssumption DEF TrimInv
  <2>4. ASSUME NEW cutoff \in 0..lastId + 1, TrimTick(cutoff) PROVE TrimInv'
    <3>1. UNCHANGED <<changelog, lastId>>
      BY <2>4 DEF TrimTick, dataVars
    <3>2. CASE Older(cutoff) = {} /\ trim' = [trim EXCEPT !.cutoff = cutoff]
      <4>1. trim'.pc = "wait"
        BY <1>2, <2>4, <3>2 DEF TrimTick, TypeCore, TrimState
      <4> QED BY <1>2, <3>1, <4>1 DEF TrimInv
    <3>3. ASSUME NEW t \in 1..MaxId, LastOfFirst(Older(cutoff), TrimBatch + 1, t),
                 trim' = [trim EXCEPT !.pc = "xtrim", !.cutoff = cutoff, !.id = t]
          PROVE TrimInv'
      <4>1. trim'.id = t /\ trim'.cutoff = cutoff
        BY <1>2, <3>3 DEF TypeCore, TrimState
      <4> DEFINE S == Older(cutoff)
                 U == {y \in S : y.id <= t}
      <4>2. PICK x \in S : x.id = t /\ (Cardinality(U) = TrimBatch + 1 \/ Cardinality(U) < TrimBatch + 1)
        BY <3>3 DEF LastOfFirst
      <4>3. /\ x \in changelog /\ t < cutoff /\ t <= t /\ x \in U
            /\ \A y \in changelog : y.id \in Int
        BY <1>2, <4>2, BoundsAssumption DEF Older, TypeCore, LogEntry
      <4>4. IsFiniteSet(U) /\ Cardinality(U) \in Nat
        BY <1>2, OlderFinite, FS_Subset, FS_CardinalityType DEF TrimInv
      <4>5. Older(t) \subseteq U \ {x}
        BY <4>2, <4>3 DEF Older
      <4>6. Cardinality(U \ {x}) = Cardinality(U) - 1 /\ IsFiniteSet(U \ {x})
        BY <4>3, <4>4, FS_RemoveElement
      <4>7. Cardinality(Older(t)) <= Cardinality(U \ {x})
        BY <4>5, <4>6, FS_Subset
      <4>8. Cardinality(Older(t)) \in Nat
        BY <1>2, OlderFinite DEF TrimInv
      <4>9. Cardinality(Older(t)) <= TrimBatch
        BY <4>2, <4>4, <4>6, <4>7, <4>8, BoundsAssumption
      <4>10. t <= lastId
        BY <2>4, <4>3, <1>2, BoundsAssumption DEF TypeCore
      <4>11. Older(trim.id)' = Older(t)
        BY <3>1, <4>1 DEF Older
      <4>12. \E y \in changelog' : y.id >= trim'.id
        BY <3>1, <4>1, <4>2, <4>3
      <4> QED BY <1>2, <3>1, <4>1, <4>3, <4>9, <4>10, <4>11, <4>12 DEF TrimInv
    <3> QED BY <2>4, <3>2, <3>3 DEF TrimTick
  <2>5. CASE TrimXtrim
    <3>1. changelog' \subseteq changelog /\ trim'.pc = "wait"
      BY <1>2, <2>5 DEF TrimXtrim, TypeCore, TrimState
    <3> QED BY <1>2, <3>1, FS_Subset DEF TrimInv
  <2>6. CASE TrimFails
    <3>1. UNCHANGED changelog /\ trim'.pc = "wait"
      BY <1>2, <2>6 DEF TrimFails, dataVars, TypeCore, TrimState
    <3> QED BY <1>2, <3>1 DEF TrimInv
  <2>7. CASE UNCHANGED vars
    <3>1. UNCHANGED <<changelog, lastId, trim>> /\ Older(trim.id)' = Older(trim.id)
      BY <2>7 DEF vars, Older
    <3> QED BY <1>2, <3>1 DEF TrimInv
  <2> QED BY <1>2, <2>1, <2>2, <2>3, <2>4, <2>5, <2>6, <2>7 DEF Next, Trimmer
<1> QED BY <1>1, <1>2

\* A trim cycle removes at most a batch of entries past the retention, from
\* the start of the stream, and never the newest: for every batch size.
THEOREM StoreTrim == Spec => TrimRemovesOldPrefix
<1> DEFINE Step == TrimXtrim =>
       LET removed == changelog \ changelog'
       IN  /\ \A x \in removed, y \in changelog' : x.id < y.id
           /\ \A x \in removed : x.id < trim.cutoff
           /\ Cardinality(removed) <= TrimBatch
           /\ changelog # {} => changelog' # {}
<1>1. ASSUME TypeCore, TrimInv PROVE Step
  <2> SUFFICES ASSUME TrimXtrim PROVE Step
    OBVIOUS
  <2>1. /\ changelog' = {x \in changelog : x.id >= trim.id}
        /\ trim.pc = "xtrim" /\ trim.id \in Int /\ trim.cutoff \in Int
        /\ \A x \in changelog : x.id \in Int
    BY <1>1, BoundsAssumption DEF TrimXtrim, TypeCore, LogEntry, TrimState
  <2>2. changelog \ changelog' = Older(trim.id)
    BY <2>1 DEF Older
  <2>3. \A x \in Older(trim.id) : x.id < trim.id /\ x.id < trim.cutoff
    BY <1>1, <2>1 DEF Older, TrimInv
  <2>4. \A x \in Older(trim.id), y \in changelog' : x.id < y.id
    BY <2>1, <2>3 DEF Older
  <2>5. Cardinality(Older(trim.id)) <= TrimBatch
    BY <1>1, <2>1 DEF TrimInv
  <2>6. changelog # {} => changelog' # {}
    BY <1>1, <2>1 DEF TrimInv
  <2> QED BY <2>2, <2>3, <2>4, <2>5, <2>6
<1>2. Init => TypeCore /\ TrimInv
  BY TypeCoreInductive, TrimInvInductive
<1>3. TypeCore /\ TrimInv /\ [Next]_vars => (TypeCore /\ TrimInv)'
  BY TypeCoreInductive, TrimInvInductive
<1> QED BY <1>1, <1>2, <1>3, PTL DEF Spec, TrimRemovesOldPrefix
=========================================================================
