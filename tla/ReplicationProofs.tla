------------------------ MODULE ReplicationProofs ------------------------
(***************************************************************************)
(* Theorems about Replication, for any items, documents, frame and read    *)
(* sizes, and any number of writes, reseeds and faults.                    *)
(*                                                                         *)
(* A position c in the changelog is a promise: as long as the changelog    *)
(* covers c, an item without a later entry is as it was at c.  Primary     *)
(* steps only withdraw such promises (lemma Stable), so everything that    *)
(* was copied under one stays right while it stands: the lines of a scan,  *)
(* the published file, its download, what the stream has delivered.        *)
(***************************************************************************)
EXTENDS Replication, FiniteSetTheorems, WellFoundedInduction, TLAPS

\* The changelog: ids are unique, in order of writing, and the newest entry of
\* an item has its document.
LogInv ==
  /\ \A x, y \in changelog : x.id = y.id => x = y
  /\ \A x \in changelog : x.id <= lastId
  /\ \A x \in changelog : (\A y \in changelog : y.q = x.q => y.id <= x.id) => x.d = entities[x.q]

\* The lines agree with the primary on what the position promises.
Agrees(c, lines, S) ==
  Covers(c) => \A q \in S : Quiet(q, c) => \A d \in Doc : Holds(lines, q, d) <=> entities[q] = d
Unique(lines) == \A i, j \in 1..Len(lines) : lines[i].q = lines[j].q => i = j

\* A scan in progress.
GenInv ==
  /\ gen.id <= lastId
  /\ Unique(gen.lines)
  /\ gen.pc = "scan" => /\ Agrees(gen.id, gen.lines, QID \ gen.todo)
                        /\ \A i \in 1..Len(gen.lines) : gen.lines[i].q \notin gen.todo

\* A file, published or being downloaded.
FileOK(F) == F.id <= lastId /\ Unique(F.lines) /\ Agrees(F.id, F.lines, QID)
FileInv ==
  /\ FileOK(snapshot) /\ FileOK(dl.file)
  /\ dl.file.name = snapshot.name /\ snapshot.name # NoName => dl.file = snapshot

\* Where the client may be with and without a cursor, and when its stream is
\* open.
Downloading == rc \in {"persist", "apply", "final"}
PhaseInv ==
  /\ Downloading \/ rc = "flush" => meta.cursor = 0 /\ dl.file.id > 0 /\ dl.file.name # NoName
  /\ rc = "flush" => dl.pos = 0 /\ dl.total = 0
  /\ rc \in {"stream", "cursor", "await", "purge"} => meta.cursor # 0
  /\ rc \notin {"stream", "cursor"} => inflight = {} /\ handler.pc # "open"
  /\ rc = "cursor" => inflight # {}
  /\ meta.cursor <= lastId

\* The replica holds the first k lines of F, and nothing that is not in F.
Applied(F, k) == \A i \in 1..Len(F.lines) : i <= k => rentities[F.lines[i].q] = F.lines[i].d
Only(F) == \A q \in QID : rentities[q] # NoDoc => Holds(F.lines, q, rentities[q])

\* A download: what is stored of it never runs ahead of what was applied, and
\* is never stored with the name of another file.
DownInv ==
  Downloading =>
    /\ Applied(dl.file, dl.pos) /\ Only(dl.file)
    /\ Before(meta.offset) <= dl.pos
    /\ meta.etag \in {NoName, dl.file.name}
    /\ rc = "persist" => dl.pos % FrameSize = 0
    /\ rc = "final" => dl.pos = Len(dl.file.lines)

\* A resume that would be granted.
ResumeInv ==
  meta.cursor = 0 /\ meta.etag # NoName /\ meta.etag = snapshot.name =>
    /\ Before(meta.offset) <= Len(snapshot.lines)
    /\ Applied(snapshot, Before(meta.offset))
    /\ Only(snapshot)

\* The counts of a download, when pipelines are not torn.
PairInv ==
  "torn" \notin hazards => ResumePairMatches /\ (Downloading => dl.total = dl.pos)

\* The position up to which the handler has read for this connection.
IsReach(r) ==
  /\ \A x \in inflight : x.id <= r
  /\ IF inflight = {} THEN r = meta.cursor ELSE \E x \in inflight : x.id = r

\* The changes in flight: later than the cursor, unique, up to the handler's
\* position, and in the changelog as long as that reaches back to them.
FlightInv ==
  /\ \A x \in inflight : meta.cursor < x.id /\ x.id <= lastId
  /\ \A x, y \in inflight : x.id = y.id => x = y
  /\ handler.pc = "open" => IsReach(handler.cursor)
  /\ \A x \in inflight : (\E y \in changelog : y.id <= x.id) => x \in changelog
  /\ rc = "cursor" => \A x \in inflight :
                        (\A y \in inflight : x.id <= y.id) => rentities[x.q] = x.d

\* A reset is on its way only to a replica that is really too far behind.
ResetInv == rc \in {"await", "purge"} => ~Covers(meta.cursor)

\* What the replica has and what is in flight add up to what the handler's
\* position promises.
Mild == hazards \subseteq {"torn"}
Delivered(r, q) ==
  /\ (\A x \in inflight : x.q # q) => rentities[q] = entities[q]
  /\ \A x \in inflight : x.q = q /\ (\A y \in inflight : y.q = q => y.id <= x.id) => x.d = entities[q]
StreamInv ==
  Mild /\ meta.cursor # 0 =>
    \A r \in 0..MaxId : IsReach(r) /\ (handler.pc = "open" \/ Covers(r)) =>
      \A q \in QID : Quiet(q, r) => Delivered(r, q)

IInv == /\ TypeOK /\ LogInv /\ GenInv /\ FileInv /\ PhaseInv /\ DownInv /\ ResumeInv /\ PairInv
        /\ FlightInv /\ ResetInv /\ StreamInv

-------------------------------------------------------------------------
(* Numbers. *)

LEMMA MinNat == ASSUME NEW T \in SUBSET Nat, T # {} PROVE \E m \in T : \A n \in T : m <= n
<1>1. PICK m \in T : \A y \in T : ~(<<y, m>> \in OpToRel(<, Nat))
  BY NatLessThanWellFounded, WFMin, Zenon
<1>2. \A y \in T : ~(y < m)
  BY <1>1 DEF OpToRel
<1> QED BY <1>2

LEMMA MaxNat ==
  ASSUME NEW T \in SUBSET Nat, NEW k \in Nat, \A n \in T : n <= k, T # {}
  PROVE  \E m \in T : \A n \in T : n <= m
<1> DEFINE U == {b \in Nat : \A n \in T : n <= b}
<1>0. PICK t \in T : TRUE
  OBVIOUS
<1>1. k \in U
  OBVIOUS
<1>2. PICK u \in U : \A n \in U : u <= n
  BY <1>1, MinNat
<1>3. CASE u \in T
  BY <1>2, <1>3
<1>4. CASE u \notin T
  <2>1. \A n \in T : n < u
    BY <1>2, <1>4
  <2>2. u \in Nat /\ t \in Nat /\ t < u
    BY <1>0, <2>1
  <2>3. u - 1 \in U
    BY <2>1, <2>2
  <2> QED BY <1>2, <2>2, <2>3
<1> QED BY <1>3, <1>4

\* Frames: the lines before the frame of a position.
LEMMA BeforeNat == \A n \in Nat : Before(n) \in Nat
  BY SizeAssumption DEF Before

LEMMA Frames ==
  ASSUME NEW n \in Nat
  PROVE  /\ n \div FrameSize \in Nat
         /\ Before(n \div FrameSize) <= n
         /\ n % FrameSize = 0 => Before(n \div FrameSize) = n
         /\ Before(n) \in Nat /\ Before(n) % FrameSize = 0
<1>0. FrameSize \in Nat /\ FrameSize > 0
  BY SizeAssumption
<1>1. n = FrameSize * (n \div FrameSize) + (n % FrameSize) /\ n % FrameSize >= 0 /\ n \div FrameSize \in Nat
  BY <1>0
<1>2. FrameSize * (n \div FrameSize) = (n \div FrameSize) * FrameSize
  BY <1>0, <1>1
<1>3. Before(n) \in Nat
  BY <1>0 DEF Before
<1>4. (n * FrameSize) % FrameSize = 0
  BY <1>0
<1> QED BY <1>0, <1>1, <1>2, <1>3, <1>4 DEF Before

-------------------------------------------------------------------------
(* The changelog. *)

LEMMA LeastEntry ==
  ASSUME NEW S \in SUBSET Change, S # {}
  PROVE  \E x \in S : \A y \in S : x.id <= y.id
<1> DEFINE T == {x.id : x \in S}
<1>1. T \in SUBSET Nat /\ T # {}
  BY SizeAssumption DEF Change
<1>2. PICK m \in T : \A n \in T : m <= n
  BY <1>1, MinNat
<1> QED BY <1>2

LEMMA GreatestEntry ==
  ASSUME NEW S \in SUBSET Change, S # {}
  PROVE  \E x \in S : \A y \in S : y.id <= x.id
<1> DEFINE T == {x.id : x \in S}
<1>1. T \in SUBSET Nat /\ T # {} /\ \A n \in T : n <= MaxId
  BY SizeAssumption DEF Change
<1>2. PICK m \in T : \A n \in T : n <= m
  BY <1>1, MaxNat, SizeAssumption
<1> QED BY <1>2

\* The first entry is where a gap begins: a position is covered if and only if
\* some retained entry is not after it.
LEMMA FirstCovers ==
  ASSUME NEW S \in SUBSET Change, NEW c \in Nat
  PROVE  (S # {} /\ (CHOOSE x \in S : \A y \in S : x.id <= y.id).id <= c) <=> \E x \in S : x.id <= c
<1>1. CASE S = {}
  BY <1>1
<1>2. CASE S # {}
  <2> DEFINE f == CHOOSE x \in S : \A y \in S : x.id <= y.id
  <2>1. f \in S /\ \A y \in S : f.id <= y.id
    BY <1>2, LeastEntry
  <2>2. \A x \in S : x.id \in Nat
    BY SizeAssumption DEF Change
  <2> QED BY <1>2, <2>1, <2>2
<1> QED BY <1>1, <1>2

LEMMA CoversIff ==
  ASSUME NEW c \in Nat
  PROVE  /\ changelog \subseteq Change => (Covers(c) <=> \E x \in changelog : x.id <= c)
         /\ changelog' \subseteq Change => (Covers(c)' <=> \E x \in changelog' : x.id <= c)
<1>1. changelog \subseteq Change => (Covers(c) <=> \E x \in changelog : x.id <= c)
  BY FirstCovers DEF Covers, FirstId
<1>2. changelog' \subseteq Change => (Covers(c)' <=> \E x \in changelog' : x.id <= c)
  BY FirstCovers DEF Covers, FirstId
<1> QED BY <1>1, <1>2

\* Next without its environment-independent part; the steps of the primary.
PrimaryStep == \/ \E q \in QID, d \in DocOrNone : Write(q, d)
               \/ \E t \in 1..MaxId : Trim(t)
               \/ ReseedFlush \/ SeedMark \/ SeedDone
OtherStep == \/ GenStart \/ (\E q \in QID : GenScan(q)) \/ GenPublish \/ GenFail
             \/ Replica \/ HandlerRead \/ HandlerClose \/ SkipChange \/ CutChange \/ CutReset \/ Drop

LEMMA NextCases ==
  ASSUME Next
  PROVE  /\ hazards' = hazards
         /\ \/ PrimaryStep /\ UNCHANGED <<replicatorVars, streamVars, replicaVars, faults>>
            \/ OtherStep /\ UNCHANGED primaryVars
<1>1. ASSUME PrimaryStep PROVE UNCHANGED <<replicatorVars, streamVars, replicaVars, faults>>
  BY <1>1 DEF PrimaryStep, Write, Trim, ReseedFlush, SeedMark, SeedDone
<1>2. ASSUME Replica PROVE UNCHANGED primaryVars
  BY <1>2 DEF Replica, FetchSnapshot, FlushForSnapshot, PersistProgress, ApplyCheckpoint, ApplyLine,
              ApplyDone, FinishSnapshot, ConnectStream, ServeReset, Purge, ApplyChange, AdvanceCursor,
              StreamEnds
<1>3. ASSUME OtherStep PROVE UNCHANGED primaryVars
  BY <1>2, <1>3 DEF OtherStep, GenStart, GenScan, GenPublish, GenFail, HandlerRead, HandlerClose,
              SkipChange, CutChange, CutReset, Drop
<1>4. PrimaryStep \/ OtherStep
  BY DEF Next, Steps, Seeder, Generator, PrimaryStep, OtherStep
<1> QED BY <1>1, <1>3, <1>4 DEF Next

LEMMA LogStep ==
  ASSUME TypeOK, LogInv, PrimaryStep
  PROVE  /\ LogInv'
         /\ entities' \in [QID -> DocOrNone] /\ changelog' \subseteq Change /\ lastId' \in 0..MaxId
         /\ seed' \in {"flushed", "seeding", "streaming"} /\ reseeds' \in 0..MaxReseeds
         /\ lastId <= lastId'
<1> USE SizeAssumption
<1>0. /\ entities \in [QID -> DocOrNone] /\ changelog \subseteq Change /\ lastId \in 0..MaxId
      /\ seed \in {"flushed", "seeding", "streaming"} /\ reseeds \in 0..MaxReseeds
      /\ \A x \in changelog : x.id \in Nat /\ x.id <= lastId
  BY DEF TypeOK, LogInv, Change
<1>1. ASSUME NEW q \in QID, NEW d \in DocOrNone, Write(q, d)
      PROVE  /\ LogInv'
             /\ entities' \in [QID -> DocOrNone] /\ changelog' \subseteq Change /\ lastId' \in 0..MaxId
             /\ seed' = seed /\ reseeds' = reseeds /\ lastId <= lastId'
  <2> DEFINE n == [id |-> lastId + 1, q |-> q, d |-> d]
  <2>1. /\ entities' = [entities EXCEPT ![q] = d] /\ lastId' = lastId + 1 /\ lastId < MaxId
        /\ changelog' = changelog \cup {n} /\ seed' = seed /\ reseeds' = reseeds
    BY <1>1 DEF Write
  <2>2. n.id = lastId + 1 /\ n.q = q /\ n.d = d /\ n \in Change
    BY <1>0, <2>1 DEF Change
  <2> HIDE DEF n
  <2>3. ASSUME NEW x \in changelog', \A y \in changelog' : y.q = x.q => y.id <= x.id
        PROVE  x.d = entities'[x.q]
    <3>1. CASE x = n
      BY <1>0, <2>1, <2>2, <3>1
    <3>2. CASE x # n
      <4>1. x \in changelog /\ x.q \in QID
        BY <1>0, <2>1, <3>2 DEF Change
      <4>2. x.q # q
        BY <1>0, <2>1, <2>2, <2>3, <4>1
      <4>3. x.d = entities[x.q]
        BY <2>1, <2>3, <4>1 DEF LogInv
      <4> QED BY <1>0, <2>1, <4>1, <4>2, <4>3
    <3> QED BY <3>1, <3>2
  <2>4. \A x, y \in changelog' : x.id = y.id => x = y
    BY <1>0, <2>1, <2>2 DEF LogInv
  <2>5. \A x \in changelog' : x.id <= lastId'
    BY <1>0, <2>1, <2>2
  <2> QED BY <1>0, <2>1, <2>2, <2>3, <2>4, <2>5 DEF LogInv
<1>2. ASSUME NEW t \in 1..MaxId, Trim(t)
      PROVE  LogInv' /\ changelog' \subseteq changelog /\ UNCHANGED <<entities, lastId, seed, reseeds>>
  <2>1. changelog' = {x \in changelog : x.id >= t} /\ UNCHANGED <<entities, lastId, seed, reseeds>>
    BY <1>2 DEF Trim
  <2>2. ASSUME NEW x \in changelog', \A y \in changelog' : y.q = x.q => y.id <= x.id
        PROVE  \A y \in changelog : y.q = x.q => y.id <= x.id
    BY <1>0, <2>1, <2>2
  <2> QED BY <2>1, <2>2 DEF LogInv
<1>3. CASE ReseedFlush
  BY <1>0, <1>3 DEF ReseedFlush, LogInv, DocOrNone
<1>4. CASE SeedMark \/ SeedDone
  BY <1>0, <1>4 DEF SeedMark, SeedDone, LogInv
<1> QED BY <1>0, <1>1, <1>2, <1>3, <1>4 DEF PrimaryStep

\* A promise is only ever withdrawn, and as long as it stands it is kept.
LEMMA Stable ==
  ASSUME TypeOK, LogInv, PrimaryStep, NEW c \in Nat, c <= lastId, Covers(c)'
  PROVE  Covers(c) /\ \A q \in QID : Quiet(q, c)' => Quiet(q, c) /\ entities'[q] = entities[q]
<1> USE SizeAssumption
<1>0. /\ entities \in [QID -> DocOrNone] /\ changelog \subseteq Change /\ lastId \in Nat
      /\ \A x \in changelog : x.id \in Nat /\ x.id <= lastId
  BY DEF TypeOK, LogInv, Change
<1>c. (\E x \in changelog : x.id <= c) => Covers(c)
  BY <1>0, CoversIff
<1>d. \E x \in changelog' : x.id <= c
  BY LogStep, CoversIff
<1>1. ASSUME NEW p \in QID, NEW d \in DocOrNone, Write(p, d)
      PROVE  Covers(c) /\ \A q \in QID : Quiet(q, c)' => Quiet(q, c) /\ entities'[q] = entities[q]
  <2> DEFINE n == [id |-> lastId + 1, q |-> p, d |-> d]
  <2>1. entities' = [entities EXCEPT ![p] = d] /\ changelog' = changelog \cup {n}
    BY <1>1 DEF Write
  <2>2. n.id = lastId + 1 /\ n.q = p
    OBVIOUS
  <2> HIDE DEF n
  <2>3. Covers(c)
    BY <1>0, <1>c, <1>d, <2>1, <2>2
  <2>4. ASSUME NEW q \in QID, Quiet(q, c)' PROVE Quiet(q, c) /\ q # p
    BY <1>0, <2>1, <2>2, <2>4 DEF Quiet
  <2> QED BY <1>0, <2>1, <2>3, <2>4
<1>2. ASSUME NEW t \in 1..MaxId, Trim(t)
      PROVE  Covers(c) /\ \A q \in QID : Quiet(q, c)' => Quiet(q, c) /\ entities'[q] = entities[q]
  <2>1. changelog' = {x \in changelog : x.id >= t} /\ entities' = entities
    BY <1>2 DEF Trim
  <2>2. Covers(c) /\ t <= c
    BY <1>0, <1>c, <1>d, <2>1
  <2>3. ASSUME NEW q \in QID, Quiet(q, c)' PROVE Quiet(q, c)
    BY <1>0, <2>1, <2>2, <2>3 DEF Quiet
  <2> QED BY <2>1, <2>2, <2>3
<1>3. CASE ReseedFlush
  BY <1>3, <1>d DEF ReseedFlush
<1>4. CASE SeedMark \/ SeedDone
  BY <1>4, <1>c, <1>d DEF SeedMark, SeedDone, Quiet
<1> QED BY <1>1, <1>2, <1>3, <1>4 DEF PrimaryStep

LEMMA PrimaryKeeps ==
  ASSUME IInv, PrimaryStep, UNCHANGED <<replicatorVars, streamVars, replicaVars, faults, hazards>>
  PROVE  IInv'
<1> USE SizeAssumption
<1>0. /\ TypeOK /\ LogInv /\ lastId \in Nat /\ lastId' \in Nat /\ lastId <= lastId'
      /\ UNCHANGED <<gen, snapshot, handler, inflight, rentities, meta, rc, dl, faults, hazards>>
  BY LogStep DEF IInv, TypeOK, replicatorVars, streamVars, replicaVars
<1>s. \A c \in Nat : c <= lastId /\ Covers(c)' =>
        Covers(c) /\ \A q \in QID : Quiet(q, c)' => Quiet(q, c) /\ entities'[q] = entities[q]
  BY <1>0, Stable
<1>1. TypeOK' /\ LogInv'
  BY <1>0, LogStep DEF TypeOK
<1>2. gen.id \in Nat /\ snapshot.id \in Nat /\ dl.file.id \in Nat /\ meta.cursor \in Nat /\ gen.todo \subseteq QID
  BY <1>0 DEF TypeOK, Snapshot
<1>3. GenInv'
  <2>1. CASE gen.pc = "scan"
    <3>1. Agrees(gen.id, gen.lines, QID \ gen.todo)'
      BY <1>0, <1>s, <1>2, <2>1 DEF IInv, GenInv, Agrees, Covers, Quiet
    <3> QED BY <1>0, <1>2, <2>1, <3>1 DEF IInv, GenInv
  <2>2. CASE gen.pc # "scan"
    BY <1>0, <1>2, <2>2 DEF IInv, GenInv
  <2> QED BY <2>1, <2>2
<1>4. FileInv'
  <2>1. Agrees(snapshot.id, snapshot.lines, QID)'
    BY <1>0, <1>s, <1>2 DEF IInv, FileInv, FileOK, Agrees, Covers, Quiet
  <2>2. Agrees(dl.file.id, dl.file.lines, QID)'
    BY <1>0, <1>s, <1>2 DEF IInv, FileInv, FileOK, Agrees, Covers, Quiet
  <2> QED BY <1>0, <1>2, <2>1, <2>2 DEF IInv, FileInv, FileOK
<1>5. PhaseInv' /\ DownInv' /\ ResumeInv' /\ PairInv'
  BY <1>0, <1>2 DEF IInv, PhaseInv, Downloading, DownInv, ResumeInv, PairInv, ResumePairMatches, Applied,
                    Only, Before
<1>6. FlightInv'
  <2>0. \A x \in inflight : x.id \in Nat
    BY <1>0 DEF TypeOK, Change
  <2>1. \A x \in inflight : meta.cursor < x.id /\ x.id <= lastId'
    BY <1>0, <1>2, <2>0 DEF IInv, FlightInv
  <2>2. ASSUME NEW x \in inflight, NEW y \in changelog', y.id <= x.id PROVE x \in changelog'
    <3>0. /\ x.id <= lastId /\ ((\E z \in changelog : z.id <= x.id) => x \in changelog)
          /\ \A z \in changelog : z.id \in Nat
      BY <1>0, <2>2 DEF IInv, FlightInv, TypeOK, Change
    <3>1. ASSUME NEW p \in QID, NEW d \in DocOrNone, Write(p, d) PROVE x \in changelog'
      BY <1>0, <2>0, <2>2, <3>0, <3>1 DEF Write
    <3>2. ASSUME NEW t \in 1..MaxId, Trim(t) PROVE x \in changelog'
      BY <1>0, <2>0, <2>2, <3>0, <3>2 DEF Trim
    <3>3. CASE ReseedFlush \/ SeedMark \/ SeedDone
      BY <2>2, <3>0, <3>3 DEF ReseedFlush, SeedMark, SeedDone
    <3> QED BY <3>1, <3>2, <3>3 DEF PrimaryStep
  <2> QED BY <1>0, <2>1, <2>2 DEF IInv, FlightInv, IsReach
<1>7. ResetInv'
  <2>1. meta.cursor <= lastId
    BY DEF IInv, PhaseInv
  <2> QED BY <1>0, <1>s, <1>2, <2>1 DEF IInv, ResetInv, Covers
<1>8. StreamInv'
  <2> SUFFICES ASSUME Mild, meta.cursor # 0, NEW r \in 0..MaxId, IsReach(r),
                      handler.pc = "open" \/ Covers(r)', NEW q \in QID, Quiet(q, r)'
               PROVE  Delivered(r, q)'
    BY <1>0 DEF StreamInv, Mild, IsReach
  <2>0. r \in Nat /\ r <= lastId
    <3>1. meta.cursor <= lastId /\ \A x \in inflight : x.id <= lastId
      BY DEF IInv, PhaseInv, FlightInv
    <3> QED BY <3>1 DEF IsReach
  <2>1. (handler.pc = "open" \/ Covers(r)) /\ Quiet(q, r) /\ entities'[q] = entities[q]
    <3>1. CASE Covers(r)'
      BY <1>s, <2>0, <3>1
    <3>2. CASE handler.pc = "open"
      <4>0. /\ entities \in [QID -> DocOrNone] /\ \A x \in changelog : x.id \in Nat
            /\ handler.cursor \in Nat
        BY <1>0 DEF TypeOK, Change
      <4>r. handler.cursor = r
        <5>1. IsReach(handler.cursor)
          BY <3>2 DEF IInv, FlightInv
        <5>2. \A x \in inflight : x.id \in Nat
          BY <1>0 DEF TypeOK, Change
        <5> QED BY <2>0, <4>0, <5>1, <5>2 DEF IsReach
      <4>1. ASSUME NEW p \in QID, NEW d \in DocOrNone, Write(p, d)
            PROVE  Quiet(q, r) /\ entities'[q] = entities[q]
        <5> DEFINE n == [id |-> lastId + 1, q |-> p, d |-> d]
        <5>1. entities' = [entities EXCEPT ![p] = d] /\ changelog' = changelog \cup {n}
          BY <4>1 DEF Write
        <5>2. n.id = lastId + 1 /\ n.q = p
          OBVIOUS
        <5> HIDE DEF n
        <5> QED BY <1>0, <2>0, <4>0, <5>1, <5>2 DEF Quiet
      <4>2. ASSUME NEW t \in 1..MaxId, Trim(t) PROVE Quiet(q, r) /\ entities'[q] = entities[q]
        <5>1. /\ changelog' = {x \in changelog : x.id >= t} /\ entities' = entities
              /\ \A x \in changelog : x.id < t => x.id <= r
          BY <3>2, <4>2, <4>r DEF Trim, Mild
        <5> QED BY <2>0, <4>0, <5>1 DEF Quiet
      <4>3. ~ReseedFlush
        BY <3>2 DEF ReseedFlush, Mild
      <4>4. CASE SeedMark \/ SeedDone
        BY <3>2, <4>4 DEF SeedMark, SeedDone, Quiet
      <4> QED BY <3>2, <4>1, <4>2, <4>3, <4>4 DEF PrimaryStep
    <3> QED BY <3>1, <3>2
  <2>2. Delivered(r, q)
    BY <2>1 DEF IInv, StreamInv
  <2> QED BY <1>0, <2>1, <2>2 DEF Delivered
<1> QED BY <1>1, <1>3, <1>4, <1>5, <1>6, <1>7, <1>8 DEF IInv

-------------------------------------------------------------------------
(* The generator. *)

LEMMA NewestFacts ==
  ASSUME TypeOK, LogInv, changelog # {}
  PROVE  NewestId \in 1..MaxId /\ NewestId <= lastId
<1>1. (CHOOSE x \in changelog : \A y \in changelog : y.id <= x.id) \in changelog
  BY GreatestEntry DEF TypeOK
<1> QED BY <1>1 DEF NewestId, TypeOK, Change, LogInv

LEMMA EmptyLines ==
  /\ Unique(<<>>) /\ <<>> \in Seq(Line)
  /\ \A q, d : ~Holds(<<>>, q, d)
  BY DEF Unique, Holds

LEMMA AppendLine ==
  ASSUME NEW s \in Seq(Line), NEW l \in Line
  PROVE  /\ Append(s, l) \in Seq(Line)
         /\ \A q, d : Holds(Append(s, l), q, d) <=> Holds(s, q, d) \/ l = [q |-> q, d |-> d]
         /\ Unique(s) /\ (\A i \in 1..Len(s) : s[i].q # l.q) => Unique(Append(s, l))
<1> DEFINE t == Append(s, l)
<1>1. /\ t \in Seq(Line) /\ Len(s) \in Nat /\ Len(t) = Len(s) + 1 /\ t[Len(s) + 1] = l
      /\ \A i \in 1..Len(s) : t[i] = s[i]
  OBVIOUS
<1> HIDE DEF t
<1>2. ASSUME NEW q, NEW d PROVE Holds(t, q, d) <=> Holds(s, q, d) \/ l = [q |-> q, d |-> d]
  <2>1. ASSUME NEW i \in 1..Len(t), t[i] = [q |-> q, d |-> d]
        PROVE  Holds(s, q, d) \/ l = [q |-> q, d |-> d]
    <3>1. CASE i = Len(s) + 1
      BY <1>1, <2>1, <3>1
    <3>2. CASE i # Len(s) + 1
      BY <1>1, <2>1, <3>2 DEF Holds
    <3> QED BY <3>1, <3>2
  <2>2. ASSUME NEW i \in 1..Len(s), s[i] = [q |-> q, d |-> d] PROVE Holds(t, q, d)
    BY <1>1, <2>2 DEF Holds
  <2>3. ASSUME l = [q |-> q, d |-> d] PROVE Holds(t, q, d)
    BY <1>1, <2>3 DEF Holds
  <2> QED BY <2>1, <2>2, <2>3 DEF Holds
<1>3. ASSUME Unique(s), \A i \in 1..Len(s) : s[i].q # l.q PROVE Unique(t)
  BY <1>1, <1>3 DEF Unique
<1> QED BY <1>1, <1>2, <1>3 DEF t

\* A line of q is there or not, whatever its document.
LEMMA LineAt ==
  ASSUME NEW s \in Seq(Line), NEW q, NEW d, Holds(s, q, d)
  PROVE  \E i \in 1..Len(s) : s[i].q = q /\ s[i].d = d
  BY DEF Holds

LEMMA GenKeeps ==
  ASSUME IInv, GenStart \/ (\E q \in QID : GenScan(q)) \/ GenPublish \/ GenFail, hazards' = hazards
  PROVE  IInv'
<1> USE SizeAssumption
<1>0. /\ TypeOK /\ LogInv /\ lastId \in Nat
      /\ UNCHANGED <<entities, changelog, lastId, seed, reseeds, handler, inflight, rentities, meta, rc, dl>>
  <2>1. TypeOK /\ LogInv /\ lastId \in Nat
    BY DEF IInv, TypeOK
  <2>2. UNCHANGED <<primaryVars, streamVars, replicaVars>>
    BY DEF GenStart, GenScan, GenPublish, GenFail
  <2> QED BY <2>1, <2>2 DEF primaryVars, streamVars, replicaVars
<1>1. LogInv' /\ PhaseInv' /\ DownInv' /\ PairInv' /\ FlightInv' /\ ResetInv' /\ StreamInv' /\ FileOK(dl.file)'
  BY <1>0 DEF IInv, LogInv, PhaseInv, Downloading, DownInv, PairInv, ResumePairMatches, FlightInv, ResetInv,
              StreamInv, Mild, IsReach, Delivered, Quiet, Covers, FirstId, Applied, Only, Before, FileInv,
              FileOK, Agrees
<1>2. ASSUME TypeOK', GenInv', snapshot' = snapshot PROVE IInv'
  <2>1. FileInv' /\ ResumeInv'
    BY <1>0, <1>1, <1>2 DEF IInv, FileInv, FileOK, Agrees, Covers, FirstId, Quiet, ResumeInv, Applied, Only
  <2> QED BY <1>1, <1>2, <2>1 DEF IInv
<1>3. CASE GenStart
  <2>1. /\ gen' = [pc |-> "scan", id |-> NewestId, todo |-> QID, lines |-> <<>>]
        /\ changelog # {} /\ snapshot' = snapshot /\ faults' = faults
    BY <1>3 DEF GenStart
  <2>2. gen'.id = NewestId /\ gen'.todo = QID /\ gen'.lines = <<>>
    BY <2>1
  <2>3. NewestId \in 0..MaxId /\ NewestId <= lastId
    BY <1>0, <2>1, NewestFacts
  <2>4. TypeOK'
    BY <1>0, <2>1, <2>3, EmptyLines DEF TypeOK
  <2>5. GenInv'
    BY <1>0, <2>2, <2>3, EmptyLines DEF GenInv, Agrees
  <2> QED BY <1>2, <2>1, <2>4, <2>5
<1>4. ASSUME NEW q \in QID, GenScan(q) PROVE IInv'
  <2> DEFINE l == [q |-> q, d |-> entities[q]]
  <2>0. /\ gen \in [pc : {"idle", "scan"}, id : 0..MaxId, todo : SUBSET QID, lines : Seq(Line)]
        /\ entities[q] \in DocOrNone
    BY <1>0 DEF TypeOK
  <2>1. /\ gen.pc = "scan" /\ q \in gen.todo /\ snapshot' = snapshot /\ faults' = faults
        /\ gen'.pc = "scan" /\ gen'.id = gen.id /\ gen'.todo = gen.todo \ {q}
        /\ gen'.lines = IF entities[q] = NoDoc THEN gen.lines ELSE Append(gen.lines, l)
        /\ gen' \in [pc : {"idle", "scan"}, id : 0..MaxId, todo : SUBSET QID, lines : Seq(Line)]
    <3>1. /\ gen.pc = "scan" /\ q \in gen.todo /\ snapshot' = snapshot /\ faults' = faults
          /\ gen' = [gen EXCEPT !.todo = @ \ {q},
                                !.lines = IF entities[q] = NoDoc THEN @ ELSE Append(@, l)]
      BY <1>4 DEF GenScan
    <3>2. entities[q] # NoDoc => l \in Line
      BY <2>0 DEF Line, DocOrNone
    <3>3. (IF entities[q] = NoDoc THEN gen.lines ELSE Append(gen.lines, l)) \in Seq(Line)
      BY <2>0, <3>2, AppendLine
    <3> HIDE DEF l
    <3> QED BY <2>0, <3>1, <3>3
  <2>2. /\ Unique(gen.lines) /\ gen.id <= lastId
        /\ \A i \in 1..Len(gen.lines) : gen.lines[i].q \notin gen.todo
        /\ Agrees(gen.id, gen.lines, QID \ gen.todo)
    BY <2>1 DEF IInv, GenInv
  <2>3. TypeOK'
    BY <1>0, <2>1 DEF TypeOK
  <2>4. CASE entities[q] = NoDoc
    <3>1. gen'.lines = gen.lines /\ \A d \in Doc : ~Holds(gen.lines, q, d) /\ entities[q] # d
      BY <2>0, <2>1, <2>2, <2>4, LineAt, SentinelAssumption
    <3>2. Agrees(gen.id, gen.lines, (QID \ gen.todo) \cup {q})
      BY <2>2, <3>1 DEF Agrees
    <3>3. QID \ (gen.todo \ {q}) = (QID \ gen.todo) \cup {q}
      OBVIOUS
    <3>4. Agrees(gen.id, gen.lines, QID \ gen.todo)'
      BY <1>0, <2>1, <3>1, <3>2, <3>3 DEF Agrees, Covers, FirstId, Quiet
    <3>5. GenInv'
      BY <1>0, <2>1, <2>2, <3>1, <3>4 DEF GenInv
    <3> QED BY <1>2, <2>1, <2>3, <3>5
  <2>5. CASE entities[q] # NoDoc
    <3>0. l \in Line /\ l.q = q /\ entities[q] \in Doc
      BY <2>0, <2>5 DEF Line, DocOrNone
    <3>1. /\ gen'.lines = Append(gen.lines, l)
          /\ \A p, d : Holds(gen'.lines, p, d) <=> Holds(gen.lines, p, d) \/ l = [q |-> p, d |-> d]
          /\ Unique(gen'.lines)
      BY <2>0, <2>1, <2>2, <2>5, <3>0, AppendLine
    <3>2. ASSUME NEW p \in QID \ gen'.todo, NEW d \in Doc, p = q \/ Quiet(p, gen.id), Covers(gen.id)
          PROVE  Holds(gen'.lines, p, d) <=> entities[p] = d
      <4>1. CASE p = q
        <5>1. ~Holds(gen.lines, q, d)
          BY <2>0, <2>1, <2>2, LineAt
        <5> QED BY <3>1, <4>1, <5>1
      <4>2. CASE p # q
        <5>1. Holds(gen.lines, p, d) <=> entities[p] = d
          BY <2>1, <2>2, <3>2, <4>2 DEF Agrees
        <5>2. l # [q |-> p, d |-> d]
          BY <4>2
        <5> QED BY <3>1, <5>1, <5>2
      <4> QED BY <4>1, <4>2
    <3>3. Agrees(gen.id, gen.lines, QID \ gen.todo)'
      BY <1>0, <2>1, <3>2 DEF Agrees, Covers, FirstId, Quiet
    <3>4. \A i \in 1..Len(gen'.lines) : gen'.lines[i].q \notin gen'.todo
      <4> SUFFICES ASSUME NEW i \in 1..Len(gen'.lines) PROVE gen'.lines[i].q \notin gen'.todo
        OBVIOUS
      <4>1. CASE i = Len(gen.lines) + 1
        BY <2>0, <2>1, <3>0, <3>1, <4>1
      <4>2. CASE i # Len(gen.lines) + 1
        <5>1. i \in 1..Len(gen.lines) /\ gen'.lines[i] = gen.lines[i]
          BY <2>0, <3>0, <3>1, <4>2
        <5> QED BY <2>1, <2>2, <5>1
      <4> QED BY <4>1, <4>2
    <3>5. GenInv'
      BY <1>0, <2>1, <2>2, <3>1, <3>3, <3>4 DEF GenInv
    <3> QED BY <1>2, <2>1, <2>3, <3>5
  <2> QED BY <2>4, <2>5
<1>5. CASE GenPublish
  <2>0. gen \in [pc : {"idle", "scan"}, id : 0..MaxId, todo : SUBSET QID, lines : Seq(Line)]
    BY <1>0 DEF TypeOK
  <2>1. PICK n \in Name : /\ n # snapshot.name /\ n # meta.etag /\ n # dl.file.name
                          /\ snapshot' = [name |-> n, id |-> gen.id, lines |-> gen.lines]
    BY <1>5 DEF GenPublish
  <2>2. /\ gen.pc = "scan" /\ gen.todo = {} /\ faults' = faults
        /\ gen' = [gen EXCEPT !.pc = "idle", !.lines = <<>>, !.id = 0]
    BY <1>5 DEF GenPublish
  <2>3. snapshot'.name = n /\ snapshot'.id = gen.id /\ snapshot'.lines = gen.lines
    BY <2>1
  <2>4. TypeOK'
    <3>1. snapshot' \in Snapshot
      BY <2>0, <2>1 DEF Snapshot
    <3>2. gen' \in [pc : {"idle", "scan"}, id : 0..MaxId, todo : SUBSET QID, lines : Seq(Line)]
      <4>1. 0 \in 0..MaxId /\ <<>> \in Seq(Line)
        BY EmptyLines
      <4> QED BY ONLY <2>0, <2>2, <4>1
    <3> QED BY <1>0, <2>2, <3>1, <3>2 DEF TypeOK
  <2>5. GenInv'
    BY <1>0, <2>0, <2>2, EmptyLines DEF GenInv
  <2>6. FileOK(snapshot)'
    <3>1. Agrees(gen.id, gen.lines, QID) /\ Unique(gen.lines) /\ gen.id <= lastId
      BY <2>2 DEF IInv, GenInv
    <3> QED BY <1>0, <2>3, <3>1 DEF FileOK, Agrees, Covers, FirstId, Quiet
  <2>7. FileInv' /\ ResumeInv'
    BY <1>0, <1>1, <2>1, <2>3, <2>6 DEF FileInv, ResumeInv
  <2> QED BY <1>1, <2>4, <2>5, <2>7 DEF IInv
<1>6. CASE GenFail
  <2>0. gen \in [pc : {"idle", "scan"}, id : 0..MaxId, todo : SUBSET QID, lines : Seq(Line)]
    BY <1>0 DEF TypeOK
  <2>1. gen' = [gen EXCEPT !.pc = "idle", !.todo = {}, !.lines = <<>>, !.id = 0] /\ snapshot' = snapshot
    BY <1>6 DEF GenFail
  <2>2. faults' \in 0..MaxFaults
    BY <1>0, <1>6 DEF GenFail, Fault, TypeOK
  <2>3. TypeOK'
    <3>1. gen' \in [pc : {"idle", "scan"}, id : 0..MaxId, todo : SUBSET QID, lines : Seq(Line)]
      <4>1. 0 \in 0..MaxId /\ <<>> \in Seq(Line)
        BY EmptyLines
      <4> QED BY ONLY <2>0, <2>1, <4>1
    <3> QED BY <1>0, <2>1, <2>2, <3>1 DEF TypeOK
  <2>4. GenInv'
    BY <1>0, <2>0, <2>1, EmptyLines DEF GenInv
  <2> QED BY <1>2, <2>1, <2>3, <2>4
<1> QED BY <1>3, <1>4, <1>5, <1>6

-------------------------------------------------------------------------
(* The download. *)

MetaType == [cursor : 0..MaxId, etag : Name \cup {NoName}, offset : Nat, before : Nat \cup {-1}]
DlType == [file : Snapshot, pos : Nat, total : Nat, checked : BOOLEAN]
Offline == {"start", "flush", "persist", "apply", "final"}

LEMMA NothingFacts ==
  /\ NoMeta \in MetaType
  /\ NoMeta.cursor = 0 /\ NoMeta.etag = NoName /\ NoMeta.offset = 0 /\ NoMeta.before = -1
  /\ NoSnapshot \in Snapshot /\ NoSnapshot.name = NoName /\ NoSnapshot.id = 0 /\ NoSnapshot.lines = <<>>
  /\ NoDownload \in DlType /\ NoDownload.file = NoSnapshot /\ NoDownload.pos = 0
  /\ Before(0) = 0
<1>1. Before(0) = 0
  BY SizeAssumption DEF Before
<1>2. NoSnapshot \in Snapshot /\ NoSnapshot.name = NoName /\ NoSnapshot.id = 0 /\ NoSnapshot.lines = <<>>
  BY SizeAssumption, EmptyLines DEF NoSnapshot, Snapshot
<1> QED BY <1>1, <1>2, SizeAssumption DEF NoMeta, MetaType, NoDownload, DlType

\* The first position is 1, so that 0, no position, is never covered.
LEMMA NeverAtZero ==
  /\ changelog \subseteq Change => ~Covers(0)
  /\ changelog' \subseteq Change => ~Covers(0)'
<1>1. \A S \in SUBSET Change : ~ \E x \in S : x.id <= 0
  BY SizeAssumption DEF Change
<1> QED BY <1>1, CoversIff

LEMMA NoFileOK == ASSUME TypeOK', dl'.file = NoSnapshot PROVE FileOK(dl.file)'
<1>1. ~Covers(0)'
  BY NeverAtZero DEF TypeOK
<1>2. 0 <= lastId'
  BY DEF TypeOK
<1> QED BY <1>1, <1>2, NothingFacts, EmptyLines DEF FileOK, Agrees, Covers

LEMMA SetFieldsFacts ==
  ASSUME meta \in MetaType, faults \in 0..MaxFaults, NEW new \in MetaType, NEW fields, SetFields(new, fields)
  PROVE  /\ meta' \in MetaType /\ faults' \in 0..MaxFaults
         /\ meta'.cursor = meta.cursor \/ meta'.cursor = new.cursor
         /\ meta'.etag = meta.etag \/ meta'.etag = new.etag
         /\ meta'.offset = meta.offset \/ meta'.offset = new.offset
         /\ "torn" \notin hazards => meta' = new
<1>1. CASE meta' = new /\ faults' = faults
  BY <1>1
<1>2. CASE "torn" \in hazards /\ Fault /\ \E n \in 0..Len(fields) - 1 :
             meta' = [f \in DOMAIN meta |-> IF \E i \in 1..n : fields[i] = f THEN new[f] ELSE meta[f]]
  <2>1. PICK n : meta' = [f \in DOMAIN meta |->
                            IF \E i \in 1..n : fields[i] = f THEN new[f] ELSE meta[f]]
    BY <1>2
  <2> DEFINE B(f) == \E i \in 1..n : fields[i] = f
  <2> HIDE DEF B
  <2>2. DOMAIN meta = {"cursor", "etag", "offset", "before"}
    BY DEF MetaType
  <2>3. meta' = [f \in {"cursor", "etag", "offset", "before"} |-> IF B(f) THEN new[f] ELSE meta[f]]
    BY <2>1, <2>2 DEF B
  <2>4. meta' = [cursor |-> IF B("cursor") THEN new.cursor ELSE meta.cursor,
                 etag |-> IF B("etag") THEN new.etag ELSE meta.etag,
                 offset |-> IF B("offset") THEN new.offset ELSE meta.offset,
                 before |-> IF B("before") THEN new.before ELSE meta.before]
    BY <2>3
  <2>5. faults' \in 0..MaxFaults
    BY <1>2, SizeAssumption DEF Fault
  <2> QED BY <1>2, <2>4, <2>5 DEF MetaType
<1> QED BY <1>1, <1>2 DEF SetFields

\* What the steps of a download have in common: they leave the primary, the
\* replicator and the (closed) stream alone.
LEMMA OfflineFrame ==
  ASSUME IInv, rc \in Offline, rc' \in Offline,
         UNCHANGED <<primaryVars, replicatorVars, streamVars, hazards>>
  PROVE  /\ LogInv' /\ GenInv' /\ FileOK(snapshot)' /\ FlightInv' /\ ResetInv'
         /\ inflight' = {} /\ handler'.pc # "open"
         /\ dl' = dl => FileInv'
         /\ meta'.cursor = 0 => StreamInv'
<1>0. /\ UNCHANGED <<entities, changelog, lastId, seed, reseeds, gen, snapshot, handler, inflight, hazards>>
      /\ inflight = {} /\ handler.pc # "open"
  BY DEF primaryVars, replicatorVars, streamVars, Offline, IInv, PhaseInv
<1>1. LogInv' /\ GenInv' /\ FileOK(snapshot)'
  BY <1>0 DEF IInv, LogInv, GenInv, FileInv, FileOK, Agrees, Covers, FirstId, Quiet
<1>2. FlightInv' /\ ResetInv'
  BY <1>0 DEF FlightInv, ResetInv, Offline
<1>3. dl' = dl => FileInv'
  BY <1>0, <1>1 DEF IInv, FileInv, FileOK, Agrees, Covers, FirstId, Quiet
<1>4. meta'.cursor = 0 => StreamInv'
  BY DEF StreamInv
<1> QED BY <1>0, <1>1, <1>2, <1>3, <1>4

LEMMA ResumeFromDown ==
  ASSUME TypeOK', FileInv', DownInv', Downloading'
  PROVE  ResumeInv'
<1> SUFFICES ASSUME meta'.etag # NoName, meta'.etag = snapshot'.name
             PROVE  /\ Before(meta'.offset) <= Len(snapshot'.lines)
                    /\ Applied(snapshot, Before(meta.offset))' /\ Only(snapshot)'
  BY DEF ResumeInv, Before
<1>1. dl'.file = snapshot'
  BY DEF FileInv, DownInv
<1>2. /\ Before(meta'.offset) <= dl'.pos /\ dl'.pos <= Len(dl'.file.lines)
      /\ Applied(dl.file, dl.pos)' /\ Only(dl.file)'
  BY DEF DownInv, TypeOK, Before
<1>3. Before(meta'.offset) \in Nat /\ dl'.pos \in Nat /\ Len(dl'.file.lines) \in Nat
  <2>1. meta'.offset \in Nat /\ dl'.pos \in Nat /\ dl'.file.lines \in Seq(Line)
    BY DEF TypeOK, Snapshot
  <2>2. Before(meta'.offset) \in Nat
    BY ONLY <2>1, BeforeNat
  <2>3. Len(dl'.file.lines) \in Nat
    BY ONLY <2>1
  <2> QED BY <2>1, <2>2, <2>3
<1>4. Only(snapshot)'
  BY <1>1, <1>2 DEF Only
<1>5. Applied(snapshot, Before(meta.offset))'
  BY <1>1, <1>2, <1>3 DEF Applied, Before
<1> QED BY <1>1, <1>2, <1>3, <1>4, <1>5

LEMMA FetchKeeps == ASSUME IInv, FetchSnapshot, hazards' = hazards PROVE IInv'
<1> USE SizeAssumption
<1>0. /\ rc = "start" /\ rc' \in {"persist", "flush"} /\ meta.cursor = 0 /\ Current
      /\ UNCHANGED <<primaryVars, replicatorVars, streamVars, hazards>>
      /\ UNCHANGED <<rentities, meta, faults>>
  BY DEF FetchSnapshot
<1>1. /\ LogInv' /\ GenInv' /\ FileOK(snapshot)' /\ FlightInv' /\ ResetInv' /\ StreamInv'
      /\ inflight' = {} /\ handler'.pc # "open"
  BY <1>0, OfflineFrame DEF Offline
<1>2. UNCHANGED <<entities, changelog, lastId, seed, reseeds, gen, snapshot, handler, inflight>>
  BY <1>0 DEF primaryVars, replicatorVars, streamVars
<1>t. /\ meta \in MetaType /\ snapshot \in Snapshot /\ snapshot.id \in Nat /\ snapshot.lines \in Seq(Line)
      /\ changelog \subseteq Change /\ TypeOK
  BY DEF IInv, TypeOK, MetaType, Snapshot
<1>3. snapshot.id > 0 /\ snapshot.name # NoName
  BY <1>0, <1>t, NeverAtZero DEF Current
<1>4. ResumeInv'
  BY <1>0, <1>2 DEF IInv, ResumeInv, Applied, Only
<1>5. CASE ResumeGranted
  <2>1. /\ dl' = [file |-> snapshot, pos |-> Before(meta.offset), total |-> meta.before, checked |-> FALSE]
        /\ rc' = "persist"
    BY <1>5 DEF FetchSnapshot
  <2>2. /\ dl'.file = snapshot /\ dl'.pos = Before(meta.offset) /\ dl'.total = meta.before
        /\ dl'.file.name = meta.etag
    BY <1>5, <2>1 DEF ResumeGranted
  <2>3. /\ Before(meta.offset) <= Len(snapshot.lines) /\ Applied(snapshot, Before(meta.offset))
        /\ Only(snapshot) /\ meta.offset > 0 /\ meta.before \in Nat
    BY <1>0, <1>5, <1>t DEF IInv, ResumeInv, ResumeGranted, ResumeRequested, MetaType
  <2>4. Before(meta.offset) \in Nat /\ Before(meta.offset) % FrameSize = 0
    BY <1>t, Frames DEF MetaType
  <2>5. dl' \in DlType
    BY <1>t, <2>1, <2>3, <2>4 DEF DlType
  <2>6. TypeOK'
    BY <1>0, <1>2, <1>t, <2>1, <2>2, <2>3, <2>5 DEF TypeOK, DlType
  <2>7. FileInv'
    BY <1>1, <1>2, <2>2 DEF FileInv, FileOK, Agrees, Covers, FirstId, Quiet
  <2>8. PhaseInv'
    BY <1>0, <1>1, <1>2, <1>3, <2>1, <2>2 DEF IInv, PhaseInv, Downloading
  <2>9. DownInv'
    BY <1>0, <1>2, <2>1, <2>2, <2>3, <2>4 DEF DownInv, Downloading, Applied, Only, Before
  <2>10. PairInv'
    BY <1>0, <2>1, <2>2, <2>3 DEF IInv, PairInv, ResumePairMatches, Downloading, Before
  <2> QED BY <1>1, <1>4, <2>6, <2>7, <2>8, <2>9, <2>10 DEF IInv
<1>6. CASE ~ResumeGranted
  <2>1. dl' = [file |-> snapshot, pos |-> 0, total |-> 0, checked |-> FALSE] /\ rc' = "flush"
    BY <1>6 DEF FetchSnapshot
  <2>2. dl'.file = snapshot /\ dl'.pos = 0 /\ dl'.total = 0 /\ dl' \in DlType
    BY <1>t, <2>1 DEF DlType
  <2>3. TypeOK'
    BY <1>0, <1>2, <1>t, <2>1, <2>2 DEF TypeOK, DlType
  <2>4. FileInv'
    BY <1>1, <1>2, <2>2 DEF FileInv, FileOK, Agrees, Covers, FirstId, Quiet
  <2>5. PhaseInv' /\ DownInv' /\ PairInv'
    BY <1>0, <1>1, <1>2, <1>3, <2>1, <2>2
       DEF IInv, PhaseInv, Downloading, DownInv, PairInv, ResumePairMatches, Before
  <2> QED BY <1>1, <1>4, <2>3, <2>4, <2>5 DEF IInv
<1> QED BY <1>5, <1>6

LEMMA FlushKeeps == ASSUME IInv, FlushForSnapshot, hazards' = hazards PROVE IInv'
<1> USE SizeAssumption
<1>0. /\ rc = "flush" /\ rc' = "persist" /\ meta' = NoMeta /\ rentities' = [q \in QID |-> NoDoc]
      /\ UNCHANGED <<primaryVars, replicatorVars, streamVars, hazards>>
      /\ UNCHANGED <<dl, faults>>
  BY DEF FlushForSnapshot
<1>1. /\ LogInv' /\ GenInv' /\ FlightInv' /\ ResetInv' /\ StreamInv' /\ FileInv'
      /\ inflight' = {} /\ handler'.pc # "open"
  BY <1>0, OfflineFrame, NothingFacts DEF Offline
<1>2. UNCHANGED <<entities, changelog, lastId, seed, reseeds, gen, snapshot, handler, inflight>>
  BY <1>0 DEF primaryVars, replicatorVars, streamVars
<1>3. TypeOK'
  BY <1>0, <1>2, NothingFacts DEF IInv, TypeOK, MetaType, DocOrNone
<1>4. dl.pos = 0 /\ dl.total = 0 /\ dl.file.id > 0 /\ dl.file.name # NoName /\ lastId' \in Nat
  BY <1>0, <1>3 DEF IInv, PhaseInv, TypeOK
<1>5. PhaseInv'
  BY <1>0, <1>1, <1>4, NothingFacts DEF PhaseInv, Downloading
<1>6. ResumeInv'
  BY <1>0, NothingFacts DEF ResumeInv
<1>7. PairInv'
  BY <1>0, <1>4, NothingFacts DEF PairInv, ResumePairMatches
<1>8. DownInv'
  <2>1. Only(dl.file)'
    BY <1>0 DEF Only
  <2>2. Applied(dl.file, dl.pos)'
    BY <1>0, <1>4 DEF Applied
  <2>3. 0 % FrameSize = 0
    OBVIOUS
  <2> QED BY <1>0, <1>4, <2>1, <2>2, <2>3, NothingFacts DEF DownInv
<1> QED BY <1>1, <1>3, <1>5, <1>6, <1>7, <1>8 DEF IInv

LEMMA GiveUpKeeps ==
  ASSUME IInv, rc = "apply", GiveUp,
         UNCHANGED <<primaryVars, replicatorVars, streamVars, hazards>>, UNCHANGED <<rentities, meta, faults>>
  PROVE  IInv'
<1>0. rc' = "start" /\ dl' = NoDownload
  BY DEF GiveUp
<1>1. UNCHANGED <<entities, changelog, lastId, seed, reseeds, gen, snapshot, handler, inflight>>
  BY DEF primaryVars, replicatorVars, streamVars
<1>2. meta.cursor = 0
  BY DEF IInv, PhaseInv, Downloading
<1>3. /\ LogInv' /\ GenInv' /\ FileOK(snapshot)' /\ FlightInv' /\ ResetInv' /\ StreamInv'
      /\ inflight' = {} /\ handler'.pc # "open"
  BY <1>0, <1>2, OfflineFrame DEF Offline
<1>4. TypeOK'
  <2>1. NoDownload \in DlType /\ NoDownload.pos <= Len(NoDownload.file.lines)
    BY NothingFacts
  <2> QED BY <1>0, <1>1, <2>1 DEF IInv, TypeOK, DlType
<1>5. FileInv'
  BY <1>0, <1>3, <1>4, NoFileOK, NothingFacts DEF FileInv
<1>6. PhaseInv' /\ DownInv' /\ PairInv' /\ ResumeInv'
  BY <1>0, <1>1, <1>2, <1>3
     DEF IInv, PhaseInv, Downloading, DownInv, PairInv, ResumePairMatches, ResumeInv, Before, Applied, Only
<1> QED BY <1>3, <1>4, <1>5, <1>6 DEF IInv

LEMMA PersistKeeps == ASSUME IInv, PersistProgress, hazards' = hazards PROVE IInv'
<1> USE SizeAssumption
<1> DEFINE new == [meta EXCEPT !.etag = dl.file.name, !.offset = dl.pos \div FrameSize, !.before = dl.total]
<1>0. /\ rc = "persist" /\ rc' = "apply" /\ SetFields(new, <<"etag", "offset", "before">>)
      /\ UNCHANGED <<primaryVars, replicatorVars, streamVars, hazards>> /\ UNCHANGED <<rentities, dl>>
  BY DEF PersistProgress
<1>t. meta \in MetaType /\ dl \in DlType /\ dl.file.name \in Name \cup {NoName} /\ faults \in 0..MaxFaults
  BY DEF IInv, TypeOK, MetaType, DlType, Snapshot
<1>f. /\ dl.pos \div FrameSize \in Nat /\ Before(dl.pos \div FrameSize) <= dl.pos
      /\ dl.pos % FrameSize = 0 => Before(dl.pos \div FrameSize) = dl.pos
  BY <1>t, Frames DEF DlType
<1>1. /\ new \in MetaType /\ new.cursor = meta.cursor /\ new.etag = dl.file.name
      /\ new.offset = dl.pos \div FrameSize /\ new.before = dl.total
  BY <1>t, <1>f DEF MetaType, DlType
<1> HIDE DEF new
<1>2. /\ meta' \in MetaType /\ faults' \in 0..MaxFaults /\ meta'.cursor = meta.cursor
      /\ meta'.etag \in {meta.etag, dl.file.name}
      /\ meta'.offset \in {meta.offset, dl.pos \div FrameSize}
      /\ "torn" \notin hazards => meta' = new
  BY <1>0, <1>t, <1>1, SetFieldsFacts
<1>3. UNCHANGED <<entities, changelog, lastId, seed, reseeds, gen, snapshot, handler, inflight>>
  BY <1>0 DEF primaryVars, replicatorVars, streamVars
<1>4. meta.cursor = 0
  BY <1>0 DEF IInv, PhaseInv, Downloading
<1>5. /\ LogInv' /\ GenInv' /\ FileInv' /\ FlightInv' /\ ResetInv' /\ StreamInv'
      /\ inflight' = {} /\ handler'.pc # "open"
  BY <1>0, <1>2, <1>4, OfflineFrame DEF Offline
<1>6. TypeOK'
  BY <1>0, <1>2, <1>3 DEF IInv, TypeOK, MetaType
<1>7. PhaseInv'
  BY <1>0, <1>2, <1>3, <1>5 DEF IInv, PhaseInv, Downloading
<1>8. DownInv'
  <2>1. Before(meta'.offset) <= dl.pos
    BY <1>0, <1>2, <1>f DEF IInv, DownInv, Downloading
  <2>2. Applied(dl.file, dl.pos)' /\ Only(dl.file)'
    BY <1>0 DEF IInv, DownInv, Downloading, Applied, Only
  <2>3. meta'.etag \in {NoName, dl.file.name}
    BY <1>0, <1>2 DEF IInv, DownInv, Downloading
  <2> QED BY <1>0, <2>1, <2>2, <2>3 DEF DownInv, Before
<1>9. PairInv'
  <2> SUFFICES ASSUME "torn" \notin hazards PROVE ResumePairMatches' /\ dl'.total = dl'.pos
    BY <1>0 DEF PairInv
  <2>1. dl.total = dl.pos /\ dl.pos % FrameSize = 0
    BY <1>0 DEF IInv, PairInv, DownInv, Downloading
  <2>2. Before(meta'.offset) = meta'.before
    BY <1>1, <1>2, <1>f, <2>1
  <2> QED BY <1>0, <2>1, <2>2 DEF ResumePairMatches, Before
<1>10. ResumeInv'
  BY <1>0, <1>5, <1>6, <1>8, ResumeFromDown DEF Downloading
<1> QED BY <1>5, <1>6, <1>7, <1>8, <1>9, <1>10 DEF IInv

LEMMA CheckpointKeeps == ASSUME IInv, ApplyCheckpoint, hazards' = hazards PROVE IInv'
<1> USE SizeAssumption
<1> DEFINE new == [meta EXCEPT !.offset = dl.pos \div FrameSize, !.before = dl.pos]
<1>0. /\ rc = "apply" /\ dl.pos % FrameSize = 0
      /\ UNCHANGED <<primaryVars, replicatorVars, streamVars, hazards>> /\ rentities' = rentities
  BY DEF ApplyCheckpoint, AtCheckpoint
<1>a. CASE dl.total # dl.pos
  BY <1>0, <1>a, GiveUpKeeps DEF ApplyCheckpoint
<1>b. CASE dl.total = dl.pos
  <2>0. /\ SetFields(new, <<"offset", "before">>)
        /\ dl' = [dl EXCEPT !.checked = TRUE] /\ rc' = rc
    BY <1>b DEF ApplyCheckpoint
  <2>t. meta \in MetaType /\ dl \in DlType /\ faults \in 0..MaxFaults
    BY DEF IInv, TypeOK, MetaType, DlType
  <2>d. dl' \in DlType /\ dl'.file = dl.file /\ dl'.pos = dl.pos /\ dl'.total = dl.total
    BY <2>0, <2>t DEF DlType
  <2>f. dl.pos \div FrameSize \in Nat /\ Before(dl.pos \div FrameSize) = dl.pos
    BY <1>0, <2>t, Frames DEF DlType
  <2>1. /\ new \in MetaType /\ new.cursor = meta.cursor /\ new.etag = meta.etag
        /\ new.offset = dl.pos \div FrameSize /\ new.before = dl.pos
    BY <2>t, <2>f DEF MetaType, DlType
  <2> HIDE DEF new
  <2>2. /\ meta' \in MetaType /\ faults' \in 0..MaxFaults /\ meta'.cursor = meta.cursor
        /\ meta'.etag = meta.etag
        /\ meta'.offset \in {meta.offset, dl.pos \div FrameSize}
        /\ "torn" \notin hazards => meta' = new
    BY <2>0, <2>t, <2>1, SetFieldsFacts
  <2>3. UNCHANGED <<entities, changelog, lastId, seed, reseeds, gen, snapshot, handler, inflight>>
    BY <1>0 DEF primaryVars, replicatorVars, streamVars
  <2>4. meta.cursor = 0
    BY <1>0 DEF IInv, PhaseInv, Downloading
  <2>5. /\ LogInv' /\ GenInv' /\ FileOK(snapshot)' /\ FlightInv' /\ ResetInv' /\ StreamInv'
        /\ inflight' = {} /\ handler'.pc # "open"
    BY <1>0, <2>0, <2>2, <2>4, OfflineFrame DEF Offline
  <2>6. TypeOK'
    BY <1>0, <2>0, <2>2, <2>3, <2>d DEF IInv, TypeOK, MetaType, DlType
  <2>7. FileInv'
    BY <2>3, <2>5, <2>d DEF IInv, FileInv, FileOK, Agrees, Covers, FirstId, Quiet
  <2>8. PhaseInv'
    BY <1>0, <2>0, <2>2, <2>3, <2>5, <2>d DEF IInv, PhaseInv, Downloading
  <2>9. DownInv'
    <3>1. Before(meta'.offset) <= dl.pos
      <4>1. dl.pos <= dl.pos
        BY <2>t DEF DlType
      <4> QED BY <1>0, <2>2, <2>f, <4>1 DEF IInv, DownInv, Downloading
    <3>2. Applied(dl.file, dl.pos)' /\ Only(dl.file)'
      BY <1>0, <2>d DEF IInv, DownInv, Downloading, Applied, Only
    <3>3. meta'.etag \in {NoName, dl.file.name}
      BY <1>0, <2>2 DEF IInv, DownInv, Downloading
    <3> QED BY <1>0, <2>0, <2>d, <3>1, <3>2, <3>3 DEF DownInv, Before
  <2>10. PairInv'
    <3> SUFFICES ASSUME "torn" \notin hazards PROVE ResumePairMatches' /\ dl'.total = dl'.pos
      BY <1>0 DEF PairInv
    <3>1. Before(meta'.offset) = meta'.before
      BY <2>1, <2>2, <2>f
    <3> QED BY <1>b, <2>d, <3>1 DEF ResumePairMatches, Before
  <2>11. ResumeInv'
    BY <1>0, <2>0, <2>6, <2>7, <2>9, ResumeFromDown DEF Downloading
  <2> QED BY <2>5, <2>6, <2>7, <2>8, <2>9, <2>10, <2>11 DEF IInv
<1> QED BY <1>a, <1>b

LEMMA LineKeeps == ASSUME IInv, ApplyLine, hazards' = hazards PROVE IInv'
<1> USE SizeAssumption
<1> DEFINE line == dl.file.lines[dl.pos + 1]
<1>0. /\ rc = "apply" /\ rc' = rc /\ dl.pos < Len(dl.file.lines)
      /\ rentities' = [rentities EXCEPT ![line.q] = line.d]
      /\ dl' = [dl EXCEPT !.pos = @ + 1, !.total = @ + 1, !.checked = FALSE]
      /\ UNCHANGED <<primaryVars, replicatorVars, streamVars, hazards>> /\ UNCHANGED <<meta, faults>>
  BY DEF ApplyLine
<1>t. /\ dl \in DlType /\ dl.file.lines \in Seq(Line) /\ dl.pos \in Nat /\ meta.offset \in Nat
      /\ rentities \in [QID -> DocOrNone]
  BY DEF IInv, TypeOK, DlType, Snapshot
<1>d. dl' \in DlType /\ dl'.file = dl.file /\ dl'.pos = dl.pos + 1 /\ dl'.total = dl.total + 1
  <2>1. dl' = [dl EXCEPT !.pos = @ + 1, !.total = @ + 1, !.checked = FALSE]
    BY <1>0
  <2>2. dl \in DlType
    BY <1>t
  <2>3. dl.file \in Snapshot /\ dl.pos + 1 \in Nat /\ dl.total + 1 \in Nat
    BY <2>2 DEF DlType
  <2>4. dl' = [file |-> dl.file, pos |-> dl.pos + 1, total |-> dl.total + 1, checked |-> FALSE]
    BY ONLY <2>1, <2>2 DEF DlType
  <2> QED BY ONLY <2>3, <2>4 DEF DlType
<1>l. dl.pos + 1 \in 1..Len(dl.file.lines) /\ line \in Line /\ line.q \in QID /\ line.d \in Doc
      /\ line = [q |-> line.q, d |-> line.d]
  <2>1. dl.pos + 1 \in 1..Len(dl.file.lines)
    BY <1>0, <1>t
  <2>2. line \in Line
    BY <1>t, <2>1
  <2> QED BY <2>1, <2>2 DEF Line
<1>1. UNCHANGED <<entities, changelog, lastId, seed, reseeds, gen, snapshot, handler, inflight>>
  BY <1>0 DEF primaryVars, replicatorVars, streamVars
<1>2. meta.cursor = 0
  BY <1>0 DEF IInv, PhaseInv, Downloading
<1>3. /\ LogInv' /\ GenInv' /\ FileOK(snapshot)' /\ FlightInv' /\ ResetInv' /\ StreamInv'
      /\ inflight' = {} /\ handler'.pc # "open"
  BY <1>0, <1>2, OfflineFrame DEF Offline
<1>4. rentities' \in [QID -> DocOrNone]
  BY <1>0, <1>t, <1>l DEF DocOrNone
<1>5. TypeOK'
  <2>1. dl'.pos <= Len(dl'.file.lines)
    BY <1>0, <1>t, <1>d
  <2> QED BY <1>0, <1>1, <1>4, <1>d, <2>1 DEF IInv, TypeOK, DlType
<1>6. FileInv'
  BY <1>1, <1>3, <1>d DEF IInv, FileInv, FileOK, Agrees, Covers, FirstId, Quiet
<1>7. PhaseInv'
  BY <1>0, <1>1, <1>3, <1>d DEF IInv, PhaseInv, Downloading
<1>8. PairInv'
  BY <1>0, <1>d DEF IInv, PairInv, ResumePairMatches, Downloading, Before
<1>9. DownInv'
  <2>0. /\ Applied(dl.file, dl.pos) /\ Only(dl.file) /\ Before(meta.offset) <= dl.pos
        /\ meta.etag \in {NoName, dl.file.name} /\ Unique(dl.file.lines)
    BY <1>0 DEF IInv, DownInv, Downloading, FileInv, FileOK
  <2>1. ASSUME NEW i \in 1..Len(dl.file.lines), i <= dl.pos + 1
        PROVE  rentities'[dl.file.lines[i].q] = dl.file.lines[i].d
    <3>0. dl.file.lines[i].q \in QID
      <4>1. dl.file.lines[i] \in Line
        BY <1>t
      <4> QED BY <4>1 DEF Line
    <3>1. CASE i = dl.pos + 1
      BY <1>0, <1>t, <1>l, <3>1
    <3>2. CASE i # dl.pos + 1
      <4>1. i <= dl.pos /\ dl.file.lines[i].q # line.q
        BY <1>t, <1>l, <2>0, <2>1, <3>2 DEF Unique
      <4> QED BY <1>0, <1>t, <1>l, <2>0, <3>0, <4>1 DEF Applied
    <3> QED BY <3>1, <3>2
  <2>2. Applied(dl.file, dl.pos)'
    BY <1>d, <2>1 DEF Applied
  <2>3. Holds(dl.file.lines, line.q, line.d)
    BY <1>l DEF Holds
  <2>4. Only(dl.file)'
    <3> SUFFICES ASSUME NEW q \in QID, rentities'[q] # NoDoc PROVE Holds(dl.file.lines, q, rentities'[q])
      BY <1>d DEF Only
    <3>1. CASE q = line.q
      BY <1>0, <1>t, <2>3, <3>1
    <3>2. CASE q # line.q
      BY <1>0, <1>t, <2>0, <3>2 DEF Only
    <3> QED BY <3>1, <3>2
  <2>5. Before(meta.offset) <= dl.pos + 1
    <3>1. Before(meta.offset) \in Nat
      BY <1>t, BeforeNat
    <3> QED BY <1>t, <2>0, <3>1
  <2> QED BY <1>0, <1>d, <2>0, <2>2, <2>4, <2>5 DEF DownInv, Before
<1>10. ResumeInv'
  BY <1>0, <1>5, <1>6, <1>9, ResumeFromDown DEF Downloading
<1> QED BY <1>3, <1>5, <1>6, <1>7, <1>8, <1>9, <1>10 DEF IInv

LEMMA DoneKeeps == ASSUME IInv, ApplyDone, hazards' = hazards PROVE IInv'
<1>0. /\ rc = "apply" /\ dl.pos = Len(dl.file.lines)
      /\ UNCHANGED <<primaryVars, replicatorVars, streamVars, hazards>> /\ UNCHANGED <<rentities, meta, faults>>
  BY DEF ApplyDone
<1>a. CASE dl.total # dl.pos
  BY <1>0, <1>a, GiveUpKeeps DEF ApplyDone
<1>b. CASE dl.total = dl.pos
  <2>0. rc' = "final" /\ dl' = dl
    BY <1>b DEF ApplyDone
  <2>1. UNCHANGED <<entities, changelog, lastId, seed, reseeds, gen, snapshot, handler, inflight>>
    BY <1>0 DEF primaryVars, replicatorVars, streamVars
  <2>2. meta.cursor = 0
    BY <1>0 DEF IInv, PhaseInv, Downloading
  <2>3. /\ LogInv' /\ GenInv' /\ FileInv' /\ FlightInv' /\ ResetInv' /\ StreamInv'
        /\ inflight' = {} /\ handler'.pc # "open"
    BY <1>0, <2>0, <2>2, OfflineFrame DEF Offline
  <2>4. TypeOK'
    BY <1>0, <2>0, <2>1 DEF IInv, TypeOK
  <2>5. PhaseInv' /\ DownInv' /\ PairInv' /\ ResumeInv'
    BY <1>0, <2>0, <2>1, <2>3
       DEF IInv, PhaseInv, Downloading, DownInv, PairInv, ResumePairMatches, ResumeInv, Before, Applied, Only
  <2> QED BY <2>3, <2>4, <2>5 DEF IInv
<1> QED BY <1>a, <1>b

\* A download that is complete keeps its promise.
LEMMA CompleteDownload ==
  ASSUME IInv, rc = "final", Covers(dl.file.id), NEW q \in QID, Quiet(q, dl.file.id)
  PROVE  rentities[q] = entities[q]
<1>0. /\ rentities[q] \in DocOrNone /\ entities[q] \in DocOrNone /\ dl.file.lines \in Seq(Line)
      /\ dl.pos = Len(dl.file.lines)
      /\ Applied(dl.file, dl.pos) /\ Only(dl.file) /\ Agrees(dl.file.id, dl.file.lines, QID)
  BY DEF IInv, TypeOK, Snapshot, DownInv, Downloading, FileInv, FileOK
<1>1. \A d \in Doc : Holds(dl.file.lines, q, d) <=> entities[q] = d
  BY <1>0 DEF Agrees
<1>2. CASE rentities[q] # NoDoc
  BY <1>0, <1>1, <1>2 DEF Only, DocOrNone
<1>3. CASE rentities[q] = NoDoc /\ entities[q] # NoDoc
  <2>1. entities[q] \in Doc /\ Holds(dl.file.lines, q, entities[q])
    BY <1>0, <1>1, <1>3 DEF DocOrNone
  <2>2. PICK i \in 1..Len(dl.file.lines) : dl.file.lines[i].q = q /\ dl.file.lines[i].d = entities[q]
    BY <1>0, <2>1, LineAt
  <2>3. rentities[q] = entities[q]
    BY <1>0, <2>2 DEF Applied
  <2> QED BY <2>3
<1> QED BY <1>2, <1>3

LEMMA FinishKeeps == ASSUME IInv, FinishSnapshot, hazards' = hazards PROVE IInv'
<1> USE SizeAssumption
<1> DEFINE new == [NoMeta EXCEPT !.cursor = dl.file.id]
<1>0. /\ rc = "final" /\ rc' = "start" /\ SetFields(new, <<"cursor", "etag", "offset", "before">>)
      /\ dl' = NoDownload
      /\ UNCHANGED <<primaryVars, replicatorVars, streamVars, hazards>> /\ rentities' = rentities
  BY DEF FinishSnapshot
<1>t. /\ meta \in MetaType /\ dl.file.id \in 0..MaxId /\ faults \in 0..MaxFaults
      /\ snapshot.lines \in Seq(Line)
  BY DEF IInv, TypeOK, MetaType, DlType, Snapshot
<1>1. new \in MetaType /\ new.cursor = dl.file.id /\ new.etag = NoName /\ new.offset = 0
  <2>1. NoMeta \in MetaType /\ NoMeta.etag = NoName /\ NoMeta.offset = 0
    BY NothingFacts
  <2> QED BY <1>t, <2>1 DEF MetaType
<1> HIDE DEF new
<1>2. /\ meta' \in MetaType /\ faults' \in 0..MaxFaults /\ meta'.cursor \in {meta.cursor, dl.file.id}
      /\ meta'.etag \in {meta.etag, NoName}
      /\ meta'.offset \in {meta.offset, 0}
      /\ "torn" \notin hazards => meta' = new
  BY <1>0, <1>t, <1>1, SetFieldsFacts
<1>3. UNCHANGED <<entities, changelog, lastId, seed, reseeds, gen, snapshot, handler, inflight>>
  BY <1>0 DEF primaryVars, replicatorVars, streamVars
<1>4. meta.cursor = 0 /\ dl.file.id > 0 /\ dl.file.id <= lastId /\ lastId \in Nat
  BY <1>0 DEF IInv, PhaseInv, Downloading, FileInv, FileOK, TypeOK
<1>5. /\ LogInv' /\ GenInv' /\ FileOK(snapshot)' /\ FlightInv' /\ ResetInv'
      /\ inflight' = {} /\ handler'.pc # "open"
  BY <1>0, OfflineFrame DEF Offline
<1>6. TypeOK'
  <2>1. NoDownload \in DlType /\ NoDownload.pos <= Len(NoDownload.file.lines)
    BY NothingFacts
  <2> QED BY <1>0, <1>2, <1>3, <2>1 DEF IInv, TypeOK, MetaType, DlType
<1>7. FileInv'
  BY <1>0, <1>5, <1>6, NoFileOK, NothingFacts DEF FileInv
<1>8. PhaseInv' /\ DownInv'
  BY <1>0, <1>2, <1>3, <1>4, <1>5 DEF PhaseInv, Downloading, DownInv
<1>9. PairInv'
  BY <1>0, <1>1, <1>2 DEF PairInv, ResumePairMatches, Downloading
<1>10. ResumeInv'
  <2> SUFFICES ASSUME meta'.cursor = 0, meta'.etag # NoName, meta'.etag = snapshot.name
               PROVE  /\ Before(meta'.offset) <= Len(snapshot.lines)
                      /\ Applied(snapshot, Before(meta.offset))' /\ Only(snapshot)'
    BY <1>3 DEF ResumeInv, Before
  <2>1. meta.etag = snapshot.name /\ meta.etag # NoName
    BY <1>2
  <2>2. /\ Before(meta.offset) <= Len(snapshot.lines) /\ Applied(snapshot, Before(meta.offset))
        /\ Only(snapshot)
    BY <1>4, <2>1 DEF IInv, ResumeInv
  <2>3. Only(snapshot)'
    BY <1>0, <1>3, <2>2 DEF Only
  <2>4. CASE meta'.offset = meta.offset
    BY <1>0, <1>3, <2>2, <2>3, <2>4 DEF Applied, Before
  <2>5. CASE meta'.offset = 0
    <3>1. Before(meta'.offset) = 0 /\ 0 <= Len(snapshot.lines)
      BY <1>t, <2>5, NothingFacts
    <3>2. Applied(snapshot, Before(meta.offset))'
      BY <1>0, <1>3, <3>1 DEF Applied, Before
    <3> QED BY <2>3, <3>1, <3>2
  <2> QED BY <1>2, <2>4, <2>5
<1>11. StreamInv'
  <2> SUFFICES ASSUME meta'.cursor # 0, NEW r \in 0..MaxId, IsReach(r)', Covers(r)',
                      NEW q \in QID, Quiet(q, r)'
               PROVE  Delivered(r, q)'
    BY <1>5 DEF StreamInv
  <2>1. r = dl.file.id
    BY <1>2, <1>4, <1>5 DEF IsReach
  <2>2. Covers(dl.file.id) /\ Quiet(q, dl.file.id)
    BY <1>3, <2>1 DEF Covers, FirstId, Quiet
  <2>3. rentities[q] = entities[q]
    BY <1>0, <2>2, CompleteDownload
  <2> QED BY <1>0, <1>3, <1>5, <2>3 DEF Delivered
<1> QED BY <1>5, <1>6, <1>7, <1>8, <1>9, <1>10, <1>11 DEF IInv

-------------------------------------------------------------------------
(* The stream. *)

Online == {"start", "stream", "cursor", "await", "purge"}

\* What the steps of a stream have in common: they leave the primary, the
\* replicator and the download alone, and keep a cursor.
LEMMA OnlineFrame ==
  ASSUME IInv, UNCHANGED <<primaryVars, replicatorVars, hazards>>, UNCHANGED dl, rc' \in Online,
         meta'.cursor # 0, meta'.offset = meta.offset, meta'.before = meta.before
  PROVE  /\ LogInv' /\ GenInv' /\ FileInv' /\ DownInv' /\ ResumeInv' /\ PairInv'
         /\ UNCHANGED <<entities, changelog, lastId, seed, reseeds, gen, snapshot, hazards>>
<1>0. UNCHANGED <<entities, changelog, lastId, seed, reseeds, gen, snapshot, hazards>>
  BY DEF primaryVars, replicatorVars
<1>1. LogInv' /\ GenInv' /\ FileInv'
  BY <1>0 DEF IInv, LogInv, GenInv, FileInv, FileOK, Agrees, Covers, FirstId, Quiet
<1>2. DownInv' /\ ResumeInv'
  BY DEF DownInv, Downloading, ResumeInv, Online
<1>3. PairInv'
  BY <1>0 DEF IInv, PairInv, ResumePairMatches, Downloading, Online, Before
<1> QED BY <1>0, <1>1, <1>2, <1>3

\* The least of the changes in flight.
LEMMA NextChangeFacts ==
  ASSUME IInv, inflight # {}
  PROVE  /\ NextChange \in inflight /\ \A y \in inflight : NextChange.id <= y.id
         /\ NextChange.id \in 1..MaxId /\ NextChange.q \in QID /\ NextChange.d \in DocOrNone
         /\ meta.cursor < NextChange.id /\ NextChange.id <= lastId
<1>1. NextChange \in inflight /\ \A y \in inflight : NextChange.id <= y.id
  BY LeastEntry DEF IInv, TypeOK, NextChange
<1>2. NextChange \in Change
  BY <1>1 DEF IInv, TypeOK
<1> QED BY <1>1, <1>2 DEF Change, IInv, FlightInv

\* The reach exists and is unique.
LEMMA ReachFacts ==
  ASSUME IInv
  PROVE  /\ \E r \in 0..MaxId : IsReach(r) /\ meta.cursor <= r
         /\ \A r, s \in 0..MaxId : IsReach(r) /\ IsReach(s) => r = s
<1> USE SizeAssumption
<1>0. /\ inflight \subseteq Change /\ meta.cursor \in 0..MaxId
      /\ \A x \in inflight : x.id \in 1..MaxId /\ meta.cursor < x.id
  BY DEF IInv, TypeOK, Change, FlightInv
<1>1. CASE inflight = {}
  BY <1>0, <1>1 DEF IsReach
<1>2. CASE inflight # {}
  <2>1. PICK g \in inflight : \A y \in inflight : y.id <= g.id
    BY <1>0, <1>2, GreatestEntry
  <2>2. IsReach(g.id) /\ g.id \in 0..MaxId /\ meta.cursor <= g.id
    BY <1>0, <2>1 DEF IsReach
  <2>3. \A r, s \in 0..MaxId : IsReach(r) /\ IsReach(s) => r = s
    BY <1>0, <1>2 DEF IsReach
  <2> QED BY <2>2, <2>3
<1> QED BY <1>1, <1>2

\* What the property says follows from what the reach promises: an item with a
\* change in flight is not quiet at the cursor.
LEMMA KeptChanges ==
  ASSUME IInv, Mild, meta.cursor # 0, Covers(meta.cursor), NEW q \in QID, Quiet(q, meta.cursor)
  PROVE  rentities[q] = entities[q]
<1> USE SizeAssumption
<1>0. /\ inflight \subseteq Change /\ changelog \subseteq Change /\ meta.cursor \in Nat
      /\ \A x \in inflight : x.id \in Nat /\ meta.cursor < x.id
      /\ \A x \in changelog : x.id \in Nat
      /\ \A x \in inflight : (\E y \in changelog : y.id <= x.id) => x \in changelog
  BY DEF IInv, TypeOK, Change, FlightInv
<1>1. PICK r \in 0..MaxId : IsReach(r) /\ meta.cursor <= r
  BY ReachFacts
<1>2. PICK y \in changelog : y.id <= meta.cursor
  BY <1>0, CoversIff
<1>3. r \in Nat /\ y.id \in Nat /\ y.id <= r
  BY <1>0, <1>1, <1>2
<1>4. Covers(r)
  BY <1>0, <1>2, <1>3, CoversIff
<1>5. Quiet(q, r)
  BY <1>0, <1>1, <1>3 DEF Quiet
<1>6. \A x \in inflight : x.q # q
  <2> SUFFICES ASSUME NEW x \in inflight PROVE x.q # q
    OBVIOUS
  <2>1. x.id \in Nat /\ meta.cursor < x.id /\ y.id <= x.id
    BY <1>0, <1>2, <1>3
  <2>2. x \in changelog
    BY <1>0, <2>1
  <2> QED BY <2>1, <2>2 DEF Quiet
<1>7. Delivered(r, q)
  BY <1>1, <1>4, <1>5 DEF IInv, StreamInv
<1> QED BY <1>6, <1>7 DEF Delivered

LEMMA ConnectKeeps == ASSUME IInv, ConnectStream, hazards' = hazards PROVE IInv'
<1> USE SizeAssumption
<1>0. /\ rc = "start" /\ meta.cursor # 0 /\ rc' \in {"stream", "await"}
      /\ UNCHANGED <<primaryVars, replicatorVars, hazards>> /\ UNCHANGED dl
      /\ UNCHANGED <<inflight, rentities, meta, faults>>
  BY DEF ConnectStream
<1>1. /\ LogInv' /\ GenInv' /\ FileInv' /\ DownInv' /\ ResumeInv' /\ PairInv'
      /\ UNCHANGED <<entities, changelog, lastId, seed, reseeds, gen, snapshot, hazards>>
  BY <1>0, OnlineFrame DEF Online
<1>2. inflight = {} /\ handler.pc # "open" /\ meta.cursor <= lastId
  BY <1>0 DEF IInv, PhaseInv
<1>t. meta.cursor \in 0..MaxId /\ handler \in [pc : {"closed", "reset", "open"}, cursor : 0..MaxId]
  BY DEF IInv, TypeOK
<1>3. CASE Covers(meta.cursor)
  <2>0. handler' = [pc |-> "open", cursor |-> meta.cursor] /\ rc' = "stream"
    BY <1>3 DEF ConnectStream
  <2>1. TypeOK'
    BY <1>0, <1>1, <1>t, <2>0 DEF IInv, TypeOK
  <2>2. PhaseInv' /\ ResetInv'
    BY <1>0, <1>1, <1>2, <2>0 DEF PhaseInv, ResetInv, Downloading
  <2>3. FlightInv'
    BY <1>0, <1>2, <2>0 DEF FlightInv, IsReach
  <2>4. StreamInv'
    <3> SUFFICES ASSUME Mild, NEW r \in 0..MaxId, IsReach(r)', NEW q \in QID, Quiet(q, r)'
                 PROVE  Delivered(r, q)'
      BY <1>1 DEF StreamInv, Mild
    <3>1. r = meta.cursor
      BY <1>0, <1>2 DEF IsReach
    <3>2. Quiet(q, meta.cursor)
      BY <1>1, <3>1 DEF Quiet
    <3>3. rentities[q] = entities[q]
      BY <1>0, <1>3, <3>2, KeptChanges
    <3> QED BY <1>0, <1>1, <1>2, <3>3 DEF Delivered
  <2> QED BY <1>1, <2>1, <2>2, <2>3, <2>4 DEF IInv
<1>4. CASE ~Covers(meta.cursor)
  <2>0. handler' = [handler EXCEPT !.pc = "reset"] /\ rc' = "await"
    BY <1>4 DEF ConnectStream
  <2>h. handler' \in [pc : {"closed", "reset", "open"}, cursor : 0..MaxId] /\ handler'.pc = "reset"
    BY <1>t, <2>0
  <2>1. TypeOK'
    BY <1>0, <1>1, <1>t, <2>0, <2>h DEF IInv, TypeOK
  <2>2. PhaseInv' /\ FlightInv'
    BY <1>0, <1>1, <1>2, <2>0, <2>h DEF PhaseInv, Downloading, FlightInv
  <2>3. ResetInv'
    BY <1>0, <1>1, <1>4 DEF ResetInv, Covers, FirstId
  <2>4. StreamInv'
    BY <1>0, <1>1, <1>2, <1>4, <2>h DEF StreamInv, IsReach, Covers, FirstId
  <2> QED BY <1>1, <2>1, <2>2, <2>3, <2>4 DEF IInv
<1> QED BY <1>3, <1>4

\* The stream is closed and nothing of it is left to apply.
LEMMA ClosedKeeps ==
  ASSUME IInv, UNCHANGED <<primaryVars, replicatorVars, hazards>>, UNCHANGED dl,
         UNCHANGED <<rentities, meta>>, faults' \in 0..MaxFaults, meta.cursor # 0, inflight = {}, inflight' = {},
         handler' \in [pc : {"closed", "reset"}, cursor : 0..MaxId],
         rc' = "start" \/ (rc' = "purge" /\ ~Covers(meta.cursor))
  PROVE  IInv'
<1> USE SizeAssumption
<1>1. /\ LogInv' /\ GenInv' /\ FileInv' /\ DownInv' /\ ResumeInv' /\ PairInv'
      /\ UNCHANGED <<entities, changelog, lastId, seed, reseeds, gen, snapshot, hazards>>
  BY OnlineFrame DEF Online
<1>2. TypeOK'
  BY <1>1 DEF IInv, TypeOK
<1>3. PhaseInv' /\ FlightInv'
  BY <1>1 DEF IInv, PhaseInv, Downloading, FlightInv
<1>4. ResetInv'
  BY <1>1 DEF ResetInv, Covers, FirstId
<1>5. StreamInv'
  <2> SUFFICES ASSUME Mild, NEW r \in 0..MaxId, IsReach(r)', Covers(r)', NEW q \in QID, Quiet(q, r)'
               PROVE  Delivered(r, q)'
    BY <1>1 DEF StreamInv, Mild
  <2>1. r = meta.cursor
    BY DEF IsReach
  <2>2. Covers(meta.cursor) /\ Quiet(q, meta.cursor)
    BY <1>1, <2>1 DEF Quiet, Covers, FirstId
  <2>3. rentities[q] = entities[q]
    BY <2>2, KeptChanges
  <2> QED BY <1>1, <2>3 DEF Delivered
<1> QED BY <1>1, <1>2, <1>3, <1>4, <1>5 DEF IInv

LEMMA FaultType == ASSUME TypeOK, Fault PROVE faults' \in 0..MaxFaults
  BY SizeAssumption DEF TypeOK, Fault

LEMMA ResetKeeps ==
  ASSUME IInv, ServeReset \/ CutReset \/ StreamEnds, hazards' = hazards
  PROVE  IInv'
<1> USE SizeAssumption
<1>1. CASE ServeReset \/ CutReset
  <2>0. /\ rc = "await" /\ handler' = [pc |-> "closed", cursor |-> 0] /\ rc' \in {"start", "purge"}
        /\ UNCHANGED <<primaryVars, replicatorVars, hazards>> /\ UNCHANGED dl
        /\ UNCHANGED <<inflight, rentities, meta>>
    BY <1>1 DEF ServeReset, CutReset
  <2>1. faults' \in 0..MaxFaults
    BY <1>1, FaultType DEF ServeReset, CutReset, IInv, TypeOK
  <2>2. meta.cursor # 0 /\ inflight = {} /\ ~Covers(meta.cursor)
    BY <2>0 DEF IInv, PhaseInv, ResetInv
  <2> QED BY <2>0, <2>1, <2>2, ClosedKeeps
<1>2. CASE StreamEnds
  <2>0. /\ rc = "stream" /\ handler.pc = "closed" /\ inflight = {} /\ rc' = "start"
        /\ UNCHANGED <<primaryVars, replicatorVars, hazards>> /\ UNCHANGED dl
        /\ UNCHANGED <<handler, inflight, rentities, meta, faults>>
    BY <1>2 DEF StreamEnds, streamVars
  <2>1. /\ meta.cursor # 0 /\ handler' \in [pc : {"closed", "reset"}, cursor : 0..MaxId]
        /\ faults' \in 0..MaxFaults
    BY <2>0 DEF IInv, PhaseInv, TypeOK
  <2> QED BY <2>0, <2>1, ClosedKeeps
<1> QED BY <1>1, <1>2

LEMMA PurgeKeeps == ASSUME IInv, Purge, hazards' = hazards PROVE IInv'
<1> USE SizeAssumption
<1>0. /\ rc = "purge" /\ rc' = "start" /\ meta' = NoMeta /\ rentities' = [q \in QID |-> NoDoc]
      /\ UNCHANGED <<primaryVars, replicatorVars, streamVars, hazards>>
      /\ UNCHANGED <<dl, faults>>
  BY DEF Purge
<1>1. UNCHANGED <<entities, changelog, lastId, seed, reseeds, gen, snapshot, handler, inflight>>
  BY <1>0 DEF primaryVars, replicatorVars, streamVars
<1>2. inflight = {} /\ handler.pc # "open"
  BY <1>0 DEF IInv, PhaseInv
<1>3. LogInv' /\ GenInv' /\ FileInv'
  BY <1>0, <1>1 DEF IInv, LogInv, GenInv, FileInv, FileOK, Agrees, Covers, FirstId, Quiet
<1>4. TypeOK'
  BY <1>0, <1>1, NothingFacts DEF IInv, TypeOK, MetaType, DocOrNone
<1>5. PhaseInv'
  <2>1. lastId' \in Nat
    BY <1>4 DEF TypeOK
  <2> QED BY <1>0, <1>1, <1>2, <2>1, NothingFacts DEF PhaseInv, Downloading
<1>6. DownInv' /\ ResumeInv' /\ PairInv' /\ FlightInv' /\ ResetInv' /\ StreamInv'
  BY <1>0, <1>1, <1>2, NothingFacts
     DEF DownInv, Downloading, ResumeInv, PairInv, ResumePairMatches, FlightInv, ResetInv, StreamInv
<1> QED BY <1>3, <1>4, <1>5, <1>6 DEF IInv

LEMMA CloseKeeps == ASSUME IInv, HandlerClose, hazards' = hazards PROVE IInv'
<1> USE SizeAssumption
<1>0. /\ handler.pc = "open" /\ handler' = [pc |-> "closed", cursor |-> 0]
      /\ UNCHANGED <<primaryVars, replicatorVars, hazards>> /\ UNCHANGED dl
      /\ UNCHANGED <<inflight, rentities, meta, rc, faults>>
  BY DEF HandlerClose, replicaVars
<1>1. rc \in {"stream", "cursor"} /\ meta.cursor # 0
  BY <1>0 DEF IInv, PhaseInv, TypeOK
<1>2. /\ LogInv' /\ GenInv' /\ FileInv' /\ DownInv' /\ ResumeInv' /\ PairInv'
      /\ UNCHANGED <<entities, changelog, lastId, seed, reseeds, gen, snapshot, hazards>>
  BY <1>0, <1>1, OnlineFrame DEF Online
<1>3. TypeOK'
  BY <1>0, <1>2 DEF IInv, TypeOK
<1>4. PhaseInv' /\ FlightInv' /\ ResetInv'
  BY <1>0, <1>1, <1>2 DEF IInv, PhaseInv, Downloading, FlightInv, ResetInv
<1>5. StreamInv'
  <2> SUFFICES ASSUME Mild, NEW r \in 0..MaxId, IsReach(r)', NEW q \in QID, Quiet(q, r)'
               PROVE  Delivered(r, q)'
    BY <1>2 DEF StreamInv, Mild
  <2>1. IsReach(r) /\ Quiet(q, r)
    BY <1>0, <1>2 DEF IsReach, Quiet
  <2>2. Delivered(r, q)
    BY <1>0, <1>1, <2>1 DEF IInv, StreamInv
  <2> QED BY <1>0, <1>2, <2>2 DEF Delivered
<1> QED BY <1>2, <1>3, <1>4, <1>5 DEF IInv

LEMMA ApplyKeeps == ASSUME IInv, ApplyChange, hazards' = hazards PROVE IInv'
<1> USE SizeAssumption
<1>0. /\ rc = "stream" /\ inflight # {} /\ rc' = "cursor"
      /\ rentities' = [rentities EXCEPT ![NextChange.q] = NextChange.d]
      /\ UNCHANGED <<primaryVars, replicatorVars, hazards>> /\ UNCHANGED dl
      /\ UNCHANGED <<handler, inflight, meta, faults>>
  BY DEF ApplyChange, streamVars
<1>1. meta.cursor # 0 /\ rentities \in [QID -> DocOrNone] /\ inflight \subseteq Change
  BY <1>0 DEF IInv, PhaseInv, TypeOK
<1>2. /\ LogInv' /\ GenInv' /\ FileInv' /\ DownInv' /\ ResumeInv' /\ PairInv'
      /\ UNCHANGED <<entities, changelog, lastId, seed, reseeds, gen, snapshot, hazards>>
  BY <1>0, <1>1, OnlineFrame DEF Online
<1>n. /\ NextChange \in inflight /\ \A y \in inflight : NextChange.id <= y.id
      /\ NextChange.id \in Nat /\ NextChange.q \in QID /\ NextChange.d \in DocOrNone
  BY <1>0, NextChangeFacts
<1>3. TypeOK'
  BY <1>0, <1>1, <1>2, <1>n DEF IInv, TypeOK
<1>4. PhaseInv' /\ ResetInv'
  BY <1>0, <1>1, <1>2 DEF IInv, PhaseInv, Downloading, ResetInv
<1>5. FlightInv'
  <2>1. ASSUME NEW x \in inflight, \A y \in inflight : x.id <= y.id PROVE rentities'[x.q] = x.d
    <3>1. x.id = NextChange.id
      BY <1>1, <1>n, <2>1 DEF Change
    <3>2. x = NextChange
      BY <1>n, <3>1 DEF IInv, FlightInv
    <3> QED BY <1>0, <1>1, <1>n, <3>2
  <2> QED BY <1>0, <1>2, <2>1 DEF IInv, FlightInv, IsReach
<1>6. StreamInv'
  <2> SUFFICES ASSUME Mild, NEW r \in 0..MaxId, IsReach(r)', handler.pc = "open" \/ Covers(r)',
                      NEW q \in QID, Quiet(q, r)'
               PROVE  Delivered(r, q)'
    BY <1>0, <1>2 DEF StreamInv, Mild
  <2>1. IsReach(r) /\ Quiet(q, r) /\ (handler.pc = "open" \/ Covers(r))
    BY <1>0, <1>2 DEF IsReach, Quiet, Covers, FirstId
  <2>2. Delivered(r, q)
    BY <1>1, <2>1 DEF IInv, StreamInv
  <2> QED BY <1>0, <1>1, <1>2, <1>n, <2>2 DEF Delivered
<1> QED BY <1>2, <1>3, <1>4, <1>5, <1>6 DEF IInv

LEMMA AdvanceKeeps == ASSUME IInv, AdvanceCursor, hazards' = hazards PROVE IInv'
<1> USE SizeAssumption
<1> DEFINE n == NextChange
<1>0. /\ rc = "cursor" /\ rc' = "stream" /\ meta' = [meta EXCEPT !.cursor = n.id]
      /\ inflight' = inflight \ {n}
      /\ UNCHANGED <<primaryVars, replicatorVars, hazards>> /\ UNCHANGED dl
      /\ UNCHANGED <<handler, rentities, faults>>
  BY DEF AdvanceCursor
<1>1. /\ meta.cursor # 0 /\ inflight # {} /\ meta \in MetaType /\ lastId \in Nat
      /\ inflight \subseteq Change /\ changelog \subseteq Change
      /\ \A x \in inflight : x.id \in 1..MaxId
  BY <1>0 DEF IInv, PhaseInv, TypeOK, MetaType, Change
<1>n. /\ n \in inflight /\ \A y \in inflight : n.id <= y.id
      /\ n.id \in 1..MaxId /\ n.q \in QID /\ n.d \in DocOrNone /\ meta.cursor < n.id /\ n.id <= lastId
  BY <1>1, NextChangeFacts
<1>u. \A x, y \in inflight : x.id = y.id => x = y
  BY DEF IInv, FlightInv
<1>a. rentities[n.q] = n.d
  BY <1>0, <1>n DEF IInv, FlightInv
<1> HIDE DEF n
<1>m. /\ meta' \in MetaType /\ meta'.cursor = n.id /\ meta'.offset = meta.offset /\ meta'.before = meta.before
      /\ meta'.etag = meta.etag
  BY <1>0, <1>1, <1>n DEF MetaType
<1>2. /\ LogInv' /\ GenInv' /\ FileInv' /\ DownInv' /\ ResumeInv' /\ PairInv'
      /\ UNCHANGED <<entities, changelog, lastId, seed, reseeds, gen, snapshot, hazards>>
  BY <1>0, <1>m, <1>n, OnlineFrame DEF Online
<1>3. TypeOK'
  BY <1>0, <1>1, <1>2, <1>m DEF IInv, TypeOK, MetaType
<1>4. PhaseInv' /\ ResetInv'
  BY <1>0, <1>2, <1>m, <1>n DEF IInv, PhaseInv, Downloading, ResetInv
<1>r. ASSUME NEW r \in 0..MaxId PROVE IsReach(r) <=> IsReach(r)'
  <2>1. CASE inflight' = {}
    <3>1. \A x \in inflight : x = n
      BY <1>0, <2>1
    <3>2. IsReach(r) <=> r = n.id
      BY <1>1, <1>n, <3>1 DEF IsReach
    <3> QED BY <1>m, <2>1, <3>2 DEF IsReach
  <2>2. CASE inflight' # {}
    <3>1. PICK z \in inflight' : TRUE
      BY <2>2
    <3>2. z \in inflight /\ z.id > n.id
      BY <1>0, <1>1, <1>n, <1>u, <3>1
    <3>3. (\A x \in inflight : x.id <= r) <=> (\A x \in inflight' : x.id <= r)
      <4>1. (\A x \in inflight' : x.id <= r) => n.id <= r
        BY <1>1, <1>n, <3>1, <3>2
      <4> QED BY <1>0, <4>1
    <3>4. ASSUME \A x \in inflight : x.id <= r PROVE r # n.id
      BY <1>1, <1>n, <3>2, <3>4
    <3> QED BY <1>0, <1>1, <2>2, <3>3, <3>4 DEF IsReach
  <2> QED BY <2>1, <2>2
<1>5. FlightInv'
  <2>1. \A x \in inflight' : n.id < x.id /\ x.id <= lastId
    <3>1. \A x \in inflight : x.id <= lastId
      BY DEF IInv, FlightInv
    <3> QED BY <1>0, <1>1, <1>n, <1>u, <3>1
  <2>2. handler.pc = "open" => IsReach(handler.cursor)'
    <3>1. handler.cursor \in 0..MaxId
      BY DEF IInv, TypeOK
    <3> QED BY <1>0, <1>r, <3>1 DEF IInv, FlightInv, IsReach
  <2>3. \A x \in inflight' : (\E y \in changelog : y.id <= x.id) => x \in changelog
    BY <1>0 DEF IInv, FlightInv
  <2> QED BY <1>0, <1>2, <1>m, <1>u, <2>1, <2>2, <2>3 DEF FlightInv, IsReach
<1>6. StreamInv'
  <2> SUFFICES ASSUME Mild, NEW r \in 0..MaxId, IsReach(r)', handler.pc = "open" \/ Covers(r)',
                      NEW q \in QID, Quiet(q, r)'
               PROVE  Delivered(r, q)'
    BY <1>0, <1>2 DEF StreamInv, Mild
  <2>1. IsReach(r) /\ Quiet(q, r) /\ (handler.pc = "open" \/ Covers(r))
    BY <1>2, <1>r DEF Quiet, Covers, FirstId
  <2>2. Delivered(r, q)
    BY <1>1, <2>1 DEF IInv, StreamInv
  <2>3. ASSUME \A x \in inflight' : x.q # q PROVE rentities[q] = entities[q]
    <3>1. CASE n.q = q
      <4>1. \A y \in inflight : y.q = q => y = n
        BY <1>0, <2>3
      <4>2. \A y \in inflight : y.q = q => y.id <= n.id
        BY <1>n, <4>1
      <4>3. n.d = entities[q]
        BY <1>n, <2>2, <3>1, <4>2 DEF Delivered
      <4> QED BY <1>a, <3>1, <4>3
    <3>2. CASE n.q # q
      BY <1>0, <2>2, <2>3, <3>2 DEF Delivered
    <3> QED BY <3>1, <3>2
  <2>4. ASSUME NEW x \in inflight', x.q = q, \A y \in inflight' : y.q = q => y.id <= x.id
        PROVE  x.d = entities[q]
    <3>1. x \in inflight /\ \A y \in inflight : y.q = q => y.id <= x.id
      BY <1>0, <1>n, <2>4
    <3> QED BY <2>2, <2>4, <3>1 DEF Delivered
  <2> QED BY <1>0, <1>2, <2>3, <2>4 DEF Delivered
<1> QED BY <1>2, <1>3, <1>4, <1>5, <1>6 DEF IInv

\* A change skipped or cut off: the cursor is still a position of the log, but
\* nothing is promised about what the replica has.
LEMMA HostileKeeps == ASSUME IInv, SkipChange \/ CutChange, hazards' = hazards PROVE IInv'
<1> USE SizeAssumption
<1>0. /\ rc = "stream" /\ inflight # {} /\ meta' = [meta EXCEPT !.cursor = NextChange.id] /\ ~Mild
      /\ handler' = [pc |-> "closed", cursor |-> 0] /\ inflight' = {} /\ rc' = "start" /\ Fault
      /\ UNCHANGED <<primaryVars, replicatorVars, hazards>> /\ UNCHANGED dl
  BY DEF SkipChange, CutChange, Disconnected, Mild
<1>1. meta \in MetaType /\ rentities \in [QID -> DocOrNone] /\ faults' \in 0..MaxFaults
  BY <1>0, FaultType DEF IInv, TypeOK, MetaType
<1>n. NextChange.id \in 1..MaxId /\ NextChange.id <= lastId
  BY <1>0, NextChangeFacts
<1>m. /\ meta' \in MetaType /\ meta'.cursor = NextChange.id /\ meta'.offset = meta.offset
      /\ meta'.before = meta.before
  BY <1>0, <1>1, <1>n DEF MetaType
<1>2. /\ LogInv' /\ GenInv' /\ FileInv' /\ DownInv' /\ ResumeInv' /\ PairInv'
      /\ UNCHANGED <<entities, changelog, lastId, seed, reseeds, gen, snapshot, hazards>>
  BY <1>0, <1>m, <1>n, OnlineFrame DEF Online
<1>3. rentities' \in [QID -> DocOrNone]
  BY <1>1 DEF SkipChange, CutChange, DocOrNone
<1>4. TypeOK'
  <2>1. handler' \in [pc : {"closed", "reset", "open"}, cursor : 0..MaxId]
    BY <1>0
  <2>2. inflight' \subseteq Change /\ dl' = dl /\ rc' = "start" /\ TypeOK
    BY <1>0 DEF IInv
  <2> QED BY ONLY <1>1, <1>2, <1>3, <1>m, <2>1, <2>2 DEF TypeOK, MetaType
<1>5. PhaseInv' /\ ResetInv' /\ FlightInv' /\ StreamInv'
  BY <1>0, <1>2, <1>m, <1>n DEF PhaseInv, Downloading, ResetInv, FlightInv, StreamInv, Mild
<1> QED BY <1>2, <1>4, <1>5 DEF IInv

LEMMA DropKeeps == ASSUME IInv, Drop, hazards' = hazards PROVE IInv'
<1> USE SizeAssumption
<1>0. /\ handler' = [pc |-> "closed", cursor |-> 0] /\ inflight' = {} /\ rc' = "start" /\ Fault
      /\ dl' = NoDownload /\ UNCHANGED <<primaryVars, replicatorVars, hazards>>
      /\ UNCHANGED <<rentities, meta>>
  BY DEF Drop, Disconnected
<1>1. UNCHANGED <<entities, changelog, lastId, seed, reseeds, gen, snapshot>>
  BY <1>0 DEF primaryVars, replicatorVars
<1>2. TypeOK'
  <2>1. NoDownload \in DlType /\ NoDownload.pos <= Len(NoDownload.file.lines) /\ faults' \in 0..MaxFaults
    BY <1>0, NothingFacts, FaultType DEF IInv
  <2> QED BY <1>0, <1>1, <2>1 DEF IInv, TypeOK, DlType
<1>3. LogInv' /\ GenInv' /\ FileOK(snapshot)'
  BY <1>1 DEF IInv, LogInv, GenInv, FileInv, FileOK, Agrees, Covers, FirstId, Quiet
<1>4. FileInv'
  BY <1>0, <1>2, <1>3, NoFileOK, NothingFacts DEF FileInv
<1>5. PhaseInv' /\ DownInv' /\ ResetInv' /\ FlightInv'
  BY <1>0, <1>1 DEF IInv, PhaseInv, Downloading, DownInv, ResetInv, FlightInv
<1>6. ResumeInv' /\ PairInv'
  BY <1>0, <1>1 DEF IInv, ResumeInv, Applied, Only, PairInv, ResumePairMatches, Downloading, Before
<1>7. StreamInv'
  <2> SUFFICES ASSUME Mild, meta.cursor # 0, NEW r \in 0..MaxId, IsReach(r)', Covers(r)',
                      NEW q \in QID, Quiet(q, r)'
               PROVE  Delivered(r, q)'
    BY <1>0 DEF StreamInv, Mild
  <2>1. r = meta.cursor
    BY <1>0 DEF IsReach
  <2>2. Covers(meta.cursor) /\ Quiet(q, meta.cursor)
    BY <1>1, <2>1 DEF Quiet, Covers, FirstId
  <2>3. rentities[q] = entities[q]
    BY <2>2, KeptChanges
  <2> QED BY <1>0, <1>1, <2>3 DEF Delivered
<1> QED BY <1>2, <1>3, <1>4, <1>5, <1>6, <1>7 DEF IInv

\* One XREAD: it returns something if there is something, and skips nothing.
LEMMA ReadFacts ==
  ASSUME NEW S \in SUBSET Change, S # {}, \A x, y \in S : x.id = y.id => x = y
  PROVE  /\ FirstOf(S, ReadCount) \subseteq S /\ FirstOf(S, ReadCount) # {}
         /\ \A x \in FirstOf(S, ReadCount), y \in S : y.id <= x.id => y \in FirstOf(S, ReadCount)
<1> USE SizeAssumption
<1>0. \A x \in S : x.id \in 1..MaxId /\ x.id \in Nat
  BY DEF Change
<1> DEFINE upto(x) == {y \in S : y.id <= x.id}
<1>1. IsFiniteSet(S)
  <2> DEFINE f == [x \in S |-> x.id]
  <2>1. f \in Injection(S, 1..MaxId)
    BY <1>0 DEF Injection, IsInjective
  <2>2. IsFiniteSet(1..MaxId)
    BY FS_Interval
  <2> QED BY <2>1, <2>2, FS_Injection
<1>2. \A x \in S : IsFiniteSet(upto(x)) /\ Cardinality(upto(x)) \in Nat
  BY <1>1, FS_Subset, FS_CardinalityType
<1>3. ASSUME NEW x \in S, NEW y \in S, y.id <= x.id PROVE Cardinality(upto(y)) <= Cardinality(upto(x))
  <2>1. upto(y) \in SUBSET upto(x)
    BY <1>0, <1>3
  <2> QED BY <1>2, <2>1, FS_Subset
<1>4. PICK m \in S : \A y \in S : m.id <= y.id
  BY LeastEntry
<1>5. upto(m) = {m}
  BY <1>0, <1>4
<1>6. Cardinality(upto(m)) <= ReadCount
  <2> HIDE DEF upto
  <2>1. Cardinality({m}) = 1
    BY FS_Singleton
  <2> QED BY <1>5, <2>1
<1>7. FirstOf(S, ReadCount) = {x \in S : Cardinality(upto(x)) <= ReadCount}
  BY DEF FirstOf
<1> HIDE DEF upto
<1> QED BY <1>2, <1>3, <1>4, <1>6, <1>7

LEMMA ReadKeeps == ASSUME IInv, HandlerRead, hazards' = hazards PROVE IInv'
<1> USE SizeAssumption
<1> DEFINE S == {x \in changelog : x.id > handler.cursor}
           read == FirstOf(S, ReadCount)
           top == CHOOSE x \in read : \A y \in read : y.id <= x.id
           h == handler.cursor
<1>0. /\ handler.pc = "open" /\ S # {} /\ inflight' = inflight \cup read
      /\ handler' = [handler EXCEPT !.cursor = top.id]
      /\ UNCHANGED <<primaryVars, replicatorVars, hazards>> /\ UNCHANGED dl
      /\ UNCHANGED <<rentities, meta, rc, faults>>
  BY DEF HandlerRead, replicaVars
<1>1. /\ rc \in {"stream", "cursor"} /\ meta.cursor # 0 /\ h \in 0..MaxId
      /\ inflight \subseteq Change /\ changelog \subseteq Change /\ meta.cursor \in Nat /\ lastId \in Nat
      /\ handler \in [pc : {"closed", "reset", "open"}, cursor : 0..MaxId]
  BY <1>0 DEF IInv, PhaseInv, TypeOK
<1>2. /\ LogInv' /\ GenInv' /\ FileInv' /\ DownInv' /\ ResumeInv' /\ PairInv'
      /\ UNCHANGED <<entities, changelog, lastId, seed, reseeds, gen, snapshot, hazards>>
  BY <1>0, <1>1, OnlineFrame DEF Online
<1>l. /\ \A x, y \in changelog : x.id = y.id => x = y
      /\ \A x \in changelog : x.id \in 1..MaxId /\ x.id <= lastId
      /\ \A x \in inflight : x.id \in 1..MaxId /\ x.id <= lastId /\ meta.cursor < x.id /\ x.id <= h
      /\ IsReach(h) /\ meta.cursor <= h
  <2>1. IsReach(h)
    BY <1>0 DEF IInv, FlightInv
  <2>2. \A x \in inflight : x.id \in 1..MaxId /\ x.id <= lastId /\ meta.cursor < x.id /\ x.id <= h
    BY <1>1, <2>1 DEF IInv, FlightInv, IsReach, Change
  <2>3. meta.cursor <= h
    BY <1>1, <2>1, <2>2 DEF IsReach
  <2> QED BY <1>1, <2>1, <2>2, <2>3 DEF IInv, LogInv, Change
<1>3. /\ read \subseteq S /\ read # {} /\ \A x \in read, y \in S : y.id <= x.id => y \in read
  <2>1. S \in SUBSET Change /\ \A x, y \in S : x.id = y.id => x = y
    BY <1>1, <1>l
  <2> HIDE DEF S
  <2> QED BY <1>0, <2>1, ReadFacts
<1>4. top \in read /\ \A y \in read : y.id <= top.id
  <2>1. read \in SUBSET Change
    BY <1>1, <1>3
  <2> HIDE DEF read
  <2> QED BY <1>3, <2>1, GreatestEntry
<1> HIDE DEF read, top
<1>5. /\ top.id \in 1..MaxId /\ h < top.id /\ read \subseteq changelog
      /\ \A x \in read : h < x.id /\ x.id \in 1..MaxId
      /\ \A y \in changelog : h < y.id /\ y.id <= top.id => y \in read
  BY <1>l, <1>3, <1>4
<1>h. handler' \in [pc : {"closed", "reset", "open"}, cursor : 0..MaxId] /\ handler'.pc = "open"
      /\ handler'.cursor = top.id
  BY <1>0, <1>1, <1>5
<1>6. TypeOK'
  <2>1. inflight' \subseteq Change
    BY <1>0, <1>1, <1>5
  <2> QED BY <1>0, <1>2, <1>h, <2>1 DEF IInv, TypeOK
<1>7. PhaseInv' /\ ResetInv'
  BY <1>0, <1>1, <1>2 DEF IInv, PhaseInv, Downloading, ResetInv
<1>r. \A x \in inflight' : x.id <= top.id
  BY <1>0, <1>1, <1>l, <1>4, <1>5
<1>8. FlightInv'
  <2>1. \A x \in inflight' : meta.cursor < x.id /\ x.id <= lastId
    BY <1>0, <1>1, <1>l, <1>5
  <2>2. \A x, y \in inflight' : x.id = y.id => x = y
    <3>1. \A x, y \in inflight : x.id = y.id => x = y
      BY DEF IInv, FlightInv
    <3>2. \A x \in inflight, y \in read : x.id # y.id
      BY <1>1, <1>l, <1>5
    <3> QED BY <1>0, <1>l, <1>5, <3>1, <3>2
  <2>3. IsReach(handler.cursor)'
    BY <1>0, <1>h, <1>r, <1>4 DEF IsReach
  <2>4. \A x \in inflight' : (\E y \in changelog : y.id <= x.id) => x \in changelog
    BY <1>0, <1>5 DEF IInv, FlightInv
  <2>5. ASSUME rc = "cursor", NEW x \in inflight', \A y \in inflight' : x.id <= y.id
        PROVE  rentities[x.q] = x.d
    <3>1. PICK z \in inflight : TRUE
      BY <2>5 DEF IInv, PhaseInv
    <3>2. x \in inflight
      <4>1. x.id <= z.id /\ z.id <= h /\ z.id \in Nat
        BY <1>0, <1>l, <2>5, <3>1
      <4> QED BY <1>0, <1>1, <1>5, <4>1
    <3> QED BY <1>0, <2>5, <3>2 DEF IInv, FlightInv
  <2> QED BY <1>0, <1>2, <2>1, <2>2, <2>3, <2>4, <2>5 DEF FlightInv
<1>9. StreamInv'
  <2> SUFFICES ASSUME Mild, NEW r \in 0..MaxId, IsReach(r)', NEW q \in QID, Quiet(q, r)'
               PROVE  Delivered(r, q)'
    BY <1>2 DEF StreamInv, Mild
  <2>1. r = top.id
    <3>1. top \in inflight'
      BY <1>0, <1>4
    <3>2. top.id <= r /\ \E x \in inflight' : x.id = r
      BY <3>1 DEF IsReach
    <3> QED BY <1>r, <1>5, <3>2
  <2>2. \A y \in changelog : y.q = q => y.id <= top.id
    BY <1>2, <1>l, <1>5, <2>1 DEF Quiet
  <2>3. CASE \A x \in read : x.q # q
    <3>1. Quiet(q, h)
      BY <1>5, <2>2, <2>3 DEF Quiet
    <3>2. Delivered(h, q)
      BY <1>0, <1>1, <1>l, <3>1 DEF IInv, StreamInv
    <3> QED BY <1>0, <1>2, <2>3, <3>2 DEF Delivered
  <2>4. ASSUME NEW w \in read, w.q = q PROVE Delivered(r, q)'
    <3>1. ASSUME NEW x \in inflight', x.q = q, \A y \in inflight' : y.q = q => y.id <= x.id
          PROVE  x.d = entities[q]
      <4>1. w.id <= x.id /\ h < w.id /\ w.id \in Nat
        BY <1>0, <1>5, <2>4, <3>1
      <4>2. x \in read /\ x \in changelog /\ h < x.id /\ x.id \in Nat
        BY <1>0, <1>1, <1>l, <1>5, <4>1
      <4>3. ASSUME NEW y \in changelog, y.q = q PROVE y.id <= x.id
        <5>1. CASE h < y.id
          <6>1. y \in inflight'
            BY <1>0, <1>5, <2>2, <4>3, <5>1
          <6> QED BY <3>1, <4>3, <6>1
        <5>2. CASE ~(h < y.id)
          BY <1>1, <1>l, <4>2, <5>2
        <5> QED BY <5>1, <5>2
      <4> QED BY <3>1, <4>2, <4>3 DEF IInv, LogInv
    <3>2. w \in inflight'
      BY <1>0
    <3> QED BY <1>2, <2>4, <3>1, <3>2 DEF Delivered
  <2> QED BY <2>3, <2>4
<1> QED BY <1>2, <1>6, <1>7, <1>8, <1>9 DEF IInv

-------------------------------------------------------------------------
(* The theorems. *)

LEMMA InitHolds == ASSUME Init PROVE IInv
<1> USE SizeAssumption
<1>0. /\ changelog = {} /\ lastId = 0 /\ inflight = {} /\ handler = [pc |-> "closed", cursor |-> 0]
      /\ gen = [pc |-> "idle", id |-> 0, todo |-> {}, lines |-> <<>>]
      /\ snapshot = NoSnapshot /\ meta = NoMeta /\ dl = NoDownload /\ rc = "start"
      /\ entities \in [QID -> DocOrNone] /\ rentities \in [QID -> DocOrNone]
  BY DEF Init, DocOrNone
<1>g. gen.lines = <<>> /\ gen.id = 0 /\ gen.pc = "idle" /\ handler.pc = "closed"
  BY <1>0
<1>1. gen \in [pc : {"idle", "scan"}, id : 0..MaxId, todo : SUBSET QID, lines : Seq(Line)]
  BY <1>0, EmptyLines
<1>2. handler \in [pc : {"closed", "reset", "open"}, cursor : 0..MaxId]
  BY <1>0
<1>3. TypeOK
  BY <1>0, <1>1, <1>2, NothingFacts DEF Init, TypeOK, MetaType, DlType
<1>4. LogInv /\ GenInv
  BY <1>0, <1>g, EmptyLines DEF LogInv, GenInv
<1>5. FileInv
  <2>1. ~Covers(0)
    BY <1>0, NeverAtZero
  <2>2. FileOK(NoSnapshot)
    BY <1>0, <2>1, NothingFacts, EmptyLines DEF FileOK, Agrees
  <2> QED BY <1>0, <2>2, NothingFacts DEF FileInv
<1>6. PhaseInv /\ DownInv /\ ResumeInv /\ PairInv
  BY <1>0, <1>g, NothingFacts
     DEF PhaseInv, Downloading, DownInv, ResumeInv, PairInv, ResumePairMatches
<1>7. FlightInv /\ ResetInv /\ StreamInv
  BY <1>0, <1>g, NothingFacts DEF FlightInv, ResetInv, StreamInv
<1> QED BY <1>3, <1>4, <1>5, <1>6, <1>7 DEF IInv

LEMMA StutterKeeps == ASSUME IInv, UNCHANGED vars PROVE IInv'
<1>0. UNCHANGED <<entities, changelog, lastId, seed, reseeds, gen, snapshot, handler, inflight,
                  rentities, meta, rc, dl, faults, hazards>>
  BY DEF vars, protocolVars, primaryVars, replicatorVars, streamVars, replicaVars
<1>1. TypeOK' /\ LogInv' /\ PhaseInv' /\ PairInv'
  BY <1>0 DEF IInv, TypeOK, LogInv, PhaseInv, Downloading, PairInv, ResumePairMatches, Before
<1>2. GenInv' /\ FileInv'
  BY <1>0 DEF IInv, GenInv, FileInv, FileOK, Agrees, Covers, FirstId, Quiet
<1>3. DownInv' /\ ResumeInv'
  BY <1>0 DEF IInv, DownInv, Downloading, ResumeInv, Applied, Only, Before
<1>4. FlightInv' /\ ResetInv' /\ StreamInv'
  BY <1>0 DEF IInv, FlightInv, ResetInv, StreamInv, IsReach, Delivered, Mild, Covers, FirstId, Quiet
<1> QED BY <1>1, <1>2, <1>3, <1>4 DEF IInv

LEMMA NextKeeps == ASSUME IInv, Next PROVE IInv'
<1>0. /\ hazards' = hazards
      /\ \/ PrimaryStep /\ UNCHANGED <<replicatorVars, streamVars, replicaVars, faults>>
         \/ OtherStep
  BY NextCases
<1>1. CASE PrimaryStep /\ UNCHANGED <<replicatorVars, streamVars, replicaVars, faults>>
  BY <1>0, <1>1, PrimaryKeeps
<1>2. CASE Replica
  BY <1>0, <1>2, FetchKeeps, FlushKeeps, PersistKeeps, CheckpointKeeps, LineKeeps, DoneKeeps, FinishKeeps,
     ConnectKeeps, ResetKeeps, PurgeKeeps, ApplyKeeps, AdvanceKeeps DEF Replica
<1>3. CASE OtherStep /\ ~Replica
  BY <1>0, <1>3, GenKeeps, ReadKeeps, CloseKeeps, HostileKeeps, ResetKeeps, DropKeeps DEF OtherStep
<1> QED BY <1>0, <1>1, <1>2, <1>3

\* The inductive invariant holds in every reachable state.
THEOREM ReplicationInvariant == Spec => []IInv
<1>1. Init => IInv
  BY InitHolds
<1>2. IInv /\ [Next]_vars => IInv'
  BY NextKeeps, StutterKeeps
<1> QED BY <1>1, <1>2, PTL DEF Spec

\* Type correctness: among others, positions stay within the ids written, and
\* a download never reads past the end of its file (fetchSnapshot).
THEOREM ReplicationTypeOK == Spec => []TypeOK
<1>1. IInv => TypeOK
  BY DEF IInv
<1> QED BY <1>1, ReplicationInvariant, PTL

\* At-least-once delivery (Run, fetchSnapshot, connectStream against
\* ServeSnapshot and ServeStream): as long as nothing is trimmed or flushed
\* under an open stream and no change is skipped or cut off, every item
\* without a change after a cursor that is still covered is on the replica as
\* on the primary.
THEOREM ReplicationNoLostChange == Spec => []NoLostChangeUnlessHostile
<1>1. IInv => NoLostChangeUnlessHostile
  BY KeptChanges DEF NoLostChangeUnlessHostile, NoLostChange, Mild
<1> QED BY <1>1, ReplicationInvariant, PTL

\* A published snapshot that is still served (isSnapshotCurrent) has exactly
\* the current document of every item that did not change since its position,
\* however the scan of generate overlapped writes, trims and reseeds.
THEOREM ReplicationSnapshotFaithful == Spec => []SnapshotFaithful
<1>1. IInv => SnapshotFaithful
  BY DEF IInv, FileInv, FileOK, Agrees, SnapshotFaithful, Current
<1> QED BY <1>1, ReplicationInvariant, PTL

\* A resume the server grants (Range with If-Range) continues a prefix of the
\* published file: the replica has all of its lines before the offset and no
\* item that is not in it, in every environment.
THEOREM ReplicationResumeFaithful == Spec => []ResumeFaithful
<1>1. ASSUME IInv PROVE ResumeFaithful
  <2> SUFFICES ASSUME meta.cursor = 0, ResumeGranted
               PROVE  /\ \A i \in 1..Len(snapshot.lines) :
                           i <= Before(meta.offset) => rentities[snapshot.lines[i].q] = snapshot.lines[i].d
                      /\ \A q \in QID : rentities[q] # NoDoc => Holds(snapshot.lines, q, rentities[q])
    BY DEF ResumeFaithful
  <2>1. Applied(snapshot, Before(meta.offset)) /\ Only(snapshot)
    BY <1>1 DEF IInv, ResumeInv, ResumeGranted, ResumeRequested
  <2> QED BY <2>1 DEF Applied, Only
<1> QED BY <1>1, ReplicationInvariant, PTL

\* The resume point of fetchSnapshot: unless a pipeline took effect in part,
\* the count stored with an offset is the number of lines before its frame.
THEOREM ReplicationResumePairMatches == Spec => []("torn" \notin hazards => ResumePairMatches)
<1>1. IInv => ("torn" \notin hazards => ResumePairMatches)
  BY DEF IInv, PairInv
<1> QED BY <1>1, ReplicationInvariant, PTL

\* A replica drops its data on a reset (connectStream) only when the primary
\* cannot replay from its cursor, at the moment of the flush.
THEOREM ReplicationPurgeOnlyUncovered == Spec => PurgeOnlyUncovered
<1>1. IInv => (Purge => ~Covers(meta.cursor))
  BY DEF IInv, ResetInv, Purge
<1>2. IInv /\ [Next]_vars => [Purge => ~Covers(meta.cursor)]_vars
  BY <1>1
<1> QED BY <1>2, ReplicationInvariant, PTL DEF Spec, PurgeOnlyUncovered

\* The cursor only moves forward, except when the store is flushed.
THEOREM ReplicationCursorMovesForward == Spec => CursorMovesForward
<1>1. ASSUME IInv, Next PROVE meta'.cursor >= meta.cursor \/ meta' = NoMeta
  <2> USE SizeAssumption
  <2>t. meta \in MetaType /\ meta.cursor \in Nat /\ dl.file.id \in Nat /\ faults \in 0..MaxFaults
    BY <1>1 DEF IInv, TypeOK, MetaType, Snapshot
  <2>1. CASE meta' = meta
    BY <2>t, <2>1
  <2>2. CASE FlushForSnapshot \/ Purge
    BY <2>2 DEF FlushForSnapshot, Purge
  <2>3. CASE PersistProgress \/ ApplyCheckpoint \/ FinishSnapshot
    <3>1. meta.cursor = 0 /\ meta'.cursor \in Nat
      BY <1>1, <2>3, NextKeeps
         DEF PersistProgress, ApplyCheckpoint, FinishSnapshot, IInv, PhaseInv, Downloading, TypeOK
    <3> QED BY <3>1
  <2>4. CASE AdvanceCursor \/ SkipChange \/ CutChange
    <3>1. inflight # {} /\ meta' = [meta EXCEPT !.cursor = NextChange.id]
      BY <1>1, <2>4 DEF AdvanceCursor, SkipChange, CutChange, IInv, PhaseInv
    <3>2. NextChange.id \in Nat /\ meta.cursor < NextChange.id
      BY <1>1, <3>1, NextChangeFacts
    <3> QED BY <2>t, <3>1, <3>2 DEF MetaType
  <2>5. CASE PrimaryStep \/ (OtherStep /\ ~Replica /\ ~SkipChange /\ ~CutChange)
    BY <2>1, <2>5 DEF PrimaryStep, OtherStep, Write, Trim, ReseedFlush, SeedMark, SeedDone, GenStart, GenScan,
       GenPublish, GenFail, HandlerRead, HandlerClose, CutReset, Drop, replicaVars
  <2>6. CASE FetchSnapshot \/ ApplyLine \/ ApplyDone \/ ConnectStream \/ ServeReset \/ ApplyChange \/ StreamEnds
    BY <2>1, <2>6 DEF FetchSnapshot, ApplyLine, ApplyDone, ConnectStream, ServeReset, ApplyChange, StreamEnds
  <2> QED BY <1>1, <2>2, <2>3, <2>4, <2>5, <2>6, NextCases DEF Replica, OtherStep
<1>2. IInv /\ [Next]_vars => [meta'.cursor >= meta.cursor \/ meta' = NoMeta]_vars
  BY <1>1
<1> QED BY <1>2, ReplicationInvariant, PTL DEF Spec, CursorMovesForward
==========================================================================
