--------------------------- MODULE SeedProofs ---------------------------
(***************************************************************************)
(* Proofs about Download and Seed, for any files, retry limits, channel    *)
(* capacities and batch sizes.                                             *)
(***************************************************************************)
EXTENDS Seed, FiniteSetTheorems, WellFoundedInduction, TLAPS

-------------------------------------------------------------------------
(* The download. *)

\* What makes PrefixOfOneFile inductive: an open connection sends the file the
\* body began with and stands where the body does, and a body that is not yet
\* open has read nothing.
DownloadInv ==
  /\ DownloadTypeOK
  /\ PrefixOfOneFile
  /\ st = "open" => src = file /\ pos = offset
  /\ st = "none" => offset = 0 /\ pos = 0

\* The lines read so far, and one more.
LEMMA PrefixFacts ==
  ASSUME NEW f \in File
  PROVE  /\ Prefix(f, 0) = {}
         /\ \A k \in Nat : Prefix(f, k) \cup {[f |-> f, n |-> k + 1]} = Prefix(f, k + 1)
         /\ \A k, m \in Nat : k <= m => Prefix(f, k) \subseteq Prefix(f, m)
<1>1. Prefix(f, 0) = {}
  BY DEF Prefix
<1>2. ASSUME NEW k \in Nat
      PROVE  Prefix(f, k) \cup {[f |-> f, n |-> k + 1]} = Prefix(f, k + 1)
  <2>1. 1..k + 1 = (1..k) \cup {k + 1}
    OBVIOUS
  <2> QED BY <2>1 DEF Prefix
<1>3. ASSUME NEW k \in Nat, NEW m \in Nat, k <= m PROVE Prefix(f, k) \subseteq Prefix(f, m)
  <2>1. 1..k \subseteq 1..m
    BY <1>3
  <2> QED BY <2>1 DEF Prefix
<1> QED BY <1>1, <1>2, <1>3

LEMMA DownloadInvInit == DownloadInit => DownloadInv
<1> SUFFICES ASSUME DownloadInit PROVE DownloadInv
  OBVIOUS
<1> USE SizeAssumption, RetriesAssumption DEF DownloadInit
<1>1. DownloadTypeOK
  <2>1. resumable \in BOOLEAN
    BY Zenon
  <2>2. retries \in 0..MaxRetries /\ pos \in Nat /\ offset \in Nat
    OBVIOUS
  <2> QED BY <2>1, <2>2, Zenon DEF DownloadTypeOK
<1>2. Prefix(file, 0) = {}
  BY PrefixFacts
<1>3. PrefixOfOneFile
  BY <1>2 DEF PrefixOfOneFile
<1> QED BY <1>1, <1>3 DEF DownloadInv

LEMMA DownloadInvStep ==
  ASSUME DownloadInv, [DownloadNext]_downloadVars
  PROVE  DownloadInv'
<1> USE SizeAssumption, RetriesAssumption
    DEF DownloadInv, DownloadTypeOK, PrefixOfOneFile
<1>1. CASE UNCHANGED downloadVars
  BY <1>1 DEF downloadVars, bodyVars
<1>2. CASE Replace
  BY <1>2 DEF Replace, bodyVars
<1>3. CASE OpenBody
  <2>1. Prefix(file, 0) = {} /\ Prefix(remote, 0) = {} /\ Size[remote] \in Nat
    BY PrefixFacts
  <2>2. PrefixOfOneFile'
    BY <1>3, <2>1 DEF OpenBody
  <2>3. DownloadTypeOK'
    BY <1>3 DEF OpenBody
  <2> QED BY <1>3, <2>2, <2>3 DEF OpenBody
<1>4. CASE ReadLine
  <2>1. got' = Prefix(file, offset) \cup {[f |-> file, n |-> offset + 1]}
    BY <1>4 DEF ReadLine
  <2>2. got' = Prefix(file', offset')
    BY <1>4, <2>1, PrefixFacts DEF ReadLine
  <2>3. got' \subseteq Line
    BY <1>4, <2>1 DEF ReadLine, Line
  <2>4. offset' <= Size[file']
    BY <1>4 DEF ReadLine
  <2> QED BY <1>4, <2>2, <2>3, <2>4 DEF ReadLine
<1>5. CASE ReadEOF
  BY <1>5 DEF ReadEOF
<1>6. CASE Drop
  BY <1>6 DEF Drop
<1>7. CASE Resume
  BY <1>7 DEF Resume
<1>8. CASE Changed
  BY <1>8 DEF Changed
<1>9. CASE GiveUp
  BY <1>9 DEF GiveUp
<1> QED BY <1>1, <1>2, <1>3, <1>4, <1>5, <1>6, <1>7, <1>8, <1>9 DEF DownloadNext

\* Over any number of connections, with any answers of the server, the body
\* returns a prefix of the file it first opened, and its end only at the end.
THEOREM DownloadPrefix == DownloadSpec => []PrefixOfOneFile
<1>1. DownloadInit => DownloadInv
  BY DownloadInvInit
<1>2. DownloadInv /\ [DownloadNext]_downloadVars => DownloadInv'
  BY DownloadInvStep
<1>3. DownloadInv => PrefixOfOneFile
  BY DEF DownloadInv
<1> QED BY <1>1, <1>2, <1>3, PTL DEF DownloadSpec

-------------------------------------------------------------------------
(* The seed uses the download by its actions only. *)

LEMMA SeedDownloads == [Next]_vars => [DownloadNext]_downloadVars
<1> SUFFICES ASSUME [Next]_vars PROVE [DownloadNext]_downloadVars
  OBVIOUS
<1>1. CASE UNCHANGED vars
  BY <1>1 DEF vars
<1>2. CASE Decompressor
  BY <1>2 DEF Decompressor, DecDownload, DecRead, DecPut, DecStop, DownloadNext
<1>3. CASE Parser
  BY <1>3 DEF Parser, Locate, Open, FlushData, Mark, ScanLine, ScanEnd, Send, Close, Wait,
              Stamp, CloseBody, DownloadNext
<1>4. CASE Writer
  BY <1>4 DEF Writer, Take, TakeEnd, Flush, FlushFails
<1>5. CASE Shutdown \/ Interrupt \/ ReplaceDump
  BY <1>5 DEF Shutdown, Interrupt, ReplaceDump, DownloadNext
<1> QED BY <1>1, <1>2, <1>3, <1>4, <1>5 DEF Next, Steps

\* The import reads a prefix of one file, whatever the goroutines do.
THEOREM SeedPrefix == Spec => []PrefixOfOneFile
<1>1. Init => DownloadInv
  BY DownloadInvInit DEF Init
<1>2. DownloadInv /\ [Next]_vars => DownloadInv'
  BY DownloadInvStep, SeedDownloads
<1>3. DownloadInv => PrefixOfOneFile
  BY DEF DownloadInv
<1> QED BY <1>1, <1>2, <1>3, PTL DEF Spec
-------------------------------------------------------------------------
(* The import. *)

Preparing == {"locate", "open", "flush", "mark"}
Importing == {"scan", "send", "close", "wait"}
Over == {"stamp", "done", "failed", "returned"}

\* Nothing has gone wrong that Wait would not see.
Sound == ~cancelled /\ ~cause /\ ~scanErr

\* Before the goroutines start there is nothing in their hands.
Untouched ==
  pc \in Preparing =>
    /\ dec = "off" /\ writer = "off" /\ ~closed
    /\ got = {} /\ chunk = {} /\ chunks = {} /\ entityCh = {} /\ batch = {}
    /\ pc = "mark" => stored = {}

\* Who is where: what each goroutine has in hand follows from its step; the
\* decompressor ends without an error only at the end of the file, and the
\* writer only when the channel is closed and empty; Seed does not return
\* before the writer has ended.
Control ==
  /\ pc \in Preparing \cup Importing \cup Over
  /\ pc # "send" => item = {}
  /\ dec # "put" => chunk = {}
  /\ dec = "ended" /\ ~errCh => st = "eof"
  /\ pc \in Preparing \cup {"scan", "send"} => ~scanErr
  /\ pc \in {"scan", "send", "close"} => ~closed
  /\ writer = "ended" /\ ~cause => batch = {} /\ entityCh = {} /\ closed
  /\ pc \in Over => writer \in {"off", "ended"}

\* Everything anywhere in the pipeline comes from the download.
FromDump ==
  pc \in Importing \cup {"stamp"} =>
    /\ chunk \subseteq got /\ chunks \subseteq got
    /\ item \subseteq Entities(got) /\ entityCh \subseteq Entities(got)
    /\ batch \subseteq Entities(got) /\ stored \subseteq Entities(got)

\* As long as nothing has failed every entity read is somewhere in the
\* pipeline, and once the scan is over nothing is left before the channel of
\* the writer.
Conserved ==
  /\ pc \in Importing /\ Sound =>
       Entities(got) \subseteq chunk \cup chunks \cup item \cup entityCh \cup batch \cup stored
  /\ pc \in {"close", "wait"} /\ Sound => dec = "ended" /\ chunks = {} /\ st = "eof"
  /\ pc = "stamp" => Entities(got) \subseteq stored /\ dec = "ended" /\ st = "eof"

ImportInv == DownloadInv /\ Untouched /\ Control /\ FromDump /\ Conserved
\* The next line of a channel is one of its lines: there is one with the
\* smallest number.
LEMMA FirstIn ==
  ASSUME NEW S \in SUBSET Line, S # {}
  PROVE  First(S) \in S
<1> DEFINE N == {l.n : l \in S}
           R == OpToRel(<, Nat)
<1>1. N \subseteq Nat /\ N # {}
  BY DEF Line
<1>2. PICK m \in N : \A k \in N : ~ (<<k, m>> \in R)
  <2>1. IsWellFoundedOn(R, Nat)
    BY NatLessThanWellFounded
  <2> HIDE DEF N, R
  <2> QED BY <1>1, <2>1, WFMin
<1>3. \A k \in N : ~ (k < m)
  BY <1>1, <1>2 DEF OpToRel
<1>4. PICK l \in S : l.n = m
  BY <1>2
<1>5. \A k \in S : l.n <= k.n
  <2> SUFFICES ASSUME NEW k \in S PROVE l.n <= k.n
    OBVIOUS
  <2>1. k.n \in N /\ m \in Nat /\ k.n \in Nat
    BY <1>1
  <2> HIDE DEF N
  <2> QED BY <1>3, <1>4, <2>1
<1>6. \E x \in S : \A k \in S : x.n <= k.n
  BY <1>5
<1> QED BY <1>6, Zenon DEF First

LEMMA ImportInvInit == Init => ImportInv
<1> SUFFICES ASSUME Init PROVE ImportInv
  OBVIOUS
<1>1. DownloadInv
  BY DownloadInvInit DEF Init
<1>2. Untouched /\ Control /\ FromDump /\ Conserved
  BY DEF Init, DownloadInit, Untouched, Control, FromDump, Conserved, Preparing, Importing, Over
<1> QED BY <1>1, <1>2 DEF ImportInv

LEMMA ImportInvStep ==
  ASSUME ImportInv, [Next]_vars
  PROVE  ImportInv'
<1> USE DEF downloadVars, bodyVars, decVars, parserVars, writerVars, storeVars, seedVars,
            Untouched, Control, FromDump, Conserved, Sound, Preparing, Importing, Over, Entities
<1>1. DownloadInv'
  BY DownloadInvStep, SeedDownloads DEF ImportInv
<1>2. Untouched /\ Control /\ FromDump /\ Conserved
  BY DEF ImportInv
<1>3. got \subseteq Line
  BY DEF ImportInv, DownloadInv, DownloadTypeOK
<1> SUFFICES (Untouched /\ Control /\ FromDump /\ Conserved)'
  BY <1>1 DEF ImportInv
<1>4. CASE UNCHANGED vars
  BY <1>2, <1>4 DEF vars
<1>5. CASE DecDownload
  BY <1>2, <1>5 DEF DecDownload, ReadEOF, Drop, Resume, Changed, GiveUp
<1>6. CASE DecRead
  BY <1>2, <1>6 DEF DecRead, ReadLine
<1>7. CASE DecPut
  BY <1>2, <1>7 DEF DecPut
<1>8. CASE DecStop
  BY <1>2, <1>8 DEF DecStop, DecEnd
<1>9. CASE Locate
  BY <1>2, <1>9 DEF Locate
<1>10. CASE Open
  BY <1>2, <1>10 DEF Open, OpenBody
<1>11. CASE FlushData
  BY <1>2, <1>11 DEF FlushData
<1>12. CASE Mark
  BY <1>2, <1>12 DEF Mark
<1>13. CASE ScanLine
  <2>1. chunks \in SUBSET Line
    BY <1>2, <1>3, <1>13 DEF ScanLine
  <2>2. First(chunks) \in chunks
    BY <1>13, <2>1, FirstIn DEF ScanLine
  <2> QED BY <1>2, <1>13, <2>2 DEF ScanLine
<1>14. CASE ScanEnd
  <2>1. ~errCh => st = "eof" /\ chunk = {}
    BY <1>2, <1>14 DEF ScanEnd
  <2>2. errCh => scanErr'
    BY <1>14 DEF ScanEnd
  <2>3. Untouched' /\ Control' /\ FromDump'
    BY <1>2, <1>14 DEF ScanEnd
  <2>4. Conserved'
    BY <1>2, <1>14, <2>1, <2>2 DEF ScanEnd
  <2> QED BY <2>3, <2>4
<1>15. CASE Send
  BY <1>2, <1>15 DEF Send
<1>16. CASE Close
  BY <1>2, <1>16 DEF Close
<1>17. CASE Wait
  BY <1>2, <1>17 DEF Wait
<1>18. CASE Stamp
  BY <1>2, <1>18 DEF Stamp
<1>19. CASE CloseBody
  BY <1>2, <1>19 DEF CloseBody, Drop
<1>20. CASE Take
  <2>1. entityCh \in SUBSET Line
    BY <1>2, <1>3, <1>20 DEF Take
  <2>2. First(entityCh) \in entityCh
    BY <1>20, <2>1, FirstIn DEF Take
  <2> QED BY <1>2, <1>20, <2>2 DEF Take
<1>21. CASE TakeEnd
  BY <1>2, <1>21 DEF TakeEnd
<1>22. CASE Flush
  BY <1>2, <1>22 DEF Flush
<1>23. CASE FlushFails
  BY <1>2, <1>23 DEF FlushFails
<1>24. CASE Shutdown \/ Interrupt \/ ReplaceDump
  BY <1>2, <1>24 DEF Shutdown, Interrupt, ReplaceDump, Replace
<1> QED
  BY <1>4, <1>5, <1>6, <1>7, <1>8, <1>9, <1>10, <1>11, <1>12, <1>13, <1>14, <1>15, <1>16,
     <1>17, <1>18, <1>19, <1>20, <1>21, <1>22, <1>23, <1>24
  DEF Next, Steps, Decompressor, Parser, Writer
\* The seed refines Import: the store is emptied first, receives entities of
\* one dump only, is declared complete only when it has them all, and is not
\* written to once Seed has returned; however the three goroutines, the server
\* and the store fail.
THEOREM SeedImplementsImport == Spec => ImplementsImport
<1> USE DEF Phase, Preparing, Importing, Over
<1>1. Init => Abstract!Init
  BY DEF Init, Abstract!Init
<1>2. ASSUME ImportInv, [Next]_vars PROVE [Abstract!Next]_Abstract!vars
  <2> USE DEF decVars, parserVars, writerVars, storeVars, seedVars
  <2>1. Untouched /\ Control /\ FromDump /\ Conserved
    BY <1>2 DEF ImportInv
  <2>2. Entities(got) \subseteq Contents(file) /\ file \in File
    <3>1. got = Prefix(file, offset) /\ offset <= Size[file] /\ offset \in Nat /\ file \in File
      BY <1>2 DEF ImportInv, DownloadInv, DownloadTypeOK, PrefixOfOneFile
    <3>2. got \subseteq Prefix(file, Size[file])
      BY <3>1, PrefixFacts, SizeAssumption
    <3> QED BY <3>1, <3>2 DEF Entities, Contents
  <2>3. st = "eof" => Entities(got) = Contents(file)
    BY <1>2 DEF ImportInv, DownloadInv, PrefixOfOneFile, Contents
  <2> SUFFICES ASSUME Next PROVE Abstract!Next \/ UNCHANGED <<pc, storeVars>>
                                 \/ (UNCHANGED storeVars /\ Phase' = Phase)
    BY <1>2 DEF Abstract!vars, vars
  <2>4. CASE Decompressor
    BY <2>4 DEF Decompressor, DecDownload, DecRead, DecPut, DecStop
  <2>5. CASE Locate
    BY <2>5 DEF Locate, Abstract!Next, Abstract!Abandon
  <2>6. CASE Open
    BY <2>6 DEF Open, Abstract!Next, Abstract!Abandon
  <2>7. CASE FlushData
    BY <2>7 DEF FlushData, Abstract!Next, Abstract!Begin, Abstract!Abandon
  <2>8. CASE Mark
    BY <2>8 DEF Mark, Abstract!Next, Abstract!Abandon
  <2>9. CASE ScanLine
    BY <2>9 DEF ScanLine
  <2>10. CASE ScanEnd
    BY <2>10 DEF ScanEnd
  <2>11. CASE Send
    BY <2>11 DEF Send
  <2>12. CASE Close
    BY <2>12 DEF Close
  <2>13. CASE Wait
    BY <2>13 DEF Wait, Abstract!Next, Abstract!Abandon
  <2>14. CASE Stamp
    <3>1. stored = Contents(file)
      BY <2>1, <2>2, <2>3, <2>14 DEF Stamp, FromDump, Conserved
    <3>2. stored \in {Contents(f) : f \in File}
      BY <2>2, <3>1
    <3> QED BY <2>14, <3>2 DEF Stamp, Abstract!Next, Abstract!Finish, Abstract!Abandon
  <2>15. CASE CloseBody
    BY <2>15 DEF CloseBody
  <2>16. CASE Take \/ TakeEnd
    BY <2>16 DEF Take, TakeEnd
  <2>17. CASE Flush \/ FlushFails
    <3>1. pc \in Importing
      BY <2>1, <2>17 DEF Flush, FlushFails, Untouched, Control
    <3>2. stored \cup batch \subseteq Contents(file)
      BY <2>1, <2>2, <3>1 DEF FromDump
    <3>3. stored \subseteq stored' /\ stored' \subseteq Contents(file)
      BY <2>17, <3>2 DEF Flush, FlushFails
    <3>4. \E d \in {Contents(f) : f \in File} : stored' \subseteq d
      BY <2>2, <3>3
    <3>5. UNCHANGED <<pc, dumpTime>>
      BY <2>17 DEF Flush, FlushFails
    <3> QED BY <3>1, <3>3, <3>4, <3>5 DEF Abstract!Next, Abstract!Add
  <2>18. CASE Shutdown \/ Interrupt \/ ReplaceDump
    BY <2>18 DEF Shutdown, Interrupt, ReplaceDump
  <2> QED
    BY <2>4, <2>5, <2>6, <2>7, <2>8, <2>9, <2>10, <2>11, <2>12, <2>13, <2>14, <2>15, <2>16,
       <2>17, <2>18
    DEF Next, Steps, Parser, Writer
<1>3. ImportInv /\ [Next]_vars => ImportInv'
  BY ImportInvStep
<1>4. Init => ImportInv
  BY ImportInvInit
<1> QED BY <1>1, <1>2, <1>3, <1>4, PTL DEF Spec, ImplementsImport, Abstract!Spec

-------------------------------------------------------------------------
(* The limits. *)

\* A set of lines within a limit.
Within(S, n) == S \subseteq Line /\ IsFiniteSet(S) /\ Cardinality(S) <= n
Lone(S) == \E l \in Line : S = {l}

Flags == /\ cancelled \in BOOLEAN /\ errCh \in BOOLEAN /\ scanErr \in BOOLEAN
         /\ closed \in BOOLEAN /\ cause \in BOOLEAN /\ dumpTime \in BOOLEAN

\* The channels and the batch stay within their limits: a batch that may still
\* grow is not full.  Each goroutine has one line in hand where it needs one.
Limits ==
  /\ Within(chunks, ChunkCap) /\ Within(entityCh, EntityCap) /\ Within(batch, BatchSize)
  /\ writer = "take" => Cardinality(batch) < BatchSize
  /\ attempt \in 0..WriteAttempts - 1
  /\ dec = "put" => Lone(chunk)
  /\ pc = "send" => Lone(item)
  /\ dec \in {"off", "read", "put", "ended"} /\ writer \in {"off", "take", "flush", "ended"}
  /\ stored \subseteq Line \cup {Old}
  /\ env \in Environments /\ idle \in Nat

LimitInv == ImportInv /\ Flags /\ Limits

LEMMA WithinFacts ==
  /\ \A n \in Nat : Within({}, n)
  /\ \A n \in Nat : \A S : Within(S, n) => Cardinality(S) \in Nat
  /\ \A n \in Nat : \A S, x : Within(S, n) => Within(S \ {x}, n)
  /\ \A n \in Nat, x \in Line : \A S : Within(S, n) /\ Cardinality(S) < n => Within(S \cup {x}, n)
<1>1. \A n \in Nat : Within({}, n)
  BY FS_EmptySet DEF Within
<1>2. \A n \in Nat : \A S : Within(S, n) => Cardinality(S) \in Nat
  BY FS_CardinalityType DEF Within
<1>3. ASSUME NEW n \in Nat, NEW S, NEW x, Within(S, n) PROVE Within(S \ {x}, n)
  <2>1. IsFiniteSet(S) /\ S \subseteq Line /\ Cardinality(S) <= n /\ Cardinality(S) \in Nat
    BY <1>2, <1>3 DEF Within
  <2>2. IsFiniteSet(S \ {x}) /\ Cardinality(S \ {x}) <= Cardinality(S) /\ Cardinality(S \ {x}) \in Nat
    BY <2>1, FS_RemoveElement, FS_CardinalityType
  <2> QED BY <2>1, <2>2 DEF Within
<1>4. ASSUME NEW n \in Nat, NEW S, NEW x \in Line, Within(S, n), Cardinality(S) < n
      PROVE  Within(S \cup {x}, n)
  <2>1. IsFiniteSet(S) /\ S \subseteq Line /\ Cardinality(S) \in Nat
    BY <1>2, <1>4 DEF Within
  <2>2. IsFiniteSet(S \cup {x}) /\ Cardinality(S \cup {x}) <= Cardinality(S) + 1
        /\ Cardinality(S \cup {x}) \in Nat
    BY <2>1, FS_AddElement, FS_CardinalityType
  <2> QED BY <1>4, <2>1, <2>2 DEF Within
<1> QED BY <1>1, <1>2, <1>3, <1>4

LEMMA FlagsStep == ASSUME Flags, [Next]_vars PROVE Flags'
<1> USE Zenon DEF Flags, decVars, parserVars, writerVars, storeVars, seedVars
<1>1. CASE UNCHANGED vars
  BY <1>1 DEF vars
<1>2. CASE DecDownload \/ DecRead \/ DecPut
  BY <1>2 DEF DecDownload, DecRead, DecPut
<1>3. CASE DecStop
  BY <1>3 DEF DecStop, DecEnd
<1>4. CASE Locate \/ Open \/ Mark \/ Send \/ Wait \/ CloseBody
  BY <1>4 DEF Locate, Open, Mark, Send, Wait, CloseBody
<1>5. CASE FlushData \/ Stamp
  BY <1>5 DEF FlushData, Stamp
<1>6. CASE ScanLine
  BY <1>6 DEF ScanLine
<1>7. CASE ScanEnd \/ Close
  BY <1>7 DEF ScanEnd, Close
<1>8. CASE Writer
  BY <1>8 DEF Writer, Take, TakeEnd, Flush, FlushFails
<1>9. CASE Shutdown \/ Interrupt \/ ReplaceDump
  BY <1>9 DEF Shutdown, Interrupt, ReplaceDump
<1> QED BY <1>1, <1>2, <1>3, <1>4, <1>5, <1>6, <1>7, <1>8, <1>9
        DEF Next, Steps, Decompressor, Parser

LEMMA LimitsStep == ASSUME LimitInv, [Next]_vars PROVE Limits'
<1> USE CapAssumption DEF decVars, parserVars, writerVars, storeVars, seedVars
<1>0. /\ Limits /\ DownloadInv /\ chunks \subseteq Line /\ entityCh \subseteq Line
      /\ pc \in {"locate", "open", "flush", "mark"} => batch = {}
  BY DEF LimitInv, ImportInv, Limits, Within, Untouched, Preparing
<1>c. ChunkCap \in Nat /\ EntityCap \in Nat /\ BatchSize \in Nat /\ WriteAttempts \in Nat
      /\ BatchSize > 0 /\ WriteAttempts > 0
  OBVIOUS
<1>1. CASE UNCHANGED vars
  BY <1>0, <1>1 DEF vars, Limits
<1>i. ASSUME Next PROVE env' \in Environments /\ idle' \in Nat
  BY <1>0, <1>i DEF Next, Limits
<1> SUFFICES ASSUME Next PROVE Limits'
  BY <1>1
<1>2. CASE DecDownload
  BY <1>0, <1>i, <1>2 DEF DecDownload, Limits
<1>3. CASE DecRead
  <2> DEFINE l == [f |-> file, n |-> offset + 1]
  <2>1. /\ st = "open" /\ got' = got \cup {[f |-> src, n |-> pos + 1]} /\ chunk' = got' \ got
        /\ dec' = "put" /\ UNCHANGED <<chunks, item, entityCh, batch, writer, attempt, pc, stored>>
    BY <1>3 DEF DecRead, ReadLine
  <2>2. src = file /\ pos = offset /\ file \in File /\ offset \in Nat /\ got = Prefix(file, offset)
    BY <1>0, <2>1 DEF DownloadInv, DownloadTypeOK, PrefixOfOneFile
  <2>3. l \in Line /\ l \notin got
    <3>1. l.n = offset + 1 /\ l \in Line
      BY <2>2 DEF Line
    <3>2. \A x \in got : x.n \in 1..offset
      BY <2>2 DEF Prefix
    <3>3. offset + 1 \notin 1..offset
      BY <2>2
    <3> HIDE DEF l
    <3> QED BY <3>1, <3>2, <3>3
  <2>4. chunk' = {l}
    BY <2>1, <2>2, <2>3
  <2>5. Lone(chunk)'
    BY <2>3, <2>4 DEF Lone
  <2> QED BY <1>0, <1>i, <2>1, <2>5 DEF Limits
<1>4. CASE DecPut
  <2>1. /\ dec = "put" /\ Cardinality(chunks) < ChunkCap /\ chunks' = chunks \cup chunk /\ dec' = "read"
        /\ UNCHANGED <<item, entityCh, batch, writer, attempt, pc, stored>>
    BY <1>4 DEF DecPut
  <2>2. PICK l \in Line : chunk = {l}
    BY <1>0, <2>1 DEF Limits, Lone
  <2>3. Within(chunks', ChunkCap)
    BY <1>0, <1>c, <2>1, <2>2, WithinFacts DEF Limits
  <2> QED BY <1>0, <1>i, <2>1, <2>3 DEF Limits
<1>5. CASE DecStop
  BY <1>0, <1>i, <1>5 DEF DecStop, DecEnd, Limits
<1>6. CASE Locate \/ Open \/ Wait \/ CloseBody \/ Close \/ ScanEnd \/ Stamp
  BY <1>0, <1>i, <1>6 DEF Locate, Open, Wait, CloseBody, Close, ScanEnd, Stamp, Limits
<1>7. CASE FlushData
  BY <1>0, <1>i, <1>7 DEF FlushData, Limits
<1>8. CASE Mark
  <2>1. Cardinality(batch) < BatchSize
    BY <1>0, <1>c, <1>8, FS_EmptySet DEF Mark
  <2> QED BY <1>0, <1>i, <1>8, <2>1 DEF Mark, Limits
<1>9. CASE ScanLine
  <2>1. First(chunks) \in chunks
    BY <1>0, <1>9, FirstIn DEF ScanLine
  <2>2. Within(chunks', ChunkCap)
    BY <1>0, <1>c, <1>9, WithinFacts DEF ScanLine, Limits
  <2>3. pc' = "send" => Lone(item')
    BY <1>0, <1>9, <2>1 DEF ScanLine, Lone
  <2>4. UNCHANGED <<dec, chunk, entityCh, batch, writer, attempt, stored>>
    BY <1>9 DEF ScanLine
  <2> QED BY <1>0, <1>i, <2>2, <2>3, <2>4 DEF Limits, Lone
<1>10. CASE Send
  <2>1. /\ pc = "send" /\ pc' # "send"
        /\ entityCh' = entityCh \/ (Cardinality(entityCh) < EntityCap /\ entityCh' = entityCh \cup item)
        /\ UNCHANGED <<dec, chunk, chunks, batch, writer, attempt, stored>>
    BY <1>10 DEF Send
  <2>2. PICK l \in Line : item = {l}
    BY <1>0, <2>1 DEF Limits, Lone
  <2>3. Within(entityCh', EntityCap)
    BY <1>0, <1>c, <2>1, <2>2, WithinFacts DEF Limits
  <2> QED BY <1>0, <1>i, <2>1, <2>3 DEF Limits
<1>11. CASE Take
  <2> DEFINE l == First(entityCh)
  <2>1. /\ writer = "take" /\ entityCh # {} /\ entityCh' = entityCh \ {l} /\ batch' = batch \cup {l}
        /\ writer' = IF Cardinality(batch') >= BatchSize THEN "flush" ELSE "take"
        /\ UNCHANGED <<dec, chunk, chunks, item, pc, attempt, stored>>
    BY <1>11 DEF Take
  <2>2. l \in Line
    BY <1>0, <2>1, FirstIn
  <2> HIDE DEF l
  <2>3. Within(entityCh', EntityCap)
    BY <1>0, <1>c, <2>1, WithinFacts DEF Limits
  <2>4. Within(batch', BatchSize) /\ Cardinality(batch') \in Nat
    BY <1>0, <1>c, <2>1, <2>2, WithinFacts DEF Limits
  <2>5. writer' = "take" => Cardinality(batch') < BatchSize
    BY <1>c, <2>1, <2>4
  <2> QED BY <1>0, <1>i, <2>1, <2>3, <2>4, <2>5 DEF Limits
<1>12. CASE TakeEnd
  BY <1>0, <1>i, <1>12 DEF TakeEnd, Limits
<1>13. CASE Flush
  <2>1. /\ stored' = stored \cup batch /\ batch' = {} /\ attempt' = 0 /\ writer' = "take"
        /\ UNCHANGED <<dec, chunk, chunks, item, entityCh, pc>>
    BY <1>13 DEF Flush
  <2>2. Within(batch', BatchSize) /\ Cardinality(batch') < BatchSize
    BY <1>c, <2>1, WithinFacts, FS_EmptySet
  <2>3. stored' \subseteq Line \cup {Old}
    BY <1>0, <2>1 DEF Limits, Within
  <2>4. attempt' \in 0..WriteAttempts - 1
    BY <1>c, <2>1
  <2> QED BY <1>0, <1>i, <2>1, <2>2, <2>3, <2>4 DEF Limits
<1>14. CASE FlushFails
  <2>1. /\ attempt' = attempt \/ (attempt' = attempt + 1 /\ attempt + 1 # WriteAttempts)
        /\ writer' \in {"flush", "ended"}
        /\ UNCHANGED <<dec, chunk, chunks, item, entityCh, pc, batch>>
    BY <1>14 DEF FlushFails
  <2>2. stored' \subseteq Line \cup {Old}
    BY <1>0, <1>14 DEF FlushFails, Limits, Within
  <2>3. attempt' \in 0..WriteAttempts - 1
    BY <1>0, <1>c, <2>1 DEF Limits
  <2> QED BY <1>0, <1>i, <2>1, <2>2, <2>3 DEF Limits
<1>15. CASE Shutdown \/ Interrupt \/ ReplaceDump
  BY <1>0, <1>i, <1>15 DEF Shutdown, Interrupt, ReplaceDump, Limits
<1> QED
  BY <1>2, <1>3, <1>4, <1>5, <1>6, <1>7, <1>8, <1>9, <1>10, <1>11, <1>12, <1>13, <1>14, <1>15
  DEF Next, Steps, Decompressor, Parser, Writer

\* Type correctness, with the limits of the pipeline of Seed: the chunk and
\* entity channels never hold more than their capacity, a batch never more
\* than dumpBatchSize, and no write is attempted more than dumpWriteMaxRetries
\* times.
THEOREM SeedTypes == Spec => []SeedTypeOK
<1>1. ASSUME Init PROVE LimitInv
  <2>1. ImportInv
    BY <1>1, ImportInvInit
  <2>2. Flags
    BY <1>1, Zenon DEF Init, Flags
  <2>3. ChunkCap \in Nat /\ EntityCap \in Nat /\ BatchSize \in Nat /\ BatchSize > 0 /\ WriteAttempts \in Nat
        /\ WriteAttempts > 0
    BY CapAssumption
  <2>4. Within({}, ChunkCap) /\ Within({}, EntityCap) /\ Within({}, BatchSize)
    BY <2>3, WithinFacts
  <2>5. Limits
    BY <1>1, <2>3, <2>4 DEF Init, Limits
  <2> QED BY <2>1, <2>2, <2>5 DEF LimitInv
<1>2. LimitInv /\ [Next]_vars => LimitInv'
  BY ImportInvStep, FlagsStep, LimitsStep DEF LimitInv
<1>3. ASSUME LimitInv PROVE SeedTypeOK
  <2>1. Limits /\ Flags /\ Control /\ DownloadTypeOK
    BY <1>3 DEF LimitInv, ImportInv, DownloadInv
  <2>2. chunk \subseteq Line /\ Cardinality(chunk) = (IF dec = "put" THEN 1 ELSE 0)
    BY <2>1, FS_Singleton, FS_EmptySet DEF Limits, Lone, Control
  <2>3. item \subseteq Line /\ Cardinality(item) = (IF pc = "send" THEN 1 ELSE 0)
    BY <2>1, FS_Singleton, FS_EmptySet DEF Limits, Lone, Control
  <2>4. pc \in {"locate", "open", "flush", "mark", "scan", "send", "close", "wait", "stamp",
                "done", "failed", "returned"}
    BY <2>1 DEF Control, Preparing, Importing, Over
  <2>5. /\ cancelled \in BOOLEAN /\ errCh \in BOOLEAN /\ scanErr \in BOOLEAN
        /\ closed \in BOOLEAN /\ cause \in BOOLEAN /\ dumpTime \in BOOLEAN
    BY <2>1, Zenon DEF Flags
  <2>6. /\ chunks \subseteq Line /\ Cardinality(chunks) <= ChunkCap
        /\ entityCh \subseteq Line /\ Cardinality(entityCh) <= EntityCap
        /\ batch \subseteq Line /\ Cardinality(batch) <= BatchSize
        /\ attempt \in 0..WriteAttempts - 1 /\ stored \subseteq Line \cup {Old}
        /\ dec \in {"off", "read", "put", "ended"} /\ writer \in {"off", "take", "flush", "ended"}
        /\ env \in Environments /\ idle \in Nat
    BY <2>1 DEF Limits, Within
  <2> QED BY <2>1, <2>2, <2>3, <2>4, <2>5, <2>6, Zenon DEF SeedTypeOK
<1> QED BY <1>1, <1>2, <1>3, PTL DEF Spec
=========================================================================
