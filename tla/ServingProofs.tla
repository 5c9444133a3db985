-------------------------- MODULE ServingProofs --------------------------
(***************************************************************************)
(* Proofs about Serving, for any number of requests, any pool and any      *)
(* timeouts: how late a stream request can be, what the shutdown timeout   *)
(* is enough for, and how many connections are taken.                      *)
(***************************************************************************)
EXTENDS Serving, FiniteSetTheorems, TLAPS

MaxLeft == Max({ApiTimeout, MaxTimeout})
RequestState ==
  [at : Waiting \cup Writing \cup {"none", "loop", "block"}, poll : BOOLEAN, left : 0..MaxLeft,
   wait : 0..PoolTimeout, block : 0..KeepAlive, behind : BOOLEAN, gone : BOOLEAN, late : 0..MaxLate,
   queued : BOOLEAN]

\* What a request's clocks have to do with one another.  Its block time is
\* within a keepalive interval, and within what is left of its time until the
\* read has to wait; while it blocks, the ticks it is late and those it will
\* still block are together no more than OnTime allows.  The answer of the API has
\* no more than apiWriteTimeout.
Clocks(q) ==
  /\ q.late > 0 => q.left = 0 /\ ~q.poll /\ q.at \in {"block", "loop", "write"}
  /\ q.at = "read" => q.block <= KeepAlive /\ (~q.queued => q.block <= q.left)
  /\ q.at = "block" => ~q.poll
  /\ q.at = "block" /\ q.block = 0 => q.late + q.wait <= ReadTimeout
  /\ q.at = "block" /\ q.block # 0 => /\ q.late + q.wait <= KeepAlive
                                      /\ ~q.queued => q.late = 0 /\ q.wait <= q.left
  /\ q.at = "lookup" => q.left <= ApiTimeout
  /\ q.at = "reply" => q.wait <= ApiWrite

RequestsInv == /\ req \in [Request -> RequestState]
               /\ \A r \in Request : Clocks(req[r])

LEMMA MinOfTwo ==
  ASSUME NEW a \in Nat, NEW b \in Nat
  PROVE  /\ Min({a, b}) \in {a, b}
         /\ Min({a, b}) <= a /\ Min({a, b}) <= b
<1>1. \E x \in {a, b} : \A y \in {a, b} : x <= y
  BY a <= b \/ b <= a
<1> DEFINE m == CHOOSE x \in {a, b} : \A y \in {a, b} : x <= y
<1>2. m \in {a, b} /\ \A y \in {a, b} : m <= y
  BY <1>1, Zenon
<1>3. Min({a, b}) = m
  BY Zenon DEF Min
<1> QED BY <1>2, <1>3, Zenon

LEMMA MaxOfTwo ==
  ASSUME NEW a \in Nat, NEW b \in Nat
  PROVE  Max({a, b}) \in {a, b} /\ a <= Max({a, b}) /\ b <= Max({a, b})
<1>1. \E x \in {a, b} : \A y \in {a, b} : x >= y
  BY a >= b \/ b >= a
<1> DEFINE m == CHOOSE x \in {a, b} : \A y \in {a, b} : x >= y
<1>2. m \in {a, b} /\ \A y \in {a, b} : m >= y
  BY <1>1, Zenon
<1>3. Max({a, b}) = m
  BY Zenon DEF Max
<1> QED BY <1>2, <1>3

\* The limits of the clocks.
LEMMA Timeouts ==
  /\ KeepAlive \in Nat /\ ReadTimeout \in Nat /\ PoolTimeout \in Nat /\ MaxTimeout \in Nat
  /\ ApiTimeout \in Nat /\ ApiWrite \in Nat /\ ApiTimeout <= ApiWrite /\ ApiWrite < Grace
  /\ Grace \in Nat /\ PoolSize \in Nat /\ MaxLate \in Nat /\ MaxLeft \in Nat
  /\ KeepAlive < Grace /\ Grace < ReadTimeout /\ ReadTimeout < PoolTimeout /\ PoolSize > 0
  /\ MaxLate = ReadTimeout + 1 /\ ApiTimeout <= MaxLeft /\ MaxTimeout <= MaxLeft
<1>1. /\ KeepAlive \in Nat /\ ReadTimeout \in Nat /\ PoolTimeout \in Nat /\ MaxTimeout \in Nat
      /\ ApiTimeout \in Nat /\ ApiWrite \in Nat /\ Grace \in Nat /\ PoolSize \in Nat
  BY ServingAssumption
<1>2. MaxLeft \in Nat /\ ApiTimeout <= MaxLeft /\ MaxTimeout <= MaxLeft
  BY <1>1, MaxOfTwo DEF MaxLeft
<1> QED BY <1>1, <1>2, ServingAssumption DEF MaxLate

LEMMA BecomeInv ==
  ASSUME RequestsInv, NEW r \in Request, NEW q \in RequestState, Clocks(q), Become(r, q)
  PROVE  RequestsInv'
BY DEF RequestsInv, Become

LEMMA NoneInv == None \in RequestState /\ Clocks(None)
BY Timeouts DEF None, RequestState, Clocks, Waiting, Writing

\* A tick, for a request that is not at the end of its block.
LEMMA ElapsedInv ==
  ASSUME NEW q \in RequestState, Clocks(q), ~(q.at \in {"block", "reply"} /\ q.wait = 0)
  PROVE  Elapsed(q) \in RequestState /\ Clocks(Elapsed(q))
<1> DEFINE e == Elapsed(q)
<1>1. /\ e.at = q.at /\ e.poll = q.poll /\ e.block = q.block
      /\ e.behind = q.behind /\ e.gone = q.gone
      /\ e.wait = IF q.at \in Waiting \cup {"block", "reply"} /\ q.wait > 0 THEN q.wait - 1 ELSE q.wait
      /\ e.left = IF q.at \in {"read", "block", "write", "lookup"} /\ q.left > 0 THEN q.left - 1 ELSE q.left
      /\ e.late = IF q.at \in {"block", "write"} /\ ~q.poll /\ q.left = 0
                  THEN Min({q.late + 1, MaxLate}) ELSE q.late
      /\ e.queued = (q.queued \/ q.at = "read")
  BY DEF Elapsed, Timed, Overruns, RequestState
<1>3. MaxLate \in Nat /\ ReadTimeout \in Nat /\ KeepAlive \in Nat /\ KeepAlive < ReadTimeout
      /\ MaxLeft \in Nat /\ PoolTimeout \in Nat /\ ApiTimeout \in Nat /\ ApiWrite \in Nat
  BY Timeouts
<1>2. /\ q.at \in Waiting \cup Writing \cup {"none", "loop", "block"}
      /\ q.poll \in BOOLEAN /\ q.behind \in BOOLEAN /\ q.gone \in BOOLEAN /\ q.queued \in BOOLEAN
      /\ q.left \in Nat /\ q.wait \in Nat /\ q.block \in Nat /\ q.late \in Nat
      /\ q.left <= MaxLeft /\ q.wait <= PoolTimeout /\ q.late <= MaxLate
  BY <1>3 DEF RequestState
<1>4. /\ Min({q.late + 1, MaxLate}) \in Nat
      /\ Min({q.late + 1, MaxLate}) <= q.late + 1 /\ Min({q.late + 1, MaxLate}) <= MaxLate
  BY <1>2, <1>3, MinOfTwo
<1>5. e.wait \in 0..PoolTimeout /\ e.left \in 0..MaxLeft /\ e.late \in 0..MaxLate
  BY <1>1, <1>2, <1>3, <1>4
<1>6. e.queued \in BOOLEAN
  BY <1>1, <1>2, Zenon
<1>7. e \in RequestState
  <2>1. ASSUME NEW w \in 0..PoolTimeout, NEW l \in 0..MaxLeft, NEW t \in 0..MaxLate, NEW b \in BOOLEAN
        PROVE  [q EXCEPT !.wait = w, !.left = l, !.late = t, !.queued = b] \in RequestState
    BY DEF RequestState
  <2>2. e = [q EXCEPT !.wait = e.wait, !.left = e.left, !.late = e.late, !.queued = e.queued]
    BY DEF Elapsed, RequestState
  <2> HIDE DEF e
  <2>3. [q EXCEPT !.wait = e.wait, !.left = e.left, !.late = e.late, !.queued = e.queued]
        \in RequestState
    BY <1>5, <1>6, <2>1, Zenon
  <2> QED BY <2>2, <2>3, Zenon
<1>8. Clocks(e)
  <2>1. CASE q.at = "block" /\ q.left = 0
    <3>1. e.wait = q.wait - 1 /\ e.left = 0 /\ e.late <= q.late + 1
      BY <1>1, <1>2, <1>4, <2>1 DEF Clocks
    <3>2. q.block # 0 => q.queued
      BY <1>2, <2>1 DEF Clocks
    <3>3. e.queued = q.queued
      BY <1>1, <1>2, <2>1
    <3> HIDE DEF e
    <3> QED BY <1>1, <1>2, <1>3, <1>5, <2>1, <3>1, <3>2, <3>3 DEF Clocks
  <2>2. CASE q.at = "block" /\ q.left > 0
    <3>1. e.wait = q.wait - 1 /\ e.left = q.left - 1 /\ e.late = q.late
      BY <1>1, <1>2, <2>2
    <3>2. e.queued = q.queued
      BY <1>1, <1>2, <2>2
    <3> HIDE DEF e
    <3> QED BY <1>1, <1>2, <1>3, <2>2, <3>1, <3>2 DEF Clocks
  <2>3. CASE q.at = "read"
    <3>1. e.late = q.late /\ e.queued
      BY <1>1, <1>2, <2>3
    <3> HIDE DEF e
    <3> QED BY <1>1, <1>2, <1>3, <2>3, <3>1 DEF Clocks
  <2>4. CASE q.at \notin {"block", "read", "write"}
    <3>1. e.late = q.late /\ (q.left = 0 => e.left = 0) /\ e.left <= q.left /\ e.wait <= q.wait
      BY <1>1, <1>2, <2>4
    <3> HIDE DEF e
    <3> QED BY <1>1, <1>2, <1>3, <1>5, <2>4, <3>1 DEF Clocks
  <2>5. CASE q.at = "write"
    <3>1. /\ q.left > 0 => e.late = q.late
          /\ q.left = 0 => e.left = 0
          /\ q.poll => e.late = q.late
      BY <1>1, <1>2, <2>5
    <3> HIDE DEF e
    <3> QED BY <1>1, <1>2, <1>3, <1>5, <2>5, <3>1 DEF Clocks
  <2> QED BY <1>2, <2>1, <2>2, <2>3, <2>4, <2>5
<1> QED BY <1>7, <1>8
-------------------------------------------------------------------------
\* No step breaks the relation between the clocks.
LEMMA RequestsInvStep ==
  ASSUME RequestsInv, [Next]_vars
  PROVE  RequestsInv'
<1>1. /\ KeepAlive \in Nat /\ ReadTimeout \in Nat /\ PoolTimeout \in Nat /\ MaxTimeout \in Nat
      /\ ApiTimeout \in Nat /\ ApiWrite \in Nat /\ MaxLate \in Nat /\ MaxLeft \in Nat
      /\ KeepAlive < ReadTimeout /\ ReadTimeout < PoolTimeout
      /\ ApiTimeout <= ApiWrite /\ ApiWrite < PoolTimeout
      /\ ApiTimeout <= MaxLeft /\ MaxTimeout <= MaxLeft
  BY Timeouts
<1>b. /\ 0 \in 0..PoolTimeout /\ PoolTimeout \in 0..PoolTimeout /\ 0 \in 0..KeepAlive
      /\ ApiTimeout \in 0..MaxLeft /\ 0 \in 0..MaxLeft /\ ApiWrite \in 0..PoolTimeout
  BY <1>1
<1> DEFINE Good(q) == q \in RequestState /\ Clocks(q)
<1>0. \A r \in Request : Good(req[r])
  BY DEF RequestsInv
<1>2. ASSUME UNCHANGED req PROVE RequestsInv'
  BY <1>2 DEF RequestsInv
<1>3. ASSUME NEW r \in Request, Return(r) PROVE RequestsInv'
  BY <1>3, BecomeInv, NoneInv DEF Return
<1>s. ASSUME NEW r \in Request, Send(r) PROVE RequestsInv'
  <2>1. None.late = 0
    BY DEF None
  <2>2. Good([None EXCEPT !.at = "send", !.poll = TRUE])
    <3> DEFINE q == [None EXCEPT !.at = "send", !.poll = TRUE]
    <3>1. q \in RequestState
      BY NoneInv DEF RequestState, Writing
    <3>2. q.at = "send" /\ q.late = 0
      BY <2>1, NoneInv DEF RequestState
    <3>3. Clocks(q)
      <4> HIDE DEF q
      <4> QED BY <3>2 DEF Clocks
    <3> QED BY <3>1, <3>3
  <2> QED BY <1>s, <2>2, BecomeInv DEF Send
<1>r. ASSUME NEW r \in Request, Reply(r), req[r].at = "lookup" PROVE RequestsInv'
  <2> DEFINE q == [req[r] EXCEPT !.at = "reply", !.left = 0, !.wait = req[r].left + (ApiWrite - ApiTimeout)]
  <2>1. req[r].left \in Nat /\ req[r].left <= ApiTimeout /\ req[r].late \in Nat /\ req[r].late = 0
    BY <1>0, <1>1, <1>r DEF RequestState, Clocks
  <2>2. req[r].left + (ApiWrite - ApiTimeout) \in 0..PoolTimeout
        /\ req[r].left + (ApiWrite - ApiTimeout) <= ApiWrite
    BY <1>1, <2>1
  <2>3. q \in RequestState
    BY <1>0, <1>b, <2>2 DEF RequestState, Writing
  <2>4. q.at = "reply" /\ q.late = 0 /\ q.wait <= ApiWrite
    BY <1>0, <2>1, <2>2 DEF RequestState
  <2>5. Clocks(q)
    <3> HIDE DEF q
    <3> QED BY <2>4 DEF Clocks
  <2> QED BY <1>r, <2>3, <2>5, BecomeInv DEF Reply
<1>4. ASSUME NEW r \in Request, Sent(r), req[r].at \in {"read", "block"} PROVE RequestsInv'
  <2>1. ASSUME NEW more \in BOOLEAN
        PROVE  Good([req[r] EXCEPT !.at = "write", !.wait = 0, !.block = 0, !.queued = FALSE,
                                   !.behind = more])
    <3>6. req[r].late \in Nat /\ req[r].wait \in Nat /\ req[r].block \in Nat
      BY <1>0 DEF RequestState
    <3> DEFINE q == [req[r] EXCEPT !.at = "write", !.wait = 0, !.block = 0, !.queued = FALSE,
                               !.behind = more]
    <3>3. q \in RequestState
      BY <1>0, <1>b DEF RequestState, Writing
    <3>4. q.at = "write" /\ q.block = 0 /\ q.poll = req[r].poll /\ q.left = req[r].left /\ q.late = req[r].late
      BY <1>0 DEF RequestState
    <3>5. Clocks(q)
      <4> HIDE DEF q
      <4> QED BY <1>0, <1>1, <1>4, <3>6, <3>4 DEF Clocks
    <3> QED BY <3>3, <3>5
  <2> QED BY <1>s, <1>4, <2>1, BecomeInv DEF Sent
<1>5. ASSUME NEW r \in Request, Wait(r, "stats"), req[r].at = "gap" PROVE RequestsInv'
  <2>1. Good([req[r] EXCEPT !.at = "stats", !.wait = PoolTimeout])
    <3> DEFINE q == [req[r] EXCEPT !.at = "stats", !.wait = PoolTimeout]
    <3>1. q \in RequestState
      BY <1>0, <1>b DEF RequestState, Waiting
    <3>2. q.at = "stats" /\ q.block = req[r].block /\ q.left = req[r].left /\ q.late = req[r].late
      BY <1>0 DEF RequestState
    <3>3. Clocks(q)
      <4> HIDE DEF q
      <4> QED BY <1>0, <1>5, <3>2 DEF Clocks
    <3> QED BY <3>1, <3>3
  <2> QED BY <1>5, <2>1, BecomeInv DEF Wait
<1>6. ASSUME NEW r \in Request, ArriveStream(r) PROVE RequestsInv'
  <2>0. None.late = 0
    BY DEF None
  <2>1. ASSUME NEW what \in {"gap", "stats"}, NEW t \in 0..MaxLeft
        PROVE  Good([None EXCEPT !.at = what, !.wait = PoolTimeout, !.left = t, !.poll = (t = 0)])
    <3> DEFINE q == [None EXCEPT !.at = what, !.wait = PoolTimeout, !.left = t, !.poll = (t = 0)]
    <3>1. (t = 0) \in BOOLEAN
      OBVIOUS
    <3>2. q \in RequestState
      BY <1>b, <3>1, NoneInv DEF RequestState, Waiting
    <3>3. q.at = what /\ q.late = 0
      BY <2>0, NoneInv DEF RequestState
    <3>4. Clocks(q)
      <4> HIDE DEF q
      <4> QED BY <1>1, <3>3 DEF Clocks
    <3> QED BY <3>2, <3>4
  <2>2. \A timeout \in 0..MaxTimeout + 1 : Min({timeout, MaxTimeout}) \in 0..MaxLeft
    BY <1>1, MinOfTwo
  <2> QED BY <1>6, <2>1, <2>2, BecomeInv DEF ArriveStream
<1>7. ASSUME NEW r \in Request, GapChecked(r) PROVE RequestsInv'
  <2>1. ASSUME NEW b \in BOOLEAN
        PROVE  Good([req[r] EXCEPT !.at = "preamble", !.wait = 0, !.behind = b])
    <3> DEFINE q == [req[r] EXCEPT !.at = "preamble", !.wait = 0, !.behind = b]
    <3>1. q \in RequestState
      BY <1>0, <1>b DEF RequestState, Writing
    <3>2. q.at = "preamble" /\ q.block = req[r].block /\ q.left = req[r].left /\ q.late = req[r].late
      BY <1>0 DEF RequestState
    <3>4. req[r].at = "gap"
      BY <1>7 DEF GapChecked
    <3>3. Clocks(q)
      <4> HIDE DEF q
      <4> QED BY <1>0, <3>2, <3>4 DEF Clocks
    <3> QED BY <3>1, <3>3
  <2> QED BY <1>s, <1>5, <1>7, <2>1, BecomeInv DEF GapChecked
<1>8. ASSUME NEW r \in Request, Loop(r) PROVE RequestsInv'
  <2>1. ASSUME ~CtxDone(r), NEW b \in (IF req[r].poll THEN {0} ELSE ReadBlock(req[r]))
        PROVE  Good([req[r] EXCEPT !.at = "read", !.wait = PoolTimeout, !.block = b, !.queued = FALSE])
    <3>1. req[r].left \in Nat /\ req[r].late = 0
      BY <1>0, <2>1 DEF RequestState, Clocks, CtxDone
    <3>2. b \in Nat /\ b <= KeepAlive /\ b <= req[r].left
      BY <1>1, <2>1, <3>1, MinOfTwo DEF ReadBlock
    <3> DEFINE q == [req[r] EXCEPT !.at = "read", !.wait = PoolTimeout, !.block = b, !.queued = FALSE]
    <3>3. q \in RequestState
      <4>1. b \in 0..KeepAlive
        BY <1>1, <3>2
      <4> QED BY <1>0, <1>b, <4>1 DEF RequestState, Waiting
    <3>4. q.at = "read" /\ q.block = b /\ q.poll = req[r].poll /\ q.left = req[r].left /\ q.late = req[r].late
      BY <1>0, <1>1, <3>2 DEF RequestState, Waiting
    <3>5. Clocks(q)
      <4> HIDE DEF q
      <4> QED BY <1>0, <1>1, <3>1, <3>2, <3>4 DEF Clocks
    <3> QED BY <3>3, <3>5
  <2> QED BY <1>3, <1>8, <2>1, BecomeInv DEF Loop
<1>9. ASSUME NEW r \in Request, XRead(r) PROVE RequestsInv'
  <2>1. ASSUME ~req[r].poll, req[r].at = "read"
        PROVE  Good([req[r] EXCEPT !.at = "block", !.wait = ReplyLimit(req[r].block)])
    <3>1. /\ ReplyLimit(req[r].block) \in Nat
          /\ req[r].block = 0 => ReplyLimit(req[r].block) = ReadTimeout
          /\ req[r].block # 0 => ReplyLimit(req[r].block) = req[r].block
      BY <1>0, <1>1 DEF ReplyLimit, RequestState
    <3>6. req[r].late \in Nat /\ req[r].block \in Nat /\ req[r].left \in Nat
      BY <1>0 DEF RequestState
    <3> DEFINE q == [req[r] EXCEPT !.at = "block", !.wait = ReplyLimit(req[r].block)]
    <3>3. q \in RequestState
      <4>1. ReplyLimit(req[r].block) \in 0..PoolTimeout
        <5>1. req[r].block <= KeepAlive
          BY <1>0, <1>1 DEF RequestState
        <5> QED BY <1>1, <3>1, <3>6, <5>1
      <4> QED BY <1>0, <4>1 DEF RequestState
    <3>4. q.at = "block" /\ q.wait = ReplyLimit(req[r].block) /\ q.block = req[r].block
          /\ q.queued = req[r].queued /\ q.poll = req[r].poll /\ q.left = req[r].left /\ q.late = req[r].late
      BY <1>0, <3>1 DEF RequestState
    <3>5. Clocks(q)
      <4> HIDE DEF q
      <4> QED BY <1>0, <1>1, <2>1, <3>1, <3>6, <3>4 DEF Clocks
    <3> QED BY <3>3, <3>5
  <2> QED BY <1>3, <1>4, <1>9, <2>1, BecomeInv DEF XRead
<1>10. ASSUME NEW r \in Request, Reset(r) \/ PoolTimesOut(r) \/ Lookup(r) \/ Expire(r) \/ ReplyCut(r)
       PROVE RequestsInv'
  BY <1>3, <1>s, <1>r, <1>10 DEF Reset, PoolTimesOut, Lookup, Expire, ReplyCut
<1>11. ASSUME NEW r \in Request, Wake(r) PROVE RequestsInv'
  BY <1>4, <1>11 DEF Wake
<1>12. ASSUME NEW r \in Request, BlockEnds(r) PROVE RequestsInv'
  <2>1. ASSUME ~CtxDone(r), req[r].at = "block"
        PROVE  Good([req[r] EXCEPT !.at = "write", !.block = 0, !.queued = FALSE])
    <3>6. req[r].late = 0
      BY <1>0, <2>1 DEF RequestState, Clocks, CtxDone
    <3> DEFINE q == [req[r] EXCEPT !.at = "write", !.block = 0, !.queued = FALSE]
    <3>3. q \in RequestState
      BY <1>0, <1>b DEF RequestState, Writing
    <3>4. q.at = "write" /\ q.block = 0 /\ q.poll = req[r].poll /\ q.left = req[r].left /\ q.late = req[r].late
      BY <1>0 DEF RequestState
    <3>5. Clocks(q)
      <4> HIDE DEF q
      <4> QED BY <1>0, <1>1, <2>1, <3>6, <3>4 DEF Clocks
    <3> QED BY <3>3, <3>5
  <2> QED BY <1>3, <1>12, <2>1, BecomeInv DEF BlockEnds
<1>13. ASSUME NEW r \in Request, ArriveLookup(r) \/ ArriveSnapshot(r) PROVE RequestsInv'
  <2>1. None.late = 0
    BY DEF None
  <2>2. Good([None EXCEPT !.at = "lookup", !.left = ApiTimeout, !.wait = PoolTimeout])
    <3> DEFINE q == [None EXCEPT !.at = "lookup", !.left = ApiTimeout, !.wait = PoolTimeout]
    <3>1. q \in RequestState
      BY <1>b, NoneInv DEF RequestState, Waiting
    <3>2. q.at = "lookup" /\ q.late = 0 /\ q.left = ApiTimeout
      BY <1>b, <2>1, NoneInv DEF RequestState
    <3>3. Clocks(q)
      <4> HIDE DEF q
      <4> QED BY <1>1, <3>2 DEF Clocks
    <3> QED BY <3>1, <3>3
  <2>3. Good([None EXCEPT !.at = "reply", !.wait = ApiWrite])
    <3> DEFINE q == [None EXCEPT !.at = "reply", !.wait = ApiWrite]
    <3>1. q \in RequestState
      BY <1>b, NoneInv DEF RequestState, Writing
    <3>2. q.at = "reply" /\ q.late = 0 /\ q.wait = ApiWrite
      BY <1>b, <2>1, NoneInv DEF RequestState
    <3>3. Clocks(q)
      <4> HIDE DEF q
      <4> QED BY <1>1, <3>2 DEF Clocks
    <3> QED BY <3>1, <3>3
  <2> QED BY <1>s, <1>13, <2>2, <2>3, BecomeInv DEF ArriveLookup, ArriveSnapshot
<1>w. ASSUME NEW r \in Request, Written(r) PROVE RequestsInv'
  <2>1. ASSUME req[r].at \in {"preamble", "write"}
        PROVE  Good([req[r] EXCEPT !.at = "loop"])
    <3> DEFINE q == [req[r] EXCEPT !.at = "loop"]
    <3>1. q \in RequestState
      BY <1>0 DEF RequestState
    <3>2. q.at = "loop" /\ q.poll = req[r].poll /\ q.left = req[r].left /\ q.late = req[r].late
      BY <1>0 DEF RequestState
    <3>3. Clocks(q)
      <4> HIDE DEF q
      <4> QED BY <1>0, <2>1, <3>2 DEF Clocks
    <3> QED BY <3>1, <3>3
  <2> QED BY <1>3, <1>w, <2>1, BecomeInv DEF Written
<1>14. ASSUME NEW r \in Request, Leave(r) PROVE RequestsInv'
  <2>1. Good([req[r] EXCEPT !.gone = TRUE])
    BY <1>0 DEF RequestState, Clocks
  <2> QED BY <1>14, <2>1, BecomeInv DEF Leave
<1>15. CASE Write \/ WriteElsewhere
  <2>1. ASSUME NEW r \in Request PROVE Good([req[r] EXCEPT !.behind = TRUE])
    BY <1>0 DEF RequestState, Clocks
  <2>2. \A r \in Request : Good(req'[r])
    BY <1>0, <1>15, <2>1 DEF Write, WriteElsewhere, NewEntry
  <2>3. req' = [r \in Request |-> req'[r]]
    BY <1>15 DEF Write, WriteElsewhere, NewEntry
  <2> QED BY <2>2, <2>3 DEF RequestsInv
<1>16. CASE Exit \/ Crash
  BY <1>16, NoneInv DEF Exit, Crash, RequestsInv
<1>17. CASE Tick
  <2>1. ASSUME NEW r \in Request PROVE ~(req[r].at \in {"block", "reply"} /\ req[r].wait = 0)
    BY <1>17 DEF Tick, Urgent, Busy
  <2>2. \A r \in Request : Good(req'[r])
    BY <1>0, <1>17, <2>1, ElapsedInv DEF Tick
  <2>3. req' = [r \in Request |-> req'[r]]
    BY <1>17 DEF Tick
  <2> QED BY <2>2, <2>3 DEF RequestsInv
<1>18. CASE Boot \/ WriteWanted \/ Signal \/ RoleFails \/ WriterEnds
            \/ ServerEnds \/ GraceExpires \/ Restart \/ UNCHANGED vars
  BY <1>2, <1>18 DEF Boot, WriteWanted, Signal, RoleFails, WriterEnds,
                     ServerEnds, GraceExpires, Restart, vars
<1> QED
  BY <1>6, <1>7, <1>8, <1>9, <1>10, <1>11, <1>12, <1>13, <1>14, <1>15, <1>16, <1>17, <1>18, <1>w
  DEF Next, Progress, Shutdown

\* A stream request begins no read after its timeout, and outlives it only by a
\* keepalive interval, after a wait for a connection, by the client's ReadTimeout,
\* after BLOCK 0, or while its client does not read what it is sent; for any
\* number of requests, any pool size and any timeouts.
THEOREM ServingOnTime == Spec => []OnTime
<1>1. Init => RequestsInv
  BY NoneInv DEF Init, RequestsInv
<1>2. RequestsInv /\ [Next]_vars => RequestsInv'
  BY RequestsInvStep
<1>3. ASSUME RequestsInv PROVE OnTime
  <2> SUFFICES ASSUME NEW r \in Request, req[r].late > 0, req[r].at \notin {"write", "loop"}
               PROVE  /\ req[r].at = "block"
                      /\ \/ req[r].block = 0 /\ req[r].late <= ReadTimeout
                         \/ req[r].queued /\ req[r].late <= KeepAlive
    BY DEF OnTime
  <2>1. /\ Clocks(req[r])
        /\ req[r].late \in Nat /\ req[r].wait \in Nat /\ req[r].block \in Nat
    BY <1>3 DEF RequestsInv, RequestState
  <2>2. ReadTimeout \in Nat /\ KeepAlive \in Nat
    BY ServingAssumption
  <2>3. req[r].at = "block"
    BY <2>1 DEF Clocks
  <2>4. CASE req[r].block = 0
    BY <2>1, <2>2, <2>3, <2>4 DEF Clocks
  <2>5. CASE req[r].block # 0
    <3>1. req[r].late <= KeepAlive
      BY <2>1, <2>2, <2>3, <2>5 DEF Clocks
    <3>2. req[r].queued
      BY <2>1, <2>3, <2>5 DEF Clocks
    <3> QED BY <2>3, <3>1, <3>2
  <2> QED BY <2>4, <2>5
<1> QED BY <1>1, <1>2, <1>3, PTL DEF Spec

-------------------------------------------------------------------------
(* The pool, and the end of the process. *)

\* What a step does to a request that reads or blocks, or that the API answers:
\* nothing but mark it, a step of its loop or of its read, an answer, or a tick.
Tracked == {"read", "block", "lookup", "reply"}
Same(r) == /\ req'[r].at = req[r].at /\ req'[r].wait = req[r].wait /\ req'[r].block = req[r].block
Reads(r) == /\ ~CtxDone(r) /\ req'[r].at = "read"
Blocks(r) == /\ req[r].at = "read" /\ Free /\ req'[r].at = "block" /\ req'[r].block = req[r].block
             /\ req'[r].wait = ReplyLimit(req[r].block)
             /\ \A s \in Request \ {r} : req'[s] = req[s]
Asks(r) == /\ proc = "run" /\ req'[r].at \in {"lookup", "reply"}
Replies(r) == /\ req[r].at = "lookup" /\ req'[r].at = "reply"
              /\ req'[r].wait = req[r].left + (ApiWrite - ApiTimeout)
Moved(r) == \/ req'[r].at \notin Tracked
            \/ Same(r) \/ Reads(r) \/ Blocks(r) \/ Asks(r) \/ Replies(r)

LEMMA Moves ==
  ASSUME RequestsInv, [Next]_vars
  PROVE  Tick \/ \A r \in Request : Moved(r)
<1> DEFINE Fine == \A r \in Request : Moved(r)
<1>0. req \in [Request -> RequestState]
  BY DEF RequestsInv
<1>n. None.at = "none"
  BY DEF None
<1>1. ASSUME UNCHANGED req PROVE Fine
  BY <1>1 DEF Same, Moved
<1>2. ASSUME NEW r \in Request, NEW q, Become(r, q), q.at \notin Tracked PROVE Fine
  BY <1>0, <1>2 DEF Become, Same, Moved
<1>a. ASSUME NEW r \in Request, NEW q, Become(r, q), q.at \in {"lookup", "reply"}, proc = "run" PROVE Fine
  BY <1>0, <1>a DEF Become, Same, Moved, Asks
<1>3. ASSUME NEW r \in Request, Return(r) PROVE Fine
  BY <1>2, <1>3, <1>n DEF Return, Tracked
<1>s. ASSUME NEW r \in Request, Send(r) PROVE Fine
  <2>1. [None EXCEPT !.at = "send", !.poll = TRUE].at = "send"
    BY DEF None
  <2> QED BY <1>2, <1>s, <2>1 DEF Send, Tracked
<1>r. ASSUME NEW r \in Request, Reply(r), req[r].at = "lookup" PROVE Fine
  <2> DEFINE q == [req[r] EXCEPT !.at = "reply", !.left = 0, !.wait = req[r].left + (ApiWrite - ApiTimeout)]
  <2>1. q.at = "reply" /\ q.wait = req[r].left + (ApiWrite - ApiTimeout)
    BY <1>0 DEF RequestState
  <2> HIDE DEF q
  <2>2. req'[r] = q /\ \A s \in Request \ {r} : req'[s] = req[s]
    BY <1>0, <1>r DEF Reply, Become, q
  <2>3. Replies(r)
    BY <1>r, <2>1, <2>2 DEF Replies
  <2> QED BY <2>2, <2>3 DEF Same, Moved
<1>4. ASSUME NEW r \in Request, Sent(r) PROVE Fine
  <2>1. ASSUME NEW more \in BOOLEAN
        PROVE  [req[r] EXCEPT !.at = "write", !.wait = 0, !.block = 0, !.queued = FALSE, !.behind = more].at = "write"
    BY <1>0 DEF RequestState
  <2> QED BY <1>2, <1>s, <1>4, <2>1 DEF Sent, Tracked
<1>5. ASSUME NEW r \in Request, ArriveStream(r) \/ ArriveLookup(r) \/ ArriveSnapshot(r) PROVE Fine
  <2>1. ASSUME NEW what \in {"gap", "stats"}, NEW t, NEW p
        PROVE  [None EXCEPT !.at = what, !.wait = PoolTimeout, !.left = t, !.poll = p].at = what
    BY DEF None
  <2>2. [None EXCEPT !.at = "lookup", !.left = ApiTimeout, !.wait = PoolTimeout].at = "lookup"
    BY DEF None
  <2>3. [None EXCEPT !.at = "reply", !.wait = ApiWrite].at = "reply"
    BY DEF None
  <2>4. CASE ArriveStream(r)
    <3> DEFINE t(n) == Min({n, MaxTimeout})
    <3>1. PICK n \in 0..MaxTimeout + 1, what \in {"gap", "stats"} :
            Become(r, [None EXCEPT !.at = what, !.wait = PoolTimeout, !.left = t(n), !.poll = (t(n) = 0)])
      BY <2>4 DEF ArriveStream
    <3> HIDE DEF t
    <3>2. [None EXCEPT !.at = what, !.wait = PoolTimeout, !.left = t(n), !.poll = (t(n) = 0)].at = what
      BY <2>1
    <3> QED BY <1>2, <3>1, <3>2 DEF Tracked
  <2> QED BY <1>a, <1>s, <1>5, <2>2, <2>3, <2>4 DEF ArriveLookup, ArriveSnapshot
<1>6. ASSUME NEW r \in Request, GapChecked(r) PROVE Fine
  <2>1. ASSUME NEW b \in BOOLEAN PROVE [req[r] EXCEPT !.at = "preamble", !.wait = 0, !.behind = b].at = "preamble"
    BY <1>0 DEF RequestState
  <2>2. [req[r] EXCEPT !.at = "stats", !.wait = PoolTimeout].at = "stats"
    BY <1>0 DEF RequestState
  <2> QED BY <1>2, <1>s, <1>6, <2>1, <2>2 DEF GapChecked, Wait, Tracked
<1>7. ASSUME NEW r \in Request, Loop(r) PROVE Fine
  <2>1. CASE CtxDone(r)
    BY <1>3, <1>7, <2>1 DEF Loop
  <2>2. CASE ~CtxDone(r)
    <3>1. PICK b : Become(r, [req[r] EXCEPT !.at = "read", !.wait = PoolTimeout, !.block = b, !.queued = FALSE])
      BY <1>7, <2>2 DEF Loop
    <3>2. [req[r] EXCEPT !.at = "read", !.wait = PoolTimeout, !.block = b, !.queued = FALSE].at = "read"
      BY <1>0 DEF RequestState
    <3>3. req'[r].at = "read" /\ \A s \in Request \ {r} : req'[s] = req[s]
      BY <1>0, <3>1, <3>2 DEF Become
    <3> QED BY <2>2, <3>3 DEF Reads, Same, Moved
  <2> QED BY <2>1, <2>2
<1>8. ASSUME NEW r \in Request, XRead(r) PROVE Fine
  <2>1. CASE Sent(r) \/ Return(r)
    BY <1>3, <1>4, <2>1
  <2>2. CASE Become(r, [req[r] EXCEPT !.at = "block", !.wait = ReplyLimit(req[r].block)])
    <3> DEFINE q == [req[r] EXCEPT !.at = "block", !.wait = ReplyLimit(req[r].block)]
    <3>1. q.at = "block" /\ q.wait = ReplyLimit(req[r].block) /\ q.block = req[r].block
      BY <1>0 DEF RequestState
    <3> HIDE DEF q
    <3>2. req'[r] = q /\ \A s \in Request \ {r} : req'[s] = req[s]
      BY <1>0, <2>2 DEF Become, q
    <3>3. Blocks(r)
      BY <1>8, <3>1, <3>2 DEF Blocks, XRead
    <3> QED BY <3>2, <3>3 DEF Same, Moved
  <2> QED BY <1>8, <2>1, <2>2 DEF XRead
<1>9. ASSUME NEW r \in Request,
             \/ Reset(r) \/ PoolTimesOut(r) \/ Lookup(r) \/ Expire(r) \/ ReplyCut(r) \/ Wake(r)
      PROVE  Fine
  BY <1>3, <1>4, <1>s, <1>r, <1>9 DEF Reset, PoolTimesOut, Lookup, Expire, ReplyCut, Wake
<1>w. ASSUME NEW r \in Request, Written(r) PROVE Fine
  <2>1. [req[r] EXCEPT !.at = "loop"].at = "loop"
    BY <1>0 DEF RequestState
  <2> QED BY <1>2, <1>3, <1>w, <2>1 DEF Written, Tracked
<1>10. ASSUME NEW r \in Request, BlockEnds(r) PROVE Fine
  <2>1. [req[r] EXCEPT !.at = "write", !.block = 0, !.queued = FALSE].at = "write"
    BY <1>0 DEF RequestState
  <2> QED BY <1>2, <1>3, <1>10, <2>1 DEF BlockEnds, Tracked
<1>11. ASSUME NEW r \in Request, Leave(r) PROVE Fine
  <2> DEFINE q == [req[r] EXCEPT !.gone = TRUE]
  <2>1. q.at = req[r].at /\ q.wait = req[r].wait /\ q.block = req[r].block
    BY <1>0 DEF RequestState
  <2> HIDE DEF q
  <2>2. req'[r] = q /\ \A s \in Request \ {r} : req'[s] = req[s]
    BY <1>0, <1>11 DEF Leave, Become, q
  <2> QED BY <2>1, <2>2 DEF Same, Moved
<1>12. CASE Write \/ WriteElsewhere
  <2>1. ASSUME NEW r \in Request PROVE Same(r)
    <3> DEFINE q == [req[r] EXCEPT !.behind = TRUE]
    <3>1. q.at = req[r].at /\ q.wait = req[r].wait /\ q.block = req[r].block
      BY <1>0 DEF RequestState
    <3> HIDE DEF q
    <3>2. req'[r] = q \/ req'[r] = req[r]
      BY <1>12 DEF Write, WriteElsewhere, NewEntry, q
    <3> QED BY <3>1, <3>2 DEF Same
  <2> QED BY <2>1 DEF Moved
<1>13. CASE Exit \/ Crash
  BY <1>13, <1>n DEF Exit, Crash, Moved, Tracked
<1>14. CASE Boot \/ WriteWanted \/ Signal \/ RoleFails \/ WriterEnds
            \/ ServerEnds \/ GraceExpires \/ Restart \/ UNCHANGED vars
  BY <1>1, <1>14 DEF Boot, WriteWanted, Signal, RoleFails, WriterEnds,
                     ServerEnds, GraceExpires, Restart, vars
<1> HIDE DEF Fine
<1>15. ASSUME Fine PROVE Tick \/ \A r \in Request : Moved(r)
  BY <1>15 DEF Fine
<1>16. ASSUME NEW r \in Request,
              \/ ArriveStream(r) \/ ArriveLookup(r) \/ ArriveSnapshot(r)
              \/ Progress(r) \/ Written(r) \/ Leave(r)
       PROVE  Fine
  BY <1>5, <1>6, <1>7, <1>8, <1>9, <1>w, <1>10, <1>11, <1>16 DEF Progress
<1> QED BY <1>12, <1>13, <1>14, <1>15, <1>16, Zenon DEF Next, Shutdown

\* A tick, for what counts here.
LEMMA TickMoves ==
  ASSUME RequestsInv, Tick, NEW r \in Request
  PROVE  /\ req'[r].at = req[r].at /\ req'[r].block = req[r].block
         /\ req[r].at \in {"block", "reply"} => req[r].wait > 0 /\ req'[r].wait = req[r].wait - 1
         /\ req[r].at \in {"read", "lookup"} => proc # "stop"
<1>0. req[r] \in RequestState /\ req[r].wait \in Nat
  BY Timeouts DEF RequestsInv, RequestState
<1>1. req'[r] = Elapsed(req[r]) /\ ~Busy
  BY DEF Tick, Urgent
<1>2. /\ req'[r].at = req[r].at /\ req'[r].block = req[r].block
      /\ req'[r].wait = IF req[r].at \in Waiting \cup {"block", "reply"} /\ req[r].wait > 0 THEN req[r].wait - 1
                        ELSE req[r].wait
  BY <1>0, <1>1 DEF Elapsed, RequestState
<1>3. req[r].at \in {"block", "reply"} => req[r].wait > 0
  BY <1>0, <1>1 DEF Busy
<1>4. req[r].at \in {"read", "lookup"} => proc # "stop"
  BY <1>1 DEF Busy, CtxDone
<1> QED BY <1>2, <1>3, <1>4

Blocked == {r \in Request : req[r].at = "block"}
PoolInv == Cardinality(Blocked) <= PoolSize

\* Only a read with a free connection takes one.
LEMMA PoolStep == ASSUME RequestsInv, PoolInv, [Next]_vars PROVE PoolInv'
<1>0. PoolSize \in Nat
  BY Timeouts
<1>1. IsFiniteSet(Blocked) /\ Cardinality(Blocked) \in Nat
  BY ServingAssumption, FS_Subset, FS_CardinalityType DEF Blocked
<1>2. ASSUME Blocked' \subseteq Blocked PROVE PoolInv'
  <2>1. Cardinality(Blocked') <= Cardinality(Blocked) /\ Cardinality(Blocked') \in Nat
    BY <1>1, <1>2, FS_Subset, FS_CardinalityType
  <2> QED BY <1>0, <1>1, <2>1 DEF PoolInv
<1>3. ASSUME NEW r \in Request, Blocks(r) PROVE PoolInv'
  <2>1. Cardinality(Blocked) < PoolSize
    BY <1>3 DEF Blocks, Free, Blocked
  <2>2. Blocked' = Blocked \cup {r}
    BY <1>3 DEF Blocks, Blocked
  <2>3. Cardinality(Blocked') <= Cardinality(Blocked) + 1 /\ Cardinality(Blocked') \in Nat
    <3>1. r \notin Blocked
      BY <1>3 DEF Blocks, Blocked
    <3>2. Cardinality(Blocked \cup {r}) = Cardinality(Blocked) + 1
      BY <1>1, <3>1, FS_AddElement
    <3> QED BY <1>1, <2>2, <3>2
  <2> QED BY <1>0, <1>1, <2>1, <2>3 DEF PoolInv
<1>4. CASE Tick
  BY <1>2, <1>4, TickMoves DEF Blocked
<1>5. CASE ~Tick /\ \A r \in Request : ~Blocks(r)
  <2>1. \A r \in Request : req'[r].at # "block" \/ Same(r)
    BY <1>5, Moves DEF Moved, Tracked, Reads, Asks, Replies
  <2> QED BY <1>2, <2>1 DEF Blocked, Same
<1> QED BY <1>3, <1>4, <1>5

\* After the signal: reads and lookups come to their end before time passes, a
\* block with a limit ends a shutdown timeout minus a keepalive interval before the
\* grace, and an answer of the API a shutdown timeout minus its own.
StopInv ==
  /\ grace \in 0..Grace
  /\ proc \in {"boot", "run"} => grace = Grace
  /\ proc = "stop" => \A r \in Request :
       /\ req[r].at \in {"read", "lookup"} => grace = Grace
       /\ req[r].at = "block" /\ req[r].block # 0 => req[r].wait + Grace <= grace + KeepAlive
       /\ req[r].at = "reply" => req[r].wait + Grace <= grace + ApiWrite

LEMMA StopStep == ASSUME RequestsInv, StopInv, [Next]_vars PROVE StopInv'
<1>0. /\ Grace \in Nat /\ KeepAlive \in Nat /\ KeepAlive < Grace /\ grace \in 0..Grace
      /\ ApiWrite \in Nat /\ ApiTimeout \in Nat /\ ApiTimeout <= ApiWrite
      /\ \A r \in Request : /\ req[r].wait \in Nat /\ req[r].left \in Nat
                           /\ req[r].block \in Nat /\ req[r].block <= KeepAlive
      /\ \A r \in Request : req[r].at = "block" /\ req[r].block # 0 => req[r].wait <= KeepAlive
      /\ \A r \in Request : req[r].at = "lookup" => req[r].left <= ApiTimeout
      /\ \A r \in Request : req[r].at = "reply" => req[r].wait <= ApiWrite
  <2>1. /\ Grace \in Nat /\ KeepAlive \in Nat /\ KeepAlive < Grace /\ PoolTimeout \in Nat /\ MaxLate \in Nat
        /\ ApiWrite \in Nat /\ ApiTimeout \in Nat /\ ApiTimeout <= ApiWrite /\ MaxLeft \in Nat
    BY Timeouts
  <2>2. \A r \in Request : req[r] \in RequestState /\ Clocks(req[r])
    BY DEF RequestsInv
  <2>3. \A r \in Request : /\ req[r].wait \in Nat /\ req[r].left \in Nat /\ req[r].late \in Nat
                           /\ req[r].block \in Nat /\ req[r].block <= KeepAlive
    BY <2>1, <2>2 DEF RequestState
  <2> QED BY <2>1, <2>2, <2>3 DEF StopInv, Clocks
<1>1. CASE Tick
  <2>1. /\ proc' = proc /\ proc \in {"run", "stop"}
        /\ grace' = IF proc = "stop" /\ grace > 0 THEN grace - 1 ELSE grace
    BY <1>1 DEF Tick
  <2>2. ASSUME proc = "stop", NEW r \in Request
        PROVE  /\ req'[r].at \notin {"read", "lookup"}
               /\ req'[r].at = "block" /\ req'[r].block # 0 => req'[r].wait + Grace <= grace' + KeepAlive
               /\ req'[r].at = "reply" => req'[r].wait + Grace <= grace' + ApiWrite
    <3>1. /\ req'[r].at = req[r].at /\ req'[r].block = req[r].block /\ req[r].at \notin {"read", "lookup"}
          /\ req[r].at \in {"block", "reply"} => req[r].wait > 0 /\ req'[r].wait = req[r].wait - 1
      BY <1>1, <2>2, TickMoves
    <3>2. /\ req[r].at = "block" /\ req[r].block # 0 => req[r].wait + Grace <= grace + KeepAlive
          /\ req[r].at = "reply" => req[r].wait + Grace <= grace + ApiWrite
      BY <2>2 DEF StopInv
    <3>3. grace' >= grace - 1
      BY <1>0, <2>1, <2>2
    <3> QED BY <1>0, <2>1, <3>1, <3>2, <3>3
  <2>3. grace' \in 0..Grace /\ (proc = "run" => grace' = Grace)
    BY <1>0, <2>1 DEF StopInv
  <2> QED BY <2>1, <2>2, <2>3 DEF StopInv
<1>2. ASSUME ~Tick, proc' = proc, grace' = grace PROVE StopInv'
  <2>1. ASSUME proc = "stop", NEW r \in Request
        PROVE  /\ req'[r].at \in {"read", "lookup"} => grace = Grace
               /\ req'[r].at = "block" /\ req'[r].block # 0 => req'[r].wait + Grace <= grace + KeepAlive
               /\ req'[r].at = "reply" => req'[r].wait + Grace <= grace + ApiWrite
    <3>0. /\ req[r].at \in {"read", "lookup"} => grace = Grace
          /\ req[r].at = "block" /\ req[r].block # 0 => req[r].wait + Grace <= grace + KeepAlive
          /\ req[r].at = "reply" => req[r].wait + Grace <= grace + ApiWrite
      BY <2>1 DEF StopInv
    <3>1. req'[r].at \notin Tracked \/ Same(r) \/ Blocks(r) \/ Replies(r)
      BY <1>2, <2>1, Moves DEF Moved, Reads, Asks, CtxDone
    <3>2. CASE req'[r].at \notin Tracked
      BY <3>2 DEF Tracked
    <3>3. CASE Same(r)
      BY <3>0, <3>3 DEF Same
    <3>4. CASE Replies(r)
      <4>1. /\ grace = Grace /\ req'[r].at = "reply" /\ req[r].left <= ApiTimeout /\ req[r].left \in Nat
            /\ req'[r].wait = req[r].left + (ApiWrite - ApiTimeout)
        BY <1>0, <3>0, <3>4 DEF Replies
      <4> QED BY <1>0, <4>1
    <3>5. CASE Blocks(r)
      <4>1. /\ req[r].at = "read" /\ req'[r].at = "block" /\ req'[r].block = req[r].block
            /\ req'[r].block # 0 => req'[r].wait = req[r].block
        BY <3>5 DEF Blocks, ReplyLimit
      <4> QED BY <1>0, <3>0, <4>1
    <3> QED BY <3>1, <3>2, <3>3, <3>4, <3>5
  <2> QED BY <1>2, <2>1 DEF StopInv
<1>3. CASE Signal \/ RoleFails
  <2>1. /\ proc \in {"run", "stop"} /\ proc' = "stop" /\ grace' = grace /\ req' = req
    BY <1>3 DEF Signal, RoleFails
  <2>2. CASE proc = "run"
    BY <1>0, <2>1, <2>2 DEF StopInv
  <2>3. CASE proc = "stop"
    BY <2>1, <2>3 DEF StopInv
  <2> QED BY <2>1, <2>2, <2>3
<1>4. CASE Boot
  BY <1>4 DEF Boot, StopInv
<1>5. CASE Exit \/ Crash
  BY <1>5 DEF Exit, Crash, StopInv
<1>6. CASE Restart
  BY <1>0, <1>6 DEF Restart, StopInv
<1>7. ASSUME NEW r \in Request,
             \/ ArriveStream(r) \/ ArriveLookup(r) \/ ArriveSnapshot(r)
             \/ Progress(r) \/ Written(r) \/ Leave(r)
      PROVE  proc' = proc /\ grace' = grace
  <2>1. OnlyRequests
    BY <1>7 DEF ArriveStream, ArriveLookup, ArriveSnapshot, Progress, Written, Leave,
                GapChecked, Reset, PoolTimesOut, Loop, XRead, Wake, BlockEnds, Lookup, Expire, ReplyCut
  <2> QED BY <2>1 DEF OnlyRequests, processVars
<1>8. ASSUME WriterEnds \/ ServerEnds \/ GraceExpires \/ WriteWanted \/ Write \/ WriteElsewhere \/ UNCHANGED vars
      PROVE  proc' = proc /\ grace' = grace
  BY <1>8 DEF WriterEnds, ServerEnds, GraceExpires, WriteWanted, Write, WriteElsewhere, vars, processVars
<1> QED BY <1>1, <1>2, <1>3, <1>4, <1>5, <1>6, <1>7, <1>8 DEF Next, Shutdown

\* The grace of serveHTTP suffices: when the shutdown timeout runs out, there is a
\* client of the replicator that does not read what it is sent, or a read without
\* a limit.  All other requests have ended, those that wait for a connection
\* included, unless reads without a limit hold the whole pool.
THEOREM ServingGraceSuffices == Spec => GraceSuffices
<1> DEFINE Slow == \E r \in Request : \/ req[r].at \in {"preamble", "write", "send"}
                                      \/ req[r].at = "block" /\ req[r].block = 0
<1>1. Init => RequestsInv /\ StopInv
  BY NoneInv, Timeouts DEF Init, RequestsInv, StopInv
<1>2. RequestsInv /\ StopInv /\ [Next]_vars => (RequestsInv /\ StopInv)'
  BY RequestsInvStep, StopStep
<1>3. ASSUME RequestsInv, StopInv, GraceExpires PROVE Slow
  <2>0. proc = "stop" /\ grace = 0 /\ InFlight # {} /\ ~Busy
    BY <1>3 DEF GraceExpires
  <2>1. PICK r \in Request : req[r].at # "none"
    BY <2>0 DEF InFlight
  <2>t. /\ Grace \in Nat /\ KeepAlive \in Nat /\ KeepAlive < Grace /\ PoolSize \in Nat /\ PoolSize > 0
        /\ ApiWrite \in Nat /\ ApiWrite < Grace
        /\ \A s \in Request : req[s].wait \in Nat
    BY <1>3, Timeouts DEF RequestsInv, RequestState
  <2>2. \A s \in Request : req[s].at = "block" => req[s].block = 0
    BY <1>3, <2>0, <2>t DEF StopInv
  <2>6. req[r].at # "reply"
    BY <1>3, <2>0, <2>t DEF StopInv
  <2>3. req[r].at \in Waiting \cup Writing \cup {"none", "loop", "block"}
    BY <1>3 DEF RequestsInv, RequestState
  <2>4. CASE req[r].at = "loop"
    BY <2>0, <2>4 DEF Busy
  <2>5. CASE req[r].at \in Waiting
    <3>1. ~Free
      BY <2>0, <2>5 DEF Busy
    <3>2. ~(Cardinality(Blocked) < PoolSize)
      BY <3>1 DEF Free, Blocked
    <3>3. Blocked # {}
      <4>1. Cardinality({}) = 0
        BY FS_EmptySet
      <4> QED BY <2>t, <3>2, <4>1
    <3>4. PICK s \in Request : req[s].at = "block"
      BY <3>3 DEF Blocked
    <3> QED BY <2>2, <3>4
  <2> QED BY <2>1, <2>2, <2>3, <2>4, <2>5, <2>6 DEF Writing
<1>4. RequestsInv /\ StopInv => [GraceExpires => Slow]_vars
  <2> HIDE DEF Slow
  <2> QED BY <1>3, Zenon
<1> QED BY <1>1, <1>2, <1>4, PTL DEF Spec, GraceSuffices

ProcessTypes ==
  /\ roles \in Deployments
  /\ proc \in {"boot", "run", "stop", "exit0", "exit1"}
  /\ ended \subseteq {"writer", "http"} /\ failed \in BOOLEAN
  /\ write \in BOOLEAN

LEMMA ProcessTypesStep == ASSUME ProcessTypes, [Next]_vars PROVE ProcessTypes'
<1> USE Zenon DEF ProcessTypes, processVars
<1>1. CASE Boot
  BY <1>1 DEF Boot
<1>2. CASE Signal \/ Restart
  BY <1>2 DEF Signal, Restart
<1>3. CASE RoleFails
  BY <1>3 DEF RoleFails
<1>4. CASE WriterEnds \/ ServerEnds \/ GraceExpires
  BY <1>4 DEF WriterEnds, ServerEnds, GraceExpires
<1>5. CASE Exit
  BY <1>5 DEF Exit
<1>6. CASE Crash
  BY <1>6 DEF Crash
<1>7. CASE WriteWanted \/ Write \/ WriteElsewhere \/ Tick
  BY <1>7 DEF WriteWanted, Write, WriteElsewhere, Tick
<1>8. ASSUME NEW r \in Request,
             \/ ArriveStream(r) \/ ArriveLookup(r) \/ ArriveSnapshot(r)
             \/ Progress(r) \/ Written(r) \/ Leave(r)
      PROVE  ProcessTypes'
  <2>1. OnlyRequests
    BY <1>8 DEF ArriveStream, ArriveLookup, ArriveSnapshot, Progress, Written, Leave,
                GapChecked, Reset, PoolTimesOut, Loop, XRead, Wake, BlockEnds, Lookup, Expire, ReplyCut
  <2> QED BY <2>1 DEF OnlyRequests
<1>9. CASE UNCHANGED vars
  BY <1>9 DEF vars
<1> QED BY <1>1, <1>2, <1>3, <1>4, <1>5, <1>6, <1>7, <1>8, <1>9 DEF Next, Shutdown

\* Type correctness, with the limits of the process: the requests never hold
\* more connections than the pool has, and no clock exceeds its timeout.
THEOREM ServingTypeOK == Spec => []TypeOK
<1> DEFINE I == RequestsInv /\ StopInv /\ PoolInv /\ ProcessTypes
<1>1. ASSUME Init PROVE I
  <2>1. RequestsInv /\ StopInv
    BY <1>1, NoneInv, Timeouts DEF Init, RequestsInv, StopInv
  <2>2. PoolInv
    <3>1. Blocked = {}
      BY <1>1 DEF Init, Blocked, None
    <3> QED BY <3>1, FS_EmptySet, Timeouts DEF PoolInv
  <2>3. ProcessTypes
    BY <1>1, Zenon DEF Init, ProcessTypes
  <2> QED BY <2>1, <2>2, <2>3
<1>2. I /\ [Next]_vars => I'
  BY RequestsInvStep, StopStep, PoolStep, ProcessTypesStep
<1>3. I => TypeOK
  BY Zenon DEF RequestsInv, RequestState, MaxLeft, StopInv, PoolInv, Blocked, ProcessTypes, TypeOK
<1> HIDE DEF I
<1>4. Init => I
  BY <1>1
<1> QED BY <1>2, <1>3, <1>4, PTL DEF Spec
=========================================================================
