------------------------- MODULE WikimediaProofs -------------------------
(***************************************************************************)
(* The robot policy, proved for any number of clients, any rate and any    *)
(* cooldown.                                                               *)
(***************************************************************************)
EXTENDS Wikimedia, TLAPS

Place == {"idle", "lock", "limit", "trip", "cool", "body", "store", "back"}

\* One client at most has the mutex; as long as it is cooling down, what has
\* passed since the slow response and what the cooldown still lasts make up the
\* whole of it; and nobody leaves the cooldown before, but for the two reasons
\* the policy names.
TransportInv ==
  /\ at \in [User -> Place] /\ clock \in Nat /\ sinceSlow \in Nat
  /\ \A u, w \in Holder : u = w
  /\ (\E u \in User : at[u] = "cool") => sinceSlow + clock >= Cooldown
  /\ (\A u \in User : at[u] # "cool") => sinceSlow >= Cooldown \/ stopped \/ cut

LEMMA MinMaxOfTwo ==
  ASSUME NEW a \in Int, NEW b \in Int
  PROVE  /\ Min({a, b}) = IF a <= b THEN a ELSE b
         /\ Max({a, b}) = IF a >= b THEN a ELSE b
<1>1. \E x \in {a, b} : \A y \in {a, b} : x <= y
  BY a <= b \/ b <= a
<1>2. \E x \in {a, b} : \A y \in {a, b} : x >= y
  BY a >= b \/ b >= a
<1>3. Min({a, b}) \in {a, b} /\ \A y \in {a, b} : Min({a, b}) <= y
  BY <1>1, Zenon DEF Min
<1>4. Max({a, b}) \in {a, b} /\ \A y \in {a, b} : Max({a, b}) >= y
  BY <1>2, Zenon DEF Max
<1> QED BY <1>3, <1>4

LEMMA TransportInvInit == Init => TransportInv
BY WikimediaAssumption DEF Init, TransportInv, Place, Holder

LEMMA TransportInvStep ==
  ASSUME TransportInv, [Next]_vars
  PROVE  TransportInv'
<1> USE DEF TransportInv, Place, Holder, Go
<1>1. Cooldown \in Nat /\ Threshold \in Nat
  BY WikimediaAssumption
<1>2. ASSUME NEW u \in User, NEW where \in {"idle", "lock", "body", "store", "back"},
             Go(u, where), at[u] \in {"idle", "lock", "limit", "trip", "body", "store", "back"},
             UNCHANGED <<stopped, clock, sinceSlow, cut>>
      PROVE  TransportInv'
  BY <1>2
<1>3. ASSUME NEW u \in User, Lock(u) PROVE TransportInv'
  BY <1>3 DEF Lock
<1>4. ASSUME NEW u \in User, Start(u) PROVE TransportInv'
  <2>1. \A w \in User : at[w] # "cool"
    BY <1>4 DEF Start
  <2> QED BY <1>1, <1>4, <2>1 DEF Start
<1>5. ASSUME NEW u \in User, Respond(u) PROVE TransportInv'
  <2>1. CASE Go(u, "cool") /\ clock' = Cooldown /\ sinceSlow' = 0 /\ cut' = FALSE
    BY <1>1, <1>5, <2>1 DEF Respond
  <2>2. CASE Go(u, "body") /\ UNCHANGED <<clock, sinceSlow, cut>>
    BY <1>2, <1>5, <2>2 DEF Respond
  <2> QED BY <1>5, <2>1, <2>2 DEF Respond
<1>6. ASSUME NEW u \in User, Cooled(u) PROVE TransportInv'
  <2>0. at[u] = "cool" /\ (clock = 0 \/ Expired(u)) /\ (cut' <=> u \in Fetcher /\ Expired(u))
    BY <1>6, Zenon DEF Cooled
  <2>1. sinceSlow >= Cooldown \/ stopped \/ cut'
    <3>1. CASE clock = 0
      BY <1>1, <2>0, <3>1
    <3>2. CASE Expired(u)
      BY <2>0, <3>2, Zenon DEF Expired, User
    <3> QED BY <2>0, <3>1, <3>2
  <2>2. \A w \in User : at'[w] # "cool"
    BY <1>6 DEF Cooled
  <2> QED BY <1>6, <2>1, <2>2 DEF Cooled
<1>7. ASSUME NEW u \in User, Build(u) \/ WaitFails(u) \/ TripFails(u) \/ Disconnected(u) PROVE TransportInv'
  BY <1>2, <1>7 DEF Build, WaitFails, TripFails, Disconnected
<1>8. ASSUME NEW u \in User, Refused(u) \/ Accepted(u) \/ Lagged(u) PROVE TransportInv'
  BY <1>2, <1>8 DEF Refused, Accepted, Lagged
<1>9. ASSUME NEW u \in User, Store(u) \/ BackOff(u) PROVE TransportInv'
  BY <1>2, <1>9 DEF Store, BackOff
<1>10. CASE Tick
  <2>0. /\ Min({sinceSlow + 1, Cooldown}) = IF sinceSlow + 1 <= Cooldown THEN sinceSlow + 1 ELSE Cooldown
        /\ Min({clock + 1, Threshold + 1}) = IF clock <= Threshold THEN clock + 1 ELSE Threshold + 1
        /\ Max({clock - 1, 0}) = IF clock >= 1 THEN clock - 1 ELSE 0
    <3>1. sinceSlow + 1 \in Int /\ clock + 1 \in Int /\ clock - 1 \in Int /\ Threshold + 1 \in Int
      BY <1>1
    <3>2. Min({sinceSlow + 1, Cooldown}) = IF sinceSlow + 1 <= Cooldown THEN sinceSlow + 1 ELSE Cooldown
      BY <1>1, <3>1, MinMaxOfTwo
    <3>3. Min({clock + 1, Threshold + 1}) = IF clock + 1 <= Threshold + 1 THEN clock + 1 ELSE Threshold + 1
      BY <3>1, MinMaxOfTwo
    <3>4. Max({clock - 1, 0}) = IF clock - 1 >= 0 THEN clock - 1 ELSE 0
      <4>1. 0 \in Int
        OBVIOUS
      <4> QED BY <3>1, <4>1, MinMaxOfTwo, Zenon
    <3> QED BY <1>1, <3>2, <3>3, <3>4
  <2>1. /\ sinceSlow' = IF sinceSlow + 1 <= Cooldown THEN sinceSlow + 1 ELSE Cooldown
        /\ Min({clock + 1, Threshold + 1}) \in Nat
        /\ Max({clock - 1, 0}) = IF clock - 1 >= 0 THEN clock - 1 ELSE 0
    BY <1>1, <1>10, <2>0 DEF Tick
  <2>2. (\E u \in User : at[u] = "cool") => ~ \E u \in User : at[u] = "trip"
    OBVIOUS
  <2>3. clock' \in Nat /\ sinceSlow' \in Nat
    BY <1>1, <1>10, <2>1 DEF Tick
  <2>4. (\E u \in User : at[u] = "cool") => sinceSlow' + clock' >= Cooldown
    BY <1>1, <1>10, <2>1, <2>2 DEF Tick
  <2>5. (\A u \in User : at[u] # "cool") => sinceSlow' >= Cooldown \/ stopped \/ cut
    BY <1>1, <2>1
  <2>6. UNCHANGED <<at, stopped, cut>>
    BY <1>10 DEF Tick
  <2> QED BY <2>3, <2>4, <2>5, <2>6
<1>11. CASE Stop \/ UNCHANGED vars
  BY <1>11 DEF Stop, vars, transportVars
<1> QED
  BY <1>3, <1>4, <1>5, <1>6, <1>7, <1>8, <1>9, <1>10, <1>11 DEF Next, Move, Judged

\* The transport keeps the robot policy: one request at a time, with a token of
\* the limiter, and none within the cooldown of a slow one, unless the process
\* stops or the slow one was a fetch past its deadline.
THEOREM WikimediaPolicyKept == Spec => PolicyKept
<1> DEFINE Step == \A u \in User : Begins(u) =>
                     /\ \A w \in User : at[w] # "trip"
                     /\ tokens = 0
                     /\ sinceSlow >= Cooldown \/ stopped \/ cut
<1>1. ASSUME TransportInv, [Next]_vars PROVE [Step]_vars
  <2> SUFFICES ASSUME NEW u \in User, Begins(u), Next
               PROVE  /\ \A w \in User : at[w] # "trip"
                      /\ tokens = 0
                      /\ sinceSlow >= Cooldown \/ stopped \/ cut
    BY <1>1
  <2>1. Start(u)
    <3>1. PICK w \in User : \/ Lock(w) \/ Respond(w) \/ TripFails(w) \/ Disconnected(w)
                            \/ Refused(w) \/ Judged(w) \/ Move(w)
      BY DEF Next, Stop, Tick, Begins, transportVars
    <3>2. Start(w)
      BY <1>1, <3>1 DEF Begins, TransportInv, Go, Lock, Respond, TripFails, Disconnected,
                        Refused, Judged, Accepted, Lagged, Move, Build, WaitFails, Cooled, Store, BackOff
    <3>3. w = u
      BY <1>1, <3>2 DEF Begins, TransportInv, Go, Start
    <3> QED BY <3>2, <3>3
  <2>2. at[u] = "limit" /\ tokens = 0
    BY <1>1, <2>1 DEF Start, Begins, Go, TransportInv
  <2>3. \A w \in User : at[w] \notin {"trip", "cool"}
    BY <1>1, <2>2 DEF TransportInv, Holder
  <2> QED BY <1>1, <2>2, <2>3 DEF TransportInv
<1> QED BY <1>1, TransportInvInit, TransportInvStep, PTL DEF Spec, PolicyKept
=========================================================================
