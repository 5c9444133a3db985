---------------------------- MODULE Wikimedia ----------------------------
(***************************************************************************)
(* The requests to Wikimedia: the transport all of them share              *)
(* (ThrottleTransport, internal/watcher/http.go), which keeps the robot    *)
(* policy, and the answer of the API to a server that lags behind          *)
(* (FetchEntitiesRaw, internal/watcher/wikidata.go).                       *)
(*                                                                         *)
(* A user of the transport is a fetcher, one of the concurrent callers of  *)
(* ProcessEntities, or a reader: the event stream or the dump download.    *)
(* The fields for maxlag are read and written by all fetchers without a    *)
(* lock.  The http.Client of the fetchers has a timeout, which becomes the *)
(* deadline of the request's context and runs from the call to the last    *)
(* byte of the body; the context of a reader is that of the process.       *)
(***************************************************************************)
EXTENDS Integers, FiniteSetsExt

CONSTANTS
  Fetcher, Reader,
  Lags,         \* the lags, in seconds, Wikimedia may have
  Interval,     \* ticks between two tokens of the rate limiter
  Threshold,    \* wikimediaExpensiveThreshold
  Cooldown,     \* wikimediaExpensiveCooldown
  FetchTimeout, \* the Timeout of the client that fetches entities
  Maxlag,       \* wikimediaMaxlag
  MaxlagMax,    \* maxlagParamMax
  BackoffInit,  \* maxlagBackoffInit
  BackoffMax,   \* maxlagBackoffMax
  Minute,       \* the wait that raises the parameter by one
  RetryAfters   \* the values of the header Retry-After, the default among them

User == Fetcher \cup Reader

ASSUME WikimediaAssumption ==
  /\ Fetcher \cap Reader = {} /\ Fetcher # {}
  /\ Lags \subseteq 0..MaxlagMax
  /\ {Interval, Threshold, Cooldown, FetchTimeout, Maxlag, MaxlagMax, BackoffInit, BackoffMax, Minute} \subseteq Nat \ {0}
  /\ Maxlag <= MaxlagMax /\ BackoffInit <= BackoffMax
  /\ RetryAfters \subseteq Nat \ {0} /\ RetryAfters # {}

VARIABLES
  lag,        \* how far Wikimedia lags behind; never changes
  stopped,    \* the context of the process is done
  at,         \* "idle", "lock", "limit", "trip", "cool", "body", "store", "back"
  tokens,     \* ticks until the limiter has a token
  clock,      \* how long the trip lasts, or the cooldown still does
  sinceSlow,  \* ticks since the last slow response
  due,        \* due[u]: what is left of the timeout of u's request
  cut,        \* the request of the last cooldown was past its deadline when it ended
  backoff,    \* c.maxlagBackoff
  total,      \* c.maxlagWaitTotal
  param,      \* param[u]: the parameter of u's request (Maxlag when it has none)
  seen        \* seen[u]: the fields as u has read them

transportVars == <<at, tokens, clock, sinceSlow, due, cut>>
maxlagVars == <<backoff, total, param, seen>>
vars == <<lag, stopped, transportVars, maxlagVars>>

\* More wait than this does not raise the parameter any more.
TotalMax == (MaxlagMax - Maxlag + 1) * Minute

Unseen == [backoff |-> 0, total |-> 0]

Init ==
  /\ lag \in Lags /\ stopped = FALSE
  /\ at = [u \in User |-> "idle"]
  /\ tokens = 0 /\ clock = 0 /\ sinceSlow = Cooldown
  /\ due = [u \in Fetcher |-> 0] /\ cut = FALSE
  /\ backoff = 0 /\ total = 0
  /\ param = [u \in Fetcher |-> Maxlag]
  /\ seen = [u \in Fetcher |-> Unseen]

Holder == {u \in User : at[u] \in {"limit", "trip", "cool"}}
Go(u, where) == at' = [at EXCEPT ![u] = where]

\* The context of u's request is done.
Expired(u) == IF u \in Fetcher THEN due[u] = 0 ELSE stopped

\* u's request is over, and its deadline with it.
Over(u) == due' = [w \in Fetcher |-> IF w = u THEN 0 ELSE due[w]]

\* maxlagParam
MaxlagParam == Min({Maxlag + total \div Minute, MaxlagMax})

-------------------------------------------------------------------------
(* The transport. *)

\* A request is built, with the maxlag parameter of this moment, and waits for
\* the mutex, whatever happens to its context.
Build(u) ==
  /\ at[u] = "idle" /\ ~stopped
  /\ Go(u, "lock")
  /\ param' = [w \in Fetcher |-> IF w = u THEN MaxlagParam ELSE param[w]]
  /\ due' = [w \in Fetcher |-> IF w = u THEN FetchTimeout ELSE due[w]]
  /\ UNCHANGED <<lag, stopped, tokens, clock, sinceSlow, cut, backoff, total, seen>>

\* Faulty variant: no mutex.
LockNone(u) ==
  /\ at[u] = "lock"
  /\ Go(u, "limit")
  /\ UNCHANGED <<lag, stopped, tokens, clock, sinceSlow, due, cut, maxlagVars>>

Lock(u) ==
  /\ at[u] = "lock"
  /\ Holder = {}
  /\ Go(u, "limit")
  /\ UNCHANGED <<lag, stopped, tokens, clock, sinceSlow, due, cut, maxlagVars>>

\* limiter.Wait: a token ...
Start(u) ==
  /\ at[u] = "limit"
  /\ tokens = 0 /\ ~Expired(u)
  /\ tokens' = Interval /\ clock' = 0
  /\ Go(u, "trip")
  /\ UNCHANGED <<lag, stopped, sinceSlow, due, cut, maxlagVars>>

\* ... or an error: the context is done, or its deadline is before the token.
WaitFails(u) ==
  /\ at[u] = "limit"
  /\ Expired(u) \/ (u \in Fetcher /\ due[u] < tokens)
  /\ param' = [w \in Fetcher |-> IF w = u THEN Maxlag ELSE param[w]]
  /\ Over(u)
  /\ Go(u, "idle")
  /\ UNCHANGED <<lag, stopped, tokens, clock, sinceSlow, cut, backoff, total, seen>>

\* The base transport has a response.  A slow one is followed by the cooldown,
\* under the mutex.
Respond(u) ==
  /\ at[u] = "trip"
  /\ IF clock > Threshold
     THEN Go(u, "cool") /\ clock' = Cooldown /\ sinceSlow' = 0 /\ cut' = FALSE
     ELSE Go(u, "body") /\ UNCHANGED <<clock, sinceSlow, cut>>
  /\ UNCHANGED <<lag, stopped, tokens, due, maxlagVars>>

\* It has an error, the deadline for one: no cooldown.
TripFails(u) ==
  /\ at[u] = "trip"
  /\ param' = [w \in Fetcher |-> IF w = u THEN Maxlag ELSE param[w]]
  /\ Over(u)
  /\ Go(u, "idle")
  /\ UNCHANGED <<lag, stopped, tokens, clock, sinceSlow, cut, backoff, total, seen>>

\* The cooldown is over, or the context of the request done.
Cooled(u) ==
  /\ at[u] = "cool"
  /\ clock = 0 \/ Expired(u)
  /\ cut' = (u \in Fetcher /\ Expired(u))
  /\ Go(u, "body")
  /\ UNCHANGED <<lag, stopped, tokens, clock, sinceSlow, due, maxlagVars>>

\* A reader has its connection, and comes back when it has lost it.
Disconnected(u) ==
  /\ u \in Reader /\ at[u] = "body"
  /\ Go(u, "idle")
  /\ UNCHANGED <<lag, stopped, tokens, clock, sinceSlow, due, cut, maxlagVars>>

-------------------------------------------------------------------------
(* FetchEntitiesRaw, with the response. *)

\* 429, another status, a body that cannot be read (after the deadline, for one):
\* maxlag is not touched.
Refused(u) ==
  /\ u \in Fetcher /\ at[u] = "body"
  /\ param' = [param EXCEPT ![u] = Maxlag]
  /\ Over(u)
  /\ Go(u, "back")
  /\ UNCHANGED <<lag, stopped, tokens, clock, sinceSlow, cut, backoff, total, seen>>

\* A 200 without the error maxlag: the back-off is reset (and the caller has
\* its entities, or another API error).
Accepted(u) ==
  /\ u \in Fetcher /\ at[u] = "body" /\ ~Expired(u)
  /\ lag <= param[u]
  /\ backoff' = 0 /\ total' = 0
  /\ param' = [param EXCEPT ![u] = Maxlag]
  /\ Over(u)
  /\ Go(u, "idle")
  /\ UNCHANGED <<lag, stopped, tokens, clock, sinceSlow, cut, seen>>

\* The error maxlag: the fields are read ...
Lagged(u) ==
  /\ u \in Fetcher /\ at[u] = "body" /\ ~Expired(u)
  /\ lag > param[u]
  /\ seen' = [seen EXCEPT ![u] = [backoff |-> backoff, total |-> total]]
  /\ param' = [param EXCEPT ![u] = Maxlag]
  /\ Over(u)
  /\ Go(u, "store")
  /\ UNCHANGED <<lag, stopped, tokens, clock, sinceSlow, cut, backoff, total>>

\* Faulty variant: the wait is not added up.
StoreNoTotal(u) ==
  /\ at[u] = "store"
  /\ backoff' = IF seen[u].backoff = 0 THEN BackoffInit ELSE Min({2 * seen[u].backoff, BackoffMax})
  /\ seen' = [seen EXCEPT ![u] = Unseen]
  /\ Go(u, "back")
  /\ UNCHANGED <<lag, stopped, tokens, clock, sinceSlow, due, cut, total, param>>

\* ... and written, with whatever another fetcher has written in between lost.
Store(u) ==
  /\ at[u] = "store"
  /\ LET b == IF seen[u].backoff = 0 THEN BackoffInit ELSE Min({2 * seen[u].backoff, BackoffMax})
     IN  /\ backoff' = b
         /\ \E ra \in RetryAfters : total' = Min({seen[u].total + Max({ra, b}), TotalMax})
  /\ seen' = [seen EXCEPT ![u] = Unseen]
  /\ Go(u, "back")
  /\ UNCHANGED <<lag, stopped, tokens, clock, sinceSlow, due, cut, param>>

\* The caller has waited for RetryAfter.
BackOff(u) ==
  /\ at[u] = "back"
  /\ Go(u, "idle")
  /\ UNCHANGED <<lag, stopped, tokens, clock, sinceSlow, due, cut, maxlagVars>>

-------------------------------------------------------------------------
Stop ==
  /\ ~stopped
  /\ stopped' = TRUE
  /\ UNCHANGED <<lag, transportVars, maxlagVars>>

Tick ==
  /\ tokens' = Max({tokens - 1, 0})
  /\ sinceSlow' = Min({sinceSlow + 1, Cooldown})
  /\ clock' = IF \E u \in User : at[u] = "trip" THEN Min({clock + 1, Threshold + 1})
              ELSE Max({clock - 1, 0})
  /\ due' = [u \in Fetcher |-> Max({due[u] - 1, 0})]
  /\ UNCHANGED <<lag, stopped, at, cut, maxlagVars>>

Move(u) == Build(u) \/ Start(u) \/ WaitFails(u) \/ Cooled(u) \/ Store(u) \/ BackOff(u)
Judged(u) == Accepted(u) \/ Lagged(u)

Next ==
  \/ \E u \in User : \/ Lock(u) \/ Respond(u) \/ TripFails(u) \/ Disconnected(u)
                     \/ Refused(u) \/ Judged(u) \/ Move(u)
  \/ Stop \/ Tick

Spec == Init /\ [][Next]_vars

\* Goroutines run, time passes, and a response that is there in time is judged
\* by what it says, and not refused, again and again.
FairSpec ==
  /\ Spec
  /\ WF_vars(Tick)
  /\ \A u \in User : WF_vars(Move(u))
  /\ \A u \in Fetcher : SF_vars(Judged(u))

-------------------------------------------------------------------------
(* Properties. *)

Begins(u) == at[u] # "trip" /\ at'[u] = "trip"

\* The robot policy, over all clients of the process: one request at a time, at
\* the rate of the limiter, and after a response that took longer than Threshold
\* none for Cooldown.  There are two ways for the cooldown to be shorter: the
\* process stops, or the slow request was a fetch whose timeout has passed since
\* it was made, the wait for the mutex included.
PolicyKept ==
  [][\A u \in User : Begins(u) =>
       /\ \A w \in User : at[w] # "trip"
       /\ tokens = 0
       /\ sinceSlow >= Cooldown \/ stopped \/ cut]_vars

\* However far Wikimedia lags behind, up to the highest parameter, fetches get
\* through, if only their responses come in time again and again: the parameter
\* grows with the wait, though concurrent fetchers lose each other's updates,
\* reset them, and send a parameter that is out of date.
Answered == \E u \in Fetcher : at[u] = "body" /\ ~Expired(u)
GetsThrough ==
  [](~stopped) /\ []<>Answered => []<><<\E u \in Fetcher : Accepted(u)>>_vars
=========================================================================
