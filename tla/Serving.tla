----------------------------- MODULE Serving -----------------------------
(***************************************************************************)
(* One process: its start, its roles, its HTTP requests and its end        *)
(* (cmd/wdxref/main.go, replicate/stream.go, api/server.go).  All of them  *)
(* share one pool of connections to Kvrocks (store/client.go), which       *)
(* stream requests hold while XREAD blocks, and every one of them lives by *)
(* the clock: keepalive, request, pool, read and shutdown timeouts.        *)
(*                                                                         *)
(* Time passes in ticks.  The code between two commands takes none, and a  *)
(* tick passes only when nothing is left that happens at once.  Apart from *)
(* a blocking XREAD a command needs a free connection but no time.  What   *)
(* is written to a client takes as long as the client takes to read it:    *)
(* the server has no WriteTimeout, and only the API sets a deadline.       *)
(***************************************************************************)
EXTENDS Integers, FiniteSets, FiniteSetsExt

CONSTANTS
  Request,      \* the requests there may be at a time
  Deployments,  \* the sets of roles a process may be given
  PoolSize,     \* connections to Kvrocks
  ReadTimeout,  \* the client's, for one reply
  PoolTimeout,  \* the client's, for a free connection
  MaxTimeout,   \* REPLICATION_MAX_TIMEOUT
  KeepAlive,    \* KeepAliveInterval
  ApiTimeout,   \* apiReadTimeout
  ApiWrite,     \* apiWriteTimeout
  Grace         \* the shutdown timeout of serveHTTP

ASSUME ServingAssumption ==
  /\ IsFiniteSet(Request)
  /\ {PoolSize, ReadTimeout, PoolTimeout, MaxTimeout, KeepAlive, ApiTimeout, ApiWrite, Grace} \subseteq Nat
  /\ PoolSize > 0
  /\ 0 < ApiTimeout /\ ApiTimeout <= ApiWrite /\ ApiWrite < Grace
  /\ 0 < KeepAlive /\ KeepAlive < Grace
  /\ Grace < ReadTimeout /\ ReadTimeout < PoolTimeout

VARIABLES
  roles,     \* the roles of the process; never change
  proc,      \* "boot", "run", "stop" (the context is done), "exit0", "exit1"
  ended,     \* the roles that have returned: "writer" (primary or replica), "http"
  failed,    \* firstErr # nil
  grace,     \* what is left of the shutdown timeout
  write,     \* the writer waits for a connection
  req        \* the requests

processVars == <<proc, ended, failed, grace>>
vars == <<roles, processVars, write, req>>

(***************************************************************************)
(* A request: where its handler is, what is left of its own time and of    *)
(* the wait or the block it is in, the block time it has computed (0 is    *)
(* BLOCK 0), and whether the changelog has more for it.  poll says that it *)
(* sets no deadline.  late counts the ticks after its deadline, and queued  *)
(* says that the read it is in had to wait for a connection.  The limit on *)
(* its events is not counted: it may be reached with any batch.            *)
(*                                                                         *)
(* What its client has to read: "preamble" is the comment at the head of a *)
(* stream, "write" a batch or a keepalive, "send" the last thing a handler *)
(* sends (the last batch, a reset, 503, a snapshot), "reply" an answer of  *)
(* the API.                                                                *)
(***************************************************************************)
\* Bound: as late as a request is counted.
MaxLate == ReadTimeout + 1
None == [at |-> "none", poll |-> FALSE, left |-> 0, wait |-> 0, block |-> 0,
         behind |-> FALSE, gone |-> FALSE, late |-> 0, queued |-> FALSE]
Waiting == {"gap", "stats", "read", "lookup"}
Writing == {"preamble", "write", "send", "reply"}

TypeOK ==
  /\ roles \in Deployments
  /\ proc \in {"boot", "run", "stop", "exit0", "exit1"}
  /\ ended \subseteq {"writer", "http"} /\ failed \in BOOLEAN /\ grace \in 0..Grace
  /\ write \in BOOLEAN
  /\ req \in [Request -> [at : Waiting \cup Writing \cup {"none", "loop", "block"}, poll : BOOLEAN,
                          left : 0..Max({ApiTimeout, MaxTimeout}), wait : 0..PoolTimeout,
                          block : 0..KeepAlive, behind : BOOLEAN,
                          gone : BOOLEAN, late : 0..MaxLate, queued : BOOLEAN]]
  /\ Cardinality({r \in Request : req[r].at = "block"}) <= PoolSize

Init ==
  /\ roles \in Deployments
  /\ proc = "boot" /\ ended = {} /\ failed = FALSE /\ grace = Grace
  /\ write = FALSE
  /\ req = [r \in Request |-> None]

Writes == roles \cap {"primary", "replica"} # {}
Serves == roles \cap {"replicator", "api"} # {}
InFlight == {r \in Request : req[r].at # "none"}

\* Faulty variant: one connection more than the pool has.
FreeOneMore == Cardinality({r \in Request : req[r].at = "block"}) <= PoolSize

Free == Cardinality({r \in Request : req[r].at = "block"}) < PoolSize

-------------------------------------------------------------------------
(* main, until the roles run. *)

\* selectRoles, NewClient, whose PING may fail, and MigrateSchema (see Primary),
\* whose commands may.
Boot ==
  /\ proc = "boot"
  /\ \/ roles # {} /\ ~({"primary", "replica"} \subseteq roles) /\ proc' = "run"
     \/ proc' = "exit1"
  /\ UNCHANGED <<roles, ended, failed, grace, write, req>>

-------------------------------------------------------------------------
(* The requests of the replicator and the API. *)

\* Faulty variant: the requests' contexts do not derive from the process's.
CtxDoneOwn(r) == req[r].gone \/ (req[r].left = 0 /\ ~req[r].poll)

\* The context of the request is done: its client is gone, the process stops
\* (BaseContext), or its time is up (a timeout of 0 sets none).
CtxDone(r) == req[r].gone \/ proc = "stop" \/ (req[r].left = 0 /\ ~req[r].poll)

\* Something is left that takes no time.
Busy ==
  \/ \E r \in Request : \/ req[r].at = "loop"
                        \/ req[r].at \in Waiting /\ (Free \/ req[r].wait = 0)
                        \/ req[r].at \in {"read", "lookup"} /\ CtxDone(r)
                        \/ req[r].at = "block" /\ (req[r].behind \/ req[r].wait = 0)
                        \/ req[r].at = "reply" /\ req[r].wait = 0
  \/ write /\ Free

Become(r, q) == req' = [req EXCEPT ![r] = q]
Return(r) == Become(r, None)
Send(r) == Become(r, [None EXCEPT !.at = "send", !.poll = TRUE])
Wait(r, what) == Become(r, [req[r] EXCEPT !.at = what, !.wait = PoolTimeout])
OnlyRequests == UNCHANGED <<roles, processVars, write>>

\* ServeStream: the options are the smaller of what is asked for and the
\* limits; a cursor of 0 is reset without a look at the changelog.
ArriveStream(r) ==
  /\ proc = "run" /\ "replicator" \in roles
  /\ req[r].at = "none"
  /\ \E timeout \in 0..MaxTimeout + 1, what \in {"gap", "stats"} :
       LET t == Min({timeout, MaxTimeout})
       IN  Become(r, [None EXCEPT !.at = what, !.wait = PoolTimeout, !.left = t, !.poll = (t = 0)])
  /\ OnlyRequests

\* checkStreamGap: covered, a gap, or 503.
GapChecked(r) ==
  /\ req[r].at = "gap" /\ Free
  /\ \/ \E b \in BOOLEAN : Become(r, [req[r] EXCEPT !.at = "preamble", !.wait = 0, !.behind = b])
     \/ Wait(r, "stats")
     \/ Send(r)
  /\ OnlyRequests

\* GetStats, for the state a reset reports; the reset is sent in any case.
Reset(r) ==
  /\ req[r].at = "stats" /\ Free
  /\ Send(r)
  /\ OnlyRequests

\* The answer of the API to a request, whatever it is; it has what is left of
\* apiWriteTimeout, which began together with apiReadTimeout.
Reply(r) ==
  Become(r, [req[r] EXCEPT !.at = "reply", !.left = 0, !.wait = req[r].left + (ApiWrite - ApiTimeout)])

\* No connection within PoolTimeout: 503, a reset without a state, the end of
\* the stream, or 500.
PoolTimesOut(r) ==
  /\ req[r].wait = 0
  /\ \/ req[r].at \in {"gap", "stats"} /\ Send(r)
     \/ req[r].at = "read" /\ Return(r)
     \/ req[r].at = "lookup" /\ Reply(r)
  /\ OnlyRequests

\* Faulty variant: the deadline of the request is not looked at.
ReadBlockFull(q) == {KeepAlive}

\* streamReadBlock, in the milliseconds XREAD gets: what remains in the last
\* tick may be less than one.
ReadBlock(q) == {Min({KeepAlive, q.left})} \cup (IF q.left = 1 THEN {0} ELSE {})

\* The head of the loop: the context, and the block time of the next read,
\* which is fixed before there is a connection for it.
Loop(r) ==
  /\ req[r].at = "loop"
  /\ IF CtxDone(r)
     THEN Return(r)
     ELSE \E b \in (IF req[r].poll THEN {0} ELSE ReadBlock(req[r])) :
            Become(r, [req[r] EXCEPT !.at = "read", !.wait = PoolTimeout, !.block = b, !.queued = FALSE])
  /\ OnlyRequests

\* A batch of events is sent and the cursor moved; more may be left to read, and
\* the limit may be reached.
Sent(r) ==
  \/ \E more \in BOOLEAN :
       Become(r, [req[r] EXCEPT !.at = "write", !.wait = 0, !.block = 0, !.queued = FALSE, !.behind = more])
  \/ Send(r)

\* Faulty variant: a client without a ReadTimeout (-1 is never counted down).
ReplyLimitNone(b) == IF b = 0 THEN -1 ELSE b

\* How long the client waits for the reply to an XREAD: BLOCK 0 has no limit
\* but the client's own.
ReplyLimit(b) == IF b = 0 THEN ReadTimeout ELSE b

\* XREAD, with a connection: events, an empty poll, an error, or the block.
XRead(r) ==
  /\ req[r].at = "read" /\ Free
  /\ \/ req[r].behind /\ Sent(r)
     \/ ~req[r].behind /\ req[r].poll /\ Return(r)
     \/ ~req[r].behind /\ ~req[r].poll
        /\ Become(r, [req[r] EXCEPT !.at = "block", !.wait = ReplyLimit(req[r].block)])
     \/ Return(r)
  /\ OnlyRequests

\* A change ends the block.
Wake(r) ==
  /\ req[r].at = "block" /\ req[r].behind
  /\ Sent(r)
  /\ OnlyRequests

\* The block time is over: keepalive, or the end.  After BLOCK 0 it is the
\* client that gives up, with an error.
BlockEnds(r) ==
  /\ req[r].at = "block" /\ ~req[r].behind
  /\ req[r].wait = 0
  /\ IF req[r].block = 0 \/ CtxDone(r) THEN Return(r)
                                      ELSE Become(r, [req[r] EXCEPT !.at = "write", !.block = 0, !.queued = FALSE])
  /\ OnlyRequests

\* handleLookup, handleWikidataLookup, handleHealth, handleStats.  Answered at
\* once: a parameter that is wrong, and lookups of a reader whose schema is not
\* right (see Primary).
ArriveLookup(r) ==
  /\ proc = "run" /\ "api" \in roles
  /\ req[r].at = "none"
  /\ \/ Become(r, [None EXCEPT !.at = "lookup", !.left = ApiTimeout, !.wait = PoolTimeout])
     \/ Become(r, [None EXCEPT !.at = "reply", !.wait = ApiWrite])
  /\ OnlyRequests

\* 200, 404 or 500.
Lookup(r) ==
  /\ req[r].at = "lookup" /\ Free
  /\ Reply(r)
  /\ OnlyRequests

\* The pool gives up with the context: 504, or the end of the stream.
Expire(r) ==
  /\ CtxDone(r)
  /\ \/ req[r].at = "read" /\ Return(r)
     \/ req[r].at = "lookup" /\ Reply(r)
  /\ OnlyRequests

\* withWriteDeadline: what the client has not read by now it does not get.
ReplyCut(r) ==
  /\ req[r].at = "reply" /\ req[r].wait = 0
  /\ Return(r)
  /\ OnlyRequests

\* ServeSnapshot sends a file.
ArriveSnapshot(r) ==
  /\ proc = "run" /\ "replicator" \in roles
  /\ req[r].at = "none"
  /\ Send(r)
  /\ OnlyRequests

\* The client has read what it was sent, and the time of a stream begins after its
\* preamble; or the connection is found broken, and the context is done.
Written(r) ==
  /\ \/ req[r].at \in {"preamble", "write"} /\ Become(r, [req[r] EXCEPT !.at = "loop"])
     \/ req[r].at \in Writing /\ Return(r)
  /\ OnlyRequests

\* The client goes away (see Written; to go away earlier is to go away before the
\* first read).  A handler in XREAD does not notice.
Leave(r) ==
  /\ req[r].at \in {"read", "block"}
  /\ ~req[r].gone
  /\ Become(r, [req[r] EXCEPT !.gone = TRUE])
  /\ OnlyRequests

-------------------------------------------------------------------------
(* The roles, and their end. *)

\* The changelog has a new entry, which every stream has still to send.
NewEntry ==
  req' = [r \in Request |-> IF req[r].at \in {"preamble", "write", "loop", "read", "block"}
                            THEN [req[r] EXCEPT !.behind = TRUE] ELSE req[r]]

\* The primary, or the replica, has a change to write ...
WriteWanted ==
  /\ proc = "run" /\ Writes
  /\ ~write
  /\ write' = TRUE
  /\ UNCHANGED <<roles, processVars, req>>

\* ... and a connection for it (a write that waits too long is repeated).
Write ==
  /\ write /\ Free
  /\ write' = FALSE
  /\ NewEntry
  /\ UNCHANGED <<roles, processVars>>

\* The primary, or the replica, is another process, with connections of its own.
WriteElsewhere ==
  /\ proc \in {"run", "stop"} /\ ~Writes
  /\ NewEntry
  /\ UNCHANGED <<roles, processVars, write>>

\* SIGINT or SIGTERM.
Signal ==
  /\ proc = "run"
  /\ proc' = "stop"
  /\ UNCHANGED <<roles, ended, failed, grace, write, req>>

\* A role returns an error: the first one is kept, and stop() is called.
RoleFails ==
  /\ proc \in {"run", "stop"}
  /\ \E role \in {x \in {"writer", "http"} : IF x = "writer" THEN Writes ELSE Serves /\ proc = "run"} \ ended :
       ended' = ended \cup {role}
  /\ failed' = TRUE
  /\ proc' = "stop"
  /\ UNCHANGED <<roles, grace, write, req>>

WriterEnds ==
  /\ proc = "stop" /\ Writes
  /\ "writer" \notin ended /\ ~write
  /\ ended' = ended \cup {"writer"}
  /\ UNCHANGED <<roles, proc, failed, grace, write, req>>

\* serveHTTP: Shutdown returns when no request is left ...
ServerEnds ==
  /\ proc = "stop" /\ Serves
  /\ "http" \notin ended
  /\ InFlight = {}
  /\ ended' = ended \cup {"http"}
  /\ UNCHANGED <<roles, proc, failed, grace, write, req>>

\* ... or with an error when its time is up.
GraceExpires ==
  /\ proc = "stop" /\ Serves
  /\ "http" \notin ended
  /\ grace = 0 /\ InFlight # {} /\ ~Busy
  /\ ended' = ended \cup {"http"}
  /\ failed' = TRUE
  /\ UNCHANGED <<roles, proc, grace, write, req>>

\* wg.Wait, and the exit status.
Exit ==
  /\ proc = "stop"
  /\ (Writes => "writer" \in ended) /\ (Serves => "http" \in ended)
  /\ proc' = IF failed THEN "exit1" ELSE "exit0"
  /\ req' = [r \in Request |-> None]
  /\ write' = FALSE
  /\ UNCHANGED <<roles, ended, failed, grace>>

\* The process is killed, at any point.
Crash ==
  /\ proc \in {"run", "stop"}
  /\ proc' = "exit1"
  /\ req' = [r \in Request |-> None]
  /\ write' = FALSE
  /\ UNCHANGED <<roles, ended, failed, grace>>

Restart ==
  /\ proc \in {"exit0", "exit1"}
  /\ proc' = "boot"
  /\ ended' = {} /\ failed' = FALSE /\ grace' = Grace
  /\ UNCHANGED <<roles, write, req>>

-------------------------------------------------------------------------
\* What happens before time passes.
Urgent == Busy \/ (proc = "stop" /\ grace = 0 /\ Serves /\ "http" \notin ended)

\* Where the time of a stream elapses, and where it may run past the deadline (the
\* last thing it sends is not counted).
Timed == {"read", "block", "write"}
Overruns == {"block", "write"}

Elapsed(q) ==
  [q EXCEPT !.wait = IF q.at \in Waiting \cup {"block", "reply"} /\ @ > 0 THEN @ - 1 ELSE @,
            !.left = IF q.at \in Timed \cup {"lookup"} /\ @ > 0 THEN @ - 1 ELSE @,
            !.late = IF q.at \in Overruns /\ ~q.poll /\ q.left = 0 THEN Min({@ + 1, MaxLate}) ELSE @,
            !.queued = @ \/ q.at = "read"]

Tick ==
  /\ proc \in {"run", "stop"}
  /\ ~Urgent
  /\ req' = [r \in Request |-> Elapsed(req[r])]
  /\ grace' = IF proc = "stop" /\ grace > 0 THEN grace - 1 ELSE grace
  /\ UNCHANGED <<roles, proc, ended, failed, write>>

Progress(r) ==
  \/ GapChecked(r) \/ Reset(r) \/ PoolTimesOut(r) \/ Loop(r) \/ XRead(r)
  \/ Wake(r) \/ BlockEnds(r) \/ Lookup(r) \/ Expire(r) \/ ReplyCut(r)

Shutdown == WriterEnds \/ ServerEnds \/ GraceExpires \/ Exit

Next ==
  \/ Boot
  \/ \E r \in Request : \/ ArriveStream(r) \/ ArriveLookup(r) \/ ArriveSnapshot(r)
                        \/ Progress(r) \/ Written(r) \/ Leave(r)
  \/ WriteWanted \/ Write \/ WriteElsewhere
  \/ Signal \/ RoleFails \/ Shutdown \/ Crash \/ Restart
  \/ Tick

Spec == Init /\ [][Next]_vars

\* Handlers run, time passes, roles that are told to stop do, and the pool does
\* not pass over the writer for ever when it has a free connection again and
\* again.  Clients, signals, failures and crashes are under no obligation.
FairSpec ==
  /\ Spec
  /\ \A r \in Request : WF_vars(Progress(r))
  /\ WF_vars(Shutdown)
  /\ SF_vars(Write)
  /\ SF_vars(Tick)

-------------------------------------------------------------------------
(* Properties. *)

\* timeout is the "maximum total lifetime" of a stream request, "including time
\* blocked waiting for new events".  No read begins after it, and it is exceeded
\* in three ways only: by a request that had to wait for a connection, since the
\* block time is computed before that, by at most a keepalive interval; by one
\* that came to its read in its last millisecond, which becomes BLOCK 0, by at
\* most the client's ReadTimeout; and, without a bound, in a write to a client
\* that does not read.
OnTime ==
  \A r \in Request : req[r].late > 0 =>
    \/ req[r].at \in {"write", "loop"}
    \/ req[r].at = "block" /\ req[r].block = 0 /\ req[r].late <= ReadTimeout
    \/ req[r].at = "block" /\ req[r].queued /\ req[r].late <= KeepAlive

\* The streams cannot lock out the writer: when all connections wait in XREAD
\* for a change, the only one who could make a change gets a connection anyway.
WritesProceed == write ~> ~write

\* The shutdown timeout runs out, and the process ends with status 1, only
\* because of a read without a limit, or a client of the replicator that has not
\* read what it was sent; an API request has ended by then, whatever its client
\* does.
GraceSuffices ==
  [][GraceExpires => \E r \in Request : \/ req[r].at \in {"preamble", "write", "send"}
                                        \/ req[r].at = "block" /\ req[r].block = 0]_vars

\* A process that is told to stop exits; and only such a request keeps it from
\* doing so in time.
StopsCleanly == (proc = "stop" ~> proc \in {"exit0", "exit1"}) /\ GraceSuffices
=========================================================================
