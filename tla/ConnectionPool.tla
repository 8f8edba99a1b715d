---------------------------- MODULE ConnectionPool ----------------------------
(***************************************************************************)
(* The pool of src/common/database/database.service.ts: writes             *)
(* (withTransaction), reads (withReadTransaction) and the health probe     *)
(* (ping) share at most DB_POOL_MAX connections and wait for one in line,  *)
(* without a timeout.  A write that waits for the row of its policy keeps  *)
(* its connection.  Sessions outside the service may hold that row for any *)
(* length of time.                                                         *)
(*                                                                         *)
(* Connections are lost one at a time, or all at once with the database.   *)
(* What a loss does depends on who is listening for the client's 'error'   *)
(* event.  While it is idle, the pool is (pool.on('error')); while         *)
(* pool.query uses it, pool.query is; while a transaction uses it, nobody  *)
(* is, and an 'error' event without a listener ends the Node.js process.   *)
(*                                                                         *)
(* The pool itself (node-postgres) is modelled from how it is used.  Left  *)
(* out are peers that vanish without the connection being reported closed. *)
(***************************************************************************)
EXTENDS Integers, Sequences, FiniteSets

CONSTANTS
  Clients,    \* each has one request under way at most
  Kind,       \* per client, what it asks for: "write", "read" or "ping"
  PoolMax,    \* dbPoolMax
  None,       \* nobody
  Outsider,   \* a session that is not the service's
  MaxLosses   \* bound

ASSUME PoolMaxAssumption == PoolMax \in Nat \ {0}   \* parsePositiveInteger
ASSUME ClientsAssumption ==
  /\ None \notin Clients /\ Outsider \notin Clients /\ None # Outsider
  /\ Kind \in [Clients -> {"write", "read", "ping"}]
ASSUME BoundAssumption == MaxLosses \in Nat

VARIABLES running,  \* the process is alive
          stage,    \* per client, where its request is
          reply,    \* per client, what became of its last request
          line,     \* clients waiting for a connection, first come first
          holding,  \* clients that have a connection
          broken,   \* those of them whose connection is lost, not yet noticed
          idle,     \* open connections that nobody uses
          stale,    \* unused connections that are lost, not yet noticed
          row,      \* who has locked the row of the policy
          up,       \* the database accepts connections
          losses,   \* outages and lost connections so far (bound)
          affected  \* clients whose request met one (history)

vars == <<running, stage, reply, line, holding, broken, idle, stale, row, up,
          losses, affected>>

Stages  == {"away", "waiting", "granted", "locked"}
\* "failed" is an answer; "cut off" is a connection that ends without one.
Replies == {"none", "ok", "timeout", "failed", "cut off"}

Init == /\ running = TRUE
        /\ stage = [r \in Clients |-> "away"]
        /\ reply = [r \in Clients |-> "none"]
        /\ line = << >>
        /\ holding = {}
        /\ broken = {}
        /\ idle = 0
        /\ stale = 0
        /\ row = None
        /\ up = TRUE
        /\ losses = 0
        /\ affected = {}

Size     == Cardinality(holding) + idle + stale
UnderWay == {r \in Clients : stage[r] # "away"}
-----------------------------------------------------------------------------
\* pool.connect().

Answer(r, answer) ==
  /\ stage' = [stage EXCEPT ![r] = "away"]
  /\ reply' = [reply EXCEPT ![r] = answer]

Grant(r) ==
  /\ holding' = holding \cup {r}
  /\ stage' = [stage EXCEPT ![r] = "granted"]
  /\ reply' = [reply EXCEPT ![r] = "none"]

\* A new connection: it is the client's, or connect() throws.
Open(r) ==
  IF up THEN Grant(r)
        ELSE Answer(r, "failed") /\ UNCHANGED holding

\* A request comes in: it joins the line, or a connection is opened for it.
Arrive(r) ==
  /\ running
  /\ stage[r] = "away"
  /\ affected' = IF up /\ broken = {} THEN affected \ {r} ELSE affected \cup {r}
  /\ IF idle + stale > 0 \/ Size >= PoolMax
     THEN /\ line' = Append(line, r)
          /\ stage' = [stage EXCEPT ![r] = "waiting"]
          /\ reply' = [reply EXCEPT ![r] = "none"]
          /\ UNCHANGED holding
     ELSE Open(r) /\ UNCHANGED line
  /\ UNCHANGED <<running, broken, idle, stale, row, up, losses>>

\* The head of the line takes an idle connection.
TakeIdle(r) ==
  /\ idle > 0
  /\ idle' = idle - 1
  /\ Grant(r)
  /\ UNCHANGED <<broken, stale, affected>>

\* It takes one that is lost, which the pool has not been told yet.
TakeStale(r) ==
  /\ stale > 0
  /\ stale' = stale - 1
  /\ Grant(r)
  /\ broken' = broken \cup {r}
  /\ affected' = affected \cup UnderWay
  /\ UNCHANGED idle

\* It gets a new one, there being room and none idle.
TakeNew(r) ==
  /\ idle + stale = 0
  /\ Size < PoolMax
  /\ Open(r)
  /\ UNCHANGED <<broken, idle, stale, affected>>

\* The pool serves the head of the line.
Dispatch ==
  /\ line # << >>
  /\ line' = Tail(line)
  /\ TakeIdle(Head(line)) \/ TakeStale(Head(line)) \/ TakeNew(Head(line))
  /\ UNCHANGED <<running, row, up, losses>>
-----------------------------------------------------------------------------
\* What a request does with its connection.

\* Mutant: the transaction is left open when the connection is released.
ReleaseOpen(r) ==
  /\ holding' = holding \ {r}
  /\ idle' = idle + 1
  /\ UNCHANGED row

\* COMMIT or ROLLBACK, and client.release() in finally.
Release(r) ==
  /\ holding' = holding \ {r}
  /\ idle' = idle + 1
  /\ row' = IF row = r THEN None ELSE row

\* findPolicyForUpdate.
LockRow(r) ==
  /\ Kind[r] = "write"
  /\ stage[r] = "granted"
  /\ r \notin broken
  /\ row = None
  /\ row' = r
  /\ stage' = [stage EXCEPT ![r] = "locked"]
  /\ UNCHANGED <<running, reply, line, holding, broken, idle, stale, up, losses, affected>>

\* The work is done and committed (or refused, and rolled back).
Finish(r) ==
  /\ stage[r] = IF Kind[r] = "write" THEN "locked" ELSE "granted"
  /\ r \notin broken
  /\ Answer(r, "ok")
  /\ Release(r)
  /\ UNCHANGED <<running, line, broken, stale, up, losses, affected>>

\* Mutant: without SET LOCAL lock_timeout.
TimeOutNever(r) ==
  /\ FALSE
  /\ Answer(r, "timeout")
  /\ Release(r)
  /\ UNCHANGED <<running, line, broken, stale, up, losses, affected>>

\* SET LOCAL lock_timeout = '5s': the row was not to be had.
TimeOut(r) ==
  /\ Kind[r] = "write"
  /\ stage[r] = "granted"
  /\ r \notin broken
  /\ row # None
  /\ Answer(r, "timeout")
  /\ Release(r)
  /\ UNCHANGED <<running, line, broken, stale, up, losses, affected>>

\* pool.query listens while it uses the connection: the probe fails (503), and
\* the connection is dropped.
ProbeFails(r) ==
  /\ r \in broken
  /\ Kind[r] = "ping"
  /\ Answer(r, "failed")
  /\ holding' = holding \ {r}
  /\ broken' = broken \ {r}
  /\ UNCHANGED <<running, line, idle, stale, row, up, losses, affected>>

\* The process ends: the requests under way and in line end with it, and
\* PostgreSQL rolls their transactions back.
ProcessEnds ==
  /\ running' = FALSE
  /\ stage' = [r \in Clients |-> "away"]
  /\ reply' = [r \in Clients |-> IF r \in UnderWay THEN "cut off" ELSE reply[r]]
  /\ line' = << >>
  /\ holding' = {}
  /\ broken' = {}
  /\ idle' = 0
  /\ stale' = 0
  /\ row' = IF row \in Clients THEN None ELSE row
  /\ UNCHANGED <<up, losses, affected>>

\* withTransaction and withReadTransaction do not listen: before ROLLBACK or
\* release() the 'error' event has ended the process.
TransactionLost(r) ==
  /\ r \in broken
  /\ Kind[r] # "ping"
  /\ ProcessEnds

Serve(r) == LockRow(r) \/ Finish(r) \/ TimeOut(r) \/ ProbeFails(r) \/ TransactionLost(r)
-----------------------------------------------------------------------------
\* The surroundings.

\* Mutant: the pool's own 'error' event has no listener.
NoticeIdleUnheard == stale > 0 /\ ProcessEnds

\* pool.on('error'): an unused connection turns out to be lost and is dropped.
NoticeIdle ==
  /\ stale > 0
  /\ stale' = stale - 1
  /\ UNCHANGED <<running, stage, reply, line, holding, broken, idle, row, up, losses,
                 affected>>

\* The pool closes a connection that has been idle for a while.
CloseIdle ==
  /\ idle > 0
  /\ line = << >>
  /\ idle' = idle - 1
  /\ UNCHANGED <<running, stage, reply, line, holding, broken, stale, row, up, losses,
                 affected>>

\* Somebody else's transaction on the same row.
OutsiderLocks ==
  /\ up
  /\ row = None
  /\ row' = Outsider
  /\ UNCHANGED <<running, stage, reply, line, holding, broken, idle, stale, up, losses,
                 affected>>

OutsiderUnlocks ==
  /\ row = Outsider
  /\ row' = None
  /\ UNCHANGED <<running, stage, reply, line, holding, broken, idle, stale, up, losses,
                 affected>>

\* A connection that is idle, or that a request uses, is lost on its own.
LoseIdle ==
  /\ idle > 0
  /\ losses < MaxLosses
  /\ losses' = losses + 1
  /\ idle' = idle - 1
  /\ stale' = stale + 1
  /\ UNCHANGED <<running, stage, reply, line, holding, broken, row, up, affected>>

LoseUsed(r) ==
  /\ r \in holding \ broken
  /\ losses < MaxLosses
  /\ losses' = losses + 1
  /\ broken' = broken \cup {r}
  /\ row' = IF row = r THEN None ELSE row
  /\ affected' = affected \cup UnderWay
  /\ UNCHANGED <<running, stage, reply, line, holding, idle, stale, up>>

\* The database goes away, and every connection with it.
Outage ==
  /\ up
  /\ losses < MaxLosses
  /\ losses' = losses + 1
  /\ up' = FALSE
  /\ broken' = holding
  /\ idle' = 0
  /\ stale' = stale + idle
  /\ row' = None
  /\ affected' = affected \cup UnderWay
  /\ UNCHANGED <<running, stage, reply, line, holding>>

Recover ==
  /\ ~ up
  /\ up' = TRUE
  /\ UNCHANGED <<running, stage, reply, line, holding, broken, idle, stale, row, losses,
                 affected>>

\* Somebody starts the container again, whose command waits for the database.
Restart ==
  /\ ~ running
  /\ up
  /\ running' = TRUE
  /\ UNCHANGED <<stage, reply, line, holding, broken, idle, stale, row, up, losses,
                 affected>>

Next == \/ \E r \in Clients : Arrive(r) \/ Serve(r) \/ LoseUsed(r)
        \/ Dispatch
        \/ NoticeIdle
        \/ CloseIdle
        \/ OutsiderLocks
        \/ OutsiderUnlocks
        \/ LoseIdle
        \/ Outage
        \/ Recover
        \/ Restart

Spec == Init /\ [][Next]_vars

\* The pool dispatches, statements are carried out or time out, and a lost
\* connection in use is noticed; clients, outsiders, the database's recovery
\* and a restart cannot be counted on.
FairSpec == Spec /\ WF_vars(Dispatch) /\ \A r \in Clients : WF_vars(Serve(r))
-----------------------------------------------------------------------------
\* Types; the pool never exceeds its limit, whoever waits has a place in the
\* line, and a process that has ended keeps nothing.
TypeOK ==
  /\ running \in BOOLEAN
  /\ stage \in [Clients -> Stages]
  /\ reply \in [Clients -> Replies]
  /\ line \in Seq(Clients)
  /\ holding = {r \in Clients : stage[r] \in {"granted", "locked"}}
  /\ broken \subseteq holding
  /\ idle \in Nat
  /\ stale \in Nat
  /\ Size <= PoolMax
  /\ row \in Clients \cup {None, Outsider}
  /\ up \in BOOLEAN
  /\ losses \in 0..MaxLosses
  /\ \A r \in Clients : stage[r] = "waiting" <=> \E i \in 1..Len(line) : line[i] = r
  /\ ~ running => UnderWay = {} /\ idle = 0 /\ stale = 0

\* A request or probe fails, or is cut off by the end of the process, only if
\* while it was under way the database was away or a connection in use was lost.
\* The loss of connections that nobody uses harms nobody (pool.on('error')), nor
\* does a loss that was noticed before the request came.
FailuresHaveCause == \A r \in Clients : reply[r] \in {"failed", "cut off"} => r \in affected

\* Transactions that wait for the row fill the pool, but never by themselves
\* alone: unless somebody outside keeps the row, one of those with a
\* connection can go on at once, or finds its connection lost, whatever waits
\* in line behind them.
PoolNeverStarvesItself ==
  (line # << >> /\ idle = 0 /\ stale = 0 /\ Size >= PoolMax /\ row # Outsider) =>
     \E r \in holding : \/ r \in broken
                        \/ Kind[r] # "write"
                        \/ stage[r] = "locked"
                        \/ row = None

\* Nobody waits for ever: every request and every probe is answered, or cut off
\* because the process has ended, also with the pool exhausted by writes that
\* wait for a row somebody outside never gives back, and also if connections or
\* the database go away.  That the process ends only for a lost transaction is
\* FailuresHaveCause.
EveryRequestServed ==
  \A r \in Clients : stage[r] # "away" ~> stage[r] = "away"
=============================================================================
