------------------------------- MODULE Startup -------------------------------
(***************************************************************************)
(* The start of a container (Dockerfile: wait-for-db.mjs, migrate.mjs,     *)
(* seed.mjs, then the service), for several replicas that start, fail and  *)
(* start again at any time, of images that ship more or fewer migrations,  *)
(* while others already serve.                                             *)
(*                                                                         *)
(* migrate.mjs works through its files in one session under an advisory    *)
(* lock; each file runs in a transaction that also records its name.       *)
(* Locks and transactions end with their session.                          *)
(***************************************************************************)
EXTENDS Integers, Sequences

CONSTANTS
  Replicas,
  None,         \* no replica
  Files,        \* all migrations ever shipped, in the order of their names
  Shipped,      \* per replica, how many of them its image has
  SeedPremium,  \* the premium of data/policy.json
  Premiums,     \* premiums that endorsements may set
  NoPolicy,     \* the policies table has no sample policy
  MaxFailures   \* bound: failures and outages

\* File names are unique, and an image has what the images before it had.
ASSUME FilesAssumption ==
  /\ Files \in Seq(STRING)
  /\ \A i, j \in 1..Len(Files) : Files[i] = Files[j] => i = j
  /\ Shipped \in [Replicas -> 0..Len(Files)]
ASSUME ReplicasAssumption == None \notin Replicas
ASSUME BoundAssumption == MaxFailures \in Nat

VARIABLES stage,     \* per replica, how far its start has come
          position,  \* per replica, the file migrate.mjs is at
          lock,      \* who holds advisory lock 742013
          names,     \* the rows of schema_migrations
          schema,    \* the migrations in effect, in the order they took effect
          policy,    \* the premium of the sample policy
          endorsed,  \* the premium last set by an endorsement (history)
          up,        \* the database accepts connections
          failures   \* failures so far (bound)

vars == <<stage, position, lock, names, schema, policy, endorsed, up, failures>>

Migrating == {"checking", "applying"}
Connected == {"locking", "checking", "applying", "seeding"}
Stages    == Connected \cup {"exited", "waiting", "serving"}

Init == /\ stage = [r \in Replicas |-> "exited"]
        /\ position = [r \in Replicas |-> 1]
        /\ lock = None
        /\ names = {}
        /\ schema = << >>
        /\ policy = NoPolicy
        /\ endorsed = NoPolicy
        /\ up \in BOOLEAN
        /\ failures = 0

Go(r, from, to) == stage[r] = from /\ stage' = [stage EXCEPT ![r] = to]

\* The platform starts the container.
Start(r) ==
  /\ Go(r, "exited", "waiting")
  /\ UNCHANGED <<position, lock, names, schema, policy, endorsed, up, failures>>

\* wait-for-db.mjs.
DatabaseReady(r) ==
  /\ up
  /\ Go(r, "waiting", "locking")
  /\ UNCHANGED <<position, lock, names, schema, policy, endorsed, up, failures>>

\* Mutant: tries again for ever.
WaitWithoutTimeout(r) ==
  /\ ~ up
  /\ Go(r, "waiting", "waiting")
  /\ UNCHANGED <<position, lock, names, schema, policy, endorsed, up, failures>>

WaitTimesOut(r) ==
  /\ ~ up
  /\ Go(r, "waiting", "exited")
  /\ UNCHANGED <<position, lock, names, schema, policy, endorsed, up, failures>>
-----------------------------------------------------------------------------
\* migrate.mjs.

LockFree == lock = None

\* SELECT pg_advisory_lock.
AcquireLock(r) ==
  /\ LockFree
  /\ Go(r, "locking", "checking")
  /\ lock' = r
  /\ position' = [position EXCEPT ![r] = 1]
  /\ UNCHANGED <<names, schema, policy, endorsed, up, failures>>

\* Where replica r is, and whether that file was applied before.
HasNext(r)  == position[r] <= Shipped[r]
NextFile(r) == Files[position[r]]
Advance(r)  == position' = [position EXCEPT ![r] = @ + 1]

SkipFile(r) ==
  /\ HasNext(r)
  /\ NextFile(r) \in names
  /\ Go(r, "checking", "checking")
  /\ Advance(r)
  /\ UNCHANGED <<lock, names, schema, policy, endorsed, up, failures>>

\* BEGIN, and the SQL of the file.
RunFile(r) ==
  /\ HasNext(r)
  /\ NextFile(r) \notin names
  /\ Go(r, "checking", "applying")
  /\ UNCHANGED <<position, lock, names, schema, policy, endorsed, up, failures>>

Released(r) == IF lock = r THEN None ELSE lock

\* INSERT INTO schema_migrations, and COMMIT.  If its acknowledgement is lost
\* the script fails, although the file is in effect.
CommitFile(r) ==
  /\ stage[r] = "applying"
  /\ NextFile(r) \notin names   \* the primary key of schema_migrations
  /\ names' = names \cup {NextFile(r)}
  /\ schema' = Append(schema, NextFile(r))
  /\ \/ /\ Go(r, "applying", "checking")
        /\ Advance(r)
        /\ UNCHANGED <<lock, failures>>
     \/ /\ failures < MaxFailures
        /\ failures' = failures + 1
        /\ Go(r, "applying", "exited")
        /\ lock' = Released(r)
        /\ UNCHANGED position
  /\ UNCHANGED <<policy, endorsed, up>>

\* Mutant: the last file is left to somebody else.
FilesDoneEarly(r) ==
  /\ position[r] >= Shipped[r]
  /\ Go(r, "checking", "seeding")
  /\ lock' = Released(r)
  /\ UNCHANGED <<position, names, schema, policy, endorsed, up, failures>>

\* pg_advisory_unlock, and exit code 0.
FilesDone(r) ==
  /\ ~ HasNext(r)
  /\ Go(r, "checking", "seeding")
  /\ lock' = Released(r)
  /\ UNCHANGED <<position, names, schema, policy, endorsed, up, failures>>
-----------------------------------------------------------------------------
\* Mutant: ON CONFLICT (id) DO UPDATE.
SeededAgain == SeedPremium

\* ON CONFLICT (id) DO NOTHING.
Seeded == IF policy = NoPolicy THEN SeedPremium ELSE policy

\* seed.mjs, and then main.js.
Seed(r) ==
  /\ Go(r, "seeding", "serving")
  /\ policy' = Seeded
  /\ UNCHANGED <<position, lock, names, schema, endorsed, up, failures>>

\* A replica that serves endorses the sample policy.
Endorse(r) ==
  /\ stage[r] = "serving"
  /\ up
  /\ policy # NoPolicy
  /\ \E x \in Premiums \ {policy} : policy' = x /\ endorsed' = x
  /\ UNCHANGED <<stage, position, lock, names, schema, up, failures>>

\* Mutant: the SQL runs outside a transaction.
FailAutocommit(r) ==
  /\ stage[r] # "exited"
  /\ failures < MaxFailures
  /\ failures' = failures + 1
  /\ stage' = [stage EXCEPT ![r] = "exited"]
  /\ lock' = Released(r)
  /\ schema' = IF stage[r] = "applying" THEN Append(schema, NextFile(r)) ELSE schema
  /\ UNCHANGED <<position, names, policy, endorsed, up>>

\* A statement of a script fails (ROLLBACK, unlock, exit code 1, and && ends
\* the chain), or the process dies: the open transaction and the lock go.
Fail(r) ==
  /\ stage[r] # "exited"
  /\ failures < MaxFailures
  /\ failures' = failures + 1
  /\ stage' = [stage EXCEPT ![r] = "exited"]
  /\ lock' = Released(r)
  /\ UNCHANGED <<position, names, schema, policy, endorsed, up>>

\* The database goes away: every session ends, and the scripts fail with it; a
\* replica that serves connects again later.
Outage ==
  /\ up
  /\ failures < MaxFailures
  /\ failures' = failures + 1
  /\ up' = FALSE
  /\ stage' = [r \in Replicas |-> IF stage[r] \in Connected THEN "exited" ELSE stage[r]]
  /\ lock' = None
  /\ UNCHANGED <<position, names, schema, policy, endorsed>>

Recover ==
  /\ ~ up
  /\ up' = TRUE
  /\ UNCHANGED <<stage, position, lock, names, schema, policy, endorsed, failures>>

\* What the scripts do once they are started.
Script(r) == \/ DatabaseReady(r) \/ WaitTimesOut(r)
             \/ AcquireLock(r) \/ SkipFile(r) \/ RunFile(r)
             \/ CommitFile(r) \/ FilesDone(r) \/ Seed(r)

Next == \/ \E r \in Replicas : Start(r) \/ Script(r) \/ Endorse(r) \/ Fail(r)
        \/ Outage
        \/ Recover

Spec == Init /\ [][Next]_vars

\* A script that can take its next step takes it.  Nobody has to start a
\* container, and a database that is down need not come back.
FairSpec == Spec /\ \A r \in Replicas : WF_vars(Script(r))
-----------------------------------------------------------------------------
\* Types, and who holds the lock.
TypeOK ==
  /\ stage \in [Replicas -> Stages]
  /\ position \in [Replicas -> Nat \ {0}]
  /\ lock \in Replicas \cup {None}
  /\ names \subseteq {Files[i] : i \in 1..Len(Files)}
  /\ schema \in Seq(STRING)
  /\ policy \in Premiums \cup {SeedPremium, NoPolicy}
  /\ endorsed \in Premiums \cup {NoPolicy}
  /\ up \in BOOLEAN
  /\ failures \in 0..MaxFailures
  /\ \A r \in Replicas : lock = r <=> stage[r] \in Migrating

\* RUN.md:163: migrations "are applied in filename order and recorded": those
\* in effect are an initial part of the list, each once, and the record says
\* the same, whoever failed where.
AppliedOnceInOrder ==
  /\ Len(schema) <= Len(Files)
  /\ \A i \in 1..Len(schema) : schema[i] = Files[i]
  /\ names = {Files[i] : i \in 1..Len(schema)}

\* DEPLOYMENT.md:39: "migrations complete before traffic is accepted": a
\* replica that serves has all the migrations of its image, also when another
\* replica was meant to apply them and died.
ServesMigrated ==
  \A r \in Replicas : stage[r] \in {"seeding", "serving"} => Shipped[r] <= Len(schema)

\* RUN.md:165: what a runner read in schema_migrations is still so when it
\* records its file: no two apply the same one.
RunnersDoNotCollide ==
  \A r \in Replicas : stage[r] = "applying" => NextFile(r) \notin names

\* DEPLOYMENT.md:23: the sample policy is seeded "only when absent": the
\* restart of a replica never takes an endorsement back.
SeedKeepsEndorsements == endorsed # NoPolicy => policy = endorsed

\* A start comes to an end: the container serves or exits, although it waits
\* for a database that may not come and for a lock whose holder may die.
StartEnds ==
  \A r \in Replicas : stage[r] = "waiting" ~> stage[r] \in {"serving", "exited"}
=============================================================================
