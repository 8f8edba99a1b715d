# Verification of the policy ledger

TLA+ models of the BaseLabs policy ledger, the TLC configurations that check
them on small instances, and TLAPS proofs about them.  Paths below are relative
to the repository; `PROJECT.json` names, for every definition, the lines it
translates.

## 1. The system

A NestJS service keeps the books of insurance policies in PostgreSQL.  It
ingests two kinds of write, *endorsements* (a change of the annual premium from
an effective date on, billed pro rata) and *received-payment data* (nothing is
charged anywhere), and answers three kinds of read.  Each write adds one event
to a hash-chained history, a billing document or a payment, and a balanced
ledger transaction.

### Components

| Component | State | Operations | What makes it correct |
|---|---|---|---|
| Policy writes (`policies.service.ts`, `policies.repository.ts`) | rows of `policies`, `policy_events`, `billing_documents`, `payments`, `ledger_*`, `idempotency_records` | `applyEndorsement`, `recordPayment` | each accepted write takes effect once, as a whole; a repeated one gets the first answer; the rows of all tables tell one story |
| Pricing (`money.ts`, `date.ts`) | none | `calculateProration`, `roundFractionHalfAwayFromZero`, `normalizeDatabaseDate`, `validateEffectiveDate` | no drift, no favoured direction, half-open term |
| Idempotency key (`resolveIdempotencyKey`, the DTOs) | none | choose the key from header and body | a write runs under the key its client meant |
| Database service (`database.service.ts`) | the connection pool, open transactions | `withTransaction`, `withReadTransaction`, `ping` | commit or roll back, always release; nobody waits for ever; failures have a cause; a lost connection that nobody uses harms nobody |
| Schema (`migrations/*.sql`) | the tables, triggers, constraints | deferred ledger check, append-only triggers, unique keys, currency guard | last line of defence; must never be reached by the service's own writes |
| Exception filter (`api-exception.filter.ts`) | none | error to status | clients are told when repeating helps |
| Reads (`getPolicyState`, `getLedger`, `verifyHistory`, `history.ts`) | a REPEATABLE READ snapshot | three reports | a report is of one moment; the audit accepts honest histories and finds altered ones |
| Start-up (`migrate.mjs`, `seed.mjs`, `wait-for-db.mjs`) | `schema_migrations`, an advisory lock | apply each file once; seed | several replicas may start together, or die in between |
| Operator page (`frontend/app.ts`) | the policy on screen, forms | load, submit, verify | the screen shows the policy asked for last |
| Canonical JSON, hashes, ids | none | digests and random ids | equal requests have equal digests |
| HTTP plumbing, developer scripts | none | routing, request ids, demo | not part of the books |

### How they interact

A write enters through the controller, which asks `resolveIdempotencyKey` for
its key, and runs inside one `withTransaction`.  Inside it the service

1. claims `(scope, key)` with `INSERT ... ON CONFLICT DO NOTHING`; if the key is
   known it locks that record, compares request hashes and replays;
2. locks the policy row (`SELECT ... FOR UPDATE`) and checks the request;
3. for a payment, looks for the external id, and if it is known counts a replay
   on the *first* key's record and copies the first answer to its own;
4. otherwise reads the end of the event chain, inserts event, document or
   payment, ledger rows, and the premium;
5. computes the open balance, marks documents paid, completes its own record.

Requests share nothing in the process; everything they share is rows, and the
order in which they touch them is decided by row locks.

### What is hard

* **Interleaving.**  Everything read in 2-5 must stay true until COMMIT although
  the transactions are READ COMMITTED and any two of their statements may
  interleave; only row locks prevent that.
* **Lock order.**  Usually record, then policy.  A repeated external payment
  locks record, policy, *another record*: the opposite order for that pair.
* **Failure.**  A timeout (5 s for a lock, 15 s for a statement), a lost
  connection, a crash, at any statement; a COMMIT whose acknowledgement is lost.
  A connection lost inside a transaction ends the whole process: the pool listens
  for the driver's `error` event only on connections that nobody uses.
* **Repetition.**  Of the same request, at once or later; of a payment under
  another key; after a failure.
* **Histories.**  Documents are marked paid by the balance of the whole policy,
  so what is true of them depends on the whole sequence of charges, credits and
  payments; the debt is kept twice, by different code.
* **Numbers and dates.**  Ties, signs, boundaries of the term, the time zone of
  the process; BIGINT sums that become JavaScript numbers.
* **Limits.**  A pool of connections that waiting transactions keep, with a line
  in front of it that has no timeout.
* **Several replicas.**  They migrate and seed at once, of different images, and
  die in between.
* **A page that awaits.**  Loads and submissions overlap, and answers come late,
  out of order or never.

The list of hazards, each at its line and with the properties that would catch
it, is in `PROJECT.json` under `hazards`.

## 2. The modules

```
Proration --+-- EndorsementPricing ------- MCEndorsementPricing
            |                    `-- RequestProofs                  (TLAPS: also of
            |                                            MoneyRange, IdempotencyKey)
            |-- MoneyTheorems                                       (TLAPS: lemmas)
            |-- MoneyRange --------------- MCMoneyRange
            |
        Accounting --+-- PolicyHistory --- HistoryAudit -- MCHistoryAudit
                     |        |                HistoryAuditProofs   (TLAPS)
                     |    PolicyBook ----- SnapshotReads - MCSnapshotReads
                     |        |                SnapshotReadsProofs  (TLAPS: book, reports)
                     |        | Book == INSTANCE PolicyBook
                     |        |
                     +-- PolicyTransactions ------- MCPolicyTransactions
                             PolicyTransactionsProofs               (TLAPS)
IdempotencyKey
Startup ---------- MCStartup               StartupProofs            (TLAPS)
ConnectionPool --- MCConnectionPool        ConnectionPoolProofs     (TLAPS)
OperatorPage ----- MCOperatorPage          OperatorPageProofs       (TLAPS)
```

**Proration** has the pure functions of pricing as operators: the rounding rule,
the two day counts, the checks before and after, and the trip of a date through
the driver.  A date is an epoch day.  `LocalMidnight` is what node-postgres does
with a DATE column (only type 20, BIGINT, has a parser set in
`database.service.ts:5`), `NormalizeDatabaseDate` is `toISOString().slice(0, 10)`.
The parsing of date texts is left out.

**EndorsementPricing** is one policy under any sequence of requests to change
its premium; a step is one request, `Endorse` or `Refuse`.

**Accounting** has what an accepted request writes, row by row, as operators on
records: the event and its hash, the document or payment, the ledger entries,
the balance, the documents to mark paid, the stored answer, and the reasons of a
422.  A state machine writes these rows at once or one at a time.

**PolicyBook** is the abstract specification, what clients are promised.  Its
variables are the tables.  Each action is a whole successful write:
`ApplyEndorsement`, `RecordPayment`, `ReplayKey` (same key, same body) and
`ReplayExternal` (new key, known payment).  A refused request has no action: it
leaves no trace.

**PolicyTransactions** is the same service as PostgreSQL runs it.  The committed
tables are as in PolicyBook; in addition each request has a `stage` (the
statement it is about to execute), a `draft` (what its transaction has read and
written, invisible to others), and a `reply`; rows have lock holders.  There is
one action per statement that reads or locks what others may write:

| Action | Code |
|---|---|
| `ClaimNew`, `ClaimExisting` | `tryCreateIdempotency`; the INSERT waits for an uncommitted insert of the same key |
| `LoadRecord` | `findIdempotencyForUpdate` and the verdict of `claimIdempotency` |
| `CommitReplay` | `incrementIdempotencyReplay`, COMMIT |
| `PolicyMissing`, `LockPolicy` | `requirePolicyForUpdate`, and the checks up to the first insert |
| `ExternalNew`, `ExternalKnown` | `findPaymentByExternalId`, the verdict of `handleExistingExternalPayment` |
| `CountOriginal`, `CommitCopy` | `incrementIdempotencyReplay` on the first key, `completeIdempotency`, COMMIT |
| `AppendEvent` | `createPolicyEvent` and the inserts that follow |
| `Settle` | `calculateOpenBalance`, `markPositiveBillingDocumentsPaid`, `completeIdempotency` |
| `CommitEvent` | COMMIT with the constraints and the deferred trigger (`Backstop`) |
| `Abort` | any failure before COMMIT, then ROLLBACK |
| `Resend` | a client repeats a request that failed |

A COMMIT either is acknowledged or takes effect and is answered 500
(`Acknowledge`).  A statement that waits for a row is an action that is not
enabled.  That locks are released exactly at the end of a transaction is
PostgreSQL's behaviour and stated in `Released`.

**SnapshotReads** composes PolicyBook with the three reports.  A read begins
(`BeginRead`), takes its snapshot with its first query (`FindPolicy`), sends the
rest one after the other (`List`: `Promise.all` on one client), and ends with
COMMIT and its report (`AnswerRead`), or fails anywhere (`FailRead`).  Writes are
the steps of PolicyBook and commit in between.  Each query, `summarizeLedger`,
`verifyPolicyHistory`, the labels "processed once" and "duplicate ignored" and
the suggested action are operators.  `known` records what was on the books when
the question came in.

**PolicyHistory** is `verifyPolicyHistory`, **HistoryAudit** the hash chain of one
policy in the hands of somebody who writes to `policy_events` behind the
service's back: `InsertRow`, `UpdateRow`, `DeleteRow` and `DisableTriggers`, next
to `CreatePolicyEvent` and `VerifyHistory`.  Rows are made up from known digests or
with recomputed ones.  An auditor keeps the last valid report.

**MoneyRange** is about widths.  Numbers have `SafeBits` exact bits (53 in the
code) and BIGINT `BigintBits` (63).  `SqlSum` is exact, `Reduce` rounds after every
addition as JavaScript does, to the nearest and on ties to even (`ToNumber`).
The writes are `ApplyEndorsement` and `RecordPayment` with their validation,
assertions and limits; the listing order of the ledger is that of
`created_at` and of random ids.

**ConnectionPool** is the pool of `database.service.ts`: clients that write, read
or probe, the line in front of `pool.connect()`, a row that a writer waits for
with its connection in hand, `lock_timeout`, a session outside the service that
may keep the row, and connections that are lost one at a time (`LoseIdle`,
`LoseUsed`) or all with the database (`Outage`, `Recover`).  A loss is noticed some
time later, and what it then does depends on who listens for the `error` event of
the driver's client:

| The connection is | Listener | Action | Effect |
|---|---|---|---|
| idle | `pool.on('error')` (`database.service.ts:22`) | `NoticeIdle` | it is dropped |
| used by `ping` | `pool.query` itself | `ProbeFails` | the probe is answered 503, the connection dropped |
| used by a transaction | nobody (`withTransaction`, `withReadTransaction`; `main.ts` has no handler of last resort) | `TransactionLost` | Node.js ends the process, with all requests under way and in line |

A connection whose loss is not noticed yet may be handed out (`TakeStale`); from then
on it is one in use.  After `ProcessEnds` nothing arrives before a `Restart`.

**Startup** is the chain of scripts in the container's command: wait for the
database, migrate under an advisory lock (`AcquireLock`, `SkipFile`, `RunFile`,
`CommitFile`, `FilesDone`), seed, serve.  A script may fail, a COMMIT may be
acknowledged to nobody, the database may go away.  Replicas may be of images
with more or fewer files.

**OperatorPage** is `frontend/app.ts`: between two awaits the script is one step.
`LoadPolicy` and `Submit` begin a call, `Handle` is what the service does with it,
`Loaded`, `Submitted`, `SubmitFailed` what the script does with the answer.

**IdempotencyKey** is a request with a header and a body key, each absent,
blank, padded, malformed or well-formed, through the validation pipe and
`resolveIdempotencyKey`.

### Abstractions, and why they lose nothing the properties speak of

* A digest is the value it digests: collisions are excluded, and a request hash
  equals another exactly when the normalised requests are equal.  An event hash
  is the list of all payloads up to its event.
* Random ids are left out; the rows of one write are tied by the sequence
  number of their event.
* The reason of an endorsement, texts, and timestamps are left out, except
  `created_at` in MoneyRange, where it orders sums.
  `received_at` is part of a payment's data and is compared together with the
  amount: two payments with different data are represented by two amounts.
  Currency is a field of the request only; a payment that is recorded has the
  currency of its policy.
* The event row that `findLastPolicyEventForUpdate` locks is not a lock of its
  own: it is only taken by a holder of the policy row's lock.
* The inserts and updates that follow `AppendEvent` and `Settle` write rows
  that nobody else can see or is waiting for; they belong to these steps.  A
  failure between two of them is an `Abort` before or after.
* A violated unique key fails at its INSERT; `Backstop` raises it at COMMIT, with
  the deferred trigger.  The holder of the policy's lock would find the same at
  either moment (`ReadsStayCurrent`), and `BackstopsNeverFire` says it finds none.
* The database's errors are two answers: 503 (a lock or statement timeout) and
  500 (anything else).  A failed request is answered with either.  A client is
  assumed to repeat both.
* What a transaction does with its connection and what it does with its rows are
  two models: ConnectionPool has one policy row and no tables,
  PolicyTransactions has the tables and a connection for everybody.  A request
  that waits for a connection holds no row, so the line adds no circle to the
  waiting in PolicyTransactions.
* The end of the process, which ConnectionPool has as one step, is in
  PolicyTransactions and SnapshotReads the failure of each transaction under way
  (`Abort`, `FailRead`), or a lost acknowledgement of its COMMIT: on the tables these
  come to the same, and in any order.  The clients see a broken connection where
  the models say 500.
* A connection is lost when the process can come to know of it.  A peer that vanishes
  silently is noticed when the operating system gives up, and until then is
  neither in ConnectionPool nor in its fairness.
* SnapshotReads takes writes as single steps.  That is justified by the
  refinement: on the tables a transaction takes effect at once, at its COMMIT.
* A policy on the page is the number of writes it has had.

## 3. What is checked

| Run | Configuration | Question |
|---|---|---|
| `book_and_reads` | `MCSnapshotReads.cfg` | Do the tables tell one story under any sequence of writes and replays, and does every report tell it as of one moment? |
| `race` | `MCPolicyTransactions_race.cfg` | Three requests at once, with failures and repetitions: do the transactions implement the book, without deadlock, and are successes on record? |
| `answers` | `MCPolicyTransactions_live.cfg` | Is every request answered, and does repeating a failed one settle it? |
| `pricing` | `MCEndorsementPricing.cfg` | Is pricing exact up to half a cent each, symmetric, bounded, and the term half-open, under clocks at or behind UTC? |
| `pricing_east_of_utc` | `MCEndorsementPricing_east.cfg` | Is the end of the term exclusive under a clock ahead of UTC? *It is not.* |
| `key_sources` | `MCIdempotencyKey.cfg` | Is the key the client's own? |
| `blank_header` | `MCIdempotencyKey_blank.cfg` | Does a key in the body make the header optional? *Not a blank one.* |
| `audit` | `MCHistoryAudit.cfg` | What do the hash chain and the triggers show of rows changed behind the service's back? |
| `money` | `MCMoneyRange.cfg` | Are decisions exact, and books readable, when sums leave the safe range? |
| `pool` | `MCConnectionPool.cfg` | Does nobody wait for ever, and who fails for what, when connections run out or are lost, with or without the database? |
| `startup` | `MCStartup.cfg` | Do migrations take effect once and in order, whoever starts and dies when? |
| `page` | `MCOperatorPage.cfg` | What does the screen show after overlapping loads and submissions? |

The definitions marked `Mutant:` are plausible bugs, at least one for each
property of a passing run: with the definition that follows them replaced, TLC
finds that property violated.  They show that a property can fail, and are used
by no specification.

### The properties

*Pricing.*  `RoundingNeverDrifts` compares what was billed, however the premium
reached its value, with an exact reference that does not round.
`ReversalNetsToZero`: undoing a change on its own date gives the same cents
back.  `NeverMoreThanAnnual`; `TermEndIsExclusive`, against the term *in the
database*.

*The book.*  `ReceivableIsOpenBalance`: the ledger account PREMIUM_RECEIVABLE
and billed-less-paid agree, though two different functions keep them.
`OpenDocumentsCoverBalance`: nothing is open when nothing is owed, and what is
owed is covered.  `PremiumFollowsHistory`: one chain of premiums.
`EffectsTiedToKeys`, `ExternalPaymentOnce`: exactly once.
`NothingIsRewritten`: an action property over all tables.

*Reads.*  `ReportsAddUp`: the parts of a report, fetched by seven queries, are of
one moment.  `ReportsAreFresh`: and of none before the question, also on a
connection whose last read failed.  `ReportsFindNoFault`: the service's own books
are never called unbalanced or altered, and collection is suggested exactly when
a document is open.  `LabelsTruthful`: "duplicate ignored" is said of exactly
those events that some client was told of twice, although a payment repeated
under another key is counted elsewhere than the report looks.

*Transactions.*  `ImplementsPolicyBook` is the refinement: on the tables, every
behaviour is one of PolicyBook with the commit steps as its actions.  The
book's invariants carry over by it.  `ReadsStayCurrent` says why: what a
transaction read and computed is still what it would read at COMMIT.
`NoDeadlock` concerns locks; `RepliesAgree`, `SuccessIsDurable` what clients were
told; `BackstopsNeverFire` that the answers "in progress", "missing its completed
result" and the two database conflicts are unreachable.  `EveryRequestAnswered`
and `RetriesSettle` are the liveness properties.

*Audit.*  `KeptHeadBinds`: a head hash that an auditor kept binds all events
before it.  `OneChangeIsLocated`: a single change is found, and at the right
place, unless it concerns the newest event.  `FaultsStayFound`: writing on does
not cover a fault up.  `GuardsKeepWhatWasSeen`: what triggers alone protect, from UPDATE and DELETE.

*Money.*  `DecisionsAreExact`: settling documents and suggesting an action follow
the exact balance, although the reported one is rounded.  `BooksStayReadable`: no
legal sequence of writes makes a policy's balance query fail, and no assertion or
constraint meets an amount that validation has let through.
`LedgerFoundBalanced`: when the two totals, added up in different orders, agree.

*Pool.*  `FailuresHaveCause`: nobody fails, or is cut off by the end of the process,
unless the database was away, or a connection in use was lost, while he was served or
waited; the loss of unused connections harms nobody.  `PoolNeverStarvesItself`: when
waiting writes fill the pool, one of the holders can go on, or finds its connection
lost.  `EveryRequestServed`: nobody waits for ever; he is answered, or his HTTP
connection ends because the process did.

*Start-up.*  `AppliedOnceInOrder`, `ServesMigrated`, `SeedKeepsEndorsements`,
`StartEnds`.

*Page.*  `CurrentUnlessOverlapped`: the screen shows the policy asked for last
with every write acknowledged to it, if no other load was under way when the last
began (with overlapping loads the code does not promise it).  `AcknowledgedStays`: a failed reload does not take an acknowledgement
back.  `NothingHangs`: no button stays disabled, no "Loading" stays on the page.

The type invariants of PolicyTransactions, Startup and ConnectionPool are proved
(section 4) and in no run; other invariants of that kind are part of the inductive
invariants there.

### Bounds, and why they are enough

* *Pricing*: terms of six and seven days (so that halves, thirds and sevenths
  occur), annual premiums 0, 1 and 4 (zero, one cent and several cents apart),
  the first and last day, one between and the days outside; `MaxEndorsements`
  = 3 lets a change be made, undone and made again.
* *Book and reads*: each of two keys may carry an endorsement and a payment, so
  up to four writes are accepted: the premium goes up, and down for part of the
  term; one external id under two keys with the same and another amount, and a
  second external id.  This reaches credits, overpayment, partial payment and
  charges after each of them.  `ReplayCounts` = {0, 1} bounds `replay_count`, of
  which the reports only read whether it is zero.  One connection is enough: a
  read neither locks nor changes anything, and the next read on the same
  connection is what an unfinished one could harm.  The books of two policies
  never meet, so one active policy is enough.  Deadlock is not checked
  because the run ends when keys and replays are used up.
* *Race*: three requests, each with any of thirteen inputs: two keys, one
  policy, same and other bodies, one external id under two keys, and every
  reason of refusal; and `MaxFaults` = 2: a failure, and one more while the
  first is being repeated.  Three are one at a key, one at the policy and one at
  the other record, which the opposite lock order involves; larger circles are
  excluded by proof (`DeadlockFree`).  Requests are symmetric (the inputs are
  chosen in `Init`), and the properties of this run do not tell them apart.
  Deadlock is checked: when all requests are answered the system may rest
  (`Quiescent`), and before that some step must be possible.
* *Answers*: two requests, two failures, without symmetry (which is unsound for
  liveness).
* *Key*: every combination; the state space is complete.
* *Audit*: three events of the service and two edits.  Two are an edit and
  another that covers it up; three events are the edited one, its successor, and
  one written afterwards.  The run ends when both are used up.
* *Money*: two exact bits, BIGINT of three, amounts up to 3 and one beyond.  What
  matters is the ratio: a sum of two amounts is unsafe, one of three overflows, as
  with 53, 63 bits and 9e15 it takes two and 1025 of them; five writes reach both.
  Times 1 to 3 let transactions share `created_at` or not.
* *Pool*: two connections, two writers, a reader and a probe: waiting writers can
  fill the pool with somebody behind them.  `MaxLosses` = 2, each an outage or a single
  connection: one can be lost idle and handed out before it is noticed, and the
  process can end, be started again and meet the second.  Deadlock is checked: an
  ended process can be restarted once the database is back.
* *Start-up*: three replicas, one with two of the three files, and two failures:
  the holder of the lock can die with one behind it and one ahead.
* *Page*: one form and one load that no form awaits overlap; one write per policy
  and one reload.  A second form has its own button and result and shares with
  the first what a load shares with it.

### Fairness

* *Transactions.*  `ServerFairness` is weak fairness of each request's next
  statement.  It stands for Node.js carrying on with a transaction and PostgreSQL
  executing statements and granting the lock of a row that is free.  It is weak: a
  request that waits behind others is helped only because those end, and there
  are finitely many.  `ClientFairness` is weak fairness of `Resend`: the answer 503
  tells clients to "Retry with the same idempotency key."
  (`api-exception.filter.ts:70`).  Failures are never fair, and there are at most
  `MaxFaults`.  Nothing in the code bounds the number of failures; with endless
  ones no request would ever settle.  Nor does one when a failure ended the process
  and nobody starts it again: repeating presumes a service that can be reached.
* *Pool.*  Weak fairness of `Dispatch` (the pool hands a free connection to the
  head of the line) and of each request's `Serve` (a statement is carried out or
  times out, or the loss of the connection in use is reported).  Clients, the outside
  session, the recovery of the database and a restart are not fair: the outsider may
  keep the row for ever, and `docker-compose.yml` gives `api` no restart policy.
* *Start-up.*  Weak fairness of each replica's `Script`.  Nobody has to start a
  container, and the database need not come back.
* *Page.*  Weak fairness of `Handle` and `Deliver` of each call: a request is
  answered or its connection breaks (`fetch` has no timeout of its own, the
  server's queries have), and the browser runs the continuation.  The operator
  is not fair.

### Disagreements found

1. *A term seen from the east* (`pricing_east_of_utc`).
   `docs/ARCHITECTURE.md:82` makes the end of the term exclusive.  A DATE column
   becomes local midnight in the driver and `normalizeDatabaseDate`
   (`date.ts:32`) takes its UTC date.  With the process in a zone ahead of UTC both
   ends come out a day early: the last day is refused, the day before the term is
   accepted.  Where only summer time is ahead of UTC, the term changes its
   length, and with it the price.  The container runs on UTC, where the dates agree.
2. *A blank header hides the body* (`blank_header`).
   `policies.controller.ts:43` requires the header "unless idempotency_key is
   supplied in the JSON body".  `??` (`policies.service.ts:60`) falls back only
   from an absent header: a blank one leads to 400 "Missing idempotency key".

Observations that contradict no text, or none clearly:

* A write whose COMMIT succeeded may be answered 500, with the answer still on
  record under its key.  Payments, unlike endorsements, are taken for policies that
  are not active.
* The open balance may leave the safe-integer range and is then reported rounded;
  what is decided by it stays exact (`DecisionsAreExact`).  The ledger totals,
  added up as rounded numbers, may disagree beyond that range if two transactions
  share `created_at` (`LedgerFoundBalanced` says when they agree).
* Two loads under way at once may leave the slower answer on the screen under
  "Current state"; `CurrentUnlessOverlapped` is what holds.
* Removing or replacing the newest event passes the audit unless somebody kept the
  head.  `idempotency_key` and `created_at` of an event are not covered by its
  hash.  The triggers guard UPDATE and DELETE; INSERT and TRUNCATE they do not.
* Losing one connection inside a transaction, write or read, ends the process
  although the database is up and other requests are healthy; an outage does so
  whenever a transaction is open.  `docker-compose.yml` does not start it again.  The
  books are safe (PostgreSQL rolls back), the requests have to be repeated.
* The container's health check allows three seconds, a waiting write keeps its
  connection for up to five: with the pool full of them the probe waits behind.

## 4. What is proved

All proofs hold for every value of the constants that the named assumptions
admit.  `PROJECT.json` lists the theorems with the properties they state.

`Accounting` makes three assumptions, on which the proofs about the book, the
reports, the audit and the transactions rest: a request is an endorsement or a payment
(`InputsAssumption`); its day is a day, its premium zero cents or more, its payment one
cent or more (`AmountsAssumption`: `@IsInt` and `@Min` of the two DTOs, and the parsing
of the date); a policy has a term of two dates, the second later, and a premium of
zero cents or more (`ContractAssumption`: the CHECKs of `policies`).

**Sums and induction.**  The library's induction theorems take a predicate as a
parameter, which the provers cannot instantiate.  `MoneyTheorems` states induction
over a finite set for a *family of sets* instead (`SubsetInduction`, `LeastSubset`:
a family with a counterexample has one none of whose subsets is one), and proves by it
what the sum over the rows of a table is: `SumUnfolds`, `SumAdds` (a row is
inserted), `SumSplit` (rows are divided in two), `SumReindexed`, `SumMonotone`.  For
that the models add rows up with `SumFunction`.  `NaturalInduction` is the same for the
natural numbers: a set of them that has zero and every successor has all.

### Transactions

`PolicyTransactionsProofs` is in five parts, each of which builds on those before: locks (`TypeCorrect`, with it that no record is ever committed without
its answer, `LocksCorrect`, `DeadlockFree`), data (`ReadsCurrent`, and
`Implementation`, the refinement itself), answers (`Durable`, `Agreement`),
refusals (`BackstopsSleep`), and the book (`BooksAreKept`).

Besides those of `Accounting` they rest on two assumptions: `None` is no request
(`NoneAssumption`), and `MaxFaults` is a natural number (`FaultsAssumption`).

**The inductive invariant** is `IInv == Control /\ Rows /\ LocksFollowStages /\
Claims` (theorem `LockingInvariant`).  `LocksFollowStages` alone is not
inductive.  A transaction completes records at its COMMIT, so one has to know
that what it completes is well formed and its own: `Rows` says that committed
records are complete and that every committed payment has the record of its key;
`Control` that a draft names an original, an event or nothing according to the
stage; `Claims` that a request which claimed a new key still finds the key
absent in the committed table, and that the original of a repeated payment is a
committed record and so another than its own.

**The refinement** needs to know what the drafts hold, and adds `DataInv == IInv
/\ Tables /\ \A r : PolicyData(r) /\ RecordData(r)`.  `PolicyData` says that a
draft is what the request would compute from the committed tables of its policy
now, that the request would still not be refused, and that its external id is
still unknown; it is disturbed only by a COMMIT on the same policy, and
`PolicyIsExclusive` (from `LocksFollowStages`) says there is none by another
request.  `RecordData` says that an answer about to be replayed is the stored one
and belongs to the same request; it survives because no step changes hash or
response of a record that exists.  From these, `CommitEvent` is
`ApplyEndorsement` or `RecordPayment` of PolicyBook, `CommitReplay` is
`ReplayKey`, `CommitCopy` is `ReplayExternal`, and every other step changes no
table.  Sums stay uninterpreted: the argument only needs that equal rows have
equal sums.

**What clients were told** outlasts their transactions, so `AnswersInv` adds to
`DataInv` that every answer on file speaks of an event in the history
(`AnswersTrue`) and that every success told is on file.  A replay takes its
answer from a record on file, a copy from that of the payment, a new event makes
its own; a refusal or failure is no success.  Since a record stores the request
it belongs to and never changes it, two successes under one key agree.

**The deadlock argument** ranks requests by the lock they wait for.  A request
that waits for an uncommitted claim or a record waits for a holder at or past
its claim; one that waits for a policy waits for a holder at or past `external`;
one that waits to count a replay waits for a request at `replay` or
`copy`, and these wait for nothing: the record it waits for is committed and
complete, so nobody holds it who still needs a policy.  Along "waits for" the
rank grows strictly, so no finite or infinite set can wait for itself.  This is
why the opposite lock order of `handleExistingExternalPayment` is harmless.

**That the backstops sleep** (`CleanInv`) takes a fact from every part.  A request
finds no key in progress and no payment without its result, because committed records
are complete (`Rows`).  Its COMMIT breaks no unique key: the sequence number is
still the next, the external id still unknown and the record still absent
(`DataInv`), and with sequence numbers that count the events (`Tidy`) a new document
or payment is no double.  The deferred trigger finds the ledger balanced: an adjustment
that is not zero has one debit and one credit of the same whole number of cents
(`PricedIsWhole`, `SumPair`), which is where premiums and days must be integers.

**The books the transactions keep** (`BooksAreKept`): what is proved of PolicyBook in
`SnapshotReadsProofs` (next section) holds of the committed tables as well, after every
statement of every request.  The proofs are instantiated (`BookProofs`) with no reports
under way and any count of replays, and composed with `Implementation`.  All there is to
show is that the two instances of PolicyBook, the one the refinement names and the one
the proofs are about, are one specification (`SameBook`, `SameBookkeeping`).

### The book

`SnapshotReadsProofs`, first part: `ExactlyOnce` (`EffectsTiedToKeys`), `PaymentsOnce`
(`ExternalPaymentOnce`), `NeverRewritten` (`NothingIsRewritten`),
`TwoBalancesAgree` (`ReceivableIsOpenBalance`), `DebtIsOpen`
(`OpenDocumentsCoverBalance`), `PremiumsChain` (`PremiumFollowsHistory`).

For the first three the invariant ties the tables in both directions: each event has the
record of its key, with its own place and hash (`EventHasRecord`); each record has an
event with the data it was asked for (`AnswerHasEvent`); each payment row has both
(`PaymentHasRecord`), which a copied answer needs, since it is judged by the
payment and repeated from the record.

For the others `BooksSound` says of each policy what its rows are, given its events:
one document per endorsement, one payment row per payment, one balanced ledger
transaction per event, all finite and with whole amounts.  That the two balances agree
and that open documents cover the debt is then preserved by each new event.  The
second is the delicate one.  A credit document is never payable, so it lowers the
balance and leaves the open documents as they are; a charge after an overpayment
is payable in full although only part of it is owed; settling marks all documents or
none.  By `BooksAreKept` all of this holds of the transactions as well.

### Reports

`SnapshotReadsProofs`, second part: `FreshReports`, `FaultlessReports`,
`ReportsAreWhole`, `TruthfulLabels`, from `ReadsAssumption` (there are three
kinds of report, as there are three endpoints) in addition, for any number of
connections.  `ReadsInv` is about the life of a read.  Before its first query
(`Awaiting`) the books have at least what was known when it came in, for they only
grow (`EventsKept`, `AnswersKept`).  From then on (`Reading`) it has a view that was
the books at one moment, not before the question (`TrueView`), and each result is that
of a query on this view, whatever has been committed since.  What the books are at a
moment (`ViewSound`) is `BooksSound` of the first part: from it the ledger of
the report balances, its hashes verify, and its parts add up.  For `TruthfulLabels`
the books also have to know that an answer copied to another key has been counted on the
first (`CopiesCounted`).

### Audit

`HistoryAuditProofs`: `HeadBinds` (`KeptHeadBinds`), `SeenStays`
(`GuardsKeepWhatWasSeen`), `ChangeIsLocated` (`OneChangeIsLocated`), `FaultsStay`
(`FaultsStayFound`), for any payloads and any number of events and edits, with no
assumption of their own.  The first lemmas are about listing a table by its sequence
numbers: every rank is taken (`EachRankIsTaken`, by counting), rows numbered from 1 on are
listed at their number (`ListedAtTheirNumber`), and a row behind all others is listed
last (`ListingGrows`).  `ChainIsPayloads` unrolls the chain: the hash of a row that is
sound with all before it is the list of their payloads.

None of the properties is inductive.  `AuditInv` adds that the head an auditor
keeps is the hash of what he saw (`KeptInv`), that rows he saw stay on the table while the
triggers are in force (`GuardInv`), and where one edit leaves its trace (`Located`): all
rows before it are sound, and unless it concerned the newest event the row at its place is
at fault, or that row is sound and the next one is.  The last case is a row replaced
by one with the right link and digest, and another payload (`ReplacedIsFound`).

### Requests: pricing, widths and keys

`RequestProofs` is about what one request comes to, in three parts.

**Pricing**: `PriceIsFair` (within half a cent of exact, not above
the annual change nor against its sign, all of it for a whole term),
`ReversalsNet`, `BilledFairly`, `TermEndExclusive`, `NoDrift`
(`RoundingNeverDrifts`).  They rest on `TermsAssumption` (a term has two dates, the second later: the CHECK of
`001_core_schema.sql`), `ZonesAssumption` and `RequestsAssumption` (dates and cents
are integers).  `BilledFairly` and `TermEndExclusive` have the hypothesis
`NotAheadOfUTC`, which the run `pricing_east_of_utc` shows to be needed.  `NoDrift` has
the weaker `OneSideOfUTC`: a clock that is ahead of UTC at both ends of the term, or
at neither, moves the term but keeps its length.  The invariant says that each
adjustment on record is the price of its change for the term as the service sees
it; the rest is the arithmetic of quotient and remainder, and for `NoDrift` a sum that
grows by one term.

**Keys**: `KeyIsMeant` (`KeyIsTheClients`), for any set of keys, from
`ClassesAssumption` (no text is of two classes).

**Widths**: `BooksCanBeRead` (`BooksStayReadable`), `DecisionsByExactBalance`
(`DecisionsAreExact`), `LedgerBalances` (`LedgerFoundBalanced`), for numbers and BIGINTs of
any widths and for any number of requests of any amounts.  They rest on
`WidthsAssumption` (the limit on one amount is a safe integer, and BIGINT is wider than
that) and the `AmountsAssumption` of MoneyRange (`@IsInt`, clocks that can be compared, a
term of at least a day).  `MaxWrites` is not used.

* The provers know `2^n` for numerals only.  The library knows how many subsets a finite
  set has, so powers are taken as such numbers (`PowerIsSubsets`); with one element more
  there are twice as many (`PowerDoubles`), and by `NaturalInduction` powers grow
  (`PowersGrow`).
* `ToNumberSound`: as far as numbers reach, rounding to the nearest representable number
  is defined (`BitsOf`), keeps the sign, and keeps a safe integer.  The spacing of the
  numbers around `n` is at most `n` itself, so nothing but zero is rounded to
  zero.  A balance that fits into a BIGINT is within reach, and `BooksCanBeRead` says that
  balances fit.  That is `RangeInv`: the premium in force is within the limit, so no change
  of it is prorated beyond the limit (`PriceIsFair` again), and the sums, which nothing limits
  but the failure of the balance query, fit when the query was answered.
* `Reduce` rounds after each addition.  While the exact total is safe every partial total
  is, since no amount is negative, and rounding changes none (`ReduceIsExact`): the order does
  not matter (`SumReindexed`).  Beyond that, two listings by `created_at` that part have, where
  they first do, each a transaction the other lists later (`OrdersPart`), so these two share
  `created_at`; if none do, there is one listing (`OneOrder`).

### Start-up

`StartupProofs`: `MigrationsInOrder` (`AppliedOnceInOrder`),
`NoTrafficBeforeMigrations` (`ServesMigrated`), `OneRunnerPerFile`,
`EndorsementsSurvive` (`SeedKeepsEndorsements`), from
`FilesAssumption` (file names are unique, an image has an initial part of them),
`ReplicasAssumption` and `BoundAssumption`.  The invariant adds where each replica
is: whoever migrates has the lock, every file before its position is in effect,
and the file it applies is the one after the last in effect.

### Pool

`ConnectionPoolProofs`: `FailuresAreTrue` (`FailuresHaveCause`), `PoolGoesOn`
(`PoolNeverStarvesItself`), `TypeCorrect` (`TypeOK`), from `PoolMaxAssumption`,
`ClientsAssumption` and `BoundAssumption`.  The invariant says who is in the line
(`LineWaits`), who holds a connection and the row (`HoldersFollowStages`), and that
while the database is away, or a loss in use is not noticed, everybody under way has
met it (`LossesAreKnown`): these are the ones a step may fail or cut off.  `TypeCorrect`
adds that connections are counted within the limit (`Limits`), that nobody who waits
is missing from the line (`WaitersInLine`), and that a process that has ended keeps
nothing (`Ended`).

### Operator page

`OperatorPageProofs`: `ShownIsCurrent` (`CurrentUnlessOverlapped`), `NewsStays`
(`AcknowledgedStays`), from `TasksAssumption`, for any policies, forms and loads.
Neither property is inductive.  The invariant adds what the answers under way may
hold: a success is of a write the service has taken, and nothing more is
acknowledged than was taken (`AnswersAreKnown`).  A form's result and its button
follow its call (`ResultsFollowTasks`, `ButtonsFollowTasks`: the button is what
keeps a form from overwriting its own load).  `LastLoadCounts` is the heart of it:
unless the last load began while another was under way, it is the only one, it is
for the policy asked for last, and what it finds holds every acknowledged write,
because an acknowledgement in the meantime would begin a new load.

### Model-checked only

* *Liveness and ENABLED*, which the prover does not have: `EveryRequestAnswered`,
  `RetriesSettle`, `EveryRequestServed`, `StartEnds`, `NothingHangs`.

Every invariant and action property of a passing run is stated by a theorem.

## 5. What is not modelled, and the plan

Not modelled: wording, logging, request ids, OpenAPI, the text of canonical JSON,
SHA-256, the parsing of calendar dates and timestamps, the validation of fields
other than keys and amounts, the order of the timeline (it is sorted by
timestamps of several clocks, and no text promises how it relates to the sequence
of events), closing the pool at exit, the currency trigger of `migrations/` (a
policy has one currency, and `recordPayment` compares it first), the
demonstration and checking scripts (`demo.mjs`, `verify-project.mjs`), which are
developer tooling outside the service.

Left in the plan:

* A composition of ConnectionPool with several policies, if the pool comes to be
  used differently.
* The order of the timeline, once a text promises one.

## 6. Running

```
tlc -workers 2 -config MCPolicyTransactions_race.cfg MCPolicyTransactions
tlapm PolicyTransactionsProofs.tla
```

and likewise for the other configurations and proof modules.  Every passing run
takes between a few seconds and about two minutes; the proofs take a few minutes.
