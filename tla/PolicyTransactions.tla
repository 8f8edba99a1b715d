-------------------------- MODULE PolicyTransactions --------------------------
(***************************************************************************)
(* applyEndorsement and recordPayment as PostgreSQL runs them: requests    *)
(* side by side, each in a READ COMMITTED transaction of its own, one step *)
(* per statement that reads or locks what another request may write.       *)
(*                                                                         *)
(* What a transaction writes is private to it (its draft) until COMMIT;    *)
(* what it locks (a row of policies, a row of idempotency_records, or a    *)
(* row of the latter that it inserted and has not committed) others wait   *)
(* for.  A statement that waits is a step that is not enabled.  A          *)
(* transaction that fails is rolled back as a whole.                       *)
(*                                                                         *)
(* The stages of a request:                                                *)
(*   claim    INSERT INTO idempotency_records ... ON CONFLICT DO NOTHING   *)
(*   load     SELECT the existing record FOR UPDATE                        *)
(*   replay   COMMIT of a replay                                           *)
(*   lock     SELECT the policy FOR UPDATE                                 *)
(*   external SELECT the payment with the external id                      *)
(*   original UPDATE the record of that payment                            *)
(*   copy     COMMIT of a replay under another key                         *)
(*   append   SELECT the last event FOR UPDATE; INSERT event and rows      *)
(*   settle   SELECT the open balance; UPDATE documents and own record     *)
(*   commit   COMMIT of a new event                                        *)
(*   done     answered                                                     *)
(***************************************************************************)
EXTENDS Accounting

CONSTANTS Requests,   \* requests the service receives
          MaxFaults,  \* bound: failures of the database or of the connection
          None        \* no request, no row, no answer

ASSUME NoneAssumption == None \notin Requests
ASSUME FaultsAssumption == MaxFaults \in Nat

VARIABLES premium, events, documents, payments, ledger, records,  \* committed
          policyLock,  \* who holds the lock on a policy row
          slotLock,    \* who holds, or inserted and has not committed, a record
          input,       \* the request as received
          stage,       \* how far its transaction has come
          draft,       \* what its transaction has read and written
          reply,       \* its answer
          faults       \* failures so far

books == <<premium, events, documents, payments, ledger, records>>
vars == <<premium, events, documents, payments, ledger, records,
          policyLock, slotLock, input, stage, draft, reply, faults>>

\* The abstract specification this module implements.
Book == INSTANCE PolicyBook WITH ReplayCounts <- Nat

NoRecord == Book!NoRecord

NoDraft == [data |-> None,      \* data of the event, priced under the lock
            event |-> None,     \* the event inserted
            paid |-> {},        \* documents updated to paid
            response |-> None,  \* the answer stored with the key
            original |-> None]  \* the record whose replay is counted

Stages == {"claim", "load", "replay", "lock", "external", "original", "copy",
           "append", "settle", "commit", "done"}

Init == /\ Book!Init
        /\ policyLock = [p \in Policies |-> None]
        /\ slotLock = [s \in Slots |-> None]
        /\ input \in [Requests -> Inputs]
        /\ stage = [r \in Requests |-> "claim"]
        /\ draft = [r \in Requests |-> NoDraft]
        /\ reply = [r \in Requests |-> None]
        /\ faults = 0

Slot(r)   == SlotOf(input[r])
Policy(r) == input[r].body.policy

\* Mutant: the policy is read without FOR UPDATE.
PolicyUnlocked(p) == p \in Policies

\* What SELECT ... FOR UPDATE, UPDATE and a conflicting INSERT wait for.
PolicyFree(p) == policyLock[p] = None
SlotFree(s)   == slotLock[s] = None

-----------------------------------------------------------------------------
\* Answers, and the ways a transaction ends.

Refused(status, error) ==
  [status |-> status, error |-> error, replayed |-> FALSE, response |-> None]

Answered(response, replayed) ==
  [status |-> 201, error |-> "none", replayed |-> replayed, response |-> response]

\* The answer to a request whose transaction or connection broke down.
Failures == {Refused(503, "Database temporarily unavailable"),
             Refused(500, "Internal server error")}

Released(lock, r) == [x \in DOMAIN lock |-> IF lock[x] = r THEN None ELSE lock[x]]

\* COMMIT or ROLLBACK: the locks go, the draft goes, the client is answered.
Finish(r, answer) ==
  /\ stage' = [stage EXCEPT ![r] = "done"]
  /\ draft' = [draft EXCEPT ![r] = NoDraft]
  /\ reply' = [reply EXCEPT ![r] = answer]
  /\ policyLock' = Released(policyLock, r)
  /\ slotLock' = Released(slotLock, r)
  /\ UNCHANGED input

Rollback(r, answer) == Finish(r, answer) /\ UNCHANGED <<books, faults>>

\* A COMMIT that took effect: acknowledged, or the acknowledgement is lost.
Acknowledge(r, answer) ==
  \/ /\ Finish(r, answer)
     /\ UNCHANGED faults
  \/ /\ faults < MaxFaults
     /\ faults' = faults + 1
     /\ Finish(r, Refused(500, "Internal server error"))

\* The transaction goes on to its next statement.
Proceed(r, next, newDraft) ==
  /\ stage' = [stage EXCEPT ![r] = next]
  /\ draft' = [draft EXCEPT ![r] = newDraft]
  /\ UNCHANGED <<books, input, reply, faults>>

-----------------------------------------------------------------------------
\* claimIdempotency: the INSERT.  It waits while another transaction has
\* inserted the same key and not ended.

ClaimNew(r) ==
  /\ stage[r] = "claim"
  /\ records[Slot(r)] = NoRecord
  /\ SlotFree(Slot(r))
  /\ slotLock' = [slotLock EXCEPT ![Slot(r)] = r]
  /\ Proceed(r, "lock", NoDraft)
  /\ UNCHANGED policyLock

ClaimExisting(r) ==
  /\ stage[r] = "claim"
  /\ records[Slot(r)] # NoRecord
  /\ Proceed(r, "load", NoDraft)
  /\ UNCHANGED <<policyLock, slotLock>>

\* Mutant: the request hash is not compared.
ClaimVerdictUnhashed(record, hash) ==
  IF record.status # "completed" THEN "Idempotency request in progress" ELSE "replay"

\* claimIdempotency: the existing record, locked and compared.  The verdict of
\* the service on it, in the order of its checks.
ClaimVerdict(record, hash) ==
  IF record.hash # hash THEN "Idempotency conflict"
  ELSE IF record.status # "completed" THEN "Idempotency request in progress"
  ELSE "replay"

\* Mutant: a replay goes on to lock the policy, its record in hand.
LoadRecordAndGoOn(r) ==
  /\ stage[r] = "load"
  /\ SlotFree(Slot(r))
  /\ slotLock' = [slotLock EXCEPT ![Slot(r)] = r]
  /\ Proceed(r, "lock", NoDraft)
  /\ UNCHANGED policyLock

LoadRecord(r) ==
  LET verdict == ClaimVerdict(records[Slot(r)], RequestHash(input[r]))
  IN  /\ stage[r] = "load"
      /\ SlotFree(Slot(r))
      /\ IF verdict = "replay"
         THEN /\ slotLock' = [slotLock EXCEPT ![Slot(r)] = r]
              /\ Proceed(r, "replay",
                         [NoDraft EXCEPT !.response = records[Slot(r)].response])
              /\ UNCHANGED policyLock
         ELSE Rollback(r, Refused(409, verdict))

CommitReplay(r) ==
  /\ stage[r] = "replay"
  /\ records' = [records EXCEPT ![Slot(r)] = Replayed(@)]
  /\ Acknowledge(r, Answered(draft[r].response, TRUE))
  /\ UNCHANGED <<premium, events, documents, payments, ledger>>

-----------------------------------------------------------------------------
\* requirePolicyForUpdate and the checks on the row it returns.

PolicyMissing(r) ==
  /\ stage[r] = "lock"
  /\ Policy(r) \notin Policies
  /\ Rollback(r, Refused(404, "Policy not found"))

LockPolicy(r) ==
  LET p       == Policy(r)
      body    == input[r].body
      refusal == Refusal(p, premium[p], body)
  IN  /\ stage[r] = "lock"
      /\ p \in Policies
      /\ PolicyFree(p)
      /\ IF refusal # "none"
         THEN Rollback(r, Refused(422, refusal))
         ELSE /\ policyLock' = [policyLock EXCEPT ![p] = r]
              /\ Proceed(r, IF IsEndorsement(body) THEN "append" ELSE "external",
                         [NoDraft EXCEPT !.data = EventData(p, premium[p], body)])
              /\ UNCHANGED slotLock

-----------------------------------------------------------------------------
\* findPaymentByExternalId and handleExistingExternalPayment.

Known(r) == {y \in payments[Policy(r)] : y.external = input[r].body.external}

ExternalNew(r) ==
  /\ stage[r] = "external"
  /\ Known(r) = {}
  /\ Proceed(r, "append", draft[r])
  /\ UNCHANGED <<policyLock, slotLock>>

\* The verdict on a request whose external id belongs to a known payment.
ExternalVerdict(r, payment) ==
  LET original == records[PaymentSlot(Policy(r), payment.key)]
  IN  IF payment.amount # input[r].body.amount THEN "External payment conflict"
      ELSE IF original.status # "completed" THEN "missing its completed idempotency result"
      ELSE "replay"

ExternalKnown(r) ==
  /\ stage[r] = "external"
  /\ \E y \in Known(r) :
       LET verdict  == ExternalVerdict(r, y)
           original == PaymentSlot(Policy(r), y.key)
       IN  IF verdict = "replay"
           THEN /\ Proceed(r, "original",
                           [draft[r] EXCEPT !.original = original,
                                            !.response = records[original].response])
                /\ UNCHANGED <<policyLock, slotLock>>
           ELSE Rollback(r, Refused(IF verdict = "External payment conflict"
                                    THEN 409 ELSE 500, verdict))

\* The replay is counted on the first key, and the own record completed.
CountOriginal(r) ==
  /\ stage[r] = "original"
  /\ SlotFree(draft[r].original)
  /\ slotLock' = [slotLock EXCEPT ![draft[r].original] = r]
  /\ Proceed(r, "copy", draft[r])
  /\ UNCHANGED policyLock

CommitCopy(r) ==
  /\ stage[r] = "copy"
  /\ records' = [records EXCEPT
       ![draft[r].original] = Replayed(@),
       ![Slot(r)] = CompletedRecord(RequestHash(input[r]), draft[r].response)]
  /\ Acknowledge(r, Answered(draft[r].response, TRUE))
  /\ UNCHANGED <<premium, events, documents, payments, ledger>>

-----------------------------------------------------------------------------
\* The new event and the rows that come with it.

\* createPolicyEvent reads the end of the chain and inserts its successor;
\* the document or payment and the ledger transaction are inserted, and the
\* premium updated, right after it.
AppendEvent(r) ==
  /\ stage[r] = "append"
  /\ Proceed(r, "settle",
             [draft[r] EXCEPT !.event = NextEvent(events[Policy(r)], draft[r].data,
                                                  input[r].key)])
  /\ UNCHANGED <<policyLock, slotLock>>

\* The documents and payments of the policy as the transaction sees them: the
\* committed ones and its own.
SeenDocuments(r) == documents[Policy(r)] \cup NewDocuments(draft[r].event)
SeenPayments(r)  == payments[Policy(r)] \cup NewPayments(draft[r].event)

Settle(r) ==
  LET balance == OpenBalance(SeenDocuments(r), SeenPayments(r))
  IN  /\ stage[r] = "settle"
      /\ Proceed(r, "commit",
                 [draft[r] EXCEPT !.paid = ToSettle(SeenDocuments(r), balance),
                                  !.response = Response(draft[r].event, balance)])
      /\ UNCHANGED <<policyLock, slotLock>>

\* What the database itself refuses: a second row for a sequence number or an
\* external id, or a ledger transaction out of balance.
Backstop(r) ==
  LET event == draft[r].event
  IN  IF \/ \E i \in DOMAIN events[Policy(r)] : events[Policy(r)][i].seq = event.seq
         \/ event.payload.kind = "payment" /\ Known(r) # {}
      THEN "Database conflict"
      ELSE IF ~ LedgerTransactionBalanced(LedgerTransaction(event))
      THEN "Database constraint violation"
      ELSE "none"

PremiumAfter(r) ==
  IF IsEndorsement(input[r].body)
  THEN [premium EXCEPT ![Policy(r)] = input[r].body.premium]
  ELSE premium

\* The draft becomes the committed state.
Publish(r) ==
  LET p     == Policy(r)
      event == draft[r].event
  IN  /\ events' = [events EXCEPT ![p] = Append(@, event)]
      /\ documents' = [documents EXCEPT ![p] = MarkPaid(SeenDocuments(r), draft[r].paid)]
      /\ payments' = [payments EXCEPT ![p] = SeenPayments(r)]
      /\ ledger' = [ledger EXCEPT ![p] = @ \cup {LedgerTransaction(event)}]
      /\ premium' = PremiumAfter(r)
      /\ records' = [records EXCEPT ![Slot(r)] =
                       CompletedRecord(RequestHash(input[r]), draft[r].response)]

\* Mutant: the client is told of success although COMMIT failed.
CommitEventUnchecked(r) ==
  /\ stage[r] = "commit"
  /\ \/ /\ Publish(r)
        /\ Acknowledge(r, Answered(draft[r].response, FALSE))
     \/ /\ faults < MaxFaults
        /\ faults' = faults + 1
        /\ Finish(r, Answered(draft[r].response, FALSE))
        /\ UNCHANGED books

CommitEvent(r) ==
  /\ stage[r] = "commit"
  /\ IF Backstop(r) = "none"
     THEN /\ Publish(r)
          /\ Acknowledge(r, Answered(draft[r].response, FALSE))
     ELSE Rollback(r, Refused(IF Backstop(r) = "Database conflict"
                              THEN 409 ELSE 422, Backstop(r)))

-----------------------------------------------------------------------------
\* Mutant: no ROLLBACK, the locks of the transaction stay.
AbortWithoutRollback(r) ==
  /\ stage[r] # "done"
  /\ faults < MaxFaults
  /\ faults' = faults + 1
  /\ stage' = [stage EXCEPT ![r] = "done"]
  /\ draft' = [draft EXCEPT ![r] = NoDraft]
  /\ reply' = [reply EXCEPT ![r] = Refused(503, "Database temporarily unavailable")]
  /\ UNCHANGED <<books, policyLock, slotLock, input>>

\* Mutant: the claim on the key is committed before the rest.
AbortKeepsClaim(r) ==
  /\ stage[r] # "done"
  /\ faults < MaxFaults
  /\ faults' = faults + 1
  /\ \E failure \in Failures : Finish(r, failure)
  /\ records' = IF stage[r] \in {"lock", "external", "append", "settle", "commit"}
                THEN [records EXCEPT ![Slot(r)] =
                        [hash |-> RequestHash(input[r]), status |-> "processing",
                         response |-> None, replays |-> 0]]
                ELSE records
  /\ UNCHANGED <<premium, events, documents, payments, ledger>>

\* A statement or a wait for a lock times out, the connection breaks, or the
\* process dies before COMMIT: the database rolls the transaction back.
Abort(r) ==
  /\ stage[r] # "done"
  /\ faults < MaxFaults
  /\ faults' = faults + 1
  /\ \E failure \in Failures : Finish(r, failure)
  /\ UNCHANGED books

\* A client that was told of a failure sends the same request again.
Resend(r) ==
  /\ stage[r] = "done"
  /\ reply[r] \in Failures
  /\ stage' = [stage EXCEPT ![r] = "claim"]
  /\ reply' = [reply EXCEPT ![r] = None]
  /\ UNCHANGED <<books, policyLock, slotLock, input, draft, faults>>

\* Statements of the transaction of a request.
Step(r) == \/ ClaimNew(r)    \/ ClaimExisting(r) \/ LoadRecord(r)
           \/ CommitReplay(r)
           \/ PolicyMissing(r) \/ LockPolicy(r)
           \/ ExternalNew(r) \/ ExternalKnown(r)
           \/ CountOriginal(r) \/ CommitCopy(r)
           \/ AppendEvent(r) \/ Settle(r)        \/ CommitEvent(r)

\* All is answered: nothing need happen any more.
Quiescent == (\A r \in Requests : stage[r] = "done") /\ UNCHANGED vars

Next == \/ \E r \in Requests : Step(r) \/ Abort(r) \/ Resend(r)
        \/ Quiescent

Spec == Init /\ [][Next]_vars

\* The server works on every transaction until it ends, and the lock of a row
\* is granted when it is free.
ServerFairness == \A r \in Requests : WF_vars(Step(r))

\* Clients follow the advice of the 503 answer: "Retry with the same
\* idempotency key."
ClientFairness == \A r \in Requests : WF_vars(Resend(r))

FairSpec == Spec /\ ServerFairness
RetrySpec == Spec /\ ServerFairness /\ ClientFairness
-----------------------------------------------------------------------------
TypeOK ==
  /\ stage \in [Requests -> Stages]
  /\ input \in [Requests -> Inputs]
  /\ policyLock \in [Policies -> Requests \cup {None}]
  /\ slotLock \in [Slots -> Requests \cup {None}]
  /\ faults \in 0..MaxFaults
  /\ \A r \in Requests : DOMAIN draft[r] = DOMAIN NoDraft
  /\ \A s \in Slots : records[s] # NoRecord =>
       records[s].status = "completed" /\ records[s].replays \in Nat

\* Which locks a request holds at which stage: those of its policy from the
\* SELECT FOR UPDATE on, its own record from the claim on, and the record of
\* the payment it repeats from the UPDATE on.
HoldsPolicy(r) == stage[r] \in {"external", "original", "copy", "append", "settle", "commit"}
HoldsSlot(r)   == HoldsPolicy(r) \/ stage[r] \in {"lock", "replay"}

LocksFollowStages ==
  /\ \A p \in Policies, r \in Requests :
       policyLock[p] = r <=> (HoldsPolicy(r) /\ Policy(r) = p)
  /\ \A s \in Slots, r \in Requests :
       slotLock[s] = r <=> \/ (HoldsSlot(r) /\ Slot(r) = s)
                          \/ (stage[r] = "copy" /\ draft[r].original = s)

\* What a transaction read (the premium it priced with, the end of the event
\* chain, the open documents and the balance) and put into its draft is still
\* the committed state when it commits, whatever others did in between
\* (service.ts:103-260, 302-422: one FOR UPDATE lock stands for all of it).
ReadsStayCurrent ==
  \A r \in Requests :
    LET p == Policy(r)
    IN  /\ stage[r] \in {"append", "settle", "commit"} =>
             draft[r].data = EventData(p, premium[p], input[r].body)
        /\ stage[r] \in {"settle", "commit"} =>
             draft[r].event = NextEvent(events[p], draft[r].data, input[r].key)
        /\ stage[r] = "commit" =>
             LET balance == OpenBalance(SeenDocuments(r), SeenPayments(r))
             IN  /\ draft[r].response = Response(draft[r].event, balance)
                 /\ draft[r].paid = ToSettle(SeenDocuments(r), balance)

\* Whom a request waits for: the holder of the lock its next statement needs.
WaitsFor(r) ==
  CASE stage[r] = "claim" /\ records[Slot(r)] = NoRecord -> slotLock[Slot(r)]
    [] stage[r] = "load"                                -> slotLock[Slot(r)]
    [] stage[r] = "lock" /\ Policy(r) \in Policies       -> policyLock[Policy(r)]
    [] stage[r] = "original"                            -> slotLock[draft[r].original]
    [] OTHER                                            -> None

\* No set of requests, each waiting for another of the set: the record, the
\* policy and the record of a repeated payment are locked in an order that
\* closes no circle, though two kinds of rows are locked in both orders.
NoDeadlock ==
  \A S \in SUBSET Requests : S # {} => \E r \in S : WaitsFor(r) \notin S

\* Two clients that were told of success under one key asked for the same
\* thing and were told the same, however their requests overlapped.
RepliesAgree ==
  \A q, r \in Requests :
    (/\ stage[q] = "done" /\ reply[q].status = 201
     /\ stage[r] = "done" /\ reply[r].status = 201
     /\ Slot(q) = Slot(r))
    => (input[q].body = input[r].body /\ reply[q].response = reply[r].response)

\* A success that a client was told of is on record: the key holds the very
\* answer, and the history of the policy has the event it speaks of.
SuccessIsDurable ==
  \A r \in Requests : stage[r] = "done" /\ reply[r].status = 201 =>
    /\ records[Slot(r)] # NoRecord
    /\ records[Slot(r)].response = reply[r].response
    /\ records[Slot(r)].hash = RequestHash(input[r])
    /\ events[Policy(r)][reply[r].response.seq].hash = reply[r].response.hash

\* The checks that only guard against a broken program never fire: no request
\* finds a key in progress or a payment without its stored result, and none
\* runs into a unique constraint or the ledger trigger.
BackstopsNeverFire ==
  \A r \in Requests : stage[r] = "done" =>
    reply[r].error \notin {"Idempotency request in progress",
                          "missing its completed idempotency result",
                          "Database conflict", "Database constraint violation"}

\* Every behaviour is, on the books, one of PolicyBook: each request takes
\* effect at once at its COMMIT, or not at all.
ImplementsPolicyBook == Book!Spec

\* Every request is answered, however many wait for the same rows.
EveryRequestAnswered ==
  \A r \in Requests : stage[r] # "done" ~> stage[r] = "done"

\* A failed attempt is no obstacle to its repetition: a client that retries
\* has in the end a definite answer, and not that its key is in progress.
RetriesSettle ==
  \A r \in Requests :
    <>[](/\ stage[r] = "done"
         /\ reply[r] \notin Failures
         /\ reply[r].error # "Idempotency request in progress")
=============================================================================
