------------------------------ MODULE Accounting ------------------------------
(***************************************************************************)
(* The rows an accepted request writes, and the pure functions of          *)
(* src/policies/policies.service.ts and policies.repository.ts that        *)
(* compute them.  PolicyBook writes them in one step, PolicyTransactions   *)
(* one SQL statement at a time.                                            *)
(*                                                                         *)
(* Abstractions.  Generated row ids are left out: the rows of one request  *)
(* are tied together by the sequence number of their history event.  A     *)
(* SHA-256 digest is the value it digests, so that equal digests mean      *)
(* equal values: a request hash is the body, and an event hash is the list *)
(* of all payloads from the first event on.  Timestamps, the reason of an  *)
(* endorsement and the texts of an answer are left out.                    *)
(***************************************************************************)
EXTENDS Proration, Sequences, FiniteSetsExt

CONSTANTS
  Contract,  \* the policies table but for the premium: for each policy id
             \* [status, start, end, currency, premium], premium the seeded one
  Inputs     \* what requests may carry: [key, body]

Policies == DOMAIN Contract

\* The two kinds of write the service has.
ASSUME InputsAssumption ==
  \A in \in Inputs : in.body.kind \in {"endorsement", "payment"}

\* What the DTOs and applyEndorsement's parsing of the date let through: a day,
\* a premium of zero cents or more, a payment of one cent or more.
ASSUME AmountsAssumption ==
  \A in \in Inputs :
    IF in.body.kind = "endorsement" THEN in.body.day \in Int /\ in.body.premium \in Nat
                                    ELSE in.body.amount \in Nat \ {0}

\* What the CHECK constraints of the table policies let through.
ASSUME ContractAssumption ==
  \A p \in Policies :
    /\ Contract[p].start \in Int /\ Contract[p].end \in Int
    /\ Contract[p].start < Contract[p].end
    /\ Contract[p].premium \in Nat

\* The fields of a body that reach the request hash.
IsEndorsement(body) == body.kind = "endorsement"

\* An idempotency record is found by its scope (kind and policy) and key.
SlotOf(in) == <<in.body.kind, in.body.policy, in.key>>

PaymentSlot(p, key) == <<"payment", p, key>>

Slots == {SlotOf(in) : in \in Inputs}

RequestHash(in) == in.body

-----------------------------------------------------------------------------
\* Admission: why a request for an existing policy is answered 422, or "none".

Term(p) == [start |-> Contract[p].start, end |-> Contract[p].end]

EndorsementRefusal(p, premium, body) ==
  LET verdict == Verdict(Term(p), body.day, premium, body.premium)
  IN  IF Contract[p].status # "active" THEN "invalid policy status"
      ELSE IF verdict # "priced" THEN verdict
      ELSE "none"

PaymentRefusal(p, body) ==
  IF body.currency # Contract[p].currency THEN "currency mismatch" ELSE "none"

Refusal(p, premium, body) ==
  IF IsEndorsement(body) THEN EndorsementRefusal(p, premium, body)
                         ELSE PaymentRefusal(p, body)

-----------------------------------------------------------------------------
\* History events.  Genesis stands for a previous_hash of null.

Genesis == << >>

HashPolicyEvent(previous, payload) == Append(previous, payload)

HeadHash(events) ==
  IF events = << >> THEN Genesis ELSE events[Len(events)].hash

\* Mutant: prices against the premium the policy was seeded with.
EventDataSeeded(p, premium, body) ==
  IF IsEndorsement(body)
  THEN [kind |-> "endorsement", old |-> Contract[p].premium, new |-> body.premium,
        day |-> body.day,
        amount |-> Adjustment(Term(p), body.day, premium, body.premium)]
  ELSE [kind |-> "payment", external |-> body.external, amount |-> body.amount]

\* The data of the event a request adds, from the premium of the locked row.
EventData(p, premium, body) ==
  IF IsEndorsement(body)
  THEN [kind |-> "endorsement", old |-> premium, new |-> body.premium,
        day |-> body.day,
        amount |-> Adjustment(Term(p), body.day, premium, body.premium)]
  ELSE [kind |-> "payment", external |-> body.external, amount |-> body.amount]

\* createPolicyEvent: the successor of the last event of the policy.
NextEvent(events, data, key) ==
  [seq |-> Len(events) + 1, key |-> key, payload |-> data,
   prev |-> HeadHash(events),
   hash |-> HashPolicyEvent(HeadHash(events), data)]

-----------------------------------------------------------------------------
\* Billing documents, payments, and the double entry each brings about.

BillingDocument(event) ==
  [seq |-> event.seq, amount |-> event.payload.amount,
   status |-> IF event.payload.amount > 0 THEN "open" ELSE "credit"]

Payment(event) ==
  [seq |-> event.seq, key |-> event.key,
   external |-> event.payload.external, amount |-> event.payload.amount]

NewDocuments(event) ==
  IF event.payload.kind = "endorsement" THEN {BillingDocument(event)} ELSE {}

NewPayments(event) ==
  IF event.payload.kind = "payment" THEN {Payment(event)} ELSE {}

LedgerEntry(account, debit, credit) ==
  [account |-> account, debit |-> debit, credit |-> credit]

\* Mutant: a credit is booked like a charge.
EndorsementEntriesUnsigned(amount) ==
  <<LedgerEntry("PREMIUM_RECEIVABLE", Abs(amount), 0),
    LedgerEntry("WRITTEN_PREMIUM", 0, Abs(amount))>>

EndorsementEntries(amount) ==
  IF amount > 0
  THEN <<LedgerEntry("PREMIUM_RECEIVABLE", amount, 0),
         LedgerEntry("WRITTEN_PREMIUM", 0, amount)>>
  ELSE <<LedgerEntry("WRITTEN_PREMIUM", Abs(amount), 0),
         LedgerEntry("PREMIUM_RECEIVABLE", 0, Abs(amount))>>

PaymentEntries(amount) ==
  <<LedgerEntry("CASH", amount, 0),
    LedgerEntry("PREMIUM_RECEIVABLE", 0, amount)>>

LedgerTransaction(event) ==
  [seq |-> event.seq,
   entries |-> IF event.payload.kind = "endorsement"
               THEN EndorsementEntries(event.payload.amount)
               ELSE PaymentEntries(event.payload.amount)]

\* The sum of a column over the entries of one ledger transaction.
Debits(entries)  == SumFunction([i \in DOMAIN entries |-> entries[i].debit])
Credits(entries) == SumFunction([i \in DOMAIN entries |-> entries[i].credit])

\* What the deferred trigger asks of a ledger transaction at commit.
LedgerTransactionBalanced(transaction) ==
  /\ Len(transaction.entries) >= 2
  /\ Debits(transaction.entries) = Credits(transaction.entries)
  /\ Debits(transaction.entries) > 0

\* SUM(amount_cents) over documents or payments.
Total(rows) == SumFunction([row \in rows |-> row.amount])

\* calculateOpenBalance: everything billed less everything paid.
OpenBalance(documents, payments) == Total(documents) - Total(payments)

\* Mutant: the filter on the sign is lost.
PayableCredits(documents) == {d \in documents : d.status # "paid"}

\* The rows markPositiveBillingDocumentsPaid updates, which a request asks
\* for when nothing is owed any more.
Payable(documents) == {d \in documents : d.amount > 0 /\ d.status = "open"}

\* Mutant: a balance of exactly zero is not enough.
ToSettleBelowZero(documents, balance) ==
  IF balance < 0 THEN Payable(documents) ELSE {}

ToSettle(documents, balance) == IF balance <= 0 THEN Payable(documents) ELSE {}

MarkPaid(documents, paid) ==
  {IF d \in paid THEN [d EXCEPT !.status = "paid"] ELSE d : d \in documents}

-----------------------------------------------------------------------------
\* What is stored with the key and sent to the client: the parts of the
\* answer that come from the database.
Response(event, balance) ==
  [seq |-> event.seq, hash |-> event.hash, amount |-> event.payload.amount,
   balance |-> balance,
   status |-> IF event.payload.kind = "payment" THEN "applied"
              ELSE IF event.payload.amount <= 0 THEN "credit"
              ELSE IF balance <= 0 THEN "paid" ELSE "open"]

CompletedRecord(hash, response) ==
  [hash |-> hash, status |-> "completed", response |-> response, replays |-> 0]

Replayed(record) == [record EXCEPT !.replays = @ + 1]
=============================================================================
