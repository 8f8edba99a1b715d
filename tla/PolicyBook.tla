------------------------------ MODULE PolicyBook ------------------------------
(***************************************************************************)
(* What the service promises its clients: every accepted request is one    *)
(* indivisible step on the books, every refused request leaves no trace,   *)
(* and a request repeated under its idempotency key, or a payment repeated *)
(* under its external id, is answered from the record of the first.        *)
(*                                                                         *)
(* The actions are those of applyEndorsement and recordPayment, each taken *)
(* as a whole.  PolicyTransactions has the SQL statements they consist of, *)
(* interleaved, and implements this module.                                *)
(***************************************************************************)
EXTENDS PolicyHistory

CONSTANT ReplayCounts  \* values of replay_count: Nat, or a bound for TLC

VARIABLES premium,    \* per policy, policies.annual_premium_cents
          events,     \* per policy, policy_events in the order of sequence_no
          documents,  \* per policy, the set of billing_documents
          payments,   \* per policy, the set of payments
          ledger,     \* per policy, the set of ledger_transactions and entries
          records     \* per scope and key, the row of idempotency_records

vars == <<premium, events, documents, payments, ledger, records>>

NoRecord == [status |-> "absent"]

Init == /\ premium = [p \in Policies |-> Contract[p].premium]
        /\ events = [p \in Policies |-> << >>]
        /\ documents = [p \in Policies |-> {}]
        /\ payments = [p \in Policies |-> {}]
        /\ ledger = [p \in Policies |-> {}]
        /\ records = [s \in Slots |-> NoRecord]

\* The rows policy p has once event is added: what applyEndorsement and
\* recordPayment insert, and the documents they mark paid.
DocumentsWith(p, event) == documents[p] \cup NewDocuments(event)
PaymentsWith(p, event)  == payments[p] \cup NewPayments(event)
BalanceWith(p, event)   == OpenBalance(DocumentsWith(p, event), PaymentsWith(p, event))

Enact(in, p, event) ==
  LET balance == BalanceWith(p, event)
      paid    == ToSettle(DocumentsWith(p, event), balance)
  IN  /\ events' = [events EXCEPT ![p] = Append(@, event)]
      /\ documents' = [documents EXCEPT ![p] = MarkPaid(DocumentsWith(p, event), paid)]
      /\ payments' = [payments EXCEPT ![p] = PaymentsWith(p, event)]
      /\ ledger' = [ledger EXCEPT ![p] = @ \cup {LedgerTransaction(event)}]
      /\ records' = [records EXCEPT ![SlotOf(in)] =
                       CompletedRecord(RequestHash(in), Response(event, balance))]

EventFor(in, p) == NextEvent(events[p], EventData(p, premium[p], in.body), in.key)

\* Mutant: the key is not looked up.
AdmissibleKeyUnchecked(in) ==
  /\ in.body.policy \in Policies
  /\ Refusal(in.body.policy, premium[in.body.policy], in.body) = "none"

\* A key not used before, for a policy that exists and takes the request.
Admissible(in) ==
  /\ records[SlotOf(in)] = NoRecord
  /\ in.body.policy \in Policies
  /\ Refusal(in.body.policy, premium[in.body.policy], in.body) = "none"

ApplyEndorsement(in) ==
  LET p == in.body.policy
  IN  /\ IsEndorsement(in.body)
      /\ Admissible(in)
      /\ Enact(in, p, EventFor(in, p))
      /\ premium' = [premium EXCEPT ![p] = in.body.premium]

\* Mutant: another amount makes another payment.
SameExternalAndAmount(in) ==
  {y \in payments[in.body.policy] :
     y.external = in.body.external /\ y.amount = in.body.amount}

\* The payments that carry the external id of a request: one at most.
SameExternal(in) == {y \in payments[in.body.policy] : y.external = in.body.external}

RecordPayment(in) ==
  LET p == in.body.policy
  IN  /\ ~ IsEndorsement(in.body)
      /\ Admissible(in)
      /\ SameExternal(in) = {}
      /\ Enact(in, p, EventFor(in, p))
      /\ UNCHANGED premium

\* The same key with the same body: answered from its record, and counted.
ReplayKey(in) ==
  LET s == SlotOf(in)
  IN  /\ records[s] # NoRecord
      /\ records[s].hash = RequestHash(in)
      /\ records[s].replays + 1 \in ReplayCounts
      /\ records' = [records EXCEPT ![s] = Replayed(@)]
      /\ UNCHANGED <<premium, events, documents, payments, ledger>>

\* Mutant: the replay is not counted on the first key.
ReplayExternalUncounted(in) ==
  /\ ~ IsEndorsement(in.body)
  /\ Admissible(in)
  /\ \E y \in SameExternal(in) :
       /\ y.amount = in.body.amount
       /\ records' = [records EXCEPT ![SlotOf(in)] = CompletedRecord(RequestHash(in),
            records[PaymentSlot(in.body.policy, y.key)].response)]
  /\ UNCHANGED <<premium, events, documents, payments, ledger>>

\* A new key with the data of a known payment: the new key gets a copy of the
\* first answer, and the replay is counted on the first key.
ReplayExternal(in) ==
  /\ ~ IsEndorsement(in.body)
  /\ Admissible(in)
  /\ \E y \in SameExternal(in) :
       LET original == PaymentSlot(in.body.policy, y.key)
       IN  /\ y.amount = in.body.amount
           /\ records[original].replays + 1 \in ReplayCounts
           /\ records' = [records EXCEPT
                ![original] = Replayed(@),
                ![SlotOf(in)] = CompletedRecord(RequestHash(in),
                                                records[original].response)]
  /\ UNCHANGED <<premium, events, documents, payments, ledger>>

Next == \E in \in Inputs : \/ ApplyEndorsement(in)
                           \/ RecordPayment(in)
                           \/ ReplayKey(in)
                           \/ ReplayExternal(in)

Spec == Init /\ [][Next]_vars
-----------------------------------------------------------------------------
\* What a ledger transaction adds to an account.
NetOf(t, account) ==
  SumFunction([i \in DOMAIN t.entries |->
                 IF t.entries[i].account = account
                 THEN t.entries[i].debit - t.entries[i].credit ELSE 0])

\* The net balance of an account over the ledger transactions of a policy.
AccountBalance(transactions, account) ==
  SumFunction([t \in transactions |-> NetOf(t, account)])

\* Two accounts of the same debt, kept by different code, always agree: the
\* PREMIUM_RECEIVABLE of the ledger (buildEndorsementLedger,
\* buildPaymentLedger) and billed less paid (calculateOpenBalance).
ReceivableIsOpenBalance ==
  \A p \in Policies :
    AccountBalance(ledger[p], "PREMIUM_RECEIVABLE")
      = OpenBalance(documents[p], payments[p])

\* docs/ARCHITECTURE.md:138: positive documents "remain open during partial
\* payment and are marked paid when the policy-level balance reaches zero or
\* becomes a credit".  So nothing is open while nothing is owed, and whatever
\* is owed is covered by open documents, through any mix of credits,
\* overpayments and later charges.
OpenDocumentsCoverBalance ==
  \A p \in Policies :
    LET balance == OpenBalance(documents[p], payments[p])
        open    == Payable(documents[p])
    IN  IF balance <= 0 THEN open = {}
        ELSE Total(open) >= balance

\* The premium in force before event i of policy p, from its events: the one
\* the last endorsement before it agreed on, or the seeded one.
PremiumBefore(p, rows, i) ==
  LET earlier == {j \in DOMAIN rows : j < i /\ rows[j].payload.kind = "endorsement"}
  IN  IF earlier = {} THEN Contract[p].premium ELSE rows[Max(earlier)].payload.new

\* The endorsement events of a policy, in order, form one chain of premiums
\* from the seeded one to the one in force: no endorsement was priced against
\* a premium that another had already replaced.
PremiumFollowsHistory ==
  \A p \in Policies :
    /\ premium[p] = PremiumBefore(p, events[p], Len(events[p]) + 1)
    /\ \A i \in DOMAIN events[p] :
         events[p][i].payload.kind = "endorsement" =>
           events[p][i].payload.old = PremiumBefore(p, events[p], i)

\* Exactly once: every event was brought about by the request whose key it
\* bears, whose record holds the answer for that very event; and every stored
\* answer, a copied one too, is that of an event with the data asked for.
EffectsTiedToKeys ==
  /\ \A p \in Policies : \A i \in DOMAIN events[p] :
       LET e == events[p][i]
           s == <<e.payload.kind, p, e.key>>
       IN  /\ s \in Slots
           /\ records[s] # NoRecord
           /\ records[s].response.seq = i
           /\ records[s].response.hash = e.hash
  /\ \A s \in Slots : records[s] # NoRecord =>
       LET body == records[s].hash
           rows == events[s[2]]
           i    == records[s].response.seq
       IN  /\ i \in DOMAIN rows
           /\ rows[i].payload.kind = s[1]
           /\ IF IsEndorsement(body) THEN rows[i].payload.new = body.premium
              ELSE /\ rows[i].payload.external = body.external
                   /\ rows[i].payload.amount = body.amount

\* An external payment is recorded once per policy, whatever keys it came
\* under (handleExistingExternalPayment; payments' UNIQUE constraint).
ExternalPaymentOnce ==
  \A p \in Policies : \A y, z \in payments[p] : y.external = z.external => y = z

\* What a step leaves of answers, events, ledger transactions, payments and
\* billing documents.
OnlyAdds ==
  /\ \A s \in Slots : records[s] # NoRecord =>
       /\ records'[s].response = records[s].response
       /\ records'[s].hash = records[s].hash
       /\ records'[s].replays >= records[s].replays
  /\ \A p \in Policies :
       /\ SubSeq(events'[p], 1, Len(events[p])) = events[p]
       /\ ledger[p] \subseteq ledger'[p]
       /\ payments[p] \subseteq payments'[p]
       /\ \A d \in documents[p] :
            \/ d \in documents'[p]
            \/ /\ d.status = "open"
               /\ [d EXCEPT !.status = "paid"] \in documents'[p]

\* What a client was once told under a key never changes, and no event, ledger
\* transaction or payment is ever withdrawn or altered; a billing document
\* changes only from open to paid.
NothingIsRewritten == [][OnlyAdds]_vars
=============================================================================
