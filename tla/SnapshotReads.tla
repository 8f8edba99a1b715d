---------------------------- MODULE SnapshotReads ----------------------------
(***************************************************************************)
(* The reports of src/policies/policies.service.ts (getPolicyState,        *)
(* getLedger, verifyHistory), each made of several queries, while writes   *)
(* commit in between.  A read runs in a READ ONLY transaction with         *)
(* REPEATABLE READ (withReadTransaction): PostgreSQL takes its snapshot at *)
(* the first query, and all queries see the tables as they were then.      *)
(*                                                                         *)
(* Writes are the steps of PolicyBook.  The queries of Promise.all go      *)
(* through one client, which sends them one after the other.               *)
(***************************************************************************)
EXTENDS PolicyBook

CONSTANTS Connections,  \* pooled connections; each serves one read at a time
          Reads         \* what clients ask: [kind, policy]

\* The three reports there are.
ASSUME ReadsAssumption == \A read \in Reads : read.kind \in {"state", "ledger", "history"}

VARIABLES serving,   \* per connection, the read it serves, or NoRead
          snapshot,  \* per connection, the tables its transaction sees, or NoSnapshot
          rows,      \* per connection, the results of its queries so far
          report,    \* per connection, the last answer, or NoReport
          known      \* what was asked, and on the books when it came in (history)

readVars == <<serving, snapshot, rows, report, known>>

NoRead     == [kind |-> "none", policy |-> "none"]
NoSnapshot == [tables |-> "none"]
NoReport   == [status |-> 0]

\* The tables of a policy.
View(p) == [premium |-> premium[p], events |-> events[p], documents |-> documents[p],
            payments |-> payments[p], ledger |-> ledger[p],
            records |-> [s \in {t \in Slots : t[2] = p} |-> records[s]]]

\* The events and payments that some client was told of more than once: their
\* record was replayed, or copied to another key.
Repeated(p) ==
  {i \in DOMAIN events[p] :
     \E s \in Slots :
       /\ s[1] = events[p][i].payload.kind /\ s[2] = p
       /\ records[s] # NoRecord
       /\ records[s].response.seq = i
       /\ records[s].replays > 0 \/ s[3] # events[p][i].key}

-----------------------------------------------------------------------------
\* The queries of each report after findPolicy, in the order they are sent.
Queries(kind) ==
  CASE kind = "state"   -> <<"events", "documents", "payments",
                             "transactions", "entries", "balance">>
    [] kind = "ledger"  -> <<"transactions", "entries">>
    [] kind = "history" -> <<"events">>

\* LEFT JOIN idempotency_records ON scope and key, COALESCE(replay_count, 0).
ReplayCount(view, slot) ==
  IF slot \in DOMAIN view.records /\ view.records[slot] # NoRecord
  THEN view.records[slot].replays ELSE 0

\* What one query returns from the tables it sees.
Result(query, view, p) ==
  CASE query = "events" ->
         [i \in DOMAIN view.events |->
            [row |-> view.events[i],
             replay_count |-> ReplayCount(view, <<view.events[i].payload.kind, p,
                                                  view.events[i].key>>)]]
    [] query = "documents" -> view.documents
    [] query = "payments" ->
         {[row |-> y, replay_count |-> ReplayCount(view, PaymentSlot(p, y.key))] :
            y \in view.payments}
    [] query = "transactions" -> {t.seq : t \in view.ledger}
    [] query = "entries" ->
         UNION {{[transaction |-> t.seq, line |-> i, entry |-> t.entries[i]] :
                   i \in DOMAIN t.entries} : t \in view.ledger}
    [] query = "balance" -> OpenBalance(view.documents, view.payments)

-----------------------------------------------------------------------------
\* The reports.

TotalDebits(entries)  == SumFunction([e \in entries |-> e.entry.debit])
TotalCredits(entries) == SumFunction([e \in entries |-> e.entry.credit])

SummarizeLedger(transactions, entries) ==
  LET Entries(t)  == {e \in entries : e.transaction = t}
      Balanced(t) == /\ Cardinality(Entries(t)) >= 2
                     /\ TotalDebits(Entries(t)) > 0
                     /\ TotalDebits(Entries(t)) = TotalCredits(Entries(t))
  IN  [balanced |-> /\ \A t \in transactions : Balanced(t)
                    /\ TotalDebits(entries) = TotalCredits(entries),
       transactions |-> transactions, debits |-> TotalDebits(entries)]

SuggestAction(balance) ==
  IF balance > 0 THEN "collect" ELSE IF balance < 0 THEN "review credit" ELSE "none"

Label(replay_count) == IF replay_count > 0 THEN "duplicate ignored" ELSE "processed once"

Report(kind, r) ==
  CASE kind = "history" ->
         [status |-> 200,
          history |-> VerifyPolicyHistory([i \in DOMAIN r.events |-> r.events[i].row])]
    [] kind = "ledger" ->
         [status |-> 200, ledger |-> SummarizeLedger(r.transactions, r.entries)]
    [] kind = "state" ->
         [status |-> 200, premium |-> r.policy,
          events |-> [i \in DOMAIN r.events |->
                        [payload |-> r.events[i].row.payload,
                         result |-> Label(r.events[i].replay_count)]],
          documents |-> r.documents,
          payments |-> {[seq |-> y.row.seq, amount |-> y.row.amount,
                         result |-> Label(y.replay_count)] : y \in r.payments},
          balance |-> r.balance,
          ledger |-> SummarizeLedger(r.transactions, r.entries),
          history |-> VerifyPolicyHistory([i \in DOMAIN r.events |-> r.events[i].row]),
          action |-> SuggestAction(r.balance)]

-----------------------------------------------------------------------------
\* The life of a read.

ReadInit == /\ serving = [c \in Connections |-> NoRead]
            /\ snapshot = [c \in Connections |-> NoSnapshot]
            /\ rows = [c \in Connections |-> << >>]
            /\ report = [c \in Connections |-> NoReport]
            /\ known = [c \in Connections |-> NoReport]

\* The results of a read, with those of one more query.
With(results, query, result) ==
  [q \in DOMAIN results \cup {query} |-> IF q = query THEN result ELSE results[q]]

\* A read comes in and gets an idle connection: BEGIN, REPEATABLE READ.
BeginRead(c, read) ==
  /\ serving[c] = NoRead
  /\ serving' = [serving EXCEPT ![c] = read]
  /\ report' = [report EXCEPT ![c] = NoReport]
  /\ known' = [known EXCEPT ![c] =
       IF read.policy \in Policies
       THEN [policy |-> read.policy, events |-> Len(events[read.policy]),
             repeated |-> Repeated(read.policy)]
       ELSE NoReport]
  /\ UNCHANGED <<snapshot, rows>>

\* The transaction ends, by COMMIT or ROLLBACK, and the connection is released.
EndRead(c, answer) ==
  /\ serving' = [serving EXCEPT ![c] = NoRead]
  /\ snapshot' = [snapshot EXCEPT ![c] = NoSnapshot]
  /\ rows' = [rows EXCEPT ![c] = << >>]
  /\ report' = [report EXCEPT ![c] = answer]
  /\ known' = IF answer.status = 200 THEN known ELSE [known EXCEPT ![c] = NoReport]

\* The first query: requirePolicy.
FindPolicy(c) ==
  LET p == serving[c].policy
  IN  /\ serving[c] # NoRead
      /\ snapshot[c] = NoSnapshot
      /\ IF p \in Policies
         THEN /\ snapshot' = [snapshot EXCEPT ![c] = View(p)]
              /\ rows' = [rows EXCEPT ![c] = With(@, "policy", premium[p])]
              /\ UNCHANGED <<serving, report, known>>
         ELSE EndRead(c, [status |-> 404])

\* Mutant: READ COMMITTED, each query sees the tables as they are.
VisibleNow(c) == View(serving[c].policy)

\* What the queries of a REPEATABLE READ transaction see.
Visible(c) == snapshot[c]

\* The queries that were answered, and the one sent next.
Sent(c) == Cardinality(DOMAIN rows[c] \ {"policy"})

List(c) ==
  LET queries == Queries(serving[c].kind)
  IN  /\ serving[c] # NoRead /\ snapshot[c] # NoSnapshot
      /\ Sent(c) < Len(queries)
      /\ LET query == queries[Sent(c) + 1]
         IN  rows' = [rows EXCEPT ![c] =
                        With(@, query, Result(query, Visible(c), serving[c].policy))]
      /\ UNCHANGED <<serving, snapshot, report, known>>

\* Mutant: COMMIT is forgotten, and the next read goes on in the old snapshot.
AnswerReadUncommitted(c) ==
  /\ serving[c] # NoRead /\ snapshot[c] # NoSnapshot
  /\ Sent(c) = Len(Queries(serving[c].kind))
  /\ serving' = [serving EXCEPT ![c] = NoRead]
  /\ rows' = [rows EXCEPT ![c] = With(<< >>, "policy", rows[c].policy)]
  /\ report' = [report EXCEPT ![c] = Report(serving[c].kind, rows[c])]
  /\ UNCHANGED <<snapshot, known>>

\* COMMIT, and the answer.
AnswerRead(c) ==
  /\ serving[c] # NoRead /\ snapshot[c] # NoSnapshot
  /\ Sent(c) = Len(Queries(serving[c].kind))
  /\ EndRead(c, Report(serving[c].kind, rows[c]))

\* A query, BEGIN or COMMIT fails or takes longer than its 15 seconds:
\* Promise.all rejects, ROLLBACK goes out behind the queries already sent.
FailRead(c) ==
  /\ serving[c] # NoRead
  /\ EndRead(c, [status |-> 500])

ReadStep == \E c \in Connections :
  \/ \E read \in Reads : BeginRead(c, read)
  \/ FindPolicy(c)
  \/ List(c)
  \/ AnswerRead(c)
  \/ FailRead(c)

ReadsInit == Init /\ ReadInit

ReadsNext == \/ Next /\ UNCHANGED readVars
             \/ ReadStep /\ UNCHANGED vars

ReadsSpec == ReadsInit /\ [][ReadsNext]_<<vars, readVars>>
-----------------------------------------------------------------------------
\* The reports of the full state that were given.
StateReports == {c \in Connections : report[c].status = 200 /\ "events" \in DOMAIN report[c]}

\* A report is of one moment of the books (ARCHITECTURE.md:50): every event in
\* it has its ledger transaction and its document or payment and nothing else
\* is listed, the premium is that of the last endorsement, and the balance
\* that the database summed is that of the documents and payments listed.
ReportsAddUp ==
  \A c \in StateReports :
    LET r == report[c]
        Of(kind) == {i \in DOMAIN r.events : r.events[i].payload.kind = kind}
    IN  /\ {d.seq : d \in r.documents} = Of("endorsement")
        /\ {y.seq : y \in r.payments} = Of("payment")
        /\ r.ledger.transactions = DOMAIN r.events
        /\ r.balance = Total(r.documents) - Total(r.payments)
        /\ Of("endorsement") # {} =>
             r.premium = r.events[Max(Of("endorsement"))].payload.new

\* A client that repeats "balanced", "valid" or the suggested action to others
\* can rely on it: no report, however writes interleave with its queries,
\* calls the service's own books unbalanced or its history invalid, and money
\* is to be collected exactly when a listed document is open.
ReportsFindNoFault ==
  \A c \in Connections : report[c].status = 200 =>
    /\ "ledger" \in DOMAIN report[c] => report[c].ledger.balanced
    /\ "history" \in DOMAIN report[c] => report[c].history.valid
    /\ "action" \in DOMAIN report[c] =>
         (report[c].action = "collect" <=> \E d \in report[c].documents : d.status = "open")

\* Whoever was told that a write succeeded finds it in every read that starts
\* afterwards: no report is from before its question.
ReportsAreFresh ==
  \A c \in Connections : report[c].status = 200 =>
    /\ "history" \in DOMAIN report[c] => report[c].history.event_count >= known[c].events
    /\ "ledger" \in DOMAIN report[c] =>
         Cardinality(report[c].ledger.transactions) >= known[c].events

\* "processed once" and "duplicate ignored" are true of what clients were
\* told of the events of the policy that was asked for, and payments repeated
\* under another key are no exception: the replays of a copied answer are
\* counted where the report does not look, the copying itself where it does.
LabelsTruthful ==
  \A c \in StateReports :
    LET labelled == {i \in DOMAIN report[c].events :
                       report[c].events[i].result = "duplicate ignored"}
        paidTwice == {y.seq : y \in {z \in report[c].payments : z.result = "duplicate ignored"}}
    IN  /\ known[c].repeated \subseteq labelled
        /\ labelled \subseteq Repeated(known[c].policy)
        /\ paidTwice = {i \in labelled : report[c].events[i].payload.kind = "payment"}
=============================================================================
