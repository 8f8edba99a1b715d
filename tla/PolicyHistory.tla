---------------------------- MODULE PolicyHistory ----------------------------
\* The audit of src/policies/history.ts: verifyPolicyHistory recomputes the
\* chain of a policy's events, given in the order of sequence_no.
EXTENDS Accounting

PreviousHash(rows, i) == IF i = 1 THEN Genesis ELSE rows[i - 1].hash

\* Mutant: the stored hash is not recomputed.
LinksOnly(rows, i) ==
  /\ rows[i].seq = i
  /\ rows[i].prev = PreviousHash(rows, i)

\* Mutant: the link to the preceding row is not compared.
HashesOnly(rows, i) ==
  /\ rows[i].seq = i
  /\ rows[i].hash = HashPolicyEvent(rows[i].prev, rows[i].payload)

\* The three comparisons made at row i.
RowSound(rows, i) ==
  /\ rows[i].seq = i
  /\ rows[i].prev = PreviousHash(rows, i)
  /\ rows[i].hash = HashPolicyEvent(rows[i].prev, rows[i].payload)

Faulty(rows) == {i \in DOMAIN rows : ~ RowSound(rows, i)}

\* Mutant: goes on after a fault and reports the last one.
VerifyWithoutReturn(rows) ==
  LET faulty == Faulty(rows)
  IN  [valid |-> faulty = {}, event_count |-> Len(rows),
       head_hash |-> HeadHash(rows),
       first_invalid_sequence |-> IF faulty = {} THEN 0 ELSE rows[Max(faulty)].seq]

\* The verdict.  An absent first_invalid_sequence is 0, and head_hash is the
\* hash of the last row found sound.
VerifyPolicyHistory(rows) ==
  LET faulty == Faulty(rows)
  IN  IF faulty = {}
      THEN [valid |-> TRUE, event_count |-> Len(rows), head_hash |-> HeadHash(rows),
            first_invalid_sequence |-> 0]
      ELSE LET i == Min(faulty)
           IN  [valid |-> FALSE, event_count |-> Len(rows),
                head_hash |-> PreviousHash(rows, i),
                first_invalid_sequence |-> rows[i].seq]
=============================================================================
