----------------------------- MODULE HistoryAudit -----------------------------
(***************************************************************************)
(* The hash chain of one policy in the hands of somebody who writes to the *)
(* database behind the service's back, and the audit that is meant to show *)
(* it: createPolicyEvent, the constraints and triggers of policy_events,   *)
(* and verifyHistory.                                                      *)
(*                                                                         *)
(* Whoever alters the table can compute digests like everybody else, but   *)
(* finds no collisions.  The triggers reject UPDATE and DELETE until an    *)
(* administrator disables them; INSERT they do not touch.                  *)
(***************************************************************************)
EXTENDS PolicyHistory

CONSTANTS Payloads,   \* what an event may say
          MaxEvents,  \* bound: events the service writes
          MaxEdits    \* bound: changes made behind its back

VARIABLES table,     \* the rows of policy_events of the policy
          written,   \* how many of them the service wrote (bound)
          guarded,   \* the append-only triggers are in force
          edits,     \* changes made behind the service's back (bound)
          firstEdit, \* where the first of them was made (history)
          kept       \* the last valid report an auditor took home

vars == <<table, written, guarded, edits, firstEdit, kept>>

NoEdit   == [seq |-> 0, last |-> 0]
NoReport == [event_count |-> 0, head_hash |-> Genesis, payloads |-> << >>]

\* listPolicyEvents: ORDER BY sequence_no ASC.
Listing(t) ==
  [i \in 1..Cardinality(t) |->
     CHOOSE a \in t : Cardinality({b \in t : b.seq <= a.seq}) = i]

Events == Listing(table)

\* What verifyHistory would report now.
Audit == VerifyPolicyHistory(Events)

LastSeq == IF table = {} THEN 0 ELSE Events[Len(Events)].seq

\* The constraints of policy_events.
Constraints(t) ==
  /\ \A a, b \in t : a.seq = b.seq \/ a.hash = b.hash => a = b
  /\ \A a \in t : a.seq > 0

Init == /\ table = {}
        /\ written = 0
        /\ guarded = TRUE
        /\ edits = 0
        /\ firstEdit = NoEdit
        /\ kept = NoReport

\* createPolicyEvent: the successor of the row with the highest sequence.
Successor(payload) ==
  [seq |-> LastSeq + 1, prev |-> HeadHash(Events), payload |-> payload,
   hash |-> HashPolicyEvent(HeadHash(Events), payload)]

CreatePolicyEvent(payload) ==
  LET grown == table \cup {Successor(payload)}
  IN  /\ written < MaxEvents
      /\ Constraints(grown)
      /\ table' = grown
      /\ written' = written + 1
      /\ UNCHANGED <<guarded, edits, firstEdit, kept>>

\* verifyHistory, called by an auditor who keeps what it says when all is well.
VerifyHistory ==
  /\ Audit.valid
  /\ kept' = [event_count |-> Audit.event_count, head_hash |-> Audit.head_hash,
              payloads |-> [i \in DOMAIN Events |-> Events[i].payload]]
  /\ UNCHANGED <<table, written, guarded, edits, firstEdit>>
-----------------------------------------------------------------------------
\* Behind the service's back.

\* Rows somebody may make up: any place, any link to a known digest, and
\* either the right digest or one that was there before.
Forged ==
  LET digests == {a.hash : a \in table}
  IN  UNION {{[seq |-> n, prev |-> h, payload |-> x, hash |-> d] :
                d \in digests \cup {HashPolicyEvent(h, x)}} :
               n \in 1..(LastSeq + 1), h \in digests \cup {Genesis}, x \in Payloads}

Edit(t, seq) ==
  /\ edits < MaxEdits
  /\ t # table
  /\ Constraints(t)
  /\ table' = t
  /\ edits' = edits + 1
  /\ firstEdit' = IF edits = 0 THEN [seq |-> seq, last |-> LastSeq] ELSE firstEdit
  /\ UNCHANGED <<written, guarded, kept>>

InsertRow == \E b \in Forged \ table : Edit(table \cup {b}, b.seq)

\* Mutant: the trigger is BEFORE DELETE only.
UpdateRowUnguarded ==
  \E a \in table, b \in Forged \ table :
    Edit((table \ {a}) \cup {b}, IF a.seq < b.seq THEN a.seq ELSE b.seq)

UpdateRow ==
  /\ ~ guarded
  /\ \E a \in table, b \in Forged \ table :
       Edit((table \ {a}) \cup {b}, IF a.seq < b.seq THEN a.seq ELSE b.seq)

DeleteRow ==
  /\ ~ guarded
  /\ \E a \in table : Edit(table \ {a}, a.seq)

DisableTriggers ==
  /\ guarded
  /\ guarded' = FALSE
  /\ UNCHANGED <<table, written, edits, firstEdit, kept>>

Next == \/ \E x \in Payloads : CreatePolicyEvent(x)
        \/ VerifyHistory
        \/ InsertRow
        \/ UpdateRow
        \/ DeleteRow
        \/ DisableTriggers

Spec == Init /\ [][Next]_vars
-----------------------------------------------------------------------------
\* What the chain is for.  An auditor who kept the head of a valid history
\* and finds the same hash at the same place of a history that is valid now
\* has the same events before him, whatever was done to the table in between:
\* no change of an earlier event can be covered up by recomputing digests
\* without the head giving it away.
KeptHeadBinds ==
  LET n == kept.event_count
  IN  /\ n > 0
      /\ Audit.valid
      /\ n <= Len(Events)
      /\ Events[n].hash = kept.head_hash
      => \A i \in 1..n : Events[i].payload = kept.payloads[i]

\* ARCHITECTURE.md:126: the endpoint "reports the first invalid sequence when a
\* mismatch exists".  A single change, made anywhere, is found at the row that
\* was changed or at the one that now follows its place, also when the service
\* has gone on writing; only what is done to the newest event can pass.
OneChangeIsLocated ==
  edits = 1 =>
    IF Audit.valid THEN firstEdit.seq >= firstEdit.last
    ELSE LET later == {a.seq : a \in table} \ 1..firstEdit.seq
         IN  Audit.first_invalid_sequence \in
               {firstEdit.seq} \cup (IF later = {} THEN {} ELSE {Min(later)})

\* While the triggers are in force, rows that an auditor has seen are neither
\* removed by DELETE nor changed or moved by UPDATE: rows can only be added
\* behind them.  (TRUNCATE fires no row trigger, and is not among the edits.)
GuardsKeepWhatWasSeen ==
  guarded => /\ kept.event_count <= Len(Events)
             /\ \A i \in 1..kept.event_count :
                  Events[i].seq = i /\ Events[i].payload = kept.payloads[i]

\* Writing on does not cover a fault up: the service links new events to
\* whatever it finds, and the audit goes on naming the same place.
FaultsStayFound ==
  [][(~ Audit.valid /\ written' # written) =>
       /\ ~ Audit'.valid
       /\ Audit'.first_invalid_sequence = Audit.first_invalid_sequence]_vars
=============================================================================
