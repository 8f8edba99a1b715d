----------------------- MODULE PolicyTransactionsProofs -----------------------
(***************************************************************************)
(* Proofs about PolicyTransactions for every set of policies, inputs and   *)
(* requests, in five parts:                                                *)
(*                                                                         *)
(*   IInv       which locks are held at which stage, from which follow the *)
(*              types and that no circle of waiting requests closes;       *)
(*   DataInv    whatever a transaction read is, when it commits, still     *)
(*              what it would read, so that on the committed tables a      *)
(*              COMMIT is one step of PolicyBook and every other step none;*)
(*   AnswersInv every answer on file is true of the history, and every     *)
(*              answer given is on file;                                   *)
(*   CleanInv   what is committed keeps the database's own checks, the     *)
(*              unique constraints and the ledger trigger, from firing;    *)
(*   BookProofs whatever holds of every PolicyBook holds of these tables.  *)
(***************************************************************************)
EXTENDS PolicyTransactions, MoneyTheorems

\* The type of what controls the transactions.
Control ==
  /\ stage \in [Requests -> Stages]
  /\ input \in [Requests -> Inputs]
  /\ policyLock \in [Policies -> Requests \cup {None}]
  /\ slotLock \in [Slots -> Requests \cup {None}]
  /\ faults \in 0..MaxFaults
  /\ DOMAIN draft = Requests
  /\ \A r \in Requests : DOMAIN draft[r] = DOMAIN NoDraft
  /\ DOMAIN reply = Requests

\* The shapes of the committed rows that later steps rely on: a record on
\* file is complete, and a payment is filed under the key of a request.
RecordShape(x) ==
  /\ DOMAIN x = {"hash", "status", "response", "replays"}
  /\ x.status = "completed"
  /\ x.replays \in Nat

Rows ==
  /\ DOMAIN payments = Policies
  /\ DOMAIN records = Slots
  /\ \A s \in Slots : records[s] = NoRecord \/ RecordShape(records[s])
  /\ \A p \in Policies : \A y \in payments[p] : PaymentSlot(p, y.key) \in Slots

\* What a request may rely on about the records and its policy: the record it
\* inserted is its own until it commits, and the record it found stays.
HoldsClaim(r) == HoldsPolicy(r) \/ stage[r] = "lock"

ClaimOf(r) ==
  /\ HoldsClaim(r) => records[Slot(r)] = NoRecord
  /\ stage[r] \in {"load", "replay"} => records[Slot(r)] # NoRecord
  /\ stage[r] \in {"original", "copy"} =>
       draft[r].original \in Slots /\ records[draft[r].original] # NoRecord
  /\ HoldsPolicy(r) => Policy(r) \in Policies
  /\ stage[r] \in {"external", "append", "settle", "commit"} =>
       /\ draft[r].data.kind = input[r].body.kind
       /\ stage[r] \in {"settle", "commit"} =>
            /\ draft[r].event.key = input[r].key
            /\ draft[r].event.payload = draft[r].data

Claims == \A r \in Requests : ClaimOf(r)

IInv == Control /\ Rows /\ LocksFollowStages /\ Claims

LEMMA SlotType == ASSUME Control, NEW r \in Requests
                  PROVE  input[r] \in Inputs /\ Slot(r) \in Slots
  BY DEF Control, Slot, Slots

\* The instance of PolicyBook speaks of the same policies and slots.
LEMMA SameSets == Book!Policies = Policies /\ Book!Slots = Slots
  BY DEF Book!Policies, Policies, Book!Slots, Slots, Book!SlotOf, SlotOf

LEMMA InitIInv == Init => IInv
<1> SUFFICES ASSUME Init PROVE IInv
  OBVIOUS
<1> USE DEF Init
<1>1. Control
  <2>1. faults \in 0..MaxFaults
    BY FaultsAssumption
  <2> QED
    BY <2>1 DEF Control, Stages
<1>2. Rows
  BY SameSets DEF Rows, Book!Init, NoRecord
<1>3. LocksFollowStages
  BY NoneAssumption DEF LocksFollowStages, HoldsPolicy, HoldsSlot
<1>4. Claims
  BY DEF Claims, ClaimOf, HoldsClaim, HoldsPolicy
<1> QED
  BY <1>1, <1>2, <1>3, <1>4 DEF IInv

-----------------------------------------------------------------------------
\* What a step of one request leaves alone of another.
Others(r) ==
  /\ input' = input
  /\ \A q \in Requests \ {r} :
       stage'[q] = stage[q] /\ draft'[q] = draft[q] /\ reply'[q] = reply[q]

\* The end of a transaction keeps the types, leaves the other requests alone
\* and frees exactly the locks of its own.
LEMMA FinishControl ==
  ASSUME Control, NEW r \in Requests, NEW answer, Finish(r, answer),
         faults' \in 0..MaxFaults
  PROVE  /\ Control' /\ Others(r)
         /\ stage'[r] = "done" /\ reply'[r] = answer
<1>1. /\ stage' \in [Requests -> Stages]
      /\ stage'[r] = "done"
  BY DEF Finish, Control, Stages
<1>2. /\ DOMAIN draft' = Requests
      /\ \A q \in Requests : DOMAIN draft'[q] = DOMAIN NoDraft
  BY DEF Finish, Control
<1>3. policyLock' \in [Policies -> Requests \cup {None}]
  BY DEF Finish, Control, Released
<1>4. slotLock' \in [Slots -> Requests \cup {None}]
  BY DEF Finish, Control, Released
<1>5. DOMAIN reply' = Requests /\ reply'[r] = answer
  BY DEF Finish, Control
<1>6. Others(r)
  BY DEF Finish, Control, Others
<1> QED
  BY <1>1, <1>2, <1>3, <1>4, <1>5, <1>6 DEF Control, Finish

LEMMA FinishLocks ==
  ASSUME Control, LocksFollowStages, NEW r \in Requests, NEW answer,
         Finish(r, answer), faults' \in 0..MaxFaults
  PROVE  LocksFollowStages'
<1>1. Control' /\ Others(r) /\ stage'[r] = "done"
  BY FinishControl
<1>2. ASSUME NEW p \in Policies, NEW q \in Requests
      PROVE  policyLock'[p] = q <=> (HoldsPolicy(q)' /\ Policy(q)' = p)
  <2>1. policyLock'[p] = IF policyLock[p] = r THEN None ELSE policyLock[p]
    BY DEF Finish, Released, Control
  <2>2. CASE q = r
    BY <1>1, <2>1, <2>2, NoneAssumption DEF HoldsPolicy
  <2>3. CASE q # r
    BY <1>1, <2>1, <2>3, NoneAssumption DEF LocksFollowStages, HoldsPolicy, Others, Policy
  <2> QED
    BY <2>2, <2>3
<1>3. ASSUME NEW s \in Slots, NEW q \in Requests
      PROVE  slotLock'[s] = q <=> \/ (HoldsSlot(q)' /\ Slot(q)' = s)
                                 \/ (stage'[q] = "copy" /\ draft'[q].original = s)
  <2>1. slotLock'[s] = IF slotLock[s] = r THEN None ELSE slotLock[s]
    BY DEF Finish, Released, Control
  <2>2. CASE q = r
    BY <1>1, <2>1, <2>2, NoneAssumption DEF HoldsPolicy, HoldsSlot
  <2>3. CASE q # r
    BY <1>1, <2>1, <2>3, NoneAssumption
    DEF LocksFollowStages, HoldsPolicy, HoldsSlot, Others, Slot
  <2> QED
    BY <2>2, <2>3
<1> QED
  BY <1>2, <1>3 DEF LocksFollowStages

\* A transaction that goes on keeps the types and leaves the others alone.
LEMMA ProceedControl ==
  ASSUME Control, NEW r \in Requests, NEW next \in Stages, NEW newDraft,
         DOMAIN newDraft = DOMAIN NoDraft, Proceed(r, next, newDraft),
         policyLock' \in [Policies -> Requests \cup {None}],
         slotLock' \in [Slots -> Requests \cup {None}]
  PROVE  /\ Control' /\ Others(r) /\ UNCHANGED books
         /\ stage'[r] = next /\ draft'[r] = newDraft
<1>1. /\ stage' \in [Requests -> Stages]
      /\ stage'[r] = next
  BY DEF Proceed, Control
<1>2. /\ DOMAIN draft' = Requests
      /\ \A q \in Requests : DOMAIN draft'[q] = DOMAIN NoDraft
      /\ draft'[r] = newDraft
  BY DEF Proceed, Control
<1>3. Others(r)
  BY DEF Proceed, Control, Others
<1> QED
  BY <1>1, <1>2, <1>3 DEF Control, Proceed

\* The locks follow the stages after a step of r if its own do and those of
\* the others are neither taken nor given away.
LEMMA LocksFrame ==
  ASSUME LocksFollowStages, NEW r \in Requests, Others(r),
         \A p \in Policies, q \in Requests \ {r} :
           policyLock'[p] = q <=> policyLock[p] = q,
         \A s \in Slots, q \in Requests \ {r} :
           slotLock'[s] = q <=> slotLock[s] = q,
         \A p \in Policies : policyLock'[p] = r <=> (HoldsPolicy(r)' /\ Policy(r)' = p),
         \A s \in Slots :
           slotLock'[s] = r <=> \/ (HoldsSlot(r)' /\ Slot(r)' = s)
                               \/ (stage'[r] = "copy" /\ draft'[r].original = s)
  PROVE  LocksFollowStages'
<1>1. ASSUME NEW q \in Requests \ {r}
      PROVE  /\ HoldsPolicy(q)' <=> HoldsPolicy(q)
             /\ HoldsSlot(q)' <=> HoldsSlot(q)
             /\ Policy(q)' = Policy(q) /\ Slot(q)' = Slot(q)
  BY DEF Others, HoldsPolicy, HoldsSlot, Policy, Slot
<1>2. ASSUME NEW p \in Policies, NEW q \in Requests
      PROVE  policyLock'[p] = q <=> (HoldsPolicy(q)' /\ Policy(q)' = p)
  BY <1>1 DEF LocksFollowStages
<1>3. ASSUME NEW s \in Slots, NEW q \in Requests
      PROVE  slotLock'[s] = q <=> \/ (HoldsSlot(q)' /\ Slot(q)' = s)
                                 \/ (stage'[q] = "copy" /\ draft'[q].original = s)
  BY <1>1 DEF LocksFollowStages, Others
<1> QED
  BY <1>2, <1>3 DEF LocksFollowStages

\* Records are only ever added, and only by the request that claimed them.
RecordsGrow(r) ==
  \A s \in Slots :
    /\ records[s] # NoRecord => records'[s] # NoRecord
    /\ records'[s] # NoRecord /\ records[s] = NoRecord =>
         HoldsClaim(r) /\ s = Slot(r)

LEMMA ClaimsFrame ==
  ASSUME Control, LocksFollowStages, Claims, NEW r \in Requests, Others(r),
         RecordsGrow(r), ClaimOf(r)'
  PROVE  Claims'
<1>1. SUFFICES ASSUME NEW q \in Requests \ {r} PROVE ClaimOf(q)'
  BY DEF Claims
<1>2. /\ HoldsClaim(q)' <=> HoldsClaim(q)
      /\ HoldsPolicy(q)' <=> HoldsPolicy(q)
      /\ Slot(q)' = Slot(q) /\ Policy(q)' = Policy(q)
      /\ stage'[q] = stage[q] /\ draft'[q] = draft[q] /\ input'[q] = input[q]
  BY DEF Others, HoldsClaim, HoldsPolicy, Slot, Policy
<1>3. Slot(q) \in Slots /\ ClaimOf(q)
  BY SlotType DEF Claims
<1>4. ASSUME HoldsClaim(q) PROVE records'[Slot(q)] = NoRecord
  <2>1. slotLock[Slot(q)] = q
    BY <1>3, <1>4 DEF LocksFollowStages, HoldsClaim, HoldsSlot
  <2>2. ~ (HoldsClaim(r) /\ Slot(q) = Slot(r))
    BY <1>3, <2>1 DEF LocksFollowStages, HoldsClaim, HoldsSlot
  <2> QED
    BY <1>3, <1>4, <2>2 DEF RecordsGrow, ClaimOf
<1> QED
  BY <1>2, <1>3, <1>4 DEF ClaimOf, RecordsGrow

\* The end of a transaction, whether it changed the books or not.
LEMMA FinishIInv ==
  ASSUME IInv, NEW r \in Requests, NEW answer, Finish(r, answer),
         faults' \in 0..MaxFaults, Rows', RecordsGrow(r)
  PROVE  IInv'
<1>1. Control' /\ Others(r) /\ stage'[r] = "done"
  BY FinishControl DEF IInv
<1>2. LocksFollowStages'
  BY FinishLocks DEF IInv
<1>3. ClaimOf(r)'
  BY <1>1 DEF ClaimOf, HoldsClaim, HoldsPolicy
<1>4. Claims'
  BY <1>1, <1>3, ClaimsFrame DEF IInv
<1> QED
  BY <1>1, <1>2, <1>4 DEF IInv

LEMMA SameBooks ==
  ASSUME Rows, UNCHANGED books, NEW r \in Requests
  PROVE  Rows' /\ RecordsGrow(r)
  BY DEF Rows, RecordsGrow, books, PaymentSlot

LEMMA RollbackIInv ==
  ASSUME IInv, NEW r \in Requests, NEW answer, Rollback(r, answer)
  PROVE  IInv'
<1>1. Finish(r, answer) /\ UNCHANGED books /\ faults' \in 0..MaxFaults
  BY DEF Rollback, IInv, Control
<1>2. Rows' /\ RecordsGrow(r)
  BY <1>1, SameBooks DEF IInv
<1> QED
  BY <1>1, <1>2, FinishIInv

\* A step to the next statement: the locks of the others stay as they are, and
\* what the request itself relies on holds at its new stage.
LEMMA ProceedIInv ==
  ASSUME IInv, NEW r \in Requests, NEW next \in Stages, NEW newDraft,
         DOMAIN newDraft = DOMAIN NoDraft, Proceed(r, next, newDraft),
         policyLock' \in [Policies -> Requests \cup {None}],
         slotLock' \in [Slots -> Requests \cup {None}],
         \A p \in Policies, q \in Requests \ {r} :
           policyLock'[p] = q <=> policyLock[p] = q,
         \A s \in Slots, q \in Requests \ {r} :
           slotLock'[s] = q <=> slotLock[s] = q,
         \A p \in Policies : policyLock'[p] = r <=> (HoldsPolicy(r)' /\ Policy(r)' = p),
         \A s \in Slots :
           slotLock'[s] = r <=> \/ (HoldsSlot(r)' /\ Slot(r)' = s)
                               \/ (stage'[r] = "copy" /\ draft'[r].original = s),
         ClaimOf(r)'
  PROVE  IInv'
<1>1. Control' /\ Others(r) /\ UNCHANGED books
  BY ProceedControl DEF IInv
<1>2. Rows' /\ RecordsGrow(r)
  BY <1>1, SameBooks DEF IInv
<1>3. LocksFollowStages'
  BY <1>1, LocksFrame DEF IInv
<1>4. Claims'
  BY <1>1, <1>2, ClaimsFrame DEF IInv
<1> QED
  BY <1>1, <1>2, <1>3, <1>4 DEF IInv

\* A request at a stage, and what it holds there.
LEMMA Own ==
  ASSUME IInv, NEW r \in Requests
  PROVE  /\ Slot(r) \in Slots /\ ClaimOf(r) /\ stage[r] \in Stages
         /\ DOMAIN draft[r] = DOMAIN NoDraft
         /\ \A p \in Policies : policyLock[p] = r <=> (HoldsPolicy(r) /\ Policy(r) = p)
         /\ \A s \in Slots :
              slotLock[s] = r <=> \/ (HoldsSlot(r) /\ Slot(r) = s)
                                 \/ (stage[r] = "copy" /\ draft[r].original = s)
  BY SlotType DEF IInv, Control, Claims, LocksFollowStages

LEMMA ClaimNewIInv ==
  ASSUME IInv, NEW r \in Requests, ClaimNew(r) PROVE IInv'
<1>1. /\ Proceed(r, "lock", NoDraft) /\ "lock" \in Stages
      /\ slotLock' = [slotLock EXCEPT ![Slot(r)] = r] /\ slotLock[Slot(r)] = None
      /\ UNCHANGED policyLock /\ stage[r] = "claim" /\ records[Slot(r)] = NoRecord
  BY DEF ClaimNew, SlotFree, Stages
<1>2. /\ policyLock' \in [Policies -> Requests \cup {None}]
      /\ slotLock' \in [Slots -> Requests \cup {None}]
  BY <1>1, Own DEF IInv, Control
<1>3. /\ Others(r) /\ UNCHANGED books
      /\ stage'[r] = "lock" /\ draft'[r] = NoDraft
  BY <1>1, <1>2, ProceedControl DEF IInv
<1>4. Slot(r)' = Slot(r) /\ Policy(r)' = Policy(r)
  BY <1>3 DEF Others, Slot, Policy
<1>5. \A s \in Slots :
        slotLock'[s] = IF s = Slot(r) THEN r ELSE slotLock[s]
  BY <1>1, Own DEF IInv, Control
<1>6. ClaimOf(r)'
  BY <1>1, <1>3, <1>4 DEF ClaimOf, HoldsClaim, HoldsPolicy, books
<1>7. \A p \in Policies : policyLock'[p] = r <=> (HoldsPolicy(r)' /\ Policy(r)' = p)
  BY <1>1, <1>3, Own DEF HoldsPolicy
<1>8. \A s \in Slots :
        slotLock'[s] = r <=> \/ (HoldsSlot(r)' /\ Slot(r)' = s)
                            \/ (stage'[r] = "copy" /\ draft'[r].original = s)
  BY <1>1, <1>3, <1>4, <1>5, Own DEF HoldsPolicy, HoldsSlot
<1>9. /\ \A p \in Policies, q \in Requests \ {r} :
             policyLock'[p] = q <=> policyLock[p] = q
      /\ \A s \in Slots, q \in Requests \ {r} :
             slotLock'[s] = q <=> slotLock[s] = q
  BY <1>1, <1>5, NoneAssumption
<1> QED
  BY <1>1, <1>2, <1>6, <1>7, <1>8, <1>9, ProceedIInv

\* A step that neither takes a lock nor is to hold one more.
LEMMA KeepLocksIInv ==
  ASSUME IInv, NEW r \in Requests, NEW next \in Stages, NEW newDraft,
         DOMAIN newDraft = DOMAIN NoDraft, Proceed(r, next, newDraft),
         UNCHANGED <<policyLock, slotLock>>,
         stage[r] # "copy", next # "copy",
         HoldsPolicy(r)' <=> HoldsPolicy(r), HoldsSlot(r)' <=> HoldsSlot(r),
         ClaimOf(r)'
  PROVE  IInv'
<1>1. /\ policyLock' \in [Policies -> Requests \cup {None}]
      /\ slotLock' \in [Slots -> Requests \cup {None}]
  BY DEF IInv, Control
<1>2. Others(r) /\ stage'[r] = next
  BY <1>1, ProceedControl DEF IInv
<1>3. Slot(r)' = Slot(r) /\ Policy(r)' = Policy(r)
  BY <1>2 DEF Others, Slot, Policy
<1>4. /\ \A p \in Policies : policyLock'[p] = r <=> (HoldsPolicy(r)' /\ Policy(r)' = p)
      /\ \A s \in Slots :
           slotLock'[s] = r <=> \/ (HoldsSlot(r)' /\ Slot(r)' = s)
                               \/ (stage'[r] = "copy" /\ draft'[r].original = s)
  BY <1>2, <1>3, Own
<1> QED
  BY <1>1, <1>4, ProceedIInv

LEMMA ClaimExistingIInv ==
  ASSUME IInv, NEW r \in Requests, ClaimExisting(r) PROVE IInv'
<1>1. /\ Proceed(r, "load", NoDraft) /\ "load" \in Stages
      /\ UNCHANGED <<policyLock, slotLock>>
      /\ stage[r] = "claim" /\ records[Slot(r)] # NoRecord
  BY DEF ClaimExisting, Stages
<1>2. /\ stage'[r] = "load" /\ records' = records /\ input' = input
  BY <1>1 DEF Proceed, books, IInv, Control
<1>3. /\ HoldsPolicy(r)' <=> HoldsPolicy(r)
      /\ HoldsSlot(r)' <=> HoldsSlot(r)
  BY <1>1, <1>2 DEF HoldsPolicy, HoldsSlot
<1>4. ClaimOf(r)'
  BY <1>1, <1>2 DEF ClaimOf, HoldsClaim, HoldsPolicy, Slot
<1> QED
  BY <1>1, <1>3, <1>4, KeepLocksIInv

LEMMA LoadRecordIInv ==
  ASSUME IInv, NEW r \in Requests, LoadRecord(r) PROVE IInv'
<1>1. CASE \E answer : Rollback(r, answer)
  BY <1>1, RollbackIInv
<1>2. CASE ~ \E answer : Rollback(r, answer)
  <2> DEFINE found == [NoDraft EXCEPT !.response = records[Slot(r)].response]
  <2>1. /\ stage[r] = "load" /\ slotLock[Slot(r)] = None
        /\ slotLock' = [slotLock EXCEPT ![Slot(r)] = r]
        /\ Proceed(r, "replay", found) /\ UNCHANGED policyLock
        /\ "replay" \in Stages
    BY <1>2 DEF LoadRecord, SlotFree, Stages
  <2>2. DOMAIN found = DOMAIN NoDraft
    BY DEF NoDraft
  <2> HIDE DEF found
  <2>3. /\ policyLock' \in [Policies -> Requests \cup {None}]
        /\ slotLock' \in [Slots -> Requests \cup {None}]
        /\ \A s \in Slots : slotLock'[s] = IF s = Slot(r) THEN r ELSE slotLock[s]
    BY <2>1, Own DEF IInv, Control
  <2>4. /\ Others(r) /\ UNCHANGED books /\ stage'[r] = "replay"
    BY <2>1, <2>2, <2>3, ProceedControl DEF IInv
  <2>5. Slot(r)' = Slot(r) /\ records' = records
    BY <2>4 DEF Others, Slot, books
  <2>6. ClaimOf(r)'
    BY <2>1, <2>4, <2>5, Own DEF ClaimOf, HoldsClaim, HoldsPolicy
  <2>7. \A p \in Policies : policyLock'[p] = r <=> (HoldsPolicy(r)' /\ Policy(r)' = p)
    BY <2>1, <2>4, Own DEF HoldsPolicy
  <2>8. \A s \in Slots :
          slotLock'[s] = r <=> \/ (HoldsSlot(r)' /\ Slot(r)' = s)
                              \/ (stage'[r] = "copy" /\ draft'[r].original = s)
    BY <2>1, <2>3, <2>4, <2>5, Own DEF HoldsPolicy, HoldsSlot
  <2>9. /\ \A p \in Policies, q \in Requests \ {r} :
               policyLock'[p] = q <=> policyLock[p] = q
        /\ \A s \in Slots, q \in Requests \ {r} :
               slotLock'[s] = q <=> slotLock[s] = q
    BY <2>1, <2>3, NoneAssumption
  <2> QED
    BY <2>1, <2>2, <2>3, <2>6, <2>7, <2>8, <2>9, ProceedIInv
<1> QED
  BY <1>1, <1>2

LEMMA OneMoreFault ==
  ASSUME Control, faults < MaxFaults, faults' = faults + 1
  PROVE  faults' \in 0..MaxFaults
<1>1. faults \in 0..MaxFaults
  BY DEF Control
<1> QED
  BY ONLY <1>1, faults < MaxFaults, faults' = faults + 1, FaultsAssumption

LEMMA AcknowledgeFinishes ==
  ASSUME Control, NEW r \in Requests, NEW answer, Acknowledge(r, answer)
  PROVE  \E given : Finish(r, given) /\ faults' \in 0..MaxFaults
<1>1. CASE Finish(r, answer) /\ UNCHANGED faults
  <2>1. faults' \in 0..MaxFaults
    BY <1>1 DEF Control
  <2> QED
    BY <1>1, <2>1
<1>2. CASE /\ faults < MaxFaults
           /\ faults' = faults + 1
           /\ Finish(r, Refused(500, "Internal server error"))
  BY <1>2, OneMoreFault
<1> QED
  BY <1>1, <1>2 DEF Acknowledge

LEMMA RecordShapes ==
  /\ \A hash, response : RecordShape(CompletedRecord(hash, response))
  /\ \A x : RecordShape(x) => RecordShape(Replayed(x)) /\ Replayed(x) # NoRecord
  /\ \A hash, response : CompletedRecord(hash, response) # NoRecord
  BY DEF RecordShape, CompletedRecord, Replayed, NoRecord, Book!NoRecord

LEMMA CommitReplayIInv ==
  ASSUME IInv, NEW r \in Requests, CommitReplay(r) PROVE IInv'
<1>1. PICK given : Finish(r, given) /\ faults' \in 0..MaxFaults
  BY AcknowledgeFinishes DEF CommitReplay, IInv
<1>2. /\ stage[r] = "replay" /\ payments' = payments
      /\ records' = [records EXCEPT ![Slot(r)] = Replayed(records[Slot(r)])]
  BY DEF CommitReplay
<1>3. RecordShape(records[Slot(r)])
  BY <1>2, Own DEF ClaimOf, IInv, Rows
<1>4. Rows'
  BY <1>2, <1>3, Own, RecordShapes DEF IInv, Rows, PaymentSlot
<1>5. RecordsGrow(r)
  BY <1>2, <1>3, Own, RecordShapes DEF IInv, Rows, RecordsGrow, ClaimOf
<1> QED
  BY <1>1, <1>4, <1>5, FinishIInv

LEMMA PolicyMissingIInv ==
  ASSUME IInv, NEW r \in Requests, PolicyMissing(r) PROVE IInv'
  BY RollbackIInv DEF PolicyMissing

LEMMA LockPolicyIInv ==
  ASSUME IInv, NEW r \in Requests, LockPolicy(r) PROVE IInv'
<1>1. CASE \E answer : Rollback(r, answer)
  BY <1>1, RollbackIInv
<1>2. CASE ~ \E answer : Rollback(r, answer)
  <2> DEFINE body == input[r].body
             next == IF IsEndorsement(body) THEN "append" ELSE "external"
             priced == [NoDraft EXCEPT
                          !.data = EventData(Policy(r), premium[Policy(r)], body)]
  <2>1. /\ stage[r] = "lock" /\ Policy(r) \in Policies
        /\ policyLock[Policy(r)] = None
        /\ policyLock' = [policyLock EXCEPT ![Policy(r)] = r]
        /\ Proceed(r, next, priced) /\ UNCHANGED slotLock
    BY <1>2 DEF LockPolicy, PolicyFree
  <2>2. next \in {"append", "external"} /\ next \in Stages
    BY DEF Stages
  <2>3. /\ DOMAIN priced = DOMAIN NoDraft
        /\ priced.data.kind = body.kind
    <3>1. body.kind \in {"endorsement", "payment"}
      BY SlotType, InputsAssumption DEF IInv
    <3>2. EventData(Policy(r), premium[Policy(r)], body).kind = body.kind
      BY <3>1 DEF EventData, IsEndorsement
    <3> QED
      BY <3>2 DEF NoDraft
  <2> HIDE DEF next, priced
  <2>4. /\ policyLock' \in [Policies -> Requests \cup {None}]
        /\ slotLock' \in [Slots -> Requests \cup {None}]
        /\ \A p \in Policies :
             policyLock'[p] = IF p = Policy(r) THEN r ELSE policyLock[p]
    BY <2>1 DEF IInv, Control
  <2>5. /\ Others(r) /\ UNCHANGED books /\ stage'[r] = next /\ draft'[r] = priced
    BY <2>1, <2>2, <2>3, <2>4, ProceedControl DEF IInv
  <2>6. /\ Slot(r)' = Slot(r) /\ Policy(r)' = Policy(r)
        /\ records' = records /\ input'[r] = input[r]
    BY <2>5 DEF Others, Slot, Policy, books
  <2>7. ClaimOf(r)'
    BY <2>1, <2>2, <2>3, <2>5, <2>6, Own DEF ClaimOf, HoldsClaim, HoldsPolicy
  <2>8. \A p \in Policies : policyLock'[p] = r <=> (HoldsPolicy(r)' /\ Policy(r)' = p)
    BY <2>1, <2>2, <2>4, <2>5, <2>6, Own DEF HoldsPolicy
  <2>9. \A s \in Slots :
          slotLock'[s] = r <=> \/ (HoldsSlot(r)' /\ Slot(r)' = s)
                              \/ (stage'[r] = "copy" /\ draft'[r].original = s)
    BY <2>1, <2>2, <2>5, <2>6, Own DEF HoldsPolicy, HoldsSlot
  <2>10. /\ \A p \in Policies, q \in Requests \ {r} :
                policyLock'[p] = q <=> policyLock[p] = q
         /\ \A s \in Slots, q \in Requests \ {r} :
                slotLock'[s] = q <=> slotLock[s] = q
    BY <2>1, <2>4, NoneAssumption
  <2> QED
    BY <2>1, <2>2, <2>3, <2>4, <2>7, <2>8, <2>9, <2>10, ProceedIInv
<1> QED
  BY <1>1, <1>2

LEMMA ExternalNewIInv ==
  ASSUME IInv, NEW r \in Requests, ExternalNew(r) PROVE IInv'
<1>1. /\ Proceed(r, "append", draft[r]) /\ "append" \in Stages
      /\ UNCHANGED <<policyLock, slotLock>> /\ stage[r] = "external"
  BY DEF ExternalNew, Stages
<1>2. /\ stage'[r] = "append" /\ draft'[r] = draft[r]
      /\ records' = records /\ input' = input
  BY <1>1 DEF Proceed, books, IInv, Control
<1>3. /\ HoldsPolicy(r)' <=> HoldsPolicy(r)
      /\ HoldsSlot(r)' <=> HoldsSlot(r)
  BY <1>1, <1>2 DEF HoldsPolicy, HoldsSlot
<1>4. ClaimOf(r)'
  BY <1>1, <1>2, Own DEF ClaimOf, HoldsClaim, HoldsPolicy, Slot, Policy
<1> QED
  BY <1>1, <1>3, <1>4, Own, KeepLocksIInv

LEMMA ExternalKnownIInv ==
  ASSUME IInv, NEW r \in Requests, ExternalKnown(r) PROVE IInv'
<1>1. CASE \E answer : Rollback(r, answer)
  BY <1>1, RollbackIInv
<1>2. CASE ~ \E answer : Rollback(r, answer)
  <2>1. PICK y \in Known(r) :
          /\ ExternalVerdict(r, y) = "replay"
          /\ Proceed(r, "original",
                     [draft[r] EXCEPT
                        !.original = PaymentSlot(Policy(r), y.key),
                        !.response = records[PaymentSlot(Policy(r), y.key)].response])
          /\ UNCHANGED <<policyLock, slotLock>>
    BY <1>2 DEF ExternalKnown
  <2> DEFINE original == PaymentSlot(Policy(r), y.key)
             found == [draft[r] EXCEPT !.original = original,
                                       !.response = records[original].response]
  <2>2. stage[r] = "external" /\ "original" \in Stages
    BY DEF ExternalKnown, Stages
  <2>3. DOMAIN found = DOMAIN NoDraft /\ found.original = original
    BY Own DEF NoDraft
  <2>4. original \in Slots /\ records[original] # NoRecord
    <3>1. Policy(r) \in Policies
      BY <2>2, Own DEF ClaimOf, HoldsPolicy
    <3>2. original \in Slots
      BY <3>1, <2>1 DEF Known, IInv, Rows
    <3>3. records[original].status = "completed"
      BY <2>1 DEF ExternalVerdict
    <3> QED
      BY <3>2, <3>3 DEF NoRecord, Book!NoRecord
  <2> HIDE DEF found, original
  <2>5. Proceed(r, "original", found)
    BY <2>1 DEF found, original
  <2>6. /\ stage'[r] = "original" /\ draft'[r] = found
        /\ records' = records /\ input' = input
    BY <2>5 DEF Proceed, books, IInv, Control
  <2>7. /\ HoldsPolicy(r)' <=> HoldsPolicy(r)
        /\ HoldsSlot(r)' <=> HoldsSlot(r)
    BY <2>2, <2>6 DEF HoldsPolicy, HoldsSlot
  <2>8. ClaimOf(r)'
    BY <2>2, <2>3, <2>4, <2>6, Own DEF ClaimOf, HoldsClaim, HoldsPolicy, Slot, Policy
  <2> QED
    BY <2>1, <2>2, <2>3, <2>5, <2>7, <2>8, KeepLocksIInv
<1> QED
  BY <1>1, <1>2

LEMMA CountOriginalIInv ==
  ASSUME IInv, NEW r \in Requests, CountOriginal(r) PROVE IInv'
<1> DEFINE original == draft[r].original
<1>1. /\ Proceed(r, "copy", draft[r]) /\ "copy" \in Stages
      /\ slotLock' = [slotLock EXCEPT ![original] = r] /\ slotLock[original] = None
      /\ UNCHANGED policyLock /\ stage[r] = "original"
  BY DEF CountOriginal, SlotFree, Stages
<1>2. original \in Slots
  BY <1>1, Own DEF ClaimOf
<1>3. /\ policyLock' \in [Policies -> Requests \cup {None}]
      /\ slotLock' \in [Slots -> Requests \cup {None}]
      /\ \A s \in Slots : slotLock'[s] = IF s = original THEN r ELSE slotLock[s]
  BY <1>1, <1>2 DEF IInv, Control
<1>4. DOMAIN draft[r] = DOMAIN NoDraft
  BY Own
<1>5. /\ Others(r) /\ UNCHANGED books
      /\ stage'[r] = "copy" /\ draft'[r] = draft[r]
  BY <1>1, <1>3, <1>4, ProceedControl DEF IInv
<1>6. /\ Slot(r)' = Slot(r) /\ Policy(r)' = Policy(r) /\ records' = records
  BY <1>5 DEF Others, Slot, Policy, books
<1>7. ClaimOf(r)'
  BY <1>1, <1>5, <1>6, Own DEF ClaimOf, HoldsClaim, HoldsPolicy
<1>8. \A p \in Policies : policyLock'[p] = r <=> (HoldsPolicy(r)' /\ Policy(r)' = p)
  BY <1>1, <1>5, <1>6, Own DEF HoldsPolicy
<1>9. \A s \in Slots :
        slotLock'[s] = r <=> \/ (HoldsSlot(r)' /\ Slot(r)' = s)
                            \/ (stage'[r] = "copy" /\ draft'[r].original = s)
  BY <1>1, <1>3, <1>5, <1>6, Own DEF HoldsPolicy, HoldsSlot
<1>10. /\ \A p \in Policies, q \in Requests \ {r} :
              policyLock'[p] = q <=> policyLock[p] = q
       /\ \A s \in Slots, q \in Requests \ {r} :
              slotLock'[s] = q <=> slotLock[s] = q
  BY <1>1, <1>3, NoneAssumption
<1> QED
  BY <1>1, <1>3, <1>4, <1>7, <1>8, <1>9, <1>10, ProceedIInv

LEMMA CommitCopyIInv ==
  ASSUME IInv, NEW r \in Requests, CommitCopy(r) PROVE IInv'
<1>1. PICK given : Finish(r, given) /\ faults' \in 0..MaxFaults
  BY AcknowledgeFinishes DEF CommitCopy, IInv
<1> DEFINE original == draft[r].original
           copy == CompletedRecord(RequestHash(input[r]), draft[r].response)
<1>2. /\ stage[r] = "copy" /\ payments' = payments
      /\ records' = [records EXCEPT ![original] = Replayed(records[original]),
                                    ![Slot(r)] = copy]
  BY DEF CommitCopy
<1>3. /\ RecordShape(records[original]) /\ records[original] # NoRecord
      /\ original \in Slots /\ HoldsClaim(r)
  BY <1>2, Own DEF ClaimOf, IInv, Rows, HoldsClaim, HoldsPolicy
<1>4. RecordShape(copy) /\ copy # NoRecord
  BY RecordShapes
<1> HIDE DEF copy, original
<1>5. Rows'
  BY <1>2, <1>3, <1>4, Own, RecordShapes DEF IInv, Rows, PaymentSlot
<1>6. RecordsGrow(r)
  <2>1. Replayed(records[original]) # NoRecord /\ records[Slot(r)] = NoRecord
    BY <1>3, Own, RecordShapes DEF ClaimOf
  <2>2. \A s \in Slots :
          records'[s] = IF s = Slot(r) THEN copy
                        ELSE IF s = original THEN Replayed(records[original])
                        ELSE records[s]
    BY <1>2 DEF IInv, Rows
  <2> QED
    BY <1>3, <1>4, <2>1, <2>2 DEF RecordsGrow
<1> QED
  BY <1>1, <1>5, <1>6, FinishIInv

LEMMA AppendEventIInv ==
  ASSUME IInv, NEW r \in Requests, AppendEvent(r) PROVE IInv'
<1> DEFINE event == NextEvent(events[Policy(r)], draft[r].data, input[r].key)
           appended == [draft[r] EXCEPT !.event = event]
<1>1. /\ Proceed(r, "settle", appended) /\ "settle" \in Stages
      /\ UNCHANGED <<policyLock, slotLock>> /\ stage[r] = "append"
  BY DEF AppendEvent, Stages
<1>2. event.key = input[r].key /\ event.payload = draft[r].data
  BY DEF NextEvent
<1> HIDE DEF event
<1>3. /\ DOMAIN appended = DOMAIN NoDraft
      /\ appended.event = event /\ appended.data = draft[r].data
  BY Own DEF NoDraft
<1> HIDE DEF appended
<1>4. /\ stage'[r] = "settle" /\ draft'[r] = appended
      /\ records' = records /\ input' = input
  BY <1>1 DEF Proceed, books, IInv, Control
<1>5. /\ HoldsPolicy(r)' <=> HoldsPolicy(r)
      /\ HoldsSlot(r)' <=> HoldsSlot(r)
  BY <1>1, <1>4 DEF HoldsPolicy, HoldsSlot
<1>6. ClaimOf(r)'
  BY <1>1, <1>2, <1>3, <1>4, Own DEF ClaimOf, HoldsClaim, HoldsPolicy, Slot, Policy
<1> QED
  BY <1>1, <1>3, <1>5, <1>6, KeepLocksIInv

LEMMA SettleIInv ==
  ASSUME IInv, NEW r \in Requests, Settle(r) PROVE IInv'
<1> DEFINE balance == OpenBalance(SeenDocuments(r), SeenPayments(r))
           settled == [draft[r] EXCEPT
                         !.paid = ToSettle(SeenDocuments(r), balance),
                         !.response = Response(draft[r].event, balance)]
<1>1. /\ Proceed(r, "commit", settled) /\ "commit" \in Stages
      /\ UNCHANGED <<policyLock, slotLock>> /\ stage[r] = "settle"
  BY DEF Settle, Stages
<1> HIDE DEF balance
<1>2. /\ DOMAIN settled = DOMAIN NoDraft
      /\ settled.event = draft[r].event /\ settled.data = draft[r].data
  BY Own DEF NoDraft
<1> HIDE DEF settled
<1>3. /\ stage'[r] = "commit" /\ draft'[r] = settled
      /\ records' = records /\ input' = input
  BY <1>1 DEF Proceed, books, IInv, Control
<1>4. /\ HoldsPolicy(r)' <=> HoldsPolicy(r)
      /\ HoldsSlot(r)' <=> HoldsSlot(r)
  BY <1>1, <1>3 DEF HoldsPolicy, HoldsSlot
<1>5. ClaimOf(r)'
  BY <1>1, <1>2, <1>3, Own DEF ClaimOf, HoldsClaim, HoldsPolicy, Slot, Policy
<1> QED
  BY <1>1, <1>2, <1>4, <1>5, KeepLocksIInv

LEMMA CommitEventIInv ==
  ASSUME IInv, NEW r \in Requests, CommitEvent(r) PROVE IInv'
<1>1. CASE \E answer : Rollback(r, answer)
  BY <1>1, RollbackIInv
<1>2. CASE ~ \E answer : Rollback(r, answer)
  <2> DEFINE stored == CompletedRecord(RequestHash(input[r]), draft[r].response)
             event == draft[r].event
             p == Policy(r)
  <2>1. stage[r] = "commit" /\ Publish(r) /\ Acknowledge(r, Answered(draft[r].response, FALSE))
    BY <1>2 DEF CommitEvent
  <2>2. PICK given : Finish(r, given) /\ faults' \in 0..MaxFaults
    BY <2>1, AcknowledgeFinishes DEF IInv
  <2>3. /\ records' = [records EXCEPT ![Slot(r)] = stored]
        /\ payments' = [payments EXCEPT ![p] = payments[p] \cup NewPayments(event)]
    BY <2>1 DEF Publish, SeenPayments
  <2>4. HoldsClaim(r) /\ p \in Policies /\ records[Slot(r)] = NoRecord
    BY <2>1, Own DEF ClaimOf, HoldsClaim, HoldsPolicy
  <2>5. RecordShape(stored) /\ stored # NoRecord
    BY RecordShapes
  <2>6. \A y \in NewPayments(event) : PaymentSlot(p, y.key) = Slot(r)
    <3>1. /\ event.key = input[r].key
          /\ event.payload.kind = input[r].body.kind
      BY <2>1, Own DEF ClaimOf
    <3> QED
      BY <3>1 DEF NewPayments, Payment, PaymentSlot, Slot, SlotOf, Policy
  <2> HIDE DEF stored, event, p
  <2>7. Rows'
    <3>1. \A s \in Slots : records'[s] = NoRecord \/ RecordShape(records'[s])
      BY <2>3, <2>5 DEF IInv, Rows
    <3>2. ASSUME NEW q \in Policies, NEW y \in payments'[q]
          PROVE  PaymentSlot(q, y.key) \in Slots
      BY <2>3, <2>4, <2>6, Own DEF IInv, Rows
    <3> QED
      BY <2>3, <3>1, <3>2 DEF IInv, Rows, PaymentSlot
  <2>8. RecordsGrow(r)
    BY <2>3, <2>4, <2>5 DEF IInv, Rows, RecordsGrow
  <2> QED
    BY <2>2, <2>7, <2>8, FinishIInv
<1> QED
  BY <1>1, <1>2

LEMMA AbortIInv ==
  ASSUME IInv, NEW r \in Requests, Abort(r) PROVE IInv'
<1>1. PICK failure \in Failures : Finish(r, failure)
  BY DEF Abort
<1>2. faults' \in 0..MaxFaults
  BY OneMoreFault DEF Abort, IInv
<1>3. Rows' /\ RecordsGrow(r)
  BY SameBooks DEF Abort, IInv
<1> QED
  BY <1>1, <1>2, <1>3, FinishIInv

LEMMA ResendIInv ==
  ASSUME IInv, NEW r \in Requests, Resend(r) PROVE IInv'
<1>1. /\ stage[r] = "done" /\ stage' = [stage EXCEPT ![r] = "claim"]
      /\ UNCHANGED <<books, policyLock, slotLock, input, draft, faults>>
      /\ reply' = [reply EXCEPT ![r] = None]
  BY DEF Resend
<1>2. Others(r) /\ Control' /\ stage'[r] = "claim"
  BY <1>1 DEF Others, IInv, Control, Stages
<1>3. Rows' /\ RecordsGrow(r)
  BY <1>1, SameBooks DEF IInv
<1>4. /\ \A p \in Policies : policyLock'[p] = r <=> (HoldsPolicy(r)' /\ Policy(r)' = p)
      /\ \A s \in Slots :
           slotLock'[s] = r <=> \/ (HoldsSlot(r)' /\ Slot(r)' = s)
                               \/ (stage'[r] = "copy" /\ draft'[r].original = s)
  BY <1>1, <1>2, Own DEF HoldsPolicy, HoldsSlot
<1>5. LocksFollowStages'
  BY <1>1, <1>2, <1>4, LocksFrame DEF IInv
<1>6. Claims'
  BY <1>2, <1>3, ClaimsFrame DEF IInv, ClaimOf, HoldsClaim, HoldsPolicy
<1> QED
  BY <1>2, <1>3, <1>5, <1>6 DEF IInv

LEMMA StutterIInv == ASSUME IInv, UNCHANGED vars PROVE IInv'
<1>1. Control' /\ Rows'
  BY DEF vars, IInv, Control, Rows, PaymentSlot
<1>2. LocksFollowStages' /\ Claims'
  BY DEF vars, IInv, LocksFollowStages, Claims, ClaimOf, HoldsClaim, HoldsPolicy,
         HoldsSlot, Slot, Policy
<1> QED
  BY <1>1, <1>2 DEF IInv

LEMMA NextIInv == IInv /\ [Next]_vars => IInv'
<1> SUFFICES ASSUME IInv, [Next]_vars PROVE IInv'
  OBVIOUS
<1>1. ASSUME NEW r \in Requests, Step(r) PROVE IInv'
  BY <1>1, ClaimNewIInv, ClaimExistingIInv, LoadRecordIInv, CommitReplayIInv,
     PolicyMissingIInv, LockPolicyIInv, ExternalNewIInv, ExternalKnownIInv,
     CountOriginalIInv, CommitCopyIInv, AppendEventIInv, SettleIInv,
     CommitEventIInv DEF Step
<1>2. CASE UNCHANGED vars
  BY <1>2, StutterIInv
<1> QED
  BY <1>1, <1>2, AbortIInv, ResendIInv DEF Next, Quiescent

\* The locking invariant of every instance: it is inductive as it stands.
THEOREM LockingInvariant == Spec => []IInv
<1>1. Init => IInv
  BY InitIInv
<1>2. IInv /\ [Next]_vars => IInv'
  BY NextIInv
<1> QED
  BY <1>1, <1>2, PTL DEF Spec

LEMMA TypeOKHolds == IInv => TypeOK
  BY DEF IInv, Control, Rows, RecordShape, TypeOK

\* Type correctness of the concurrent implementation: among others, no record
\* is ever committed that is not complete.
THEOREM TypeCorrect == Spec => []TypeOK
  BY LockingInvariant, TypeOKHolds, PTL

\* At every moment the row locks are exactly those that the stages of the
\* running transactions call for: none is leaked, none is shared.
THEOREM LocksCorrect == Spec => []LocksFollowStages
<1>1. IInv => LocksFollowStages
  BY DEF IInv
<1> QED
  BY <1>1, LockingInvariant, PTL

-----------------------------------------------------------------------------
\* Whom a request waits for is a request at a later kind of lock: claims and
\* loads wait for a request that is at its policy or past it, policy locks
\* for one past the policy, and that one, if it waits at all, waits for one
\* that has nothing left to wait for.

LEMMA WaitingStages ==
  ASSUME NEW r \in Requests, NEW q \in Requests, WaitsFor(r) = q
  PROVE  \/ stage[r] \in {"claim", "load"} /\ slotLock[Slot(r)] = q
         \/ /\ stage[r] = "lock" /\ Policy(r) \in Policies
            /\ policyLock[Policy(r)] = q
         \/ stage[r] = "original" /\ slotLock[draft[r].original] = q
  BY NoneAssumption DEF WaitsFor

LEMMA OriginalNeverBlocks ==
  ASSUME IInv, NEW r \in Requests, NEW q \in Requests, stage[r] = "original",
         slotLock[draft[r].original] = q
  PROVE  stage[q] \in {"replay", "copy"}
<1>1. draft[r].original \in Slots /\ records[draft[r].original] # NoRecord
  BY Own DEF ClaimOf
<1>2. \/ HoldsSlot(q) /\ Slot(q) = draft[r].original
      \/ stage[q] = "copy"
  BY <1>1, Own
<1>3. ~ (HoldsClaim(q) /\ Slot(q) = draft[r].original)
  BY <1>1, Own DEF ClaimOf
<1> QED
  BY <1>2, <1>3 DEF HoldsSlot, HoldsClaim

LEMMA PolicyHolderWaitsForOriginal ==
  ASSUME IInv, NEW r \in Requests, NEW q \in Requests, HoldsPolicy(r), WaitsFor(r) = q
  PROVE  stage[q] \in {"replay", "copy"}
  BY WaitingStages, OriginalNeverBlocks DEF HoldsPolicy

LEMMA NoCircle == IInv => NoDeadlock
<1> SUFFICES ASSUME IInv, NEW S \in SUBSET Requests, NEW r \in S,
                    \A q \in S : WaitsFor(q) \in S
             PROVE  FALSE
  BY DEF NoDeadlock
<1>1. ASSUME NEW q \in S PROVE stage[q] \notin {"replay", "copy"}
  <2>1. WaitsFor(q) \in Requests
    OBVIOUS
  <2> QED
    BY <2>1, WaitingStages
<1>2. ASSUME NEW q \in S PROVE ~ HoldsPolicy(q)
  BY <1>1, PolicyHolderWaitsForOriginal
<1>3. ASSUME NEW q \in S PROVE stage[q] # "lock"
  <2> SUFFICES ASSUME stage[q] = "lock" PROVE FALSE
    OBVIOUS
  <2>1. PICK h \in S : WaitsFor(q) = h
    OBVIOUS
  <2>2. Policy(q) \in Policies /\ policyLock[Policy(q)] = h
    BY <2>1, WaitingStages
  <2>3. HoldsPolicy(h)
    BY <2>2, Own
  <2> QED
    BY <2>3, <1>2
<1>4. PICK h \in S : WaitsFor(r) = h
  OBVIOUS
<1>5. stage[r] \in {"claim", "load"} /\ slotLock[Slot(r)] = h
  BY <1>2, <1>3, <1>4, WaitingStages DEF HoldsPolicy
<1>6. HoldsSlot(h) \/ stage[h] = "copy"
  BY <1>5, Own
<1> QED
  BY <1>1, <1>2, <1>3, <1>6 DEF HoldsSlot

\* Deadlock freedom for any number of requests, keys and policies: no set of
\* requests waits in a circle, so PostgreSQL's deadlock detector, whose error
\* the exception filter does not name, is never needed.
THEOREM DeadlockFree == Spec => []NoDeadlock
  BY LockingInvariant, NoCircle, PTL

-----------------------------------------------------------------------------
\* Part two: the data of a transaction, and the refinement of PolicyBook.

\* What request r has read and computed, and still may rely on, with the
\* columns of its own policy p.
PolicyData(r) ==
  LET p == Policy(r)
  IN  /\ HoldsPolicy(r) => Refusal(p, premium[p], input[r].body) = "none"
      /\ stage[r] \in {"external", "append", "settle", "commit"} =>
           draft[r].data = EventData(p, premium[p], input[r].body)
      /\ stage[r] \in {"settle", "commit"} =>
           draft[r].event = NextEvent(events[p], draft[r].data, input[r].key)
      /\ stage[r] = "commit" =>
           /\ draft[r].response =
                Response(draft[r].event, OpenBalance(SeenDocuments(r), SeenPayments(r)))
           /\ draft[r].paid =
                ToSettle(SeenDocuments(r), OpenBalance(SeenDocuments(r), SeenPayments(r)))
      /\ stage[r] \in {"append", "settle", "commit"} /\ ~ IsEndorsement(input[r].body) =>
           Known(r) = {}
      /\ stage[r] \in {"external", "original", "copy"} => ~ IsEndorsement(input[r].body)

\* What it read of the records: an answer that is repeated is the stored one,
\* and is repeated to a request for the same thing.
RecordData(r) ==
  /\ stage[r] = "replay" =>
       /\ records[Slot(r)].hash = RequestHash(input[r])
       /\ draft[r].response = records[Slot(r)].response
  /\ stage[r] \in {"original", "copy"} =>
       /\ draft[r].response = records[draft[r].original].response
       /\ \E y \in Known(r) : /\ y.amount = input[r].body.amount
                              /\ draft[r].original = PaymentSlot(Policy(r), y.key)

Tables == /\ DOMAIN premium = Policies
          /\ DOMAIN events = Policies
          /\ DOMAIN documents = Policies

DataInv == /\ IInv
           /\ Tables
           /\ \A r \in Requests : PolicyData(r) /\ RecordData(r)

LEMMA InitData == Init => DataInv
<1> SUFFICES ASSUME Init PROVE DataInv
  OBVIOUS
<1>1. IInv
  BY InitIInv
<1>2. Tables
  BY SameSets DEF Init, Book!Init, Tables
<1>3. ASSUME NEW r \in Requests PROVE PolicyData(r) /\ RecordData(r)
  BY DEF Init, PolicyData, RecordData, HoldsPolicy
<1> QED
  BY <1>1, <1>2, <1>3 DEF DataInv

-----------------------------------------------------------------------------
\* What the steps of others leave of what q relies on.

SameColumns(p) == /\ premium'[p] = premium[p]
                  /\ events'[p] = events[p]
                  /\ documents'[p] = documents[p]
                  /\ payments'[p] = payments[p]

AnswersKept ==
  \A s \in Slots : records[s] # NoRecord =>
    /\ records'[s].hash = records[s].hash
    /\ records'[s].response = records[s].response

LEMMA DataFrame ==
  ASSUME IInv, NEW r \in Requests, Others(r), NEW q \in Requests \ {r},
         PolicyData(q), RecordData(q),
         HoldsPolicy(q) => SameColumns(Policy(q)), AnswersKept
  PROVE  PolicyData(q)' /\ RecordData(q)'
<1>1. /\ stage'[q] = stage[q] /\ draft'[q] = draft[q] /\ input' = input
      /\ HoldsPolicy(q)' <=> HoldsPolicy(q)
      /\ Policy(q)' = Policy(q) /\ Slot(q)' = Slot(q)
  BY DEF Others, HoldsPolicy, Policy, Slot
<1>2. HoldsPolicy(q) =>
        /\ Known(q)' = Known(q)
        /\ SeenDocuments(q)' = SeenDocuments(q)
        /\ SeenPayments(q)' = SeenPayments(q)
  BY <1>1 DEF SameColumns, Known, SeenDocuments, SeenPayments
<1>3. PolicyData(q)'
  BY <1>1, <1>2 DEF PolicyData, SameColumns, HoldsPolicy
<1>4. ClaimOf(q) /\ Slot(q) \in Slots
  BY Own
<1>5. RecordData(q)'
  BY <1>1, <1>2, <1>4 DEF RecordData, AnswersKept, ClaimOf, HoldsPolicy
<1> QED
  BY <1>3, <1>5

\* A step that leaves the books alone.
LEMMA SameBooksData ==
  ASSUME DataInv, IInv', NEW r \in Requests, Others(r), UNCHANGED books,
         PolicyData(r)', RecordData(r)'
  PROVE  DataInv'
<1>1. Tables'
  BY DEF DataInv, Tables, books
<1>2. AnswersKept /\ \A p : SameColumns(p)
  BY DEF AnswersKept, SameColumns, books
<1>3. ASSUME NEW q \in Requests \ {r} PROVE PolicyData(q)' /\ RecordData(q)'
  BY <1>2, DataFrame DEF DataInv
<1> QED
  BY <1>1, <1>3 DEF DataInv

\* At these stages a request relies on nothing it has read.
LEMMA FreshData ==
  ASSUME NEW r \in Requests, stage'[r] \in {"claim", "load", "lock", "done"}
  PROVE  PolicyData(r)' /\ RecordData(r)'
  BY DEF PolicyData, RecordData, HoldsPolicy

LEMMA RollbackData ==
  ASSUME DataInv, IInv', NEW r \in Requests, NEW answer, Rollback(r, answer)
  PROVE  DataInv'
<1>1. Finish(r, answer) /\ UNCHANGED books /\ faults' \in 0..MaxFaults
  BY DEF Rollback, DataInv, IInv, Control
<1>2. Others(r) /\ stage'[r] = "done"
  BY <1>1, FinishControl DEF DataInv, IInv
<1> QED
  BY <1>1, <1>2, FreshData, SameBooksData

\* A step to another statement.
LEMMA ProceedData ==
  ASSUME DataInv, IInv', NEW r \in Requests, NEW next \in Stages, NEW newDraft,
         Proceed(r, next, newDraft)
  PROVE  /\ stage'[r] = next /\ draft'[r] = newDraft
         /\ Others(r) /\ UNCHANGED books
         /\ Policy(r)' = Policy(r) /\ Slot(r)' = Slot(r)
         /\ Known(r)' = Known(r)
         /\ PolicyData(r)' /\ RecordData(r)' => DataInv'
<1>1. /\ stage'[r] = next /\ draft'[r] = newDraft
      /\ Others(r) /\ UNCHANGED books
  BY DEF Proceed, Others, DataInv, IInv, Control
<1>2. /\ Policy(r)' = Policy(r) /\ Slot(r)' = Slot(r)
      /\ Known(r)' = Known(r)
  BY <1>1 DEF Others, Policy, Slot, Known, books
<1> QED
  BY <1>1, <1>2, SameBooksData

-----------------------------------------------------------------------------
\* The invariant under the statements of a request.  IInv' is known of every
\* step from NextIInv.

LEMMA LoadRecordData ==
  ASSUME DataInv, IInv', NEW r \in Requests, LoadRecord(r) PROVE DataInv'
<1>1. CASE \E answer : Rollback(r, answer)
  BY <1>1, RollbackData
<1>2. CASE ~ \E answer : Rollback(r, answer)
  <2> DEFINE found == [NoDraft EXCEPT !.response = records[Slot(r)].response]
  <2>1. /\ ClaimVerdict(records[Slot(r)], RequestHash(input[r])) = "replay"
        /\ Proceed(r, "replay", found) /\ "replay" \in Stages
    BY <1>2 DEF LoadRecord, Stages
  <2>2. records[Slot(r)].hash = RequestHash(input[r])
    BY <2>1 DEF ClaimVerdict
  <2>3. found.response = records[Slot(r)].response
    BY DEF NoDraft
  <2> HIDE DEF found
  <2>4. /\ stage'[r] = "replay" /\ draft'[r] = found
        /\ Slot(r)' = Slot(r) /\ records' = records /\ input' = input
    BY <2>1, ProceedData DEF books, Others
  <2>5. PolicyData(r)' /\ RecordData(r)'
    BY <2>2, <2>3, <2>4 DEF PolicyData, RecordData, HoldsPolicy, RequestHash
  <2> QED
    BY <2>1, <2>5, ProceedData
<1> QED
  BY <1>1, <1>2

LEMMA LockPolicyData ==
  ASSUME DataInv, IInv', NEW r \in Requests, LockPolicy(r) PROVE DataInv'
<1>1. CASE \E answer : Rollback(r, answer)
  BY <1>1, RollbackData
<1>2. CASE ~ \E answer : Rollback(r, answer)
  <2> DEFINE p == Policy(r)
             body == input[r].body
             next == IF IsEndorsement(body) THEN "append" ELSE "external"
             priced == [NoDraft EXCEPT !.data = EventData(p, premium[p], body)]
  <2>1. /\ Refusal(p, premium[p], body) = "none"
        /\ Proceed(r, next, priced) /\ next \in Stages
    BY <1>2 DEF LockPolicy, Stages
  <2>2. priced.data = EventData(p, premium[p], body)
    BY DEF NoDraft
  <2>3. \/ next = "append" /\ IsEndorsement(body)
        \/ next = "external" /\ ~ IsEndorsement(body)
    OBVIOUS
  <2> HIDE DEF priced, next
  <2>4. /\ stage'[r] = next /\ draft'[r] = priced /\ Policy(r)' = p
        /\ premium' = premium /\ input' = input
    BY <2>1, ProceedData DEF books, Others
  <2>5. PolicyData(r)' /\ RecordData(r)'
    BY <2>1, <2>2, <2>3, <2>4 DEF PolicyData, RecordData, HoldsPolicy
  <2> QED
    BY <2>1, <2>5, ProceedData
<1> QED
  BY <1>1, <1>2

LEMMA ExternalNewData ==
  ASSUME DataInv, IInv', NEW r \in Requests, ExternalNew(r) PROVE DataInv'
<1>1. /\ stage[r] = "external" /\ Known(r) = {}
      /\ Proceed(r, "append", draft[r]) /\ "append" \in Stages
  BY DEF ExternalNew, Stages
<1>2. /\ stage'[r] = "append" /\ draft'[r] = draft[r] /\ Policy(r)' = Policy(r)
      /\ Known(r)' = Known(r) /\ premium' = premium /\ input' = input
  BY <1>1, ProceedData DEF books, Others
<1>3. PolicyData(r)' /\ RecordData(r)'
  BY <1>1, <1>2 DEF DataInv, PolicyData, RecordData, HoldsPolicy
<1> QED
  BY <1>1, <1>3, ProceedData

LEMMA ExternalKnownData ==
  ASSUME DataInv, IInv', NEW r \in Requests, ExternalKnown(r) PROVE DataInv'
<1>1. CASE \E answer : Rollback(r, answer)
  BY <1>1, RollbackData
<1>2. CASE ~ \E answer : Rollback(r, answer)
  <2>1. PICK y \in Known(r) :
          /\ ExternalVerdict(r, y) = "replay"
          /\ Proceed(r, "original",
                     [draft[r] EXCEPT
                        !.original = PaymentSlot(Policy(r), y.key),
                        !.response = records[PaymentSlot(Policy(r), y.key)].response])
    BY <1>2 DEF ExternalKnown
  <2> DEFINE original == PaymentSlot(Policy(r), y.key)
             found == [draft[r] EXCEPT !.original = original,
                                       !.response = records[original].response]
  <2>2. stage[r] = "external" /\ "original" \in Stages
    BY DEF ExternalKnown, Stages
  <2>3. found.original = original /\ found.response = records[original].response
    BY Own DEF NoDraft, DataInv
  <2>4. y.amount = input[r].body.amount
    BY <2>1 DEF ExternalVerdict
  <2> HIDE DEF found
  <2>5. Proceed(r, "original", found)
    BY <2>1 DEF found
  <2>6. /\ stage'[r] = "original" /\ draft'[r] = found /\ Policy(r)' = Policy(r)
        /\ Known(r)' = Known(r) /\ UNCHANGED <<premium, records, input>>
    BY <2>2, <2>5, ProceedData DEF books, Others
  <2>7. PolicyData(r)'
    BY <2>2, <2>6 DEF DataInv, PolicyData, HoldsPolicy
  <2>8. RecordData(r)'
    BY <2>1, <2>3, <2>4, <2>6 DEF RecordData
  <2> QED
    BY <2>2, <2>5, <2>7, <2>8, ProceedData
<1> QED
  BY <1>1, <1>2

LEMMA CountOriginalData ==
  ASSUME DataInv, IInv', NEW r \in Requests, CountOriginal(r) PROVE DataInv'
<1>1. /\ stage[r] = "original"
      /\ Proceed(r, "copy", draft[r]) /\ "copy" \in Stages
  BY DEF CountOriginal, Stages
<1>2. /\ stage'[r] = "copy" /\ draft'[r] = draft[r] /\ Policy(r)' = Policy(r)
      /\ Known(r)' = Known(r) /\ UNCHANGED <<premium, records, input>>
  BY <1>1, ProceedData DEF books, Others
<1>3. PolicyData(r)' /\ RecordData(r)'
  BY <1>1, <1>2 DEF DataInv, PolicyData, RecordData, HoldsPolicy
<1> QED
  BY <1>1, <1>3, ProceedData

LEMMA AppendEventData ==
  ASSUME DataInv, IInv', NEW r \in Requests, AppendEvent(r) PROVE DataInv'
<1> DEFINE event == NextEvent(events[Policy(r)], draft[r].data, input[r].key)
           appended == [draft[r] EXCEPT !.event = event]
<1>1. /\ stage[r] = "append"
      /\ Proceed(r, "settle", appended) /\ "settle" \in Stages
  BY DEF AppendEvent, Stages
<1>2. appended.event = event /\ appended.data = draft[r].data
  BY Own DEF NoDraft, DataInv
<1> HIDE DEF appended
<1>3. /\ stage'[r] = "settle" /\ draft'[r] = appended /\ Policy(r)' = Policy(r)
      /\ Known(r)' = Known(r) /\ UNCHANGED <<premium, events, input>>
  BY <1>1, ProceedData DEF books, Others
<1>4. PolicyData(r)' /\ RecordData(r)'
  BY <1>1, <1>2, <1>3 DEF DataInv, PolicyData, RecordData, HoldsPolicy
<1> QED
  BY <1>1, <1>4, ProceedData

LEMMA SettleData ==
  ASSUME DataInv, IInv', NEW r \in Requests, Settle(r) PROVE DataInv'
<1> DEFINE balance == OpenBalance(SeenDocuments(r), SeenPayments(r))
           settled == [draft[r] EXCEPT
                         !.paid = ToSettle(SeenDocuments(r), balance),
                         !.response = Response(draft[r].event, balance)]
<1>1. /\ stage[r] = "settle"
      /\ Proceed(r, "commit", settled) /\ "commit" \in Stages
  BY DEF Settle, Stages
<1>2. /\ settled.event = draft[r].event /\ settled.data = draft[r].data
      /\ settled.paid = ToSettle(SeenDocuments(r), balance)
      /\ settled.response = Response(draft[r].event, balance)
  BY Own DEF NoDraft, DataInv
<1> HIDE DEF settled
<1>3. /\ stage'[r] = "commit" /\ draft'[r] = settled /\ Policy(r)' = Policy(r)
      /\ Known(r)' = Known(r)
      /\ UNCHANGED <<premium, events, documents, payments, input>>
  BY <1>1, ProceedData DEF books, Others
<1>4. SeenDocuments(r)' = SeenDocuments(r) /\ SeenPayments(r)' = SeenPayments(r)
  BY <1>2, <1>3 DEF SeenDocuments, SeenPayments
<1>5. PolicyData(r)' /\ RecordData(r)'
  BY <1>1, <1>2, <1>3, <1>4 DEF DataInv, PolicyData, RecordData, HoldsPolicy
<1> QED
  BY <1>1, <1>5, ProceedData

-----------------------------------------------------------------------------
\* The invariant under the steps that change the books.

LEMMA CommitData ==
  ASSUME DataInv, IInv', NEW r \in Requests, NEW given, Finish(r, given),
         faults' \in 0..MaxFaults, Tables', AnswersKept,
         \A q \in Requests \ {r} : HoldsPolicy(q) => SameColumns(Policy(q))
  PROVE  DataInv'
<1>1. Others(r) /\ stage'[r] = "done"
  BY FinishControl DEF DataInv, IInv
<1>2. PolicyData(r)' /\ RecordData(r)'
  BY <1>1, FreshData
<1>3. ASSUME NEW q \in Requests \ {r} PROVE PolicyData(q)' /\ RecordData(q)'
  BY <1>1, DataFrame DEF DataInv
<1> QED
  BY <1>2, <1>3 DEF DataInv

LEMMA SameAnswer ==
  ASSUME NEW x, RecordShape(x)
  PROVE  Replayed(x).hash = x.hash /\ Replayed(x).response = x.response
  BY DEF RecordShape, Replayed

LEMMA CommitReplayData ==
  ASSUME DataInv, IInv', NEW r \in Requests, CommitReplay(r) PROVE DataInv'
<1>1. PICK given : Finish(r, given) /\ faults' \in 0..MaxFaults
  BY AcknowledgeFinishes DEF CommitReplay, DataInv, IInv
<1>2. /\ stage[r] = "replay"
      /\ records' = [records EXCEPT ![Slot(r)] = Replayed(records[Slot(r)])]
      /\ UNCHANGED <<premium, events, documents, payments, ledger>>
  BY DEF CommitReplay
<1>3. RecordShape(records[Slot(r)]) /\ Slot(r) \in Slots
  BY <1>2, Own DEF ClaimOf, DataInv, IInv, Rows
<1>4. AnswersKept
  BY <1>2, <1>3, SameAnswer DEF AnswersKept, DataInv, IInv, Rows
<1>5. Tables' /\ \A p : SameColumns(p)
  BY <1>2 DEF Tables, SameColumns, DataInv
<1> QED
  BY <1>1, <1>4, <1>5, CommitData

\* At the stage "copy" the own record and that of the payment are two.
LEMMA CopyRecords ==
  ASSUME DataInv, NEW r \in Requests, stage[r] = "copy"
  PROVE  /\ draft[r].original \in Slots /\ RecordShape(records[draft[r].original])
         /\ Slot(r) \in Slots /\ records[Slot(r)] = NoRecord
         /\ draft[r].original # Slot(r)
  BY Own DEF ClaimOf, HoldsClaim, HoldsPolicy, DataInv, IInv, Rows

LEMMA CommitCopyData ==
  ASSUME DataInv, IInv', NEW r \in Requests, CommitCopy(r) PROVE DataInv'
<1> DEFINE original == draft[r].original
           copy == CompletedRecord(RequestHash(input[r]), draft[r].response)
<1>1. PICK given : Finish(r, given) /\ faults' \in 0..MaxFaults
  BY AcknowledgeFinishes DEF CommitCopy, DataInv, IInv
<1>2. /\ stage[r] = "copy"
      /\ records' = [records EXCEPT ![original] = Replayed(records[original]),
                                    ![Slot(r)] = copy]
      /\ UNCHANGED <<premium, events, documents, payments, ledger>>
  BY DEF CommitCopy
<1>3. /\ original \in Slots /\ RecordShape(records[original])
      /\ Slot(r) \in Slots /\ records[Slot(r)] = NoRecord
      /\ original # Slot(r)
  BY <1>2, CopyRecords
<1> HIDE DEF original, copy
<1>4. AnswersKept
  BY <1>2, <1>3, SameAnswer DEF AnswersKept, DataInv, IInv, Rows
<1>5. Tables' /\ \A p : SameColumns(p)
  BY <1>2 DEF Tables, SameColumns, DataInv
<1> QED
  BY <1>1, <1>4, <1>5, CommitData

\* Two requests that hold policies hold two policies.
LEMMA PolicyIsExclusive ==
  ASSUME IInv, NEW r \in Requests, NEW q \in Requests \ {r},
         HoldsPolicy(r), HoldsPolicy(q)
  PROVE  Policy(q) # Policy(r) /\ Policy(q) \in Policies /\ Policy(r) \in Policies
<1>1. Policy(q) \in Policies /\ policyLock[Policy(q)] = q
  BY Own DEF ClaimOf
<1>2. Policy(r) \in Policies /\ policyLock[Policy(r)] = r
  BY Own DEF ClaimOf
<1> QED
  BY <1>1, <1>2

LEMMA CommitEventData ==
  ASSUME DataInv, IInv', NEW r \in Requests, CommitEvent(r) PROVE DataInv'
<1>1. CASE \E answer : Rollback(r, answer)
  BY <1>1, RollbackData
<1>2. CASE ~ \E answer : Rollback(r, answer)
  <2>1. stage[r] = "commit" /\ Publish(r) /\ Acknowledge(r, Answered(draft[r].response, FALSE))
    BY <1>2 DEF CommitEvent
  <2>2. PICK given : Finish(r, given) /\ faults' \in 0..MaxFaults
    BY <2>1, AcknowledgeFinishes DEF DataInv, IInv
  <2>3. HoldsPolicy(r) /\ records[Slot(r)] = NoRecord /\ Slot(r) \in Slots
    BY <2>1, Own DEF HoldsPolicy, HoldsClaim, ClaimOf, DataInv
  <2>4. AnswersKept
    BY <2>1, <2>3 DEF AnswersKept, Publish, DataInv, IInv, Rows
  <2>5. Tables'
    BY <2>1 DEF Publish, PremiumAfter, Tables, DataInv
  <2>6. ASSUME NEW q \in Requests \ {r}, HoldsPolicy(q) PROVE SameColumns(Policy(q))
    <3>1. Policy(q) # Policy(r) /\ Policy(q) \in Policies
      BY <2>3, <2>6, PolicyIsExclusive DEF DataInv
    <3>2. DOMAIN payments = Policies
      BY DEF DataInv, IInv, Rows
    <3> QED
      BY <2>1, <3>1, <3>2 DEF Publish, PremiumAfter, SameColumns, Tables, DataInv
  <2> QED
    BY <2>2, <2>4, <2>5, <2>6, CommitData
<1> QED
  BY <1>1, <1>2

LEMMA AbortData ==
  ASSUME DataInv, IInv', NEW r \in Requests, Abort(r) PROVE DataInv'
<1>1. PICK failure \in Failures : Finish(r, failure)
  BY DEF Abort
<1>2. faults' \in 0..MaxFaults /\ UNCHANGED books
  BY OneMoreFault DEF Abort, DataInv, IInv
<1>3. Others(r) /\ stage'[r] = "done"
  BY <1>1, <1>2, FinishControl DEF DataInv, IInv
<1> QED
  BY <1>2, <1>3, FreshData, SameBooksData

LEMMA ResendData ==
  ASSUME DataInv, IInv', NEW r \in Requests, Resend(r) PROVE DataInv'
<1>1. Others(r) /\ stage'[r] = "claim" /\ UNCHANGED books
  BY DEF Resend, Others, DataInv, IInv, Control
<1> QED
  BY <1>1, FreshData, SameBooksData

LEMMA ClaimData ==
  ASSUME DataInv, IInv', NEW r \in Requests, ClaimNew(r) \/ ClaimExisting(r)
  PROVE  DataInv'
<1>1. PICK next \in {"lock", "load"} : Proceed(r, next, NoDraft)
  BY DEF ClaimNew, ClaimExisting
<1>2. next \in Stages
  BY DEF Stages
<1>3. stage'[r] = next
  BY <1>1, <1>2, ProceedData
<1> QED
  BY <1>1, <1>2, <1>3, FreshData, ProceedData

LEMMA StutterData == ASSUME DataInv, IInv', UNCHANGED vars PROVE DataInv'
<1>1. Tables'
  BY DEF vars, DataInv, Tables
<1>2. ASSUME NEW r \in Requests PROVE PolicyData(r)' /\ RecordData(r)'
  <2>1. PolicyData(r) /\ RecordData(r)
    BY DEF DataInv
  <2> QED
    BY <2>1 DEF vars, PolicyData, RecordData, HoldsPolicy, Policy, Slot, Known,
                SeenDocuments, SeenPayments
<1> QED
  BY <1>1, <1>2 DEF DataInv

LEMMA NextData == DataInv /\ [Next]_vars => DataInv'
<1> SUFFICES ASSUME DataInv, [Next]_vars PROVE DataInv'
  OBVIOUS
<1>1. IInv'
  BY NextIInv DEF DataInv
<1>2. ASSUME NEW r \in Requests, PolicyMissing(r) PROVE DataInv'
  BY <1>1, <1>2, RollbackData DEF PolicyMissing
<1>3. ASSUME NEW r \in Requests, Step(r) PROVE DataInv'
  BY <1>1, <1>2, <1>3, ClaimData, LoadRecordData, CommitReplayData, LockPolicyData,
     ExternalNewData, ExternalKnownData, CountOriginalData, CommitCopyData,
     AppendEventData, SettleData, CommitEventData DEF Step
<1>4. CASE UNCHANGED vars
  BY <1>1, <1>4, StutterData
<1> QED
  BY <1>1, <1>3, <1>4, AbortData, ResendData DEF Next, Quiescent

THEOREM DataInvariant == Spec => []DataInv
<1>1. Init => DataInv
  BY InitData
<1>2. DataInv /\ [Next]_vars => DataInv'
  BY NextData
<1> QED
  BY <1>1, <1>2, PTL DEF Spec

\* What a transaction has read is, until it ends, what it would read again:
\* the price, the end of the chain, the documents to mark and the balance
\* (service.ts:103-260, 302-422).
THEOREM ReadsCurrent == Spec => []ReadsStayCurrent
<1>1. DataInv => ReadsStayCurrent
  <2> SUFFICES ASSUME DataInv, NEW r \in Requests PROVE PolicyData(r)
    BY DEF ReadsStayCurrent, PolicyData
  <2> QED
    BY DEF DataInv
<1> QED
  BY <1>1, DataInvariant, PTL

-----------------------------------------------------------------------------
\* The instance of PolicyBook has operators of its own for what Accounting
\* defines; they are the same.

LEMMA SameKeys ==
  /\ \A in : /\ Book!SlotOf(in) = SlotOf(in)
             /\ Book!RequestHash(in) = RequestHash(in)
  /\ \A p, key : Book!PaymentSlot(p, key) = PaymentSlot(p, key)
  /\ \A body : Book!IsEndorsement(body) <=> IsEndorsement(body)
  /\ \A x : Book!Replayed(x) = Replayed(x)
  /\ \A hash, x : Book!CompletedRecord(hash, x) = CompletedRecord(hash, x)
  BY DEF Book!SlotOf, SlotOf, Book!RequestHash, RequestHash, Book!PaymentSlot,
         PaymentSlot, Book!IsEndorsement, IsEndorsement, Book!Replayed, Replayed,
         Book!CompletedRecord, CompletedRecord

LEMMA SamePricing ==
  /\ \A t, d, o, n : Book!Adjustment(t, d, o, n) = Adjustment(t, d, o, n)
  /\ \A t, d, o, n : Book!Verdict(t, d, o, n) = Verdict(t, d, o, n)
  /\ \A p : Book!Term(p) = Term(p)
<1>1. \A t, d, o, n : Book!Adjustment(t, d, o, n) = Adjustment(t, d, o, n)
  BY DEF Book!Adjustment, Adjustment, Book!ProratedDelta, ProratedDelta,
         Book!RoundFractionHalfAwayFromZero, RoundFractionHalfAwayFromZero,
         Book!RemainingDays, RemainingDays, Book!TermDays, TermDays, Book!Abs, Abs
<1>2. \A t, d, o, n : Book!Verdict(t, d, o, n) = Verdict(t, d, o, n)
  BY <1>1 DEF Book!Verdict, Verdict, Book!InsideTerm, InsideTerm, Book!Proratable,
         Proratable, Book!RemainingDays, RemainingDays, Book!TermDays, TermDays
<1>3. \A p : Book!Term(p) = Term(p)
  BY DEF Book!Term, Term
<1> QED
  BY <1>1, <1>2, <1>3

LEMMA SameRefusal == \A p, x, body : Book!Refusal(p, x, body) = Refusal(p, x, body)
  BY SamePricing, SameKeys
  DEF Book!Refusal, Refusal, Book!EndorsementRefusal, EndorsementRefusal,
      Book!PaymentRefusal, PaymentRefusal

LEMMA SameEvents ==
  /\ \A p, x, body : Book!EventData(p, x, body) = EventData(p, x, body)
  /\ \A rows, data, key : Book!NextEvent(rows, data, key) = NextEvent(rows, data, key)
<1>1. \A p, x, body : Book!EventData(p, x, body) = EventData(p, x, body)
  BY SamePricing, SameKeys DEF Book!EventData, EventData
<1>2. \A rows, data, key : Book!NextEvent(rows, data, key) = NextEvent(rows, data, key)
  BY DEF Book!NextEvent, NextEvent, Book!HeadHash, HeadHash, Book!HashPolicyEvent,
         HashPolicyEvent, Book!Genesis, Genesis
<1> QED
  BY <1>1, <1>2

LEMMA SameRows ==
  /\ \A e : /\ Book!NewDocuments(e) = NewDocuments(e)
            /\ Book!NewPayments(e) = NewPayments(e)
  /\ \A e : Book!LedgerTransaction(e) = LedgerTransaction(e)
  /\ \A e, b : Book!Response(e, b) = Response(e, b)
<1>1. \A e : /\ Book!NewDocuments(e) = NewDocuments(e)
             /\ Book!NewPayments(e) = NewPayments(e)
  BY DEF Book!NewDocuments, NewDocuments, Book!NewPayments, NewPayments,
         Book!BillingDocument, BillingDocument, Book!Payment, Payment
<1>2. \A e : Book!LedgerTransaction(e) = LedgerTransaction(e)
  BY DEF Book!LedgerTransaction, LedgerTransaction, Book!EndorsementEntries,
         EndorsementEntries, Book!PaymentEntries, PaymentEntries,
         Book!LedgerEntry, LedgerEntry, Book!Abs, Abs
<1>3. \A e, b : Book!Response(e, b) = Response(e, b)
  BY DEF Book!Response, Response
<1> QED
  BY <1>1, <1>2, <1>3

LEMMA SameBalance ==
  /\ \A d, y : Book!OpenBalance(d, y) = OpenBalance(d, y)
  /\ \A d, b : Book!ToSettle(d, b) = ToSettle(d, b)
  /\ \A d, paid : Book!MarkPaid(d, paid) = MarkPaid(d, paid)
<1>1. \A d, y : Book!OpenBalance(d, y) = OpenBalance(d, y)
  BY Zenon DEF Book!OpenBalance, OpenBalance, Book!Total, Total, Book!SumFunction, SumFunction,
               Book!SumFunctionOnSet, SumFunctionOnSet, Book!FoldFunctionOnSet,
               FoldFunctionOnSet, Book!MapThenFoldSet, MapThenFoldSet
<1>2. \A d, b : Book!ToSettle(d, b) = ToSettle(d, b)
  BY DEF Book!ToSettle, ToSettle, Book!Payable, Payable
<1>3. \A d, paid : Book!MarkPaid(d, paid) = MarkPaid(d, paid)
  BY DEF Book!MarkPaid, MarkPaid
<1> QED
  BY <1>1, <1>2, <1>3

-----------------------------------------------------------------------------
\* Each COMMIT is a step of PolicyBook.

\* A request that holds its policy and its claim is admissible in the book.
LEMMA HolderIsAdmissible ==
  ASSUME DataInv, NEW r \in Requests, HoldsPolicy(r)
  PROVE  Book!Admissible(input[r])
<1>1. records[Slot(r)] = NoRecord /\ Policy(r) \in Policies
  BY Own DEF ClaimOf, HoldsClaim, DataInv
<1>2. Refusal(Policy(r), premium[Policy(r)], input[r].body) = "none"
  BY DEF DataInv, PolicyData
<1> QED
  BY <1>1, <1>2, SameKeys, SameRefusal, SameSets
  DEF Book!Admissible, Slot, Policy, NoRecord

LEMMA PublishEnacts ==
  ASSUME DataInv, NEW r \in Requests, stage[r] = "commit", Publish(r)
  PROVE  Book!Enact(input[r], Policy(r), Book!EventFor(input[r], Policy(r)))
<1> DEFINE p == Policy(r)
           event == draft[r].event
           seenDocuments == SeenDocuments(r)
           seenPayments == SeenPayments(r)
           balance == OpenBalance(seenDocuments, seenPayments)
<1>1. event = Book!EventFor(input[r], p)
  BY SameEvents DEF DataInv, PolicyData, Book!EventFor
<1>2. /\ draft[r].response = Response(event, balance)
      /\ draft[r].paid = ToSettle(seenDocuments, balance)
  BY DEF DataInv, PolicyData
<1>3. /\ Book!DocumentsWith(p, event) = seenDocuments
      /\ Book!PaymentsWith(p, event) = seenPayments
  BY SameRows DEF Book!DocumentsWith, Book!PaymentsWith, SeenDocuments, SeenPayments
<1>4. Book!BalanceWith(p, event) = balance
  BY <1>3, SameBalance DEF Book!BalanceWith
<1>5. /\ events' = [events EXCEPT ![p] = Append(@, event)]
      /\ documents' = [documents EXCEPT ![p] = MarkPaid(seenDocuments, draft[r].paid)]
      /\ payments' = [payments EXCEPT ![p] = seenPayments]
      /\ ledger' = [ledger EXCEPT ![p] = @ \cup {LedgerTransaction(event)}]
      /\ records' = [records EXCEPT ![SlotOf(input[r])] =
                       CompletedRecord(RequestHash(input[r]), draft[r].response)]
  BY DEF Publish, Slot
<1> HIDE DEF event, balance, seenDocuments, seenPayments
<1>6. Book!Enact(input[r], p, event)
  BY <1>2, <1>3, <1>4, <1>5, SameBalance, SameRows, SameKeys DEF Book!Enact
<1> QED
  BY <1>1, <1>6

LEMMA CommitEventRefines ==
  ASSUME DataInv, NEW r \in Requests, CommitEvent(r), ~ UNCHANGED books
  PROVE  Book!ApplyEndorsement(input[r]) \/ Book!RecordPayment(input[r])
<1>1. stage[r] = "commit" /\ Publish(r)
  BY DEF CommitEvent, Rollback
<1>2. Book!Enact(input[r], Policy(r), Book!EventFor(input[r], Policy(r)))
  BY <1>1, PublishEnacts
<1>3. Book!Admissible(input[r])
  BY <1>1, HolderIsAdmissible DEF HoldsPolicy
<1>4. CASE IsEndorsement(input[r].body)
  <2>1. premium' = [premium EXCEPT ![Policy(r)] = input[r].body.premium]
    BY <1>1, <1>4 DEF Publish, PremiumAfter
  <2> QED
    BY <1>2, <1>3, <1>4, <2>1, SameKeys DEF Book!ApplyEndorsement, Policy
<1>5. CASE ~ IsEndorsement(input[r].body)
  <2>1. premium' = premium
    BY <1>1, <1>5 DEF Publish, PremiumAfter
  <2>2. Book!SameExternal(input[r]) = {}
    BY <1>1, <1>5 DEF DataInv, PolicyData, Book!SameExternal, Known, Policy
  <2> QED
    BY <1>2, <1>3, <1>5, <2>1, <2>2, SameKeys DEF Book!RecordPayment, Policy
<1> QED
  BY <1>4, <1>5

LEMMA CommitReplayRefines ==
  ASSUME DataInv, NEW r \in Requests, CommitReplay(r)
  PROVE  Book!ReplayKey(input[r])
<1>1. /\ stage[r] = "replay"
      /\ records' = [records EXCEPT ![Slot(r)] = Replayed(@)]
      /\ UNCHANGED <<premium, events, documents, payments, ledger>>
  BY DEF CommitReplay
<1>2. /\ records[Slot(r)] # NoRecord /\ RecordShape(records[Slot(r)])
      /\ records[Slot(r)].hash = RequestHash(input[r])
  BY <1>1, Own DEF ClaimOf, DataInv, IInv, Rows, RecordData
<1>3. records[Slot(r)].replays + 1 \in Nat
  BY <1>2 DEF RecordShape
<1> QED
  BY <1>1, <1>2, <1>3, SameKeys DEF Book!ReplayKey, Slot, NoRecord

LEMMA CommitCopyRefines ==
  ASSUME DataInv, NEW r \in Requests, CommitCopy(r)
  PROVE  Book!ReplayExternal(input[r])
<1> DEFINE original == draft[r].original
<1>1. /\ stage[r] = "copy"
      /\ records' = [records EXCEPT
                       ![original] = Replayed(@),
                       ![Slot(r)] = CompletedRecord(RequestHash(input[r]), draft[r].response)]
      /\ UNCHANGED <<premium, events, documents, payments, ledger>>
  BY DEF CommitCopy
<1>2. Book!Admissible(input[r])
  BY <1>1, HolderIsAdmissible DEF HoldsPolicy
<1>3. ~ IsEndorsement(input[r].body)
  BY <1>1 DEF DataInv, PolicyData
<1>4. PICK y \in Known(r) : /\ y.amount = input[r].body.amount
                            /\ original = PaymentSlot(Policy(r), y.key)
  BY <1>1 DEF DataInv, RecordData
<1>5. draft[r].response = records[original].response
  BY <1>1 DEF DataInv, RecordData
<1>6. records[original].replays + 1 \in Nat
  BY <1>1, CopyRecords DEF RecordShape
<1>7. y \in Book!SameExternal(input[r])
  BY DEF Book!SameExternal, Known, Policy
<1> HIDE DEF original
<1>8. original = Book!PaymentSlot(input[r].body.policy, y.key)
  BY <1>4, SameKeys DEF Policy
<1>9. records' = [records EXCEPT
                    ![original] = Book!Replayed(@),
                    ![Book!SlotOf(input[r])] =
                      Book!CompletedRecord(Book!RequestHash(input[r]),
                                           records[original].response)]
  BY <1>1, <1>5, SameKeys DEF Slot
<1> QED
  BY <1>1, <1>2, <1>3, <1>4, <1>6, <1>7, <1>8, <1>9, SameKeys DEF Book!ReplayExternal

\* Every other step leaves the books alone.
LEMMA OtherSteps ==
  ASSUME NEW r \in Requests, Step(r) \/ Abort(r) \/ Resend(r)
  PROVE  UNCHANGED books \/ CommitReplay(r) \/ CommitCopy(r) \/ CommitEvent(r)
<1>1. CASE Step(r)
  BY <1>1 DEF Step, ClaimNew, ClaimExisting, LoadRecord, PolicyMissing, LockPolicy,
      ExternalNew, ExternalKnown, CountOriginal, AppendEvent, Settle, Proceed, Rollback
<1>2. CASE Abort(r) \/ Resend(r)
  BY <1>2 DEF Abort, Resend
<1> QED
  BY <1>1, <1>2

LEMMA NextRefines == DataInv /\ [Next]_vars => [Book!Next]_(Book!vars)
<1> SUFFICES ASSUME DataInv, [Next]_vars PROVE [Book!Next]_(Book!vars)
  OBVIOUS
<1>1. UNCHANGED books => UNCHANGED Book!vars
  BY DEF books, Book!vars
<1>2. CASE UNCHANGED books
  BY <1>1, <1>2
<1>3. CASE ~ UNCHANGED books
  <2>1. PICK r \in Requests : CommitReplay(r) \/ CommitCopy(r) \/ CommitEvent(r)
    BY <1>3, OtherSteps DEF Next, Quiescent, vars, books
  <2>2. \/ Book!ApplyEndorsement(input[r]) \/ Book!RecordPayment(input[r])
        \/ Book!ReplayKey(input[r]) \/ Book!ReplayExternal(input[r])
    BY <1>3, <2>1, CommitReplayRefines, CommitCopyRefines, CommitEventRefines
  <2>3. input[r] \in Inputs
    BY SlotType DEF DataInv, IInv
  <2> QED
    BY <2>2, <2>3 DEF Book!Next
<1> QED
  BY <1>2, <1>3

\* The concurrent service keeps the promise of PolicyBook: on the tables, every
\* behaviour is one of the atomic book, whatever the interleaving, the
\* failures, the lost acknowledgements and the repetitions.
THEOREM Implementation == Spec => ImplementsPolicyBook
<1>1. Init => Book!Init
  BY DEF Init
<1>2. DataInv /\ [Next]_vars => [Book!Next]_(Book!vars)
  BY NextRefines
<1> QED
  BY <1>1, <1>2, DataInvariant, PTL DEF Spec, Book!Spec, ImplementsPolicyBook

-----------------------------------------------------------------------------
\* Part three: what clients may rely on.

IsSequence(x) == \E S : x \in Seq(S)

Histories == \A p \in Policies : IsSequence(events[p])

\* The history of a policy has the event that an answer speaks of.
TrueOf(p, response) ==
  /\ p \in Policies
  /\ response.seq \in DOMAIN events[p]
  /\ events[p][response.seq].hash = response.hash

AnswersTrue ==
  \A s \in Slots : records[s] # NoRecord => TrueOf(s[2], records[s].response)

Success(r) == stage[r] = "done" /\ reply[r].status = 201

OnRecord(r, response) ==
  /\ records[Slot(r)] # NoRecord
  /\ records[Slot(r)].response = response
  /\ records[Slot(r)].hash = RequestHash(input[r])

AnswersInv ==
  /\ DataInv
  /\ Histories
  /\ AnswersTrue
  /\ \A r \in Requests : Success(r) => OnRecord(r, reply[r].response)

LEMMA InitAnswers == Init => AnswersInv
<1> SUFFICES ASSUME Init PROVE AnswersInv
  OBVIOUS
<1>1. DataInv
  BY InitData
<1>2. Histories
  <2>1. IsSequence(<< >>)
    BY DEF IsSequence
  <2> QED
    BY <2>1, SameSets DEF Init, Book!Init, Histories
<1>3. AnswersTrue
  BY SameSets DEF Init, Book!Init, AnswersTrue, NoRecord
<1>4. \A r \in Requests : ~ Success(r)
  BY DEF Init, Success
<1> QED
  BY <1>1, <1>2, <1>3, <1>4 DEF AnswersInv

-----------------------------------------------------------------------------
\* What every step leaves: histories grow, and answers on file stay there.

HistoriesGrow ==
  \A p \in Policies :
    /\ IsSequence(events'[p])
    /\ DOMAIN events[p] \subseteq DOMAIN events'[p]
    /\ \A i \in DOMAIN events[p] : events'[p][i] = events[p][i]

RecordsStay ==
  /\ AnswersKept
  /\ \A s \in Slots : records[s] # NoRecord => records'[s] # NoRecord

NewAnswersTrue ==
  \A s \in Slots : records[s] = NoRecord /\ records'[s] # NoRecord =>
    TrueOf(s[2], records[s].response)'

LEMMA StepAnswers ==
  ASSUME AnswersInv, DataInv', HistoriesGrow, RecordsStay, NewAnswersTrue,
         NEW r \in Requests, Others(r),
         Success(r)' => OnRecord(r, reply[r].response)'
  PROVE  AnswersInv'
<1>1. Histories'
  BY DEF HistoriesGrow, Histories
<1>2. AnswersTrue'
  <2> SUFFICES ASSUME NEW s \in Slots, records'[s] # NoRecord
               PROVE  TrueOf(s[2], records[s].response)'
    BY DEF AnswersTrue
  <2>1. CASE records[s] = NoRecord
    BY <2>1 DEF NewAnswersTrue
  <2>2. CASE records[s] # NoRecord
    <3>1. /\ records'[s].response = records[s].response
          /\ TrueOf(s[2], records[s].response)
      BY <2>2 DEF RecordsStay, AnswersKept, AnswersInv, AnswersTrue
    <3> QED
      BY <3>1 DEF TrueOf, HistoriesGrow
  <2> QED
    BY <2>1, <2>2
<1>3. ASSUME NEW q \in Requests \ {r}, Success(q)'
      PROVE  OnRecord(q, reply[q].response)'
  <2>1. /\ stage'[q] = stage[q] /\ reply'[q] = reply[q] /\ input' = input
        /\ Slot(q)' = Slot(q)
    BY DEF Others, Slot
  <2>2. OnRecord(q, reply[q].response)
    BY <1>3, <2>1 DEF AnswersInv, Success
  <2>3. Slot(q) \in Slots
    BY Own DEF AnswersInv, DataInv
  <2> QED
    BY <2>1, <2>2, <2>3 DEF OnRecord, RecordsStay, AnswersKept
<1> QED
  BY <1>1, <1>2, <1>3 DEF AnswersInv

\* A step that leaves the books alone and tells nobody of a success.
LEMMA QuietAnswers ==
  ASSUME AnswersInv, DataInv', UNCHANGED books,
         NEW r \in Requests, Others(r), ~ Success(r)'
  PROVE  AnswersInv'
<1>1. HistoriesGrow /\ RecordsStay /\ NewAnswersTrue
  BY DEF HistoriesGrow, RecordsStay, AnswersKept, NewAnswersTrue, AnswersInv,
         Histories, books
<1> QED
  BY <1>1, StepAnswers

LEMMA Statuses == /\ \A status, error : Refused(status, error).status = status
                  /\ \A response, replayed :
                       Answered(response, replayed).response = response
  BY DEF Refused, Answered

LEMMA FailureIsNoSuccess == \A failure \in Failures : failure.status # 201
<1>1. Refused(500, "Internal server error").status # 201
  BY DEF Refused
<1>2. Refused(503, "Database temporarily unavailable").status # 201
  BY DEF Refused
<1> QED
  BY <1>1, <1>2 DEF Failures

\* A COMMIT that took effect: whoever is told of success is told the answer.
LEMMA Acknowledged ==
  ASSUME AnswersInv, NEW r \in Requests, NEW response, NEW replayed \in BOOLEAN,
         Acknowledge(r, Answered(response, replayed))
  PROVE  /\ Others(r) /\ Slot(r)' = Slot(r)
         /\ Success(r)' => reply'[r].response = response
<1>1. PICK given \in {Answered(response, replayed), Refused(500, "Internal server error")} :
        Finish(r, given)
  BY DEF Acknowledge
<1>2. faults' \in 0..MaxFaults
  BY AcknowledgeFinishes DEF AnswersInv, DataInv, IInv
<1>3. Others(r) /\ reply'[r] = given
  BY <1>1, <1>2, FinishControl DEF AnswersInv, DataInv, IInv
<1>4. given.status = 201 => given.response = response
  <2>1. CASE given = Answered(response, replayed)
    BY ONLY <2>1, Statuses
  <2>2. CASE given = Refused(500, "Internal server error")
    <3>1. given \in Failures
      BY ONLY <2>2 DEF Failures
    <3> QED
      BY ONLY <3>1, FailureIsNoSuccess
  <2> QED
    BY <2>1, <2>2
<1> QED
  BY <1>3, <1>4 DEF Success, Others, Slot

LEMMA AppendKeeps ==
  ASSUME NEW s, IsSequence(s), NEW e
  PROVE  /\ IsSequence(Append(s, e))
         /\ Len(s) + 1 \in DOMAIN Append(s, e) /\ Append(s, e)[Len(s) + 1] = e
         /\ DOMAIN s \subseteq DOMAIN Append(s, e)
         /\ \A i \in DOMAIN s : Append(s, e)[i] = s[i]
<1>1. PICK S : s \in Seq(S)
  BY DEF IsSequence
<1>2. s \in Seq(S \cup {e}) /\ Append(s, e) \in Seq(S \cup {e})
  BY <1>1
<1>3. Len(s) \in Nat /\ DOMAIN s = 1..Len(s)
  BY <1>1
<1>4. /\ DOMAIN Append(s, e) = 1..(Len(s) + 1)
      /\ \A i \in 1..Len(s) : Append(s, e)[i] = s[i]
      /\ Append(s, e)[Len(s) + 1] = e
  BY <1>2
<1> QED
  BY <1>2, <1>3, <1>4 DEF IsSequence

-----------------------------------------------------------------------------
\* The three kinds of COMMIT.

LEMMA CommitReplayAnswers ==
  ASSUME AnswersInv, DataInv', NEW r \in Requests, CommitReplay(r)
  PROVE  AnswersInv'
<1>1. /\ stage[r] = "replay"
      /\ records' = [records EXCEPT ![Slot(r)] = Replayed(records[Slot(r)])]
      /\ events' = events
      /\ Acknowledge(r, Answered(draft[r].response, TRUE))
  BY DEF CommitReplay
<1>2. /\ Others(r) /\ Slot(r)' = Slot(r)
      /\ Success(r)' => reply'[r].response = draft[r].response
  BY <1>1, Acknowledged
<1>3. /\ RecordShape(records[Slot(r)]) /\ Slot(r) \in Slots
      /\ records[Slot(r)] # NoRecord
  BY <1>1, Own DEF ClaimOf, AnswersInv, DataInv, IInv, Rows
<1>4. /\ records[Slot(r)].hash = RequestHash(input[r])
      /\ records[Slot(r)].response = draft[r].response
  BY <1>1 DEF AnswersInv, DataInv, RecordData
<1>5. Replayed(records[Slot(r)]) # NoRecord
  BY <1>3 DEF Replayed, RecordShape, NoRecord, Book!NoRecord
<1>6. RecordsStay /\ NewAnswersTrue
  BY <1>1, <1>3, <1>5, SameAnswer
  DEF RecordsStay, AnswersKept, NewAnswersTrue, AnswersInv, DataInv, IInv, Rows
<1>7. HistoriesGrow
  BY <1>1 DEF HistoriesGrow, AnswersInv, Histories
<1>8. Success(r)' => OnRecord(r, reply[r].response)'
  BY <1>1, <1>2, <1>3, <1>4, <1>5, SameAnswer
  DEF OnRecord, RequestHash, Others, DataInv, IInv, Rows, AnswersInv
<1> QED
  BY <1>2, <1>6, <1>7, <1>8, StepAnswers

LEMMA CommitCopyAnswers ==
  ASSUME AnswersInv, DataInv', NEW r \in Requests, CommitCopy(r)
  PROVE  AnswersInv'
<1> DEFINE original == draft[r].original
           copy == CompletedRecord(RequestHash(input[r]), draft[r].response)
<1>1. /\ stage[r] = "copy"
      /\ records' = [records EXCEPT ![original] = Replayed(records[original]),
                                    ![Slot(r)] = copy]
      /\ events' = events
      /\ Acknowledge(r, Answered(draft[r].response, TRUE))
  BY DEF CommitCopy
<1>2. /\ Others(r) /\ Slot(r)' = Slot(r)
      /\ Success(r)' => reply'[r].response = draft[r].response
  BY <1>1, Acknowledged
<1>3. /\ original \in Slots /\ RecordShape(records[original])
      /\ Slot(r) \in Slots /\ records[Slot(r)] = NoRecord
      /\ original # Slot(r) /\ records[original] # NoRecord
  BY <1>1, CopyRecords, Own DEF ClaimOf, AnswersInv, DataInv
<1>4. \E key : original = PaymentSlot(Policy(r), key)
  BY <1>1 DEF AnswersInv, DataInv, RecordData
<1>5. draft[r].response = records[original].response
  BY <1>1 DEF AnswersInv, DataInv, RecordData
<1>6. /\ copy # NoRecord /\ copy.hash = RequestHash(input[r])
      /\ copy.response = draft[r].response
      /\ Replayed(records[original]) # NoRecord
  BY <1>3 DEF CompletedRecord, Replayed, RecordShape, NoRecord, Book!NoRecord
<1>7. TrueOf(Policy(r), draft[r].response) /\ Slot(r)[2] = Policy(r)
  BY <1>3, <1>4, <1>5 DEF AnswersInv, AnswersTrue, PaymentSlot, Slot, SlotOf, Policy
<1> HIDE DEF original, copy
<1>8. /\ records'[Slot(r)] = copy
      /\ \A s \in Slots \ {Slot(r)} :
           records'[s] = IF s = original THEN Replayed(records[s]) ELSE records[s]
  BY <1>1, <1>3 DEF AnswersInv, DataInv, IInv, Rows
<1>9. RecordsStay
  BY <1>3, <1>6, <1>8, SameAnswer DEF RecordsStay, AnswersKept
<1>10. NewAnswersTrue
  <2> SUFFICES ASSUME NEW s \in Slots, records[s] = NoRecord, records'[s] # NoRecord
               PROVE  TrueOf(s[2], records[s].response)'
    BY DEF NewAnswersTrue
  <2>1. s = Slot(r) /\ records'[s].response = draft[r].response
    BY <1>3, <1>6, <1>8
  <2> QED
    BY <1>1, <1>7, <2>1 DEF TrueOf
<1>11. HistoriesGrow
  BY <1>1 DEF HistoriesGrow, AnswersInv, Histories
<1>12. Success(r)' => OnRecord(r, reply[r].response)'
  BY <1>2, <1>6, <1>8 DEF OnRecord, Others
<1> QED
  BY <1>2, <1>9, <1>10, <1>11, <1>12, StepAnswers

LEMMA CommitEventAnswers ==
  ASSUME AnswersInv, DataInv', NEW r \in Requests, stage[r] = "commit", Publish(r),
         Acknowledge(r, Answered(draft[r].response, FALSE))
  PROVE  AnswersInv'
<1> DEFINE p == Policy(r)
           event == draft[r].event
           record == CompletedRecord(RequestHash(input[r]), draft[r].response)
<1>1. /\ events' = [events EXCEPT ![p] = Append(events[p], event)]
      /\ records' = [records EXCEPT ![Slot(r)] = record]
  BY DEF Publish
<1>2. /\ Others(r) /\ Slot(r)' = Slot(r)
      /\ Success(r)' => reply'[r].response = draft[r].response
  BY Acknowledged
<1>3. /\ p \in Policies /\ IsSequence(events[p])
      /\ Slot(r) \in Slots /\ records[Slot(r)] = NoRecord
  BY Own DEF ClaimOf, HoldsClaim, HoldsPolicy, AnswersInv, DataInv, Histories
<1>4. /\ record # NoRecord /\ record.hash = RequestHash(input[r])
      /\ record.response = draft[r].response
  BY DEF CompletedRecord, NoRecord, Book!NoRecord
<1>5. /\ draft[r].response.seq = Len(events[p]) + 1
      /\ draft[r].response.hash = event.hash
  <2>1. PolicyData(r)
    BY DEF AnswersInv, DataInv
  <2> QED
    BY <2>1 DEF PolicyData, Response, NextEvent
<1>6. Slot(r)[2] = p
  BY DEF Slot, SlotOf, Policy
<1> HIDE DEF p, event, record
<1>7. /\ events'[p] = Append(events[p], event)
      /\ \A q \in Policies \ {p} : events'[q] = events[q]
      /\ records'[Slot(r)] = record
      /\ \A s \in Slots \ {Slot(r)} : records'[s] = records[s]
  BY <1>1, <1>3 DEF AnswersInv, DataInv, Tables, IInv, Rows
<1>8. HistoriesGrow
  <2>1. /\ IsSequence(events'[p])
        /\ DOMAIN events[p] \subseteq DOMAIN events'[p]
        /\ \A i \in DOMAIN events[p] : events'[p][i] = events[p][i]
    BY <1>3, <1>7, AppendKeeps
  <2>2. \A q \in Policies \ {p} : events'[q] = events[q] /\ IsSequence(events[q])
    BY <1>7 DEF AnswersInv, Histories
  <2> QED
    BY <2>1, <2>2 DEF HistoriesGrow
<1>9. RecordsStay
  BY <1>3, <1>7 DEF RecordsStay, AnswersKept
<1>10. NewAnswersTrue
  <2> SUFFICES ASSUME NEW s \in Slots, records[s] = NoRecord, records'[s] # NoRecord
               PROVE  TrueOf(s[2], records[s].response)'
    BY DEF NewAnswersTrue
  <2>1. s = Slot(r) /\ records'[s].response = draft[r].response
    BY <1>4, <1>7
  <2>2. /\ Len(events[p]) + 1 \in DOMAIN events'[p]
        /\ events'[p][Len(events[p]) + 1] = event
    BY <1>3, <1>7, AppendKeeps
  <2> QED
    BY <1>3, <1>5, <1>6, <2>1, <2>2 DEF TrueOf
<1>11. Success(r)' => OnRecord(r, reply[r].response)'
  BY <1>2, <1>4, <1>7 DEF OnRecord, Others
<1> QED
  BY <1>2, <1>8, <1>9, <1>10, <1>11, StepAnswers

-----------------------------------------------------------------------------
\* All other steps tell nobody of a success.

LEMMA RefusalIsNoSuccess ==
  \A error : /\ Refused(404, error).status # 201 /\ Refused(409, error).status # 201
             /\ Refused(422, error).status # 201 /\ Refused(500, error).status # 201
<1>1. 404 # 201 /\ 409 # 201 /\ 422 # 201 /\ 500 # 201
  BY ONLY TRUE
<1> QED
  BY <1>1 DEF Refused

LEMMA RollbackAnswers ==
  ASSUME AnswersInv, DataInv', NEW r \in Requests, NEW answer, answer.status # 201,
         Rollback(r, answer)
  PROVE  AnswersInv'
<1>1. Finish(r, answer) /\ UNCHANGED books /\ faults' \in 0..MaxFaults
  BY DEF Rollback, AnswersInv, DataInv, IInv, Control
<1>2. Others(r) /\ reply'[r] = answer
  BY <1>1, FinishControl DEF AnswersInv, DataInv, IInv
<1> QED
  BY <1>1, <1>2, QuietAnswers DEF Success

LEMMA AbortAnswers ==
  ASSUME AnswersInv, DataInv', NEW r \in Requests, Abort(r)
  PROVE  AnswersInv'
<1>1. PICK failure \in Failures : Finish(r, failure)
  BY DEF Abort
<1>2. faults' \in 0..MaxFaults /\ UNCHANGED books
  BY OneMoreFault DEF Abort, AnswersInv, DataInv, IInv
<1>3. Others(r) /\ reply'[r] = failure
  BY <1>1, <1>2, FinishControl DEF AnswersInv, DataInv, IInv
<1> QED
  BY <1>2, <1>3, FailureIsNoSuccess, QuietAnswers DEF Success

LEMMA ResendAnswers ==
  ASSUME AnswersInv, DataInv', NEW r \in Requests, Resend(r)
  PROVE  AnswersInv'
<1>1. Others(r) /\ stage'[r] = "claim" /\ UNCHANGED books
  BY DEF Resend, Others, AnswersInv, DataInv, IInv, Control
<1> QED
  BY <1>1, QuietAnswers DEF Success

LEMMA ProceedAnswers ==
  ASSUME AnswersInv, DataInv', NEW r \in Requests, NEW next \in Stages, next # "done",
         NEW newDraft, Proceed(r, next, newDraft)
  PROVE  AnswersInv'
<1>1. Others(r) /\ stage'[r] = next /\ UNCHANGED books
  BY DEF Proceed, Others, AnswersInv, DataInv, IInv, Control
<1> QED
  BY <1>1, QuietAnswers DEF Success

\* What a statement does that is no COMMIT of an effect.
CommitsEvent(r) == /\ stage[r] = "commit"
                   /\ Publish(r)
                   /\ Acknowledge(r, Answered(draft[r].response, FALSE))

Refuses(r) == \E status \in {404, 409, 422, 500} : \E error :
                Rollback(r, Refused(status, error))

GoesOn(r) == \E next \in Stages \ {"done"} : \E newDraft : Proceed(r, next, newDraft)

LEMMA Statement ==
  ASSUME NEW r \in Requests, Step(r)
  PROVE  CommitReplay(r) \/ CommitCopy(r) \/ CommitsEvent(r) \/ Refuses(r) \/ GoesOn(r)
<1>1. CASE ClaimNew(r) \/ ClaimExisting(r) \/ AppendEvent(r) \/ Settle(r)
  BY <1>1 DEF Refuses, GoesOn, ClaimNew, ClaimExisting, AppendEvent, Settle, Stages
<1>2. CASE LoadRecord(r)
  BY <1>2 DEF Refuses, GoesOn, LoadRecord, Stages
<1>3. CASE PolicyMissing(r) \/ CountOriginal(r) \/ ExternalNew(r)
  BY <1>3 DEF Refuses, GoesOn, PolicyMissing, CountOriginal, ExternalNew, Stages
<1>4. CASE LockPolicy(r)
  BY <1>4 DEF Refuses, GoesOn, LockPolicy, Stages
<1>5. CASE ExternalKnown(r)
  <2>1. PICK y \in Known(r) :
          \/ \E newDraft : Proceed(r, "original", newDraft)
          \/ Rollback(r, Refused(IF ExternalVerdict(r, y) = "External payment conflict"
                                 THEN 409 ELSE 500, ExternalVerdict(r, y)))
    BY <1>5 DEF ExternalKnown
  <2> DEFINE status == IF ExternalVerdict(r, y) = "External payment conflict"
                       THEN 409 ELSE 500
  <2>2. status \in {404, 409, 422, 500}
    OBVIOUS
  <2>3. "original" \in Stages \ {"done"}
    BY DEF Stages
  <2> HIDE DEF status
  <2>4. (\E newDraft : Proceed(r, "original", newDraft)) \/
        Rollback(r, Refused(status, ExternalVerdict(r, y)))
    BY <2>1 DEF status
  <2> QED
    BY <2>2, <2>3, <2>4 DEF Refuses, GoesOn
<1>6. CASE CommitEvent(r)
  <2> DEFINE status == IF Backstop(r) = "Database conflict" THEN 409 ELSE 422
  <2>1. status \in {404, 409, 422, 500}
    OBVIOUS
  <2>2. CommitsEvent(r) \/ Rollback(r, Refused(status, Backstop(r)))
    BY <1>6 DEF CommitEvent, CommitsEvent
  <2> HIDE DEF status
  <2> QED
    BY <2>1, <2>2 DEF Refuses
<1> QED
  BY <1>1, <1>2, <1>3, <1>4, <1>5, <1>6 DEF Step

LEMMA NextAnswers == AnswersInv /\ [Next]_vars => AnswersInv'
<1> SUFFICES ASSUME AnswersInv, [Next]_vars PROVE AnswersInv'
  OBVIOUS
<1>1. DataInv'
  BY NextData DEF AnswersInv
<1>2. ASSUME NEW r \in Requests, Step(r) PROVE AnswersInv'
  <2>1. CASE CommitReplay(r) \/ CommitCopy(r)
    BY <1>1, <2>1, CommitReplayAnswers, CommitCopyAnswers
  <2>2. CASE CommitsEvent(r)
    BY <1>1, <2>2, CommitEventAnswers DEF CommitsEvent
  <2>3. CASE Refuses(r)
    <3>1. PICK status \in {404, 409, 422, 500} :
            \E error : Rollback(r, Refused(status, error))
      BY <2>3 DEF Refuses
    <3>2. PICK error : Rollback(r, Refused(status, error))
      BY <3>1
    <3>3. Refused(status, error).status # 201
      BY RefusalIsNoSuccess
    <3> QED
      BY <1>1, <3>2, <3>3, RollbackAnswers
  <2>4. CASE GoesOn(r)
    BY <1>1, <2>4, ProceedAnswers DEF GoesOn
  <2> QED
    BY <1>2, <2>1, <2>2, <2>3, <2>4, Statement
<1>3. CASE UNCHANGED vars
  BY <1>1, <1>3 DEF vars, AnswersInv, Histories, AnswersTrue, TrueOf, Success,
                    OnRecord, Slot
<1> QED
  BY <1>1, <1>2, <1>3, AbortAnswers, ResendAnswers DEF Next, Quiescent

THEOREM AnswersInvariant == Spec => []AnswersInv
<1> QED
  BY InitAnswers, NextAnswers, PTL DEF Spec

\* A success that a client was told of is on record, and stays there: the key
\* holds the answer and the history the event (service.ts:236-260, 390-422).
THEOREM Durable == Spec => []SuccessIsDurable
<1>1. AnswersInv => SuccessIsDurable
  <2> SUFFICES ASSUME AnswersInv, NEW r \in Requests, Success(r)
               PROVE  /\ OnRecord(r, reply[r].response)
                      /\ events[Policy(r)][reply[r].response.seq].hash
                           = reply[r].response.hash
    BY DEF SuccessIsDurable, OnRecord, Success
  <2>1. OnRecord(r, reply[r].response)
    BY DEF AnswersInv
  <2>2. Slot(r) \in Slots /\ Slot(r)[2] = Policy(r)
    BY Own DEF AnswersInv, DataInv, Slot, SlotOf, Policy
  <2> QED
    BY <2>1, <2>2 DEF AnswersInv, AnswersTrue, TrueOf, OnRecord
<1> QED
  BY <1>1, AnswersInvariant, PTL

\* Two clients that were told of success under one key asked for the same and
\* were told the same (claimIdempotency, service.ts:547-611).
THEOREM Agreement == Spec => []RepliesAgree
<1>1. AnswersInv => RepliesAgree
  <2> SUFFICES ASSUME AnswersInv, NEW q \in Requests, NEW r \in Requests,
                      Success(q), Success(r), Slot(q) = Slot(r)
               PROVE  /\ input[q].body = input[r].body
                      /\ reply[q].response = reply[r].response
    BY DEF RepliesAgree, Success
  <2>1. OnRecord(q, reply[q].response) /\ OnRecord(r, reply[r].response)
    BY DEF AnswersInv
  <2> QED
    BY <2>1 DEF OnRecord, RequestHash
<1> QED
  BY <1>1, AnswersInvariant, PTL

-----------------------------------------------------------------------------
\* Part four: the checks that only guard against a broken program.

Broken == {"Idempotency request in progress", "missing its completed idempotency result",
           "Database conflict", "Database constraint violation"}

\* The committed tables: premiums can be priced with, events are numbered
\* without gaps, and a payment has the record of the request it came with.
Tidy ==
  /\ \A p \in Policies : premium[p] \in Nat
  /\ \A p \in Policies : \A i \in DOMAIN events[p] : events[p][i].seq = i
  /\ \A p \in Policies : \A y \in payments[p] : records[PaymentSlot(p, y.key)] # NoRecord

CleanInv ==
  /\ AnswersInv
  /\ Tidy
  /\ \A r \in Requests : stage[r] = "done" => reply[r].error \notin Broken

LEMMA InitClean == Init => CleanInv
<1> SUFFICES ASSUME Init PROVE CleanInv
  OBVIOUS
<1>1. \A p \in Policies : premium[p] \in Nat /\ events[p] = << >> /\ payments[p] = {}
  BY SameSets, ContractAssumption DEF Init, Book!Init
<1>2. \A r \in Requests : stage[r] # "done"
  BY DEF Init
<1> QED
  BY <1>1, <1>2, InitAnswers DEF CleanInv, Tidy

\* The entries of a new ledger transaction: one debit and one credit of one
\* and the same amount.
LEMMA PairBalances ==
  ASSUME NEW x, NEW y, NEW a \in Nat \ {0}, NEW seq
  PROVE  LedgerTransactionBalanced(
           [seq |-> seq, entries |-> <<LedgerEntry(x, a, 0), LedgerEntry(y, 0, a)>>])
<1> DEFINE entries == <<LedgerEntry(x, a, 0), LedgerEntry(y, 0, a)>>
           debits  == [i \in DOMAIN entries |-> entries[i].debit]
           credits == [i \in DOMAIN entries |-> entries[i].credit]
<1>1. DOMAIN entries = 1 .. 2 /\ Len(entries) = 2
  OBVIOUS
<1>2. /\ entries[1].debit = a /\ entries[1].credit = 0
      /\ entries[2].debit = 0 /\ entries[2].credit = a
  BY DEF LedgerEntry
<1> HIDE DEF entries
<1>3. /\ debits \in [1 .. 2 -> Int] /\ debits[1] = a /\ debits[2] = 0
      /\ credits \in [1 .. 2 -> Int] /\ credits[1] = 0 /\ credits[2] = a
  <2>1. \A i \in 1 .. 2 : entries[i].debit \in Int /\ entries[i].credit \in Int
    <3>1. 1 .. 2 = {1, 2}
      OBVIOUS
    <3> QED
      BY <1>2, <3>1
  <2> QED
    BY <1>1, <1>2, <2>1
<1> HIDE DEF debits, credits
<1>4. SumFunction(debits) = a + 0 /\ SumFunction(credits) = 0 + a
  BY <1>3, SumPair
<1>5. Debits(entries) = a /\ Credits(entries) = a
  BY <1>4 DEF Debits, Credits, debits, credits
<1> QED
  BY <1>1, <1>5 DEF LedgerTransactionBalanced, entries

\* Nothing in a transaction about to commit is refused by the database.
LEMMA NothingToRefuse ==
  ASSUME CleanInv, NEW r \in Requests, stage[r] = "commit"
  PROVE  Backstop(r) = "none"
<1> DEFINE p     == Policy(r)
           body  == input[r].body
           event == draft[r].event
<1>1. p \in Policies /\ input[r] \in Inputs
  BY Own DEF CleanInv, AnswersInv, DataInv, IInv, Control, ClaimOf, HoldsClaim, HoldsPolicy
<1>2. /\ Refusal(p, premium[p], body) = "none"
      /\ event = NextEvent(events[p], EventData(p, premium[p], body), input[r].key)
      /\ ~ IsEndorsement(body) => Known(r) = {}
  BY DEF CleanInv, AnswersInv, DataInv, PolicyData, HoldsPolicy
<1>3. event.seq = Len(events[p]) + 1 /\ event.payload = EventData(p, premium[p], body)
  BY <1>2 DEF NextEvent
<1>4. \A i \in DOMAIN events[p] : events[p][i].seq # event.seq
  <2>1. Len(events[p]) \in Nat /\ DOMAIN events[p] = 1 .. Len(events[p])
    BY <1>1 DEF CleanInv, AnswersInv, Histories, IsSequence
  <2>2. \A i \in DOMAIN events[p] : events[p][i].seq = i
    BY <1>1 DEF CleanInv, Tidy
  <2> HIDE DEF p, event
  <2> QED
    BY <1>3, <2>1, <2>2
<1>5. event.payload.kind = "payment" => Known(r) = {}
  BY <1>2, <1>3 DEF EventData
<1>6. LedgerTransactionBalanced(LedgerTransaction(event))
  <2> DEFINE m == event.payload.amount
  <2>1. CASE IsEndorsement(body)
    <3>1. /\ event.payload.kind = "endorsement"
          /\ m = Adjustment(Term(p), body.day, premium[p], body.premium)
      BY <1>3, <2>1 DEF EventData
    <3>2. Verdict(Term(p), body.day, premium[p], body.premium) = "priced"
      BY <1>2, <2>1, VerdictIsNotNone DEF Refusal, EndorsementRefusal
    <3>3. /\ body.day \in Int /\ body.premium \in Int /\ premium[p] \in Int
          /\ Term(p).start \in Int /\ Term(p).end \in Int /\ Term(p).start < Term(p).end
      BY <1>1, <2>1, AmountsAssumption, ContractAssumption DEF IsEndorsement, CleanInv, Tidy, Term
    <3>4. m \in Int \ {0}
      BY <3>1, <3>2, <3>3, PricedIsWhole
    <3>5. Abs(m) \in Nat \ {0} /\ (m > 0 => Abs(m) = m)
      BY <3>4 DEF Abs
    <3>6. LedgerTransaction(event) = [seq |-> event.seq, entries |-> EndorsementEntries(m)]
      BY <3>1 DEF LedgerTransaction
    <3> HIDE DEF m, event
    <3>7. \E x, y : EndorsementEntries(m) = <<LedgerEntry(x, Abs(m), 0), LedgerEntry(y, 0, Abs(m))>>
      BY <3>5 DEF EndorsementEntries
    <3> QED
      BY <3>5, <3>6, <3>7, PairBalances
  <2>2. CASE ~ IsEndorsement(body)
    <3>1. event.payload.kind = "payment" /\ m = body.amount
      BY <1>3, <2>2 DEF EventData
    <3>2. m \in Nat \ {0}
      BY <1>1, <2>2, <3>1, AmountsAssumption DEF IsEndorsement
    <3>3. LedgerTransaction(event) =
            [seq |-> event.seq, entries |-> <<LedgerEntry("CASH", m, 0),
                                              LedgerEntry("PREMIUM_RECEIVABLE", 0, m)>>]
      BY <3>1 DEF LedgerTransaction, PaymentEntries
    <3> HIDE DEF m, event
    <3> QED
      BY <3>2, <3>3, PairBalances
  <2> QED
    BY <2>1, <2>2
<1> QED
  BY <1>4, <1>5, <1>6 DEF Backstop

\* A payment found by its external id has its completed answer.
LEMMA OriginalIsComplete ==
  ASSUME CleanInv, NEW r \in Requests, stage[r] = "external", NEW y \in Known(r)
  PROVE  ExternalVerdict(r, y) \notin Broken
<1>1. Policy(r) \in Policies /\ y \in payments[Policy(r)]
  BY Own DEF CleanInv, AnswersInv, DataInv, ClaimOf, HoldsClaim, HoldsPolicy, Known
<1>2. records[PaymentSlot(Policy(r), y.key)].status = "completed"
  BY <1>1 DEF CleanInv, Tidy, AnswersInv, DataInv, IInv, Rows, RecordShape
<1> QED
  BY <1>2 DEF ExternalVerdict, Broken

LEMMA NoneInProgress ==
  ASSUME CleanInv, NEW r \in Requests, stage[r] = "load"
  PROVE  ClaimVerdict(records[Slot(r)], RequestHash(input[r])) \notin Broken
<1>1. records[Slot(r)].status = "completed"
  BY Own DEF CleanInv, AnswersInv, DataInv, IInv, Rows, RecordShape, ClaimOf
<1> QED
  BY <1>1 DEF ClaimVerdict, Broken

LEMMA RefusalsAreTheClients == \A p, prem, body : Refusal(p, prem, body) \notin Broken
BY DEF Refusal, EndorsementRefusal, PaymentRefusal, Verdict, Broken

\* What a client is told at the end of a transaction.
EndsCleanly(r) == \E answer : reply'[r] = answer /\ answer.error \notin Broken

LEMMA CleanReplies ==
  /\ \A status, error : error \notin Broken => Refused(status, error).error \notin Broken
  /\ \A response, replayed : Answered(response, replayed).error \notin Broken
  /\ \A failure \in Failures : failure.error \notin Broken
<1>1. \A status, error : Refused(status, error).error = error
  BY DEF Refused
<1>2. \A response, replayed : Answered(response, replayed).error = "none"
  BY DEF Answered
<1>3. \A failure \in Failures : failure.error \notin Broken
  <2>1. "Database temporarily unavailable" \notin Broken /\ "Internal server error" \notin Broken
    BY DEF Broken
  <2>2. /\ Refused(503, "Database temporarily unavailable").error \notin Broken
        /\ Refused(500, "Internal server error").error \notin Broken
    BY <1>1, <2>1
  <2> QED
    BY ONLY <2>2, Zenon DEF Failures
<1>4. "none" \notin Broken
  BY DEF Broken
<1> QED
  BY <1>1, <1>2, <1>3, <1>4

\* A statement ends the transaction with none of those errors, or goes on.
LEMMA CleanStatement ==
  ASSUME CleanInv, NEW r \in Requests, Step(r)
  PROVE  /\ CommitReplay(r) \/ CommitCopy(r) \/ CommitsEvent(r) \/ UNCHANGED books
         /\ Others(r)
         /\ stage'[r] = "done" => reply'[r].error \notin Broken
<1>1. Control
  BY DEF CleanInv, AnswersInv, DataInv, IInv
<1>2. ASSUME NEW status, NEW error, error \notin Broken, Rollback(r, Refused(status, error))
      PROVE  /\ UNCHANGED books /\ Others(r) /\ reply'[r].error \notin Broken
  <2>1. Finish(r, Refused(status, error)) /\ UNCHANGED books /\ faults' \in 0 .. MaxFaults
    BY <1>1, <1>2 DEF Rollback, Control
  <2>2. Others(r) /\ reply'[r] = Refused(status, error)
    BY <1>1, <2>1, FinishControl
  <2> QED
    BY <1>2, <2>1, <2>2, CleanReplies
<1>3. ASSUME NEW next \in Stages \ {"done"}, NEW newDraft, Proceed(r, next, newDraft)
      PROVE  UNCHANGED books /\ Others(r) /\ stage'[r] # "done"
  BY <1>1, <1>3 DEF Proceed, Others, Control
<1>4. ASSUME NEW response, NEW replayed, Acknowledge(r, Answered(response, replayed))
      PROVE  Others(r) /\ reply'[r].error \notin Broken
  <2>1. PICK given \in {Answered(response, replayed), Refused(500, "Internal server error")} :
          Finish(r, given)
    BY <1>4 DEF Acknowledge
  <2>2. faults' \in 0 .. MaxFaults
    BY <1>1, <1>4, AcknowledgeFinishes
  <2>3. Others(r) /\ reply'[r] = given
    BY <1>1, <2>1, <2>2, FinishControl
  <2>4. given.error \notin Broken
    <3>1. Refused(500, "Internal server error") \in Failures
      BY DEF Failures
    <3> QED
      BY <2>1, <3>1, CleanReplies
  <2> QED
    BY <2>3, <2>4
<1> DEFINE Ends == \E status : \E error : error \notin Broken /\ Rollback(r, Refused(status, error))
           Commits == CommitReplay(r) \/ CommitCopy(r) \/ CommitsEvent(r)
<1>5. Commits \/ Ends \/ GoesOn(r)
  <2>1. CASE ClaimNew(r) \/ ClaimExisting(r) \/ AppendEvent(r) \/ Settle(r) \/ CountOriginal(r)
             \/ ExternalNew(r)
    BY <2>1 DEF GoesOn, ClaimNew, ClaimExisting, AppendEvent, Settle, CountOriginal,
                ExternalNew, Stages
  <2>2. CASE CommitReplay(r) \/ CommitCopy(r)
    BY <2>2
  <2>3. CASE LoadRecord(r)
    BY <2>3, NoneInProgress DEF GoesOn, LoadRecord, Stages
  <2>4. CASE PolicyMissing(r)
    <3>1. "Policy not found" \notin Broken
      BY DEF Broken
    <3> QED
      BY <2>4, <3>1 DEF PolicyMissing
  <2>5. CASE LockPolicy(r)
    BY <2>5, RefusalsAreTheClients DEF GoesOn, LockPolicy, Stages
  <2>6. CASE ExternalKnown(r)
    <3>1. PICK y \in Known(r) :
            \/ \E newDraft : Proceed(r, "original", newDraft)
            \/ \E status : Rollback(r, Refused(status, ExternalVerdict(r, y)))
      BY <2>6 DEF ExternalKnown
    <3>2. ExternalVerdict(r, y) \notin Broken
      BY <2>6, OriginalIsComplete DEF ExternalKnown
    <3>3. "original" \in Stages \ {"done"}
      BY DEF Stages
    <3> QED
      BY <3>1, <3>2, <3>3 DEF GoesOn
  <2>7. CASE CommitEvent(r)
    <3>1. Backstop(r) = "none"
      BY <2>7, NothingToRefuse DEF CommitEvent
    <3> QED
      BY <2>7, <3>1 DEF CommitEvent, CommitsEvent
  <2> QED
    BY <2>1, <2>2, <2>3, <2>4, <2>5, <2>6, <2>7 DEF Step
<1>6. CASE Commits
  <2>1. \E response : \E replayed : Acknowledge(r, Answered(response, replayed))
    BY <1>6 DEF CommitReplay, CommitCopy, CommitsEvent
  <2> QED
    BY <1>4, <1>6, <2>1
<1>7. CASE Ends
  BY <1>2, <1>7
<1>8. CASE GoesOn(r)
  BY <1>3, <1>8 DEF GoesOn
<1> QED
  BY <1>5, <1>6, <1>7, <1>8

\* The tables stay tidy.
LEMMA RecordsOnlyTidy ==
  ASSUME CleanInv, UNCHANGED <<premium, events, payments>>,
         \A s \in Slots : records[s] # NoRecord => records'[s] # NoRecord
  PROVE  Tidy'
<1>1. \A p \in Policies : \A y \in payments[p] : PaymentSlot(p, y.key) \in Slots
  BY DEF CleanInv, AnswersInv, DataInv, IInv, Rows
<1> QED
  BY <1>1 DEF CleanInv, Tidy

LEMMA CommitReplayTidy ==
  ASSUME CleanInv, NEW r \in Requests, CommitReplay(r) PROVE Tidy'
<1>1. records' = [records EXCEPT ![Slot(r)] = Replayed(records[Slot(r)])]
      /\ UNCHANGED <<premium, events, payments>>
  BY DEF CommitReplay
<1>2. RecordShape(records[Slot(r)]) /\ Slot(r) \in Slots
  BY Own DEF CommitReplay, ClaimOf, CleanInv, AnswersInv, DataInv, IInv, Rows
<1>3. \A s \in Slots : records[s] # NoRecord => records'[s] # NoRecord
  BY <1>1, <1>2, RecordShapes DEF CleanInv, AnswersInv, DataInv, IInv, Rows
<1> QED
  BY <1>1, <1>3, RecordsOnlyTidy

LEMMA CommitCopyTidy ==
  ASSUME CleanInv, NEW r \in Requests, CommitCopy(r) PROVE Tidy'
<1>1. /\ stage[r] = "copy"
      /\ records' = [records EXCEPT
             ![draft[r].original] = Replayed(records[draft[r].original]),
             ![Slot(r)] = CompletedRecord(RequestHash(input[r]), draft[r].response)]
      /\ UNCHANGED <<premium, events, payments>>
  BY DEF CommitCopy
<1>2. RecordShape(records[draft[r].original]) /\ draft[r].original \in Slots /\ Slot(r) \in Slots
  BY <1>1, CopyRecords, Own DEF ClaimOf, CleanInv, AnswersInv, DataInv
<1>3. \A s \in Slots : records[s] # NoRecord => records'[s] # NoRecord
  BY <1>1, <1>2, RecordShapes DEF CleanInv, AnswersInv, DataInv, IInv, Rows
<1> QED
  BY <1>1, <1>3, RecordsOnlyTidy

LEMMA CommitsEventTidy ==
  ASSUME CleanInv, NEW r \in Requests, CommitsEvent(r) PROVE Tidy'
<1> DEFINE p     == Policy(r)
           event == draft[r].event
<1>1. /\ p \in Policies /\ input[r] \in Inputs /\ Slot(r) \in Slots
      /\ records[Slot(r)] = NoRecord /\ IsSequence(events[p])
  BY Own DEF CommitsEvent, ClaimOf, HoldsClaim, HoldsPolicy, CleanInv, AnswersInv, Histories,
             DataInv, IInv, Control
<1>2. event = NextEvent(events[p], EventData(p, premium[p], input[r].body), input[r].key)
  BY DEF CommitsEvent, CleanInv, AnswersInv, DataInv, PolicyData
<1>3. /\ event.seq = Len(events[p]) + 1 /\ event.key = input[r].key
      /\ event.payload.kind = "payment" => ~ IsEndorsement(input[r].body)
  BY <1>2 DEF NextEvent, EventData
<1>4. /\ events' = [events EXCEPT ![p] = Append(events[p], event)]
      /\ payments' = [payments EXCEPT ![p] = payments[p] \cup NewPayments(event)]
      /\ premium' = PremiumAfter(r)
      /\ records' = [records EXCEPT ![Slot(r)] =
                       CompletedRecord(RequestHash(input[r]), draft[r].response)]
  BY DEF CommitsEvent, Publish, SeenPayments
<1>5. DOMAIN premium = Policies /\ DOMAIN events = Policies /\ DOMAIN payments = Policies
      /\ DOMAIN records = Slots
  BY DEF CleanInv, AnswersInv, DataInv, Tables, IInv, Rows
<1>6. \A q \in Policies : premium'[q] \in Nat
  <2>1. IsEndorsement(input[r].body) => input[r].body.premium \in Nat
    BY <1>1, AmountsAssumption DEF IsEndorsement
  <2> QED
    BY <1>4, <1>5, <2>1 DEF PremiumAfter, CleanInv, Tidy
<1>7. \A s \in Slots : records[s] # NoRecord => records'[s] # NoRecord
  BY <1>1, <1>4, <1>5
<1>8. records'[Slot(r)] # NoRecord
  BY <1>1, <1>4, <1>5, RecordShapes
<1>9. ASSUME NEW q \in Policies, NEW i \in DOMAIN events'[q] PROVE events'[q][i].seq = i
  <2>1. \A j \in DOMAIN events[q] : events[q][j].seq = j
    BY DEF CleanInv, Tidy
  <2>2. CASE q = p
    <3>1. events'[q] = Append(events[p], event)
      BY <1>4, <1>5, <2>2
    <3> HIDE DEF p, event
    <3>2. i \in DOMAIN events[p] \/ i = Len(events[p]) + 1
      <4>1. PICK S : events[p] \in Seq(S)
        BY <1>1 DEF IsSequence
      <4>2. Len(events[p]) \in Nat /\ DOMAIN events[p] = 1 .. Len(events[p])
        BY <4>1
      <4>3. events[p] \in Seq(S \cup {event})
        BY <4>1
      <4>4. DOMAIN Append(events[p], event) = 1 .. (Len(events[p]) + 1)
        BY <4>3
      <4> QED
        BY <1>9, <3>1, <4>2, <4>4
    <3> QED
      BY <1>1, <1>3, <2>1, <2>2, <3>1, <3>2, AppendKeeps
  <2>3. CASE q # p
    BY <1>4, <1>5, <1>9, <2>1, <2>3
  <2> QED
    BY <2>2, <2>3
<1>10. ASSUME NEW q \in Policies, NEW y \in payments'[q]
       PROVE  records'[PaymentSlot(q, y.key)] # NoRecord
  <2>1. CASE y \in payments[q]
    <3>1. PaymentSlot(q, y.key) \in Slots /\ records[PaymentSlot(q, y.key)] # NoRecord
      BY <2>1 DEF CleanInv, Tidy, AnswersInv, DataInv, IInv, Rows
    <3> QED
      BY <1>7, <3>1
  <2>2. CASE y \notin payments[q]
    <3>1. q = p /\ y \in NewPayments(event)
      BY <1>4, <1>5, <1>10, <2>2
    <3>2. event.payload.kind = "payment" /\ y = Payment(event)
      BY <3>1 DEF NewPayments
    <3>3. y.key = input[r].key
      BY <1>3, <3>2 DEF Payment
    <3>4. input[r].body.kind = "payment"
      BY <1>1, <1>3, <3>2, InputsAssumption DEF IsEndorsement
    <3>5. PaymentSlot(q, y.key) = Slot(r)
      BY <3>1, <3>3, <3>4 DEF PaymentSlot, Slot, SlotOf, Policy
    <3> QED
      BY <1>8, <3>5
  <2> QED
    BY <2>1, <2>2
<1> QED
  BY <1>6, <1>9, <1>10 DEF Tidy

LEMMA QuietTidy == ASSUME CleanInv, UNCHANGED books PROVE Tidy'
BY DEF CleanInv, Tidy, books

LEMMA NextClean == CleanInv /\ [Next]_vars => CleanInv'
<1> SUFFICES ASSUME CleanInv, [Next]_vars PROVE CleanInv'
  OBVIOUS
<1>1. AnswersInv'
  BY NextAnswers DEF CleanInv
<1>2. Control
  BY DEF CleanInv, AnswersInv, DataInv, IInv
<1>3. ASSUME Tidy', NEW r \in Requests, Others(r),
             stage'[r] = "done" => reply'[r].error \notin Broken
      PROVE  CleanInv'
  <2>1. \A q \in Requests \ {r} : stage'[q] = "done" => reply'[q].error \notin Broken
    BY <1>3 DEF Others, CleanInv
  <2> QED
    BY <1>1, <1>3, <2>1 DEF CleanInv
<1>4. ASSUME NEW r \in Requests, Step(r) PROVE CleanInv'
  <2>1. Tidy'
    BY <1>4, CleanStatement, CommitReplayTidy, CommitCopyTidy, CommitsEventTidy, QuietTidy
  <2> QED
    BY <1>3, <1>4, <2>1, CleanStatement
<1>5. ASSUME NEW r \in Requests, Abort(r) PROVE CleanInv'
  <2>1. PICK failure \in Failures : Finish(r, failure)
    BY <1>5 DEF Abort
  <2>2. faults' \in 0 .. MaxFaults
    BY <1>2, <1>5, OneMoreFault DEF Abort
  <2>3. Others(r) /\ reply'[r] = failure
    BY <1>2, <2>1, <2>2, FinishControl
  <2>4. Tidy'
    BY <1>5, QuietTidy DEF Abort
  <2> QED
    BY <1>3, <2>3, <2>4, CleanReplies
<1>6. ASSUME NEW r \in Requests, Resend(r) PROVE CleanInv'
  <2>1. Others(r) /\ stage'[r] = "claim" /\ UNCHANGED books
    BY <1>2, <1>6 DEF Resend, Others, Control
  <2> QED
    BY <1>3, <2>1, QuietTidy
<1>7. CASE UNCHANGED vars
  BY <1>1, <1>7 DEF vars, CleanInv, Tidy
<1> QED
  BY <1>4, <1>5, <1>6, <1>7 DEF Next, Quiescent

THEOREM CleanInvariant == Spec => []CleanInv
<1> QED
  BY InitClean, NextClean, PTL DEF Spec

\* No request finds a key in progress or a payment without its stored result,
\* and none runs into a unique constraint or the ledger trigger
\* (service.ts:593-602, 662-668; migrations/001: UNIQUE, the deferred trigger).
THEOREM BackstopsSleep == Spec => []BackstopsNeverFire
<1>1. CleanInv => BackstopsNeverFire
  BY DEF CleanInv, Broken, BackstopsNeverFire
<1> QED
  BY <1>1, CleanInvariant, PTL
-----------------------------------------------------------------------------
\* Part five: what is proved of the book holds of the transactions.

\* The proofs about PolicyBook, with no reports under way.
BookProofs == INSTANCE SnapshotReadsProofs
                WITH ReplayCounts <- Nat, Connections <- {}, Reads <- {},
                     serving <- << >>, snapshot <- << >>, rows <- << >>,
                     report <- << >>, known <- << >>

\* Both instances of PolicyBook are the same book.
LEMMA SameBook ==
  /\ BookProofs!Init <=> Book!Init
  /\ [BookProofs!Next]_(BookProofs!vars) <=> [Book!Next]_(Book!vars)
<1>1. BookProofs!Init <=> Book!Init
  BY DEF BookProofs!Policies, Book!Policies, BookProofs!SlotOf, Book!SlotOf,
         BookProofs!Slots, Book!Slots, BookProofs!NoRecord, Book!NoRecord,
         BookProofs!Init, Book!Init
<1>2. /\ \A in : BookProofs!SlotOf(in) = Book!SlotOf(in)
      /\ \A in : BookProofs!RequestHash(in) = Book!RequestHash(in)
      /\ \A in : BookProofs!SameExternal(in) = Book!SameExternal(in)
      /\ \A p, key : BookProofs!PaymentSlot(p, key) = Book!PaymentSlot(p, key)
      /\ \A body : BookProofs!IsEndorsement(body) <=> Book!IsEndorsement(body)
      /\ \A x : BookProofs!Replayed(x) = Book!Replayed(x)
      /\ \A hash, x : BookProofs!CompletedRecord(hash, x) = Book!CompletedRecord(hash, x)
      /\ BookProofs!NoRecord = Book!NoRecord /\ BookProofs!Policies = Book!Policies
  BY DEF BookProofs!SlotOf, Book!SlotOf, BookProofs!RequestHash, Book!RequestHash,
         BookProofs!SameExternal, Book!SameExternal, BookProofs!PaymentSlot,
         Book!PaymentSlot, BookProofs!IsEndorsement, Book!IsEndorsement,
         BookProofs!Replayed, Book!Replayed, BookProofs!CompletedRecord,
         Book!CompletedRecord, BookProofs!NoRecord, Book!NoRecord, BookProofs!Policies,
         Book!Policies
<1>3. /\ \A t, d, o, n : BookProofs!Adjustment(t, d, o, n) = Book!Adjustment(t, d, o, n)
      /\ \A t, d, o, n : BookProofs!Verdict(t, d, o, n) = Book!Verdict(t, d, o, n)
      /\ \A p : BookProofs!Term(p) = Book!Term(p)
  BY DEF BookProofs!Term, Book!Term, BookProofs!Abs, Book!Abs,
         BookProofs!RoundFractionHalfAwayFromZero, Book!RoundFractionHalfAwayFromZero,
         BookProofs!ProratedDelta, Book!ProratedDelta, BookProofs!TermDays,
         Book!TermDays, BookProofs!RemainingDays, Book!RemainingDays,
         BookProofs!InsideTerm, Book!InsideTerm, BookProofs!Proratable, Book!Proratable,
         BookProofs!Adjustment, Book!Adjustment, BookProofs!Verdict, Book!Verdict
<1>4. \A in : BookProofs!Admissible(in) <=> Book!Admissible(in)
  BY <1>2, <1>3 DEF BookProofs!EndorsementRefusal, Book!EndorsementRefusal,
                    BookProofs!PaymentRefusal, Book!PaymentRefusal, BookProofs!Refusal,
                    Book!Refusal, BookProofs!Admissible, Book!Admissible
<1>5. \A in, p : BookProofs!EventFor(in, p) = Book!EventFor(in, p)
  BY <1>2, <1>3 DEF BookProofs!Genesis, Book!Genesis, BookProofs!HashPolicyEvent,
                    Book!HashPolicyEvent, BookProofs!HeadHash, Book!HeadHash,
                    BookProofs!EventData, Book!EventData, BookProofs!NextEvent,
                    Book!NextEvent, BookProofs!EventFor, Book!EventFor
<1>6. \A d, y : BookProofs!OpenBalance(d, y) = Book!OpenBalance(d, y)
  BY Zenon DEF BookProofs!OpenBalance, Book!OpenBalance, BookProofs!Total, Book!Total,
               BookProofs!SumFunction, Book!SumFunction, BookProofs!SumFunctionOnSet,
               Book!SumFunctionOnSet, BookProofs!FoldFunctionOnSet,
               Book!FoldFunctionOnSet, BookProofs!MapThenFoldSet, Book!MapThenFoldSet
<1>7. /\ \A d, b : BookProofs!ToSettle(d, b) = Book!ToSettle(d, b)
      /\ \A d, paid : BookProofs!MarkPaid(d, paid) = Book!MarkPaid(d, paid)
      /\ \A p, e : BookProofs!DocumentsWith(p, e) = Book!DocumentsWith(p, e)
      /\ \A p, e : BookProofs!PaymentsWith(p, e) = Book!PaymentsWith(p, e)
      /\ \A e, b : BookProofs!Response(e, b) = Book!Response(e, b)
      /\ \A e : BookProofs!LedgerTransaction(e) = Book!LedgerTransaction(e)
  BY DEF BookProofs!Abs, Book!Abs, BookProofs!Payable, Book!Payable,
         BookProofs!ToSettle, Book!ToSettle, BookProofs!MarkPaid, Book!MarkPaid,
         BookProofs!BillingDocument, Book!BillingDocument, BookProofs!Payment,
         Book!Payment, BookProofs!NewDocuments, Book!NewDocuments,
         BookProofs!NewPayments, Book!NewPayments, BookProofs!DocumentsWith,
         Book!DocumentsWith, BookProofs!PaymentsWith, Book!PaymentsWith,
         BookProofs!Response, Book!Response, BookProofs!LedgerEntry, Book!LedgerEntry,
         BookProofs!EndorsementEntries, Book!EndorsementEntries,
         BookProofs!PaymentEntries, Book!PaymentEntries, BookProofs!LedgerTransaction,
         Book!LedgerTransaction
<1>8. \A in, p, e : BookProofs!Enact(in, p, e) <=> Book!Enact(in, p, e)
  BY <1>2, <1>6, <1>7 DEF BookProofs!BalanceWith, Book!BalanceWith, BookProofs!Enact,
                          Book!Enact
<1>9. \A in : /\ BookProofs!ApplyEndorsement(in) <=> Book!ApplyEndorsement(in)
              /\ BookProofs!RecordPayment(in) <=> Book!RecordPayment(in)
  BY <1>2, <1>4, <1>5, <1>8 DEF BookProofs!ApplyEndorsement, Book!ApplyEndorsement,
                                BookProofs!RecordPayment, Book!RecordPayment
<1>10. \A in : /\ BookProofs!ReplayKey(in) <=> Book!ReplayKey(in)
               /\ BookProofs!ReplayExternal(in) <=> Book!ReplayExternal(in)
  BY <1>2, <1>4 DEF BookProofs!ReplayKey, Book!ReplayKey, BookProofs!ReplayExternal,
                    Book!ReplayExternal
<1>11. BookProofs!Next <=> Book!Next
  BY <1>9, <1>10 DEF BookProofs!Next, Book!Next
<1> QED
  BY <1>1, <1>11 DEF BookProofs!vars, Book!vars

LEMMA SameBookkeeping ==
  /\ BookProofs!ReceivableIsOpenBalance <=> Book!ReceivableIsOpenBalance
  /\ BookProofs!OpenDocumentsCoverBalance <=> Book!OpenDocumentsCoverBalance
  /\ BookProofs!PremiumFollowsHistory <=> Book!PremiumFollowsHistory
  /\ BookProofs!EffectsTiedToKeys <=> Book!EffectsTiedToKeys
  /\ BookProofs!ExternalPaymentOnce <=> Book!ExternalPaymentOnce
  /\ [BookProofs!OnlyAdds]_(BookProofs!vars) <=> [Book!OnlyAdds]_(Book!vars)
<1>1. BookProofs!ReceivableIsOpenBalance <=> Book!ReceivableIsOpenBalance
  BY DEF BookProofs!Policies, Book!Policies, BookProofs!NetOf, Book!NetOf,
         BookProofs!AccountBalance, Book!AccountBalance,
         BookProofs!ReceivableIsOpenBalance, Book!ReceivableIsOpenBalance,
         BookProofs!Total, Book!Total, BookProofs!OpenBalance, Book!OpenBalance,
         BookProofs!SumFunction, Book!SumFunction, BookProofs!SumFunctionOnSet,
         Book!SumFunctionOnSet, BookProofs!FoldFunctionOnSet, Book!FoldFunctionOnSet,
         BookProofs!MapThenFoldSet, Book!MapThenFoldSet
<1>2. BookProofs!OpenDocumentsCoverBalance <=> Book!OpenDocumentsCoverBalance
  BY DEF BookProofs!Policies, Book!Policies, BookProofs!Payable, Book!Payable,
         BookProofs!OpenDocumentsCoverBalance, Book!OpenDocumentsCoverBalance,
         BookProofs!Total, Book!Total, BookProofs!OpenBalance, Book!OpenBalance,
         BookProofs!SumFunction, Book!SumFunction, BookProofs!SumFunctionOnSet,
         Book!SumFunctionOnSet, BookProofs!FoldFunctionOnSet, Book!FoldFunctionOnSet,
         BookProofs!MapThenFoldSet, Book!MapThenFoldSet
<1>3. BookProofs!PremiumFollowsHistory <=> Book!PremiumFollowsHistory
  BY DEF BookProofs!Policies, Book!Policies, BookProofs!Max, Book!Max,
         BookProofs!PremiumBefore, Book!PremiumBefore, BookProofs!PremiumFollowsHistory,
         Book!PremiumFollowsHistory
<1>4. BookProofs!EffectsTiedToKeys <=> Book!EffectsTiedToKeys
  BY DEF BookProofs!Policies, Book!Policies, BookProofs!SlotOf, Book!SlotOf,
         BookProofs!Slots, Book!Slots, BookProofs!NoRecord, Book!NoRecord,
         BookProofs!IsEndorsement, Book!IsEndorsement, BookProofs!EffectsTiedToKeys,
         Book!EffectsTiedToKeys
<1>5. BookProofs!ExternalPaymentOnce <=> Book!ExternalPaymentOnce
  BY DEF BookProofs!Policies, Book!Policies, BookProofs!ExternalPaymentOnce,
         Book!ExternalPaymentOnce
<1>6. BookProofs!OnlyAdds <=> Book!OnlyAdds
  BY DEF BookProofs!Policies, Book!Policies, BookProofs!SlotOf, Book!SlotOf,
         BookProofs!Slots, Book!Slots, BookProofs!NoRecord, Book!NoRecord,
         BookProofs!OnlyAdds, Book!OnlyAdds
<1> QED
  BY <1>1, <1>2, <1>3, <1>4, <1>5, <1>6 DEF BookProofs!vars, Book!vars

\* After every step of the concurrent service, whatever failed or was repeated,
\* the receivable is the open balance, open documents cover what is owed, the
\* endorsements form one chain of premiums, each effect belongs to one key and
\* an external payment is booked once (service.ts:78-426, 592-645); and no step
\* rewrites what is on the books.
THEOREM BooksAreKept ==
  Spec => /\ []Book!ReceivableIsOpenBalance
          /\ []Book!OpenDocumentsCoverBalance
          /\ []Book!PremiumFollowsHistory
          /\ []Book!EffectsTiedToKeys
          /\ []Book!ExternalPaymentOnce
          /\ Book!NothingIsRewritten
<1>1. /\ \A p \in BookProofs!Policies : /\ Contract[p].start \in Int /\ Contract[p].end \in Int
                                        /\ Contract[p].start < Contract[p].end
                                        /\ Contract[p].premium \in Nat
      /\ \A read \in {} : read.kind \in {"state", "ledger", "history"}
  BY ContractAssumption DEF Policies, BookProofs!Policies
<1>2. BookProofs!Spec => []BookProofs!ReceivableIsOpenBalance
  BY <1>1, InputsAssumption, AmountsAssumption, BookProofs!TwoBalancesAgree
<1>3. BookProofs!Spec => []BookProofs!OpenDocumentsCoverBalance
  BY <1>1, InputsAssumption, AmountsAssumption, BookProofs!DebtIsOpen
<1>4. BookProofs!Spec => []BookProofs!PremiumFollowsHistory
  BY <1>1, InputsAssumption, AmountsAssumption, BookProofs!PremiumsChain
<1>5. BookProofs!Spec => []BookProofs!EffectsTiedToKeys
  BY <1>1, InputsAssumption, AmountsAssumption, BookProofs!ExactlyOnce
<1>6. BookProofs!Spec => []BookProofs!ExternalPaymentOnce
  BY <1>1, InputsAssumption, AmountsAssumption, BookProofs!PaymentsOnce
<1>7. BookProofs!Spec => BookProofs!NothingIsRewritten
  BY <1>1, InputsAssumption, AmountsAssumption, BookProofs!NeverRewritten
<1>8. Book!Spec => BookProofs!Spec
  BY SameBook, PTL DEF Book!Spec, BookProofs!Spec
<1>9. BookProofs!NothingIsRewritten => Book!NothingIsRewritten
  BY SameBook, SameBookkeeping, PTL DEF Book!NothingIsRewritten, BookProofs!NothingIsRewritten
<1> QED
  BY <1>2, <1>3, <1>4, <1>5, <1>6, <1>7, <1>8, <1>9, SameBookkeeping, Implementation, PTL
  DEF ImplementsPolicyBook
=============================================================================
