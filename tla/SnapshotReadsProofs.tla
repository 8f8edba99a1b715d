------------------------- MODULE SnapshotReadsProofs -------------------------
(***************************************************************************)
(* Proofs about PolicyBook, and about the reports SnapshotReads adds to    *)
(* it, for every set of policies and inputs and number of connections.     *)
(*                                                                         *)
(* The book.  IInv ties events, records and payments to each other: each   *)
(* accepted request leaves one effect, under the key it came with, and     *)
(* nothing that was written is ever withdrawn or altered.  BooksSound says *)
(* of each policy what its rows are, given its events, and with the sums   *)
(* over them that the two accounts of a debt agree and its documents cover *)
(* it.  CopiesCounted is about answers copied to another key.              *)
(*                                                                         *)
(* The reports.  Whatever commits between the queries of a report, it is   *)
(* of one moment of the books, not from before its question, and finds no  *)
(* fault with them.                                                        *)
(***************************************************************************)
EXTENDS SnapshotReads, MoneyTheorems

-----------------------------------------------------------------------------
\* The book.


IsSequence(x) == \E S : x \in Seq(S)

Tables ==
  /\ DOMAIN premium = Policies
  /\ DOMAIN events = Policies /\ \A p \in Policies : IsSequence(events[p])
  /\ DOMAIN documents = Policies
  /\ DOMAIN payments = Policies
  /\ DOMAIN ledger = Policies
  /\ DOMAIN records = Slots

\* A record on file is complete, and its policy exists.
RecordShape(x) ==
  /\ DOMAIN x = {"hash", "status", "response", "replays"}
  /\ x.replays \in Nat

Filed(s) == records[s] # NoRecord

RecordsComplete == \A s \in Slots : Filed(s) => RecordShape(records[s]) /\ s[2] \in Policies

\* The two halves of EffectsTiedToKeys.
EventHasRecord(p, i) ==
  LET e == events[p][i]
      s == <<e.payload.kind, p, e.key>>
  IN  s \in Slots /\ Filed(s) /\ records[s].response.seq = i /\ records[s].response.hash = e.hash

AnswerHasEvent(s) ==
  LET body == records[s].hash
      chain == events[s[2]]
      i    == records[s].response.seq
  IN  /\ i \in DOMAIN chain
      /\ chain[i].payload.kind = s[1]
      /\ IF IsEndorsement(body) THEN chain[i].payload.new = body.premium
         ELSE /\ chain[i].payload.external = body.external
              /\ chain[i].payload.amount = body.amount

\* A payment's row has the data of the event that the answer under its key
\* speaks of: that answer may be copied for a payment with the same data.
PaymentHasRecord(p, y) ==
  LET s == PaymentSlot(p, y.key)
      i == records[s].response.seq
  IN  /\ s \in Slots /\ Filed(s)
      /\ i \in DOMAIN events[p]
      /\ events[p][i].payload.kind = "payment"
      /\ events[p][i].payload.external = y.external
      /\ events[p][i].payload.amount = y.amount

IInv ==
  /\ Tables
  /\ RecordsComplete
  /\ \A p \in Policies : \A i \in DOMAIN events[p] : EventHasRecord(p, i)
  /\ \A s \in Slots : Filed(s) => AnswerHasEvent(s)
  /\ \A p \in Policies : \A y \in payments[p] : PaymentHasRecord(p, y)
  /\ ExternalPaymentOnce

LEMMA InitIInv == Init => IInv
<1> SUFFICES ASSUME Init PROVE IInv
  OBVIOUS
<1>1. Tables
  <2>1. IsSequence(<< >>)
    BY DEF IsSequence
  <2> QED
    BY <2>1 DEF Init, Tables
<1>2. \A s \in Slots : ~ Filed(s)
  BY DEF Init, Filed
<1>3. \A p \in Policies : DOMAIN events[p] = {} /\ payments[p] = {}
  BY DEF Init
<1> QED
  BY <1>1, <1>2, <1>3 DEF IInv, RecordsComplete, ExternalPaymentOnce

-----------------------------------------------------------------------------
\* What a step may do to records and events: answers stay, histories grow.

AnswersKept ==
  /\ DOMAIN records' = Slots
  /\ \A s \in Slots : Filed(s) =>
       /\ Filed(s)' /\ RecordShape(records'[s])
       /\ records'[s].response = records[s].response
       /\ records'[s].hash = records[s].hash
       /\ records'[s].replays >= records[s].replays

EventsKept ==
  /\ DOMAIN events' = Policies
  /\ \A p \in Policies :
       /\ IsSequence(events'[p])
       /\ DOMAIN events[p] \subseteq DOMAIN events'[p]
       /\ \A i \in DOMAIN events[p] : events'[p][i] = events[p][i]

\* What was tied before the step is tied after it.
LEMMA TiesKept ==
  ASSUME IInv, AnswersKept, EventsKept
  PROVE  /\ \A p \in Policies : \A i \in DOMAIN events[p] : EventHasRecord(p, i)'
         /\ \A s \in Slots : Filed(s) => AnswerHasEvent(s)'
         /\ \A p \in Policies : \A y \in payments[p] : PaymentHasRecord(p, y)'
<1>1. ASSUME NEW p \in Policies, NEW i \in DOMAIN events[p] PROVE EventHasRecord(p, i)'
  <2>1. EventHasRecord(p, i)
    BY DEF IInv
  <2> QED
    BY <2>1 DEF EventHasRecord, AnswersKept, EventsKept
<1>2. ASSUME NEW s \in Slots, Filed(s) PROVE AnswerHasEvent(s)'
  <2>1. AnswerHasEvent(s) /\ s[2] \in Policies
    BY <1>2 DEF IInv, RecordsComplete
  <2> QED
    BY <1>2, <2>1 DEF AnswerHasEvent, AnswersKept, EventsKept
<1>3. ASSUME NEW p \in Policies, NEW y \in payments[p] PROVE PaymentHasRecord(p, y)'
  <2>1. PaymentHasRecord(p, y)
    BY DEF IInv
  <2> QED
    BY <2>1 DEF PaymentHasRecord, AnswersKept, EventsKept
<1> QED
  BY <1>1, <1>2, <1>3

LEMMA RecordShapes ==
  /\ \A hash, response :
       /\ RecordShape(CompletedRecord(hash, response))
       /\ CompletedRecord(hash, response) # NoRecord
       /\ CompletedRecord(hash, response).hash = hash
       /\ CompletedRecord(hash, response).response = response
  /\ \A x : RecordShape(x) =>
       /\ RecordShape(Replayed(x)) /\ Replayed(x) # NoRecord
       /\ Replayed(x).hash = x.hash /\ Replayed(x).response = x.response
       /\ Replayed(x).replays >= x.replays
  BY DEF RecordShape, CompletedRecord, Replayed, NoRecord

LEMMA AppendKeeps ==
  ASSUME NEW s, IsSequence(s), NEW e
  PROVE  /\ IsSequence(Append(s, e))
         /\ Len(s) \in Nat /\ DOMAIN s = 1..Len(s)
         /\ DOMAIN Append(s, e) = 1..(Len(s) + 1)
         /\ \A i \in 1..Len(s) : Append(s, e)[i] = s[i]
         /\ Append(s, e)[Len(s) + 1] = e
         /\ SubSeq(Append(s, e), 1, Len(s)) = s
<1>1. PICK S : s \in Seq(S)
  BY DEF IsSequence
<1>2. s \in Seq(S \cup {e}) /\ Append(s, e) \in Seq(S \cup {e})
  BY <1>1
<1>3. Len(s) \in Nat /\ DOMAIN s = 1..Len(s)
  BY <1>1
<1>4. /\ DOMAIN Append(s, e) = 1..(Len(s) + 1)
      /\ \A i \in 1..Len(s) : Append(s, e)[i] = s[i]
      /\ Append(s, e)[Len(s) + 1] = e
  BY <1>2
<1>5. SubSeq(Append(s, e), 1, Len(s)) = s
  BY <1>2, <1>3, <1>4
<1> QED
  BY <1>2, <1>3, <1>4, <1>5 DEF IsSequence
-----------------------------------------------------------------------------
\* The invariant under each step.

\* A new event, with its rows and the answer under its key.
LEMMA EnactKeeps ==
  ASSUME IInv, NEW in \in Inputs, Admissible(in),
         LET p == in.body.policy IN Enact(in, p, EventFor(in, p))
  PROVE  AnswersKept /\ EventsKept
<1> DEFINE p     == in.body.policy
           event == EventFor(in, p)
           slot  == SlotOf(in)
<1>1. p \in Policies /\ slot \in Slots /\ ~ Filed(slot)
  BY DEF Admissible, Slots, Filed
<1>2. AnswersKept
  <2>1. PICK response : records' = [records EXCEPT ![slot] =
                                      CompletedRecord(RequestHash(in), response)]
    BY DEF Enact
  <2>2. DOMAIN records = Slots /\ DOMAIN records' = Slots
    BY <2>1 DEF IInv, Tables
  <2>3. ASSUME NEW s \in Slots, Filed(s) PROVE records'[s] = records[s] /\ RecordShape(records[s])
    BY <1>1, <2>1, <2>3 DEF IInv, Tables, RecordsComplete
  <2>4. \A s \in Slots : Filed(s) => records[s].replays >= records[s].replays
    BY <2>3 DEF RecordShape
  <2> QED
    BY <2>2, <2>3, <2>4 DEF AnswersKept, Filed
<1>3. EventsKept
  <2>1. events' = [events EXCEPT ![p] = Append(events[p], event)] /\ DOMAIN events = Policies
    BY DEF Enact, IInv, Tables
  <2>2. \A q \in Policies : IsSequence(events[q])
    BY DEF IInv, Tables
  <2>3. ASSUME NEW q \in Policies
        PROVE  /\ IsSequence(events'[q])
               /\ DOMAIN events[q] \subseteq DOMAIN events'[q]
               /\ \A i \in DOMAIN events[q] : events'[q][i] = events[q][i]
    <3>1. CASE q = p
      <4>1. events'[q] = Append(events[p], event)
        BY <1>1, <2>1, <3>1
      <4>2. IsSequence(events[p])
        BY <1>1, <2>2
      <4> HIDE DEF event, p
      <4> QED
        BY <3>1, <4>1, <4>2, AppendKeeps
    <3>2. CASE q # p
      <4>1. events'[q] = events[q]
        BY <2>1, <3>2
      <4> QED
        BY <2>2, <4>1
    <3> QED
      BY <3>1, <3>2
  <2> QED
    BY <2>1, <2>3 DEF EventsKept
<1> QED
  BY <1>2, <1>3

\* The new event is tied to its record, and the other way round.
LEMMA EnactTies ==
  ASSUME IInv, NEW in \in Inputs, Admissible(in),
         LET p == in.body.policy IN Enact(in, p, EventFor(in, p)),
         NEW i, i = Len(events[in.body.policy]) + 1
  PROVE  LET p == in.body.policy
         IN  /\ DOMAIN events'[p] = DOMAIN events[p] \cup {i}
             /\ events'[p][i] = EventFor(in, p)
             /\ EventHasRecord(p, i)'
             /\ AnswerHasEvent(SlotOf(in))'
             /\ \A q \in Policies \ {p} : events'[q] = events[q]
             /\ \A s \in Slots \ {SlotOf(in)} : Filed(s)' <=> Filed(s)
<1> DEFINE p     == in.body.policy
           event == EventFor(in, p)
           slot  == SlotOf(in)
           data  == EventData(p, premium[p], in.body)
<1>1. p \in Policies /\ slot \in Slots /\ ~ Filed(slot)
  BY DEF Admissible, Slots, Filed
<1>2. PICK balance : records' = [records EXCEPT ![slot] =
                        CompletedRecord(RequestHash(in), Response(event, balance))]
  BY DEF Enact
<1>3. /\ events' = [events EXCEPT ![p] = Append(events[p], event)]
      /\ DOMAIN events = Policies /\ DOMAIN records = Slots /\ IsSequence(events[p])
  BY <1>1 DEF Enact, IInv, Tables
<1>4. /\ event.seq = i /\ event.key = in.key /\ event.payload = data
      /\ data.kind = in.body.kind
      /\ IF IsEndorsement(in.body) THEN data.new = in.body.premium
         ELSE data.external = in.body.external /\ data.amount = in.body.amount
  BY InputsAssumption DEF EventFor, NextEvent, EventData, IsEndorsement
<1>5. /\ records'[slot] = CompletedRecord(RequestHash(in), Response(event, balance))
      /\ \A s \in Slots \ {slot} : records'[s] = records[s]
  BY <1>1, <1>2, <1>3
<1>6. /\ records'[slot].response.seq = i /\ records'[slot].response.hash = event.hash
      /\ records'[slot].hash = in.body /\ records'[slot] # NoRecord
  BY <1>4, <1>5, RecordShapes DEF Response, RequestHash
<1>7. events'[p] = Append(events[p], event) /\ \A q \in Policies \ {p} : events'[q] = events[q]
  BY <1>1, <1>3
<1>8. slot = <<in.body.kind, p, in.key>>
  BY DEF SlotOf
<1>13. i = Len(events[p]) + 1
  OBVIOUS
<1> HIDE DEF event, data, p, slot
<1>9. /\ DOMAIN events'[p] = DOMAIN events[p] \cup {i}
      /\ events'[p][i] = event
  <2>1. /\ Len(events[p]) \in Nat /\ DOMAIN events[p] = 1..Len(events[p])
        /\ DOMAIN events'[p] = 1..i /\ events'[p][i] = event
    BY <1>3, <1>7, <1>13, AppendKeeps
  <2> QED
    BY <1>13, <2>1
<1>10. EventHasRecord(p, i)'
  BY <1>1, <1>4, <1>6, <1>8, <1>9 DEF EventHasRecord, Filed
<1>11. AnswerHasEvent(slot)'
  BY <1>4, <1>6, <1>8, <1>9 DEF AnswerHasEvent
<1>12. \A s \in Slots \ {slot} : Filed(s)' <=> Filed(s)
  BY <1>5 DEF Filed
<1> QED
  BY <1>7, <1>9, <1>10, <1>11, <1>12 DEF event, p, slot

\* What the steps that write an event leave of the invariant to be shown: the
\* payments.
LEMMA EnactIInv ==
  ASSUME IInv, NEW in \in Inputs, Admissible(in),
         LET p == in.body.policy IN Enact(in, p, EventFor(in, p)),
         DOMAIN premium' = Policies,
         \A p \in Policies : \A y \in payments'[p] : PaymentHasRecord(p, y)',
         ExternalPaymentOnce'
  PROVE  IInv'
<1> DEFINE p == in.body.policy
<1>1. PICK i : i = Len(events[p]) + 1
  OBVIOUS
<1>2. AnswersKept /\ EventsKept
  BY EnactKeeps
<1>3. /\ \A q \in Policies : \A j \in DOMAIN events[q] : EventHasRecord(q, j)'
      /\ \A s \in Slots : Filed(s) => AnswerHasEvent(s)'
  BY <1>2, TiesKept
<1>4. /\ DOMAIN events'[p] = DOMAIN events[p] \cup {i}
      /\ EventHasRecord(p, i)'
      /\ AnswerHasEvent(SlotOf(in))'
      /\ \A q \in Policies \ {p} : events'[q] = events[q]
      /\ \A s \in Slots \ {SlotOf(in)} : Filed(s)' <=> Filed(s)
  BY <1>1, EnactTies
<1>5. ASSUME NEW q \in Policies, NEW j \in DOMAIN events'[q] PROVE EventHasRecord(q, j)'
  <2>1. CASE q = p
    BY <1>3, <1>4, <2>1, Zenon
  <2>2. CASE q # p
    <3>1. j \in DOMAIN events[q]
      BY <1>4, <1>5, <2>2
    <3> QED
      BY <1>3, <3>1
  <2> QED
    BY <2>1, <2>2
<1>6. ASSUME NEW s \in Slots, Filed(s)' PROVE AnswerHasEvent(s)'
  BY <1>3, <1>4, <1>6
<1>7. RecordsComplete'
  <2>1. RecordShape(records'[SlotOf(in)]) /\ SlotOf(in)[2] \in Policies
    <3>1. PICK response : records' = [records EXCEPT ![SlotOf(in)] =
                                        CompletedRecord(RequestHash(in), response)]
      BY DEF Enact
    <3>2. records'[SlotOf(in)] = CompletedRecord(RequestHash(in), response)
      BY <3>1 DEF Slots, IInv, Tables
    <3> QED
      BY <3>2, RecordShapes DEF Admissible, SlotOf
  <2>2. ASSUME NEW s \in Slots \ {SlotOf(in)}, Filed(s)'
        PROVE  RecordShape(records'[s]) /\ s[2] \in Policies
    BY <1>2, <1>4, <2>2 DEF AnswersKept, IInv, RecordsComplete
  <2> QED
    BY <2>1, <2>2 DEF RecordsComplete
<1>8. Tables'
  <2>1. /\ DOMAIN documents' = Policies /\ DOMAIN payments' = Policies
        /\ DOMAIN ledger' = Policies
    BY DEF Enact, IInv, Tables
  <2> QED
    BY <1>2, <2>1 DEF AnswersKept, EventsKept, Tables
<1> QED
  BY <1>5, <1>6, <1>7, <1>8 DEF IInv

\* The payments as they are after an event was added to policy p.
LEMMA EnactPayments ==
  ASSUME IInv, NEW in \in Inputs, Admissible(in),
         LET p == in.body.policy IN Enact(in, p, EventFor(in, p))
  PROVE  LET p == in.body.policy
         IN  /\ p \in Policies
             /\ payments'[p] = payments[p] \cup NewPayments(EventFor(in, p))
             /\ \A q \in Policies \ {p} : payments'[q] = payments[q]
  BY DEF Enact, PaymentsWith, Admissible, IInv, Tables

LEMMA ApplyEndorsementIInv ==
  ASSUME IInv, NEW in \in Inputs, ApplyEndorsement(in) PROVE IInv'
<1> DEFINE p == in.body.policy
<1>1. Admissible(in) /\ Enact(in, p, EventFor(in, p)) /\ DOMAIN premium' = Policies
  BY DEF ApplyEndorsement, IInv, Tables
<1>2. NewPayments(EventFor(in, p)) = {}
  BY DEF ApplyEndorsement, NewPayments, EventFor, NextEvent, EventData
<1>3. \A q \in Policies : payments'[q] = payments[q]
  BY <1>1, <1>2, EnactPayments
<1>4. \A q \in Policies : \A y \in payments'[q] : PaymentHasRecord(q, y)'
  BY <1>1, <1>3, EnactKeeps, TiesKept
<1>5. ExternalPaymentOnce'
  BY <1>3 DEF ExternalPaymentOnce, IInv
<1> QED
  BY <1>1, <1>4, <1>5, EnactIInv

LEMMA RecordPaymentIInv ==
  ASSUME IInv, NEW in \in Inputs, RecordPayment(in) PROVE IInv'
<1> DEFINE p     == in.body.policy
           event == EventFor(in, p)
<1> PICK new : new = Payment(event)
  OBVIOUS
<1>1. /\ Admissible(in) /\ Enact(in, p, event) /\ SameExternal(in) = {}
      /\ DOMAIN premium' = Policies /\ ~ IsEndorsement(in.body)
  BY DEF RecordPayment, IInv, Tables
<1>2. /\ event.key = in.key
      /\ event.payload.kind = "payment"
      /\ event.payload.external = in.body.external
      /\ event.payload.amount = in.body.amount
  BY <1>1 DEF EventFor, NextEvent, EventData
<1>3. /\ p \in Policies
      /\ payments'[p] = payments[p] \cup {new}
      /\ \A q \in Policies \ {p} : payments'[q] = payments[q]
  BY <1>1, <1>2, EnactPayments DEF NewPayments
<1>4. /\ new.key = in.key /\ new.external = in.body.external
      /\ new.amount = in.body.amount
  BY <1>2 DEF Payment
<1>5. PICK i : i = Len(events[p]) + 1
  OBVIOUS
<1>6. /\ i \in DOMAIN events'[p] /\ events'[p][i] = event /\ EventHasRecord(p, i)'
  BY <1>1, <1>5, EnactTies
<1> HIDE DEF event
<1>7. PaymentHasRecord(p, new)'
  BY <1>2, <1>4, <1>6 DEF PaymentHasRecord, EventHasRecord, PaymentSlot
<1>8. \A q \in Policies : \A y \in payments[q] : PaymentHasRecord(q, y)'
  BY <1>1, EnactKeeps, TiesKept DEF event
<1>9. \A q \in Policies : \A y \in payments'[q] : PaymentHasRecord(q, y)'
  BY <1>3, <1>7, <1>8
<1>10. \A y \in payments[p] : y.external # new.external
  BY <1>1, <1>4 DEF SameExternal
<1>11. ExternalPaymentOnce'
  BY <1>3, <1>10 DEF ExternalPaymentOnce, IInv
<1> QED
  BY <1>1, <1>9, <1>11, EnactIInv DEF event

\* A step that changes records only.
LEMMA RecordsOnlyIInv ==
  ASSUME IInv, AnswersKept,
         UNCHANGED <<premium, events, documents, payments, ledger>>,
         \A s \in Slots : Filed(s)' /\ ~ Filed(s) =>
           /\ RecordShape(records'[s]) /\ s[2] \in Policies
           /\ AnswerHasEvent(s)'
  PROVE  IInv'
<1>1. EventsKept
  BY DEF EventsKept, IInv, Tables
<1>2. /\ \A p \in Policies : \A i \in DOMAIN events'[p] : EventHasRecord(p, i)'
      /\ \A s \in Slots : Filed(s)' => AnswerHasEvent(s)'
      /\ \A p \in Policies : \A y \in payments'[p] : PaymentHasRecord(p, y)'
  BY <1>1, TiesKept
<1>3. RecordsComplete'
  BY DEF RecordsComplete, IInv, AnswersKept
<1>4. Tables' /\ ExternalPaymentOnce'
  BY DEF Tables, ExternalPaymentOnce, IInv, AnswersKept
<1> QED
  BY <1>2, <1>3, <1>4 DEF IInv

LEMMA ReplayKeyKeeps ==
  ASSUME IInv, NEW in \in Inputs, ReplayKey(in)
  PROVE  /\ AnswersKept
         /\ \A s \in Slots : Filed(s)' => Filed(s)
<1> DEFINE slot == SlotOf(in)
<1>1. /\ slot \in Slots /\ Filed(slot) /\ RecordShape(records[slot])
      /\ DOMAIN records = Slots
      /\ records' = [records EXCEPT ![slot] = Replayed(records[slot])]
  BY DEF ReplayKey, Slots, Filed, IInv, Tables, RecordsComplete
<1>2. \A s \in Slots : Filed(s) => RecordShape(records[s]) /\ records[s].replays >= records[s].replays
  BY DEF IInv, RecordsComplete, RecordShape
<1> HIDE DEF slot
<1> QED
  BY <1>1, <1>2, RecordShapes DEF AnswersKept, Filed

LEMMA ReplayKeyIInv ==
  ASSUME IInv, NEW in \in Inputs, ReplayKey(in) PROVE IInv'
<1>1. UNCHANGED <<premium, events, documents, payments, ledger>>
  BY DEF ReplayKey
<1> QED
  BY <1>1, ReplayKeyKeeps, RecordsOnlyIInv

\* A payment known by its external id: the records of the first key and of the
\* new one are two.
LEMMA ReplayExternalKeeps ==
  ASSUME IInv, NEW in \in Inputs, ReplayExternal(in)
  PROVE  /\ AnswersKept
         /\ \E y \in SameExternal(in) :
              LET original == PaymentSlot(in.body.policy, y.key)
              IN  /\ y.amount = in.body.amount
                  /\ records'[SlotOf(in)] =
                       CompletedRecord(RequestHash(in), records[original].response)
         /\ \A s \in Slots \ {SlotOf(in)} : Filed(s)' => Filed(s)
<1> DEFINE p    == in.body.policy
           slot == SlotOf(in)
<1>1. PICK y \in SameExternal(in) :
        /\ y.amount = in.body.amount
        /\ records' = [records EXCEPT
             ![PaymentSlot(p, y.key)] = Replayed(records[PaymentSlot(p, y.key)]),
             ![slot] = CompletedRecord(RequestHash(in), records[PaymentSlot(p, y.key)].response)]
  BY DEF ReplayExternal
<1> DEFINE original == PaymentSlot(p, y.key)
           copy     == CompletedRecord(RequestHash(in), records[original].response)
<1>2. p \in Policies /\ slot \in Slots /\ ~ Filed(slot)
  BY DEF ReplayExternal, Admissible, Slots, Filed
<1>3. original \in Slots /\ Filed(original)
  BY <1>2 DEF SameExternal, IInv, PaymentHasRecord
<1>4. /\ original # slot /\ RecordShape(records[original]) /\ DOMAIN records = Slots
      /\ \A s \in Slots : Filed(s) =>
           RecordShape(records[s]) /\ records[s].replays >= records[s].replays
  BY <1>2, <1>3 DEF IInv, Tables, RecordsComplete, RecordShape
<1>5. records' = [records EXCEPT ![original] = Replayed(records[original]), ![slot] = copy]
  BY <1>1
<1> HIDE DEF original, copy, slot
<1>6. /\ records'[slot] = copy /\ records'[original] = Replayed(records[original])
      /\ \A s \in Slots \ {slot, original} : records'[s] = records[s]
      /\ DOMAIN records' = Slots
  BY <1>2, <1>3, <1>4, <1>5
<1>7. AnswersKept
  BY <1>2, <1>4, <1>6, RecordShapes DEF AnswersKept, Filed
<1> QED
  BY <1>1, <1>3, <1>6, <1>7 DEF original, copy, slot, Filed

LEMMA ReplayExternalIInv ==
  ASSUME IInv, NEW in \in Inputs, ReplayExternal(in) PROVE IInv'
<1> DEFINE p    == in.body.policy
           slot == SlotOf(in)
<1>1. /\ UNCHANGED <<premium, events, documents, payments, ledger>>
      /\ AnswersKept
      /\ \A s \in Slots \ {slot} : Filed(s)' => Filed(s)
      /\ p \in Policies /\ ~ IsEndorsement(in.body) /\ in.body.kind = "payment"
  BY ReplayExternalKeeps, InputsAssumption DEF ReplayExternal, Admissible, IsEndorsement
<1>2. PICK y \in SameExternal(in) :
        /\ y.amount = in.body.amount
        /\ records'[slot] = CompletedRecord(RequestHash(in),
                                             records[PaymentSlot(p, y.key)].response)
  BY ReplayExternalKeeps
<1>3. PaymentHasRecord(p, y) /\ y.external = in.body.external
  BY <1>1 DEF SameExternal, IInv
<1>4. /\ RecordShape(records'[slot])
      /\ records'[slot].hash = in.body
      /\ records'[slot].response = records[PaymentSlot(p, y.key)].response
  BY <1>2, RecordShapes DEF RequestHash
<1>5. AnswerHasEvent(slot)'
  BY <1>1, <1>2, <1>3, <1>4 DEF AnswerHasEvent, PaymentHasRecord, SlotOf
<1> QED
  BY <1>1, <1>4, <1>5, RecordsOnlyIInv DEF SlotOf

LEMMA NextIInv == IInv /\ [Next]_vars => IInv'
<1> SUFFICES ASSUME IInv, [Next]_vars PROVE IInv'
  OBVIOUS
<1>1. ASSUME NEW in \in Inputs, ApplyEndorsement(in) PROVE IInv'
  BY <1>1, ApplyEndorsementIInv
<1>2. ASSUME NEW in \in Inputs, RecordPayment(in) PROVE IInv'
  BY <1>2, RecordPaymentIInv
<1>3. ASSUME NEW in \in Inputs, ReplayKey(in) PROVE IInv'
  BY <1>3, ReplayKeyIInv
<1>4. ASSUME NEW in \in Inputs, ReplayExternal(in) PROVE IInv'
  BY <1>4, ReplayExternalIInv
<1>5. CASE UNCHANGED vars
  BY <1>5 DEF vars, IInv, Tables, RecordsComplete, EventHasRecord, AnswerHasEvent,
              PaymentHasRecord, ExternalPaymentOnce, Filed
<1> QED
  BY <1>1, <1>2, <1>3, <1>4, <1>5 DEF Next

\* The inductive invariant, and what it says of effects and keys.
THEOREM BookInvariant == Spec => []IInv
<1> QED
  BY InitIInv, NextIInv, PTL DEF Spec

\* Every event was brought about by the request whose key it bears, and every
\* stored answer is that of an event with the data asked for
\* (claimIdempotency, completeIdempotency, handleExistingExternalPayment).
THEOREM ExactlyOnce == Spec => []EffectsTiedToKeys
<1>1. IInv => EffectsTiedToKeys
  BY DEF IInv, EffectsTiedToKeys, EventHasRecord, AnswerHasEvent, Filed
<1> QED
  BY <1>1, BookInvariant, PTL

\* An external payment is booked once, under however many keys it comes
\* (handleExistingExternalPayment).
THEOREM PaymentsOnce == Spec => []ExternalPaymentOnce
<1>1. IInv => ExternalPaymentOnce
  BY DEF IInv
<1> QED
  BY <1>1, BookInvariant, PTL

-----------------------------------------------------------------------------
\* Nothing is rewritten.

\* An event is added, and documents are marked paid.
LEMMA EnactOnlyAdds ==
  ASSUME IInv, NEW in \in Inputs, Admissible(in),
         LET p == in.body.policy IN Enact(in, p, EventFor(in, p))
  PROVE  OnlyAdds
<1> DEFINE p     == in.body.policy
           event == EventFor(in, p)
           docs  == DocumentsWith(p, event)
<1>1. AnswersKept
  BY EnactKeeps
<1>2. p \in Policies
  BY DEF Admissible
<1>3. PICK balance :
        /\ events' = [events EXCEPT ![p] = Append(events[p], event)]
        /\ documents' = [documents EXCEPT ![p] = MarkPaid(docs, ToSettle(docs, balance))]
        /\ payments' = [payments EXCEPT ![p] = PaymentsWith(p, event)]
        /\ ledger' = [ledger EXCEPT ![p] = ledger[p] \cup {LedgerTransaction(event)}]
  BY DEF Enact
<1>4. /\ IsSequence(events[p]) /\ \A q \in Policies : IsSequence(events[q])
      /\ DOMAIN events = Policies /\ DOMAIN documents = Policies
      /\ DOMAIN payments = Policies /\ DOMAIN ledger = Policies
  BY <1>2 DEF IInv, Tables
<1>5. documents[p] \subseteq docs /\ payments[p] \subseteq PaymentsWith(p, event)
  BY DEF DocumentsWith, PaymentsWith
<1> HIDE DEF p, event, docs
<1>6. ASSUME NEW q \in Policies
      PROVE  /\ SubSeq(events'[q], 1, Len(events[q])) = events[q]
             /\ ledger[q] \subseteq ledger'[q]
             /\ payments[q] \subseteq payments'[q]
  <2>1. \A s : IsSequence(s) => SubSeq(s, 1, Len(s)) = s
    BY DEF IsSequence
  <2>2. CASE q = p
    BY <1>2, <1>3, <1>4, <1>5, <2>2, AppendKeeps
  <2>3. CASE q # p
    BY <1>3, <1>4, <2>1, <2>3
  <2> QED
    BY <2>2, <2>3
<1>7. ASSUME NEW q \in Policies, NEW d \in documents[q]
      PROVE  \/ d \in documents'[q]
             \/ d.status = "open" /\ [d EXCEPT !.status = "paid"] \in documents'[q]
  <2>1. CASE q = p
    <3>1. documents'[q] = MarkPaid(docs, ToSettle(docs, balance)) /\ d \in docs
      BY <1>2, <1>3, <1>4, <1>5, <1>7, <2>1
    <3>2. CASE d \in ToSettle(docs, balance)
      BY <3>1, <3>2 DEF ToSettle, Payable, MarkPaid
    <3>3. CASE d \notin ToSettle(docs, balance)
      BY <3>1, <3>3 DEF MarkPaid
    <3> QED
      BY <3>2, <3>3
  <2>2. CASE q # p
    BY <1>3, <1>4, <2>2
  <2> QED
    BY <2>1, <2>2
<1> QED
  BY <1>1, <1>6, <1>7 DEF OnlyAdds, AnswersKept, Filed

LEMMA RecordsOnlyAdds ==
  ASSUME IInv, AnswersKept, UNCHANGED <<premium, events, documents, payments, ledger>>
  PROVE  OnlyAdds
<1>1. \A p \in Policies : SubSeq(events[p], 1, Len(events[p])) = events[p]
  <2>1. \A s : IsSequence(s) => SubSeq(s, 1, Len(s)) = s
    BY DEF IsSequence
  <2> QED
    BY <2>1 DEF IInv, Tables
<1> QED
  BY <1>1 DEF OnlyAdds, AnswersKept, Filed

\* No answer, event, ledger transaction or payment is ever withdrawn or altered,
\* and a document changes from open to paid only (the append-only tables of
\* migrations/003_append_only_guards.sql, and markPositiveBillingDocumentsPaid).
THEOREM NeverRewritten == Spec => NothingIsRewritten
<1>1. ASSUME IInv, Next PROVE OnlyAdds
  <2>1. PICK in \in Inputs : \/ ApplyEndorsement(in) \/ RecordPayment(in)
                            \/ ReplayKey(in)        \/ ReplayExternal(in)
    BY <1>1 DEF Next
  <2>2. CASE ApplyEndorsement(in)
    BY <1>1, <2>2, EnactOnlyAdds DEF ApplyEndorsement
  <2>3. CASE RecordPayment(in)
    BY <1>1, <2>3, EnactOnlyAdds DEF RecordPayment
  <2>4. CASE ReplayKey(in)
    BY <1>1, <2>4, ReplayKeyKeeps, RecordsOnlyAdds DEF ReplayKey
  <2>5. CASE ReplayExternal(in)
    BY <1>1, <2>5, ReplayExternalKeeps, RecordsOnlyAdds DEF ReplayExternal
  <2> QED
    BY <2>1, <2>2, <2>3, <2>4, <2>5
<1>2. IInv /\ [Next]_vars => [OnlyAdds]_vars
  BY <1>1
<1> QED
  BY <1>2, BookInvariant, PTL DEF Spec, NothingIsRewritten

-----------------------------------------------------------------------------
\* The rows of one policy, as they follow from its events.

Of(chain, kind) == {i \in DOMAIN chain : chain[i].payload.kind = kind}

\* An event is sealed into the chain, and its amount can be booked.
EventSound(chain, i) ==
  /\ RowSound(chain, i)
  /\ chain[i].payload.kind \in {"endorsement", "payment"}
  /\ chain[i].payload.amount \in Int \ {0}
  /\ chain[i].payload.kind = "payment" => chain[i].payload.amount > 0

EventsSound(chain) == IsSequence(chain) /\ \A i \in DOMAIN chain : EventSound(chain, i)

\* A document is that of one endorsement, open or paid if it charges.
DocumentSound(chain, d) ==
  /\ d.seq \in Of(chain, "endorsement")
  /\ d = [seq |-> d.seq, amount |-> chain[d.seq].payload.amount, status |-> d.status]
  /\ d.status \in IF d.amount > 0 THEN {"open", "paid"} ELSE {"credit"}

DocumentsSound(chain, docs) ==
  /\ IsFiniteSet(docs)
  /\ \A d \in docs : DocumentSound(chain, d)
  /\ \A d, e \in docs : d.seq = e.seq => d = e
  /\ \A i \in Of(chain, "endorsement") : \E d \in docs : d.seq = i

PaymentsSound(chain, pays) ==
  /\ IsFiniteSet(pays)
  /\ pays = {Payment(chain[i]) : i \in Of(chain, "payment")}

LedgerSound(chain, txs) ==
  /\ IsFiniteSet(txs)
  /\ txs = {LedgerTransaction(chain[i]) : i \in DOMAIN chain}

\* What the new event of a request is: the successor of the last one, with an
\* amount other than zero.
Successor(chain, e) ==
  /\ e.seq = Len(chain) + 1
  /\ e.prev = HeadHash(chain)
  /\ e.hash = HashPolicyEvent(e.prev, e.payload)
  /\ e.payload.kind \in {"endorsement", "payment"}
  /\ e.payload.amount \in Int \ {0}
  /\ e.payload.kind = "payment" => e.payload.amount > 0

\* An accepted request makes such an event: a zero adjustment is refused, a
\* payment is of one cent or more.
LEMMA EventIsSuccessor ==
  ASSUME NEW in \in Inputs, NEW p \in Policies, NEW prem \in Int, NEW chain,
         Refusal(p, prem, in.body) = "none"
  PROVE  Successor(chain, NextEvent(chain, EventData(p, prem, in.body), in.key))
<1> DEFINE data == EventData(p, prem, in.body)
           e    == NextEvent(chain, data, in.key)
<1>1. /\ e.seq = Len(chain) + 1 /\ e.prev = HeadHash(chain) /\ e.payload = data
      /\ e.hash = HashPolicyEvent(e.prev, e.payload)
  BY DEF NextEvent
<1>2. /\ data.kind \in {"endorsement", "payment"} /\ data.amount \in Int \ {0}
      /\ data.kind = "payment" => data.amount > 0
  <2>1. CASE IsEndorsement(in.body)
    <3>1. in.body.day \in Int /\ in.body.premium \in Int
      BY <2>1, AmountsAssumption DEF IsEndorsement
    <3>2. Verdict(Term(p), in.body.day, prem, in.body.premium) = "priced"
      BY <2>1, VerdictIsNotNone DEF Refusal, EndorsementRefusal
    <3>3. Adjustment(Term(p), in.body.day, prem, in.body.premium) \in Int \ {0}
      <4>1. Term(p).start = Contract[p].start /\ Term(p).end = Contract[p].end
        BY DEF Term
      <4> QED
        BY <3>1, <3>2, <4>1, PricedIsWhole, ContractAssumption
    <3>4. /\ data.kind = "endorsement"
          /\ data.amount = Adjustment(Term(p), in.body.day, prem, in.body.premium)
      BY <2>1 DEF EventData
    <3> QED
      BY <3>3, <3>4
  <2>2. CASE ~ IsEndorsement(in.body)
    <3>1. data.kind = "payment" /\ data.amount = in.body.amount
      BY <2>2 DEF EventData
    <3>2. in.body.amount \in Nat \ {0}
      BY <2>2, AmountsAssumption DEF IsEndorsement
    <3> QED
      BY <3>1, <3>2
  <2> QED
    BY <2>1, <2>2
<1> HIDE DEF data, e
<1>3. Successor(chain, e)
  BY <1>1, <1>2 DEF Successor
<1> QED
  BY <1>3 DEF e, data

\* What Append does to the indices.
LEMMA AppendOf ==
  ASSUME NEW chain, IsSequence(chain), NEW e, NEW kind
  PROVE  /\ DOMAIN Append(chain, e) = DOMAIN chain \cup {Len(chain) + 1}
         /\ Len(chain) + 1 \notin DOMAIN chain
         /\ Len(chain) \in Nat /\ Len(Append(chain, e)) = Len(chain) + 1
         /\ DOMAIN chain = 1 .. Len(chain)
         /\ \A i \in DOMAIN chain : Append(chain, e)[i] = chain[i]
         /\ Append(chain, e)[Len(chain) + 1] = e
         /\ Of(Append(chain, e), kind)
              = Of(chain, kind) \cup (IF e.payload.kind = kind THEN {Len(chain) + 1} ELSE {})
<1>1. /\ DOMAIN Append(chain, e) = DOMAIN chain \cup {Len(chain) + 1}
      /\ Len(chain) + 1 \notin DOMAIN chain
      /\ DOMAIN chain = 1 .. Len(chain) /\ Len(chain) \in Nat
      /\ \A i \in DOMAIN chain : Append(chain, e)[i] = chain[i]
      /\ Append(chain, e)[Len(chain) + 1] = e
  BY AppendKeeps
<1>2. Len(Append(chain, e)) = Len(chain) + 1
  <2>1. PICK S : chain \in Seq(S)
    BY DEF IsSequence
  <2>2. chain \in Seq(S \cup {e})
    BY <2>1
  <2> QED
    BY <2>2
<1> QED
  BY <1>1, <1>2 DEF Of

\* The chain goes on.
LEMMA AppendEventsSound ==
  ASSUME NEW chain, EventsSound(chain), NEW e, Successor(chain, e)
  PROVE  EventsSound(Append(chain, e))
<1> DEFINE more == Append(chain, e)
           n    == Len(chain) + 1
<1>1. IsSequence(chain) /\ IsSequence(more)
  BY AppendKeeps DEF EventsSound
<1>2. /\ DOMAIN more = DOMAIN chain \cup {n} /\ DOMAIN chain = 1 .. Len(chain) /\ Len(chain) \in Nat
      /\ (\A i \in DOMAIN chain : more[i] = chain[i]) /\ more[n] = e
  BY <1>1, AppendOf
<1> HIDE DEF more
<1>3. ASSUME NEW i \in DOMAIN chain PROVE EventSound(more, i)
  <2>1. EventSound(chain, i)
    BY DEF EventsSound
  <2>2. PreviousHash(more, i) = PreviousHash(chain, i)
    <3>1. CASE i = 1
      BY <3>1 DEF PreviousHash
    <3>2. CASE i # 1
      <4>1. i - 1 \in DOMAIN chain
        BY <1>2, <3>2
      <4> QED
        BY <1>2, <3>2, <4>1 DEF PreviousHash
    <3> QED
      BY <3>1, <3>2
  <2> QED
    BY <1>2, <2>1, <2>2 DEF EventSound, RowSound
<1>4. EventSound(more, n)
  <2>1. PreviousHash(more, n) = HeadHash(chain)
    <3>1. CASE chain = << >>
      BY <3>1 DEF PreviousHash, HeadHash
    <3>2. CASE chain # << >>
      <4>1. Len(chain) # 0
        BY <1>1, <3>2 DEF IsSequence
      <4>2. n # 1 /\ n - 1 = Len(chain) /\ Len(chain) \in DOMAIN chain
        BY <1>2, <4>1
      <4>3. more[n - 1] = chain[Len(chain)]
        BY <1>2, <4>2
      <4> QED
        BY <3>2, <4>2, <4>3 DEF PreviousHash, HeadHash
    <3> QED
      BY <3>1, <3>2
  <2> QED
    BY <1>2, <2>1 DEF EventSound, RowSound, Successor
<1>5. EventsSound(more)
  BY <1>1, <1>2, <1>3, <1>4 DEF EventsSound
<1> QED
  BY <1>5 DEF more

\* A document keeps the event it is of, and the new document is that of the
\* new event.
LEMMA AppendDocumentsSound ==
  ASSUME NEW chain, EventsSound(chain), NEW e, Successor(chain, e),
         NEW docs, DocumentsSound(chain, docs)
  PROVE  DocumentsSound(Append(chain, e), docs \cup NewDocuments(e))
<1> DEFINE more == Append(chain, e)
           n    == Len(chain) + 1
           ours == docs \cup NewDocuments(e)
<1>1. /\ n \notin DOMAIN chain /\ (\A i \in DOMAIN chain : more[i] = chain[i]) /\ more[n] = e
      /\ Of(more, "endorsement")
           = Of(chain, "endorsement") \cup (IF e.payload.kind = "endorsement" THEN {n} ELSE {})
  BY AppendOf DEF EventsSound
<1>2. Of(chain, "endorsement") \subseteq DOMAIN chain
  BY DEF Of
<1> HIDE DEF more
<1>3. ASSUME NEW d \in docs PROVE DocumentSound(more, d) /\ d.seq # n
  <2>1. DocumentSound(chain, d)
    BY DEF DocumentsSound
  <2> QED
    BY <1>1, <1>2, <2>1 DEF DocumentSound
<1>4. ASSUME NEW d \in NewDocuments(e)
      PROVE  DocumentSound(more, d) /\ d.seq = n /\ d = BillingDocument(e)
  <2>1. d = BillingDocument(e) /\ e.payload.kind = "endorsement"
    BY DEF NewDocuments
  <2>2. /\ d.seq = n /\ d.amount = e.payload.amount
        /\ d.status = (IF e.payload.amount > 0 THEN "open" ELSE "credit")
        /\ d = [seq |-> d.seq, amount |-> d.amount, status |-> d.status]
    BY <2>1 DEF BillingDocument, Successor
  <2> QED
    BY <1>1, <2>1, <2>2 DEF DocumentSound
<1>5. IsFiniteSet(ours)
  <2>1. CASE e.payload.kind = "endorsement"
    <3>1. ours = docs \cup {BillingDocument(e)}
      BY <2>1 DEF NewDocuments
    <3> QED
      BY <3>1, FS_AddElement DEF DocumentsSound
  <2>2. CASE e.payload.kind # "endorsement"
    <3>1. ours = docs
      BY <2>2 DEF NewDocuments
    <3> QED
      BY <3>1 DEF DocumentsSound
  <2> QED
    BY <2>1, <2>2
<1>6. \A d, f \in ours : d.seq = f.seq => d = f
  BY <1>3, <1>4 DEF DocumentsSound
<1>7. ASSUME NEW i \in Of(more, "endorsement") PROVE \E d \in ours : d.seq = i
  <2>1. CASE i \in Of(chain, "endorsement")
    BY <2>1 DEF DocumentsSound
  <2>2. CASE i = n /\ e.payload.kind = "endorsement"
    BY <2>2, <1>4 DEF NewDocuments
  <2> QED
    BY <1>1, <2>1, <2>2
<1>8. DocumentsSound(more, ours)
  BY <1>3, <1>4, <1>5, <1>6, <1>7 DEF DocumentsSound
<1> QED
  BY <1>8 DEF more

LEMMA AppendPaymentsSound ==
  ASSUME NEW chain, EventsSound(chain), NEW e, Successor(chain, e),
         NEW pays, PaymentsSound(chain, pays)
  PROVE  PaymentsSound(Append(chain, e), pays \cup NewPayments(e))
<1> DEFINE more == Append(chain, e)
           n    == Len(chain) + 1
           ours == pays \cup NewPayments(e)
<1>1. /\ n \notin DOMAIN chain /\ (\A i \in DOMAIN chain : more[i] = chain[i]) /\ more[n] = e
      /\ Of(more, "payment")
           = Of(chain, "payment") \cup (IF e.payload.kind = "payment" THEN {n} ELSE {})
  BY AppendOf DEF EventsSound
<1>2. Of(chain, "payment") \subseteq DOMAIN chain
  BY DEF Of
<1> HIDE DEF more
<1>3. {Payment(more[i]) : i \in Of(chain, "payment")} = pays
  BY <1>1, <1>2 DEF PaymentsSound
<1>4. IsFiniteSet(ours) /\ ours = {Payment(more[i]) : i \in Of(more, "payment")}
  <2>1. CASE e.payload.kind = "payment"
    <3>1. ours = pays \cup {Payment(e)}
      BY <2>1 DEF NewPayments
    <3>2. {Payment(more[i]) : i \in Of(more, "payment")}
          = {Payment(more[i]) : i \in Of(chain, "payment")} \cup {Payment(e)}
      BY <1>1, <2>1
    <3> QED
      BY <1>3, <3>1, <3>2, FS_AddElement DEF PaymentsSound
  <2>2. CASE e.payload.kind # "payment"
    <3>1. ours = pays /\ Of(more, "payment") = Of(chain, "payment")
      BY <1>1, <2>2 DEF NewPayments
    <3> QED
      BY <1>3, <3>1 DEF PaymentsSound
  <2> QED
    BY <2>1, <2>2
<1>5. PaymentsSound(more, ours)
  BY <1>4 DEF PaymentsSound
<1> QED
  BY <1>5 DEF more

LEMMA AppendLedgerSound ==
  ASSUME NEW chain, EventsSound(chain), NEW e, NEW txs, LedgerSound(chain, txs)
  PROVE  LedgerSound(Append(chain, e), txs \cup {LedgerTransaction(e)})
<1> DEFINE more == Append(chain, e)
           n    == Len(chain) + 1
<1>1. /\ (\A i \in DOMAIN chain : more[i] = chain[i]) /\ more[n] = e
      /\ DOMAIN more = DOMAIN chain \cup {n}
  BY AppendOf DEF EventsSound
<1> HIDE DEF more
<1>2. {LedgerTransaction(more[i]) : i \in DOMAIN chain} = txs
  BY <1>1 DEF LedgerSound
<1>3. {LedgerTransaction(more[i]) : i \in DOMAIN more}
      = {LedgerTransaction(more[i]) : i \in DOMAIN chain} \cup {LedgerTransaction(e)}
  BY <1>1
<1>4. LedgerSound(more, txs \cup {LedgerTransaction(e)})
  BY <1>2, <1>3, FS_AddElement DEF LedgerSound
<1> QED
  BY <1>4 DEF more

-----------------------------------------------------------------------------
\* Marking documents paid.

\* The document that a document becomes.
Settled(paid, d) == IF d \in paid THEN [d EXCEPT !.status = "paid"] ELSE d

LEMMA SettledDocument ==
  ASSUME NEW chain, NEW docs, DocumentsSound(chain, docs), NEW balance, NEW d \in docs
  PROVE  LET paid == ToSettle(docs, balance)
         IN  /\ Settled(paid, d).seq = d.seq /\ Settled(paid, d).amount = d.amount
             /\ DocumentSound(chain, Settled(paid, d))
             /\ Settled(paid, d).status = IF d \in paid THEN "paid" ELSE d.status
<1> DEFINE paid == ToSettle(docs, balance)
<1>1. DocumentSound(chain, d)
  BY DEF DocumentsSound
<1>2. d = [seq |-> d.seq, amount |-> chain[d.seq].payload.amount, status |-> d.status]
  BY <1>1 DEF DocumentSound
<1>3. CASE d \in paid
  <2>1. d.amount > 0
    BY <1>3 DEF ToSettle, Payable
  <2>2. Settled(paid, d)
        = [seq |-> d.seq, amount |-> chain[d.seq].payload.amount, status |-> "paid"]
    BY <1>2, <1>3 DEF Settled
  <2>3. d.amount = chain[d.seq].payload.amount
    BY <1>2
  <2> QED
    BY <1>1, <1>3, <2>1, <2>2, <2>3 DEF DocumentSound
<1>4. CASE d \notin paid
  BY <1>1, <1>4 DEF Settled
<1> QED
  BY <1>3, <1>4

LEMMA MarkPaidSound ==
  ASSUME NEW chain, NEW docs, DocumentsSound(chain, docs), NEW balance
  PROVE  DocumentsSound(chain, MarkPaid(docs, ToSettle(docs, balance)))
<1> DEFINE paid == ToSettle(docs, balance)
           ours == MarkPaid(docs, paid)
<1>1. ours = {Settled(paid, d) : d \in docs}
  BY DEF MarkPaid, Settled
<1>2. IsFiniteSet(ours)
  <2> DEFINE f == [d \in docs |-> Settled(paid, d)]
  <2>1. ours = {f[d] : d \in docs} /\ f = [d \in docs |-> f[d]] /\ DOMAIN f = docs
    BY <1>1
  <2> HIDE DEF f, ours
  <2> QED
    BY <2>1, FiniteImage DEF DocumentsSound
<1>3. \A d \in docs : Settled(paid, d).seq = d.seq /\ DocumentSound(chain, Settled(paid, d))
  BY SettledDocument
<1> HIDE DEF ours
<1> QED
  <2>1. \A d \in ours : DocumentSound(chain, d)
    BY <1>1, <1>3
  <2>2. \A d, e \in ours : d.seq = e.seq => d = e
    BY <1>1, <1>3 DEF DocumentsSound
  <2>3. \A i \in Of(chain, "endorsement") : \E d \in ours : d.seq = i
    BY <1>1, <1>3 DEF DocumentsSound
  <2> QED
    BY <1>2, <2>1, <2>2, <2>3 DEF DocumentsSound, ours

-----------------------------------------------------------------------------
\* Sums over documents, payments and ledger transactions.

LEMMA TotalInt ==
  ASSUME NEW S, IsFiniteSet(S), \A x \in S : x.amount \in Int
  PROVE  Total(S) \in Int
<1> DEFINE f == [x \in S |-> x.amount]
<1>1. f \in [S -> Int]
  OBVIOUS
<1> HIDE DEF f
<1>2. SumFunction(f) \in Int
  BY <1>1, SumInt
<1> QED
  BY <1>2 DEF Total, f

LEMMA TotalAdds ==
  ASSUME NEW S, IsFiniteSet(S), NEW y, y \notin S,
         \A x \in S : x.amount \in Int, y.amount \in Int
  PROVE  Total(S \cup {y}) = Total(S) + y.amount
<1> DEFINE f == [x \in S |-> x.amount]
           g == [x \in S \cup {y} |-> x.amount]
<1>1. /\ f \in [S -> Int] /\ g \in [S \cup {y} -> Int]
      /\ (\A x \in S : g[x] = f[x]) /\ g[y] = y.amount
  OBVIOUS
<1> HIDE DEF f, g
<1>2. SumFunction(g) = SumFunction(f) + g[y]
  BY <1>1, SumAdds
<1> QED
  BY <1>1, <1>2 DEF Total, f, g

LEMMA DocumentAmounts ==
  ASSUME NEW chain, EventsSound(chain), NEW docs, DocumentsSound(chain, docs)
  PROVE  \A d \in docs : d.amount \in Int /\ d.amount = chain[d.seq].payload.amount
                         /\ d.seq \in DOMAIN chain
<1> SUFFICES ASSUME NEW d \in docs
             PROVE  d.amount \in Int /\ d.amount = chain[d.seq].payload.amount
                    /\ d.seq \in DOMAIN chain
  OBVIOUS
<1>1. DocumentSound(chain, d)
  BY DEF DocumentsSound
<1>2. d.amount = chain[d.seq].payload.amount /\ d.seq \in DOMAIN chain
  BY <1>1 DEF DocumentSound, Of
<1> QED
  BY <1>2 DEF EventsSound, EventSound

LEMMA PaymentAmounts ==
  ASSUME NEW chain, EventsSound(chain), NEW pays, PaymentsSound(chain, pays)
  PROVE  \A y \in pays : y.amount \in Int /\ y.amount > 0 /\ y.seq \in DOMAIN chain
<1> SUFFICES ASSUME NEW y \in pays
             PROVE  y.amount \in Int /\ y.amount > 0 /\ y.seq \in DOMAIN chain
  OBVIOUS
<1>1. PICK i \in Of(chain, "payment") : y = Payment(chain[i])
  BY DEF PaymentsSound
<1>2. i \in DOMAIN chain /\ chain[i].payload.kind = "payment" /\ EventSound(chain, i)
  BY DEF Of, EventsSound
<1>3. y.amount = chain[i].payload.amount /\ y.seq = chain[i].seq
  BY <1>1 DEF Payment
<1> QED
  BY <1>2, <1>3 DEF EventSound, RowSound

\* Marking documents paid leaves their total alone.
LEMMA MarkPaidTotal ==
  ASSUME NEW chain, EventsSound(chain), NEW docs, DocumentsSound(chain, docs), NEW balance
  PROVE  Total(MarkPaid(docs, ToSettle(docs, balance))) = Total(docs)
<1> DEFINE paid == ToSettle(docs, balance)
           ours == MarkPaid(docs, paid)
           phi  == [d \in docs |-> Settled(paid, d)]
           f    == [d \in docs |-> d.amount]
           g    == [d \in ours |-> d.amount]
<1>1. ours = {Settled(paid, d) : d \in docs}
  BY DEF MarkPaid, Settled
<1>2. \A d \in docs : Settled(paid, d).seq = d.seq /\ Settled(paid, d).amount = d.amount
  BY SettledDocument
<1>3. \A d \in docs : d.amount \in Int
  BY DocumentAmounts
<1> HIDE DEF ours
<1>4. phi \in [docs -> ours] /\ \A z \in ours : \E d \in docs : phi[d] = z
  BY <1>1
<1>5. \A d, e \in docs : phi[d] = phi[e] => d = e
  BY <1>2 DEF DocumentsSound
<1>6. f \in [docs -> Int] /\ g \in [ours -> Int] /\ \A d \in docs : g[phi[d]] = f[d]
  BY <1>1, <1>2, <1>3
<1>7. IsFiniteSet(docs)
  BY DEF DocumentsSound
<1> HIDE DEF phi, f, g
<1>8. SumFunction(f) = SumFunction(g)
  BY <1>4, <1>5, <1>6, <1>7, SumReindexed
<1> QED
  BY <1>8 DEF Total, f, g, ours

\* What an event changes of the balance.
Owed(e) == IF e.payload.kind = "endorsement" THEN e.payload.amount ELSE -e.payload.amount

LEMMA BalanceWithEvent ==
  ASSUME NEW chain, EventsSound(chain), NEW docs, DocumentsSound(chain, docs),
         NEW pays, PaymentsSound(chain, pays), NEW e, Successor(chain, e)
  PROVE  /\ OpenBalance(docs, pays) \in Int /\ Owed(e) \in Int
         /\ OpenBalance(docs \cup NewDocuments(e), pays \cup NewPayments(e))
              = OpenBalance(docs, pays) + Owed(e)
<1>1. Total(docs) \in Int /\ Total(pays) \in Int
  BY TotalInt, DocumentAmounts, PaymentAmounts DEF DocumentsSound, PaymentsSound
<1>2. e.payload.amount \in Int /\ e.seq = Len(chain) + 1 /\ Len(chain) + 1 \notin DOMAIN chain
  BY AppendOf DEF Successor, EventsSound
<1>3. CASE e.payload.kind = "endorsement"
  <2>1. NewDocuments(e) = {BillingDocument(e)} /\ NewPayments(e) = {}
    BY <1>3 DEF NewDocuments, NewPayments
  <2>2. BillingDocument(e).amount = e.payload.amount /\ BillingDocument(e).seq = e.seq
    BY DEF BillingDocument
  <2>3. BillingDocument(e) \notin docs
    BY <1>2, <2>2, DocumentAmounts
  <2>4. Total(docs \cup {BillingDocument(e)}) = Total(docs) + e.payload.amount
    BY <1>2, <2>2, <2>3, TotalAdds, DocumentAmounts DEF DocumentsSound
  <2> QED
    BY <1>1, <1>2, <1>3, <2>1, <2>4 DEF OpenBalance, Owed
<1>4. CASE e.payload.kind = "payment"
  <2>1. NewDocuments(e) = {} /\ NewPayments(e) = {Payment(e)}
    BY <1>4 DEF NewDocuments, NewPayments
  <2>2. Payment(e).amount = e.payload.amount /\ Payment(e).seq = e.seq
    BY DEF Payment
  <2>3. Payment(e) \notin pays
    BY <1>2, <2>2, PaymentAmounts
  <2>4. Total(pays \cup {Payment(e)}) = Total(pays) + e.payload.amount
    BY <1>2, <2>2, <2>3, TotalAdds, PaymentAmounts DEF PaymentsSound
  <2> QED
    BY <1>1, <1>2, <1>4, <2>1, <2>4 DEF OpenBalance, Owed
<1> QED
  BY <1>3, <1>4 DEF Successor

\* The two entries of an event book what it owes on the receivable.
LEMMA NetOfEvent ==
  ASSUME NEW e, e.payload.amount \in Int
  PROVE  NetOf(LedgerTransaction(e), "PREMIUM_RECEIVABLE") = Owed(e)
<1> DEFINE t == LedgerTransaction(e)
           a == e.payload.amount
           f == [i \in DOMAIN t.entries |->
                   IF t.entries[i].account = "PREMIUM_RECEIVABLE"
                   THEN t.entries[i].debit - t.entries[i].credit ELSE 0]
<1>1. t.entries = IF e.payload.kind = "endorsement" THEN EndorsementEntries(a)
                  ELSE PaymentEntries(a)
  BY DEF LedgerTransaction
<1>2. a \in Int /\ Abs(a) \in Int /\ (a <= 0 => Abs(a) = -a)
  BY DEF Abs
<1> HIDE DEF t, a
<1>3. f \in [1 .. 2 -> Int] /\ f[1] + f[2] = Owed(e)
  <2>1. CASE e.payload.kind = "endorsement" /\ a > 0
    <3>1. t.entries = <<LedgerEntry("PREMIUM_RECEIVABLE", a, 0),
                        LedgerEntry("WRITTEN_PREMIUM", 0, a)>>
      BY <1>1, <2>1 DEF EndorsementEntries
    <3>2. f = [i \in 1 .. 2 |-> IF i = 1 THEN a ELSE 0]
      BY <1>2, <3>1 DEF LedgerEntry
    <3>3. Owed(e) = a
      BY <2>1 DEF Owed, a
    <3> QED
      BY <1>2, <3>2, <3>3
  <2>2. CASE e.payload.kind = "endorsement" /\ ~ (a > 0)
    <3>1. t.entries = <<LedgerEntry("WRITTEN_PREMIUM", Abs(a), 0),
                        LedgerEntry("PREMIUM_RECEIVABLE", 0, Abs(a))>>
      BY <1>1, <2>2 DEF EndorsementEntries
    <3>2. f = [i \in 1 .. 2 |-> IF i = 2 THEN a ELSE 0]
      BY <1>2, <2>2, <3>1 DEF LedgerEntry
    <3>3. Owed(e) = a
      BY <2>2 DEF Owed, a
    <3> QED
      BY <1>2, <3>2, <3>3
  <2>3. CASE e.payload.kind # "endorsement"
    <3>1. t.entries = <<LedgerEntry("CASH", a, 0), LedgerEntry("PREMIUM_RECEIVABLE", 0, a)>>
      BY <1>1, <2>3 DEF PaymentEntries
    <3>2. f = [i \in 1 .. 2 |-> IF i = 2 THEN -a ELSE 0]
      BY <1>2, <3>1 DEF LedgerEntry
    <3>3. Owed(e) = -a
      BY <2>3 DEF Owed, a
    <3> QED
      BY <1>2, <3>2, <3>3
  <2> QED
    BY <2>1, <2>2, <2>3
<1>4. NetOf(t, "PREMIUM_RECEIVABLE") = SumFunction(f)
  BY DEF NetOf
<1> HIDE DEF f
<1>5. NetOf(t, "PREMIUM_RECEIVABLE") = Owed(e)
  BY <1>3, <1>4, SumPair
<1> QED
  BY <1>5 DEF t

LEMMA ReceivableWithEvent ==
  ASSUME NEW chain, EventsSound(chain), NEW txs, LedgerSound(chain, txs),
         NEW e, Successor(chain, e)
  PROVE  AccountBalance(txs \cup {LedgerTransaction(e)}, "PREMIUM_RECEIVABLE")
           = AccountBalance(txs, "PREMIUM_RECEIVABLE") + Owed(e)
<1> DEFINE new == LedgerTransaction(e)
           f == [t \in txs |-> NetOf(t, "PREMIUM_RECEIVABLE")]
           g == [t \in txs \cup {new} |-> NetOf(t, "PREMIUM_RECEIVABLE")]
<1>1. \A t \in txs : NetOf(t, "PREMIUM_RECEIVABLE") \in Int /\ t.seq \in DOMAIN chain
  <2> SUFFICES ASSUME NEW t \in txs
               PROVE  NetOf(t, "PREMIUM_RECEIVABLE") \in Int /\ t.seq \in DOMAIN chain
    OBVIOUS
  <2>1. PICK i \in DOMAIN chain : t = LedgerTransaction(chain[i])
    BY DEF LedgerSound
  <2>2. EventSound(chain, i)
    BY DEF EventsSound
  <2>3. chain[i].payload.amount \in Int /\ chain[i].seq = i
    BY <2>2 DEF EventSound, RowSound
  <2>4. t.seq = i
    BY <2>1, <2>3 DEF LedgerTransaction
  <2>5. NetOf(t, "PREMIUM_RECEIVABLE") = Owed(chain[i])
    BY <2>1, <2>3, NetOfEvent
  <2> QED
    BY <2>3, <2>4, <2>5 DEF Owed
<1>2. /\ NetOf(new, "PREMIUM_RECEIVABLE") = Owed(e) /\ Owed(e) \in Int
  BY NetOfEvent DEF Successor, Owed
<1>3. new \notin txs
  <2>1. new.seq = Len(chain) + 1 /\ Len(chain) + 1 \notin DOMAIN chain
    BY AppendOf DEF LedgerTransaction, Successor, EventsSound
  <2> QED
    BY <1>1, <2>1
<1> HIDE DEF new
<1>4. /\ f \in [txs -> Int] /\ g \in [txs \cup {new} -> Int]
      /\ (\A t \in txs : g[t] = f[t]) /\ g[new] = Owed(e)
  BY <1>1, <1>2
<1>5. AccountBalance(txs \cup {new}, "PREMIUM_RECEIVABLE") = SumFunction(g)
      /\ AccountBalance(txs, "PREMIUM_RECEIVABLE") = SumFunction(f)
  BY DEF AccountBalance
<1>6. IsFiniteSet(txs)
  BY DEF LedgerSound
<1> HIDE DEF f, g
<1>7. SumFunction(g) = SumFunction(f) + g[new]
  <2>1. new \notin txs /\ IsFiniteSet(txs)
    BY <1>3, <1>6
  <2>2. f \in [txs -> Int] /\ g \in [txs \cup {new} -> Int]
    BY <1>4
  <2>3. \A t \in txs : g[t] = f[t]
    BY <1>4
  <2> QED
    BY <2>1, <2>2, <2>3, SumAdds
<1> QED
  BY <1>4, <1>5, <1>7 DEF new

-----------------------------------------------------------------------------
\* Open documents and the balance.

\* OpenDocumentsCoverBalance, of one policy.
Covered(docs, balance) ==
  IF balance <= 0 THEN Payable(docs) = {} ELSE Total(Payable(docs)) >= balance

\* Before anything is marked paid, an event raises the balance by no more than
\* the open document it brings.
LEMMA CoveredWithEvent ==
  ASSUME NEW chain, EventsSound(chain), NEW docs, DocumentsSound(chain, docs),
         NEW e, Successor(chain, e), NEW balance \in Int, Covered(docs, balance),
         balance + Owed(e) > 0
  PROVE  Total(Payable(docs \cup NewDocuments(e))) >= balance + Owed(e)
<1>1. /\ IsFiniteSet(Payable(docs)) /\ \A d \in Payable(docs) : d.amount \in Int
  BY FS_Subset, DocumentAmounts DEF Payable, DocumentsSound
<1>2. Total(Payable(docs)) \in Int
  BY <1>1, TotalInt
<1>3. e.payload.amount \in Int /\ e.seq = Len(chain) + 1 /\ Len(chain) + 1 \notin DOMAIN chain
  BY AppendOf DEF Successor, EventsSound
<1>4. CASE e.payload.kind = "endorsement" /\ e.payload.amount > 0
  <2> DEFINE new == BillingDocument(e)
  <2>1. new.amount = e.payload.amount /\ new.seq = e.seq /\ new.status = "open"
    BY <1>4 DEF BillingDocument
  <2>2. NewDocuments(e) = {new} /\ new \notin Payable(docs)
    BY <1>3, <1>4, <2>1, DocumentAmounts DEF NewDocuments, Payable
  <2> HIDE DEF new
  <2>3. Payable(docs \cup NewDocuments(e)) = Payable(docs) \cup {new}
    BY <1>4, <2>1, <2>2 DEF Payable
  <2>4. Total(Payable(docs) \cup {new}) = Total(Payable(docs)) + new.amount
    <3> DEFINE S == Payable(docs)
    <3>1. IsFiniteSet(S) /\ (\A d \in S : d.amount \in Int) /\ new \notin S /\ new.amount \in Int
      BY <1>1, <1>3, <2>1, <2>2
    <3> HIDE DEF S
    <3>2. Total(S \cup {new}) = Total(S) + new.amount
      BY <3>1, TotalAdds
    <3> QED
      BY <3>2 DEF S
  <2>5. Owed(e) = e.payload.amount
    BY <1>4 DEF Owed
  <2>6. CASE balance <= 0
    <3>1. Payable(docs) = {}
      BY <2>6 DEF Covered
    <3>2. Total({}) = 0
      BY SumEmpty DEF Total
    <3>3. Total(Payable(docs \cup NewDocuments(e))) = 0 + Owed(e)
      BY <2>1, <2>3, <2>4, <2>5, <3>1, <3>2
    <3>4. Owed(e) \in Int
      BY <1>3, <2>5
    <3> QED
      BY <2>6, <3>3, <3>4
  <2>7. CASE balance > 0
    <3>1. Total(Payable(docs)) >= balance
      BY <2>7 DEF Covered
    <3>2. Total(Payable(docs \cup NewDocuments(e))) = Total(Payable(docs)) + Owed(e)
      BY <2>1, <2>3, <2>4, <2>5
    <3>3. Owed(e) \in Int
      BY <1>3, <2>5
    <3> QED
      BY <1>2, <3>1, <3>2, <3>3
  <2> QED
    BY <2>6, <2>7
<1>5. CASE ~ (e.payload.kind = "endorsement" /\ e.payload.amount > 0)
  <2>1. Owed(e) \in Int /\ Owed(e) <= 0
    BY <1>3, <1>5 DEF Owed, Successor
  <2>2. Payable(docs \cup NewDocuments(e)) = Payable(docs)
    <3>1. \A d \in NewDocuments(e) : ~ (d.amount > 0)
      BY <1>5 DEF NewDocuments, BillingDocument
    <3> QED
      BY <3>1 DEF Payable
  <2>3. balance > 0
    BY <2>1
  <2>4. Total(Payable(docs)) >= balance
    BY <2>3 DEF Covered
  <2> QED
    BY <1>2, <2>1, <2>2, <2>4
<1> QED
  BY <1>4, <1>5

\* And marking documents paid keeps to the rule.
LEMMA CoveredWhenSettled ==
  ASSUME NEW chain, NEW docs, DocumentsSound(chain, docs), NEW balance \in Int,
         balance > 0 => Total(Payable(docs)) >= balance
  PROVE  Covered(MarkPaid(docs, ToSettle(docs, balance)), balance)
<1> DEFINE paid == ToSettle(docs, balance)
           ours == MarkPaid(docs, paid)
<1>1. ours = {Settled(paid, d) : d \in docs}
  BY DEF MarkPaid, Settled
<1>2. CASE balance <= 0
  <2>1. paid = Payable(docs)
    BY <1>2 DEF ToSettle
  <2>2. ASSUME NEW d \in docs PROVE Settled(paid, d) \notin Payable(ours)
    <3>1. /\ Settled(paid, d).amount = d.amount
          /\ Settled(paid, d).status = IF d \in paid THEN "paid" ELSE d.status
      BY SettledDocument
    <3> QED
      BY <2>1, <3>1 DEF Payable
  <2>3. Payable(ours) = {}
    BY <1>1, <2>2 DEF Payable
  <2> QED
    BY <1>2, <2>3 DEF Covered
<1>3. CASE balance > 0
  <2>1. paid = {}
    BY <1>3 DEF ToSettle
  <2>2. ours = docs
    BY <2>1 DEF MarkPaid
  <2> QED
    BY <1>3, <2>2 DEF Covered
<1> QED
  BY <1>2, <1>3

-----------------------------------------------------------------------------
\* The chain of premiums.

LEMMA MaxIs ==
  ASSUME NEW S \in SUBSET Int, NEW m \in S, \A x \in S : x <= m
  PROVE  Max(S) = m
<1> DEFINE top == Max(S)
<1>1. \A y \in S : m >= y
  OBVIOUS
<1>2. top \in S /\ \A y \in S : top >= y
  BY <1>1, Zenon DEF Max
<1> HIDE DEF top
<1>3. top \in Int /\ m \in Int /\ m >= top /\ top >= m
  BY <1>1, <1>2
<1>4. top = m
  BY <1>3
<1> QED
  BY <1>4 DEF top

\* PremiumFollowsHistory, of one policy.
PremiumsSound(p, prem, chain) ==
  /\ prem = PremiumBefore(p, chain, Len(chain) + 1)
  /\ \A i \in DOMAIN chain :
       chain[i].payload.kind = "endorsement" => chain[i].payload.old = PremiumBefore(p, chain, i)

\* An endorsement priced against the premium in force is the next link.
LEMMA AppendPremiumsSound ==
  ASSUME NEW p, NEW prem, NEW chain, IsSequence(chain), PremiumsSound(p, prem, chain),
         NEW e, NEW next,
         IF e.payload.kind = "endorsement" THEN e.payload.old = prem /\ next = e.payload.new
         ELSE next = prem
  PROVE  PremiumsSound(p, next, Append(chain, e))
<1> DEFINE more == Append(chain, e)
           n    == Len(chain) + 1
           Earlier(s, i) == {j \in DOMAIN s : j < i /\ s[j].payload.kind = "endorsement"}
<1>1. /\ DOMAIN more = DOMAIN chain \cup {n} /\ DOMAIN chain = 1 .. Len(chain)
      /\ Len(chain) \in Nat /\ Len(more) = n
      /\ (\A i \in DOMAIN chain : more[i] = chain[i]) /\ more[n] = e
  BY AppendOf
<1> HIDE DEF more
<1>2. ASSUME NEW i \in 1 .. n PROVE PremiumBefore(p, more, i) = PremiumBefore(p, chain, i)
  <2>1. Earlier(more, i) = Earlier(chain, i)
    BY <1>1
  <2>2. Earlier(chain, i) # {} => Max(Earlier(chain, i)) \in DOMAIN chain
    <3> DEFINE S == Earlier(chain, i)
    <3>1. S \in SUBSET (1 .. Len(chain))
      BY <1>1
    <3> HIDE DEF S
    <3>2. S # {} => \E m \in S : \A x \in S : x <= m
      <4>1. IsFiniteSet(1 .. Len(chain)) /\ S \subseteq Int
        BY <1>1, <3>1, FS_Interval
      <4>2. IsFiniteSet(S)
        BY <3>1, <4>1, FS_Subset
      <4> QED
        BY <4>1, <4>2, FiniteMax
    <3>3. S # {} => Max(S) \in S
      BY <1>1, <3>1, <3>2, MaxIs
    <3> QED
      BY <1>1, <3>1, <3>3 DEF S
  <2>3. Earlier(chain, i) # {} =>
          more[Max(Earlier(chain, i))] = chain[Max(Earlier(chain, i))]
    BY <1>1, <2>2
  <2> QED
    BY <2>1, <2>3 DEF PremiumBefore
<1>3. ASSUME NEW i \in DOMAIN more, more[i].payload.kind = "endorsement"
      PROVE  more[i].payload.old = PremiumBefore(p, more, i)
  <2>1. i \in 1 .. n
    BY <1>1
  <2>2. PremiumBefore(p, more, i) = PremiumBefore(p, chain, i)
    BY <1>2, <2>1
  <2>3. CASE i = n
    BY <1>1, <1>3, <2>2, <2>3 DEF PremiumsSound
  <2>4. CASE i # n
    BY <1>1, <1>3, <2>2, <2>4 DEF PremiumsSound
  <2> QED
    BY <2>3, <2>4
<1>4. next = PremiumBefore(p, more, n + 1)
  <2>1. CASE e.payload.kind = "endorsement"
    <3> DEFINE S == Earlier(more, n + 1)
    <3>1. S \in SUBSET Int /\ n \in S /\ \A x \in S : x <= n
      BY <1>1, <2>1
    <3> HIDE DEF S
    <3>2. Max(S) = n /\ S # {}
      BY <3>1, MaxIs
    <3>3. PremiumBefore(p, more, n + 1) = more[n].payload.new
      BY <3>2 DEF PremiumBefore, S
    <3> QED
      BY <1>1, <2>1, <3>3
  <2>2. CASE e.payload.kind # "endorsement"
    <3>1. Earlier(more, n + 1) = Earlier(more, n)
      BY <1>1, <2>2
    <3>2. PremiumBefore(p, more, n + 1) = PremiumBefore(p, more, n)
      BY <3>1 DEF PremiumBefore
    <3>3. PremiumBefore(p, more, n) = PremiumBefore(p, chain, n)
      BY <1>1, <1>2
    <3> QED
      BY <2>2, <3>2, <3>3 DEF PremiumsSound
  <2> QED
    BY <2>1, <2>2
<1>5. PremiumsSound(p, next, more)
  BY <1>1, <1>3, <1>4 DEF PremiumsSound
<1> QED
  BY <1>5 DEF more

-----------------------------------------------------------------------------
\* All of it, of one policy and of the books: what a new event preserves.

PolicySound(p, prem, chain, docs, pays, txs) ==
  /\ prem \in Nat
  /\ EventsSound(chain)
  /\ DocumentsSound(chain, docs)
  /\ PaymentsSound(chain, pays)
  /\ LedgerSound(chain, txs)
  /\ PremiumsSound(p, prem, chain)
  /\ AccountBalance(txs, "PREMIUM_RECEIVABLE") = OpenBalance(docs, pays)
  /\ Covered(docs, OpenBalance(docs, pays))

BooksSound ==
  \A p \in Policies :
    PolicySound(p, premium[p], events[p], documents[p], payments[p], ledger[p])

LEMMA EmptySound ==
  \A p \in Policies : PolicySound(p, Contract[p].premium, << >>, {}, {}, {})
<1> SUFFICES ASSUME NEW p \in Policies
             PROVE  PolicySound(p, Contract[p].premium, << >>, {}, {}, {})
  OBVIOUS
<1>1. Contract[p].premium \in Nat
  BY ContractAssumption
<1>2. EventsSound(<< >>)
  BY DEF EventsSound, IsSequence
<1>3. DocumentsSound(<< >>, {}) /\ PaymentsSound(<< >>, {}) /\ LedgerSound(<< >>, {})
  BY FS_EmptySet DEF DocumentsSound, PaymentsSound, LedgerSound, Of
<1>4. PremiumsSound(p, Contract[p].premium, << >>)
  BY DEF PremiumsSound, PremiumBefore
<1>5. AccountBalance({}, "PREMIUM_RECEIVABLE") = 0 /\ OpenBalance({}, {}) = 0
  BY SumEmpty DEF AccountBalance, OpenBalance, Total
<1>6. Covered({}, 0)
  BY DEF Covered, Payable
<1> QED
  BY <1>1, <1>2, <1>3, <1>4, <1>5, <1>6 DEF PolicySound

LEMMA SoundWithEvent ==
  ASSUME NEW p \in Policies, NEW prem, NEW chain, NEW docs, NEW pays, NEW txs,
         PolicySound(p, prem, chain, docs, pays, txs),
         NEW in \in Inputs, Refusal(p, prem, in.body) = "none",
         NEW e, e = NextEvent(chain, EventData(p, prem, in.body), in.key),
         NEW seen, seen = docs \cup NewDocuments(e),
         NEW paying, paying = pays \cup NewPayments(e)
  PROVE  PolicySound(p, IF IsEndorsement(in.body) THEN in.body.premium ELSE prem,
                     Append(chain, e),
                     MarkPaid(seen, ToSettle(seen, OpenBalance(seen, paying))),
                     paying, txs \cup {LedgerTransaction(e)})
<1> DEFINE balance == OpenBalance(docs, pays)
           later   == OpenBalance(seen, paying)
           settled == MarkPaid(seen, ToSettle(seen, later))
           next    == IF IsEndorsement(in.body) THEN in.body.premium ELSE prem
           more    == Append(chain, e)
<1>1. Successor(chain, e)
  BY EventIsSuccessor DEF PolicySound
<1>2. next \in Nat
  BY AmountsAssumption DEF PolicySound, IsEndorsement
<1>3. EventsSound(more)
  BY <1>1, AppendEventsSound DEF PolicySound
<1>4. DocumentsSound(more, seen) /\ PaymentsSound(more, paying)
  BY <1>1, AppendDocumentsSound, AppendPaymentsSound DEF PolicySound
<1>5. LedgerSound(more, txs \cup {LedgerTransaction(e)})
  BY AppendLedgerSound DEF PolicySound
<1>6. PremiumsSound(p, next, more)
  <2>1. IF e.payload.kind = "endorsement" THEN e.payload.old = prem /\ next = e.payload.new
        ELSE next = prem
    BY DEF NextEvent, EventData
  <2>2. IsSequence(chain) /\ PremiumsSound(p, prem, chain)
    BY DEF PolicySound, EventsSound
  <2> HIDE DEF next
  <2> QED
    BY <2>1, <2>2, AppendPremiumsSound
<1>7. balance \in Int /\ Owed(e) \in Int /\ later = balance + Owed(e)
  BY <1>1, BalanceWithEvent DEF PolicySound
<1> HIDE DEF next, more
<1>8. DocumentsSound(more, settled)
  BY <1>4, MarkPaidSound
<1>9. OpenBalance(settled, paying) = later
  <2>1. Total(settled) = Total(seen)
    BY <1>3, <1>4, MarkPaidTotal
  <2> QED
    BY <2>1 DEF OpenBalance
<1>10. AccountBalance(txs \cup {LedgerTransaction(e)}, "PREMIUM_RECEIVABLE") = later
  BY <1>1, <1>7, ReceivableWithEvent DEF PolicySound
<1>11. Covered(settled, later)
  <2>1. later > 0 => Total(Payable(seen)) >= later
    <3>1. Covered(docs, balance) /\ EventsSound(chain) /\ DocumentsSound(chain, docs)
      BY DEF PolicySound
    <3> HIDE DEF balance, later
    <3> QED
      BY <1>1, <1>7, <3>1, CoveredWithEvent
  <2>2. later \in Int
    BY <1>7
  <2> QED
    BY <1>4, <2>1, <2>2, CoveredWhenSettled
<1>12. PolicySound(p, next, more, settled, paying, txs \cup {LedgerTransaction(e)})
  BY <1>2, <1>3, <1>4, <1>5, <1>6, <1>8, <1>9, <1>10, <1>11 DEF PolicySound
<1> QED
  BY <1>12 DEF next, more

LEMMA InitBooksSound == Init => BooksSound
<1> SUFFICES ASSUME Init, NEW p \in Policies
             PROVE  PolicySound(p, premium[p], events[p], documents[p], payments[p], ledger[p])
  BY DEF BooksSound
<1>1. /\ premium[p] = Contract[p].premium /\ events[p] = << >> /\ documents[p] = {}
      /\ payments[p] = {} /\ ledger[p] = {}
  BY DEF Init
<1> QED
  BY <1>1, EmptySound

LEMMA EnactBooksSound ==
  ASSUME Tables, BooksSound, NEW in \in Inputs, Admissible(in),
         LET p == in.body.policy IN Enact(in, p, EventFor(in, p)),
         premium' = IF IsEndorsement(in.body)
                    THEN [premium EXCEPT ![in.body.policy] = in.body.premium] ELSE premium
  PROVE  BooksSound'
<1> DEFINE p      == in.body.policy
           e      == EventFor(in, p)
           seen   == DocumentsWith(p, e)
           paying == PaymentsWith(p, e)
<1>1. p \in Policies /\ Refusal(p, premium[p], in.body) = "none"
  BY DEF Admissible
<1>2. /\ events' = [events EXCEPT ![p] = Append(events[p], e)]
      /\ documents' = [documents EXCEPT ![p] =
                         MarkPaid(seen, ToSettle(seen, OpenBalance(seen, paying)))]
      /\ payments' = [payments EXCEPT ![p] = paying]
      /\ ledger' = [ledger EXCEPT ![p] = ledger[p] \cup {LedgerTransaction(e)}]
  BY DEF Enact, BalanceWith
<1>3. /\ DOMAIN premium = Policies /\ DOMAIN events = Policies /\ DOMAIN documents = Policies
      /\ DOMAIN payments = Policies /\ DOMAIN ledger = Policies
  BY DEF Tables
<1>4. PolicySound(p, IF IsEndorsement(in.body) THEN in.body.premium ELSE premium[p],
                  Append(events[p], e),
                  MarkPaid(seen, ToSettle(seen, OpenBalance(seen, paying))),
                  paying, ledger[p] \cup {LedgerTransaction(e)})
  <2>1. PolicySound(p, premium[p], events[p], documents[p], payments[p], ledger[p])
    BY <1>1 DEF BooksSound
  <2>2. /\ e = NextEvent(events[p], EventData(p, premium[p], in.body), in.key)
        /\ seen = documents[p] \cup NewDocuments(e)
        /\ paying = payments[p] \cup NewPayments(e)
    BY DEF EventFor, DocumentsWith, PaymentsWith
  <2> HIDE DEF p, e, seen, paying
  <2> QED
    BY <1>1, <2>1, <2>2, SoundWithEvent
<1> HIDE DEF e, seen, paying
<1>5. ASSUME NEW q \in Policies
      PROVE  PolicySound(q, premium'[q], events'[q], documents'[q], payments'[q], ledger'[q])
  <2>1. CASE q = p
    <3>1. premium'[p] = IF IsEndorsement(in.body) THEN in.body.premium ELSE premium[p]
      BY <1>1, <1>3
    <3>2. /\ events'[p] = Append(events[p], e) /\ payments'[p] = paying
          /\ documents'[p] = MarkPaid(seen, ToSettle(seen, OpenBalance(seen, paying)))
          /\ ledger'[p] = ledger[p] \cup {LedgerTransaction(e)}
      BY <1>1, <1>2, <1>3
    <3> QED
      BY <1>4, <2>1, <3>1, <3>2
  <2>2. CASE q # p
    <3>1. /\ premium'[q] = premium[q] /\ events'[q] = events[q] /\ payments'[q] = payments[q]
          /\ documents'[q] = documents[q] /\ ledger'[q] = ledger[q]
      BY <1>2, <1>3, <2>2
    <3> QED
      BY <3>1 DEF BooksSound
  <2> QED
    BY <2>1, <2>2
<1> QED
  BY <1>5 DEF BooksSound

LEMMA NextBooksSound == IInv /\ BooksSound /\ [Next]_vars => BooksSound'
<1> SUFFICES ASSUME IInv, BooksSound, [Next]_vars PROVE BooksSound'
  OBVIOUS
<1>1. Tables
  BY DEF IInv
<1>2. ASSUME NEW in \in Inputs, ApplyEndorsement(in) PROVE BooksSound'
  BY <1>1, <1>2, EnactBooksSound DEF ApplyEndorsement
<1>3. ASSUME NEW in \in Inputs, RecordPayment(in) PROVE BooksSound'
  BY <1>1, <1>3, EnactBooksSound DEF RecordPayment
<1>4. ASSUME UNCHANGED <<premium, events, documents, payments, ledger>> PROVE BooksSound'
  BY <1>4 DEF BooksSound
<1> QED
  BY <1>2, <1>3, <1>4 DEF Next, ReplayKey, ReplayExternal, vars

THEOREM BooksInvariant == Spec => []BooksSound
<1> QED
  BY InitBooksSound, BookInvariant, NextBooksSound, PTL DEF Spec

\* The PREMIUM_RECEIVABLE of the ledger is billed less paid.
THEOREM TwoBalancesAgree == Spec => []ReceivableIsOpenBalance
<1>1. BooksSound => ReceivableIsOpenBalance
  BY DEF BooksSound, PolicySound, ReceivableIsOpenBalance
<1> QED
  BY <1>1, BooksInvariant, PTL

\* Nothing is open while nothing is owed, and what is owed is open.
THEOREM DebtIsOpen == Spec => []OpenDocumentsCoverBalance
<1>1. BooksSound => OpenDocumentsCoverBalance
  BY DEF BooksSound, PolicySound, Covered, OpenDocumentsCoverBalance
<1> QED
  BY <1>1, BooksInvariant, PTL

\* No endorsement was priced against a premium already replaced.
THEOREM PremiumsChain == Spec => []PremiumFollowsHistory
<1>1. BooksSound => PremiumFollowsHistory
  BY DEF BooksSound, PolicySound, PremiumsSound, PremiumFollowsHistory
<1> QED
  BY <1>1, BooksInvariant, PTL

-----------------------------------------------------------------------------
\* Copied answers.

\* An answer under another key than that of its event was copied there, and
\* that was counted on the first key.
CopyCounted(s) ==
  LET e == events[s[2]][records[s].response.seq]
  IN  s[3] # e.key => records[<<s[1], s[2], e.key>>].replays > 0

CopiesCounted == \A s \in Slots : Filed(s) => CopyCounted(s)

LEMMA CopiesKept ==
  ASSUME IInv, AnswersKept, EventsKept, NEW s \in Slots, Filed(s), CopyCounted(s)
  PROVE  CopyCounted(s)'
<1> DEFINE p     == s[2]
           i     == records[s].response.seq
           e     == events[p][i]
           first == <<s[1], p, e.key>>
<1>1. p \in Policies /\ i \in DOMAIN events[p] /\ e.payload.kind = s[1]
  BY DEF IInv, RecordsComplete, AnswerHasEvent
<1>2. events'[p][i] = e /\ records'[s].response.seq = i
  BY <1>1 DEF AnswersKept, EventsKept
<1>3. first \in Slots /\ Filed(first)
  BY <1>1 DEF IInv, EventHasRecord
<1>4. /\ records[first].replays \in Nat /\ records'[first].replays \in Nat
      /\ records'[first].replays >= records[first].replays
  BY <1>3 DEF IInv, RecordsComplete, AnswersKept, RecordShape
<1>5. s[3] # e.key => records[first].replays > 0
  BY DEF CopyCounted
<1> QED
  BY <1>2, <1>4, <1>5 DEF CopyCounted

LEMMA EnactCopies ==
  ASSUME IInv, CopiesCounted, NEW in \in Inputs, Admissible(in),
         LET p == in.body.policy IN Enact(in, p, EventFor(in, p))
  PROVE  CopiesCounted'
<1> DEFINE p    == in.body.policy
           slot == SlotOf(in)
<1>1. PICK i : i = Len(events[p]) + 1
  OBVIOUS
<1>2. AnswersKept /\ EventsKept
  BY EnactKeeps
<1>3. /\ events'[p][i] = EventFor(in, p)
      /\ EventHasRecord(p, i)'
      /\ \A s \in Slots \ {slot} : Filed(s)' <=> Filed(s)
  BY <1>1, EnactTies
<1>4. CopyCounted(slot)'
  <2>1. EventFor(in, p).key = in.key /\ EventFor(in, p).payload.kind = in.body.kind
    BY InputsAssumption DEF EventFor, NextEvent, EventData, IsEndorsement
  <2>2. slot = <<in.body.kind, p, in.key>>
    BY DEF SlotOf
  <2>3. records'[slot].response.seq = i
    BY <1>3, <2>1, <2>2 DEF EventHasRecord
  <2> QED
    BY <1>3, <2>1, <2>2, <2>3 DEF CopyCounted
<1>5. ASSUME NEW s \in Slots \ {slot}, Filed(s)' PROVE CopyCounted(s)'
  BY <1>2, <1>3, <1>5, CopiesKept DEF CopiesCounted
<1> QED
  BY <1>4, <1>5 DEF CopiesCounted

LEMMA ReplayExternalCopies ==
  ASSUME IInv, BooksSound, CopiesCounted, NEW in \in Inputs, ReplayExternal(in)
  PROVE  CopiesCounted'
<1> DEFINE p    == in.body.policy
           slot == SlotOf(in)
<1>1. PICK y \in SameExternal(in) :
        /\ y.amount = in.body.amount
        /\ records' = [records EXCEPT
             ![PaymentSlot(p, y.key)] = Replayed(records[PaymentSlot(p, y.key)]),
             ![slot] = CompletedRecord(RequestHash(in), records[PaymentSlot(p, y.key)].response)]
  BY DEF ReplayExternal
<1> DEFINE original == PaymentSlot(p, y.key)
<1>2. /\ p \in Policies /\ slot \in Slots /\ ~ Filed(slot) /\ in.body.kind = "payment"
      /\ UNCHANGED events
  BY InputsAssumption DEF ReplayExternal, Admissible, Slots, Filed, IsEndorsement
<1>3. PICK i \in DOMAIN events[p] : y = Payment(events[p][i]) /\ events[p][i].payload.kind = "payment"
  <2>1. PaymentsSound(events[p], payments[p]) /\ y \in payments[p]
    BY <1>2 DEF BooksSound, PolicySound, SameExternal
  <2> QED
    BY <2>1 DEF PaymentsSound, Of
<1>4. /\ original \in Slots /\ Filed(original) /\ records[original].response.seq = i
      /\ events[p][i].key = y.key
  BY <1>2, <1>3 DEF IInv, EventHasRecord, PaymentSlot, Payment
<1>5. /\ AnswersKept /\ EventsKept
      /\ \A s \in Slots \ {slot} : Filed(s)' => Filed(s)
  <2>1. EventsKept
    BY <1>2 DEF EventsKept, IInv, Tables
  <2> QED
    BY <2>1, ReplayExternalKeeps
<1>6. original # slot
  BY <1>2, <1>4
<1>7. records'[slot].response.seq = i /\ records'[original].replays > 0
  <2>1. DOMAIN records = Slots
    BY DEF IInv, Tables
  <2> HIDE DEF original, slot
  <2>2. /\ records'[slot] = CompletedRecord(RequestHash(in), records[original].response)
        /\ records'[original] = Replayed(records[original])
    BY <1>1, <1>2, <1>4, <1>6, <2>1 DEF original
  <2>3. RecordShape(records[original])
    BY <1>4 DEF IInv, RecordsComplete
  <2>4. Replayed(records[original]).replays = records[original].replays + 1
    BY <2>3 DEF Replayed, RecordShape
  <2>5. records'[slot].response = records[original].response
    BY <2>2, RecordShapes
  <2> QED
    BY <1>4, <2>2, <2>3, <2>4, <2>5 DEF RecordShape
<1>8. CopyCounted(slot)'
  <2>1. slot = <<"payment", p, in.key>> /\ original = <<"payment", p, y.key>>
    BY <1>2 DEF SlotOf, PaymentSlot
  <2> QED
    BY <1>2, <1>4, <1>7, <2>1 DEF CopyCounted
<1>9. ASSUME NEW s \in Slots \ {slot}, Filed(s)' PROVE CopyCounted(s)'
  BY <1>5, <1>9, CopiesKept DEF CopiesCounted
<1> QED
  BY <1>8, <1>9 DEF CopiesCounted

LEMMA ReplayKeyCopies ==
  ASSUME IInv, CopiesCounted, NEW in \in Inputs, ReplayKey(in)
  PROVE  CopiesCounted'
<1>1. AnswersKept /\ \A s \in Slots : Filed(s)' => Filed(s)
  BY ReplayKeyKeeps
<1>2. EventsKept
  BY DEF ReplayKey, EventsKept, IInv, Tables
<1> QED
  BY <1>1, <1>2, CopiesKept DEF CopiesCounted

LEMMA NextCopies == IInv /\ BooksSound /\ CopiesCounted /\ [Next]_vars => CopiesCounted'
<1> SUFFICES ASSUME IInv, BooksSound, CopiesCounted, [Next]_vars PROVE CopiesCounted'
  OBVIOUS
<1>1. ASSUME NEW in \in Inputs, ApplyEndorsement(in) PROVE CopiesCounted'
  BY <1>1, EnactCopies DEF ApplyEndorsement
<1>2. ASSUME NEW in \in Inputs, RecordPayment(in) PROVE CopiesCounted'
  BY <1>2, EnactCopies DEF RecordPayment
<1>3. ASSUME NEW in \in Inputs, ReplayKey(in) PROVE CopiesCounted'
  BY <1>3, ReplayKeyCopies
<1>4. ASSUME NEW in \in Inputs, ReplayExternal(in) PROVE CopiesCounted'
  BY <1>4, ReplayExternalCopies
<1>5. CASE UNCHANGED vars
  BY <1>5 DEF vars, CopiesCounted, CopyCounted, Filed
<1> QED
  BY <1>1, <1>2, <1>3, <1>4, <1>5 DEF Next

LEMMA CopiesInvariant == Spec => []CopiesCounted
<1>1. Init => CopiesCounted
  BY DEF Init, CopiesCounted, Filed
<1> QED
  BY <1>1, BookInvariant, BooksInvariant, NextCopies, PTL DEF Spec

-----------------------------------------------------------------------------
\* The reports.

Kinds == {"state", "ledger", "history"}

\* What is shown of the books above, said of a view of one policy.
ViewSound(p, v) ==
  /\ PolicySound(p, v.premium, v.events, v.documents, v.payments, v.ledger)
  /\ DOMAIN v.records = {s \in Slots : s[2] = p}
  /\ \A i \in DOMAIN v.events :
       LET s == <<v.events[i].payload.kind, p, v.events[i].key>>
       IN  /\ s \in Slots /\ v.records[s] # NoRecord
           /\ v.records[s].response.seq = i /\ v.records[s].replays \in Nat
  /\ \A s \in DOMAIN v.records : v.records[s] # NoRecord =>
       LET i == v.records[s].response.seq
       IN  /\ i \in DOMAIN v.events /\ v.events[i].payload.kind = s[1]
           /\ s[3] # v.events[i].key =>
                v.records[<<s[1], p, v.events[i].key>>].replays > 0

\* Repeated, of a view.
RepeatedIn(p, v) ==
  {i \in DOMAIN v.events :
     \E s \in Slots :
       /\ s[1] = v.events[i].payload.kind /\ s[2] = p
       /\ v.records[s] # NoRecord
       /\ v.records[s].response.seq = i
       /\ v.records[s].replays > 0 \/ s[3] # v.events[i].key}

LEMMA ViewIsSound ==
  ASSUME IInv, BooksSound, CopiesCounted, NEW p \in Policies
  PROVE  ViewSound(p, View(p)) /\ RepeatedIn(p, View(p)) = Repeated(p)
<1> DEFINE v == View(p)
<1>1. /\ v.premium = premium[p] /\ v.events = events[p] /\ v.documents = documents[p]
      /\ v.payments = payments[p] /\ v.ledger = ledger[p]
      /\ DOMAIN v.records = {s \in Slots : s[2] = p}
      /\ \A s \in Slots : s[2] = p => v.records[s] = records[s]
  BY DEF View
<1> HIDE DEF v
<1>2. PolicySound(p, v.premium, v.events, v.documents, v.payments, v.ledger)
  BY <1>1 DEF BooksSound
<1>3. ASSUME NEW i \in DOMAIN v.events
      PROVE  LET s == <<v.events[i].payload.kind, p, v.events[i].key>>
             IN  /\ s \in Slots /\ v.records[s] # NoRecord
                 /\ v.records[s].response.seq = i /\ v.records[s].replays \in Nat
  <2>1. EventHasRecord(p, i)
    BY <1>1 DEF IInv
  <2> QED
    BY <1>1, <2>1 DEF EventHasRecord, Filed, IInv, RecordsComplete, RecordShape
<1>4. ASSUME NEW s \in DOMAIN v.records, v.records[s] # NoRecord
      PROVE  LET i == v.records[s].response.seq
             IN  /\ i \in DOMAIN v.events /\ v.events[i].payload.kind = s[1]
                 /\ s[3] # v.events[i].key =>
                      v.records[<<s[1], p, v.events[i].key>>].replays > 0
  <2>1. s \in Slots /\ s[2] = p /\ Filed(s) /\ v.records[s] = records[s]
    BY <1>1, <1>4 DEF Filed
  <2>2. AnswerHasEvent(s) /\ CopyCounted(s)
    BY <2>1 DEF IInv, CopiesCounted
  <2>3. /\ v.records[s].response.seq \in DOMAIN v.events
        /\ v.events[v.records[s].response.seq].payload.kind = s[1]
    BY <1>1, <2>1, <2>2 DEF AnswerHasEvent
  <2>4. <<s[1], p, v.events[v.records[s].response.seq].key>> \in Slots
    BY <1>3, <2>3
  <2> QED
    BY <1>1, <2>1, <2>2, <2>3, <2>4 DEF CopyCounted
<1>5. ViewSound(p, v)
  BY <1>1, <1>2, <1>3, <1>4 DEF ViewSound
<1>6. RepeatedIn(p, v) = Repeated(p)
  BY <1>1 DEF RepeatedIn, Repeated
<1> QED
  BY <1>5, <1>6 DEF v

-----------------------------------------------------------------------------
\* The queries, and what they return.

Asked(kind, n) == {Queries(kind)[i] : i \in 1 .. n}

Gathered(kind, n, v, p) ==
  [q \in {"policy"} \cup Asked(kind, n) |-> IF q = "policy" THEN v.premium ELSE Result(q, v, p)]

LEMMA QueriesAre ==
  /\ Queries("state") = <<"events", "documents", "payments", "transactions", "entries", "balance">>
  /\ Queries("ledger") = <<"transactions", "entries">>
  /\ Queries("history") = <<"events">>
BY DEF Queries

LEMMA QueriesDiffer ==
  ASSUME NEW kind \in Kinds
  PROVE  /\ Len(Queries(kind)) \in Nat
         /\ \A i, j \in 1 .. Len(Queries(kind)) :
              /\ Queries(kind)[i] # "policy"
              /\ Queries(kind)[i] = Queries(kind)[j] => i = j
<1>1. CASE kind = "state"
  <2>1. Len(Queries(kind)) = 6
    BY <1>1, QueriesAre
  <2>2. /\ Queries(kind)[1] = "events" /\ Queries(kind)[2] = "documents"
        /\ Queries(kind)[3] = "payments" /\ Queries(kind)[4] = "transactions"
        /\ Queries(kind)[5] = "entries" /\ Queries(kind)[6] = "balance"
    BY <1>1, QueriesAre
  <2>3. 1 .. 6 = {1, 2, 3, 4, 5, 6}
    OBVIOUS
  <2> QED
    BY <2>1, <2>2, <2>3
<1>2. CASE kind = "ledger"
  BY <1>2, QueriesAre
<1>3. CASE kind = "history"
  BY <1>3, QueriesAre
<1> QED
  BY <1>1, <1>2, <1>3 DEF Kinds

\* Sent counts the queries that were answered.
LEMMA AskedCount ==
  ASSUME NEW kind \in Kinds, NEW n \in 0 .. Len(Queries(kind)), NEW v, NEW p
  PROVE  Cardinality(DOMAIN Gathered(kind, n, v, p) \ {"policy"}) = n
<1> DEFINE S == Asked(kind, n)
           f == [i \in 1 .. n |-> Queries(kind)[i]]
<1>1. DOMAIN Gathered(kind, n, v, p) \ {"policy"} = S
  BY QueriesDiffer DEF Gathered, Asked
<1>2. f \in Bijection(1 .. n, S)
  <2>1. f \in [1 .. n -> S] /\ \A z \in S : \E i \in 1 .. n : f[i] = z
    BY DEF Asked
  <2>2. \A i, j \in 1 .. n : f[i] = f[j] => i = j
    BY QueriesDiffer
  <2> QED
    BY <2>1, <2>2 DEF Bijection, Injection, Surjection, IsInjective
<1>3. n \in Nat
  BY QueriesDiffer
<1>4. ExistsBijection(1 .. n, S)
  BY <1>2 DEF ExistsBijection
<1>5. Cardinality(S) = n
  BY <1>3, <1>4, FS_CountingElements
<1> QED
  BY <1>1, <1>5

\* One query more.
LEMMA GatheredNext ==
  ASSUME NEW kind \in Kinds, NEW n \in 0 .. Len(Queries(kind)), n < Len(Queries(kind)),
         NEW v, NEW p, NEW query, query = Queries(kind)[n + 1]
  PROVE  With(Gathered(kind, n, v, p), query, Result(query, v, p)) = Gathered(kind, n + 1, v, p)
<1>1. n \in Nat /\ n + 1 \in 1 .. Len(Queries(kind))
  BY QueriesDiffer
<1>2. query # "policy"
  BY <1>1, QueriesDiffer
<1>3. Asked(kind, n + 1) = Asked(kind, n) \cup {query}
  <2>1. 1 .. (n + 1) = (1 .. n) \cup {n + 1}
    BY <1>1
  <2> QED
    BY <2>1 DEF Asked
<1> QED
  BY <1>2, <1>3 DEF Gathered, With

\* All of them.
LEMMA AllGathered ==
  ASSUME NEW v, NEW p
  PROVE  /\ LET r == Gathered("state", Len(Queries("state")), v, p)
            IN  /\ r.policy = v.premium
                /\ r.events = Result("events", v, p) /\ r.documents = Result("documents", v, p)
                /\ r.payments = Result("payments", v, p)
                /\ r.transactions = Result("transactions", v, p)
                /\ r.entries = Result("entries", v, p) /\ r.balance = Result("balance", v, p)
         /\ LET r == Gathered("ledger", Len(Queries("ledger")), v, p)
            IN  /\ r.transactions = Result("transactions", v, p)
                /\ r.entries = Result("entries", v, p)
         /\ LET r == Gathered("history", Len(Queries("history")), v, p)
            IN  r.events = Result("events", v, p)
<1>1. ASSUME NEW kind \in Kinds, NEW i \in 1 .. Len(Queries(kind))
      PROVE  Gathered(kind, Len(Queries(kind)), v, p)[Queries(kind)[i]]
               = Result(Queries(kind)[i], v, p)
  BY QueriesDiffer DEF Gathered, Asked
<1>2. Gathered("state", Len(Queries("state")), v, p)["policy"] = v.premium
  BY DEF Gathered
<1>3. /\ Len(Queries("state")) = 6 /\ Len(Queries("ledger")) = 2 /\ Len(Queries("history")) = 1
      /\ Queries("state")[1] = "events" /\ Queries("state")[2] = "documents"
      /\ Queries("state")[3] = "payments" /\ Queries("state")[4] = "transactions"
      /\ Queries("state")[5] = "entries" /\ Queries("state")[6] = "balance"
      /\ Queries("ledger")[1] = "transactions" /\ Queries("ledger")[2] = "entries"
      /\ Queries("history")[1] = "events"
  BY QueriesAre
<1>4. \A i \in 1 .. 6 : Gathered("state", Len(Queries("state")), v, p)[Queries("state")[i]]
               = Result(Queries("state")[i], v, p)
  BY <1>1, <1>3 DEF Kinds
<1>5. \A i \in 1 .. 2 : Gathered("ledger", Len(Queries("ledger")), v, p)[Queries("ledger")[i]]
               = Result(Queries("ledger")[i], v, p)
  BY <1>1, <1>3 DEF Kinds
<1>6. Gathered("history", Len(Queries("history")), v, p)[Queries("history")[1]]
        = Result(Queries("history")[1], v, p)
  BY <1>1, <1>3 DEF Kinds
<1> QED
  BY <1>2, <1>3, <1>4, <1>5, <1>6

-----------------------------------------------------------------------------
\* The ledger of a report.

\* The rows of the query "entries" for one transaction.
EntryRows(t) ==
  {[transaction |-> t.seq, line |-> i, entry |-> t.entries[i]] : i \in DOMAIN t.entries}

\* The transaction of an event has two entries, with one and the same amount.
LEMMA TwoEntries ==
  ASSUME NEW e, e.payload.amount \in Int \ {0},
         e.payload.kind = "endorsement" \/ e.payload.amount > 0
  PROVE  \E a \in Int :
           LET t == LedgerTransaction(e)
           IN  /\ a > 0 /\ DOMAIN t.entries = {1, 2} /\ Len(t.entries) = 2
               /\ t.entries[1].debit = a /\ t.entries[1].credit = 0
               /\ t.entries[2].debit = 0 /\ t.entries[2].credit = a
<1> DEFINE t == LedgerTransaction(e)
           m == e.payload.amount
<1>1. t.entries = IF e.payload.kind = "endorsement" THEN EndorsementEntries(m)
                  ELSE PaymentEntries(m)
  BY DEF LedgerTransaction
<1>2. Abs(m) \in Int /\ Abs(m) > 0 /\ (m > 0 => Abs(m) = m) /\ m \in Int
  BY DEF Abs
<1>3. e.payload.kind # "endorsement" => m > 0
  OBVIOUS
<1> HIDE DEF t, m
<1>4. \E x, y : t.entries = <<LedgerEntry(x, Abs(m), 0), LedgerEntry(y, 0, Abs(m))>>
  BY <1>1, <1>2, <1>3 DEF EndorsementEntries, PaymentEntries
<1>5. PICK x, y : t.entries = <<LedgerEntry(x, Abs(m), 0), LedgerEntry(y, 0, Abs(m))>>
  BY <1>4
<1>6. /\ DOMAIN t.entries = {1, 2} /\ Len(t.entries) = 2
      /\ t.entries[1] = LedgerEntry(x, Abs(m), 0) /\ t.entries[2] = LedgerEntry(y, 0, Abs(m))
  BY <1>5
<1>7. /\ t.entries[1].debit = Abs(m) /\ t.entries[1].credit = 0
      /\ t.entries[2].debit = 0 /\ t.entries[2].credit = Abs(m)
  BY <1>6 DEF LedgerEntry
<1> QED
  BY <1>2, <1>6, <1>7 DEF t

LEMMA EntryRowsBalance ==
  ASSUME NEW t, NEW a \in Int, a > 0, DOMAIN t.entries = {1, 2},
         t.entries[1].debit = a, t.entries[1].credit = 0,
         t.entries[2].debit = 0, t.entries[2].credit = a
  PROVE  /\ IsFiniteSet(EntryRows(t)) /\ Cardinality(EntryRows(t)) = 2
         /\ TotalDebits(EntryRows(t)) = a /\ TotalCredits(EntryRows(t)) = a
         /\ \A x \in EntryRows(t) :
              x.entry.debit \in Int /\ x.entry.credit \in Int /\ x.transaction = t.seq
<1> DEFINE x == [transaction |-> t.seq, line |-> 1, entry |-> t.entries[1]]
           y == [transaction |-> t.seq, line |-> 2, entry |-> t.entries[2]]
           S == EntryRows(t)
           debit == [z \in S |-> z.entry.debit]
           credit == [z \in S |-> z.entry.credit]
<1>1. S = {x, y}
  BY DEF EntryRows
<1>2. /\ x # y /\ x.entry.debit = a /\ x.entry.credit = 0
      /\ y.entry.debit = 0 /\ y.entry.credit = a
      /\ x.transaction = t.seq /\ y.transaction = t.seq
  <2>1. x.line = 1 /\ y.line = 2
    OBVIOUS
  <2> QED
    BY <2>1
<1> HIDE DEF x, y, S
<1>3. IsFiniteSet(S) /\ Cardinality(S) = 2
  <2>1. IsFiniteSet({x}) /\ Cardinality({x}) = 1
    BY FS_Singleton
  <2>2. S = {x} \cup {y} /\ y \notin {x}
    BY <1>1, <1>2
  <2>3. IsFiniteSet({x} \cup {y}) /\ Cardinality({x} \cup {y}) = Cardinality({x}) + 1
    BY <2>1, <2>2, FS_AddElement
  <2> QED
    BY <2>1, <2>2, <2>3
<1>4. /\ debit \in [{x, y} -> Int] /\ debit[x] = a /\ debit[y] = 0
      /\ credit \in [{x, y} -> Int] /\ credit[x] = 0 /\ credit[y] = a
  BY <1>1, <1>2
<1> HIDE DEF debit, credit
<1>5. SumFunction(debit) = a + 0 /\ SumFunction(credit) = 0 + a
  <2>1. \A f \in [{x, y} -> Int] : SumFunction(f) = f[x] + f[y]
    BY <1>2, SumOfTwo
  <2> QED
    BY <1>4, <2>1
<1>6. TotalDebits(S) = a /\ TotalCredits(S) = a
  <2>1. TotalDebits(S) = SumFunction(debit) /\ TotalCredits(S) = SumFunction(credit)
    BY DEF TotalDebits, TotalCredits, debit, credit
  <2> QED
    BY <1>5, <2>1
<1>7. \A z \in S : z.entry.debit \in Int /\ z.entry.credit \in Int /\ z.transaction = t.seq
  BY <1>1, <1>2
<1> QED
  BY <1>3, <1>6, <1>7 DEF S

\* The entries of several transactions.
AllRows(T) == UNION {EntryRows(t) : t \in T}

BalancedRows(S) ==
  /\ IsFiniteSet(S)
  /\ \A x \in S : x.entry.debit \in Int /\ x.entry.credit \in Int
  /\ TotalDebits(S) = TotalCredits(S)

LEMMA BalancedTogether ==
  ASSUME NEW A, NEW B, BalancedRows(A), BalancedRows(B), A \cap B = {}
  PROVE  BalancedRows(A \cup B)
<1> DEFINE S == A \cup B
           debit(R) == [x \in R |-> x.entry.debit]
           credit(R) == [x \in R |-> x.entry.credit]
<1>1. IsFiniteSet(S) /\ A \in SUBSET S /\ S \ A = B
  BY FS_Union DEF BalancedRows
<1>2. \A x \in S : x.entry.debit \in Int /\ x.entry.credit \in Int
  BY DEF BalancedRows
<1>3. TotalDebits(S) = TotalDebits(A) + TotalDebits(B)
  <2> DEFINE f == debit(S)
             g == debit(A)
             h == debit(B)
  <2>1. f \in [S -> Int] /\ g \in [A -> Int] /\ h \in [S \ A -> Int]
    BY <1>1, <1>2
  <2>2. (\A x \in A : g[x] = f[x]) /\ \A x \in S \ A : h[x] = f[x]
    BY <1>1
  <2> HIDE DEF S, f, g, h
  <2>3. SumFunction(f) = SumFunction(g) + SumFunction(h)
    BY <1>1, <2>1, <2>2, SumSplit
  <2> QED
    BY <2>3 DEF TotalDebits, f, g, h
<1>4. TotalCredits(S) = TotalCredits(A) + TotalCredits(B)
  <2> DEFINE f == credit(S)
             g == credit(A)
             h == credit(B)
  <2>1. f \in [S -> Int] /\ g \in [A -> Int] /\ h \in [S \ A -> Int]
    BY <1>1, <1>2
  <2>2. (\A x \in A : g[x] = f[x]) /\ \A x \in S \ A : h[x] = f[x]
    BY <1>1
  <2> HIDE DEF S, f, g, h
  <2>3. SumFunction(f) = SumFunction(g) + SumFunction(h)
    BY <1>1, <2>1, <2>2, SumSplit
  <2> QED
    BY <2>3 DEF TotalCredits, f, g, h
<1> QED
  BY <1>1, <1>2, <1>3, <1>4 DEF BalancedRows

\* The ledger of a policy, as reported: every event has its transaction, and
\* each transaction and the whole balance.
LEMMA LedgerIsBalanced ==
  ASSUME NEW p, NEW v, EventsSound(v.events), LedgerSound(v.events, v.ledger)
  PROVE  LET summary == SummarizeLedger(Result("transactions", v, p), Result("entries", v, p))
         IN  summary.balanced /\ summary.transactions = DOMAIN v.events
<1> DEFINE txs     == v.ledger
           entries == AllRows(txs)
           seqs    == {t.seq : t \in txs}
<1>1. Result("transactions", v, p) = seqs /\ Result("entries", v, p) = entries
  BY DEF Result, AllRows, EntryRows
<1>2. ASSUME NEW i \in DOMAIN v.events
      PROVE  LET t == LedgerTransaction(v.events[i])
             IN  /\ t.seq = i
                 /\ BalancedRows(EntryRows(t)) /\ Cardinality(EntryRows(t)) = 2
                 /\ TotalDebits(EntryRows(t)) > 0
                 /\ \A x \in EntryRows(t) : x.transaction = i
  <2> DEFINE e == v.events[i]
             t == LedgerTransaction(e)
  <2>1. EventSound(v.events, i)
    BY DEF EventsSound
  <2>2. t.seq = i
    BY <2>1 DEF LedgerTransaction, EventSound, RowSound
  <2>3. PICK a \in Int :
          /\ a > 0 /\ DOMAIN t.entries = {1, 2}
          /\ t.entries[1].debit = a /\ t.entries[1].credit = 0
          /\ t.entries[2].debit = 0 /\ t.entries[2].credit = a
    BY <2>1, TwoEntries DEF EventSound
  <2> HIDE DEF t
  <2>4. /\ IsFiniteSet(EntryRows(t)) /\ Cardinality(EntryRows(t)) = 2
        /\ TotalDebits(EntryRows(t)) = a /\ TotalCredits(EntryRows(t)) = a
        /\ \A x \in EntryRows(t) :
             x.entry.debit \in Int /\ x.entry.credit \in Int /\ x.transaction = t.seq
    BY <2>3, EntryRowsBalance
  <2> QED
    BY <2>2, <2>3, <2>4 DEF BalancedRows, t
<1>3. txs = {LedgerTransaction(v.events[i]) : i \in DOMAIN v.events} /\ IsFiniteSet(txs)
  BY DEF LedgerSound
<1>4. ASSUME NEW t \in txs
      PROVE  /\ t.seq \in DOMAIN v.events /\ t = LedgerTransaction(v.events[t.seq])
             /\ BalancedRows(EntryRows(t)) /\ Cardinality(EntryRows(t)) = 2
             /\ TotalDebits(EntryRows(t)) > 0
             /\ \A x \in EntryRows(t) : x.transaction = t.seq
  BY <1>2, <1>3
<1>5. seqs = DOMAIN v.events
  BY <1>2, <1>3
<1>6. BalancedRows(AllRows(txs))
  <2> DEFINE G == {T \in SUBSET txs : BalancedRows(AllRows(T))}
  <2>1. {} \in G
    <3>1. AllRows({}) = {}
      BY DEF AllRows
    <3> QED
      BY <3>1, SumEmpty, FS_EmptySet DEF BalancedRows, TotalDebits, TotalCredits
  <2>2. ASSUME NEW T \in G, NEW t \in txs \ T PROVE T \cup {t} \in G
    <3>1. AllRows(T \cup {t}) = AllRows(T) \cup EntryRows(t)
      BY DEF AllRows
    <3>2. AllRows(T) \cap EntryRows(t) = {}
      <4> SUFFICES ASSUME NEW x \in AllRows(T), x \in EntryRows(t) PROVE FALSE
        OBVIOUS
      <4>1. PICK u \in T : x \in EntryRows(u)
        BY DEF AllRows
      <4>2. u.seq = t.seq
        BY <1>4, <4>1
      <4> QED
        BY <1>4, <4>2
    <3>3. BalancedRows(AllRows(T)) /\ BalancedRows(EntryRows(t))
      BY <1>4
    <3>4. BalancedRows(AllRows(T \cup {t}))
      BY <3>1, <3>2, <3>3, BalancedTogether
    <3> QED
      BY <3>4
  <2>3. G \in SUBSET (SUBSET txs)
    OBVIOUS
  <2>4. txs \in G
    <3> HIDE DEF G
    <3> QED
      BY <1>3, <2>1, <2>2, <2>3, SubsetInduction
  <2> QED
    BY <2>4
<1>7. ASSUME NEW s \in seqs
      PROVE  /\ Cardinality({x \in entries : x.transaction = s}) >= 2
             /\ TotalDebits({x \in entries : x.transaction = s}) > 0
             /\ TotalDebits({x \in entries : x.transaction = s})
                  = TotalCredits({x \in entries : x.transaction = s})
  <2>1. PICK t \in txs : t.seq = s
    OBVIOUS
  <2>2. {x \in entries : x.transaction = s} = EntryRows(t)
    <3>1. ASSUME NEW x \in entries, x.transaction = s PROVE x \in EntryRows(t)
      <4>1. PICK u \in txs : x \in EntryRows(u)
        BY <3>1 DEF AllRows
      <4>2. u.seq = t.seq
        BY <1>4, <2>1, <3>1, <4>1
      <4> QED
        BY <1>4, <4>1, <4>2
    <3>2. ASSUME NEW x \in EntryRows(t) PROVE x \in entries /\ x.transaction = s
      BY <1>4, <2>1, <3>2 DEF AllRows
    <3> QED
      BY <3>1, <3>2
  <2>3. /\ Cardinality(EntryRows(t)) >= 2 /\ TotalDebits(EntryRows(t)) > 0
        /\ TotalDebits(EntryRows(t)) = TotalCredits(EntryRows(t))
    BY <1>4 DEF BalancedRows
  <2> QED
    BY <2>2, <2>3
<1> HIDE DEF entries, seqs
<1>8. SummarizeLedger(seqs, entries).balanced
  BY <1>6, <1>7 DEF SummarizeLedger, BalancedRows, entries
<1>9. SummarizeLedger(seqs, entries).transactions = seqs
  BY DEF SummarizeLedger
<1> QED
  BY <1>1, <1>5, <1>8, <1>9

-----------------------------------------------------------------------------
\* The reports, from a sound view.

ReportOf(kind, v, p) == Report(kind, Gathered(kind, Len(Queries(kind)), v, p))

LEMMA HistoryIsValid ==
  ASSUME NEW p, NEW v, EventsSound(v.events)
  PROVE  LET listed  == Result("events", v, p)
             verdict == VerifyPolicyHistory([i \in DOMAIN listed |-> listed[i].row])
         IN  verdict.valid /\ verdict.event_count = Len(v.events)
<1> DEFINE listed == Result("events", v, p)
<1>1. listed = [i \in DOMAIN v.events |->
                  [row |-> v.events[i],
                   replay_count |-> ReplayCount(v, <<v.events[i].payload.kind, p,
                                                     v.events[i].key>>)]]
  BY DEF Result
<1>2. [i \in DOMAIN listed |-> listed[i].row] = [i \in DOMAIN v.events |-> v.events[i]]
  <2> DEFINE count(i) == ReplayCount(v, <<v.events[i].payload.kind, p, v.events[i].key>>)
  <2>1. listed = [i \in DOMAIN v.events |-> [row |-> v.events[i], replay_count |-> count(i)]]
    BY <1>1
  <2> HIDE DEF listed, count
  <2>2. DOMAIN listed = DOMAIN v.events
    BY <2>1
  <2>3. \A i \in DOMAIN v.events : listed[i].row = v.events[i]
    BY <2>1
  <2> QED
    BY <2>2, <2>3
<1>3. [i \in DOMAIN v.events |-> v.events[i]] = v.events
  <2>1. PICK S : v.events \in Seq(S)
    BY DEF EventsSound, IsSequence
  <2> QED
    BY <2>1
<1>4. Faulty(v.events) = {}
  BY DEF Faulty, EventsSound, EventSound
<1>5. VerifyPolicyHistory(v.events).valid
      /\ VerifyPolicyHistory(v.events).event_count = Len(v.events)
  BY <1>4 DEF VerifyPolicyHistory
<1> HIDE DEF listed
<1> QED
  BY <1>2, <1>3, <1>5 DEF listed

LEMMA EveryReport ==
  ASSUME NEW p \in Policies, NEW v, ViewSound(p, v), NEW kind \in Kinds
  PROVE  LET report_ == ReportOf(kind, v, p)
         IN  /\ report_.status = 200
             /\ "history" \in DOMAIN report_ =>
                  report_.history.valid /\ report_.history.event_count = Len(v.events)
             /\ "ledger" \in DOMAIN report_ =>
                  report_.ledger.balanced /\ report_.ledger.transactions = DOMAIN v.events
             /\ "events" \in DOMAIN report_ \/ "action" \in DOMAIN report_ => kind = "state"
<1> DEFINE r == Gathered(kind, Len(Queries(kind)), v, p)
<1>1. EventsSound(v.events) /\ LedgerSound(v.events, v.ledger)
  BY DEF ViewSound, PolicySound
<1>2. CASE kind = "history"
  <2>1. ReportOf(kind, v, p)
        = [status |-> 200,
           history |-> VerifyPolicyHistory([i \in DOMAIN r.events |-> r.events[i].row])]
    BY <1>2 DEF ReportOf, Report
  <2>2. r.events = Result("events", v, p)
    BY <1>2, AllGathered
  <2> HIDE DEF r
  <2> QED
    BY <1>1, <2>1, <2>2, HistoryIsValid
<1>3. CASE kind = "ledger"
  <2>1. ReportOf(kind, v, p)
        = [status |-> 200, ledger |-> SummarizeLedger(r.transactions, r.entries)]
    BY <1>3 DEF ReportOf, Report
  <2>2. r.transactions = Result("transactions", v, p) /\ r.entries = Result("entries", v, p)
    BY <1>3, AllGathered
  <2> HIDE DEF r
  <2> QED
    BY <1>1, <2>1, <2>2, LedgerIsBalanced
<1>4. CASE kind = "state"
  <2>1. /\ ReportOf(kind, v, p).status = 200
        /\ ReportOf(kind, v, p).ledger = SummarizeLedger(r.transactions, r.entries)
        /\ ReportOf(kind, v, p).history =
             VerifyPolicyHistory([i \in DOMAIN r.events |-> r.events[i].row])
    BY <1>4 DEF ReportOf, Report
  <2>2. /\ r.transactions = Result("transactions", v, p) /\ r.entries = Result("entries", v, p)
        /\ r.events = Result("events", v, p)
    BY <1>4, AllGathered
  <2> HIDE DEF r
  <2> QED
    BY <1>1, <1>4, <2>1, <2>2, LedgerIsBalanced, HistoryIsValid
<1> QED
  BY <1>2, <1>3, <1>4 DEF Kinds

LEMMA StateReport ==
  ASSUME NEW p, NEW v
  PROVE  LET state == ReportOf("state", v, p)
         IN  /\ state.premium = v.premium
             /\ DOMAIN state.events = DOMAIN v.events
             /\ \A i \in DOMAIN v.events :
                  /\ state.events[i].payload = v.events[i].payload
                  /\ state.events[i].result =
                       Label(ReplayCount(v, <<v.events[i].payload.kind, p, v.events[i].key>>))
             /\ state.documents = v.documents
             /\ state.payments =
                  {[seq |-> y.seq, amount |-> y.amount,
                    result |-> Label(ReplayCount(v, PaymentSlot(p, y.key)))] : y \in v.payments}
             /\ state.balance = OpenBalance(v.documents, v.payments)
             /\ state.action = SuggestAction(state.balance)
<1> DEFINE r     == Gathered("state", Len(Queries("state")), v, p)
           state == ReportOf("state", v, p)
<1>1. /\ state.premium = r.policy /\ state.documents = r.documents
      /\ state.balance = r.balance /\ state.action = SuggestAction(r.balance)
      /\ state.events = [i \in DOMAIN r.events |->
                           [payload |-> r.events[i].row.payload,
                            result |-> Label(r.events[i].replay_count)]]
      /\ state.payments = {[seq |-> y.row.seq, amount |-> y.row.amount,
                            result |-> Label(y.replay_count)] : y \in r.payments}
  BY DEF ReportOf, Report
<1>2. /\ r.policy = v.premium
      /\ r.events = [i \in DOMAIN v.events |->
                       [row |-> v.events[i],
                        replay_count |-> ReplayCount(v, <<v.events[i].payload.kind, p,
                                                          v.events[i].key>>)]]
      /\ r.documents = v.documents
      /\ r.payments = {[row |-> y, replay_count |-> ReplayCount(v, PaymentSlot(p, y.key))] :
                         y \in v.payments}
      /\ r.balance = OpenBalance(v.documents, v.payments)
  BY AllGathered DEF Result
<1> HIDE DEF r, state
<1>3. state.payments = {[seq |-> y.seq, amount |-> y.amount,
                    result |-> Label(ReplayCount(v, PaymentSlot(p, y.key)))] : y \in v.payments}
  <2> DEFINE count(y)  == ReplayCount(v, PaymentSlot(p, y.key))
             joined(y) == [row |-> y, replay_count |-> count(y)]
             shown(z)  == [seq |-> z.row.seq, amount |-> z.row.amount,
                           result |-> Label(z.replay_count)]
  <2>1. r.payments = {joined(y) : y \in v.payments}
    BY <1>2
  <2>2. state.payments = {shown(z) : z \in r.payments}
    BY <1>1
  <2>3. \A y : shown(joined(y)) = [seq |-> y.seq, amount |-> y.amount, result |-> Label(count(y))]
    <3> HIDE DEF count
    <3> QED
      OBVIOUS
  <2> HIDE DEF joined, shown, count
  <2>4. state.payments = {shown(joined(y)) : y \in v.payments}
    BY <2>1, <2>2
  <2>5. state.payments = {[seq |-> y.seq, amount |-> y.amount, result |-> Label(count(y))] :
                            y \in v.payments}
    BY <2>3, <2>4
  <2> QED
    BY <2>5 DEF count
<1>4. /\ DOMAIN state.events = DOMAIN v.events
      /\ \A i \in DOMAIN v.events :
           /\ state.events[i].payload = v.events[i].payload
           /\ state.events[i].result =
                Label(ReplayCount(v, <<v.events[i].payload.kind, p, v.events[i].key>>))
  <2> DEFINE count(i) == ReplayCount(v, <<v.events[i].payload.kind, p, v.events[i].key>>)
  <2>1. r.events = [i \in DOMAIN v.events |-> [row |-> v.events[i], replay_count |-> count(i)]]
    BY <1>2
  <2> HIDE DEF count
  <2>2. DOMAIN r.events = DOMAIN v.events
    BY <2>1
  <2>3. \A i \in DOMAIN v.events : r.events[i].row = v.events[i] /\ r.events[i].replay_count = count(i)
    BY <2>1
  <2>4. DOMAIN state.events = DOMAIN r.events
    BY <1>1
  <2>5. \A i \in DOMAIN r.events :
          /\ state.events[i].payload = r.events[i].row.payload
          /\ state.events[i].result = Label(r.events[i].replay_count)
    BY <1>1
  <2> QED
    BY <2>2, <2>3, <2>4, <2>5 DEF count
<1> QED
  BY <1>1, <1>2, <1>3, <1>4 DEF state

\* Repeats counted at a moment are those labelled then.
LEMMA LabelsAreRepeats ==
  ASSUME NEW p \in Policies, NEW v, ViewSound(p, v)
  PROVE  RepeatedIn(p, v) = {i \in DOMAIN v.events :
           ReplayCount(v, <<v.events[i].payload.kind, p, v.events[i].key>>) > 0}
<1> DEFINE First(i) == <<v.events[i].payload.kind, p, v.events[i].key>>
<1>1. ASSUME NEW i \in DOMAIN v.events
      PROVE  /\ First(i) \in Slots /\ v.records[First(i)] # NoRecord
             /\ v.records[First(i)].response.seq = i
             /\ ReplayCount(v, First(i)) = v.records[First(i)].replays
  <2>1. /\ First(i) \in Slots /\ v.records[First(i)] # NoRecord
        /\ v.records[First(i)].response.seq = i
        /\ First(i) \in DOMAIN v.records
    BY DEF ViewSound
  <2> QED
    BY <2>1 DEF ReplayCount
<1>2. ASSUME NEW i \in RepeatedIn(p, v) PROVE v.records[First(i)].replays > 0
  <2>1. PICK s \in Slots : /\ s[1] = v.events[i].payload.kind /\ s[2] = p
                           /\ v.records[s] # NoRecord
                           /\ v.records[s].response.seq = i
                           /\ v.records[s].replays > 0 \/ s[3] # v.events[i].key
    BY DEF RepeatedIn
  <2>2. s \in DOMAIN v.records
    BY <2>1 DEF ViewSound
  <2>3. s = <<s[1], s[2], s[3]>>
    BY DEF Slots, SlotOf
  <2>4. CASE s[3] = v.events[i].key
    BY <2>1, <2>3, <2>4
  <2>5. CASE s[3] # v.events[i].key
    BY <2>1, <2>2, <2>5 DEF ViewSound
  <2> QED
    BY <2>4, <2>5
<1>3. ASSUME NEW i \in DOMAIN v.events, v.records[First(i)].replays > 0
      PROVE  i \in RepeatedIn(p, v)
  <2>1. First(i)[1] = v.events[i].payload.kind /\ First(i)[2] = p
    OBVIOUS
  <2> QED
    BY <1>1, <1>3, <2>1 DEF RepeatedIn
<1>4. RepeatedIn(p, v) \subseteq DOMAIN v.events
  BY DEF RepeatedIn
<1> QED
  BY <1>1, <1>2, <1>3, <1>4

-----------------------------------------------------------------------------
\* The life of a read.

\* What was on the books of policy p when the question came in is there: among n
\* events, and those repeated.
Told(told, p, n, repeated) ==
  /\ told.policy = p
  /\ told.events \in Nat /\ told.events <= n
  /\ told.repeated \subseteq repeated

\* A snapshot is of books that were sound, and not from before the question.
TrueView(c, p, v) ==
  /\ ViewSound(p, v)
  /\ RepeatedIn(p, v) \subseteq Repeated(p)
  /\ Told(known[c], p, Len(v.events), RepeatedIn(p, v))

Idle(c) == serving[c] = NoRead /\ snapshot[c] = NoSnapshot /\ rows[c] = << >>

\* A read came in, and no query was sent yet.
Awaiting(c) ==
  /\ serving[c].kind \in Kinds
  /\ snapshot[c] = NoSnapshot /\ rows[c] = << >>
  /\ serving[c].policy \in Policies =>
       Told(known[c], serving[c].policy, Len(events[serving[c].policy]),
            Repeated(serving[c].policy))

\* Its queries so far all saw one and the same view.
Reading(c) ==
  LET kind == serving[c].kind
      p    == serving[c].policy
  IN  /\ kind \in Kinds /\ p \in Policies
      /\ snapshot[c] # NoSnapshot /\ TrueView(c, p, snapshot[c])
      /\ \E n \in 0 .. Len(Queries(kind)) : rows[c] = Gathered(kind, n, snapshot[c], p)

\* An answer given is the report of such a view.
Reported(c) ==
  report[c].status = 200 =>
    \E kind \in Kinds, p \in Policies : \E v : TrueView(c, p, v) /\ report[c] = ReportOf(kind, v, p)

ReadTables ==
  /\ DOMAIN serving = Connections /\ DOMAIN snapshot = Connections
  /\ DOMAIN rows = Connections /\ DOMAIN report = Connections
  /\ DOMAIN known = Connections

ReadsInv ==
  /\ ReadTables
  /\ \A c \in Connections : (Idle(c) \/ Awaiting(c) \/ Reading(c)) /\ Reported(c)

BooksInv == IInv /\ BooksSound /\ CopiesCounted

-----------------------------------------------------------------------------
\* While writes commit.

LEMMA NextKeeps == IInv /\ [Next]_vars => AnswersKept /\ EventsKept
<1> SUFFICES ASSUME IInv, [Next]_vars PROVE AnswersKept /\ EventsKept
  OBVIOUS
<1>1. ASSUME NEW in \in Inputs, ApplyEndorsement(in) PROVE AnswersKept /\ EventsKept
  BY <1>1, EnactKeeps DEF ApplyEndorsement
<1>2. ASSUME NEW in \in Inputs, RecordPayment(in) PROVE AnswersKept /\ EventsKept
  BY <1>2, EnactKeeps DEF RecordPayment
<1>3. ASSUME UNCHANGED events PROVE EventsKept
  BY <1>3 DEF EventsKept, IInv, Tables
<1>4. ASSUME NEW in \in Inputs, ReplayKey(in) PROVE AnswersKept /\ EventsKept
  BY <1>3, <1>4, ReplayKeyKeeps DEF ReplayKey
<1>5. ASSUME NEW in \in Inputs, ReplayExternal(in) PROVE AnswersKept /\ EventsKept
  BY <1>3, <1>5, ReplayExternalKeeps DEF ReplayExternal
<1>6. CASE UNCHANGED vars
  <2>1. \A s \in Slots : Filed(s) => RecordShape(records[s]) /\ records[s].replays \in Nat
    BY DEF IInv, RecordsComplete, RecordShape
  <2>2. \A s \in Slots : Filed(s) => records[s].replays >= records[s].replays
    BY <2>1
  <2>3. records' = records /\ UNCHANGED events
    BY <1>6 DEF vars
  <2>4. AnswersKept
    BY <2>1, <2>2, <2>3 DEF AnswersKept, Filed, IInv, Tables
  <2> QED
    BY <1>3, <2>3, <2>4
<1> QED
  BY <1>1, <1>2, <1>4, <1>5, <1>6 DEF Next

LEMMA NextBooksInv == BooksInv /\ [Next]_vars => BooksInv'
BY NextIInv, NextBooksSound, NextCopies DEF BooksInv

\* Nothing a client was told goes away.
LEMMA OnlyMore ==
  ASSUME IInv, [Next]_vars, NEW p \in Policies
  PROVE  /\ Len(events[p]) \in Nat /\ Len(events'[p]) \in Nat
         /\ Len(events[p]) <= Len(events'[p])
         /\ Repeated(p) \subseteq Repeated(p)'
<1>1. AnswersKept /\ EventsKept
  BY NextKeeps
<1>2. IsSequence(events[p]) /\ IsSequence(events'[p])
  BY <1>1 DEF IInv, Tables, EventsKept
<1>3. /\ Len(events[p]) \in Nat /\ DOMAIN events[p] = 1 .. Len(events[p])
      /\ Len(events'[p]) \in Nat /\ DOMAIN events'[p] = 1 .. Len(events'[p])
  BY <1>2 DEF IsSequence
<1>4. 1 .. Len(events[p]) \subseteq 1 .. Len(events'[p])
  BY <1>1, <1>3 DEF EventsKept
<1>5. Len(events[p]) <= Len(events'[p])
  BY <1>3, <1>4
<1>6. ASSUME NEW i \in Repeated(p) PROVE i \in Repeated(p)'
  <2>1. PICK s \in Slots :
          /\ s[1] = events[p][i].payload.kind /\ s[2] = p
          /\ records[s] # NoRecord
          /\ records[s].response.seq = i
          /\ records[s].replays > 0 \/ s[3] # events[p][i].key
    BY DEF Repeated
  <2>2. i \in DOMAIN events[p] /\ i \in DOMAIN events'[p] /\ events'[p][i] = events[p][i]
    BY <1>1 DEF Repeated, EventsKept
  <2>3. /\ records'[s] # NoRecord /\ records'[s].response = records[s].response
        /\ records'[s].replays >= records[s].replays /\ records'[s].replays \in Nat
        /\ records[s].replays \in Nat
    BY <1>1, <2>1 DEF AnswersKept, RecordShape, Filed, IInv, RecordsComplete
  <2>4. records'[s].replays > 0 \/ s[3] # events'[p][i].key
    BY <2>1, <2>2, <2>3
  <2> QED
    BY <2>1, <2>2, <2>3, <2>4 DEF Repeated
<1> QED
  BY <1>3, <1>5, <1>6

LEMMA WritesKeepReads ==
  BooksInv /\ ReadsInv /\ [Next]_vars /\ UNCHANGED readVars => ReadsInv'
<1> SUFFICES ASSUME BooksInv, ReadsInv, [Next]_vars, UNCHANGED readVars PROVE ReadsInv'
  OBVIOUS
<1>1. \A p \in Policies : /\ Len(events[p]) \in Nat /\ Len(events'[p]) \in Nat
                          /\ Len(events[p]) <= Len(events'[p])
                          /\ Repeated(p) \subseteq Repeated(p)'
  BY OnlyMore DEF BooksInv
<1>2. /\ serving' = serving /\ snapshot' = snapshot /\ rows' = rows
      /\ report' = report /\ known' = known
  BY DEF readVars
<1>3. \A c, p, v : p \in Policies /\ TrueView(c, p, v) => TrueView(c, p, v)'
  BY <1>1, <1>2 DEF TrueView
<1>4. ASSUME NEW c \in Connections PROVE (Idle(c) \/ Awaiting(c) \/ Reading(c))'
  <2>1. CASE Idle(c)
    BY <1>2, <2>1 DEF Idle
  <2>2. CASE Awaiting(c)
    <3>1. ASSUME NEW p \in Policies, p = serving[c].policy
          PROVE  Told(known[c], p, Len(events'[p]), Repeated(p)')
      <4>1. /\ known[c].policy = p
            /\ known[c].events \in Nat /\ known[c].events <= Len(events[p])
            /\ known[c].repeated \subseteq Repeated(p)
        BY <2>2, <3>1 DEF Awaiting, Told
      <4>2. /\ Len(events[p]) \in Nat /\ Len(events'[p]) \in Nat
            /\ Len(events[p]) <= Len(events'[p]) /\ Repeated(p) \subseteq Repeated(p)'
        BY <1>1, <3>1
      <4>3. known[c].events <= Len(events'[p])
        BY <4>1, <4>2
      <4> QED
        BY <4>1, <4>2, <4>3 DEF Told
    <3> QED
      BY <1>2, <2>2, <3>1 DEF Awaiting
  <2>3. CASE Reading(c)
    BY <1>2, <1>3, <2>3 DEF Reading
  <2> QED
    BY <2>1, <2>2, <2>3 DEF ReadsInv
<1>5. ASSUME NEW c \in Connections PROVE Reported(c)'
  BY <1>2, <1>3 DEF ReadsInv, Reported
<1>6. ReadTables'
  BY <1>2 DEF ReadsInv, ReadTables
<1> QED
  BY <1>4, <1>5, <1>6 DEF ReadsInv

-----------------------------------------------------------------------------
\* The steps of a read, each on its own connection.

\* What a step of connection c leaves of the others.
OthersKept(c) ==
  \A d \in Connections : d # c =>
    /\ serving'[d] = serving[d] /\ snapshot'[d] = snapshot[d] /\ rows'[d] = rows[d]
    /\ report'[d] = report[d] /\ known'[d] = known[d]

LEMMA OneConnection ==
  ASSUME ReadsInv, UNCHANGED vars, NEW c \in Connections, OthersKept(c), ReadTables',
         (Idle(c) \/ Awaiting(c) \/ Reading(c))', Reported(c)'
  PROVE  ReadsInv'
<1>1. UNCHANGED events /\ \A p : Repeated(p)' = Repeated(p)
  BY DEF vars, Repeated
<1>2. ASSUME NEW d \in Connections, d # c
      PROVE  (Idle(d) \/ Awaiting(d) \/ Reading(d))' /\ Reported(d)'
  <2>1. /\ serving'[d] = serving[d] /\ snapshot'[d] = snapshot[d] /\ rows'[d] = rows[d]
        /\ report'[d] = report[d] /\ known'[d] = known[d]
    BY <1>2 DEF OthersKept
  <2>2. \A p, v : TrueView(d, p, v) => TrueView(d, p, v)'
    BY <1>1, <2>1 DEF TrueView
  <2>3. Reported(d)'
    BY <2>1, <2>2 DEF ReadsInv, Reported
  <2>4. CASE Idle(d)
    BY <2>1, <2>3, <2>4 DEF Idle
  <2>5. CASE Awaiting(d)
    BY <1>1, <2>1, <2>3, <2>5 DEF Awaiting
  <2>6. CASE Reading(d)
    BY <2>1, <2>2, <2>3, <2>6 DEF Reading
  <2> QED
    BY <2>3, <2>4, <2>5, <2>6 DEF ReadsInv
<1> QED
  BY <1>2 DEF ReadsInv

\* The shape of a transaction's end.
LEMMA EndOfRead ==
  ASSUME ReadsInv, UNCHANGED vars, NEW c \in Connections, NEW answer, EndRead(c, answer),
         answer.status = 200 =>
           \E kind \in Kinds, p \in Policies : \E v :
             TrueView(c, p, v) /\ answer = ReportOf(kind, v, p)
  PROVE  ReadsInv'
<1>1. ReadTables
  BY DEF ReadsInv
<1>2. /\ serving'[c] = NoRead /\ snapshot'[c] = NoSnapshot /\ rows'[c] = << >>
      /\ report'[c] = answer
      /\ answer.status = 200 => known'[c] = known[c]
  BY <1>1 DEF EndRead, ReadTables
<1>3. OthersKept(c) /\ ReadTables'
  BY <1>1 DEF EndRead, ReadTables, OthersKept
<1>4. Idle(c)'
  BY <1>2 DEF Idle
<1>5. Reported(c)'
  <2>1. SUFFICES ASSUME answer.status = 200 PROVE Reported(c)'
    BY <1>2 DEF Reported
  <2>2. \A p : Repeated(p)' = Repeated(p)
    BY DEF vars, Repeated
  <2>3. \A p, v : TrueView(c, p, v) => TrueView(c, p, v)'
    BY <1>2, <2>1, <2>2 DEF TrueView
  <2> QED
    BY <1>2, <2>1, <2>3 DEF Reported
<1> QED
  BY <1>3, <1>4, <1>5, OneConnection

LEMMA BeginReadInv ==
  ASSUME BooksInv, ReadsInv, UNCHANGED vars, NEW c \in Connections, NEW read \in Reads,
         BeginRead(c, read)
  PROVE  ReadsInv'
<1>1. ReadTables
  BY DEF ReadsInv
<1>2. /\ serving'[c] = read /\ snapshot'[c] = snapshot[c] /\ rows'[c] = rows[c]
      /\ report'[c] = NoReport
      /\ read.policy \in Policies =>
           known'[c] = [policy |-> read.policy, events |-> Len(events[read.policy]),
                        repeated |-> Repeated(read.policy)]
  BY <1>1 DEF BeginRead, ReadTables
<1>3. OthersKept(c) /\ ReadTables'
  BY <1>1 DEF BeginRead, ReadTables, OthersKept
<1>4. read.kind \in Kinds
  BY ReadsAssumption DEF Kinds
<1>5. Idle(c)
  <2>1. serving[c] = NoRead /\ NoRead.kind \notin Kinds
    BY DEF BeginRead, NoRead, Kinds
  <2> QED
    BY <2>1 DEF ReadsInv, Awaiting, Reading
<1>6. ASSUME NEW p \in Policies, p = read.policy
      PROVE  Told(known'[c], p, Len(events'[p]), Repeated(p)')
  <2>1. /\ known'[c].policy = p /\ known'[c].events = Len(events[p])
        /\ known'[c].repeated = Repeated(p)
    BY <1>2, <1>6
  <2>2. Len(events[p]) \in Nat
    BY DEF BooksInv, IInv, Tables, IsSequence
  <2>3. Repeated(p)' = Repeated(p) /\ events' = events
    BY DEF vars, Repeated
  <2> QED
    BY <2>1, <2>2, <2>3 DEF Told
<1>7. Awaiting(c)'
  BY <1>2, <1>4, <1>5, <1>6 DEF Idle, Awaiting
<1>8. Reported(c)'
  BY <1>2 DEF Reported, NoReport
<1> QED
  BY <1>3, <1>7, <1>8, OneConnection

LEMMA FindPolicyInv ==
  ASSUME BooksInv, ReadsInv, UNCHANGED vars, NEW c \in Connections, FindPolicy(c)
  PROVE  ReadsInv'
<1>1. ReadTables /\ serving[c] # NoRead /\ snapshot[c] = NoSnapshot
  BY DEF ReadsInv, FindPolicy
<1>2. Awaiting(c)
  BY <1>1 DEF ReadsInv, Idle, Reading
<1>3. CASE serving[c].policy \notin Policies
  <2>1. EndRead(c, [status |-> 404])
    BY <1>3 DEF FindPolicy
  <2> QED
    BY <2>1, EndOfRead
<1>4. ASSUME NEW p \in Policies, p = serving[c].policy PROVE ReadsInv'
  <2>1. /\ serving'[c] = serving[c] /\ snapshot'[c] = View(p)
        /\ rows'[c] = With(rows[c], "policy", premium[p])
        /\ report'[c] = report[c] /\ known'[c] = known[c]
    BY <1>1, <1>4 DEF FindPolicy, ReadTables
  <2>2. OthersKept(c) /\ ReadTables'
    BY <1>1, <1>4 DEF FindPolicy, ReadTables, OthersKept
  <2>3. View(p) # NoSnapshot /\ View(p).premium = premium[p] /\ View(p).events = events[p]
    <3>1. "tables" \notin DOMAIN View(p) /\ "tables" \in DOMAIN NoSnapshot
      BY DEF View, NoSnapshot
    <3> QED
      BY <3>1 DEF View
  <2>4. ViewSound(p, View(p)) /\ RepeatedIn(p, View(p)) = Repeated(p)
    BY ViewIsSound DEF BooksInv
  <2>5. \A q : Repeated(q)' = Repeated(q)
    BY DEF vars, Repeated
  <2>6. Told(known[c], p, Len(events[p]), Repeated(p))
    BY <1>2, <1>4 DEF Awaiting
  <2> DEFINE v == View(p)
  <2> HIDE DEF v
  <2>7. \A w : w = v => TrueView(c, p, w)'
    BY <2>1, <2>3, <2>4, <2>5, <2>6 DEF TrueView, v
  <2>8. With(rows[c], "policy", premium[p]) = Gathered(serving[c].kind, 0, v, p)
    <3>1. rows[c] = << >>
      BY <1>2 DEF Awaiting
    <3>2. DOMAIN rows[c] = {}
      BY <3>1
    <3>3. Asked(serving[c].kind, 0) = {}
      BY DEF Asked
    <3> QED
      BY <2>3, <3>2, <3>3 DEF With, Gathered, v
  <2>9. 0 \in 0 .. Len(Queries(serving[c].kind))
    BY <1>2, QueriesDiffer DEF Awaiting
  <2>10. Reading(c)'
    <3>1. serving'[c].kind \in Kinds /\ serving'[c].policy = p /\ snapshot'[c] = v
      BY <1>2, <1>4, <2>1 DEF Awaiting, v
    <3>2. snapshot'[c] # NoSnapshot
      BY <2>1, <2>3
    <3>3. TrueView(c, serving[c].policy, snapshot[c])'
      BY <2>7, <3>1
    <3> QED
      BY <2>1, <2>8, <2>9, <3>1, <3>2, <3>3 DEF Reading
  <2>11. Reported(c)'
    <3>1. \A q, w : TrueView(c, q, w) => TrueView(c, q, w)'
      BY <2>1, <2>5 DEF TrueView
    <3> QED
      BY <2>1, <3>1 DEF ReadsInv, Reported
  <2> QED
    BY <2>2, <2>10, <2>11, OneConnection
<1> QED
  BY <1>3, <1>4

LEMMA ListInv ==
  ASSUME ReadsInv, UNCHANGED vars, NEW c \in Connections, List(c)
  PROVE  ReadsInv'
<1>1. ReadTables /\ serving[c] # NoRead /\ snapshot[c] # NoSnapshot
  BY DEF ReadsInv, List
<1>2. Reading(c)
  BY <1>1 DEF ReadsInv, Idle, Awaiting
<1>3. PICK kind \in Kinds, p \in Policies, v \in {snapshot[c]} :
        /\ kind = serving[c].kind /\ p = serving[c].policy /\ v = snapshot[c]
        /\ v # NoSnapshot /\ TrueView(c, p, v)
  BY <1>2 DEF Reading
<1>4. PICK n \in 0 .. Len(Queries(kind)) : rows[c] = Gathered(kind, n, v, p)
  BY <1>2, <1>3 DEF Reading
<1>5. Sent(c) = n
  BY <1>4, AskedCount DEF Sent
<1>6. n < Len(Queries(kind)) /\ n + 1 \in 0 .. Len(Queries(kind))
  <2>1. n < Len(Queries(kind)) /\ Len(Queries(kind)) \in Nat
    BY <1>3, <1>5, QueriesDiffer DEF List
  <2> QED
    BY <2>1
<1>7. /\ rows' = [rows EXCEPT ![c] = With(rows[c], Queries(kind)[n + 1],
                                          Result(Queries(kind)[n + 1], v, p))]
      /\ UNCHANGED <<serving, snapshot, report, known>>
  BY <1>3, <1>5 DEF List, Visible
<1>8. rows'[c] = Gathered(kind, n + 1, v, p)
  <2>1. With(rows[c], Queries(kind)[n + 1], Result(Queries(kind)[n + 1], v, p))
          = Gathered(kind, n + 1, v, p)
    BY <1>4, <1>6, GatheredNext
  <2> QED
    BY <1>1, <1>7, <2>1 DEF ReadTables
<1>9. OthersKept(c) /\ ReadTables'
  BY <1>1, <1>7 DEF ReadTables, OthersKept
<1>10. \A q, w : TrueView(c, q, w) => TrueView(c, q, w)'
  <2>1. \A q : Repeated(q)' = Repeated(q)
    BY DEF vars, Repeated
  <2> QED
    BY <1>7, <2>1 DEF TrueView
<1>11. Reading(c)'
  BY <1>3, <1>6, <1>7, <1>8, <1>10 DEF Reading
<1>12. Reported(c)'
  BY <1>7, <1>10 DEF ReadsInv, Reported
<1> QED
  BY <1>9, <1>11, <1>12, OneConnection

LEMMA AnswerReadInv ==
  ASSUME ReadsInv, UNCHANGED vars, NEW c \in Connections, AnswerRead(c)
  PROVE  ReadsInv'
<1>1. serving[c] # NoRead /\ snapshot[c] # NoSnapshot
  BY DEF AnswerRead
<1>2. Reading(c)
  BY <1>1 DEF ReadsInv, Idle, Awaiting
<1>3. PICK kind \in Kinds, p \in Policies, v \in {snapshot[c]} :
        /\ kind = serving[c].kind /\ p = serving[c].policy /\ v = snapshot[c]
        /\ TrueView(c, p, v)
  BY <1>2 DEF Reading
<1>4. PICK n \in 0 .. Len(Queries(kind)) : rows[c] = Gathered(kind, n, v, p)
  BY <1>2, <1>3 DEF Reading
<1>5. Sent(c) = n
  BY <1>4, AskedCount DEF Sent
<1>6. n = Len(Queries(kind))
  BY <1>3, <1>5 DEF AnswerRead
<1>7. EndRead(c, ReportOf(kind, v, p))
  BY <1>3, <1>4, <1>6 DEF AnswerRead, ReportOf
<1> QED
  BY <1>3, <1>7, EndOfRead

LEMMA ReadStepInv == BooksInv /\ ReadsInv /\ ReadStep /\ UNCHANGED vars => ReadsInv'
<1> SUFFICES ASSUME BooksInv, ReadsInv, UNCHANGED vars, ReadStep PROVE ReadsInv'
  OBVIOUS
<1> PICK c \in Connections : \/ \E read \in Reads : BeginRead(c, read)
                             \/ FindPolicy(c) \/ List(c) \/ AnswerRead(c) \/ FailRead(c)
  BY DEF ReadStep
<1>1. CASE FailRead(c)
  <2>1. EndRead(c, [status |-> 500])
    BY <1>1 DEF FailRead
  <2> QED
    BY <2>1, EndOfRead
<1> QED
  BY <1>1, BeginReadInv, FindPolicyInv, ListInv, AnswerReadInv

-----------------------------------------------------------------------------
\* Of every execution.

THEOREM ReadsInvariant == ReadsSpec => [](BooksInv /\ ReadsInv)
<1>1. ReadsInit => BooksInv /\ ReadsInv
  <2> SUFFICES ASSUME Init, ReadInit PROVE BooksInv /\ ReadsInv
    BY DEF ReadsInit
  <2>1. CopiesCounted
    BY DEF Init, CopiesCounted, Filed
  <2>2. BooksInv
    BY <2>1, InitIInv, InitBooksSound DEF BooksInv
  <2>3. ReadTables /\ \A c \in Connections : Idle(c) /\ report[c].status = 0
    BY DEF ReadInit, ReadTables, Idle, NoReport
  <2> QED
    BY <2>2, <2>3 DEF ReadsInv, Reported
<1>2. BooksInv /\ ReadsInv /\ [ReadsNext]_<<vars, readVars>> => (BooksInv /\ ReadsInv)'
  <2> SUFFICES ASSUME BooksInv, ReadsInv, [ReadsNext]_<<vars, readVars>>
               PROVE  BooksInv' /\ ReadsInv'
    OBVIOUS
  <2>1. CASE Next /\ UNCHANGED readVars
    BY <2>1, NextBooksInv, WritesKeepReads
  <2>2. CASE ReadStep /\ UNCHANGED vars
    BY <2>2, NextBooksInv, ReadStepInv
  <2>3. CASE UNCHANGED <<vars, readVars>>
    BY <2>3, NextBooksInv, WritesKeepReads
  <2> QED
    BY <2>1, <2>2, <2>3 DEF ReadsNext
<1> QED
  BY <1>1, <1>2, PTL DEF ReadsSpec

\* No report is from before its question: what was on the books then is in it.
THEOREM FreshReports == ReadsSpec => []ReportsAreFresh
<1>1. ReadsInv => ReportsAreFresh
  <2> SUFFICES ASSUME ReadsInv, NEW c \in Connections, report[c].status = 200
               PROVE  /\ "history" \in DOMAIN report[c] =>
                           report[c].history.event_count >= known[c].events
                      /\ "ledger" \in DOMAIN report[c] =>
                           Cardinality(report[c].ledger.transactions) >= known[c].events
    BY DEF ReportsAreFresh
  <2>1. PICK kind, p, v : /\ kind \in Kinds /\ p \in Policies /\ TrueView(c, p, v)
                        /\ report[c] = ReportOf(kind, v, p)
    BY DEF ReadsInv, Reported
  <2>2. ViewSound(p, v) /\ known[c].events \in Nat /\ known[c].events <= Len(v.events)
    BY <2>1 DEF TrueView, Told
  <2>3. Len(v.events) \in Nat /\ DOMAIN v.events = 1 .. Len(v.events)
    BY <2>2 DEF ViewSound, PolicySound, EventsSound, IsSequence
  <2>4. Cardinality(1 .. Len(v.events)) = Len(v.events)
    <3>1. \A n \in Nat : Cardinality(1 .. n) = n
      BY FS_Interval
    <3> QED
      BY <2>3, <3>1
  <2>5. /\ "history" \in DOMAIN report[c] => report[c].history.event_count = Len(v.events)
        /\ "ledger" \in DOMAIN report[c] => report[c].ledger.transactions = DOMAIN v.events
    BY <2>1, <2>2, EveryReport
  <2> QED
    BY <2>2, <2>3, <2>4, <2>5
<1> QED
  BY <1>1, ReadsInvariant, PTL

\* No report calls the service's own books unbalanced or its history invalid,
\* and it suggests to collect exactly when a listed document is open.
THEOREM FaultlessReports == ReadsSpec => []ReportsFindNoFault
<1>1. ReadsInv => ReportsFindNoFault
  <2> SUFFICES ASSUME ReadsInv, NEW c \in Connections, report[c].status = 200
               PROVE  /\ "ledger" \in DOMAIN report[c] => report[c].ledger.balanced
                      /\ "history" \in DOMAIN report[c] => report[c].history.valid
                      /\ "action" \in DOMAIN report[c] =>
                           (report[c].action = "collect" <=>
                              \E d \in report[c].documents : d.status = "open")
    BY DEF ReportsFindNoFault
  <2>1. PICK kind, p, v : /\ kind \in Kinds /\ p \in Policies /\ TrueView(c, p, v)
                        /\ report[c] = ReportOf(kind, v, p)
    BY DEF ReadsInv, Reported
  <2>2. ViewSound(p, v)
    BY <2>1 DEF TrueView
  <2>3. /\ "history" \in DOMAIN report[c] => report[c].history.valid
        /\ "ledger" \in DOMAIN report[c] => report[c].ledger.balanced
        /\ "action" \in DOMAIN report[c] => kind = "state"
    BY <2>1, <2>2, EveryReport
  <2>4. ASSUME kind = "state"
        PROVE  report[c].action = "collect" <=> \E d \in report[c].documents : d.status = "open"
    <3> DEFINE balance == OpenBalance(v.documents, v.payments)
    <3>1. /\ report[c].documents = v.documents
          /\ report[c].action = SuggestAction(balance)
      BY <2>1, <2>4, StateReport
    <3>2. /\ EventsSound(v.events) /\ DocumentsSound(v.events, v.documents)
          /\ PaymentsSound(v.events, v.payments) /\ Covered(v.documents, balance)
      BY <2>2 DEF ViewSound, PolicySound
    <3>3. /\ IsFiniteSet(v.documents) /\ \A d \in v.documents : d.amount \in Int
          /\ \A d \in v.documents : d.status = "open" => d.amount > 0
      BY <3>2, DocumentAmounts DEF DocumentsSound, DocumentSound
    <3>4. \A y \in v.payments : y.amount \in Int
      BY <3>2, PaymentAmounts
    <3>5. balance \in Int
      <4>1. Total(v.documents) \in Int
        BY <3>3, TotalInt
      <4>2. Total(v.payments) \in Int
        BY <3>2, <3>4, TotalInt DEF PaymentsSound
      <4> QED
        BY <4>1, <4>2 DEF OpenBalance
    <3> HIDE DEF balance
    <3>6. Payable(v.documents) = {d \in v.documents : d.status = "open"}
      BY <3>3 DEF Payable
    <3>7. CASE balance <= 0
      <4>1. Payable(v.documents) = {}
        BY <3>2, <3>7 DEF Covered
      <4>2. ~ (balance > 0)
        BY <3>5, <3>7
      <4>3. SuggestAction(balance) # "collect"
        BY <4>2 DEF SuggestAction
      <4> QED
        BY <3>1, <3>6, <4>1, <4>3
    <3>8. CASE balance > 0
      <4>1. Total({}) = 0
        BY SumEmpty DEF Total
      <4>2. Total(Payable(v.documents)) >= balance
        BY <3>2, <3>5, <3>8 DEF Covered
      <4>3. Payable(v.documents) # {}
        BY <3>5, <3>8, <4>1, <4>2
      <4> QED
        BY <3>1, <3>6, <3>8, <4>3 DEF SuggestAction
    <3> QED
      BY <3>5, <3>7, <3>8
  <2> QED
    BY <2>3, <2>4
<1> QED
  BY <1>1, ReadsInvariant, PTL

\* A full report is of one moment of the books: each event in it has its
\* transaction and its document or payment, and nothing else is listed; the
\* premium is that of the last endorsement, and the balance the database
\* summed is that of the documents and payments listed.
THEOREM ReportsAreWhole == ReadsSpec => []ReportsAddUp
<1>1. ASSUME ReadsInv, NEW c \in StateReports
      PROVE  LET r == report[c]
                 Among(kind) == {i \in DOMAIN r.events : r.events[i].payload.kind = kind}
             IN  /\ {d.seq : d \in r.documents} = Among("endorsement")
                 /\ {y.seq : y \in r.payments} = Among("payment")
                 /\ r.ledger.transactions = DOMAIN r.events
                 /\ r.balance = Total(r.documents) - Total(r.payments)
                 /\ Among("endorsement") # {} =>
                      r.premium = r.events[Max(Among("endorsement"))].payload.new
  <2>1. c \in Connections /\ report[c].status = 200 /\ "events" \in DOMAIN report[c]
    BY DEF StateReports
  <2>2. PICK kind, p, v : /\ kind \in Kinds /\ p \in Policies /\ TrueView(c, p, v)
                        /\ report[c] = ReportOf(kind, v, p)
    BY <1>1, <2>1 DEF ReadsInv, Reported
  <2>3. ViewSound(p, v)
    BY <2>2 DEF TrueView
  <2>4. kind = "state"
    BY <2>1, <2>2, <2>3, EveryReport
  <2>5. PICK r : r = report[c]
    OBVIOUS
  <2> DEFINE count(y) == ReplayCount(v, PaymentSlot(p, y.key))
             shown(y) == [seq |-> y.seq, amount |-> y.amount, result |-> Label(count(y))]
             charges  == {i \in DOMAIN r.events : r.events[i].payload.kind = "endorsement"}
             receipts == {i \in DOMAIN r.events : r.events[i].payload.kind = "payment"}
  <2>6. /\ r.premium = v.premium /\ DOMAIN r.events = DOMAIN v.events
        /\ \A i \in DOMAIN v.events : r.events[i].payload = v.events[i].payload
        /\ r.documents = v.documents /\ r.payments = {shown(y) : y \in v.payments}
        /\ r.balance = OpenBalance(v.documents, v.payments)
    <3>1. r = ReportOf("state", v, p)
      BY <2>2, <2>4, <2>5
    <3>2. r.payments = {shown(y) : y \in v.payments}
      BY <3>1, StateReport
    <3> HIDE DEF shown, count
    <3>3. /\ r.premium = v.premium /\ DOMAIN r.events = DOMAIN v.events
          /\ r.documents = v.documents
      BY <3>1, StateReport
    <3>4. \A i \in DOMAIN v.events :
            /\ r.events[i].payload = v.events[i].payload
            /\ r.events[i].result =
                 Label(ReplayCount(v, <<v.events[i].payload.kind, p, v.events[i].key>>))
      BY <3>1, StateReport
    <3>5. r.balance = OpenBalance(v.documents, v.payments)
      BY <3>1, StateReport
    <3> QED
      BY <3>2, <3>3, <3>4, <3>5
  <2>7. r.ledger.transactions = DOMAIN v.events
    <3>1. "ledger" \in DOMAIN ReportOf("state", v, p)
      BY DEF ReportOf, Report
    <3> QED
      BY <2>2, <2>3, <2>4, <2>5, <3>1, EveryReport
  <2> HIDE DEF count
  <2>8. charges = Of(v.events, "endorsement") /\ receipts = Of(v.events, "payment")
    BY <2>6 DEF Of
  <2>9. /\ EventsSound(v.events) /\ DocumentsSound(v.events, v.documents)
        /\ PaymentsSound(v.events, v.payments) /\ PremiumsSound(p, v.premium, v.events)
    BY <2>3 DEF ViewSound, PolicySound
  <2>10. {d.seq : d \in r.documents} = charges
    BY <2>6, <2>8, <2>9 DEF DocumentsSound, DocumentSound
  <2>11. v.payments = {Payment(v.events[i]) : i \in receipts} /\ IsFiniteSet(v.payments)
    BY <2>8, <2>9 DEF PaymentsSound
  <2>12. \A i \in receipts : /\ Payment(v.events[i]).seq = i
                             /\ Payment(v.events[i]).amount \in Int
    BY <2>8, <2>9 DEF Payment, Of, EventsSound, EventSound, RowSound
  <2>13. {y.seq : y \in r.payments} = receipts
    <3>1. \A y : shown(y).seq = y.seq
      OBVIOUS
    <3> HIDE DEF shown, receipts
    <3>2. {y.seq : y \in r.payments} = {y.seq : y \in v.payments}
      BY <2>6, <3>1
    <3>3. {y.seq : y \in v.payments} = receipts
      BY <2>11, <2>12
    <3> QED
      BY <3>2, <3>3
  <2>14. Total(r.payments) = Total(v.payments)
    <3>1. \A y : shown(y).seq = y.seq /\ shown(y).amount = y.amount
      OBVIOUS
    <3> HIDE DEF shown, receipts
    <3>2. /\ \A y \in v.payments : y.amount \in Int
          /\ \A y, z \in v.payments : y.seq = z.seq => y = z
      BY <2>11, <2>12
    <3> DEFINE phi == [y \in v.payments |-> shown(y)]
               f == [y \in v.payments |-> y.amount]
               g == [z \in r.payments |-> z.amount]
    <3>3. phi \in [v.payments -> r.payments] /\ f \in [v.payments -> Int]
      BY <2>6, <3>2
    <3>4. g \in [r.payments -> Int] /\ \A y \in v.payments : g[phi[y]] = f[y]
      BY <2>6, <3>1, <3>2
    <3>5. /\ \A y, z \in v.payments : phi[y] = phi[z] => y = z
          /\ \A z \in r.payments : \E y \in v.payments : phi[y] = z
      BY <2>6, <3>1, <3>2
    <3> HIDE DEF phi, f, g
    <3>6. SumFunction(f) = SumFunction(g)
      <4>1. IsFiniteSet(v.payments)
        BY <2>11
      <4> QED
        BY <3>3, <3>4, <3>5, <4>1, SumReindexed
    <3> QED
      BY <3>6 DEF Total, f, g
  <2>15. ASSUME charges # {} PROVE r.premium = r.events[Max(charges)].payload.new
    <3>1. DOMAIN v.events = 1 .. Len(v.events) /\ Len(v.events) \in Nat
      BY <2>9 DEF EventsSound, IsSequence
    <3>2. charges \subseteq 1 .. Len(v.events)
      BY <2>6, <3>1
    <3> DEFINE earlier == {j \in DOMAIN v.events :
                             j < Len(v.events) + 1 /\ v.events[j].payload.kind = "endorsement"}
    <3>3. earlier = charges
      BY <2>8, <3>1 DEF Of
    <3>4. v.premium = IF earlier = {} THEN Contract[p].premium
                      ELSE v.events[Max(earlier)].payload.new
      BY <2>9 DEF PremiumsSound, PremiumBefore
    <3> HIDE DEF earlier, charges
    <3>5. Max(charges) \in charges
      <4>1. IsFiniteSet(1 .. Len(v.events))
        BY <3>1, FS_Interval
      <4>2. IsFiniteSet(charges) /\ charges \subseteq Int
        <5>1. charges \in SUBSET (1 .. Len(v.events))
          BY <3>2
        <5>2. IsFiniteSet(charges)
          BY <4>1, <5>1, FS_Subset
        <5> QED
          BY <3>1, <5>1, <5>2
      <4>3. PICK m \in charges : \A x \in charges : x <= m
        BY <2>15, <4>2, FiniteMax
      <4>4. Max(charges) = m
        BY <4>2, <4>3, MaxIs
      <4> QED
        BY <4>3, <4>4
    <3>6. Max(charges) \in DOMAIN v.events
      BY <3>1, <3>2, <3>5
    <3> QED
      BY <2>6, <2>15, <3>3, <3>4, <3>6
  <2> HIDE DEF shown
  <2>16. r.balance = Total(r.documents) - Total(r.payments)
    BY <2>6, <2>14 DEF OpenBalance
  <2> QED
    BY <2>5, <2>6, <2>7, <2>10, <2>13, <2>15, <2>16
<1>2. ReadsInv => ReportsAddUp
  BY <1>1 DEF ReportsAddUp
<1> QED
  BY <1>2, ReadsInvariant, PTL

\* What a full report says of repeats is true: all that were known when the
\* question came in are labelled, nothing else is, and a payment and its event
\* bear the same label.
THEOREM TruthfulLabels == ReadsSpec => []LabelsTruthful
<1>1. ASSUME ReadsInv, NEW c \in StateReports
      PROVE  LET labelled == {i \in DOMAIN report[c].events :
                                report[c].events[i].result = "duplicate ignored"}
                 paidTwice == {y.seq : y \in {z \in report[c].payments :
                                                z.result = "duplicate ignored"}}
             IN  /\ known[c].repeated \subseteq labelled
                 /\ labelled \subseteq Repeated(known[c].policy)
                 /\ paidTwice = {i \in labelled : report[c].events[i].payload.kind = "payment"}
  <2>1. c \in Connections /\ report[c].status = 200 /\ "events" \in DOMAIN report[c]
    BY DEF StateReports
  <2>2. PICK kind, p, v : /\ kind \in Kinds /\ p \in Policies /\ TrueView(c, p, v)
                        /\ report[c] = ReportOf(kind, v, p)
    BY <1>1, <2>1 DEF ReadsInv, Reported
  <2>3. ViewSound(p, v)
    BY <2>2 DEF TrueView
  <2>4. kind = "state"
    BY <2>1, <2>2, <2>3, EveryReport
  <2>5. PICK r : r = report[c]
    OBVIOUS
  <2> DEFINE count(y)  == ReplayCount(v, PaymentSlot(p, y.key))
             shown(y)  == [seq |-> y.seq, amount |-> y.amount, result |-> Label(count(y))]
             replay(i) == ReplayCount(v, <<v.events[i].payload.kind, p, v.events[i].key>>)
             labelled  == {i \in DOMAIN r.events : r.events[i].result = "duplicate ignored"}
             twice     == {z \in r.payments : z.result = "duplicate ignored"}
  <2>6. /\ DOMAIN r.events = DOMAIN v.events
        /\ \A i \in DOMAIN v.events :
             r.events[i].payload = v.events[i].payload /\ r.events[i].result = Label(replay(i))
        /\ r.payments = {shown(y) : y \in v.payments}
    BY <2>2, <2>4, <2>5, StateReport
  <2>7. RepeatedIn(p, v) = {i \in DOMAIN v.events : replay(i) > 0}
    BY <2>2, <2>3, LabelsAreRepeats
  <2>8. \A n : Label(n) = "duplicate ignored" <=> n > 0
    BY DEF Label
  <2>9. \A i \in Of(v.events, "payment") :
          Payment(v.events[i]).seq = i /\ count(Payment(v.events[i])) = replay(i)
    BY <2>3 DEF ViewSound, PolicySound, EventsSound, EventSound, RowSound, Payment, Of, PaymentSlot
  <2>10. v.payments = {Payment(v.events[i]) : i \in Of(v.events, "payment")}
    BY <2>3 DEF ViewSound, PolicySound, PaymentsSound
  <2> HIDE DEF count, replay
  <2>11. labelled = RepeatedIn(p, v)
    BY <2>6, <2>7, <2>8
  <2>12. {y.seq : y \in twice} = {i \in labelled : r.events[i].payload.kind = "payment"}
    <3>1. \A y : /\ shown(y).seq = y.seq
                 /\ shown(y).result = "duplicate ignored" <=> count(y) > 0
      BY <2>8
    <3>2. twice = {shown(y) : y \in {z \in v.payments : count(z) > 0}}
      <4> HIDE DEF shown
      <4> QED
        BY <2>6, <3>1
    <3> HIDE DEF shown, twice
    <3>3. {y.seq : y \in twice} = {y.seq : y \in {z \in v.payments : count(z) > 0}}
      <4> DEFINE again == {z \in v.payments : count(z) > 0}
      <4>1. twice = {shown(y) : y \in again}
        BY <3>2
      <4> HIDE DEF again
      <4>2. \A n : n \in {y.seq : y \in twice} <=> n \in {y.seq : y \in again}
        BY <3>1, <4>1
      <4>3. {y.seq : y \in twice} = {y.seq : y \in again}
        BY <4>2
      <4> QED
        BY <4>3 DEF again
    <3>4. {y.seq : y \in {z \in v.payments : count(z) > 0}}
            = {i \in Of(v.events, "payment") : replay(i) > 0}
      BY <2>9, <2>10
    <3>5. {i \in labelled : r.events[i].payload.kind = "payment"}
            = {i \in Of(v.events, "payment") : replay(i) > 0}
      BY <2>6, <2>7, <2>11 DEF Of
    <3> QED
      BY <3>3, <3>4, <3>5
  <2>13. /\ known[c].repeated \subseteq RepeatedIn(p, v)
         /\ RepeatedIn(p, v) \subseteq Repeated(p)
         /\ known[c].policy = p
    BY <2>2 DEF TrueView, Told
  <2> HIDE DEF shown
  <2> QED
    BY <2>2, <2>5, <2>11, <2>12, <2>13
<1>2. ReadsInv => LabelsTruthful
  BY <1>1 DEF LabelsTruthful
<1> QED
  BY <1>2, ReadsInvariant, PTL
=============================================================================
