------------------------- MODULE ConnectionPoolProofs -------------------------
(***************************************************************************)
(* Proofs about ConnectionPool, for any clients, limit and number of       *)
(* losses.  The invariant says who waits in the line, who holds the row,   *)
(* and that everybody the end of the process could reach has met a loss.   *)
(***************************************************************************)
EXTENDS ConnectionPool, FiniteSetTheorems, TLAPS

\* Whoever is in the line waits, and is there once.
LineWaits ==
  /\ line \in Seq(Clients)
  /\ \A i \in 1..Len(line) : stage[line[i]] = "waiting"
  /\ \A i, j \in 1..Len(line) : line[i] = line[j] => i = j

\* Connections are held at the stages that use one, and the row, if one of the
\* clients has it, by one that is past findPolicyForUpdate.
HoldersFollowStages ==
  /\ stage \in [Clients -> Stages]
  /\ holding = {r \in Clients : stage[r] \in {"granted", "locked"}}
  /\ row \in Clients \cup {None, Outsider}
  /\ row \in Clients => stage[row] = "locked" /\ Kind[row] = "write"

\* While the database is away, or a connection in use is lost and the process
\* has not been told, everybody under way has met that loss; and so did whoever
\* failed or was cut off.
LossesAreKnown ==
  /\ reply \in [Clients -> Replies]
  /\ broken \subseteq holding
  /\ (~ up \/ broken # {}) => UnderWay \subseteq affected
  /\ \A r \in Clients : reply[r] \in {"failed", "cut off"} => r \in affected

IInv == LineWaits /\ HoldersFollowStages /\ LossesAreKnown

\* The first in the line waits, and the others still do when it has left.
LEMMA HeadOfLine ==
  ASSUME LineWaits, line # << >>
  PROVE  /\ Head(line) \in Clients
         /\ stage[Head(line)] = "waiting"
         /\ Tail(line) \in Seq(Clients)
         /\ \A i \in 1..Len(Tail(line)) :
              /\ Tail(line)[i] \in Clients
              /\ Tail(line)[i] # Head(line)
              /\ stage[Tail(line)[i]] = "waiting"
         /\ \A i, j \in 1..Len(Tail(line)) : Tail(line)[i] = Tail(line)[j] => i = j
<1>1. Len(line) \in Nat /\ Len(line) > 0
  BY DEF LineWaits
<1>2. Head(line) = line[1] /\ 1 \in 1..Len(line)
  BY <1>1 DEF LineWaits
<1>3. /\ Tail(line) \in Seq(Clients)
      /\ Len(Tail(line)) = Len(line) - 1
      /\ \A i \in 1..Len(Tail(line)) : Tail(line)[i] = line[i + 1]
  BY <1>1 DEF LineWaits
<1>4. \A i \in 1..Len(Tail(line)) : i + 1 \in 1..Len(line) /\ i + 1 # 1
  BY <1>1, <1>3
<1>5. \A i \in 1..Len(line) : line[i] \in Clients
  BY DEF LineWaits
<1>6. \A i, j \in 1..Len(Tail(line)) : Tail(line)[i] = Tail(line)[j] => i = j
  BY <1>1, <1>3, <1>4 DEF LineWaits
<1> QED
  BY <1>2, <1>3, <1>4, <1>5, <1>6 DEF LineWaits

\* A client that joins the line was not in it.
LEMMA JoinLine ==
  ASSUME LineWaits, HoldersFollowStages, NEW r \in Clients, stage[r] = "away",
         line' = Append(line, r), stage' = [stage EXCEPT ![r] = "waiting"]
  PROVE  LineWaits'
<1>1. /\ line' \in Seq(Clients)
      /\ Len(line) \in Nat
      /\ Len(line') = Len(line) + 1
      /\ \A i \in 1..Len(line) : line'[i] = line[i] /\ line[i] \in Clients
      /\ line'[Len(line) + 1] = r
  BY DEF LineWaits
<1>2. \A i \in 1..Len(line) : line[i] # r
  BY DEF LineWaits
<1>3. \A i \in 1..Len(line') : i \in 1..Len(line) \/ i = Len(line) + 1
  BY <1>1
<1>4. \A i \in 1..Len(line') : stage'[line'[i]] = "waiting"
  BY <1>1, <1>2, <1>3 DEF LineWaits, HoldersFollowStages
<1>5. \A i, j \in 1..Len(line') : line'[i] = line'[j] => i = j
  BY <1>1, <1>2, <1>3 DEF LineWaits
<1> QED
  BY <1>1, <1>4, <1>5 DEF LineWaits

\* A client whose stage changes from one that is not "waiting" is not in it.
LEMMA LineKept ==
  ASSUME LineWaits, HoldersFollowStages, NEW r \in Clients, NEW s,
         stage[r] # "waiting", line' = line, stage' = [stage EXCEPT ![r] = s]
  PROVE  LineWaits'
<1>1. \A i \in 1..Len(line) : line[i] \in Clients /\ line[i] # r
  BY DEF LineWaits
<1> QED
  BY <1>1 DEF LineWaits, HoldersFollowStages

LEMMA InvInit == Init => IInv
<1> SUFFICES ASSUME Init PROVE IInv
  OBVIOUS
<1>1. LineWaits
  BY DEF Init, LineWaits
<1>2. HoldersFollowStages
  BY ClientsAssumption DEF Init, HoldersFollowStages, Stages
<1>3. LossesAreKnown
  BY DEF Init, LossesAreKnown, Replies, UnderWay
<1> QED
  BY <1>1, <1>2, <1>3 DEF IInv

LEMMA InvArrive ==
  ASSUME IInv, NEW r \in Clients, Arrive(r)
  PROVE  IInv'
<1> USE DEF IInv
<1>1. stage[r] = "away" /\ r \notin holding /\ row # r
  BY ClientsAssumption DEF Arrive, HoldersFollowStages
<1>2. CASE idle + stale > 0 \/ Size >= PoolMax
  <2>1. /\ line' = Append(line, r)
        /\ stage' = [stage EXCEPT ![r] = "waiting"]
        /\ reply' = [reply EXCEPT ![r] = "none"]
        /\ UNCHANGED <<holding, broken, row, up>>
        /\ affected' = IF up /\ broken = {} THEN affected \ {r} ELSE affected \cup {r}
    BY <1>2 DEF Arrive
  <2>2. LineWaits'
    BY <1>1, <2>1, JoinLine
  <2>3. HoldersFollowStages'
    BY <1>1, <2>1 DEF HoldersFollowStages, Stages
  <2>4. LossesAreKnown'
    BY <1>1, <2>1 DEF HoldersFollowStages, LossesAreKnown, Replies, UnderWay
  <2> QED
    BY <2>2, <2>3, <2>4
<1>3. CASE ~ (idle + stale > 0 \/ Size >= PoolMax) /\ up
  <2>1. /\ line' = line
        /\ stage' = [stage EXCEPT ![r] = "granted"]
        /\ reply' = [reply EXCEPT ![r] = "none"]
        /\ holding' = holding \cup {r}
        /\ UNCHANGED <<broken, row, up>>
        /\ affected' = IF up /\ broken = {} THEN affected \ {r} ELSE affected \cup {r}
    BY <1>3 DEF Arrive, Open, Grant
  <2>2. LineWaits'
    BY <1>1, <2>1, LineKept
  <2>3. HoldersFollowStages'
    BY <1>1, <2>1 DEF HoldersFollowStages, Stages
  <2>4. LossesAreKnown'
    BY <1>1, <1>3, <2>1 DEF HoldersFollowStages, LossesAreKnown, Replies, UnderWay
  <2> QED
    BY <2>2, <2>3, <2>4
<1>4. CASE ~ (idle + stale > 0 \/ Size >= PoolMax) /\ ~ up
  <2>1. /\ line' = line
        /\ stage' = [stage EXCEPT ![r] = "away"]
        /\ reply' = [reply EXCEPT ![r] = "failed"]
        /\ UNCHANGED <<holding, broken, row, up>>
        /\ affected' = affected \cup {r}
    BY <1>4 DEF Arrive, Open, Answer
  <2>2. LineWaits'
    BY <1>1, <2>1, LineKept
  <2>3. HoldersFollowStages'
    BY <1>1, <2>1 DEF HoldersFollowStages, Stages
  <2>4. LossesAreKnown'
    BY <1>1, <2>1 DEF HoldersFollowStages, LossesAreKnown, Replies, UnderWay
  <2> QED
    BY <2>2, <2>3, <2>4
<1> QED
  BY <1>2, <1>3, <1>4

LEMMA InvDispatch ==
  ASSUME IInv, Dispatch
  PROVE  IInv'
<1> USE DEF IInv
<1> DEFINE h == Head(line)
<1>1. /\ h \in Clients
      /\ stage[h] = "waiting"
      /\ Tail(line) \in Seq(Clients)
      /\ \A i \in 1..Len(Tail(line)) :
           /\ Tail(line)[i] \in Clients
           /\ Tail(line)[i] # h
           /\ stage[Tail(line)[i]] = "waiting"
      /\ \A i, j \in 1..Len(Tail(line)) : Tail(line)[i] = Tail(line)[j] => i = j
  BY HeadOfLine DEF Dispatch
<1>2. h \notin holding /\ row # h
  BY <1>1, ClientsAssumption DEF HoldersFollowStages
<1>3. line' = Tail(line) /\ UNCHANGED <<row, up>>
  BY DEF Dispatch
<1>4. \/ Grant(h) /\ UNCHANGED <<broken, affected>>
      \/ Grant(h) /\ broken' = broken \cup {h} /\ affected' = affected \cup UnderWay
      \/ ~ up /\ Answer(h, "failed") /\ UNCHANGED <<holding, broken, affected>>
  BY DEF Dispatch, TakeIdle, TakeStale, TakeNew, Open
<1> HIDE DEF h
<1>5. CASE Grant(h) /\ \/ UNCHANGED <<broken, affected>>
                       \/ broken' = broken \cup {h} /\ affected' = affected \cup UnderWay
  <2>1. /\ stage' = [stage EXCEPT ![h] = "granted"]
        /\ reply' = [reply EXCEPT ![h] = "none"]
        /\ holding' = holding \cup {h}
    BY <1>5 DEF Grant
  <2>2. LineWaits'
    BY <1>1, <1>3, <2>1 DEF LineWaits, HoldersFollowStages
  <2>3. HoldersFollowStages'
    BY <1>1, <1>2, <1>3, <2>1 DEF HoldersFollowStages, Stages
  <2>4. UnderWay' = UnderWay
    BY <1>1, <2>1 DEF HoldersFollowStages, UnderWay
  <2>5. LossesAreKnown'
    BY <1>1, <1>2, <1>3, <1>5, <2>1, <2>4 DEF HoldersFollowStages, LossesAreKnown, Replies
  <2> QED
    BY <2>2, <2>3, <2>5
<1>6. CASE ~ up /\ Answer(h, "failed") /\ UNCHANGED <<holding, broken, affected>>
  <2>1. /\ stage' = [stage EXCEPT ![h] = "away"]
        /\ reply' = [reply EXCEPT ![h] = "failed"]
        /\ UNCHANGED <<holding, broken, affected>>
        /\ h \in affected
    BY <1>1, <1>6 DEF Answer, LossesAreKnown, UnderWay
  <2>2. LineWaits'
    BY <1>1, <1>3, <2>1 DEF LineWaits, HoldersFollowStages
  <2>3. HoldersFollowStages'
    BY <1>1, <1>2, <1>3, <2>1 DEF HoldersFollowStages, Stages
  <2>4. LossesAreKnown'
    BY <1>1, <1>2, <1>3, <2>1 DEF HoldersFollowStages, LossesAreKnown, Replies, UnderWay
  <2> QED
    BY <2>2, <2>3, <2>4
<1> QED
  BY <1>4, <1>5, <1>6

\* The end of the process empties the line and the pool, and cuts off exactly
\* those who were under way.
LEMMA InvEnd ==
  ASSUME IInv, ProcessEnds, UnderWay \subseteq affected
  PROVE  IInv'
<1> USE DEF IInv
<1>1. LineWaits'
  <2>1. line' = << >>
    BY DEF ProcessEnds
  <2> QED
    BY <2>1 DEF LineWaits
<1>2. HoldersFollowStages'
  <2>1. stage' \in [Clients -> Stages] /\ \A r \in Clients : stage'[r] = "away"
    BY DEF ProcessEnds, Stages
  <2>2. row' \in {None, Outsider}
    BY DEF ProcessEnds, HoldersFollowStages
  <2>3. holding' = {}
    BY DEF ProcessEnds
  <2> QED
    BY <2>1, <2>2, <2>3, ClientsAssumption DEF HoldersFollowStages
<1>3. LossesAreKnown'
  <2>1. UnderWay' = {} /\ broken' = {} /\ holding' = {} /\ affected' = affected
    BY DEF ProcessEnds, UnderWay
  <2>2. /\ reply' \in [Clients -> Replies]
        /\ \A r \in Clients : r \notin UnderWay => reply'[r] = reply[r]
    BY DEF ProcessEnds, LossesAreKnown, Replies
  <2> QED
    BY <2>1, <2>2 DEF LossesAreKnown
<1> QED
  BY <1>1, <1>2, <1>3

LEMMA InvServe ==
  ASSUME IInv, NEW r \in Clients, Serve(r)
  PROVE  IInv'
<1> USE DEF IInv
<1>1. CASE LockRow(r)
  <2>1. /\ stage[r] = "granted"
        /\ Kind[r] = "write"
        /\ stage' = [stage EXCEPT ![r] = "locked"]
        /\ row' = r
        /\ UNCHANGED <<reply, line, holding, broken, up, affected>>
    BY <1>1 DEF LockRow
  <2>2. LineWaits'
    BY <2>1, LineKept
  <2>3. HoldersFollowStages'
    BY <2>1 DEF HoldersFollowStages, Stages
  <2>4. LossesAreKnown'
    BY <2>1 DEF HoldersFollowStages, LossesAreKnown, Replies, UnderWay
  <2> QED
    BY <2>2, <2>3, <2>4
<1>2. CASE Finish(r) \/ TimeOut(r)
  <2>1. PICK answer \in {"ok", "timeout"} : Answer(r, answer)
    BY <1>2 DEF Finish, TimeOut
  <2>2. /\ stage[r] \in {"granted", "locked"}
        /\ r \notin broken
        /\ stage' = [stage EXCEPT ![r] = "away"]
        /\ reply' = [reply EXCEPT ![r] = answer]
        /\ holding' = holding \ {r}
        /\ row' = IF row = r THEN None ELSE row
        /\ UNCHANGED <<line, broken, up, affected>>
    BY <1>2, <2>1 DEF Finish, TimeOut, Answer, Release
  <2>3. LineWaits'
    BY <2>2, LineKept
  <2>4. HoldersFollowStages'
    BY <2>2, ClientsAssumption DEF HoldersFollowStages, Stages
  <2>5. LossesAreKnown'
    BY <2>1, <2>2 DEF HoldersFollowStages, LossesAreKnown, Replies, UnderWay
  <2> QED
    BY <2>3, <2>4, <2>5
<1>3. CASE ProbeFails(r)
  <2>1. /\ r \in broken
        /\ stage' = [stage EXCEPT ![r] = "away"]
        /\ reply' = [reply EXCEPT ![r] = "failed"]
        /\ holding' = holding \ {r}
        /\ broken' = broken \ {r}
        /\ UNCHANGED <<line, row, up, affected>>
    BY <1>3 DEF ProbeFails, Answer
  <2>2. stage[r] \in {"granted", "locked"} /\ r \in affected
    BY <2>1 DEF HoldersFollowStages, LossesAreKnown, UnderWay
  <2>3. row # r
    <3>1. row = r => Kind[r] = "write"
      BY DEF HoldersFollowStages
    <3> QED
      BY <1>3, <3>1 DEF ProbeFails
  <2>4. LineWaits'
    BY <2>1, <2>2, LineKept
  <2>5. HoldersFollowStages'
    BY <2>1, <2>2, <2>3, ClientsAssumption DEF HoldersFollowStages, Stages
  <2>6. LossesAreKnown'
    BY <2>1, <2>2 DEF HoldersFollowStages, LossesAreKnown, Replies, UnderWay
  <2> QED
    BY <2>4, <2>5, <2>6
<1>4. CASE TransactionLost(r)
  <2>1. ProcessEnds /\ UnderWay \subseteq affected
    BY <1>4 DEF TransactionLost, LossesAreKnown
  <2> QED
    BY <2>1, InvEnd
<1> QED
  BY <1>1, <1>2, <1>3, <1>4 DEF Serve

LEMMA InvLosses ==
  ASSUME IInv, LoseIdle \/ Outage \/ \E r \in Clients : LoseUsed(r)
  PROVE  IInv'
<1> USE DEF IInv
<1>1. CASE LoseIdle
  BY <1>1 DEF LoseIdle, LineWaits, HoldersFollowStages, LossesAreKnown, UnderWay
<1>2. CASE Outage
  <2>1. LineWaits'
    BY <1>2 DEF Outage, LineWaits
  <2>2. HoldersFollowStages'
    BY <1>2, ClientsAssumption DEF Outage, HoldersFollowStages
  <2>3. LossesAreKnown'
    BY <1>2 DEF Outage, HoldersFollowStages, LossesAreKnown, UnderWay
  <2> QED
    BY <2>1, <2>2, <2>3
<1>3. ASSUME NEW r \in Clients, LoseUsed(r) PROVE IInv'
  <2>1. LineWaits'
    BY <1>3 DEF LoseUsed, LineWaits
  <2>2. HoldersFollowStages'
    BY <1>3, ClientsAssumption DEF LoseUsed, HoldersFollowStages
  <2>3. LossesAreKnown'
    BY <1>3 DEF LoseUsed, HoldersFollowStages, LossesAreKnown, UnderWay
  <2> QED
    BY <2>1, <2>2, <2>3
<1> QED
  BY <1>1, <1>2, <1>3

LEMMA InvSurroundings ==
  ASSUME IInv,
         \/ NoticeIdle \/ CloseIdle \/ OutsiderLocks \/ OutsiderUnlocks
         \/ Recover \/ Restart
  PROVE  IInv'
<1> USE DEF IInv
<1>1. UNCHANGED <<stage, reply, line, holding, broken, affected>>
  BY DEF NoticeIdle, CloseIdle, OutsiderLocks, OutsiderUnlocks, Recover, Restart
<1>2. (~ up' => ~ up) /\ (row' = row \/ row' \in {None, Outsider})
  BY DEF NoticeIdle, CloseIdle, OutsiderLocks, OutsiderUnlocks, Recover, Restart
<1>3. LineWaits'
  BY <1>1 DEF LineWaits
<1>4. HoldersFollowStages'
  BY <1>1, <1>2, ClientsAssumption DEF HoldersFollowStages
<1>5. LossesAreKnown'
  BY <1>1, <1>2 DEF LossesAreKnown, UnderWay
<1> QED
  BY <1>3, <1>4, <1>5

LEMMA InvNext == IInv /\ [Next]_vars => IInv'
<1> SUFFICES ASSUME IInv, [Next]_vars PROVE IInv'
  OBVIOUS
<1>1. CASE UNCHANGED vars
  BY <1>1 DEF vars, IInv, LineWaits, HoldersFollowStages, LossesAreKnown, UnderWay
<1>2. CASE \E r \in Clients : Arrive(r) \/ Serve(r)
  BY <1>2, InvArrive, InvServe
<1>3. CASE Dispatch
  BY <1>3, InvDispatch
<1>4. CASE LoseIdle \/ Outage \/ \E r \in Clients : LoseUsed(r)
  BY <1>4, InvLosses
<1>5. CASE \/ NoticeIdle \/ CloseIdle \/ OutsiderLocks \/ OutsiderUnlocks
           \/ Recover \/ Restart
  BY <1>5, InvSurroundings
<1> QED
  BY <1>1, <1>2, <1>3, <1>4, <1>5 DEF Next

\* The invariant holds in every behaviour, for any clients and any limit.
THEOREM PoolInvariant == Spec => []IInv
BY InvInit, InvNext, PTL DEF Spec

-----------------------------------------------------------------------------
\* Connections that are held and those that nobody uses are no more than the
\* limit.
Limits ==
  /\ IsFiniteSet(holding)
  /\ idle \in Nat
  /\ stale \in Nat
  /\ Size <= PoolMax

\* One more connection is held: it was there, or there was room for it.
LEMMA LimitsGrant ==
  ASSUME Limits, NEW r, r \notin holding, holding' = holding \cup {r},
         \/ idle > 0 /\ idle' = idle - 1 /\ stale' = stale
         \/ stale > 0 /\ stale' = stale - 1 /\ idle' = idle
         \/ Size < PoolMax /\ idle' = idle /\ stale' = stale
  PROVE  Limits'
<1>1. /\ IsFiniteSet(holding')
      /\ Cardinality(holding') = Cardinality(holding) + 1
      /\ Cardinality(holding) \in Nat
  BY FS_AddElement, FS_CardinalityType DEF Limits
<1> QED
  BY <1>1, PoolMaxAssumption DEF Limits, Size

\* One less is held: it is idle again, or dropped.
LEMMA LimitsRelease ==
  ASSUME Limits, NEW r \in holding, holding' = holding \ {r},
         idle' \in {idle, idle + 1}, stale' = stale
  PROVE  Limits'
<1>1. /\ IsFiniteSet(holding')
      /\ Cardinality(holding') = Cardinality(holding) - 1
      /\ Cardinality(holding) \in Nat
  BY FS_RemoveElement, FS_CardinalityType DEF Limits
<1>2. Cardinality(holding) + idle + stale <= PoolMax /\ idle \in Nat /\ stale \in Nat
  BY DEF Limits, Size
<1>3. Cardinality(holding') + idle' + stale' <= PoolMax /\ idle' \in Nat
  BY <1>1, <1>2, PoolMaxAssumption
<1> QED
  BY <1>1, <1>2, <1>3 DEF Limits, Size

\* The same are held, and of the others there are no more than before.
LEMMA LimitsKept ==
  ASSUME Limits, holding' = holding, idle' \in Nat, stale' \in Nat,
         idle' + stale' <= idle + stale
  PROVE  Limits'
<1>1. Cardinality(holding) \in Nat /\ Cardinality(holding') = Cardinality(holding)
  BY FS_CardinalityType DEF Limits
<1>2. Cardinality(holding) + idle + stale <= PoolMax /\ idle \in Nat /\ stale \in Nat
  BY DEF Limits, Size
<1>3. Cardinality(holding) + idle' + stale' <= PoolMax
  <2>1. \A c, a, b, d, e, m \in Nat : c + a + b <= m /\ d + e <= a + b => c + d + e <= m
    OBVIOUS
  <2>2. PoolMax \in Nat
    BY PoolMaxAssumption
  <2> QED
    BY <1>1, <1>2, <2>1, <2>2
<1>4. IsFiniteSet(holding')
  BY DEF Limits
<1> QED
  BY <1>1, <1>3, <1>4 DEF Limits, Size

LEMMA LimitsEnd ==
  ASSUME ProcessEnds
  PROVE  Limits'
<1>1. Cardinality({}) = 0 /\ IsFiniteSet({})
  BY FS_EmptySet
<1>2. holding' = {} /\ idle' = 0 /\ stale' = 0
  BY DEF ProcessEnds
<1>3. Size' = 0
  BY <1>1, <1>2 DEF Size
<1> QED
  BY <1>1, <1>2, <1>3, PoolMaxAssumption DEF Limits

LEMMA LimitsInit == Init => Limits
<1> SUFFICES ASSUME Init PROVE Limits
  OBVIOUS
<1>1. Cardinality({}) = 0 /\ IsFiniteSet({})
  BY FS_EmptySet
<1>2. Size = 0
  BY <1>1 DEF Init, Size
<1> QED
  BY <1>1, <1>2, PoolMaxAssumption DEF Init, Limits

LEMMA LimitsNext == IInv /\ Limits /\ [Next]_vars => Limits'
<1> SUFFICES ASSUME IInv, Limits, [Next]_vars PROVE Limits'
  OBVIOUS
<1> USE DEF IInv
<1>1. ASSUME NEW r \in Clients, Arrive(r) PROVE Limits'
  <2>1. r \notin holding /\ idle' = idle /\ stale' = stale
    BY <1>1 DEF Arrive, HoldersFollowStages
  <2>2. holding' = holding \/ (holding' = holding \cup {r} /\ Size < PoolMax)
    <3>1. Size \in Int
      BY FS_CardinalityType DEF Limits, Size
    <3> QED
      BY <1>1, <3>1, PoolMaxAssumption DEF Arrive, Open, Grant
  <2>3. CASE holding' = holding
    BY <2>1, <2>3, LimitsKept DEF Limits
  <2> QED
    BY <2>1, <2>2, <2>3, LimitsGrant
<1>2. CASE Dispatch
  <2> DEFINE h == Head(line)
  <2>1. h \in Clients /\ stage[h] = "waiting"
    BY <1>2, HeadOfLine DEF Dispatch
  <2>2. h \notin holding
    BY <2>1 DEF HoldersFollowStages
  <2>3. \/ holding' = holding /\ idle' = idle /\ stale' = stale
        \/ /\ holding' = holding \cup {h}
           /\ \/ idle > 0 /\ idle' = idle - 1 /\ stale' = stale
              \/ stale > 0 /\ stale' = stale - 1 /\ idle' = idle
              \/ Size < PoolMax /\ idle' = idle /\ stale' = stale
    BY <1>2 DEF Dispatch, TakeIdle, TakeStale, TakeNew, Open, Grant
  <2> HIDE DEF h
  <2>4. CASE holding' = holding /\ idle' = idle /\ stale' = stale
    BY <2>4, LimitsKept DEF Limits
  <2> QED
    BY <2>2, <2>3, <2>4, LimitsGrant
<1>3. ASSUME NEW r \in Clients, Serve(r) PROVE Limits'
  <2>1. CASE LockRow(r)
    BY <2>1, LimitsKept DEF LockRow, Limits
  <2>2. CASE Finish(r) \/ TimeOut(r)
    <3>1. r \in holding
      BY <2>2 DEF Finish, TimeOut, HoldersFollowStages
    <3>2. holding' = holding \ {r} /\ idle' = idle + 1 /\ stale' = stale
      BY <2>2 DEF Finish, TimeOut, Release
    <3> QED
      BY <3>1, <3>2, LimitsRelease
  <2>3. CASE ProbeFails(r)
    <3>1. r \in holding
      BY <2>3 DEF ProbeFails, LossesAreKnown
    <3>2. holding' = holding \ {r} /\ idle' = idle /\ stale' = stale
      BY <2>3 DEF ProbeFails
    <3> QED
      BY <3>1, <3>2, LimitsRelease
  <2>4. CASE TransactionLost(r)
    BY <2>4, LimitsEnd DEF TransactionLost
  <2> QED
    BY <1>3, <2>1, <2>2, <2>3, <2>4 DEF Serve
<1>4. CASE \/ NoticeIdle \/ CloseIdle \/ LoseIdle
  <2>1. holding' = holding
    BY <1>4 DEF NoticeIdle, CloseIdle, LoseIdle
  <2>2. idle' \in Nat /\ stale' \in Nat /\ idle' + stale' <= idle + stale
    BY <1>4 DEF NoticeIdle, CloseIdle, LoseIdle, Limits
  <2> QED
    BY <2>1, <2>2, LimitsKept
<1>5. CASE Outage
  <2>1. holding' = holding
    BY <1>5 DEF Outage
  <2>2. idle' \in Nat /\ stale' \in Nat /\ idle' + stale' <= idle + stale
    BY <1>5 DEF Outage, Limits
  <2> QED
    BY <2>1, <2>2, LimitsKept
<1>6. CASE \/ OutsiderLocks \/ OutsiderUnlocks \/ Recover \/ Restart
           \/ (\E r \in Clients : LoseUsed(r)) \/ UNCHANGED vars
  <2>1. holding' = holding /\ idle' = idle /\ stale' = stale
    BY <1>6 DEF OutsiderLocks, OutsiderUnlocks, Recover, Restart, LoseUsed, vars
  <2> QED
    BY <2>1, LimitsKept DEF Limits
<1> QED
  BY <1>1, <1>2, <1>3, <1>4, <1>5, <1>6 DEF Next
-----------------------------------------------------------------------------
\* Whoever waits has a place in the line.
WaitersInLine ==
  \A r \in Clients : stage[r] = "waiting" => \E i \in 1..Len(line) : line[i] = r

\* Nobody begins to wait, and the line is as before.
LEMMA WaitersKept ==
  ASSUME WaitersInLine, line' = line,
         \A r \in Clients : stage'[r] = "waiting" => stage[r] = "waiting"
  PROVE  WaitersInLine'
BY DEF WaitersInLine

LEMMA WaitersNext == IInv /\ WaitersInLine /\ [Next]_vars => WaitersInLine'
<1> SUFFICES ASSUME IInv, WaitersInLine, [Next]_vars PROVE WaitersInLine'
  OBVIOUS
<1>0. stage \in [Clients -> Stages] /\ line \in Seq(Clients)
  BY DEF IInv, HoldersFollowStages, LineWaits
<1>1. ASSUME NEW r \in Clients, Arrive(r) PROVE WaitersInLine'
  <2>1. CASE line' = Append(line, r) /\ stage' = [stage EXCEPT ![r] = "waiting"]
    <3>1. /\ Len(line) \in Nat
          /\ Len(line') = Len(line) + 1
          /\ line'[Len(line) + 1] = r
          /\ \A i \in 1..Len(line) : line'[i] = line[i]
      BY <1>0, <2>1
    <3>2. ASSUME NEW q \in Clients, stage'[q] = "waiting"
          PROVE  \E i \in 1..Len(line') : line'[i] = q
      <4>1. CASE q = r
        BY <3>1, <4>1
      <4>2. CASE q # r
        <5>1. PICK i \in 1..Len(line) : line[i] = q
          BY <1>0, <2>1, <3>2, <4>2 DEF WaitersInLine
        <5> QED
          BY <3>1, <5>1
      <4> QED
        BY <4>1, <4>2
    <3> QED
      BY <3>2 DEF WaitersInLine
  <2>2. CASE /\ line' = line
             /\ \E s \in {"granted", "away"} : stage' = [stage EXCEPT ![r] = s]
    BY <1>0, <2>2, WaitersKept
  <2> QED
    BY <1>1, <2>1, <2>2 DEF Arrive, Open, Grant, Answer
<1>2. CASE Dispatch
  <2> DEFINE h == Head(line)
  <2>1. /\ line # << >> /\ line' = Tail(line)
        /\ \E s \in {"granted", "away"} : stage' = [stage EXCEPT ![h] = s]
    BY <1>2 DEF Dispatch, TakeIdle, TakeStale, TakeNew, Open, Grant, Answer
  <2>2. h = line[1] /\ h \in Clients /\ Len(line) \in Nat /\ Len(line) > 0
    BY <1>0, <2>1
  <2>3. /\ Len(line') = Len(line) - 1
        /\ \A i \in 1..Len(line') : line'[i] = line[i + 1]
    BY <1>0, <2>1, <2>2
  <2> HIDE DEF h
  <2>4. ASSUME NEW q \in Clients, stage'[q] = "waiting"
        PROVE  \E i \in 1..Len(line') : line'[i] = q
    <3>1. q # h /\ stage[q] = "waiting"
      BY <1>0, <2>1, <2>2, <2>4
    <3>2. PICK i \in 1..Len(line) : line[i] = q
      BY <3>1 DEF WaitersInLine
    <3>3. i # 1
      BY <2>2, <3>1, <3>2
    <3>4. i - 1 \in 1..Len(line') /\ line'[i - 1] = line[(i - 1) + 1] /\ (i - 1) + 1 = i
      BY <2>2, <2>3, <3>2, <3>3
    <3> QED
      BY <3>2, <3>4
  <2> QED
    BY <2>4 DEF WaitersInLine
<1>3. ASSUME NEW r \in Clients, Serve(r) PROVE WaitersInLine'
  <2>1. CASE TransactionLost(r)
    BY <2>1 DEF TransactionLost, ProcessEnds, WaitersInLine
  <2>2. CASE LockRow(r) \/ Finish(r) \/ TimeOut(r) \/ ProbeFails(r)
    <3>1. /\ line' = line
          /\ \E s \in {"locked", "away"} : stage' = [stage EXCEPT ![r] = s]
      BY <2>2 DEF LockRow, Finish, TimeOut, ProbeFails, Answer
    <3> QED
      BY <1>0, <3>1, WaitersKept
  <2> QED
    BY <1>3, <2>1, <2>2 DEF Serve
<1>4. CASE \/ NoticeIdle \/ CloseIdle \/ LoseIdle \/ Outage
           \/ OutsiderLocks \/ OutsiderUnlocks \/ Recover \/ Restart
           \/ (\E r \in Clients : LoseUsed(r)) \/ UNCHANGED vars
  <2>1. line' = line /\ stage' = stage
    BY <1>4 DEF NoticeIdle, CloseIdle, LoseIdle, Outage, OutsiderLocks, OutsiderUnlocks,
                Recover, Restart, LoseUsed, vars
  <2> QED
    BY <2>1, WaitersKept
<1> QED
  BY <1>1, <1>2, <1>3, <1>4 DEF Next
-----------------------------------------------------------------------------
\* A process that has ended keeps nothing.
Ended ==
  /\ running \in BOOLEAN
  /\ up \in BOOLEAN
  /\ losses \in 0..MaxLosses
  /\ ~ running => UnderWay = {} /\ idle = 0 /\ stale = 0

LEMMA EndedNext == IInv /\ Ended /\ [Next]_vars => Ended'
<1> SUFFICES ASSUME IInv, Ended, [Next]_vars PROVE Ended'
  OBVIOUS
<1>1. /\ running' \in BOOLEAN
      /\ up' \in BOOLEAN
      /\ losses' \in 0..MaxLosses
  <2>1. running' \in BOOLEAN /\ up' \in BOOLEAN
    BY Zenon DEF Ended, Next, vars, Arrive, Serve, LoseUsed, Dispatch, LockRow, Finish,
             TimeOut, ProbeFails, TransactionLost, ProcessEnds, NoticeIdle, CloseIdle,
             OutsiderLocks, OutsiderUnlocks, LoseIdle, Outage, Recover, Restart
  <2>2. losses' = losses \/ (losses < MaxLosses /\ losses' = losses + 1)
    BY Zenon DEF Next, vars, Arrive, Serve, LoseUsed, Dispatch, LockRow, Finish,
             TimeOut, ProbeFails, TransactionLost, ProcessEnds, NoticeIdle, CloseIdle,
             OutsiderLocks, OutsiderUnlocks, LoseIdle, Outage, Recover, Restart
  <2> QED
    BY <2>1, <2>2, BoundAssumption DEF Ended
<1>2. ASSUME ~ running' PROVE UnderWay' = {} /\ idle' = 0 /\ stale' = 0
  <2>1. CASE ProcessEnds
    BY <2>1 DEF ProcessEnds, UnderWay
  <2>2. CASE ~ ProcessEnds
    <3>1. ~ running
      BY <1>2, <2>2 DEF Next, vars, Arrive, Serve, LoseUsed, Dispatch, LockRow, Finish,
             TimeOut, ProbeFails, TransactionLost, NoticeIdle, CloseIdle,
             OutsiderLocks, OutsiderUnlocks, LoseIdle, Outage, Recover, Restart
    <3>2. UnderWay = {} /\ idle = 0 /\ stale = 0
      BY <3>1 DEF Ended
    <3>3. line = << >>
      <4>1. line \in Seq(Clients) /\ Len(line) \in Nat
        BY DEF IInv, LineWaits
      <4>2. ASSUME line # << >> PROVE FALSE
        BY <3>2, <4>2, HeadOfLine DEF UnderWay, IInv
      <4> QED
        BY <4>2
    <3>4. holding = {}
      BY <3>2 DEF IInv, HoldersFollowStages, UnderWay
    <3>5. /\ \A r \in Clients : ~ Arrive(r) /\ ~ Serve(r) /\ ~ LoseUsed(r)
          /\ ~ Dispatch /\ ~ NoticeIdle /\ ~ CloseIdle /\ ~ LoseIdle
      <4>1. ASSUME NEW r \in Clients PROVE ~ Arrive(r) /\ ~ Serve(r) /\ ~ LoseUsed(r)
        <5>1. stage[r] = "away" /\ r \notin broken
          BY <3>2, <3>4 DEF UnderWay, IInv, LossesAreKnown
        <5> QED
          BY <3>1, <3>4, <5>1 DEF Arrive, Serve, LoseUsed, LockRow, Finish, TimeOut,
             ProbeFails, TransactionLost
      <4>2. ~ Dispatch
        BY <3>3 DEF Dispatch
      <4>3. ~ NoticeIdle /\ ~ CloseIdle /\ ~ LoseIdle
        BY <3>2 DEF NoticeIdle, CloseIdle, LoseIdle
      <4> QED
        BY <4>1, <4>2, <4>3
    <3>6. \/ OutsiderLocks \/ OutsiderUnlocks \/ Outage \/ Recover \/ Restart
          \/ UNCHANGED vars
      BY <3>5 DEF Next
    <3>7. stage' = stage /\ idle' = 0 /\ stale' = 0
      BY <3>2, <3>6 DEF OutsiderLocks, OutsiderUnlocks, Outage, Recover, Restart, vars
    <3> QED
      BY <3>2, <3>7 DEF UnderWay
  <2> QED
    BY <2>1, <2>2
<1> QED
  BY <1>1, <1>2 DEF Ended

\* For any clients the pool keeps its limit through losses, the end of the
\* process and restarts, nobody who waits is missing from the line, and nobody
\* is in it who does not wait.
THEOREM TypeCorrect == Spec => []TypeOK
<1>1. Init => Limits /\ WaitersInLine /\ Ended
  BY LimitsInit, BoundAssumption DEF Init, WaitersInLine, Ended, UnderWay
<1>2. IInv /\ (Limits /\ WaitersInLine /\ Ended) /\ [Next]_vars
         => (Limits /\ WaitersInLine /\ Ended)'
  BY LimitsNext, WaitersNext, EndedNext
<1>3. IInv /\ Limits /\ WaitersInLine /\ Ended => TypeOK
  BY DEF IInv, LineWaits, HoldersFollowStages, LossesAreKnown, Limits, WaitersInLine,
         Ended, TypeOK
<1> QED
  BY <1>1, <1>2, <1>3, PoolInvariant, PTL DEF Spec

\* A request or a probe fails, or is cut off by the end of the process, only if
\* while it was under way the database was away or a connection in use was lost.
THEOREM FailuresAreTrue == Spec => []FailuresHaveCause
<1>1. IInv => FailuresHaveCause
  BY DEF IInv, LossesAreKnown, FailuresHaveCause
<1> QED
  BY <1>1, PoolInvariant, PTL

\* With any number of connections, writes that wait for the row never occupy
\* all of them while the row is to be had or one of them has it.
THEOREM PoolGoesOn == Spec => []PoolNeverStarvesItself
<1>1. IInv => PoolNeverStarvesItself
  <2> SUFFICES ASSUME IInv, line # << >>, idle = 0, stale = 0, Size >= PoolMax, row # Outsider
               PROVE  \E r \in holding : \/ r \in broken
                                         \/ Kind[r] # "write"
                                         \/ stage[r] = "locked"
                                         \/ row = None
    BY DEF PoolNeverStarvesItself
  <2>1. holding # {}
    <3>1. Cardinality({}) = 0
      BY FS_EmptySet
    <3>2. holding = {} => Size = 0
      BY <3>1 DEF Size
    <3> QED
      BY <3>2, PoolMaxAssumption
  <2>2. CASE row = None
    BY <2>1, <2>2
  <2>3. CASE row \in Clients
    BY <2>3 DEF IInv, HoldersFollowStages
  <2> QED
    BY <2>2, <2>3 DEF IInv, HoldersFollowStages
<1> QED
  BY <1>1, PoolInvariant, PTL
=============================================================================
