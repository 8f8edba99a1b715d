-------------------------- MODULE HistoryAuditProofs --------------------------
(***************************************************************************)
(* Proofs about HistoryAudit, for every set of payloads and any number of  *)
(* events and edits: what the hash chain binds, what the triggers keep,    *)
(* and where the audit finds a change.                                     *)
(***************************************************************************)
EXTENDS HistoryAudit, MoneyTheorems

\* What the primary key and the CHECK of policy_events leave of a table.
Table(t) ==
  /\ IsFiniteSet(t)
  /\ \A a \in t : /\ a.seq \in Nat \ {0}
                  /\ a = [seq |-> a.seq, prev |-> a.prev,
                          payload |-> a.payload, hash |-> a.hash]
  /\ \A a, b \in t : a.seq = b.seq => a = b

\* The rows up to a place.
UpTo(t, n) == {b \in t : b.seq <= n}

-----------------------------------------------------------------------------
\* Least elements.

LEMMA MinIs ==
  ASSUME NEW S, S \subseteq Nat, NEW m \in S, \A x \in S : m <= x
  PROVE  Min(S) = m
<1>1. \A x \in S : (\A y \in S : x <= y) => x = m
  OBVIOUS
<1> QED
  BY <1>1 DEF Min

-----------------------------------------------------------------------------
\* The listing of a table in the order of its sequence numbers.

LEMMA Ranks ==
  ASSUME NEW t, Table(t)
  PROVE  /\ Cardinality(t) \in Nat
         /\ \A n \in Int : /\ IsFiniteSet(UpTo(t, n)) /\ Cardinality(UpTo(t, n)) \in Nat
                           /\ Cardinality(UpTo(t, n)) <= Cardinality(t)
         /\ \A a \in t : Cardinality(UpTo(t, a.seq)) \in 1..Cardinality(t)
         /\ \A a, b \in t : a.seq < b.seq =>
              Cardinality(UpTo(t, a.seq)) < Cardinality(UpTo(t, b.seq))
<1>1. IsFiniteSet(t) /\ Cardinality(t) \in Nat
  BY FS_CardinalityType DEF Table
<1>2. ASSUME NEW n \in Int
      PROVE  /\ IsFiniteSet(UpTo(t, n)) /\ Cardinality(UpTo(t, n)) \in Nat
             /\ Cardinality(UpTo(t, n)) <= Cardinality(t)
  <2>1. UpTo(t, n) \in SUBSET t
    BY DEF UpTo
  <2>2. IsFiniteSet(UpTo(t, n)) /\ Cardinality(UpTo(t, n)) <= Cardinality(t)
    BY <1>1, <2>1, FS_Subset
  <2> QED
    BY <2>2, FS_CardinalityType
<1>3. ASSUME NEW a \in t
      PROVE  Cardinality(UpTo(t, a.seq)) \in 1..Cardinality(t)
  <2>1. a.seq \in Int /\ a \in UpTo(t, a.seq)
    BY DEF Table, UpTo
  <2>2. Cardinality(UpTo(t, a.seq)) # 0
    BY <1>2, <2>1, FS_EmptySet
  <2> QED
    BY <1>1, <1>2, <2>1, <2>2
<1>4. ASSUME NEW a \in t, NEW b \in t, a.seq < b.seq
      PROVE  Cardinality(UpTo(t, a.seq)) < Cardinality(UpTo(t, b.seq))
  <2>1. a.seq \in Int /\ b.seq \in Int /\ \A c \in t : c.seq \in Int
    BY DEF Table
  <2>2. UpTo(t, a.seq) \in SUBSET UpTo(t, b.seq)
    BY <1>4, <2>1 DEF UpTo
  <2>3. b \in UpTo(t, b.seq) /\ b \notin UpTo(t, a.seq)
    BY <1>4, <2>1 DEF UpTo
  <2>4. IsFiniteSet(UpTo(t, b.seq))
    BY <1>2, <2>1
  <2>5. /\ Cardinality(UpTo(t, a.seq)) <= Cardinality(UpTo(t, b.seq))
        /\ Cardinality(UpTo(t, b.seq)) # Cardinality(UpTo(t, a.seq))
    BY <2>2, <2>3, <2>4, FS_Subset
  <2> QED
    BY <1>2, <2>1, <2>5
<1> QED
  BY <1>1, <1>2, <1>3, <1>4

\* Each place of the listing is taken, by the row of that rank.
LEMMA EachRankIsTaken ==
  ASSUME NEW t, Table(t), NEW i \in 1..Cardinality(t)
  PROVE  \E a \in t : Cardinality(UpTo(t, a.seq)) = i
<1> DEFINE n == Cardinality(t)
           f == [a \in t |-> Cardinality(UpTo(t, a.seq))]
<1>1. IsFiniteSet(t) /\ n \in Nat
  BY Ranks DEF Table
<1>2. IsFiniteSet(1..n) /\ Cardinality(1..n) = n
  BY <1>1, FS_Interval
<1>3. f \in [t -> 1..n]
  BY Ranks
<1>4. ASSUME NEW a \in t, NEW b \in t, f[a] = f[b] PROVE a = b
  <2>1. a.seq \in Int /\ b.seq \in Int
    BY DEF Table
  <2>2. ~ (a.seq < b.seq) /\ ~ (b.seq < a.seq)
    BY <1>3, <1>4, Ranks
  <2> QED
    BY <2>1, <2>2 DEF Table
<1>5. f \in Injection(t, 1..n)
  BY <1>3, <1>4 DEF Injection, IsInjective
<1>6. f \in Surjection(t, 1..n)
  BY <1>1, <1>2, <1>5, FS_Injection
<1> QED
  BY <1>6 DEF Surjection

LEMMA ListingRanks ==
  ASSUME NEW t, Table(t)
  PROVE  LET rows == Listing(t)
             n == Cardinality(t)
         IN  /\ n \in Nat /\ DOMAIN rows = 1..n /\ Len(rows) = n /\ rows \in [1..n -> t]
             /\ rows \in Seq(t)
             /\ \A i \in 1..n : Cardinality(UpTo(t, rows[i].seq)) = i
             /\ \A i, j \in 1..n : i < j => rows[i].seq < rows[j].seq
             /\ \A a \in t : rows[Cardinality(UpTo(t, a.seq))] = a
<1> DEFINE rows == Listing(t)
           n == Cardinality(t)
<1>1. n \in Nat
  BY Ranks
<1>2. rows = [i \in 1..n |-> CHOOSE a \in t : Cardinality(UpTo(t, a.seq)) = i]
  BY DEF Listing, UpTo
<1>3. ASSUME NEW i \in 1..n
      PROVE  rows[i] \in t /\ Cardinality(UpTo(t, rows[i].seq)) = i
  <2>1. \E a \in t : Cardinality(UpTo(t, a.seq)) = i
    BY EachRankIsTaken
  <2> QED
    BY <1>2, <2>1
<1>4. DOMAIN rows = 1..n /\ rows \in [1..n -> t]
  BY <1>2, <1>3
<1>5. Len(rows) = n /\ rows \in Seq(t)
  BY <1>1, <1>4
<1>6. ASSUME NEW i \in 1..n, NEW j \in 1..n, i < j PROVE rows[i].seq < rows[j].seq
  <2>1. rows[i] \in t /\ rows[j] \in t /\ rows[i].seq \in Int /\ rows[j].seq \in Int
    BY <1>3 DEF Table
  <2>2. ~ (rows[j].seq < rows[i].seq) /\ rows[j] # rows[i]
    BY <1>3, <1>6, <2>1, Ranks
  <2> QED
    BY <2>1, <2>2 DEF Table
<1>7. ASSUME NEW a \in t PROVE rows[Cardinality(UpTo(t, a.seq))] = a
  <2> DEFINE i == Cardinality(UpTo(t, a.seq))
  <2>1. i \in 1..n
    BY Ranks
  <2>2. rows[i] \in t /\ Cardinality(UpTo(t, rows[i].seq)) = i
    BY <1>3, <2>1
  <2>3. rows[i].seq \in Int /\ a.seq \in Int
    BY <2>2 DEF Table
  <2>4. ~ (rows[i].seq < a.seq) /\ ~ (a.seq < rows[i].seq)
    BY <2>1, <2>2, Ranks
  <2> QED
    BY <2>2, <2>3, <2>4 DEF Table
<1> QED
  BY <1>1, <1>3, <1>4, <1>5, <1>6, <1>7

\* Rows that bear the numbers from 1 on are listed at their number.
LEMMA ListedAtTheirNumber ==
  ASSUME NEW t, Table(t), NEW m \in Nat, \A i \in 1..m : \E a \in t : a.seq = i
  PROVE  /\ m <= Cardinality(t)
         /\ \A a \in t : a.seq <= m => Listing(t)[a.seq] = a
         /\ \A i \in 1..m : Listing(t)[i] \in t /\ Listing(t)[i].seq = i
<1>1. ASSUME NEW a \in t, a.seq <= m
      PROVE  Cardinality(UpTo(t, a.seq)) = a.seq
  <2> DEFINE k == a.seq
             g == [b \in UpTo(t, k) |-> b.seq]
  <2>1. k \in Nat \ {0} /\ k <= m /\ \A b \in t : b.seq \in Nat \ {0}
    BY <1>1 DEF Table
  <2>2. g \in Injection(UpTo(t, k), 1..k)
    BY <2>1 DEF Injection, IsInjective, UpTo, Table
  <2>3. ASSUME NEW i \in 1..k PROVE \E b \in UpTo(t, k) : g[b] = i
    <3>1. PICK b \in t : b.seq = i
      BY <2>1
    <3>2. b \in UpTo(t, k)
      BY <3>1 DEF UpTo
    <3> QED
      BY <3>1, <3>2
  <2>4. g \in Surjection(UpTo(t, k), 1..k)
    BY <2>2, <2>3 DEF Surjection, Injection
  <2> HIDE DEF g, k
  <2>5. IsFiniteSet(1..k) /\ Cardinality(1..k) = k
    BY <2>1, FS_Interval
  <2>6. Cardinality(UpTo(t, k)) = Cardinality(1..k)
    BY <2>2, <2>4, <2>5, FS_Injection
  <2> QED
    BY <2>5, <2>6 DEF k
<1>2. ASSUME NEW a \in t, a.seq <= m PROVE Listing(t)[a.seq] = a
  BY <1>1, <1>2, ListingRanks
<1>3. ASSUME NEW i \in 1..m PROVE Listing(t)[i] \in t /\ Listing(t)[i].seq = i
  BY <1>2
<1>4. m <= Cardinality(t)
  <2>1. CASE m = 0
    BY <2>1, Ranks
  <2>2. CASE m # 0
    <3>1. PICK a \in t : a.seq = m
      BY <2>2
    <3> QED
      BY <1>1, <3>1, Ranks
  <2> QED
    BY <2>1, <2>2
<1> QED
  BY <1>2, <1>3, <1>4

\* A row behind all others is listed behind all others.
LEMMA ListingGrows ==
  ASSUME NEW t, Table(t), NEW b, Table(t \cup {b}), b \notin t,
         \A a \in t : a.seq < b.seq
  PROVE  LET rows == Listing(t)
             more == Listing(t \cup {b})
             n == Cardinality(t)
         IN  /\ Cardinality(t \cup {b}) = n + 1
             /\ \A i \in 1..n : more[i] = rows[i]
             /\ more[n + 1] = b
<1> DEFINE u == t \cup {b}
           n == Cardinality(t)
<1>1. n \in Nat /\ Cardinality(u) = n + 1
  BY Ranks, FS_AddElement DEF Table
<1>2. ASSUME NEW i \in 1..n PROVE Listing(u)[i] = Listing(t)[i]
  <2> DEFINE a == Listing(t)[i]
  <2>1. a \in t /\ Cardinality(UpTo(t, a.seq)) = i
    BY ListingRanks
  <2> HIDE DEF a
  <2>2. a.seq \in Int /\ b.seq \in Int /\ a.seq < b.seq
    BY <2>1 DEF Table
  <2>3. UpTo(u, a.seq) = UpTo(t, a.seq)
    BY <2>2 DEF UpTo
  <2>4. a \in u
    BY <2>1
  <2>5. Listing(u)[Cardinality(UpTo(u, a.seq))] = a
    BY <2>4, ListingRanks
  <2> QED
    BY <2>1, <2>3, <2>5 DEF a
<1>3. Listing(u)[n + 1] = b
  <2>1. b \in u /\ b.seq \in Int
    BY DEF Table
  <2>2. UpTo(u, b.seq) = u
    BY <2>1 DEF UpTo, Table
  <2>3. Listing(u)[Cardinality(UpTo(u, b.seq))] = b
    BY <2>1, ListingRanks
  <2> QED
    BY <1>1, <2>2, <2>3
<1> QED
  BY <1>1, <1>2, <1>3

-----------------------------------------------------------------------------
\* The chain.  The hash of a row that is sound with all before it is the list
\* of their payloads.

LEMMA AppendAt ==
  ASSUME NEW n \in Nat, NEW f, NEW x
  PROVE  /\ Append([j \in 1..n |-> f[j]], x) =
              [j \in 1..(n + 1) |-> IF j = n + 1 THEN x ELSE f[j]]
         /\ \A y : Append([j \in 1..n |-> f[j]], x) = Append([j \in 1..n |-> f[j]], y)
                   => x = y
<1> DEFINE s == [j \in 1..n |-> f[j]]
<1>1. s \in Seq({f[j] : j \in 1..n}) /\ Len(s) = n
  OBVIOUS
<1>2. \A y : /\ DOMAIN Append(s, y) = 1..(n + 1)
             /\ Append(s, y)[n + 1] = y
             /\ \A j \in 1..n : Append(s, y)[j] = f[j]
  <2> SUFFICES ASSUME NEW y
               PROVE  /\ DOMAIN Append(s, y) = 1..(n + 1)
                      /\ Append(s, y)[n + 1] = y
                      /\ \A j \in 1..n : Append(s, y)[j] = f[j]
    OBVIOUS
  <2>1. \A j \in 1..n : s[j] = f[j]
    OBVIOUS
  <2> DEFINE S == {f[j] : j \in 1..n} \cup {y}
  <2>2. s \in Seq(S) /\ y \in S
    OBVIOUS
  <2> HIDE DEF s, S
  <2> QED
    BY <1>1, <2>1, <2>2
<1> DEFINE S == {f[j] : j \in 1..n} \cup {x}
<1>3. Append(s, x) \in [1..(n + 1) -> S]
  <2>1. s \in Seq(S) /\ x \in S
    OBVIOUS
  <2> HIDE DEF s, S
  <2>2. Append(s, x) \in Seq(S) /\ Len(Append(s, x)) = n + 1
    BY <1>1, <2>1
  <2>3. \A q \in Seq(S) : q \in [1..Len(q) -> S]
    OBVIOUS
  <2> QED
    BY <2>2, <2>3, Zenon
<1> DEFINE z == Append(s, x)
           w == [j \in 1..(n + 1) |-> IF j = n + 1 THEN x ELSE f[j]]
<1>4. z = w
  <2>1. \A j \in 1..(n + 1) : z[j] = w[j]
    <3> HIDE DEF s
    <3> QED
      BY <1>2
  <2>2. z = [j \in 1..(n + 1) |-> z[j]]
    <3> HIDE DEF s, S
    <3> QED
      BY <1>3
  <2>3. w = [j \in 1..(n + 1) |-> w[j]]
    OBVIOUS
  <2> HIDE DEF z, w
  <2> QED
    BY <2>1, <2>2, <2>3
<1>5. \A y : z = Append(s, y) => x = y
  <2> HIDE DEF s
  <2> QED
    BY <1>2
<1> QED
  BY <1>4, <1>5

LEMMA ChainIsPayloads ==
  ASSUME NEW rows, NEW n \in Nat, \A i \in 1..n : RowSound(rows, i)
  PROVE  \A i \in 1..n : rows[i].hash = [j \in 1..i |-> rows[j].payload]
<1> DEFINE B == {i \in 1..n : rows[i].hash # [j \in 1..i |-> rows[j].payload]}
<1>1. SUFFICES ASSUME B # {} PROVE FALSE
  OBVIOUS
<1>2. PICK m \in B : \A i \in B : m <= i
  <2>1. B \subseteq Nat
    OBVIOUS
  <2> HIDE DEF B
  <2> QED
    BY <1>1, <2>1, LeastNatural
<1>3. m \in 1..n /\ rows[m].hash # [j \in 1..m |-> rows[j].payload]
  BY <1>2
<1>4. rows[m].hash = Append(PreviousHash(rows, m), rows[m].payload)
  BY <1>3 DEF RowSound, HashPolicyEvent
<1> DEFINE k == m - 1
           f == [j \in 1..n |-> rows[j].payload]
<1>5. k \in Nat /\ m = k + 1
  BY <1>3
<1>6. PreviousHash(rows, m) = [j \in 1..k |-> f[j]]
  <2>1. CASE m = 1
    <3>1. k = 0 /\ 1..k = {}
      BY <2>1
    <3> QED
      BY <2>1, <3>1 DEF PreviousHash, Genesis
  <2>2. CASE m # 1
    <3>1. k \in 1..n /\ k \notin B
      BY <1>2, <1>3, <2>2
    <3>2. rows[k].hash = [j \in 1..k |-> rows[j].payload]
      BY <3>1
    <3>3. \A j \in 1..k : f[j] = rows[j].payload
      BY <3>1
    <3> QED
      BY <2>2, <3>2, <3>3 DEF PreviousHash
  <2> QED
    BY <2>1, <2>2
<1>7. rows[m].hash = [j \in 1..(k + 1) |-> IF j = k + 1 THEN rows[m].payload ELSE f[j]]
  <2> HIDE DEF k, f
  <2> QED
    BY <1>4, <1>5, <1>6, AppendAt
<1>8. [j \in 1..(k + 1) |-> IF j = k + 1 THEN rows[m].payload ELSE f[j]]
        = [j \in 1..m |-> rows[j].payload]
  <2>1. \A j \in 1..m : (IF j = k + 1 THEN rows[m].payload ELSE f[j]) = rows[j].payload
    BY <1>3, <1>5
  <2> HIDE DEF f, k
  <2> QED
    BY <1>5, <2>1
<1> QED
  BY <1>3, <1>7, <1>8

\* What the audit reports, of the listing of a table.
LEMMA AuditIs ==
  ASSUME NEW t, Table(t)
  PROVE  LET rows == Listing(t)
             audit == VerifyPolicyHistory(rows)
         IN  /\ audit.valid \in BOOLEAN
             /\ audit.valid <=> Faulty(rows) = {}
             /\ audit.valid => /\ audit.event_count = Len(rows)
                               /\ audit.head_hash = HeadHash(rows)
             /\ ~ audit.valid => \E i \in Faulty(rows) :
                  /\ \A j \in Faulty(rows) : i <= j
                  /\ audit.first_invalid_sequence = rows[i].seq
<1> DEFINE rows == Listing(t)
           audit == VerifyPolicyHistory(rows)
<1>1. Faulty(rows) \subseteq Nat
  <2>1. DOMAIN rows = 1..Cardinality(t) /\ Cardinality(t) \in Nat
    BY ListingRanks
  <2> QED
    BY <2>1 DEF Faulty
<1> HIDE DEF rows
<1>2. CASE Faulty(rows) = {}
  BY <1>2 DEF VerifyPolicyHistory, rows
<1>3. CASE Faulty(rows) # {}
  <2>1. PICK i \in Faulty(rows) : \A j \in Faulty(rows) : i <= j
    BY <1>1, <1>3, LeastNatural
  <2>2. Min(Faulty(rows)) = i
    BY <1>1, <2>1, MinIs
  <2>3. audit.valid = FALSE /\ audit.first_invalid_sequence = rows[i].seq
    BY <1>3, <2>2 DEF VerifyPolicyHistory
  <2> QED
    BY <1>3, <2>1, <2>3 DEF rows
<1> QED
  BY <1>2, <1>3

-----------------------------------------------------------------------------
\* The invariant.

\* The chain of the report an auditor keeps.
KeptInv ==
  /\ kept.event_count \in Nat
  /\ DOMAIN kept.payloads = 1..kept.event_count
  /\ kept.head_hash = [j \in 1..kept.event_count |-> kept.payloads[j]]

\* The triggers keep the rows it speaks of.
GuardInv ==
  guarded => \A i \in 1..kept.event_count :
               \E a \in table : a.seq = i /\ a.payload = kept.payloads[i]

\* After one edit: what is before its place is sound, and unless the newest
\* event was edited its place or the one after it is at fault.
Located ==
  LET s == firstEdit.seq
  IN  /\ s \in Nat \ {0} /\ firstEdit.last \in Nat
      /\ \A i \in 1..(s - 1) : i \in DOMAIN Events /\ RowSound(Events, i)
      /\ \/ Faulty(Events) = {} /\ s >= firstEdit.last
         \/ s \in Faulty(Events)
         \/ s \in DOMAIN Events /\ Events[s].seq = s /\ s + 1 \in Faulty(Events)

EditInv == /\ edits \in Nat
           /\ edits = 0 => Faulty(Events) = {}
           /\ edits = 1 => Located

AuditInv == Table(table) /\ KeptInv /\ GuardInv /\ EditInv

LEMMA LastIsGreatest ==
  ASSUME Table(table)
  PROVE  /\ LastSeq \in Nat
         /\ \A a \in table : a.seq <= LastSeq
         /\ table # {} => /\ Len(Events) \in 1..Cardinality(table)
                          /\ Events[Len(Events)] \in table
                          /\ LastSeq = Events[Len(Events)].seq
         /\ table = {} => LastSeq = 0 /\ Cardinality(table) = 0
<1> DEFINE n == Cardinality(table)
<1>1. CASE table = {}
  BY <1>1, FS_EmptySet DEF LastSeq
<1>2. CASE table # {}
  <2>1. n \in Nat /\ n # 0
    BY <1>2, Ranks, FS_EmptySet DEF Table
  <2>2. Len(Events) = n /\ Events[n] \in table
    BY <2>1, ListingRanks DEF Events
  <2>3. Events[n].seq \in Nat
    BY <2>2 DEF Table
  <2>4. ASSUME NEW a \in table PROVE a.seq <= Events[n].seq
    <3> DEFINE i == Cardinality(UpTo(table, a.seq))
    <3>1. i \in 1..n /\ Events[i] = a /\ a.seq \in Nat
      BY Ranks, ListingRanks DEF Events, Table
    <3>2. i < n => Events[i].seq < Events[n].seq
      BY <2>1, <3>1, ListingRanks DEF Events
    <3> HIDE DEF i
    <3> QED
      BY <2>1, <2>3, <3>1, <3>2
  <2> QED
    BY <1>2, <2>1, <2>2, <2>3, <2>4 DEF LastSeq
<1> QED
  BY <1>1, <1>2

\* The service writes on: all rows stay where they are, as sound as they were.
LEMMA WritingOn ==
  ASSUME Table(table), NEW payload, CreatePolicyEvent(payload)
  PROVE  LET n == Cardinality(table)
         IN  /\ Table(table')
             /\ n \in Nat /\ DOMAIN Events = 1..n /\ DOMAIN Events' = 1..(n + 1)
             /\ \A i \in 1..n : Events'[i] = Events[i]
             /\ Events'[n + 1] = Successor(payload)
             /\ \A i \in 1..n : RowSound(Events', i) <=> RowSound(Events, i)
             /\ Faulty(Events) \subseteq 1..n
             /\ Faulty(Events') \cap 1..n = Faulty(Events)
             /\ Faulty(Events) = {} => Faulty(Events') = {}
<1> DEFINE n == Cardinality(table)
           b == Successor(payload)
<1>1. table' = table \cup {b}
  BY DEF CreatePolicyEvent
<1>2. b.seq = LastSeq + 1 /\ LastSeq \in Nat /\ \A a \in table : a.seq <= LastSeq
  BY LastIsGreatest DEF Successor
<1>3. b = [seq |-> b.seq, prev |-> b.prev, payload |-> b.payload, hash |-> b.hash]
  BY DEF Successor
<1>4. \A a \in table : a.seq < b.seq /\ a.seq \in Nat
  BY <1>2 DEF Table
<1>5. b \notin table
  BY <1>2, <1>4
<1>6. Table(table')
  <2>1. IsFiniteSet(table')
    BY <1>1, FS_AddElement DEF Table
  <2>2. \A a, c \in table' : a.seq = c.seq => a = c
    <3> HIDE DEF b
    <3> QED
      BY <1>1, <1>2, <1>4 DEF Table
  <2>3. \A a \in table' : /\ a.seq \in Nat \ {0}
                          /\ a = [seq |-> a.seq, prev |-> a.prev,
                                  payload |-> a.payload, hash |-> a.hash]
    <3> HIDE DEF b
    <3> QED
      BY <1>1, <1>2, <1>3 DEF Table
  <2> QED
    BY <2>1, <2>2, <2>3 DEF Table
<1>7. Events' = Listing(table \cup {b})
  BY <1>1 DEF Events
<1>8. /\ n \in Nat /\ DOMAIN Events = 1..n /\ Len(Events) = n /\ Events \in Seq(table)
  BY ListingRanks DEF Events
<1>9. /\ Cardinality(table') = n + 1
      /\ \A i \in 1..n : Events'[i] = Events[i]
      /\ Events'[n + 1] = b
  <2> HIDE DEF b
  <2>1. Table(table \cup {b}) /\ \A a \in table : a.seq < b.seq
    BY <1>1, <1>4, <1>6
  <2>2. /\ Cardinality(table \cup {b}) = n + 1
        /\ \A i \in 1..n : Listing(table \cup {b})[i] = Listing(table)[i]
        /\ Listing(table \cup {b})[n + 1] = b
    BY <1>5, <2>1, ListingGrows
  <2> QED
    BY <1>1, <1>7, <2>2 DEF Events
<1>10. DOMAIN Events' = 1..(n + 1)
  <2> HIDE DEF b
  <2>1. DOMAIN Listing(table') = 1..Cardinality(table')
    BY <1>6, ListingRanks
  <2> QED
    BY <1>1, <1>7, <1>9, <2>1
<1>11. \A i \in 1..n : RowSound(Events', i) <=> RowSound(Events, i)
  <2> SUFFICES ASSUME NEW i \in 1..n PROVE RowSound(Events', i) <=> RowSound(Events, i)
    OBVIOUS
  <2>1. i # 1 => i - 1 \in 1..n
    BY <1>8
  <2> QED
    BY <1>9, <2>1 DEF RowSound, PreviousHash
<1>12. Faulty(Events) \subseteq 1..n /\ Faulty(Events') \cap 1..n = Faulty(Events)
  BY <1>8, <1>10, <1>11 DEF Faulty
<1>13. ASSUME Faulty(Events) = {} PROVE Faulty(Events') = {}
  <2>1. LastSeq = n /\ HeadHash(Events) = PreviousHash(Events', n + 1)
    <3>1. CASE table = {}
      <4>1. n = 0 /\ LastSeq = 0
        BY <3>1, LastIsGreatest
      <4> QED
        BY <1>8, <4>1 DEF HeadHash, PreviousHash
    <3>2. CASE table # {}
      <4>1. n \in 1..n /\ LastSeq = Events[n].seq
        BY <1>8, <3>2, LastIsGreatest
      <4>2. RowSound(Events, n)
        BY <1>8, <1>13, <4>1 DEF Faulty
      <4>3. Events # << >> /\ n + 1 # 1 /\ (n + 1) - 1 = n
        BY <1>8, <4>1
      <4> QED
        BY <1>8, <1>9, <4>1, <4>2, <4>3 DEF HeadHash, PreviousHash, RowSound
    <3> QED
      BY <3>1, <3>2
  <2>2. RowSound(Events', n + 1)
    BY <1>9, <2>1 DEF RowSound, Successor
  <2> QED
    BY <1>8, <1>10, <1>11, <1>13, <2>2 DEF Faulty
<1> QED
  BY <1>6, <1>8, <1>9, <1>10, <1>11, <1>12, <1>13

-----------------------------------------------------------------------------
\* The invariant holds at first, and while nobody edits.

LEMMA InitInv == Init => AuditInv
<1> SUFFICES ASSUME Init PROVE AuditInv
  OBVIOUS
<1>1. table = {} /\ edits = 0 /\ kept = NoReport
  BY DEF Init
<1>2. Table(table)
  BY <1>1, FS_EmptySet DEF Table
<1>3. Faulty(Events) = {}
  <2>1. DOMAIN Events = 1..0
    BY <1>1, <1>2, ListingRanks, FS_EmptySet DEF Events
  <2> QED
    BY <2>1 DEF Faulty
<1>4. KeptInv
  <2>1. kept.event_count = 0 /\ kept.head_hash = << >> /\ kept.payloads = << >>
    BY <1>1 DEF NoReport, Genesis
  <2>2. 1..0 = {}
    OBVIOUS
  <2> QED
    BY <2>1, <2>2 DEF KeptInv
<1>5. GuardInv
  BY <1>4, <1>1 DEF GuardInv, NoReport
<1> QED
  BY <1>1, <1>2, <1>3, <1>4, <1>5 DEF AuditInv, EditInv

LEMMA CreateInv ==
  ASSUME AuditInv, NEW payload, CreatePolicyEvent(payload)
  PROVE  AuditInv'
<1> DEFINE n == Cardinality(table)
<1>1. Table(table)
  BY DEF AuditInv
<1>2. /\ Table(table')
      /\ n \in Nat /\ DOMAIN Events = 1..n /\ DOMAIN Events' = 1..(n + 1)
      /\ \A i \in 1..n : Events'[i] = Events[i]
      /\ \A i \in 1..n : RowSound(Events', i) <=> RowSound(Events, i)
      /\ Faulty(Events) \subseteq 1..n
      /\ Faulty(Events') \cap 1..n = Faulty(Events)
      /\ Faulty(Events) = {} => Faulty(Events') = {}
  BY <1>1, WritingOn
<1>3. /\ table' = table \cup {Successor(payload)}
      /\ UNCHANGED <<guarded, edits, firstEdit, kept>>
  BY DEF CreatePolicyEvent
<1>4. KeptInv'
  BY <1>3 DEF AuditInv, KeptInv
<1>5. GuardInv'
  BY <1>3 DEF AuditInv, GuardInv
<1>6. ASSUME edits = 1 PROVE Located'
  <2> DEFINE s == firstEdit.seq
  <2>1. /\ s \in Nat \ {0} /\ firstEdit.last \in Nat
        /\ \A i \in 1..(s - 1) : i \in DOMAIN Events /\ RowSound(Events, i)
        /\ \/ Faulty(Events) = {} /\ s >= firstEdit.last
           \/ s \in Faulty(Events)
           \/ s \in DOMAIN Events /\ Events[s].seq = s /\ s + 1 \in Faulty(Events)
    BY <1>6 DEF AuditInv, EditInv, Located
  <2>2. \A i \in 1..n : i \in 1..(n + 1)
    BY <1>2
  <2> HIDE DEF n
  <2>3. \A i \in 1..(s - 1) : i \in DOMAIN Events' /\ RowSound(Events', i)
    BY <1>2, <2>1, <2>2
  <2>4. s \in DOMAIN Events /\ Events[s].seq = s =>
          s \in DOMAIN Events' /\ Events'[s].seq = s
    BY <1>2, <2>2
  <2>5. Faulty(Events) \subseteq Faulty(Events')
    BY <1>2
  <2> QED
    BY <1>2, <1>3, <2>1, <2>3, <2>4, <2>5 DEF Located
<1>7. EditInv'
  <2>1. edits' = edits /\ edits \in Nat /\ (edits = 0 => Faulty(Events) = {})
    BY <1>3 DEF AuditInv, EditInv
  <2>2. edits' = 0 => Faulty(Events') = {}
    BY <1>2, <2>1
  <2>3. edits' = 1 => Located'
    BY <1>6, <2>1
  <2> QED
    BY <2>1, <2>2, <2>3 DEF EditInv
<1> QED
  BY <1>2, <1>4, <1>5, <1>7 DEF AuditInv

\* A history found valid, and its head.
LEMMA ValidHistory ==
  ASSUME Table(table), Audit.valid
  PROVE  LET n == Cardinality(table)
         IN  /\ n \in Nat /\ DOMAIN Events = 1..n
             /\ Audit.event_count = n /\ Audit.head_hash = HeadHash(Events)
             /\ \A i \in 1..n : RowSound(Events, i) /\ Events[i] \in table
             /\ \A i \in 1..n : Events[i].hash = [j \in 1..i |-> Events[j].payload]
             /\ HeadHash(Events) = [j \in 1..n |-> Events[j].payload]
<1> DEFINE n == Cardinality(table)
<1>1. n \in Nat /\ DOMAIN Events = 1..n /\ Len(Events) = n /\ Events \in [1..n -> table]
  BY ListingRanks DEF Events
<1>2. Faulty(Events) = {} /\ Audit.event_count = Len(Events) /\ Audit.head_hash = HeadHash(Events)
  BY AuditIs DEF Audit, Events
<1>3. \A i \in 1..n : RowSound(Events, i) /\ Events[i] \in table
  BY <1>1, <1>2 DEF Faulty
<1>4. \A i \in 1..n : Events[i].hash = [j \in 1..i |-> Events[j].payload]
  BY <1>1, <1>3, ChainIsPayloads
<1>5. HeadHash(Events) = [j \in 1..n |-> Events[j].payload]
  <2>1. CASE n = 0
    <3>1. Events = << >> /\ 1..n = {}
      BY <1>1, <2>1
    <3> QED
      BY <3>1 DEF HeadHash, Genesis
  <2>2. CASE n # 0
    <3>1. n \in 1..n /\ Events # << >>
      BY <1>1, <2>2
    <3> QED
      BY <1>1, <1>4, <3>1 DEF HeadHash
  <2> QED
    BY <2>1, <2>2
<1> QED
  BY <1>1, <1>2, <1>3, <1>4, <1>5

LEMMA VerifyInv ==
  ASSUME AuditInv, VerifyHistory
  PROVE  AuditInv'
<1> DEFINE n == Cardinality(table)
<1>1. Table(table) /\ Audit.valid
  BY DEF AuditInv, VerifyHistory
<1>2. /\ n \in Nat /\ DOMAIN Events = 1..n
      /\ Audit.event_count = n /\ Audit.head_hash = HeadHash(Events)
      /\ \A i \in 1..n : RowSound(Events, i) /\ Events[i] \in table
      /\ HeadHash(Events) = [j \in 1..n |-> Events[j].payload]
  BY <1>1, ValidHistory
<1>3. /\ UNCHANGED <<table, written, guarded, edits, firstEdit>>
      /\ kept'.event_count = Audit.event_count
      /\ kept'.head_hash = Audit.head_hash
      /\ kept'.payloads = [i \in DOMAIN Events |-> Events[i].payload]
  BY DEF VerifyHistory
<1>4. Events' = Events
  BY <1>3 DEF Events
<1> HIDE DEF n
<1>5. /\ kept'.event_count = n
      /\ DOMAIN kept'.payloads = 1..n
      /\ \A i \in 1..n : kept'.payloads[i] = Events[i].payload
  BY <1>2, <1>3
<1>6. KeptInv'
  BY <1>2, <1>3, <1>5 DEF KeptInv
<1>7. GuardInv'
  <2>1. \A i \in 1..n : Events[i].seq = i
    BY <1>2 DEF RowSound
  <2> QED
    BY <1>2, <1>3, <1>5, <2>1 DEF GuardInv
<1>8. EditInv'
  BY <1>3, <1>4 DEF AuditInv, EditInv, Located
<1> QED
  BY <1>1, <1>3, <1>6, <1>7, <1>8 DEF AuditInv

-----------------------------------------------------------------------------
\* The invariant while somebody edits.

\* The constraints see to it that a table stays one.
LEMMA EditedTable ==
  ASSUME Table(table), NEW t, IsFiniteSet(t), t \subseteq table \cup Forged, Constraints(t)
  PROVE  Table(t)
<1>1. LastSeq \in Nat
  BY LastIsGreatest
<1>2. \A a \in Forged : /\ a.seq \in 1..(LastSeq + 1)
                        /\ a = [seq |-> a.seq, prev |-> a.prev,
                                payload |-> a.payload, hash |-> a.hash]
  BY DEF Forged
<1>3. \A a \in t : /\ a.seq \in Nat \ {0}
                   /\ a = [seq |-> a.seq, prev |-> a.prev,
                           payload |-> a.payload, hash |-> a.hash]
  BY <1>1, <1>2 DEF Table
<1>4. \A a, b \in t : a.seq = b.seq => a = b
  BY DEF Constraints
<1> QED
  BY <1>3, <1>4 DEF Table

\* A history without fault has its rows numbered from 1 on.
LEMMA SoundTable ==
  ASSUME Table(table), Faulty(Events) = {}
  PROVE  LET n == Cardinality(table)
         IN  /\ n \in Nat /\ LastSeq = n /\ DOMAIN Events = 1..n
             /\ \A i \in 1..n : Events[i] \in table /\ Events[i].seq = i /\ RowSound(Events, i)
             /\ \A a \in table : a.seq \in 1..n /\ Events[a.seq] = a
<1> DEFINE n == Cardinality(table)
<1>1. n \in Nat /\ DOMAIN Events = 1..n /\ Len(Events) = n /\ Events \in [1..n -> table]
  BY ListingRanks DEF Events
<1>2. \A i \in 1..n : Events[i] \in table /\ RowSound(Events, i) /\ Events[i].seq = i
  BY <1>1 DEF Faulty, RowSound
<1>3. ASSUME NEW a \in table PROVE a.seq \in 1..n /\ Events[a.seq] = a
  <2> DEFINE i == Cardinality(UpTo(table, a.seq))
  <2>1. i \in 1..n /\ Events[i] = a
    BY Ranks, ListingRanks DEF Events
  <2> HIDE DEF i, n
  <2> QED
    BY <1>2, <2>1
<1>4. LastSeq = n
  <2>1. CASE table = {}
    BY <2>1, LastIsGreatest
  <2>2. CASE table # {}
    <3>1. n \in 1..n /\ LastSeq = Events[n].seq
      BY <1>1, <2>2, LastIsGreatest
    <3> QED
      BY <1>2, <3>1
  <2> QED
    BY <2>1, <2>2
<1> QED
  BY <1>1, <1>2, <1>3, <1>4

\* The rows before the place of an edit stay where they are, and sound.
LEMMA SoundBefore ==
  ASSUME Table(table), Faulty(Events) = {}, NEW t, Table(t),
         NEW m \in Nat, m <= Cardinality(table), \A a \in table : a.seq <= m => a \in t
  PROVE  /\ m <= Cardinality(t)
         /\ \A i \in 1..m : /\ i \in DOMAIN Listing(t) /\ Listing(t)[i] = Events[i]
                             /\ RowSound(Listing(t), i)
<1> DEFINE n == Cardinality(table)
<1>1. /\ n \in Nat /\ DOMAIN Events = 1..n
      /\ \A i \in 1..n : Events[i] \in table /\ Events[i].seq = i /\ RowSound(Events, i)
  BY SoundTable
<1>2. \A i \in 1..m : Events[i] \in t /\ Events[i].seq = i
  BY <1>1
<1>3. /\ m <= Cardinality(t)
      /\ \A a \in t : a.seq <= m => Listing(t)[a.seq] = a
  BY <1>2, ListedAtTheirNumber
<1>4. Cardinality(t) \in Nat /\ DOMAIN Listing(t) = 1..Cardinality(t)
  BY ListingRanks
<1>5. \A i \in 1..m : i \in DOMAIN Listing(t) /\ Listing(t)[i] = Events[i]
  BY <1>2, <1>3, <1>4
<1>6. \A i \in 1..m : RowSound(Listing(t), i)
  <2> SUFFICES ASSUME NEW i \in 1..m PROVE RowSound(Listing(t), i)
    OBVIOUS
  <2>1. i # 1 => i - 1 \in 1..m
    OBVIOUS
  <2>2. RowSound(Events, i)
    BY <1>1
  <2> QED
    BY <1>5, <2>1, <2>2 DEF RowSound, PreviousHash
<1> QED
  BY <1>3, <1>5, <1>6

\* Located, of a table and the first edit.
LocatedIn(t, s, last) ==
  /\ s \in Nat \ {0} /\ last \in Nat
  /\ \A i \in 1..(s - 1) : i \in DOMAIN Listing(t) /\ RowSound(Listing(t), i)
  /\ \/ Faulty(Listing(t)) = {} /\ s >= last
     \/ s \in Faulty(Listing(t))
     \/ s \in DOMAIN Listing(t) /\ Listing(t)[s].seq = s /\ s + 1 \in Faulty(Listing(t))

\* A row made up for a history without fault takes a new number only behind it.
LEMMA InsertLocated ==
  ASSUME Table(table), Faulty(Events) = {}, NEW b \in Forged \ table,
         Constraints(table \cup {b}), Table(table \cup {b})
  PROVE  LocatedIn(table \cup {b}, b.seq, LastSeq)
<1> DEFINE n == Cardinality(table)
           t == table \cup {b}
<1>1. /\ n \in Nat /\ LastSeq = n
      /\ \A i \in 1..n : Events[i] \in table /\ Events[i].seq = i
  BY SoundTable
<1>2. b.seq \in 1..(LastSeq + 1)
  BY DEF Forged
<1>3. b.seq = n + 1
  <2>1. ASSUME b.seq \in 1..n PROVE FALSE
    <3>1. Events[b.seq] \in table /\ Events[b.seq].seq = b.seq
      BY <1>1, <2>1
    <3>2. Events[b.seq] = b
      BY <3>1 DEF Constraints
    <3> QED
      BY <3>1, <3>2
  <2> HIDE DEF n
  <2> QED
    BY <1>1, <1>2, <2>1
<1>4. Cardinality(t) = n + 1
  BY FS_AddElement DEF Table
<1> HIDE DEF n
<1>5. \A i \in 1..n : i \in DOMAIN Listing(t) /\ RowSound(Listing(t), i)
  BY <1>1, SoundBefore DEF n
<1>6. DOMAIN Listing(t) = 1..(n + 1)
  BY <1>4, ListingRanks
<1> HIDE DEF t
<1>7. \A i \in DOMAIN Listing(t) : i # n + 1 => RowSound(Listing(t), i)
  BY <1>1, <1>5, <1>6
<1>8. Faulty(Listing(t)) = {} \/ n + 1 \in Faulty(Listing(t))
  BY <1>7 DEF Faulty
<1>9. n + 1 \in Nat \ {0} /\ (n + 1) - 1 = n /\ n + 1 >= n
  BY <1>1
<1> QED
  BY <1>1, <1>3, <1>5, <1>8, <1>9 DEF LocatedIn, t

LEMMA DeleteLocated ==
  ASSUME Table(table), Faulty(Events) = {}, NEW a \in table, Table(table \ {a})
  PROVE  LocatedIn(table \ {a}, a.seq, LastSeq)
<1> DEFINE n == Cardinality(table)
           t == table \ {a}
           s == a.seq
<1>1. n \in Nat /\ LastSeq = n /\ s \in 1..n
  BY SoundTable
<1>2. Cardinality(t) = n - 1
  BY FS_RemoveElement DEF Table
<1>3. \A b \in t : b.seq # s
  BY DEF Table
<1>4. \A b \in table : b.seq <= s - 1 => b \in t
  BY <1>1
<1> HIDE DEF n, s
<1>5. \A i \in 1..(s - 1) : i \in DOMAIN Listing(t) /\ RowSound(Listing(t), i)
  <2>1. s - 1 \in Nat /\ s - 1 <= n
    BY <1>1
  <2> QED
    BY <1>4, <2>1, SoundBefore DEF n
<1>6. DOMAIN Listing(t) = 1..(n - 1) /\ Listing(t) \in [1..(n - 1) -> t]
  BY <1>2, ListingRanks
<1>7. CASE s = n
  <2>1. Faulty(Listing(t)) = {}
    BY <1>5, <1>6, <1>7 DEF Faulty
  <2> HIDE DEF t
  <2> QED
    BY <1>1, <1>5, <1>7, <2>1 DEF LocatedIn, s, t
<1>8. CASE s # n
  <2>1. s \in 1..(n - 1)
    BY <1>1, <1>8
  <2>2. Listing(t)[s].seq # s
    BY <1>3, <1>6, <2>1
  <2>3. s \in Faulty(Listing(t))
    BY <1>6, <2>1, <2>2 DEF Faulty, RowSound
  <2> HIDE DEF t
  <2> QED
    BY <1>1, <1>5, <2>3 DEF LocatedIn, s, t
<1> QED
  BY <1>7, <1>8

\* A row replaced by one of the same number is not sound, or the row after it
\* is not: both link to the hash, which binds the payload.
LEMMA ReplacedIsFound ==
  ASSUME Table(table), Faulty(Events) = {}, NEW a \in table, NEW b \in Forged \ table,
         b.seq = a.seq, Table((table \ {a}) \cup {b}), a.seq < Cardinality(table),
         RowSound(Listing((table \ {a}) \cup {b}), a.seq)
  PROVE  a.seq + 1 \in Faulty(Listing((table \ {a}) \cup {b}))
<1> DEFINE n == Cardinality(table)
           t == (table \ {a}) \cup {b}
           s == a.seq
           rows == Listing(t)
<1>1. /\ n \in Nat /\ s \in 1..n /\ s # n /\ Events[s] = a
      /\ \A i \in 1..n : Events[i] \in table /\ Events[i].seq = i /\ RowSound(Events, i)
  BY SoundTable
<1>2. \A i \in 1..n : \E c \in t : c.seq = i
  <2> SUFFICES ASSUME NEW i \in 1..n PROVE \E c \in t : c.seq = i
    OBVIOUS
  <2>1. CASE i = s
    BY <2>1
  <2>2. CASE i # s
    BY <1>1, <2>2
  <2> QED
    BY <2>1, <2>2
<1>3. /\ n <= Cardinality(t)
      /\ \A c \in t : c.seq <= n => rows[c.seq] = c
  <2>1. Table(t)
    OBVIOUS
  <2> HIDE DEF t, n
  <2> QED
    BY <1>1, <1>2, <2>1, ListedAtTheirNumber
<1>4. rows[s] = b
  BY <1>1, <1>3
<1>5. \A i \in 1..n : i # s => rows[i] = Events[i]
  <2> SUFFICES ASSUME NEW i \in 1..n, i # s PROVE rows[i] = Events[i]
    OBVIOUS
  <2>1. Events[i] \in t /\ Events[i].seq = i
    BY <1>1
  <2> QED
    BY <1>3, <2>1
<1>6. DOMAIN rows = 1..Cardinality(t) /\ Cardinality(t) \in Nat
  BY ListingRanks
<1> HIDE DEF n, s
<1>7. s + 1 \in DOMAIN rows /\ s + 1 \in 1..n /\ (s + 1) - 1 = s /\ s + 1 # 1
  BY <1>1, <1>3, <1>6
<1> DEFINE k == s - 1
           f == [j \in 1..k |-> Events[j].payload]
<1>8. k \in Nat /\ \A i \in 1..k : RowSound(Events, i)
  BY <1>1
<1>9. /\ PreviousHash(Events, s) = [j \in 1..k |-> f[j]]
      /\ PreviousHash(rows, s) = PreviousHash(Events, s)
  <2>1. CASE s = 1
    <3>1. k = 0 /\ 1..k = {}
      BY <2>1
    <3> QED
      BY <2>1, <3>1 DEF PreviousHash, Genesis
  <2>2. CASE s # 1
    <3>1. k \in 1..k /\ k \in 1..n /\ k # s
      BY <1>1, <2>2
    <3>2. Events[k].hash = [j \in 1..k |-> Events[j].payload] /\ rows[k] = Events[k]
      BY <1>5, <1>8, <3>1, ChainIsPayloads
    <3>3. \A j \in 1..k : f[j] = Events[j].payload
      OBVIOUS
    <3> HIDE DEF rows
    <3> QED
      BY <2>2, <3>2, <3>3 DEF PreviousHash
  <2> QED
    BY <2>1, <2>2
<1> HIDE DEF t, rows, k, f
<1>10. /\ b.prev = PreviousHash(Events, s) /\ b.hash = Append(PreviousHash(Events, s), b.payload)
       /\ a.prev = PreviousHash(Events, s) /\ a.hash = Append(PreviousHash(Events, s), a.payload)
  <2>1. RowSound(rows, s) /\ RowSound(Events, s)
    BY <1>1 DEF rows, s, t
  <2> QED
    BY <1>1, <1>4, <1>9, <2>1 DEF RowSound, HashPolicyEvent
<1>11. a.hash # b.hash
  <2>1. SUFFICES ASSUME a.hash = b.hash PROVE FALSE
    OBVIOUS
  <2>2. a.payload = b.payload
    BY <1>8, <1>9, <1>10, <2>1, AppendAt
  <2>3. /\ a = [seq |-> a.seq, prev |-> a.prev, payload |-> a.payload, hash |-> a.hash]
        /\ b = [seq |-> b.seq, prev |-> b.prev, payload |-> b.payload, hash |-> b.hash]
    BY DEF Table
  <2> QED
    BY <1>10, <2>1, <2>2, <2>3
<1>12. Events[s + 1].prev = a.hash
  <2>1. RowSound(Events, s + 1)
    BY <1>1, <1>7
  <2> QED
    BY <1>1, <1>7, <2>1 DEF RowSound, PreviousHash
<1>13. ~ RowSound(rows, s + 1)
  <2>1. rows[s + 1] = Events[s + 1]
    BY <1>5, <1>7, <1>1
  <2> QED
    BY <1>4, <1>7, <1>11, <1>12, <2>1 DEF RowSound, PreviousHash
<1> QED
  BY <1>7, <1>13 DEF Faulty, rows, s, t

LEMMA UpdateLocated ==
  ASSUME Table(table), Faulty(Events) = {}, NEW a \in table, NEW b \in Forged \ table,
         Table((table \ {a}) \cup {b})
  PROVE  LocatedIn((table \ {a}) \cup {b}, IF a.seq < b.seq THEN a.seq ELSE b.seq, LastSeq)
<1> DEFINE n == Cardinality(table)
           t == (table \ {a}) \cup {b}
           s == a.seq
<1>1. /\ n \in Nat /\ LastSeq = n /\ s \in 1..n
      /\ \A i \in 1..n : Events[i] \in table /\ Events[i].seq = i
      /\ \A c \in table : Events[c.seq] = c
  BY SoundTable
<1>2. b.seq \in 1..(n + 1)
  BY <1>1 DEF Forged
<1>3. b.seq = s \/ b.seq = n + 1
  <2>1. ASSUME b.seq \in 1..n, b.seq # s PROVE FALSE
    <3> DEFINE c == Events[b.seq]
    <3>1. c \in table /\ c.seq = b.seq
      BY <1>1, <2>1
    <3> HIDE DEF c
    <3>2. c \in t /\ b \in t
      BY <2>1, <3>1
    <3>3. c = b
      BY <3>1, <3>2 DEF Table
    <3> QED
      BY <3>1, <3>3
  <2> HIDE DEF n, s
  <2> QED
    BY <1>1, <1>2, <2>1
<1>4. (IF a.seq < b.seq THEN a.seq ELSE b.seq) = s
  <2> HIDE DEF n
  <2> QED
    BY <1>1, <1>3
<1>5. Cardinality(t) = n
  <2>1. IsFiniteSet(table \ {a}) /\ Cardinality(table \ {a}) = n - 1
    BY FS_RemoveElement DEF Table
  <2>2. b \notin table \ {a}
    OBVIOUS
  <2>3. Cardinality(t) = (n - 1) + 1
    BY <2>1, <2>2, FS_AddElement
  <2> HIDE DEF n, t
  <2> QED
    BY <1>1, <2>3
<1>6. \A c \in table : c.seq <= s - 1 => c \in t
  BY <1>1
<1> HIDE DEF n, s
<1>7. \A i \in 1..(s - 1) : /\ i \in DOMAIN Listing(t) /\ RowSound(Listing(t), i)
                            /\ Listing(t)[i] = Events[i]
  <2>1. s - 1 \in Nat /\ s - 1 <= n
    BY <1>1
  <2> QED
    BY <1>6, <2>1, SoundBefore DEF n
<1>8. DOMAIN Listing(t) = 1..n /\ Listing(t) \in [1..n -> t]
  BY <1>5, ListingRanks
<1>9. ASSUME b.seq # s PROVE LocatedIn(t, s, n)
  <2>1. \A c \in t : c.seq # s
    BY <1>9 DEF Table, s
  <2>2. Listing(t)[s].seq # s
    BY <1>1, <1>8, <2>1
  <2>3. s \in Faulty(Listing(t))
    BY <1>1, <1>8, <2>2 DEF Faulty, RowSound
  <2> HIDE DEF t
  <2> QED
    BY <1>1, <1>7, <2>3 DEF LocatedIn
<1>10. ASSUME b.seq = s PROVE LocatedIn(t, s, n)
  <2>1. Listing(t)[s].seq = s
    <3>1. \A i \in 1..s : \E c \in t : c.seq = i
      <4> SUFFICES ASSUME NEW i \in 1..s PROVE \E c \in t : c.seq = i
        OBVIOUS
      <4>1. CASE i = s
        BY <1>10, <4>1
      <4>2. CASE i # s
        <5>1. Events[i] \in table /\ Events[i].seq = i /\ i <= s - 1
          BY <1>1, <4>2
        <5> QED
          BY <1>6, <5>1
      <4> QED
        BY <4>1, <4>2
    <3>2. s \in Nat
      BY <1>1
    <3>3. \A i \in 1..s : Listing(t)[i].seq = i
      BY <3>1, <3>2, ListedAtTheirNumber
    <3> QED
      BY <1>1, <3>3
  <2>2. CASE s \in Faulty(Listing(t))
    <3> HIDE DEF t
    <3> QED
      BY <1>1, <1>7, <2>2 DEF LocatedIn
  <2>3. CASE s \notin Faulty(Listing(t)) /\ s # n
    <3>1. RowSound(Listing(t), s)
      BY <1>1, <1>8, <2>3 DEF Faulty
    <3>2. s < n
      BY <1>1, <2>3
    <3>3. s + 1 \in Faulty(Listing(t))
      BY <1>10, <3>1, <3>2, ReplacedIsFound DEF n, s
    <3> HIDE DEF t
    <3> QED
      BY <1>1, <1>7, <1>8, <2>1, <3>3 DEF LocatedIn
  <2>4. CASE s \notin Faulty(Listing(t)) /\ s = n
    <3> HIDE DEF t
    <3>1. \A i \in DOMAIN Listing(t) : RowSound(Listing(t), i)
      <4> SUFFICES ASSUME NEW i \in DOMAIN Listing(t) PROVE RowSound(Listing(t), i)
        OBVIOUS
      <4>1. i \in 1..(s - 1) \/ i = s
        BY <1>1, <1>8, <2>4
      <4> QED
        BY <1>7, <2>4, <4>1 DEF Faulty
    <3>2. Faulty(Listing(t)) = {}
      BY <3>1 DEF Faulty
    <3> QED
      BY <1>1, <1>7, <2>4, <3>2 DEF LocatedIn
  <2> QED
    BY <2>2, <2>3, <2>4
<1> QED
  BY <1>1, <1>4, <1>9, <1>10 DEF t

LEMMA EditKeepsInv ==
  ASSUME AuditInv, NEW t, NEW s, Edit(t, s), Table(t),
         guarded => table \subseteq t,
         Faulty(Events) = {} => LocatedIn(t, s, LastSeq)
  PROVE  AuditInv'
<1>1. /\ table' = t /\ edits' = edits + 1
      /\ firstEdit' = IF edits = 0 THEN [seq |-> s, last |-> LastSeq] ELSE firstEdit
      /\ UNCHANGED <<written, guarded, kept>>
  BY DEF Edit
<1>2. Events' = Listing(t)
  BY <1>1 DEF Events
<1>3. KeptInv'
  BY <1>1 DEF AuditInv, KeptInv
<1>4. GuardInv'
  BY <1>1 DEF AuditInv, GuardInv
<1>5. edits \in Nat /\ (edits = 0 => Faulty(Events) = {})
  BY DEF AuditInv, EditInv
<1>6. ASSUME edits' = 1 PROVE Located'
  <2>1. edits = 0
    BY <1>1, <1>5, <1>6
  <2>2. firstEdit'.seq = s /\ firstEdit'.last = LastSeq
    BY <1>1, <2>1
  <2>3. LocatedIn(t, s, LastSeq)
    BY <1>5, <2>1
  <2> QED
    BY <1>2, <2>2, <2>3 DEF Located, LocatedIn
<1>7. EditInv'
  BY <1>1, <1>5, <1>6 DEF EditInv
<1> QED
  BY <1>1, <1>3, <1>4, <1>7 DEF AuditInv

LEMMA StepInv == AuditInv /\ [Next]_vars => AuditInv'
<1> SUFFICES ASSUME AuditInv, [Next]_vars PROVE AuditInv'
  OBVIOUS
<1>1. Table(table) /\ IsFiniteSet(table)
  BY DEF AuditInv, Table
<1>2. ASSUME NEW x \in Payloads, CreatePolicyEvent(x) PROVE AuditInv'
  BY <1>2, CreateInv
<1>3. CASE VerifyHistory
  BY <1>3, VerifyInv
<1>4. CASE InsertRow
  <2>1. PICK b \in Forged \ table : Edit(table \cup {b}, b.seq)
    BY <1>4 DEF InsertRow
  <2>2. IsFiniteSet(table \cup {b}) /\ Constraints(table \cup {b})
    BY <1>1, <2>1, FS_AddElement DEF Edit
  <2>3. Table(table \cup {b})
    BY <1>1, <2>1, <2>2, EditedTable
  <2>4. Faulty(Events) = {} => LocatedIn(table \cup {b}, b.seq, LastSeq)
    BY <1>1, <2>1, <2>2, <2>3, InsertLocated
  <2> QED
    BY <2>1, <2>3, <2>4, EditKeepsInv
<1>5. CASE UpdateRow
  <2>1. ~ guarded
    BY <1>5 DEF UpdateRow
  <2>2. PICK a \in table, b \in Forged \ table :
          Edit((table \ {a}) \cup {b}, IF a.seq < b.seq THEN a.seq ELSE b.seq)
    BY <1>5 DEF UpdateRow
  <2>3. IsFiniteSet((table \ {a}) \cup {b}) /\ Constraints((table \ {a}) \cup {b})
    BY <1>1, <2>2, FS_RemoveElement, FS_AddElement DEF Edit
  <2>4. Table((table \ {a}) \cup {b})
    BY <1>1, <2>2, <2>3, EditedTable
  <2>5. Faulty(Events) = {} =>
          LocatedIn((table \ {a}) \cup {b}, IF a.seq < b.seq THEN a.seq ELSE b.seq, LastSeq)
    BY <1>1, <2>2, <2>4, UpdateLocated
  <2> QED
    BY <2>1, <2>2, <2>4, <2>5, EditKeepsInv
<1>6. CASE DeleteRow
  <2>1. ~ guarded
    BY <1>6 DEF DeleteRow
  <2>2. PICK a \in table : Edit(table \ {a}, a.seq)
    BY <1>6 DEF DeleteRow
  <2>3. IsFiniteSet(table \ {a}) /\ Constraints(table \ {a})
    BY <1>1, <2>2, FS_RemoveElement DEF Edit
  <2>4. Table(table \ {a})
    BY <1>1, <2>3, EditedTable
  <2>5. Faulty(Events) = {} => LocatedIn(table \ {a}, a.seq, LastSeq)
    BY <1>1, <2>2, <2>4, DeleteLocated
  <2> QED
    BY <2>1, <2>2, <2>4, <2>5, EditKeepsInv
<1>7. CASE DisableTriggers
  <2>1. guarded' = FALSE /\ UNCHANGED <<table, written, edits, firstEdit, kept>>
    BY <1>7 DEF DisableTriggers
  <2>2. Events' = Events
    BY <2>1 DEF Events
  <2> QED
    BY <2>1, <2>2 DEF AuditInv, KeptInv, GuardInv, EditInv, Located
<1>8. CASE UNCHANGED vars
  <2>1. Events' = Events
    BY <1>8 DEF Events, vars
  <2> QED
    BY <1>8, <2>1 DEF AuditInv, KeptInv, GuardInv, EditInv, Located, vars
<1> QED
  BY <1>2, <1>3, <1>4, <1>5, <1>6, <1>7, <1>8 DEF Next

\* What holds of the table, the report an auditor keeps and the first edit,
\* whoever writes (001_core_schema.sql:36-48, history.ts:12-57).
THEOREM AuditInvariant == Spec => []AuditInv
<1>1. Init => AuditInv
  BY InitInv
<1>2. AuditInv /\ [Next]_vars => AuditInv'
  BY StepInv
<1> QED
  BY <1>1, <1>2, PTL DEF Spec

-----------------------------------------------------------------------------
\* The properties.

\* The head of a valid history stands for every event in it: the same hash at
\* the same place of a history valid now means the same events, for any number
\* of edits in between (history.ts:12-57).
THEOREM HeadBinds == Spec => []KeptHeadBinds
<1>1. AuditInv => KeptHeadBinds
  <2> DEFINE n == kept.event_count
  <2>1. SUFFICES ASSUME AuditInv, n > 0, Audit.valid, n <= Len(Events),
                        Events[n].hash = kept.head_hash, NEW i \in 1..n
                 PROVE  Events[i].payload = kept.payloads[i]
    BY DEF KeptHeadBinds
  <2>2. Table(table) /\ n \in Nat /\ kept.head_hash = [j \in 1..n |-> kept.payloads[j]]
    BY <2>1 DEF AuditInv, KeptInv
  <2>3. Len(Events) = Cardinality(table) /\ Cardinality(table) \in Nat
    BY <2>2, ListingRanks DEF Events
  <2>4. n \in 1..Cardinality(table)
    BY <2>1, <2>2, <2>3
  <2>5. Events[n].hash = [j \in 1..n |-> Events[j].payload]
    BY <2>1, <2>2, <2>4, ValidHistory
  <2> HIDE DEF n
  <2>6. [j \in 1..n |-> Events[j].payload][i] = [j \in 1..n |-> kept.payloads[j]][i]
    BY <2>1, <2>2, <2>5
  <2> QED
    BY <2>1, <2>6
<1> QED
  BY <1>1, AuditInvariant, PTL

\* While the triggers are in force, what an auditor has seen stays in its place
\* (003_append_only_guards.sql:1-13).
THEOREM SeenStays == Spec => []GuardsKeepWhatWasSeen
<1>1. AuditInv => GuardsKeepWhatWasSeen
  <2> DEFINE n == kept.event_count
  <2>1. SUFFICES ASSUME AuditInv, guarded
                 PROVE  /\ n <= Len(Events)
                        /\ \A i \in 1..n : /\ Events[i].seq = i
                                           /\ Events[i].payload = kept.payloads[i]
    BY DEF GuardsKeepWhatWasSeen
  <2>2. /\ Table(table) /\ n \in Nat
        /\ \A i \in 1..n : \E a \in table : a.seq = i /\ a.payload = kept.payloads[i]
    BY <2>1 DEF AuditInv, KeptInv, GuardInv
  <2> HIDE DEF n
  <2>3. /\ n <= Cardinality(table)
        /\ \A a \in table : a.seq <= n => Events[a.seq] = a
    BY <2>2, ListedAtTheirNumber DEF Events
  <2>4. Len(Events) = Cardinality(table)
    BY <2>2, ListingRanks DEF Events
  <2>5. ASSUME NEW i \in 1..n
        PROVE  Events[i].seq = i /\ Events[i].payload = kept.payloads[i]
    <3>1. PICK a \in table : a.seq = i /\ a.payload = kept.payloads[i]
      BY <2>2
    <3> QED
      BY <2>2, <2>3, <3>1
  <2> QED
    BY <2>3, <2>4, <2>5
<1> QED
  BY <1>1, AuditInvariant, PTL

\* A single change is found where it was made, or at the row after it, however
\* long the service goes on; only the newest event can be changed unnoticed
\* (history.ts:12-57, docs/ARCHITECTURE.md:126).
THEOREM ChangeIsLocated == Spec => []OneChangeIsLocated
<1>1. AuditInv => OneChangeIsLocated
  <2> DEFINE s == firstEdit.seq
             n == Cardinality(table)
             later == {a.seq : a \in table} \ 1..s
  <2>1. SUFFICES ASSUME AuditInv, edits = 1
                 PROVE  IF Audit.valid THEN s >= firstEdit.last
                        ELSE Audit.first_invalid_sequence \in
                               {s} \cup (IF later = {} THEN {} ELSE {Min(later)})
    BY DEF OneChangeIsLocated
  <2>2. Table(table) /\ Located
    BY <2>1 DEF AuditInv, EditInv
  <2>3. /\ s \in Nat \ {0}
        /\ \A i \in 1..(s - 1) : i \in DOMAIN Events /\ RowSound(Events, i)
        /\ \/ Faulty(Events) = {} /\ s >= firstEdit.last
           \/ s \in Faulty(Events)
           \/ s \in DOMAIN Events /\ Events[s].seq = s /\ s + 1 \in Faulty(Events)
    BY <2>2 DEF Located
  <2>4. CASE Audit.valid
    <3>1. Faulty(Events) = {}
      BY <2>2, <2>4, AuditIs DEF Audit, Events
    <3> QED
      BY <2>3, <2>4, <3>1
  <2>5. CASE ~ Audit.valid
    <3>1. PICK i \in Faulty(Events) : /\ \A j \in Faulty(Events) : i <= j
                                     /\ Audit.first_invalid_sequence = Events[i].seq
      BY <2>2, <2>5, AuditIs DEF Audit, Events
    <3>2. /\ n \in Nat /\ DOMAIN Events = 1..n
          /\ \A j \in 1..n : Events[j] \in table /\ Events[j].seq \in Nat \ {0}
          /\ \A j, k \in 1..n : j < k => Events[j].seq < Events[k].seq
          /\ \A a \in table : \E j \in 1..n : Events[j] = a
      <4>1. \A a \in table : Events[Cardinality(UpTo(table, a.seq))] = a
        BY <2>2, ListingRanks DEF Events
      <4>2. \A a \in table : \E j \in 1..n : Events[j] = a
        BY <2>2, <4>1, Ranks
      <4>3. /\ n \in Nat /\ DOMAIN Events = 1..n
            /\ \A j \in 1..n : Events[j] \in table
            /\ \A j, k \in 1..n : j < k => Events[j].seq < Events[k].seq
        BY <2>2, ListingRanks DEF Events
      <4> QED
        BY <2>2, <4>2, <4>3 DEF Table
    <3> HIDE DEF n, s
    <3>3. i \in 1..n /\ ~ RowSound(Events, i)
      BY <3>1, <3>2 DEF Faulty
    <3>4. i >= s /\ \A j \in 1..(s - 1) : j \in 1..n /\ Events[j].seq = j
      <4>1. \A j \in 1..(s - 1) : j \in 1..n /\ Events[j].seq = j
        BY <2>3, <3>2 DEF RowSound
      <4>2. i \notin 1..(s - 1)
        BY <2>3, <3>3
      <4> QED
        BY <2>3, <3>3, <4>1, <4>2
    <3>5. \A j \in 1..n : j < s => Events[j].seq = j
      BY <2>3, <3>4
    \* The first fault is the last place at or before which a number up to s
    \* can stand, or the place after it.
    <3>6. Events[i].seq = s \/ \A j \in 1..n : j < i => Events[j].seq <= s
      <4>1. CASE i = s
        BY <2>3, <3>2, <3>4, <3>5, <4>1
      <4>2. CASE i # s
        <5>1. i > s /\ s \notin Faulty(Events)
          BY <2>3, <3>1, <3>3, <3>4, <4>2
        <5>2. s \in 1..n /\ Events[s].seq = s /\ s + 1 \in Faulty(Events)
          BY <2>3, <3>1, <3>2, <5>1
        <5>3. i = s + 1
          BY <2>3, <3>1, <3>3, <5>1, <5>2
        <5> QED
          BY <2>3, <3>2, <3>5, <5>2, <5>3
      <4> QED
        BY <4>1, <4>2
    <3>7. Events[i].seq >= s
      <4>1. CASE s = 1
        BY <3>2, <3>3, <4>1
      <4>2. CASE s # 1
        <5>1. s - 1 \in 1..n /\ Events[s - 1].seq = s - 1 /\ s - 1 < i
          BY <2>3, <3>3, <3>4, <4>2
        <5>2. s - 1 < Events[i].seq
          BY <3>2, <3>3, <5>1
        <5> QED
          BY <2>3, <3>2, <3>3, <5>2
      <4> QED
        BY <4>1, <4>2
    <3>8. CASE Events[i].seq = s
      BY <2>5, <3>1, <3>8
    <3>9. CASE Events[i].seq # s
      <4> DEFINE m == Events[i].seq
      <4>1. m \in Nat /\ m > s
        BY <2>3, <3>2, <3>3, <3>7, <3>9
      <4>2. m \in later
        BY <2>3, <3>2, <3>3, <4>1
      <4>3. ASSUME NEW x \in later PROVE x \in Nat /\ m <= x
        <5>1. PICK j \in 1..n : Events[j].seq = x
          BY <3>2
        <5>2. x \in Nat /\ x > s
          BY <2>3, <3>2, <5>1
        <5>3. j >= i
          BY <2>3, <3>2, <3>3, <3>6, <3>9, <5>1, <5>2
        <5> QED
          BY <3>2, <3>3, <5>1, <5>2, <5>3
      <4> HIDE DEF later
      <4>4. later \subseteq Nat
        BY <4>3
      <4>5. Min(later) = m
        BY <4>2, <4>3, <4>4, MinIs
      <4> QED
        BY <2>5, <3>1, <4>2, <4>5
    <3> QED
      BY <3>8, <3>9
  <2> QED
    BY <2>4, <2>5
<1> QED
  BY <1>1, AuditInvariant, PTL

\* The service does not write a fault away: the audit names the same place
\* after every event it adds (policies.service.ts:695-735).
THEOREM FaultsStay == Spec => FaultsStayFound
<1>1. AuditInv /\ [Next]_vars =>
        [(~ Audit.valid /\ written' # written) =>
           /\ ~ Audit'.valid
           /\ Audit'.first_invalid_sequence = Audit.first_invalid_sequence]_vars
  <2>1. SUFFICES ASSUME AuditInv, Next, ~ Audit.valid, written' # written
                 PROVE  /\ ~ Audit'.valid
                        /\ Audit'.first_invalid_sequence = Audit.first_invalid_sequence
    OBVIOUS
  <2>2. PICK x \in Payloads : CreatePolicyEvent(x)
    BY <2>1 DEF Next, VerifyHistory, InsertRow, UpdateRow, DeleteRow, DisableTriggers, Edit
  <2> DEFINE n == Cardinality(table)
  <2>3. Table(table)
    BY <2>1 DEF AuditInv
  <2>4. /\ Table(table')
        /\ n \in Nat
        /\ \A i \in 1..n : Events'[i] = Events[i]
        /\ Faulty(Events) \subseteq 1..n
        /\ Faulty(Events') \cap 1..n = Faulty(Events)
    BY <2>2, <2>3, WritingOn
  <2>5. PICK i \in Faulty(Events) : /\ \A j \in Faulty(Events) : i <= j
                                   /\ Audit.first_invalid_sequence = Events[i].seq
    BY <2>1, <2>3, AuditIs DEF Audit, Events
  <2>6. ~ Audit'.valid
    BY <2>4, <2>5, AuditIs DEF Audit, Events
  <2>7. PICK k \in Faulty(Events') : /\ \A j \in Faulty(Events') : k <= j
                                    /\ Audit'.first_invalid_sequence = Events'[k].seq
    BY <2>4, <2>6, AuditIs DEF Audit, Events
  <2>8. DOMAIN Events' \subseteq Nat \ {0}
    <3>1. DOMAIN Listing(table') = 1..Cardinality(table')
      BY <2>4, ListingRanks
    <3> QED
      BY <3>1 DEF Events
  <2> HIDE DEF n
  <2>9. k = i
    <3>1. k \in Nat \ {0} /\ i \in 1..n /\ i \in Faulty(Events')
      BY <2>4, <2>5, <2>7, <2>8 DEF Faulty
    <3>2. k <= i
      BY <2>7, <3>1
    <3>3. k \in Faulty(Events)
      BY <2>4, <2>7, <3>1, <3>2
    <3> QED
      BY <2>5, <3>1, <3>2, <3>3
  <2> QED
    BY <2>4, <2>5, <2>6, <2>7, <2>9
<1> QED
  BY <1>1, AuditInvariant, PTL DEF Spec, FaultsStayFound
=============================================================================
