---------------------------- MODULE StartupProofs ----------------------------
(***************************************************************************)
(* Proofs about Startup for every set of replicas, list of migrations and  *)
(* choice of images, and for any number of failures.                       *)
(***************************************************************************)
EXTENDS Startup, TLAPS

\* What a runner knows of its place: the files before it are in effect, and a
\* file it is applying is the first that is not.
Place(r) ==
  /\ stage[r] \in Migrating => position[r] - 1 <= Len(schema)
  /\ stage[r] = "applying" =>
       position[r] <= Shipped[r] /\ position[r] = Len(schema) + 1
  /\ stage[r] \in Migrating => position[r] <= Shipped[r] + 1

IInv == TypeOK /\ AppliedOnceInOrder /\ ServesMigrated /\ \A r \in Replicas : Place(r)

\* A name is on record exactly if its file is in effect.
LEMMA RecordTellsPlace ==
  ASSUME TypeOK, AppliedOnceInOrder, NEW i \in 1..Len(Files)
  PROVE  Files[i] \in names <=> i <= Len(schema)
<1>1. Len(schema) \in Nat /\ Len(Files) \in Nat
  BY FilesAssumption DEF TypeOK
<1>2. ASSUME Files[i] \in names PROVE i <= Len(schema)
  <2>1. PICK j \in 1..Len(schema) : Files[j] = Files[i]
    BY <1>2 DEF AppliedOnceInOrder
  <2>2. j \in 1..Len(Files)
    BY <1>1 DEF AppliedOnceInOrder
  <2> QED
    BY <2>1, <2>2, FilesAssumption
<1>3. ASSUME i <= Len(schema) PROVE Files[i] \in names
  BY <1>1, <1>3 DEF AppliedOnceInOrder
<1> QED
  BY <1>2, <1>3

LEMMA InitIInv == Init => IInv
<1> SUFFICES ASSUME Init PROVE IInv
  OBVIOUS
<1>1. schema \in Seq(STRING) /\ Len(schema) = 0 /\ names = {}
  BY DEF Init
<1>2. TypeOK
  BY <1>1, ReplicasAssumption, BoundAssumption DEF Init, TypeOK, Stages, Connected, Migrating
<1>3. AppliedOnceInOrder
  BY <1>1, FilesAssumption DEF AppliedOnceInOrder
<1>4. ServesMigrated /\ \A r \in Replicas : Place(r)
  BY DEF Init, ServesMigrated, Place, Migrating
<1> QED
  BY <1>2, <1>3, <1>4 DEF IInv

\* The steps that leave the schema alone; a runner may advance past a file on
\* record, and a replica that starts to seed has run out of files.
LEMMA SameSchema ==
  ASSUME IInv, UNCHANGED <<names, schema>>, TypeOK',
         \A r \in Replicas :
           /\ stage'[r] \in Migrating => Place(r)'
           /\ stage'[r] \in {"seeding", "serving"} =>
                stage[r] \in {"seeding", "serving"} \/ Shipped[r] <= Len(schema)
  PROVE  IInv'
<1>1. AppliedOnceInOrder'
  BY DEF IInv, AppliedOnceInOrder
<1>2. ServesMigrated'
  BY DEF IInv, ServesMigrated
<1>3. \A r \in Replicas : Place(r)'
  BY DEF Place, Migrating
<1> QED
  BY <1>1, <1>2, <1>3 DEF IInv

\* Nobody else migrates while r does.
LEMMA OneRunner ==
  ASSUME TypeOK, NEW r \in Replicas, stage[r] \in Migrating,
         NEW q \in Replicas, stage[q] \in Migrating
  PROVE  q = r
  BY DEF TypeOK

LEMMA CommitIInv ==
  ASSUME IInv, NEW r \in Replicas, CommitFile(r)
  PROVE  IInv'
<1> DEFINE n == Len(schema)
<1>1. /\ n \in Nat /\ Len(Files) \in Nat /\ schema \in Seq(STRING)
      /\ \A q \in Replicas : Shipped[q] \in 0..Len(Files)
      /\ position \in [Replicas -> Nat \ {0}] /\ stage \in [Replicas -> Stages]
  BY FilesAssumption DEF IInv, TypeOK
<1>2. /\ stage[r] = "applying" /\ position[r] = n + 1 /\ n + 1 <= Shipped[r]
      /\ n + 1 \in 1..Len(Files)
  BY <1>1 DEF CommitFile, IInv, Place
<1>3. NextFile(r) = Files[n + 1] /\ Files[n + 1] \in STRING
  BY <1>1, <1>2, FilesAssumption DEF NextFile
<1>4. /\ schema' = Append(schema, Files[n + 1]) /\ schema' \in Seq(STRING)
      /\ Len(schema') = n + 1 /\ names' = names \cup {Files[n + 1]}
  BY <1>1, <1>3 DEF CommitFile
<1>5. AppliedOnceInOrder'
  <2>1. \A i \in 1..(n + 1) : schema'[i] = Files[i]
    <3> SUFFICES ASSUME NEW i \in 1..(n + 1) PROVE schema'[i] = Files[i]
      OBVIOUS
    <3>1. CASE i = n + 1
      BY <1>1, <1>4, <3>1
    <3>2. CASE i \in 1..n
      BY <1>1, <1>4, <3>2 DEF IInv, AppliedOnceInOrder
    <3> QED
      BY <1>1, <3>1, <3>2
  <2>2. names' = {Files[i] : i \in 1..(n + 1)}
    <3>1. names = {Files[i] : i \in 1..n}
      BY DEF IInv, AppliedOnceInOrder
    <3>2. 1..(n + 1) = (1..n) \cup {n + 1}
      BY <1>1
    <3> QED
      BY <1>4, <3>1, <3>2
  <2> QED
    BY <1>2, <1>4, <2>1, <2>2 DEF AppliedOnceInOrder
<1>6. ASSUME NEW q \in Replicas, q # r
      PROVE  stage[q] \notin Migrating /\ stage'[q] = stage[q]
  <2>1. stage[r] \in Migrating
    BY <1>2 DEF Migrating
  <2> QED
    BY <1>1, <1>6, <2>1, OneRunner DEF IInv, CommitFile, Go
<1>7. TypeOK'
  <2>1. names' \subseteq {Files[i] : i \in 1..Len(Files)}
    BY <1>2, <1>4 DEF IInv, TypeOK
  <2>2. /\ stage' \in [Replicas -> Stages] /\ position' \in [Replicas -> Nat \ {0}]
        /\ stage'[r] \in {"checking", "exited"}
    <3>1. \/ stage' = [stage EXCEPT ![r] = "checking"] /\ Advance(r)
          \/ stage' = [stage EXCEPT ![r] = "exited"] /\ UNCHANGED position
      BY DEF CommitFile, Go
    <3>2. {"checking", "exited"} \subseteq Stages
      BY DEF Stages, Connected
    <3>3. position[r] + 1 \in Nat \ {0}
      BY <1>1
    <3> QED
      BY <1>1, <3>1, <3>2, <3>3 DEF Advance
  <2>3. lock = r
    BY <1>2 DEF IInv, TypeOK, Migrating
  <2>4. /\ stage'[r] = "checking" => lock' = r
        /\ stage'[r] = "exited" => lock' = None
    BY <1>1, <2>3 DEF CommitFile, Go, Released
  <2>5. \A q \in Replicas : lock' = q <=> stage'[q] \in Migrating
    BY <1>1, <1>6, <2>2, <2>3, <2>4, ReplicasAssumption DEF Migrating
  <2>6. failures' \in 0..MaxFailures /\ lock' \in Replicas \cup {None}
    BY <2>2, <2>3, <2>4, BoundAssumption DEF IInv, TypeOK, CommitFile
  <2>7. UNCHANGED <<policy, endorsed, up>>
    BY DEF CommitFile
  <2> QED
    BY <1>4, <2>1, <2>2, <2>5, <2>6, <2>7 DEF IInv, TypeOK
<1>8. ServesMigrated'
  <2> SUFFICES ASSUME NEW q \in Replicas, stage'[q] \in {"seeding", "serving"}
               PROVE  Shipped[q] <= n + 1
    BY <1>4 DEF ServesMigrated
  <2>1. q # r
    BY <1>1 DEF CommitFile, Go
  <2> QED
    BY <1>1, <1>6, <2>1 DEF IInv, ServesMigrated
<1>9. \A q \in Replicas : Place(q)'
  <2> SUFFICES ASSUME NEW q \in Replicas PROVE Place(q)'
    OBVIOUS
  <2>1. CASE q = r
    <3>1. stage'[r] = "exited" \/ (stage'[r] = "checking" /\ position'[r] = n + 2)
      BY <1>1, <1>2 DEF CommitFile, Go, Advance
    <3> QED
      BY <1>1, <1>2, <1>4, <2>1, <3>1 DEF Place, Migrating
  <2>2. CASE q # r
    BY <1>6, <2>2 DEF Place, Migrating
  <2> QED
    BY <2>1, <2>2
<1> QED
  BY <1>5, <1>7, <1>8, <1>9 DEF IInv

LEMMA ScriptIInv ==
  ASSUME IInv, NEW r \in Replicas, Script(r)
  PROVE  IInv'
<1> USE DEF Go, Migrating
<1>0. /\ stage \in [Replicas -> Stages] /\ position \in [Replicas -> Nat \ {0}]
      /\ Len(schema) \in Nat /\ Len(Files) \in Nat
      /\ \A q \in Replicas : Shipped[q] \in 0..Len(Files)
      /\ \A q \in Replicas : Place(q)
      /\ \A q \in Replicas : lock = q <=> stage[q] \in Migrating
      /\ TypeOK /\ AppliedOnceInOrder
  BY FilesAssumption DEF IInv, TypeOK
<1>1. CASE DatabaseReady(r)
  <2>1. TypeOK'
    BY <1>0, <1>1 DEF DatabaseReady, TypeOK, Stages, Connected
  <2> QED
    BY <1>0, <1>1, <2>1, SameSchema DEF DatabaseReady, Place
<1>2. CASE WaitTimesOut(r)
  <2>1. TypeOK'
    BY <1>0, <1>2 DEF WaitTimesOut, TypeOK, Stages, Connected
  <2> QED
    BY <1>0, <1>2, <2>1, SameSchema DEF WaitTimesOut, Place
<1>3. CASE AcquireLock(r)
  <2>1. TypeOK'
    BY <1>0, <1>3, ReplicasAssumption
       DEF AcquireLock, LockFree, TypeOK, Stages, Connected
  <2> QED
    BY <1>0, <1>3, <2>1, SameSchema DEF AcquireLock, Place
<1>4. CASE SkipFile(r)
  <2>1. TypeOK'
    BY <1>0, <1>4 DEF SkipFile, Advance, TypeOK, Stages, Connected
  <2>2. position[r] \in 1..Len(Files) /\ position[r] <= Shipped[r]
    BY <1>0, <1>4 DEF SkipFile, HasNext
  <2>3. position[r] <= Len(schema)
    BY <1>0, <1>4, <2>2, RecordTellsPlace DEF SkipFile, NextFile
  <2>4. Place(r)'
    BY <1>0, <1>4, <2>2, <2>3 DEF SkipFile, Advance, Place
  <2>5. \A q \in Replicas : q # r => Place(q)'
    BY <1>0, <1>4 DEF SkipFile, Advance, Place
  <2>6. \A q \in Replicas : stage'[q] = stage[q]
    BY <1>0, <1>4 DEF SkipFile
  <2> QED
    BY <1>4, <2>1, <2>4, <2>5, <2>6, SameSchema DEF SkipFile
<1>5. CASE RunFile(r)
  <2>1. TypeOK'
    BY <1>0, <1>5 DEF RunFile, TypeOK, Stages, Connected
  <2>2. position[r] \in 1..Len(Files) /\ position[r] <= Shipped[r]
    BY <1>0, <1>5 DEF RunFile, HasNext
  <2>3. position[r] = Len(schema) + 1
    <3>1. ~ (position[r] <= Len(schema))
      BY <1>0, <1>5, <2>2, RecordTellsPlace DEF RunFile, NextFile
    <3> QED
      BY <1>0, <1>5, <2>2, <3>1 DEF RunFile, Place
  <2>4. Place(r)'
    BY <1>0, <1>5, <2>2, <2>3 DEF RunFile, Place
  <2>5. \A q \in Replicas : q # r => Place(q)' /\ stage'[q] = stage[q]
    BY <1>0, <1>5 DEF RunFile, Place
  <2>6. stage'[r] = "applying"
    BY <1>0, <1>5 DEF RunFile
  <2> QED
    BY <1>5, <2>1, <2>4, <2>5, <2>6, SameSchema DEF RunFile
<1>6. CASE CommitFile(r)
  BY <1>6, CommitIInv
<1>7. CASE FilesDone(r)
  <2>1. TypeOK'
    BY <1>0, <1>7, ReplicasAssumption DEF FilesDone, Released, TypeOK, Stages, Connected
  <2>2. Shipped[r] <= Len(schema)
    BY <1>0, <1>7 DEF FilesDone, HasNext, Place
  <2> QED
    BY <1>0, <1>7, <2>1, <2>2, SameSchema DEF FilesDone, Place
<1>8. CASE Seed(r)
  <2>1. TypeOK'
    BY <1>0, <1>8 DEF Seed, Seeded, TypeOK, Stages, Connected
  <2> QED
    BY <1>0, <1>8, <2>1, SameSchema DEF Seed, Place
<1> QED
  BY <1>1, <1>2, <1>3, <1>4, <1>5, <1>6, <1>7, <1>8 DEF Script

LEMMA StepIInv == IInv /\ [Next]_vars => IInv'
<1> SUFFICES ASSUME IInv, [Next]_vars PROVE IInv'
  OBVIOUS
<1>0. /\ stage \in [Replicas -> Stages] /\ TypeOK
      /\ \A q \in Replicas : Place(q)
  BY DEF IInv, TypeOK
<1>1. ASSUME NEW r \in Replicas, Start(r) PROVE IInv'
  <2>1. TypeOK'
    BY <1>0, <1>1 DEF Start, Go, TypeOK, Stages, Connected, Migrating
  <2> QED
    BY <1>0, <1>1, <2>1, SameSchema DEF Start, Go, Place, Migrating
<1>2. ASSUME NEW r \in Replicas, Script(r) PROVE IInv'
  BY <1>2, ScriptIInv
<1>3. ASSUME NEW r \in Replicas, Endorse(r) PROVE IInv'
  <2>1. TypeOK'
    BY <1>0, <1>3 DEF Endorse, TypeOK
  <2> QED
    BY <1>0, <1>3, <2>1, SameSchema DEF Endorse, Place, Migrating
<1>4. ASSUME NEW r \in Replicas, Fail(r) PROVE IInv'
  <2>1. TypeOK'
    BY <1>0, <1>4, ReplicasAssumption, BoundAssumption
       DEF Fail, Released, TypeOK, Stages, Connected, Migrating
  <2> QED
    BY <1>0, <1>4, <2>1, SameSchema DEF Fail, Place, Migrating
<1>5. ASSUME Outage PROVE IInv'
  <2>1. \A q \in Replicas : stage'[q] \notin Migrating
    BY <1>0, <1>5 DEF Outage, Connected, Migrating
  <2>2. stage' \in [Replicas -> Stages]
    BY <1>0, <1>5 DEF Outage, Stages
  <2>3. failures' \in 0..MaxFailures
    <3>1. failures \in 0..MaxFailures /\ failures < MaxFailures
      BY <1>0, <1>5 DEF Outage, TypeOK
    <3>2. failures' = failures + 1
      BY <1>5 DEF Outage
    <3> QED
      BY <3>1, <3>2, BoundAssumption
  <2>4. lock' = None /\ up' \in BOOLEAN /\ UNCHANGED <<position, names, schema, policy, endorsed>>
    BY <1>5 DEF Outage
  <2>5. TypeOK'
    BY <1>0, <2>1, <2>2, <2>3, <2>4, ReplicasAssumption DEF TypeOK
  <2> QED
    BY <1>0, <1>5, <2>1, <2>5, SameSchema DEF Outage
<1>6. ASSUME Recover PROVE IInv'
  <2>1. TypeOK'
    BY <1>0, <1>6 DEF Recover, TypeOK
  <2> QED
    BY <1>0, <1>6, <2>1, SameSchema DEF Recover, Place, Migrating
<1>7. CASE UNCHANGED vars
  <2>1. TypeOK'
    BY <1>0, <1>7 DEF vars, TypeOK
  <2> QED
    BY <1>0, <1>7, <2>1, SameSchema DEF vars, Place, Migrating
<1> QED
  BY <1>1, <1>2, <1>3, <1>4, <1>5, <1>6, <1>7 DEF Next

THEOREM StartupInvariant == Spec => []IInv
  BY InitIInv, StepIInv, PTL DEF Spec

\* Migrations take effect in the order of their names, each once, and are on
\* record exactly when they are in effect, for any replicas, images and failures.
THEOREM MigrationsInOrder == Spec => []AppliedOnceInOrder
<1>1. IInv => AppliedOnceInOrder
  BY DEF IInv
<1> QED
  BY <1>1, StartupInvariant, PTL

\* No replica serves, or seeds, before the migrations of its image.
THEOREM NoTrafficBeforeMigrations == Spec => []ServesMigrated
<1>1. IInv => ServesMigrated
  BY DEF IInv
<1> QED
  BY <1>1, StartupInvariant, PTL

\* No two runners apply the same file.
THEOREM OneRunnerPerFile == Spec => []RunnersDoNotCollide
<1>1. IInv => RunnersDoNotCollide
  <2> SUFFICES ASSUME IInv, NEW r \in Replicas, stage[r] = "applying"
               PROVE  NextFile(r) \notin names
    BY DEF RunnersDoNotCollide
  <2>1. /\ position[r] = Len(schema) + 1 /\ position[r] <= Shipped[r]
        /\ Shipped[r] \in 0..Len(Files) /\ Len(Files) \in Nat /\ Len(schema) \in Nat
    BY FilesAssumption DEF IInv, Place, TypeOK
  <2>2. position[r] \in 1..Len(Files) /\ ~ (position[r] <= Len(schema))
    BY <2>1
  <2> QED
    BY <2>2, RecordTellsPlace DEF IInv, NextFile
<1> QED
  BY <1>1, StartupInvariant, PTL

\* The restart of a replica never takes an endorsement back: the seeded premium
\* is written only while there is no policy (seed.mjs, ON CONFLICT DO NOTHING).
THEOREM EndorsementsSurvive == Spec => []SeedKeepsEndorsements
<1>1. Init => SeedKeepsEndorsements
  BY DEF Init, SeedKeepsEndorsements
<1>2. SeedKeepsEndorsements /\ [Next]_vars => SeedKeepsEndorsements'
  <2> SUFFICES ASSUME SeedKeepsEndorsements, [Next]_vars PROVE SeedKeepsEndorsements'
    OBVIOUS
  <2>1. ASSUME UNCHANGED <<policy, endorsed>> PROVE SeedKeepsEndorsements'
    BY <2>1 DEF SeedKeepsEndorsements
  <2>2. ASSUME NEW r \in Replicas, Seed(r) PROVE SeedKeepsEndorsements'
    BY <2>2 DEF Seed, Seeded, SeedKeepsEndorsements
  <2>3. ASSUME NEW r \in Replicas, Endorse(r) PROVE SeedKeepsEndorsements'
    BY <2>3 DEF Endorse, SeedKeepsEndorsements
  <2>4. ASSUME NEW r \in Replicas, Script(r), ~ Seed(r) PROVE UNCHANGED <<policy, endorsed>>
    BY <2>4 DEF Script, DatabaseReady, WaitTimesOut, AcquireLock, SkipFile, RunFile,
                CommitFile, FilesDone
  <2> QED
    BY <2>1, <2>2, <2>3, <2>4 DEF Next, Start, Fail, Outage, Recover, vars
<1> QED
  BY <1>1, <1>2, PTL DEF Spec
=============================================================================
