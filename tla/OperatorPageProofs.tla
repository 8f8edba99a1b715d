--------------------------- MODULE OperatorPageProofs ---------------------------
(***************************************************************************)
(* Proofs about OperatorPage, for any policies, forms, clicks and bounds.  *)
(* The invariant says what the answers under way may hold, and what is     *)
(* known of the last load as long as no other was under way when it began. *)
(***************************************************************************)
EXTENDS OperatorPage, TLAPS

Reports == [outcome : Outcomes, version : Nat]
TaskStates == [stage : {"idle", "loading", "posting"},
               policy : Policies \cup {Blank},
               answer : Reports]

\* The types, as far as the rest depends on them.
Typed ==
  /\ task \in [Tasks -> TaskStates]
  /\ policyId \in Policies \cup {Blank}
  /\ asked \in Policies
  /\ version \in [Policies -> Nat]
  /\ acked \in [Policies -> Nat]
  /\ overlapped \in BOOLEAN
  /\ DOMAIN result = Forms

Succeeded(t) == task[t].answer.outcome \in {"done", "replayed"}

\* A success, under way or acknowledged, is of a policy and of a write that the
\* service has taken.
AnswersAreKnown ==
  /\ \A p \in Policies : acked[p] <= version[p]
  /\ \A t \in Tasks : Loading(t) => task[t].policy \in Policies
  /\ \A t \in Tasks : Succeeded(t) => /\ task[t].policy \in Policies
                                      /\ task[t].answer.version <= version[task[t].policy]

\* A form says "Submitting..." exactly while its write is under way.
ResultsFollowTasks ==
  \A f \in Forms : result[f] = "submitting" <=> Posting(f)

\* A form's button is disabled exactly while the form has a call under way, its
\* write or the load that follows.
ButtonsFollowTasks ==
  /\ DOMAIN submitDisabled = Forms
  /\ \A f \in Forms : submitDisabled[f] <=> task[f].stage # "idle"

\* Unless it overlapped with another, the last load is the only one under way,
\* and what it found, or has shown, holds every acknowledged write.
LastLoadCounts ==
  ~ overlapped =>
    /\ \A t, u \in Tasks : Loading(t) /\ Loading(u) => t = u
    /\ \A t \in Tasks : Loading(t) =>
         /\ status = "loading"
         /\ task[t].policy = asked
         /\ Succeeded(t) => task[t].answer.version >= acked[asked]
    /\ status = "success" => ShowsLatest

IInv == /\ Typed /\ AnswersAreKnown
        /\ ResultsFollowTasks /\ ButtonsFollowTasks
        /\ LastLoadCounts
-----------------------------------------------------------------------------
LEMMA InvInit == Init => IInv
<1> SUFFICES ASSUME Init PROVE IInv
  OBVIOUS
<1>1. DefaultPolicy \in Policies
  BY TasksAssumption DEF DefaultPolicy
<1>2. /\ task = [t \in Tasks |-> IF t = FirstClick THEN Call("loading", DefaultPolicy)
                                 ELSE Idle]
      /\ policyId = DefaultPolicy /\ asked = DefaultPolicy
      /\ version = [p \in Policies |-> 0] /\ acked = [p \in Policies |-> 0]
      /\ overlapped = FALSE /\ status = "loading"
      /\ result = [f \in Forms |-> "empty"]
      /\ submitDisabled = [f \in Forms |-> FALSE]
  BY DEF Init, Opened
<1>3. Typed
  BY <1>1, <1>2 DEF Typed, TaskStates, Reports, Outcomes, Call, Idle, Pending
<1>4. AnswersAreKnown
  BY <1>1, <1>2 DEF AnswersAreKnown, Loading, Succeeded, Call, Idle, Pending
<1>5. ResultsFollowTasks
  BY <1>2 DEF ResultsFollowTasks, Posting, Tasks, Call, Idle
<1>6. LastLoadCounts
  BY <1>2 DEF LastLoadCounts, Loading, Succeeded, Call, Idle, Pending
<1>7. FirstClick \notin Forms
  BY TasksAssumption DEF FirstClick
<1>8. ButtonsFollowTasks
  BY <1>2, <1>7 DEF ButtonsFollowTasks, Tasks, Idle
<1> QED
  BY <1>3, <1>4, <1>5, <1>6, <1>8 DEF IInv

\* A stutter, and a step that touches neither tasks nor what they are compared
\* with.
LEMMA InvUnchanged ==
  ASSUME IInv, policyId' \in Policies \cup {Blank},
         UNCHANGED <<task, version, history, submitDisabled, status, result, shown>>
  PROVE  IInv'
<1>1. /\ UNCHANGED <<task, version, acked, asked, overlapped>>
      /\ UNCHANGED <<submitDisabled, status, result, shown>>
  BY DEF history
<1>2. Typed' /\ AnswersAreKnown' /\ ResultsFollowTasks' /\ ButtonsFollowTasks'
  BY <1>1 DEF IInv, Typed, AnswersAreKnown, ResultsFollowTasks,
              ButtonsFollowTasks, Loading, Posting, Succeeded
<1>3. LastLoadCounts'
  BY <1>1 DEF IInv, LastLoadCounts, ShowsLatest, Loading, Succeeded
<1> QED
  BY <1>2, <1>3 DEF IInv
-----------------------------------------------------------------------------
\* The service's side: an answer is filled in, and versions only grow.

\* What Reply does, task by task.
LEMMA ReplyEffect ==
  ASSUME Typed, NEW t \in Tasks, NEW a \in Reports, Reply(t, a)
  PROVE  /\ task' \in [Tasks -> TaskStates]
         /\ task'[t].answer = a
         /\ \A u \in Tasks \ {t} : task'[u] = task[u]
         /\ \A u \in Tasks : /\ task'[u].stage = task[u].stage
                             /\ task'[u].policy = task[u].policy
BY DEF Typed, Reply, TaskStates

\* Such a step keeps the invariant if a success tells of a write that was
\* taken, and to a load of every write that was acknowledged.
LEMMA ReplyKeeps ==
  ASSUME IInv, NEW t \in Tasks, NEW a \in Reports, Reply(t, a),
         version' \in [Policies -> Nat],
         \A p \in Policies : version[p] <= version'[p],
         a.outcome \in {"done", "replayed"} =>
            /\ task[t].policy \in Policies
            /\ a.version <= version'[task[t].policy]
            /\ Loading(t) => a.version >= acked[task[t].policy],
         UNCHANGED <<page, history>>
  PROVE  IInv'
<1> USE DEF IInv
<1>1. /\ UNCHANGED <<policyId, submitDisabled, status, result, shown>>
      /\ UNCHANGED <<acked, asked, overlapped>>
  BY DEF page, history
<1>2. /\ task' \in [Tasks -> TaskStates]
      /\ task'[t].answer = a
      /\ \A u \in Tasks \ {t} : task'[u] = task[u]
      /\ \A u \in Tasks : /\ task'[u].stage = task[u].stage
                          /\ task'[u].policy = task[u].policy
  BY ReplyEffect
<1>3. Typed'
  BY <1>1, <1>2 DEF Typed
<1>4. AnswersAreKnown'
  <2>1. \A p \in Policies : acked'[p] <= version'[p]
    BY <1>1 DEF Typed, AnswersAreKnown
  <2>2. \A u \in Tasks : Loading(u)' => task'[u].policy \in Policies
    BY <1>2 DEF AnswersAreKnown, Loading
  <2>3. ASSUME NEW u \in Tasks, Succeeded(u)'
        PROVE  /\ task'[u].policy \in Policies
               /\ task'[u].answer.version <= version'[task'[u].policy]
    <3>1. CASE u = t
      BY <1>2, <2>3, <3>1 DEF Succeeded
    <3>2. CASE u # t
      <4>1. /\ task'[u] = task[u]
            /\ task[u].policy \in Policies
            /\ task[u].answer.version <= version[task[u].policy]
        BY <1>2, <2>3, <3>2 DEF Succeeded, AnswersAreKnown
      <4>2. task[u].answer.version \in Nat
        BY DEF Typed, TaskStates, Reports
      <4> QED
        BY <4>1, <4>2 DEF Typed
    <3> QED
      BY <3>1, <3>2
  <2> QED
    BY <2>1, <2>2, <2>3 DEF AnswersAreKnown
<1>5. ResultsFollowTasks'
  BY <1>1, <1>2 DEF ResultsFollowTasks, Posting, Tasks
<1>6. ButtonsFollowTasks'
  BY <1>1, <1>2 DEF ButtonsFollowTasks, Tasks
<1>7. LastLoadCounts'
  <2> SUFFICES ASSUME ~ overlapped' PROVE LastLoadCounts'
    BY DEF LastLoadCounts
  <2>1. \A u, v \in Tasks : Loading(u)' /\ Loading(v)' => u = v
    BY <1>1, <1>2 DEF LastLoadCounts, Loading
  <2>2. ASSUME NEW u \in Tasks, Loading(u)'
        PROVE  /\ status' = "loading"
               /\ task'[u].policy = asked'
               /\ Succeeded(u)' => task'[u].answer.version >= acked'[asked']
    <3>1. Loading(u) /\ status = "loading" /\ task[u].policy = asked
      BY <1>1, <1>2, <2>2 DEF LastLoadCounts, Loading
    <3>2. CASE u = t
      BY <1>1, <1>2, <3>1, <3>2 DEF Succeeded
    <3>3. CASE u # t
      BY <1>1, <1>2, <3>1, <3>3 DEF LastLoadCounts, Succeeded
    <3> QED
      BY <1>1, <1>2, <3>1, <3>2, <3>3
  <2>3. status' = "success" => ShowsLatest'
    BY <1>1 DEF LastLoadCounts, ShowsLatest
  <2> QED
    BY <2>1, <2>2, <2>3 DEF LastLoadCounts
<1> QED
  BY <1>3, <1>4, <1>5, <1>6, <1>7

LEMMA FailedIsReport == Failed \in Reports /\ Failed.outcome = "error"
BY DEF Failed, Reports, Outcomes

LEMMA InvHandleWrite ==
  ASSUME IInv, NEW f \in Forms, HandleWrite(f)
  PROVE  IInv'
<1> DEFINE p == task[f].policy
<1> USE DEF IInv
<1>1. f \in Tasks /\ p \in Policies \cup {Blank} /\ ~ Loading(f)
  BY DEF Tasks, Typed, TaskStates, HandleWrite, Posting, Loading
<1>2. UNCHANGED <<page, history>>
  BY DEF HandleWrite
<1>3. CASE /\ p # Blank
           /\ version' = [version EXCEPT ![p] = @ + 1]
           /\ Reply(f, [outcome |-> "done", version |-> version'[p]])
  <2>1. p \in Policies
    BY <1>1, <1>3
  <2>2. /\ version' \in [Policies -> Nat]
        /\ \A q \in Policies : version[q] <= version'[q]
    BY <1>3, <2>1 DEF Typed
  <2>3. [outcome |-> "done", version |-> version'[p]] \in Reports
    BY <2>1, <2>2 DEF Reports, Outcomes
  <2>4. version'[p] <= version'[p]
    BY <2>1, <2>2
  <2> QED
    BY <1>1, <1>2, <1>3, <2>1, <2>2, <2>3, <2>4, ReplyKeeps
<1>4. CASE /\ p # Blank
           /\ Reply(f, [outcome |-> "replayed", version |-> version[p]])
           /\ UNCHANGED version
  <2>1. /\ p \in Policies
        /\ version' \in [Policies -> Nat]
        /\ \A q \in Policies : version[q] <= version'[q]
    BY <1>1, <1>4 DEF Typed
  <2>2. [outcome |-> "replayed", version |-> version[p]] \in Reports
    BY <2>1 DEF Reports, Outcomes, Typed
  <2>3. version[p] <= version'[p]
    BY <2>1
  <2> QED
    BY <1>1, <1>2, <1>4, <2>1, <2>2, <2>3, ReplyKeeps
<1>5. CASE Reply(f, Failed) /\ UNCHANGED version
  <2>1. /\ version' \in [Policies -> Nat]
        /\ \A q \in Policies : version[q] <= version'[q]
    BY <1>5 DEF Typed
  <2> QED
    BY <1>1, <1>2, <1>5, <2>1, FailedIsReport, ReplyKeeps
<1> QED
  BY <1>3, <1>4, <1>5 DEF HandleWrite

LEMMA InvHandleRead ==
  ASSUME IInv, NEW t \in Tasks, HandleRead(t)
  PROVE  IInv'
<1> DEFINE p == task[t].policy
<1> USE DEF IInv
<1>1. p \in Policies /\ UNCHANGED <<page, history>>
  BY DEF HandleRead, AnswersAreKnown
<1>2. /\ version' \in [Policies -> Nat]
      /\ \A q \in Policies : version[q] <= version'[q]
  BY DEF HandleRead, Typed
<1>3. CASE Reply(t, [outcome |-> "done", version |-> version[p]])
  <2>1. [outcome |-> "done", version |-> version[p]] \in Reports
    BY <1>1 DEF Reports, Outcomes, Typed
  <2>2. version[p] <= version'[p] /\ version[p] >= acked[p]
    BY <1>1, <1>2 DEF Typed, AnswersAreKnown
  <2> QED
    BY <1>1, <1>2, <1>3, <2>1, <2>2, ReplyKeeps
<1>4. CASE Reply(t, Failed)
  BY <1>1, <1>2, <1>4, FailedIsReport, ReplyKeeps
<1> QED
  BY <1>3, <1>4 DEF HandleRead

LEMMA InvLoseAnswer ==
  ASSUME IInv, NEW t \in Tasks, LoseAnswer(t)
  PROVE  IInv'
<1>1. /\ version' \in [Policies -> Nat]
      /\ \A q \in Policies : version[q] <= version'[q]
  BY DEF IInv, LoseAnswer, Typed
<1> QED
  BY <1>1, FailedIsReport, ReplyKeeps DEF LoseAnswer

LEMMA InvWriteElsewhere ==
  ASSUME IInv, WriteElsewhere
  PROVE  IInv'
<1> USE DEF IInv
<1>1. /\ UNCHANGED <<policyId, submitDisabled, status, result, shown>>
      /\ UNCHANGED <<task, acked, asked, overlapped>>
  BY DEF WriteElsewhere, page, history
<1>2. /\ version' \in [Policies -> Nat]
      /\ \A p \in Policies : version[p] <= version'[p]
  BY DEF WriteElsewhere, Typed
<1>3. Typed' /\ ResultsFollowTasks' /\ ButtonsFollowTasks'
  BY <1>1, <1>2 DEF Typed, ResultsFollowTasks, ButtonsFollowTasks, Posting
<1>4. AnswersAreKnown'
  <2>1. \A t \in Tasks : task[t].answer.version \in Nat
    BY DEF Typed, TaskStates, Reports
  <2> QED
    BY <1>1, <1>2, <2>1 DEF Typed, AnswersAreKnown, Loading, Succeeded
<1>5. LastLoadCounts'
  BY <1>1 DEF LastLoadCounts, ShowsLatest, Loading, Succeeded
<1> QED
  BY <1>3, <1>4, <1>5
-----------------------------------------------------------------------------
\* The page's side: a call begins, goes on or ends.

\* A task that is set to an idle one or to a new call keeps what is said of the
\* answers.
LEMMA TaskSet ==
  ASSUME IInv, NEW t \in Tasks, NEW c \in {Idle} \cup
           {Call("loading", p) : p \in Policies} \cup
           {Call("posting", x) : x \in Policies \cup {Blank}},
         task' = [task EXCEPT ![t] = c],
         version' = version,
         acked' \in [Policies -> Nat],
         \A p \in Policies : acked'[p] <= version[p]
  PROVE  /\ task' \in [Tasks -> TaskStates]
         /\ task'[t] = c
         /\ \A u \in Tasks \ {t} : task'[u] = task[u]
         /\ ~ Succeeded(t)'
         /\ AnswersAreKnown'
<1>1. /\ c \in TaskStates
      /\ c.answer.outcome = "pending"
      /\ c.stage = "loading" => c.policy \in Policies
  BY DEF Call, Idle, Pending, TaskStates, Reports, Outcomes
<1>2. /\ task' \in [Tasks -> TaskStates]
      /\ task'[t] = c
      /\ \A u \in Tasks \ {t} : task'[u] = task[u]
  BY <1>1 DEF IInv, Typed
<1>3. ~ Succeeded(t)'
  BY <1>1, <1>2 DEF Succeeded
<1>4. \A u \in Tasks : Loading(u)' => task'[u].policy \in Policies
  BY <1>1, <1>2 DEF IInv, AnswersAreKnown, Loading
<1>5. \A u \in Tasks : Succeeded(u)' => u # t /\ Succeeded(u) /\ task'[u] = task[u]
  BY <1>2, <1>3 DEF Succeeded
<1>6. AnswersAreKnown'
  BY <1>4, <1>5 DEF IInv, AnswersAreKnown
<1> QED
  BY <1>2, <1>3, <1>6

\* The first part of loadPolicy.  A load that overlaps with none is the only
\* one, and has not been answered yet.
LEMMA LoadPolicyKeeps ==
  ASSUME IInv, NEW t \in Tasks, LoadPolicy(t),
         UNCHANGED <<policyId, version, shown>>,
         acked' \in [Policies -> Nat],
         \A p \in Policies : acked'[p] <= version[p],
         DOMAIN result' = Forms,
         \A f \in Forms : result'[f] = "submitting" <=> Posting(f) /\ f # t,
         DOMAIN submitDisabled' = Forms,
         \A f \in Forms : submitDisabled'[f] <=>
                            IF f = t THEN policyId # Blank ELSE submitDisabled[f]
  PROVE  IInv'
<1>1. overlapped' = \E u \in Tasks \ {t} : Loading(u)
  BY DEF LoadPolicy
<1>2. CASE policyId = Blank
  <2>1. task' = [task EXCEPT ![t] = Idle] /\ status' = "error" /\ asked' = asked
    BY <1>2 DEF LoadPolicy
  <2>2. /\ task' \in [Tasks -> TaskStates]
        /\ task'[t] = Idle
        /\ \A u \in Tasks \ {t} : task'[u] = task[u]
        /\ AnswersAreKnown'
    BY <2>1, TaskSet
  <2>3. Typed'
    BY <1>1, <2>1, <2>2 DEF IInv, Typed
  <2>4. ResultsFollowTasks'
    BY <2>2 DEF ResultsFollowTasks, Posting, Idle, Tasks
  <2>6. ButtonsFollowTasks'
    BY <1>2, <2>2 DEF IInv, ButtonsFollowTasks, Idle, Tasks
  <2>5. LastLoadCounts'
    BY <1>1, <2>1, <2>2 DEF LastLoadCounts, Loading, Idle
  <2> QED
    BY <2>2, <2>3, <2>4, <2>5, <2>6 DEF IInv
<1>3. CASE policyId # Blank
  <2>1. /\ task' = [task EXCEPT ![t] = Call("loading", policyId)]
        /\ status' = "loading"
        /\ asked' = policyId
        /\ policyId \in Policies
    BY <1>3 DEF LoadPolicy, IInv, Typed
  <2>2. /\ task' \in [Tasks -> TaskStates]
        /\ task'[t] = Call("loading", policyId)
        /\ \A u \in Tasks \ {t} : task'[u] = task[u]
        /\ ~ Succeeded(t)'
        /\ AnswersAreKnown'
    BY <2>1, TaskSet
  <2>3. Typed'
    BY <1>1, <2>1, <2>2 DEF IInv, Typed
  <2>4. ResultsFollowTasks'
    BY <2>2 DEF ResultsFollowTasks, Posting, Call, Tasks
  <2>5. ButtonsFollowTasks'
    BY <1>3, <2>2 DEF IInv, ButtonsFollowTasks, Call, Tasks
  <2>6. ~ overlapped' => \A u \in Tasks : Loading(u)' => u = t
    BY <1>1, <2>2 DEF Loading
  <2>7. task'[t].policy = asked'
    BY <2>1, <2>2 DEF Call
  <2>8. LastLoadCounts'
    BY <2>1, <2>2, <2>6, <2>7 DEF LastLoadCounts
  <2> QED
    BY <2>2, <2>3, <2>4, <2>8, <2>5 DEF IInv
<1> QED
  BY <1>2, <1>3

LEMMA InvClickLoad ==
  ASSUME IInv, NEW c \in Clicks, ClickLoad(c)
  PROVE  IInv'
<1>1. c \in Tasks /\ c \notin Forms
  BY TasksAssumption DEF Tasks
<1>2. /\ LoadPolicy(c)
      /\ UNCHANGED <<policyId, submitDisabled, result, shown, version, acked>>
  BY DEF ClickLoad
<1>3. /\ acked' \in [Policies -> Nat]
      /\ \A p \in Policies : acked'[p] <= version[p]
      /\ DOMAIN result' = Forms
  BY <1>2 DEF IInv, Typed, AnswersAreKnown
<1>4. \A f \in Forms : result'[f] = "submitting" <=> Posting(f) /\ f # c
  BY <1>1, <1>2 DEF IInv, ResultsFollowTasks
<1>5. /\ DOMAIN submitDisabled' = Forms
      /\ \A f \in Forms : f # c /\ submitDisabled'[f] = submitDisabled[f]
  BY <1>1, <1>2 DEF IInv, ButtonsFollowTasks
<1> QED
  BY <1>1, <1>2, <1>3, <1>4, <1>5, LoadPolicyKeeps

\* The button is given back with the end of the call.
LEMMA EnabledEffect ==
  ASSUME IInv, NEW t \in Tasks,
         submitDisabled' = Enabled(t),
         task'[t] = Idle,
         \A u \in Tasks \ {t} : task'[u] = task[u]
  PROVE  ButtonsFollowTasks'
<1>1. /\ DOMAIN submitDisabled' = Forms
      /\ \A f \in Forms : submitDisabled'[f] <=> submitDisabled[f] /\ f # t
  BY DEF Enabled
<1>2. \A f \in Forms \ {t} : task'[f] = task[f]
  BY DEF Tasks
<1> QED
  BY <1>1, <1>2 DEF IInv, ButtonsFollowTasks, Idle

\* The end of a load.  If it overlapped with no other, what it shows is what was
\* asked for last.
LEMMA InvLoaded ==
  ASSUME IInv, NEW t \in Tasks, Loaded(t)
  PROVE  IInv'
<1>1. /\ Loading(t)
      /\ task[t].answer.outcome # "pending"
      /\ shown' = Render(task[t])
      /\ status' = IF task[t].answer.outcome = "error" THEN "error" ELSE "success"
      /\ task' = [task EXCEPT ![t] = Idle]
      /\ UNCHANGED <<policyId, result, version, acked, asked, overlapped>>
  BY DEF Loaded, history
<1>2. /\ acked' \in [Policies -> Nat]
      /\ \A p \in Policies : acked'[p] <= version[p]
  BY <1>1 DEF IInv, Typed, AnswersAreKnown
<1>3. /\ task' \in [Tasks -> TaskStates]
      /\ task'[t] = Idle
      /\ \A u \in Tasks \ {t} : task'[u] = task[u]
      /\ AnswersAreKnown'
  BY <1>1, <1>2, TaskSet
<1>4. Typed'
  BY <1>1, <1>3 DEF IInv, Typed
<1>5. ResultsFollowTasks'
  BY <1>1, <1>3 DEF IInv, ResultsFollowTasks, Posting, Loading, Idle, Tasks
<1>6. ButtonsFollowTasks'
  BY <1>3, EnabledEffect DEF Loaded
<1>7. LastLoadCounts'
  <2> SUFFICES ASSUME ~ overlapped' PROVE LastLoadCounts'
    BY DEF LastLoadCounts
  <2>1. \A u \in Tasks : ~ Loading(u)'
    BY <1>1, <1>3 DEF IInv, LastLoadCounts, Loading, Idle
  <2>2. ASSUME status' = "success" PROVE ShowsLatest'
    <3>1. /\ Succeeded(t)
          /\ task[t].answer.outcome # "error"
      BY <1>1, <2>2 DEF IInv, Typed, TaskStates, Reports, Outcomes, Succeeded
    <3>2. task[t].policy = asked /\ task[t].answer.version >= acked[asked]
      BY <1>1, <3>1 DEF IInv, LastLoadCounts
    <3>3. shown' = [policy |-> task[t].policy, version |-> task[t].answer.version]
      BY <1>1, <3>1 DEF Render
    <3> QED
      BY <1>1, <3>2, <3>3 DEF ShowsLatest
  <2> QED
    BY <2>1, <2>2 DEF LastLoadCounts
<1> QED
  BY <1>3, <1>4, <1>5, <1>6, <1>7 DEF IInv

\* A task that begins or ends a write leaves the loads as they are.
LEMMA LoadsUntouched ==
  ASSUME IInv, NEW t \in Tasks, ~ Loading(t), ~ Loading(t)',
         \A u \in Tasks \ {t} : task'[u] = task[u],
         UNCHANGED <<status, shown, acked, asked, overlapped>>
  PROVE  LastLoadCounts'
<1>1. \A u \in Tasks : Loading(u)' => Loading(u) /\ u # t /\ task'[u] = task[u]
  BY DEF Loading
<1> QED
  BY <1>1 DEF IInv, LastLoadCounts, ShowsLatest, Succeeded

LEMMA InvSubmit ==
  ASSUME IInv, NEW f \in Forms, Submit(f)
  PROVE  IInv'
<1>1. /\ f \in Tasks
      /\ task' = [task EXCEPT ![f] = Call("posting", policyId)]
      /\ result' = [result EXCEPT ![f] = "submitting"]
      /\ UNCHANGED <<policyId, status, shown, version, acked, asked, overlapped>>
      /\ policyId \in Policies \cup {Blank}
  BY DEF Submit, Tasks, IInv, Typed
<1>2. /\ acked' \in [Policies -> Nat]
      /\ \A p \in Policies : acked'[p] <= version[p]
  BY <1>1 DEF IInv, Typed, AnswersAreKnown
<1>3. /\ task' \in [Tasks -> TaskStates]
      /\ task'[f] = Call("posting", policyId)
      /\ \A u \in Tasks \ {f} : task'[u] = task[u]
      /\ AnswersAreKnown'
  BY <1>1, <1>2, TaskSet
<1>4. Typed'
  BY <1>1, <1>3 DEF IInv, Typed
<1>5. ResultsFollowTasks'
  BY <1>1, <1>3 DEF IInv, Typed, ResultsFollowTasks, Posting, Call, Tasks
<1>6. ~ Loading(f) /\ ~ Loading(f)'
  BY <1>3 DEF Submit, IInv, ButtonsFollowTasks, Loading, Call
<1>7. ButtonsFollowTasks'
  BY <1>3 DEF Submit, IInv, ButtonsFollowTasks, Call, Tasks
<1>8. LastLoadCounts'
  BY <1>1, <1>3, <1>6, LoadsUntouched
<1> QED
  BY <1>3, <1>4, <1>5, <1>7, <1>8 DEF IInv

LEMMA InvSubmitFailed ==
  ASSUME IInv, NEW f \in Forms, SubmitFailed(f)
  PROVE  IInv'
<1>1. /\ f \in Tasks
      /\ Posting(f)
      /\ task' = [task EXCEPT ![f] = Idle]
      /\ result' = [result EXCEPT ![f] = "error"]
      /\ UNCHANGED <<policyId, status, shown, version, acked, asked, overlapped>>
  BY DEF SubmitFailed, Tasks
<1>2. /\ acked' \in [Policies -> Nat]
      /\ \A p \in Policies : acked'[p] <= version[p]
  BY <1>1 DEF IInv, Typed, AnswersAreKnown
<1>3. /\ task' \in [Tasks -> TaskStates]
      /\ task'[f] = Idle
      /\ \A u \in Tasks \ {f} : task'[u] = task[u]
      /\ AnswersAreKnown'
  BY <1>1, <1>2, TaskSet
<1>4. Typed'
  BY <1>1, <1>3 DEF IInv, Typed
<1>5. ResultsFollowTasks'
  BY <1>1, <1>3 DEF IInv, Typed, ResultsFollowTasks, Posting, Idle, Tasks
<1>6. ~ Loading(f) /\ ~ Loading(f)'
  BY <1>1, <1>3 DEF Loading, Posting, Idle
<1>7. LastLoadCounts'
  BY <1>1, <1>3, <1>6, LoadsUntouched
<1>8. ButtonsFollowTasks'
  BY <1>1, <1>3, EnabledEffect DEF SubmitFailed
<1> QED
  BY <1>3, <1>4, <1>5, <1>7, <1>8 DEF IInv

\* What is acknowledged was taken, and the load that follows begins anew.
LEMMA InvSubmitted ==
  ASSUME IInv, NEW f \in Forms, Submitted(f)
  PROVE  IInv'
<1> DEFINE p == task[f].policy
           v == task[f].answer.version
<1>1. /\ f \in Tasks
      /\ LoadPolicy(f)
      /\ UNCHANGED <<policyId, version, shown>>
      /\ result' = [result EXCEPT ![f] = task[f].answer.outcome]
      /\ acked' = [acked EXCEPT ![p] = IF @ > v THEN @ ELSE v]
      /\ task[f].answer.outcome \in {"done", "replayed"}
  BY DEF Submitted, Tasks
<1>2. p \in Policies /\ v \in Nat /\ v <= version[p]
  BY <1>1 DEF IInv, AnswersAreKnown, Succeeded, Typed, TaskStates, Reports
<1>3. acked' \in [Policies -> Nat]
  BY <1>1, <1>2 DEF IInv, Typed
<1>4. \A q \in Policies : acked'[q] <= version[q]
  BY <1>1, <1>2 DEF IInv, Typed, AnswersAreKnown
<1>5. DOMAIN result' = Forms
  BY <1>1 DEF IInv, Typed
<1>6. \A g \in Forms : result'[g] = "submitting" <=> Posting(g) /\ g # f
  BY <1>1 DEF IInv, Typed, ResultsFollowTasks
<1>7. /\ DOMAIN submitDisabled' = Forms
      /\ \A g \in Forms : submitDisabled'[g] <=>
                            IF g = f THEN policyId # Blank ELSE submitDisabled[g]
  <2>1. submitDisabled[f]
    BY <1>1 DEF Submitted, Posting, IInv, ButtonsFollowTasks
  <2>2. CASE policyId = Blank
    BY <2>2 DEF Submitted, Enabled
  <2>3. CASE policyId # Blank
    BY <2>1, <2>3 DEF Submitted, IInv, ButtonsFollowTasks
  <2> QED
    BY <2>2, <2>3
<1> QED
  BY <1>1, <1>3, <1>4, <1>5, <1>6, <1>7, LoadPolicyKeeps

\* The page is opened again, as at first; what was acknowledged stays known.
LEMMA InvReloadPage ==
  ASSUME IInv, ReloadPage
  PROVE  IInv'
<1>1. DefaultPolicy \in Policies
  BY TasksAssumption DEF DefaultPolicy
<1>2. /\ task' = [t \in Tasks |-> IF t = FirstClick THEN Call("loading", DefaultPolicy)
                                  ELSE Idle]
      /\ policyId' = DefaultPolicy /\ asked' = DefaultPolicy
      /\ version' = version /\ acked' = acked
      /\ overlapped' = FALSE /\ status' = "loading"
      /\ result' = [f \in Forms |-> "empty"]
      /\ submitDisabled' = [f \in Forms |-> FALSE]
  BY DEF ReloadPage, Opened
<1>3. Typed'
  BY <1>1, <1>2 DEF IInv, Typed, TaskStates, Reports, Outcomes, Call, Idle, Pending
<1>4. AnswersAreKnown'
  BY <1>1, <1>2 DEF IInv, AnswersAreKnown, Loading, Succeeded, Call, Idle, Pending
<1>5. ResultsFollowTasks'
  BY <1>2 DEF ResultsFollowTasks, Posting, Tasks, Call, Idle
<1>6. FirstClick \notin Forms
  BY TasksAssumption DEF FirstClick
<1>7. ButtonsFollowTasks'
  BY <1>2, <1>6 DEF ButtonsFollowTasks, Tasks, Idle
<1>8. LastLoadCounts'
  BY <1>2 DEF LastLoadCounts, Loading, Succeeded, Call, Idle, Pending
<1> QED
  BY <1>3, <1>4, <1>5, <1>7, <1>8 DEF IInv
-----------------------------------------------------------------------------
LEMMA InvNext ==
  ASSUME IInv, [Next]_vars
  PROVE  IInv'
<1>1. ASSUME NEW c \in Clicks, ClickLoad(c) PROVE IInv'
  BY <1>1, InvClickLoad
<1>2. ASSUME NEW f \in Forms, Submit(f) PROVE IInv'
  BY <1>2, InvSubmit
<1>3. ASSUME NEW t \in Tasks, Handle(t) PROVE IInv'
  BY <1>3, InvHandleWrite, InvHandleRead, InvLoseAnswer DEF Handle
<1>4. ASSUME NEW t \in Tasks, Deliver(t) PROVE IInv'
  BY <1>4, InvLoaded, InvSubmitted, InvSubmitFailed DEF Deliver
<1>5. CASE WriteElsewhere
  BY <1>5, InvWriteElsewhere
<1>6. CASE EditPolicyId
  BY <1>6, InvUnchanged DEF EditPolicyId
<1>7. CASE ReloadPage
  BY <1>7, InvReloadPage
<1>8. CASE UNCHANGED vars
  BY <1>8, InvUnchanged DEF vars, page, IInv, Typed
<1> QED
  BY <1>1, <1>2, <1>3, <1>4, <1>5, <1>6, <1>7, <1>8 DEF Next

\* The invariant holds of every state of the page: in particular, a form with a
\* call under way cannot be submitted again.
THEOREM Invariant == Spec => []IInv
<1>1. Init => IInv
  BY InvInit
<1>2. IInv /\ [Next]_vars => IInv'
  BY InvNext
<1> QED
  BY <1>1, <1>2, PTL DEF Spec

\* A load that ended well and overlapped with no other shows the policy asked
\* for last, with every write that was acknowledged to the page.
THEOREM ShownIsCurrent == Spec => []CurrentUnlessOverlapped
<1>1. IInv => CurrentUnlessOverlapped
  BY DEF IInv, LastLoadCounts, CurrentUnlessOverlapped
<1> QED
  BY <1>1, Invariant, PTL

\* Page loads are counted by a natural number.
LEMMA ReloadsAreCounted == Spec => [](reloads \in Nat)
<1>1. Init => reloads \in Nat
  BY DEF Init
<1>2. reloads \in Nat /\ [Next]_vars => (reloads \in Nat)'
  <2> SUFFICES ASSUME reloads \in Nat, [Next]_vars PROVE reloads' \in Nat
    OBVIOUS
  <2>1. reloads' = reloads \/ reloads' = reloads + 1
    BY DEF Next, ClickLoad, Submit, Handle, HandleWrite, HandleRead,
                LoseAnswer, Deliver, Loaded, Submitted, SubmitFailed,
                WriteElsewhere, EditPolicyId, ReloadPage, vars
  <2> QED
    BY <2>1
<1> QED
  BY <1>1, <1>2, PTL DEF Spec

\* A form says "Submitting..." exactly while its write is under way, and the
\* news of an acknowledged write is taken back only by its next submission or a
\* reload of the page.
THEOREM NewsStays == Spec => AcknowledgedStays
<1> DEFINE Kept(f) == \/ result'[f] \in {result[f], "submitting"}
                      \/ reloads' > reloads
           Step == \A f \in Forms :
                     /\ result'[f] = "submitting" <=> Posting(f)'
                     /\ result[f] \in {"done", "replayed"} => Kept(f)
<1>1. ASSUME IInv, IInv', reloads \in Nat, [Next]_vars PROVE [Step]_vars
  <2>1. \A f \in Forms : result'[f] = "submitting" <=> Posting(f)'
    BY <1>1 DEF IInv, ResultsFollowTasks
  <2>2. ASSUME NEW f \in Forms, result[f] \in {"done", "replayed"}, Next
        PROVE  Kept(f)
    <3>1. ~ Posting(f)
      BY <1>1, <2>2 DEF IInv, ResultsFollowTasks
    <3>2. ASSUME NEW g \in Forms, Submit(g) PROVE Kept(f)
      BY <1>1, <3>2 DEF Submit, IInv, Typed
    <3>3. ASSUME NEW t \in Tasks, Deliver(t) PROVE Kept(f)
      <4>1. result'[f] = result[f]
        BY <1>1, <3>1, <3>3 DEF Deliver, Loaded, Submitted, SubmitFailed, IInv, Typed
      <4> QED
        BY <4>1
    <3>4. CASE ReloadPage
      BY <1>1, <3>4 DEF ReloadPage
    <3>5. CASE \/ \E c \in Clicks : ClickLoad(c)
               \/ \E t \in Tasks : Handle(t)
               \/ WriteElsewhere
               \/ EditPolicyId
      BY <3>5 DEF ClickLoad, Handle, HandleWrite, HandleRead, LoseAnswer,
                  WriteElsewhere, EditPolicyId, page
    <3> QED
      BY <2>2, <3>2, <3>3, <3>4, <3>5 DEF Next
  <2> QED
    BY <1>1, <2>1, <2>2
<1>2. [][Step]_vars => AcknowledgedStays
  BY PTL DEF AcknowledgedStays
<1> QED
  BY <1>1, <1>2, Invariant, ReloadsAreCounted, PTL DEF Spec
=============================================================================
