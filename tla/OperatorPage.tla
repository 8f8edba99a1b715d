----------------------------- MODULE OperatorPage -----------------------------
(***************************************************************************)
(* The operator's page, frontend/app.ts (public/app.js is its compiled     *)
(* form): what overlapping loads and submissions leave on the screen.      *)
(*                                                                         *)
(* The script runs on one thread: what happens between two awaits is one   *)
(* step.  A task is a call of loadPolicy or submitForm that is under way;  *)
(* its request is handled by the service at some moment, and the answer is *)
(* delivered at some later one, or lost.  How often a policy has been      *)
(* written stands for its state.                                           *)
(***************************************************************************)
EXTENDS Integers

CONSTANTS
  Policies,
  Blank,       \* the text of an empty policy-id field
  Forms,       \* endorsement-form and payment-form
  Clicks,      \* loads that no form awaits, at most so many at a time (bound)
  MaxWrites,   \* bound: writes per policy
  MaxReloads   \* bound

ASSUME TasksAssumption == /\ Blank \notin Policies /\ Policies # {}
                          /\ Forms \cap Clicks = {} /\ Clicks # {}

VARIABLES policyId,        \* the policy-id field
          task,            \* per form and click: the call under way
          loadDisabled,    \* the load button
          submitDisabled,  \* per form, its button
          status,          \* global-status
          result,          \* per form, its form-result
          shown,           \* the policy summary and details
          version,         \* the service: writes per policy
          acked,           \* per policy, the version last acknowledged to
                           \* the page (history)
          asked,           \* the policy of the last load (history)
          overlapped,      \* it began with another under way (history)
          reloads          \* page loads so far (bound)

page    == <<policyId, loadDisabled, submitDisabled, status, result, shown>>
history == <<acked, asked, overlapped>>
vars    == <<page, task, version, history, reloads>>

Tasks    == Forms \cup Clicks
Versions == 0..MaxWrites
Outcomes == {"pending", "done", "replayed", "error"}
Answers  == [outcome : Outcomes, version : Versions]
Pending  == [outcome |-> "pending", version |-> 0]
Failed   == [outcome |-> "error", version |-> 0]

Idle == [stage |-> "idle", policy |-> Blank, answer |-> Pending]
Call(stage, p) == [stage |-> stage, policy |-> p, answer |-> Pending]

Hidden == [policy |-> Blank, version |-> 0]

FirstClick == CHOOSE c \in Clicks : TRUE

\* The page as index.html has it, and the load that the script ends with.
\* p0 is the policy the field is filled in with.
Opened(p0) ==
  [policyId |-> p0, status |-> "loading", shown |-> Hidden,
   task |-> [t \in Tasks |-> IF t = FirstClick THEN Call("loading", p0) ELSE Idle],
   submitDisabled |-> [f \in Forms |-> FALSE],
   result |-> [f \in Forms |-> "empty"]]

DefaultPolicy == CHOOSE p \in Policies : TRUE

Init == LET o == Opened(DefaultPolicy) IN
  /\ policyId = o.policyId
  /\ task = o.task
  /\ loadDisabled = TRUE
  /\ submitDisabled = o.submitDisabled
  /\ status = o.status
  /\ result = o.result
  /\ shown = o.shown
  /\ version = [p \in Policies |-> 0]
  /\ acked = [p \in Policies |-> 0]
  /\ asked = DefaultPolicy
  /\ overlapped = FALSE
  /\ reloads = 0

Loading(t) == task[t].stage = "loading"
Posting(t) == task[t].stage = "posting"
-----------------------------------------------------------------------------
\* loadPolicy.

\* Its first part, run by t: the field is read now, whatever it held when the
\* form was submitted.
LoadPolicy(t) ==
  /\ overlapped' = \E u \in Tasks \ {t} : Loading(u)
  /\ IF policyId = Blank
     THEN /\ status' = "error"
          /\ task' = [task EXCEPT ![t] = Idle]
          /\ UNCHANGED <<loadDisabled, asked>>
     ELSE /\ status' = "loading"
          /\ task' = [task EXCEPT ![t] = Call("loading", policyId)]
          /\ loadDisabled' = TRUE
          /\ asked' = policyId

\* finally, in submitForm.
Enabled(t) == [f \in Forms |-> submitDisabled[f] /\ f # t]

\* renderPolicy.
Render(l) == IF l.answer.outcome = "error" THEN shown
             ELSE [policy |-> l.policy, version |-> l.answer.version]

\* Mutant: loadPolicy lets its errors through to submitForm.
LoadedUncaught(t) ==
  /\ Loading(t)
  /\ task[t].answer.outcome # "pending"
  /\ shown' = Render(task[t])
  /\ status' = IF task[t].answer.outcome = "error" THEN "error" ELSE "success"
  /\ result' = IF t \in Forms /\ task[t].answer.outcome = "error"
               THEN [result EXCEPT ![t] = "error"] ELSE result
  /\ loadDisabled' = FALSE
  /\ submitDisabled' = Enabled(t)
  /\ task' = [task EXCEPT ![t] = Idle]
  /\ UNCHANGED <<policyId, version, history, reloads>>

\* The rest of loadPolicy, and of submitForm if a form awaits it: loadPolicy
\* catches its own errors.
Loaded(t) ==
  /\ Loading(t)
  /\ task[t].answer.outcome # "pending"
  /\ shown' = Render(task[t])
  /\ status' = IF task[t].answer.outcome = "error" THEN "error" ELSE "success"
  /\ loadDisabled' = FALSE
  /\ submitDisabled' = Enabled(t)
  /\ task' = [task EXCEPT ![t] = Idle]
  /\ UNCHANGED <<policyId, result, version, history, reloads>>

\* The load button.
ClickLoad(c) ==
  /\ ~ loadDisabled
  /\ task[c] = Idle
  /\ LoadPolicy(c)
  /\ UNCHANGED <<policyId, submitDisabled, result, shown, version, acked,
                 reloads>>
-----------------------------------------------------------------------------
\* submitForm.

\* A form is submitted, by its button or by the enter key, neither of which
\* does anything while the button is disabled.
Submit(f) ==
  /\ ~ submitDisabled[f]
  /\ task' = [task EXCEPT ![f] = Call("posting", policyId)]
  /\ submitDisabled' = [submitDisabled EXCEPT ![f] = TRUE]
  /\ result' = [result EXCEPT ![f] = "submitting"]
  /\ UNCHANGED <<policyId, loadDisabled, status, shown, version, acked, asked,
                 overlapped, reloads>>

\* Mutant: the policy is not loaded again.
SubmittedOnly(f) ==
  /\ Posting(f)
  /\ task[f].answer.outcome \in {"done", "replayed"}
  /\ result' = [result EXCEPT ![f] = task[f].answer.outcome]
  /\ acked' = [acked EXCEPT ![task[f].policy] = task[f].answer.version]
  /\ task' = [task EXCEPT ![f] = Idle]
  /\ submitDisabled' = Enabled(f)
  /\ UNCHANGED <<policyId, loadDisabled, status, shown, version, asked,
                 overlapped, reloads>>

\* The service's success arrives.
Submitted(f) ==
  /\ Posting(f)
  /\ task[f].answer.outcome \in {"done", "replayed"}
  /\ result' = [result EXCEPT ![f] = task[f].answer.outcome]
  /\ acked' = [acked EXCEPT ![task[f].policy] =
                 IF @ > task[f].answer.version THEN @ ELSE task[f].answer.version]
  /\ LoadPolicy(f)
  /\ submitDisabled' = IF policyId = Blank THEN Enabled(f) ELSE submitDisabled
  /\ UNCHANGED <<policyId, shown, version, reloads>>

\* Mutant: without finally.
SubmitFailedStuck(f) ==
  /\ Posting(f)
  /\ task[f].answer.outcome = "error"
  /\ result' = [result EXCEPT ![f] = "error"]
  /\ task' = [task EXCEPT ![f] = Idle]
  /\ UNCHANGED <<policyId, loadDisabled, submitDisabled, status, shown, version,
                 acked, asked, overlapped, reloads>>

\* api throws: the service's answer was not a success, or none arrived.
SubmitFailed(f) ==
  /\ Posting(f)
  /\ task[f].answer.outcome = "error"
  /\ result' = [result EXCEPT ![f] = "error"]
  /\ task' = [task EXCEPT ![f] = Idle]
  /\ submitDisabled' = Enabled(f)
  /\ UNCHANGED <<policyId, loadDisabled, status, shown, version, acked, asked,
                 overlapped, reloads>>
-----------------------------------------------------------------------------
\* The service and the network.

Reply(t, answer) == task' = [task EXCEPT ![t].answer = answer]

Unhandled(t) == task[t].stage # "idle" /\ task[t].answer = Pending

\* A write takes effect, or is found to have done so before, or is refused.
HandleWrite(f) ==
  /\ Posting(f)
  /\ Unhandled(f)
  /\ LET p == task[f].policy IN
     \/ /\ p # Blank
        /\ version[p] < MaxWrites
        /\ version' = [version EXCEPT ![p] = @ + 1]
        /\ Reply(f, [outcome |-> "done", version |-> version'[p]])
     \/ /\ p # Blank
        /\ version[p] > 0
        /\ Reply(f, [outcome |-> "replayed", version |-> version[p]])
        /\ UNCHANGED version
     \/ /\ Reply(f, Failed)
        /\ UNCHANGED version
  /\ UNCHANGED <<page, history, reloads>>

HandleRead(t) ==
  /\ Loading(t)
  /\ Unhandled(t)
  /\ \/ Reply(t, [outcome |-> "done", version |-> version[task[t].policy]])
     \/ Reply(t, Failed)
  /\ UNCHANGED <<page, version, history, reloads>>

\* The connection breaks, before or after the request was handled.
LoseAnswer(t) ==
  /\ task[t].stage # "idle"
  /\ task[t].answer # Failed
  /\ Reply(t, Failed)
  /\ UNCHANGED <<page, version, history, reloads>>

\* Somebody else writes.
WriteElsewhere ==
  /\ \E p \in Policies : /\ version[p] < MaxWrites
                         /\ version' = [version EXCEPT ![p] = @ + 1]
  /\ UNCHANGED <<page, task, history, reloads>>
-----------------------------------------------------------------------------
\* The operator.

EditPolicyId ==
  /\ \E x \in (Policies \cup {Blank}) \ {policyId} : policyId' = x
  /\ UNCHANGED <<task, loadDisabled, submitDisabled, status, result, shown,
                 version, history, reloads>>

\* Opens the page again: the calls under way end with the old one.
ReloadPage ==
  /\ reloads < MaxReloads
  /\ reloads' = reloads + 1
  /\ LET o == Opened(DefaultPolicy) IN
       /\ policyId' = o.policyId
       /\ task' = o.task
       /\ loadDisabled' = TRUE
       /\ submitDisabled' = o.submitDisabled
       /\ status' = o.status
       /\ result' = o.result
       /\ shown' = o.shown
  /\ asked' = DefaultPolicy
  /\ overlapped' = FALSE
  /\ UNCHANGED <<version, acked>>

Handle(t) == (t \in Forms /\ HandleWrite(t)) \/ HandleRead(t) \/ LoseAnswer(t)
Deliver(t) == Loaded(t) \/ (t \in Forms /\ (Submitted(t) \/ SubmitFailed(t)))

Next == \/ \E c \in Clicks : ClickLoad(c)
        \/ \E f \in Forms : Submit(f)
        \/ \E t \in Tasks : Handle(t) \/ Deliver(t)
        \/ WriteElsewhere
        \/ EditPolicyId
        \/ ReloadPage

Spec == Init /\ [][Next]_vars

\* A request is handled or its connection breaks, and the browser runs what
\* awaited it.
FairSpec == Spec /\ \A t \in Tasks : WF_vars(Handle(t)) /\ WF_vars(Deliver(t))
-----------------------------------------------------------------------------
Quiet == \A t \in Tasks : task[t] = Idle

\* A form says "Submitting..." exactly while its write is under way, and once
\* it says that the write was acknowledged, only its next submission takes that
\* back (or a reload): not a failure of the load that follows.
AcknowledgedStays ==
  [][\A f \in Forms :
       /\ result'[f] = "submitting" <=> Posting(f)'
       /\ result[f] \in {"done", "replayed"} =>
            \/ result'[f] \in {result[f], "submitting"}
            \/ reloads' > reloads]_vars

\* What the page shows as "Current state": the policy asked for last, with
\* every write that was acknowledged to this page.
ShowsLatest == /\ shown.policy = asked
               /\ shown.version >= acked[asked]

\* ... which is so whenever the last load ended well and no other was under
\* way when it began.
CurrentUnlessOverlapped ==
  (Quiet /\ status = "success" /\ ~ overlapped) => ShowsLatest

\* Every submission and every load comes to an end on the page: its button is
\* given back, and no "Submitting..." or "Loading policy..." stays, in whatever
\* order the answers come and fail.
NothingHangs ==
  /\ \A f \in Forms : /\ submitDisabled[f] ~> ~ submitDisabled[f]
                      /\ result[f] = "submitting" ~> result[f] # "submitting"
  /\ loadDisabled ~> ~ loadDisabled
  /\ status = "loading" ~> status # "loading"
=============================================================================
