-------------------------- MODULE EnvironmentConsole --------------------------
(***************************************************************************)
(* One browser tab on the environment pages (EnvironmentDetail, PlanReview *)
(* and ApprovalControl of src/web/src/pages) over rows that other users    *)
(* and the runner change behind its back.                                  *)
(*                                                                         *)
(* A page keeps the row it loaded last and sends its revision with every   *)
(* request.  Answers arrive late, out of order or not at all; the path may *)
(* change under a mounted page (the browser's history menu), because the   *)
(* routes give the page components no key.  A request is served in one     *)
(* step: Orchestrator shows that the handlers' reads and their conditional *)
(* write act as one.  The operator is an administrator, who is offered all *)
(* actions.  The name of an environment is the environment itself.         *)
(***************************************************************************)
EXTENDS EnvironmentLifecycle, Naturals, FiniteSets

CONSTANTS
  Envs,         \* environments
  Clicks,       \* identities of the operator's clicks on action buttons
  MaxRevision,  \* bound: other users act on rows below this revision only
  MaxRetries,   \* retry budget of an environment
  MaxLoads,     \* bound: loads of one page in flight
  Faults,       \* the network may lose requests and answers, and a runner the write
                \* that marks its job failed
  NoEnv, NoClick

ASSUME ConsoleAssumption ==
  /\ MaxRevision \in Nat /\ MaxRetries \in Nat /\ MaxLoads \in Nat \ {0}
  /\ Faults \in BOOLEAN
  /\ NoEnv \notin Envs /\ NoClick \notin Clicks

VARIABLES
  row,     \* the server's environment rows; plan: one has a last_plan_job_id;
           \* job, jobFailed: the type of its last job, and whether that reads failed
  page,    \* [name, path, polls]: the mounted page, the environment in its path
           \* and the one the review page's interval loads
  shown,   \* [env, row, plan]: what the page shows; plan: with a plan job
  alert,   \* [retry, offered]: the call to repeat, and whether the error box shows
  busy,    \* the click whose action is under way, or NoClick
  dialog,  \* the call a confirmation dialog is open for, or NoCall
  typed,   \* the environment name in the destroy confirmation field
  loads,   \* the page's loads in flight
  calls,   \* action requests in flight, of this page or of one left since
  effects  \* how many requests of a click the server has accepted

vars == <<row, page, shown, alert, busy, dialog, typed, loads, calls, effects>>
-----------------------------------------------------------------------------
(* The server's side *)

Rows == [rev : Nat, status : EnvStatuses, approval : Approvals, op : Operations,
         job : JobTypes, jobFailed : BOOLEAN, retry : 0 .. MaxRetries, plan : BOOLEAN]

NoRow == [rev |-> 0, status |-> "absent", approval |-> "not_requested",
          op |-> "create", job |-> "plan", jobFailed |-> FALSE, retry |-> 0, plan |-> FALSE]

Created == [NoRow EXCEPT !.rev = 1, !.status = "planning", !.plan = TRUE]

Kinds == {"plan", "approve", "apply", "retry", "destroy"}

\* What the handlers ask of a row and of its last job.  Their check on the plan job
\* follows from the status: that of an environment pending approval or approved is done.
Accepts(kind, r) ==
  \/ kind = "plan" /\ PlanAccess(r.status, "update")
  \/ kind = "approve" /\ r.plan /\ CanApprovePlan(r.status, r.approval)
  \/ kind = "apply" /\ r.plan /\ CanQueueApply(r.status, r.approval, r.op)
  \/ /\ kind = "retry" /\ r.jobFailed /\ r.retry < MaxRetries
     /\ RetryAccess(TRUE, r.status, r.job, r.op)
  \/ kind = "destroy" /\ CanQueueDestroy(r.status)

\* resetEnvironmentAttemptState
ResetAttempt(r) == [r EXCEPT !.approval = "not_requested", !.plan = FALSE]

\* Mutant: the retry is counted twice.
RetriedTwice(r) ==
  [ResetAttempt(r) EXCEPT !.retry = @ + 2, !.jobFailed = FALSE,
                          !.status = IF r.job = "apply" THEN "applying" ELSE "planning"]

\* The failed job is queued again.
Retried(r) ==
  [ResetAttempt(r) EXCEPT !.retry = @ + 1, !.jobFailed = FALSE,
                          !.status = IF r.job = "apply" THEN "applying" ELSE "planning"]

\* The row an accepted request leaves.
After(kind, r) ==
  LET next == [r EXCEPT !.rev = @ + 1]
      queued == [ResetAttempt(next) EXCEPT !.status = "planning", !.job = "plan",
                                           !.jobFailed = FALSE, !.plan = TRUE]
  IN  CASE kind = "plan"    -> [queued EXCEPT !.op = "update"]
        [] kind = "destroy" -> [queued EXCEPT !.op = "destroy"]
        [] kind = "approve" -> [next EXCEPT !.status = "approved", !.approval = "approved"]
        [] kind = "apply"   -> [next EXCEPT !.status = "applying", !.job = "apply",
                                            !.jobFailed = FALSE]
        [] kind = "retry"   -> Retried(next)

\* failJob: the environment fails whether or not the job could be marked failed.
Failures(r) ==
  {[r EXCEPT !.status = "failed", !.jobFailed = marked] :
     marked \in IF Faults THEN BOOLEAN ELSE {TRUE}}

\* What the runner makes of a row once its job has ended.
Outcomes(r) ==
  LET next == [r EXCEPT !.rev = @ + 1]
  IN  CASE r.status = "planning" ->
             Failures(next) \union
             {[next EXCEPT !.status = "pending_approval", !.approval = "pending", !.plan = TRUE]}
        [] r.status = "applying" ->
             Failures(next) \union
             {[next EXCEPT !.status = IF r.op = "destroy" THEN "destroyed" ELSE "active"]}
        [] OTHER -> {}

RunnerEnds(e) ==
  /\ \E r \in Outcomes(row[e]) : row' = [row EXCEPT ![e] = r]
  /\ UNCHANGED <<page, shown, alert, busy, dialog, typed, loads, calls, effects>>

\* Another user, in another browser.
OtherUser(e) ==
  /\ row[e].rev < MaxRevision
  /\ \E kind \in Kinds : Accepts(kind, row[e]) /\ row' = [row EXCEPT ![e] = After(kind, @)]
  /\ UNCHANGED <<page, shown, alert, busy, dialog, typed, loads, calls, effects>>
-----------------------------------------------------------------------------
(* The page's state *)

PageNames == {"elsewhere", "detail", "review", "approval"}

Nothing == [env |-> NoEnv, row |-> NoRow, plan |-> FALSE]
Shown == [env : Envs, row : Rows, plan : BOOLEAN] \union {Nothing}

\* A request: the environment of the path it is sent to, and what the page
\* showed when the operator clicked (its closure), the revision to send
\* among it.  named is the name typed and shown when destroy was confirmed.
NoCall == [click |-> NoClick, kind |-> "none", env |-> NoEnv, seen |-> Nothing,
           named |-> NoEnv, again |-> FALSE, live |-> FALSE, phase |-> "none"]
Calls == [click : Clicks, kind : Kinds, env : Envs, seen : Shown,
          named : Envs \union {NoEnv}, again : BOOLEAN, live : BOOLEAN,
          phase : {"sent", "ok", "conflict", "error"}]

\* A load: the row and the plan job it has read so far, and the call it ends.
Loads == [env : Envs, row : Rows \union {NoRow}, read : BOOLEAN, plan : BOOLEAN,
          after : Calls \union {NoCall}]

NewLoad(e, call) ==
  [env |-> e, row |-> NoRow, read |-> FALSE, plan |-> FALSE, after |-> call]

Quiet == [offered |-> FALSE, retry |-> NoCall]

Init ==
  /\ row = [e \in Envs |-> Created]
  /\ page = [name |-> "elsewhere", path |-> NoEnv, polls |-> NoEnv]
  /\ shown = Nothing /\ alert = Quiet
  /\ busy = NoClick /\ dialog = NoCall /\ typed = NoEnv
  /\ loads = {} /\ calls = {} /\ effects = [i \in Clicks |-> 0]

TypeOK ==
  /\ row \in [Envs -> Rows]
  /\ page \in [name : PageNames, path : Envs \union {NoEnv}, polls : Envs \union {NoEnv}]
  /\ shown \in Shown
  /\ alert \in [offered : BOOLEAN, retry : Calls \union {NoCall}]
  /\ busy \in Clicks \union {NoClick}
  /\ dialog \in Calls \union {NoCall}
  /\ typed \in Envs \union {NoEnv}
  /\ loads \subseteq Loads /\ calls \subseteq Calls /\ effects \in [Clicks -> Nat]
-----------------------------------------------------------------------------
(* Mounting, loading and polling *)

\* A link or a reload: the old page unmounts, whose loads and answers no longer
\* matter; the new one starts with empty state and loads.
Open(name, e) ==
  /\ page.name = "elsewhere" \/ name = "elsewhere" \/ page.path = e
  /\ page.name # name
  /\ page' = [name |-> name, path |-> IF name = "elsewhere" THEN NoEnv ELSE e, polls |-> NoEnv]
  /\ shown' = Nothing /\ alert' = Quiet
  /\ busy' = NoClick /\ dialog' = NoCall /\ typed' = NoEnv
  /\ loads' = IF name = "elsewhere" THEN {} ELSE {NewLoad(e, NoCall)}
  /\ calls' = {[c EXCEPT !.live = FALSE] : c \in {d \in calls : d.phase = "sent"}}
  /\ UNCHANGED <<row, effects>>

\* The history menu leads to the same page of another environment: React keeps
\* the component and all its state, only the effect on the id loads anew.
Jump(e) ==
  /\ page.name # "elsewhere" /\ e # page.path
  /\ Cardinality(loads) < MaxLoads
  /\ page' = [page EXCEPT !.path = e]
  /\ loads' = loads \union {NewLoad(e, NoCall)}
  /\ alert' = [alert EXCEPT !.offered = FALSE]
  /\ UNCHANGED <<row, shown, busy, dialog, typed, calls, effects>>

\* load(): clears the error box and asks for the row, the jobs and the events.
StartLoad(e) ==
  /\ Cardinality(loads) < MaxLoads
  /\ loads' = loads \union {NewLoad(e, NoCall)}
  /\ alert' = [alert EXCEPT !.offered = FALSE]
  /\ UNCHANGED <<row, page, shown, busy, dialog, typed, calls, effects>>

Refresh == page.name # "elsewhere" /\ dialog = NoCall /\ StartLoad(page.path)

\* Mutant: a plan under way is not polled for.
WaitingForApplyOnly ==
  /\ shown # Nothing
  /\ \/ shown.row.status = "approved"
     \/ shown.row.status = "pending_approval" /\ ~shown.plan

\* The review page polls while a plan, or its application, is awaited.
Waiting ==
  /\ shown # Nothing
  /\ \/ shown.row.status \in {"planning", "approved"}
     \/ shown.row.status = "pending_approval" /\ ~shown.plan

Poll == page.name = "review" /\ Waiting /\ StartLoad(page.polls)

\* GetEnvironment.  The review page, which alone acts on it, gets the plan job
\* from another request of the same load, served before or after this one.
ReadRow(l) ==
  /\ ~l.read
  /\ \E plan \in {row[l.env].plan} \union (IF page.name = "review" THEN {FALSE} ELSE {}) :
       loads' = (loads \ {l}) \union
                {[l EXCEPT !.read = TRUE, !.row = row[l.env], !.plan = plan]}
  /\ UNCHANGED <<row, page, shown, alert, busy, dialog, typed, calls, effects>>

\* The interval is set anew, for the path there is by then, only when the status,
\* the environment or its plan job changes; another row may have another plan job.
PollTargets(l) ==
  IF page.name # "review" THEN {page.polls}
  ELSE IF shown = [env |-> l.env, row |-> l.row, plan |-> l.plan] THEN {page.polls}
  ELSE IF /\ shown.env = l.env /\ shown.row.status = l.row.status
          /\ shown.plan = l.plan
       THEN {page.polls, page.path}
       ELSE {page.path}

\* What follows a load that ends an action: nothing more after a success; the
\* error box with its retry button after a conflict.
Ends(l) ==
  IF l.after = NoCall
  THEN UNCHANGED <<busy, dialog>>
  ELSE busy' = NoClick /\ dialog' = NoCall

AlertAfter(l, failed) ==
  IF l.after.phase = "conflict"
  THEN [offered |-> TRUE, retry |-> l.after]
  ELSE [alert EXCEPT !.offered = @ \/ (failed /\ alert.retry # NoCall)]

\* summarizeEnvironmentConflictDelta: what the callout about a concurrent change
\* names, of the row the operator acted on and the one loaded since.
ConflictDelta(previous, current) ==
  {field \in {"rev", "status", "approval"} : previous[field] # current[field]}

Deliver(l) ==
  /\ l.read
  /\ shown' = [env |-> l.env, row |-> l.row, plan |-> l.plan]
  /\ loads' = loads \ {l}
  /\ alert' = AlertAfter(l, FALSE)
  /\ Ends(l)
  /\ \E e \in PollTargets(l) : page' = [page EXCEPT !.polls = e]
  /\ UNCHANGED <<row, typed, calls, effects>>

\* The page goes on showing what it showed.
LoadFails(l) ==
  /\ Faults
  /\ loads' = loads \ {l}
  /\ alert' = AlertAfter(l, TRUE)
  /\ Ends(l)
  /\ UNCHANGED <<row, page, shown, typed, calls, effects>>
-----------------------------------------------------------------------------
(* Actions *)

\* The closure of a button: the path's environment and the row of the rendering
\* in which it was clicked.
Call(kind, name) ==
  [NoCall EXCEPT !.kind = kind, !.env = page.path, !.seen = shown, !.named = name,
                 !.live = TRUE, !.phase = "sent"]

\* runAction of EnvironmentDetail, run of ApprovalControl: the page is busy and
\* its error box gone, with the call to be repeated.
Send(call) ==
  /\ busy = NoClick
  /\ busy' = call.click
  /\ calls' = calls \union {call}
  /\ alert' = Quiet
  /\ UNCHANGED <<row, page, shown, typed, loads, effects>>

FreshClick(i) == effects[i] = 0 /\ i \notin {c.click : c \in calls \union {alert.retry}}

\* Queue update plan, with the edited spec and the template of the page.
OffersPlan == page.name = "detail" /\ shown # Nothing

OffersRetry ==
  /\ page.name = "detail"
  /\ shown.row.status = "failed" /\ shown.row.retry < MaxRetries

OffersApprove == page.name = "approval" /\ shown.row.status = "pending_approval"

\* canApply asks for the approval, not for the status.
OffersApply == page.name = "approval" /\ shown.row.approval = "approved"

\* The name typed is the one of the environment shown.
OffersDestroy == page.name = "approval" /\ shown # Nothing /\ typed = shown.env

Click(i) ==
  /\ FreshClick(i) /\ dialog = NoCall
  /\ \E kind \in {"plan", "retry", "approve"} :
       /\ \/ kind = "plan" /\ OffersPlan
          \/ kind = "retry" /\ OffersRetry
          \/ kind = "approve" /\ OffersApprove
       /\ Send([Call(kind, NoEnv) EXCEPT !.click = i])
  /\ UNCHANGED dialog

Type(e) ==
  /\ page.name = "approval" /\ dialog = NoCall
  /\ typed' = e
  /\ UNCHANGED <<row, page, shown, alert, busy, dialog, loads, calls, effects>>

\* Apply and destroy ask for a confirmation first, of what the page shows now.
Ask(i) ==
  /\ FreshClick(i) /\ busy = NoClick /\ dialog = NoCall
  /\ \/ OffersApply /\ dialog' = [Call("apply", NoEnv) EXCEPT !.click = i]
     \/ OffersDestroy /\ dialog' = [Call("destroy", typed) EXCEPT !.click = i]
  /\ UNCHANGED <<row, page, shown, alert, busy, typed, loads, calls, effects>>

Confirm == dialog # NoCall /\ Send(dialog) /\ UNCHANGED dialog

\* Escape closes the dialog even while its action is under way.
Cancel ==
  /\ dialog # NoCall
  /\ dialog' = NoCall
  /\ UNCHANGED <<row, page, shown, alert, busy, typed, loads, calls, effects>>

\* Mutant: the retry button sends what the page shows by now.
RetryLatest ==
  /\ alert.offered /\ dialog = NoCall
  /\ Send([alert.retry EXCEPT !.phase = "sent", !.again = TRUE, !.seen = shown])
  /\ UNCHANGED dialog

\* Retry last action: runAction again, in the closure of the first click.
RetryLast ==
  /\ alert.offered /\ dialog = NoCall
  /\ Send([alert.retry EXCEPT !.phase = "sent", !.again = TRUE])
  /\ UNCHANGED dialog

\* Mutant: expected_revision is left out of the requests.
AnyRevision(c) == TRUE

\* Mutant: the revision is compared with the one the write would leave.
RevisionAfterWrite(c) == c.seen.row.rev = row[c.env].rev + 1

\* validateExpectedRevision
RevisionMatches(c) == c.seen.row.rev = row[c.env].rev

\* Mutant: the handler trusts the confirmation of the page.
NameTrusted(c) == TRUE

\* handleEnvironmentDestroy compares the name the page shows with the row's.
NameMatches(c) == c.kind = "destroy" => c.seen.env = c.env

\* An answer nobody waits for is dropped.
Answer(c, phase) ==
  calls' = (calls \ {c}) \union (IF c.live THEN {[c EXCEPT !.phase = phase]} ELSE {})

\* What the handlers check before they compare revisions: retry nothing, apply
\* the approval, the others the whole row.
ChecksFirst(kind, r) ==
  CASE kind = "retry" -> TRUE
    [] kind = "apply" -> r.approval = "approved"
    [] OTHER -> Accepts(kind, r)

Refuse(c, phase) == Answer(c, phase) /\ UNCHANGED <<row, effects>>

\* A row changed between a handler's checks and its write is a conflict as well.
Serve(c) ==
  /\ c.phase = "sent"
  /\ LET r == row[c.env]
     IN  \/ ~(NameMatches(c) /\ ChecksFirst(c.kind, r)) /\ Refuse(c, "error")
         \/ NameMatches(c) /\ ~RevisionMatches(c) /\ Refuse(c, "conflict")
         \/ RevisionMatches(c) /\ ~Accepts(c.kind, r) /\ Refuse(c, "error")
         \/ /\ NameMatches(c) /\ RevisionMatches(c) /\ Accepts(c.kind, r)
            /\ row' = [row EXCEPT ![c.env] = After(c.kind, @)]
            /\ effects' = [effects EXCEPT ![c.click] = @ + 1]
            /\ Answer(c, "ok")
  /\ UNCHANGED <<page, shown, alert, busy, dialog, typed, loads>>

\* The request is lost before it is served, or the answer after it.
Lose(c) ==
  /\ Faults /\ c.phase # "error"
  /\ Answer(c, "error")
  /\ UNCHANGED <<row, page, shown, alert, busy, dialog, typed, loads, effects>>

\* Mutant: a failed action leaves its page busy.
ReceiveNoFinally(c) ==
  /\ c.phase # "sent"
  /\ calls' = calls \ {c}
  /\ IF c.phase = "error"
     THEN /\ alert' = [offered |-> TRUE, retry |-> c]
          /\ dialog' = NoCall
          /\ UNCHANGED <<busy, loads>>
     ELSE /\ loads' = loads \union {NewLoad(c.env, c)}
          /\ alert' = [alert EXCEPT !.offered = FALSE]
          /\ UNCHANGED <<busy, dialog>>
  /\ UNCHANGED <<row, page, shown, typed, effects>>

\* The answer reaches the page it was asked by: after a success or a conflict
\* that page loads the environment of its closure, any other error ends the
\* action and offers to repeat it.
Receive(c) ==
  /\ c.phase # "sent"
  /\ calls' = calls \ {c}
  /\ IF c.phase = "error"
     THEN /\ alert' = [offered |-> TRUE, retry |-> c]
          /\ busy' = NoClick /\ dialog' = NoCall
          /\ UNCHANGED loads
     ELSE /\ loads' = loads \union {NewLoad(c.env, c)}
          /\ alert' = [alert EXCEPT !.offered = FALSE]
          /\ UNCHANGED <<busy, dialog>>
  /\ UNCHANGED <<row, page, shown, typed, effects>>

-----------------------------------------------------------------------------
(* The guidance on the detail page, for an administrator *)

\* Mutant: the approval is looked at before the status.
NextActionByApproval(r) ==
  CASE r.approval = "approved" -> "apply"
    [] r.status = "failed" -> IF r.retry < MaxRetries THEN "retry" ELSE "investigate"
    [] r.status = "pending_approval" -> "approve"
    [] r.status \in {"planning", "applying"} -> "wait"
    [] r.status = "active" -> "operate"
    [] OTHER -> "review"

\* nextActionHint
NextAction(r) ==
  CASE r.status = "failed" -> IF r.retry < MaxRetries THEN "retry" ELSE "investigate"
    [] r.status = "pending_approval" -> "approve"
    [] r.status = "approved" /\ r.approval = "approved" -> "apply"
    [] r.status \in {"planning", "applying"} -> "wait"
    [] r.status = "active" -> "operate"
    [] OTHER -> "review"

Step(complete, current) ==
  IF complete THEN "complete" ELSE IF current THEN "current" ELSE "blocked"

\* buildWorkflow: the steps plan, approval, apply and result.
Workflow(r) ==
  [plan     |-> Step(r.plan /\ r.status # "planning", r.status = "planning"),
   approval |-> Step(r.approval = "approved", r.status = "pending_approval"),
   apply    |-> Step(r.status \in {"active", "destroyed"},
                     r.status = "applying" \/ r.approval = "approved"),
   result   |-> Step(FALSE, r.status \in {"active", "destroyed", "failed"})]

\* buildApprovalCheckpoints, of the latest plan job: it has a plan once it is done.
Checkpoints(r) ==
  (IF r.plan /\ r.status # "planning" /\ ~(r.status = "failed" /\ r.job = "plan")
   THEN {"plan job", "plan artifact"} ELSE {})
  \union (IF r.approval = "approved" THEN {"approval gate"} ELSE {})

\* Where the list of environments leads: primaryRoute.
PrimaryPage(r) ==
  IF r.status = "pending_approval" THEN "review"
  ELSE IF r.approval = "approved" THEN "approval" ELSE "detail"

\* immediateActions: what the list shows under "Environments requiring
\* approval/apply", and what it says comes next.
Immediate(r) == r.status = "pending_approval" \/ r.approval = "approved"
NextStep(r) == IF r.status = "pending_approval" THEN "approve" ELSE "apply"

\* The review page's link to the approval page.
ControlUnlocked(r) ==
  r.status \in {"pending_approval", "approved"} \/ r.approval = "approved"
\* canDestroy: whether the detail page leads to the guarded destroy.
DestroyLinked(r) == r.status \notin {"destroyed", "destroying", "planning", "applying"}

\* lastExecutionResult of the list of environments.
LastExecution(r) ==
  CASE r.status = "failed" -> "failed"
    [] r.status \in {"active", "destroyed"} -> "success"
    [] r.status \in {"planning", "applying", "destroying"} -> "running"
    [] r.status \in {"pending_approval", "approved"} -> "waiting approval"
    [] OTHER -> "queued"
-----------------------------------------------------------------------------
Operator ==
  \/ \E name \in PageNames, e \in Envs : Open(name, e)
  \/ \E e \in Envs : Jump(e) \/ Type(e)
  \/ \E i \in Clicks : Click(i) \/ Ask(i)
  \/ Refresh \/ Confirm \/ Cancel \/ RetryLast

Network ==
  \/ \E l \in loads : ReadRow(l) \/ Deliver(l) \/ LoadFails(l)
  \/ \E c \in calls : Serve(c) \/ Lose(c) \/ Receive(c)

Next ==
  \/ Operator \/ Network \/ Poll
  \/ \E e \in Envs : RunnerEnds(e) \/ OtherUser(e)

Spec == Init /\ [][Next]_vars

\* Requests, and the loads that end an action, are answered or fail; the runner
\* ends its jobs; the interval ticks; when loads keep being sent, not all fail.
Fairness ==
  /\ WF_vars(Poll)
  /\ \A e \in Envs : WF_vars(RunnerEnds(e))
  /\ SF_vars(\E l \in loads : ReadRow(l))
  /\ SF_vars(\E l \in loads : Deliver(l))
  /\ \A i \in Clicks :
       /\ WF_vars(\E c \in calls : c.click = i /\ (Serve(c) \/ Receive(c)))
       /\ WF_vars(\E l \in loads : l.after.click = i /\ (ReadRow(l) \/ Deliver(l)))

FairSpec == Spec /\ Fairness
-----------------------------------------------------------------------------
(* Properties *)

\* The server accepts call c in this step.
Accepted(c) == c.phase = "sent" /\ effects'[c.click] > effects[c.click]

\* A request that takes effect meets the very row its operator saw when clicking or
\* opening the dialog, whatever happened since, retries included.  The exception is a
\* page the history menu took to another environment whose row it has not loaded yet:
\* its request goes to that environment, is accepted if that row happens to have the
\* revision of the one shown, and is never a destroy.
AcceptedAtShownRow ==
  [][\A c \in calls : Accepted(c) =>
       \/ c.seen.env = c.env /\ c.seen.row = row[c.env]
       \/ /\ c.seen.env # c.env /\ c.seen.row.rev = row[c.env].rev
          /\ c.kind # "destroy"]_vars

\* One click has one effect at most, even if its answer is lost and the
\* operator presses the retry button.
ClickActsOnce == \A i \in Clicks : effects[i] <= 1

\* A destroy plan is queued for the environment whose name the operator typed,
\* even when the history menu has changed the path under the page.
DestroysNamedEnvironment ==
  [][\A c \in calls : Accepted(c) /\ c.kind = "destroy" => c.named = c.env]_vars

\* The callout after a conflict has something to tell: the row loaded then differs
\* at least by its revision from the one the operator acted on, so it never says
\* that nothing has changed, whoever else acts and however old the click is.
\* docs/operations-guide.md:67: "Confirm conflict callout appears in web UI and
\* refreshes revision/status."
ConflictIsExplained ==
  \A l \in loads :
    l.read /\ l.after.phase = "conflict" /\ l.after.seen.env = l.env
      => "rev" \in ConflictDelta(l.after.seen.row, l.row)

\* A page is not busy for ever: its action ends, in whatever way.
ActionEnds == \A i \in Clicks : busy = i ~> busy # i

\* A review page left open on a plan under way comes to show how it ended.
ReviewFollowsPlan ==
  \A e \in Envs :
    (/\ page.name = "review" /\ page.path = e
     /\ shown.env = e /\ shown.row.status = "planning")
      ~> (page.name # "review" \/ page.path # e \/ shown.row.status # "planning")

\* An approval stays on the row of a plan that has been applied, or is being.
ApprovalSpent(r) ==
  r.approval = "approved" /\ r.status \in {"applying", "active", "destroyed", "failed"}

\* What the pages say of a row against what its server would accept.
GuidanceFits(r) ==
  LET action == NextAction(r)
      steps == Workflow(r)
  IN  /\ action \in {"approve", "apply"} => Accepts(action, r)
      /\ action = "retry" => Accepts("plan", r) /\ (Accepts("retry", r) <=> r.jobFailed)
      /\ action = "operate" => Accepts("plan", r) /\ Accepts("destroy", r)
      /\ action = "wait" => Outcomes(r) # {} /\ "current" \in {steps.plan, steps.apply}
      /\ action = "approve" => steps.plan = "complete" /\ steps.approval = "current"
      /\ action = "apply" => steps.approval = "complete" /\ steps.apply = "current"
      /\ action \in {"retry", "investigate", "operate"} => steps.result = "current"
      /\ Immediate(r) <=> action \in {"approve", "apply"} \/ ApprovalSpent(r)
      /\ Immediate(r) => (Accepts(NextStep(r), r) <=> ~ApprovalSpent(r))
      /\ action \in {"approve", "apply"} =>
           /\ NextStep(r) = action /\ ControlUnlocked(r)
           /\ PrimaryPage(r) \in {"review", "approval"}
           /\ {"plan job", "plan artifact"} \subseteq Checkpoints(r)
      /\ DestroyLinked(r) <=> Accepts("destroy", r)
      /\ LastExecution(r) = "running" <=> Outcomes(r) # {}
      /\ LastExecution(r) = "waiting approval" <=> action \in {"approve", "apply"}

\* On every row there can be, what the detail page advises is what the server would
\* accept, where its own progress bar stands, what the approval page has ticked off
\* and where the other pages lead, with two exceptions and no third: the page looks
\* at the environment only, and advises a retry also where the runner could not mark
\* the last job failed, which the server refuses (an update plan is accepted then);
\* and the list of environments goes on naming apply as the next step, which the
\* server refuses, once the approval has been used.
GuidanceAgrees == \A e \in Envs : GuidanceFits(row[e])

\* docs/operations-guide.md:68: "Retry last action replays with latest revision
\* and does not re-send stale revision values."
RetryReplaysLatestRevision ==
  [][\A c \in calls' \ calls : c.again /\ c.phase = "sent" /\ c.env = shown.env
                               => c.seen.row.rev = shown.row.rev]_vars
=============================================================================
