# Verification of infra-orch-studio

TLA+ models of infra-orch-studio, the TLC runs that check them and the TLAPS
proofs about them. Paths are relative to the repository root; line numbers are
those of the commit this project sits beside.

infra-orch-studio lets users request OpenStack environments, plans them with
OpenTofu, has an administrator approve the plan, applies it and destroys it
again. A Go API serves a React UI; a Go runner polls a MySQL job queue and runs
`tofu`. The API and the runner share nothing but the database and, for logs, a
volume of workdirs.

## Inventory

| Component | Source | State | Operations | What makes it correct |
|---|---|---|---|---|
| Environment lifecycle API | `internal/api/environments.go`, `internal/domain` | `environments` row: status, operation, approval, spec, last jobs, workdir, retries, revision | create, plan, approve, apply, retry, destroy; each reads, checks, then writes under a revision compare-and-swap in one transaction with the job it queues | one job at a time per environment; only approved plans applied; retry budget; privileged work only by administrators |
| Job queue | `internal/storage/mysql/store.go` | `jobs` row: type, status, operation, source, workdir, plan path, claim token | claim, update by id, insert | every job claimed at most once; never lost |
| Runner | `cmd/runner/main.go` | the job it has claimed, its local copy of the row | claim, prepare, init/validate, plan or apply, final status, environment write | the outcome reaches the environment; a failure is retryable; the environment does not stay busy |
| Executor and workdirs | `internal/executor`, `internal/renderer` | files: `plan.bin`, tofu state, logs, per workdir | render, init, validate, plan, apply | `plan.bin` is the reviewed one; a destroy plan sees the resources; logs of one attempt are not another's |
| Accounts and sessions | `internal/api/auth.go`, `middleware.go`, `cmd/api/bootstrap.go` | `users`, `sessions` | signup, login, logout, disable, role, password reset, bootstrap | an active administrator always exists; no session outlives what revokes it |
| Standalone jobs | `internal/api/jobs.go` | `jobs` rows without an environment | create, derive plan, derive apply | an apply derives from a finished plan only |
| Log stream | `internal/api/ws.go`, `websocket.go` | per connection: subscription, offsets, last status | subscribe, tick | a job's end is announced to a page that stays |
| Provider connections | `internal/api/providers.go`, `internal/provider`, `provider_secret.go`, runner export | `provider_connections` rows, the exported `clouds.yaml` | upsert, select, preflight, export | a plan and its apply use the same cloud |
| Spec validation | `internal/validation`, `web/src/utils/environmentValidation.ts` | none (pure) | normalise, validate | both validators agree; what is accepted is consistent |
| Environment pages | `web/src/pages/EnvironmentDetail.tsx`, `PlanReview.tsx`, `ApprovalControl.tsx` | the row loaded last, the click under way, the dialog, the call to repeat, the poll | load, poll, the five actions, confirm, retry | an action takes effect once, on the row its operator saw; the page comes to rest and follows the plan |
| Job page | `web/src/pages/JobDetail.tsx`, `Jobs.tsx` | record, status, log entries, socket | load, stream, apply | only finished plans applied; the end is shown |
| Create wizard and spec form | `web/src/pages/CreateEnvironment.tsx`, `components/EnvironmentSpecForm.tsx` | spec, template, step, draft, review | edit, restore, review, create | what is created is what was reviewed, and is accepted |
| Catalog pages | `web/src/pages/Providers.tsx`, `ProviderDetail.tsx`, `ProviderResourceDetail.tsx`, `Templates.tsx` | what is chosen, listed, detailed | load, choose, validate, save, preflight | a verdict is of the connection asked about last |
| List and users pages | `Dashboard.tsx`, `Environments.tsx`, `Audit.tsx`, `GuidedStart.tsx`, `Users.tsx` | rows, flags, one password form | load, switch language, change users | a new answer is not replaced by an older one; an answer ends its own action |
| Views | `plan_review.go`, `overview.go`, `request_drafts.go`, `audit.go`, `templates.go` | none | read only | what they derive agrees with the rows |
| SQLite store | `internal/storage/sqlite` | tables | the same interface | used by tests only |
| Others | login form, texts, password hashing, runtime checks, smoke client, vendored bcrypt, manifests | | | out of scope |

How they interact: a browser calls the API over HTTP; the API writes
`environments` and `jobs`; runners poll `jobs`, write `jobs` by id and
`environments` under the same compare-and-swap as the API; the log stream reads
the files a runner writes. The deployment has one API and one runner replica,
but a rolling update runs two of each side by side.

What is hard: every handler decides on rows it read one or more database round
trips before it writes; a runner works for minutes between reading a row and
writing its outcome; runners crash or hit database errors between any two
steps; workdirs outlive the jobs that made them and are shared by plan, apply
and destroy. In the browser, React pages keep what they loaded while others
change it, repeat calls from the closures of old renderings, and are kept when
the history menu changes the path under them; their requests overtake one
another and are rarely cancelled. `PROJECT.json` lists these hazards at their
lines.

## Plan

| # | Modules | Content | State |
|---|---|---|---|
| 1 | `EnvironmentLifecycle`, `Orchestrator`, `ApprovalWorkflow`, `MCOrchestrator` | lifecycle, queue, runners, refinement | done |
| 2 | `OrchestratorProofs`, `OwnershipProofs` | types and retry budget; single owner; outcome never dropped | done |
| 3 | `Accounts`, `MCAccounts`, `AccountsProofs` | users and sessions; the count of active administrators read before it is relied on; logins racing disable and reset | done |
| 4 | `EnvironmentConsole`, `MCEnvironmentConsole` | the environment pages over rows others change, with late and lost answers | done |
| 5 | `JobPage` | the job page, the log stream's server and the derived jobs | done |
| 6 | `SpecForm`, `CreatePage` | the form and both validators; the wizard with its draft and its review | done |
| 7 | `CatalogPages`, `ListPages`, `MCWebPages` | the other pages; all pages instantiated for TLC | done |
| 8 | `RequestProofs`, `PlanProofs`, `WorkflowProofs`, `ConsoleProofs`, `WebProofs` | all other safety and action properties of the runs; the refinement step by step | done |
| 9 | `JobQueue`, `ProviderExport` | the two-statement claim with `Orchestrator`'s one step as its abstraction; the shared `clouds.yaml` of two runners | planned |

## The core model

`EnvironmentLifecycle` holds the statuses and the guards of
`internal/domain/environment_lifecycle.go` and of the `validate*Access` helpers,
as operators on a row's fields.

`Orchestrator` holds the two tables and the processes.

| Variable | Code |
|---|---|
| `env`, `job` | the `environments` and `jobs` tables; `"absent"` is a row not inserted yet |
| `client` | the local variables of one request: what it asks, the environment row it read (`snap`), the job row it read (`row`); for a browser also the revision and plan of the page it looks at |
| `runner` | program counter of the loop in `main`, the claimed job, whether it succeeded, the environment row read before the last write |
| `planFile` | per workdir, the plan job whose `tofu plan -out` wrote `plan.bin` last |
| `resources` | per environment, the workdirs whose tofu state lists resources |
| `approved`, `applied` | history: plans approved, plans run by `tofu apply` |

Each action is one database access or one tofu run, with every change the code
makes there:

| Action | Code |
|---|---|
| `View` | `GET /api/environments/{id}` by a client that will send `expected_revision` |
| `CreateEnvironment` | `POST /api/environments`, one transaction |
| `Load`, `LoadJob` | `GetEnvironment` and `GetJob` of a handler with the checks that follow them |
| `Plan`, `Approve`, `Apply`, `Retry`, `Destroy` | the writes of the five handlers, through `CommitWithJob` (`UpdateEnvironmentWithJobAndAudit`) or alone (`UpdateEnvironmentWithAudit`) |
| `Abort` | no row matched (409), the request was cancelled, or the API died |
| `Claim` | `ClaimNextQueuedJob` |
| `PrepareApply`, `PreparePlan`, `PrepareDestroyPlan` | the three ways a job gets its workdir |
| `InitValidate`, `TofuPlan`, `TofuApply` | the tofu runs, and the `UpdateJob` before the plan |
| `StepFails` | any failure that leads to `failJob` |
| `FinishJob` | the `UpdateJob` with the final status; its error is ignored in `failJob` |
| `LoadEnv`, `Record` | the read and the compare-and-swap of `failJob` and `recordRunnerEnvironmentSuccess` |
| `Abandon` | a crash, or a `continue` after a database error |

`ApprovalWorkflow` is the abstract specification: environments move between
request, review, approval, application and result, and an apply needs a ticket
that only an approval issues. `Orchestrator` implements it under the mapping at
the end of the module: `phase` is the status with the display states merged,
`ticket` the plan of an approved environment or the source of its last apply
job, `ran` the history of applies.

Choices a reader should know about `Orchestrator`:

- A claim takes any queued job. The store orders by `created_at`, which each API
  process stamps from its own clock before it commits, so any queued job can
  come first.
- A request that is refused changes nothing and is not a step.
- A workdir is named by the plan job that rendered it, as in the code. `plan.bin`
  has one name in all workdirs, so `planned` records only that the path is set.
- `created_by`, `approved_by`, `last_apply_job_id`, `last_error`, `outputs_json`,
  `plan_path` of the environment and all audit events are written and displayed
  and never decided on; they are left out.
- A spec is an opaque value that passes validation. A spec that does not is
  refused before anything is read.
- The tofu state is kept per workdir, as the templates configure no backend.
- Two stores in the code lack transactions and fall back to separate writes;
  they are used by tests only and are not modelled.

## Accounts and sessions

`Accounts` has the `users` and `sessions` tables (`user`, `session`) and, in `req`,
the local variables of the requests being served: the acting account, the
account it is about, that row as read, and the other active administrators
counted. Every access to the store is an action:

| Action | Code |
|---|---|
| `Reseed` | `ensureAdminSeed` when the API starts again with its seed configured |
| `Signup`, `Login`, `OpenSession` | `handleSignup`, `handleLogin`, and the insert of `startSession` both end with |
| `EndSession` | `handleLogout`, or the expiry time the session join tests |
| `Authorize` | `withAuth` and the administrator check of the `/api/admin/users` handlers |
| `Provision` | `POST /api/admin/users` |
| `LoadTarget`, `CountAdmins`, `UpdateTarget`, `RevokeSessions` | the accesses of `handleAdminUserRoute`: account, list, update, delete of sessions |
| `Abandon` | a database error, a cancelled request or the end of the process |

None of these updates is conditional on what was read, unlike those of
environments. A password is an opaque value; a login that gives the wrong one
changes nothing. Two fields of a session are history: the password its login
was checked with, and whether that was still current when the row was inserted.
The list that is counted holds the 500 newest accounts; the model has fewer.

`Orchestrator` takes the rights of its clients as constants. A request keeps the
rights it was authenticated with, so a change of role acts between requests.

## The browser

The web modules model one tab each. What they have in common: a request is one
step at the server, because `Orchestrator` shows that a handler's reads and its
conditional write act as one; answers arrive late, in any order or not at all;
the history menu changes the path under a mounted page, since the routes of
`App.tsx` give the pages no key; and a page that is left ignores what arrives.

`EnvironmentConsole` has the three pages of an environment. It shares the guards
of `EnvironmentLifecycle` with the core model and reduces the core to what a
row can become: `Accepts` and `After` are the five handlers, `Outcomes` the end
of a job, `OtherUser` everybody else.

| Variable | Code |
|---|---|
| `row` | the `environments` rows |
| `page` | which page is mounted, `environmentId` of its path, and the one in the closure of the review page's interval |
| `shown` | the `environment` state (and, for the review page, whether it has a plan job) |
| `busy`, `alert` | `busyAction` / `busy`; the error box with `retryRef` and `retryLabel` |
| `dialog`, `typed` | `confirmRequest` of `ApprovalControl`, its field for the name |
| `loads`, `calls` | requests in flight, with the closure they were sent from |
| `effects` | history: how often the server accepted a click's request |

`Send` is `runAction` (`run` in `ApprovalControl`) up to its first await,
`Receive` and the load it starts are what follows it, `RetryLast` the retry
button, which sends the closure of the first click once more. `NextAction`,
`Workflow`, `Checkpoints`, `Immediate`, `PrimaryPage`, `ControlUnlocked`,
`DestroyLinked` and `LastExecution` are the places that tell an operator how an
environment stands and what comes next; `GuidanceAgrees` compares them with
one another and with the server on every reachable row, and names the two places
where they part. `Accepts` asks of a retry that the last job has failed, as the handler
does (`environments.go:649`), and `Failures` has the case in which `failJob` marks the
environment failed but not the job (`main.go:407`): the detail page, which looks at the
environment, then advises a retry that the server refuses. The list of environments to
be applied (`Environments.tsx:194`) looks at the approval only, which the end of an
apply leaves as it is (`ApprovalSpent`), and so keeps naming an apply that the server
refuses. `ConflictDelta` is what the callout after a refused request tells of the row
that has changed; `ConflictIsExplained` says that it always has something to tell.

`JobPage` has the records of jobs, the stream of their status and logs, and the routes
that derive an apply. The log as the page shows it is left out, as no step depends on it. `Tick` is `jobStream.tick`: it compares the row
and the log with what this connection was told and sends the difference. A status goes
into whatever record is on the page, another job's after a link or the history menu,
so `OffersJobApply` may rest on a status of the wrong job. `ApplyOfferIsSound` says when
that is over: as soon as the stream of the path's job has spoken, because `Tick` tells
every new subscription the status anew.

`SpecForm` has the form of a spec and both validators. An address is a set of one
bits; a text is blank, malformed, lenient (read by JavaScript's `Number`, refused
by Go's `netip`) or strict. Shifts wrap at the width of an address, as they do in
the browser at 32 bits; that is why `Mask` sets a prefix of length zero apart.
`ValidatorsAgree` says exactly where the two part; `AcceptedNetworksNest` compares
the server's masks with the sets of addresses they stand for.

`CreatePage` has the wizard: steps, draft, list of templates, and the review that an
effect asks for whenever spec or template change on the last step. The five
editing steps are one, over three specs: a good one, one the wizard stops, one
that only the server refuses. The specs of the model have the fields both requests
know; that the preview ignores fields the create request refuses
(`plan_review.go:73`, `decode.go:11`) is not in it, since the wizard sends one spec type
to both.

`CatalogPages` and `ListPages` have the pages that load what is chosen, listed or
changed; what the server answers is the name of what was asked, or a version that
grows. None of the pages that show one provider drops a late answer, so a page may come
to rest on another provider's detail than its path names, and a list that lacks the
provider leaves the catalog without its connection (`ProviderDetail.tsx:61`); the model
has both, and no property denies them.

## Runs

| Run | Instance | Question |
|---|---|---|
| `interleaving` | 1 environment, 3 jobs, 2 runners, an administrator and an operator, faults | Do two requests, or two runners, ever both own an environment? Is a job's outcome ever dropped? Can an operator obtain an apply or a destroy? Does the retry budget hold? Does `expected_revision` tie an approval to the plan on the page? |
| `lifecycle` | 1 environment, 4 jobs, 1 runner, 1 administrator, faults | Is only what was approved applied? Is the plan under review the current one? Has a failed environment a failed job to retry? Is the whole within `ApprovalWorkflow`? |
| `progress` | 2 environments, 3 jobs, 1 runner that stays up and whose writes succeed | Does every busy environment leave that status? |
| `sessions` | 2 accounts, 2 passwords, 2 sessions, 2 requests, signup open | Does a session survive the disabling of its account, or a new password? |
| `admin_rights` | 2 accounts, 2 sessions, 2 requests, restarts and failures | When can the last active administrator be lost? |
| `console` | 1 environment, 1 click and its repetitions, others act up to revision 3, 1 load at a time, lost answers | Does a click act twice, or on a row its operator has not seen? Do actions end, does the review page follow the plan, does the guidance agree with the server, and does a conflict show what changed? |
| `console_targets` | 2 environments, 1 click, 2 loads at a time | Can the history menu direct a destroy plan to another environment, or any other request to a row with another revision than the one shown? |
| `web_pages` | per page: 2 jobs, 1 load at a time beside those a visit starts; specs with up to 3 changed fields and addresses of 2 bits; 2 reviews in flight; 2 providers and 3 requests; 2 users, 2 requests, 2 changes | What do late, overtaking and failing answers make the pages show, offer, send and accept? Does the review come to rest, is the end of a job announced, does the apply button come back? |

Why the bounds suffice: a job id is used once, so the number of ids bounds the
length of an environment's history. Three cover plan, apply and one more
attempt of either, or a re-plan raced by a retry; four cover plan, apply,
destroy plan and its apply, or an update in between. Two clients and two
runners are the least that race; the checks made on one environment involve no
other, and `progress` has two share a runner. A retry budget of 1 makes both the last
permitted and the first refused retry happen. When the ids run out an instance
stops, so deadlock is not checked.

In `Accounts` two administrators are the least that can remove each other, two
sessions give both of them one, and every race is between two requests.

In `EnvironmentConsole` a click's own request, one row change by others and one
repetition are what a stale revision needs; two environments are the least the
history menu can mix up, and the revision is then kept small. An address of two
bits has all prefix lengths there are kinds of: zero, one between, and full. The
pages of `MCWebPages` are independent, so a behaviour has one of them mounted. On the job
page two jobs are the least a path can mix up; it may go back and forth without a bound.

Symmetry is used on environments and clicks in `console_targets` and in the
violation of `EnvironmentConsole`, on job ids, runners and clients of equal rights, and on
requests, tokens and unseeded accounts and passwords, in the safety runs; the
liveness runs use none.

Four runs show a disagreement between the code and what it says of itself:

- `destroy_target`: the workdir of the last plan replaces the one that was
  applied (`main.go:481`). After an update plan, a destroy plan runs in a fresh
  workdir without tofu state, covers nothing, and its apply marks the
  environment destroyed.
- `last_admin`: two administrators who disable or demote each other at once each
  count the other as the one that stays (`auth.go:198`, `:249`).
- `runner_crash`: an environment whose runner died stays busy for ever, and no
  request can replace the job.
- `retry_stale`: the retry button sends the revision of the click that conflicted
  (`EnvironmentDetail.tsx:293`, `ApprovalControl.tsx:103`), although the page has
  loaded a newer one and the operations guide says that it is sent.

`failJob` ignores the error of the write that marks a job failed; an environment
may then be failed while its last job still reads running, which the retry
handler refuses. `FailedIsRetryable` is checked with faults and names that case as
its one exception: such a job is `Orphaned`, no runner is at work on it.

Fairness: `FairSpec` has weak fairness of each runner's `Progress`. A runner
polls on a ticker for as long as it lives and its loop has no wait but for tofu
and the database, so a step that stays enabled is taken if tofu returns. Users
and faults have no fairness. `BusyEnds` holds without faults and fails with
them.

In `EnvironmentConsole`, `FairSpec` has the runner end its jobs, the interval tick,
and every request of a click answered or failed (the browser rejects a request
whose connection is gone). The steps of loads are strongly fair: a load may fail,
but when loads are sent again and again, not all of them do. `MCWebPages` has weak
fairness of the stream's ticker and of the browser's handling of a message, which
run while both ends are up, and of the answers to the apply request and the
review. Operators have no fairness.

## Proofs

Every safety invariant and every action property that a passing run checks is
also proved, and so is the refinement, for every value of the constants:

| Module | Extends | Theorems |
|---|---|---|
| `OrchestratorProofs` | `Orchestrator` | `TypeCorrect` |
| `OwnershipProofs` | `OrchestratorProofs` | `SingleRunner`, `OutcomeReachesEnvironment` |
| `RequestProofs` | `OwnershipProofs` | `PrivilegesHold`, `RetriesAreBounded`, `FailuresAreRetryable`, `SeenPlanIsApproved` |
| `PlanProofs` | `RequestProofs` | `OnlyApprovedPlansRun`, `ReviewsAreCurrent`, `ActivesAreBacked` |
| `WorkflowProofs` | `PlanProofs` | `WorkflowImplemented` |
| `AccountsProofs` | `Accounts` | `AccountTypes`, `LastAdminGuarded`, `ChangedAccountsLoseSessions` |
| `ConsoleProofs` | `EnvironmentConsole` | `ConsoleTypes`, `GuidanceIsRight`, `ClicksActOnce`, `ConflictsAreExplained`, `EffectsMeetShownRow`, `DestroysAreNamed` |
| `WebProofs` | `MCWebPages` | `PageTypes`, `OffersAreSound`, `NetworksAreNested`, `ValidatorsAreOne`, `ReviewIsCreated`, `ReviewIsAccepted`, `PreflightAnswers`, `OverviewMovesOn`, `ResetsEndTheirForm` |

The proofs assume the named assumptions of the modules on their constants and
nothing else, with two exceptions stated in the properties and explained below:
`LastAdminGuarded` and `ChangedAccountsLoseSessions`. `FailedIsRetryable`,
`GuidanceAgrees` and `AcceptedAtShownRow` have exceptions of their own, each a case of
the code that the property names.

### The core

The inductive invariant of the core has four layers; each is proved to be kept by
every step with the help of those before it.

`TypeInv` (`TypeCorrect`). `TypeOK` alone is not inductive: a retry increments a
count it checked when the row was read, so `RequestInv` remembers that the
snapshot passed `Admissible`; a runner writes files in the workdir of its job, so
`RunnerInv` says that the job exists and that an apply past its preparation has a
workdir; `JobInv` gives every job an environment. `ResetRow`, `BuiltJobs` and
`NextRevisionRow` are the lemmas about the row builders.

`OwnInv` (`SingleRunner`, `OutcomeReachesEnvironment`). There is no lock in the
code; the argument is one of ownership:

1. a queued job and the job of a runner at work own their environment, that is,
   the row names the job as `lastJob` and its status is busy;
2. two runners at work hold different jobs, since a claim takes a queued job and
   a claimed one is never queued again;
3. a request's snapshot is the current row unless the revision has moved on,
   since every write increments it;
4. so when a compare-and-swap matches, the checks made on the snapshot hold of
   the row it replaces; all five handlers check that it is not busy, and by 1
   nobody is at work or queued for it.

`RowsInv` (`RequestProofs`). Ownership says nothing of the job row a handler
reads after the environment, and no revision guards that row. `ReadyInv` says that
what it read is still what the table holds: jobs that are read have ended, and a job that
has ended never changes (`Settled`). `RunningInv` is the row a runner leaves
while it works, `LastJobInv` ties the row of an environment to the row of its
last job, status by status, and `ChainInv` has what the properties say: jobs that
need an administrator have one, and no job is a longer chain of retries than its
environment counts. So that the later layers need not expand the handlers
again, `ClientSteps` and `RunnerSteps` prove once what each step does to the
rows: a request `Reads`, `Inserts` a job with the row of its environment or
`Approves`; a runner `Claims`, `Prepares`, `StartsPlan`, `Plans`, `Applies`,
`Fails`, `Finishes`, `Loads`, `Records` or `Drops`.

`FailuresAreRetryable` needs the two ends of a job apart: `LastJobInv` says that a failed
environment's last job has failed or, under `Faults`, is running with no runner at work
on it, and a job no runner works on is claimed by none, as only queued jobs are.

`SeenPlanIsApproved` needs one more fact, `LookInv`: the page a browser looks at is
older than the row or shows the plan of the row, and a request that was let in
carries the page's plan.

`PlansInv` (`PlanProofs`). `plan.bin` has one name in every workdir, and plans,
applies, retries and destroy plans share workdirs. `WorkdirsOwned` says that a
workdir belongs to one environment; by `OwnInv` that environment has one runner
at a time; so the only job that could overwrite the `plan.bin` under review
(`ReviewInv`), the one an apply is about to run or may be retried with
(`ApplyInv`) is the runner of that environment, and it is not planning.
`TofuInv` and `ActiveInv` follow the tofu state from an apply to the row it
makes active, `AppliedInv` what was run.

`WorkflowProofs` shows the refinement with the whole invariant: the initial state
maps to the initial state of `ApprovalWorkflow`, and each of the effects above to
one of its actions or to a stutter. A row that is not written keeps its
phase and its ticket (`TicketsLast`) since a ticket depends on what a job never
changes. The hard steps are the ends of jobs, where the phase is decided by the
job's row and the ticket by the row of the apply that is now last.

`Spec` includes `Abandon`, so all of this holds with crashes and lost writes.

### Accounts

`AccountsProofs` proves `AccountTypes` from `AccountsInv`, which adds to `TypeOK`
what each request has established by the point it has reached (`RequestInv`).
`LastAdminGuarded` follows from it: a request whose reads are still current when
it writes either counted somebody who is still there, or did not have to count
because the account it changes stays an administrator or was none; every other
step keeps the administrators there are. `last_admin` shows that the premise is
needed. `ChangedAccountsLoseSessions` says that a session opened before a disable
or a reset is deleted, or about to be; it assumes that requests run to their end
and that the API is not reseeded, because `Abandon` and `Reseed` both leave old
sessions behind, and it exempts sessions whose login was overtaken.

### The environment pages

`GuidanceIsRight` splits the rows by status: `Guarded` is what every row that ever
exists has in common (a plan where there is one to review, an approval only where
it can be), and `GuidanceFits` is proved of each guarded row.

The other theorems rest on `ConsoleInv`. A page holds a request in many places:
in flight, in an open dialog, behind the retry button, in the load that ends it
(`Held`). `Repeats` says that every step only copies a request that is held,
unless it is a click, which brings a new one; so all copies of one click's request
ask for the same, of the same row (`RequestsInv`). `UnderWayInv` gives the page one
action at a time. `CopiesInv` says that every row a page holds is the current one
or has a smaller revision (`Known`), since every write raises it. A request
that has had its effect is therefore `Stale` for good, which is `ClicksActOnce`;
one that is accepted carries the row itself, or that of another environment with the
revision the server compares, which is `EffectsMeetShownRow`; and
what is loaded after a conflict has a larger revision, which is
`ConflictsAreExplained`.

### The other pages

The pages of `MCWebPages` are independent, so `WebInv` is the conjunction of one
invariant per page, and `MountedSteps` says that a step moves one page and leaves the rest.
Requests in flight are sequences or sets: `RemoveAtIs` and `AppendIs` say what
answering and sending do to a sequence.

- `JobInv`: the jobs that the page, a load or an answer names exist (`Posted`), and the
  stream has told no more of a log than there is (`StreamFits`).
- `OfferInv`: a record's type and artifact are those of its job (`Describes`), a status
  that was loaded or told is true of the job it was loaded or told of, and once the
  stream was heard (`Heard`) so is that of the path's own record. It holds because rows
  only grow (`RowsOnlyGrow`) and because a page that goes elsewhere has heard nothing.
- `CreateInv`: a review that is not cancelled is of the choice on the screen
  (`Reviews`), because the effect's clean-up cancels it when the choice changes; when
  none is under way and none has failed, the one shown is of that choice and the
  server accepts its spec.
- `CatalogInv`: a preflight under way is of the connection asked about last (`Fits`).
- `ListInv`: one load of the guided start at most is not cancelled, and it is the
  newest (`LoadsFit`); the users page has one saving change (`CallsFit`).
- `SpecForm` has no state to speak of; the work is in its operators. `MaskIs` says
  what the wizard's wrapping shift yields for each prefix length, `PrefixesAgree` and
  `AddressesAgree` compare it with the server's prefixes, `WizardIs` and
  `ServerIs` say field by field what each validator accepts, and `AgreeOn` puts
  them together. The total of servers is a fold over the instances. A form of the
  model has one or two of them, so `TotalIs` unfolds the fold twice, and
  `ValidatorsAgree` is proved for every width of an address but for specs of that
  size; more instances would need induction over the fold's operator, which the
  prover does not have.

### What is only model-checked

Liveness under fairness is beyond the prover: `BusyEnds`, `ActionEnds`,
`ReviewFollowsPlan`, `EndIsAnnounced`, `ApplyingEnds` and `ReviewSettles`. The four
violations are TLC's counterexamples. The inductive invariants were
model-checked before they were proved.

## Not modelled

Everything marked `not_modelled` in `PROJECT.json`, with its reason, and the parts
that the notes of `partly` components name:

- the overview, the audit feed, the templates API and the OpenStack catalogue read
  and never write; the request drafts are a function of an English sentence;
- the SQLite store is not wired into a binary;
- markup, translated texts (`i18n.tsx`, `uiCopy.ts`), formatting and HCL are layout:
  no decision of the program depends on them;
- search fields, filters, tabs and their mirror in the URL, and the statistics over
  a list, are functions of what is typed and loaded;
- the login form keeps no state beyond its fields; what it asks for is in `Accounts`;
- the quick create form of the environments page sends the same request as the
  wizard without a review, so nothing of `CreatePage` applies to it;
- the export of a provider's credentials to `clouds.yaml`, which is outside the
  database and never read back by the code that is modelled.

Hazards without a property are listed in `PROJECT.json` with the reason.
