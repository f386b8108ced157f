---------------------------- MODULE Orchestrator ----------------------------
(***************************************************************************)
(* Environments, the jobs queued for them, the API requests that queue     *)
(* jobs and the runners that execute them.                                 *)
(*                                                                         *)
(* The API and the runners share nothing but the MySQL store.  An API      *)
(* request reads the environment row, sometimes reads a job row, and then  *)
(* writes the environment under a compare-and-swap on its revision, in one *)
(* transaction with the job it inserts (internal/api/environments.go,      *)
(* internal/storage/mysql/store.go).  A runner claims a queued job and     *)
(* takes it through tofu in several steps, writing the job row by id, and  *)
(* ends with a read and a compare-and-swap of the environment              *)
(* (cmd/runner/main.go).  Each of those database accesses is one action,   *)
(* so requests and runners interleave between any two of them.             *)
(*                                                                         *)
(* A workdir is named by the plan job that rendered it, as in              *)
(* internal/renderer/workdir.go, a log directory by the job whose id ends  *)
(* its path; NoJob stands for an empty string.                             *)
(***************************************************************************)
EXTENDS Naturals, EnvironmentLifecycle

CONSTANTS
  Envs,        \* environment ids
  Jobs,        \* job ids (uuids), each used at most once
  Runners,     \* runner processes
  Clients,     \* signed-in users, each with at most one request in flight
  Admins,      \* the clients whose user row has is_admin
  Browsers,    \* the clients that send expected_revision with their requests
  Specs,       \* environment specs that pass validation
  MaxRetries,  \* the retry budget given to a new environment
  Faults,      \* TRUE: a runner may die, and its database writes may fail
  NoJob, NoEnv, NoSpec, NoClient

ASSUME ClientsAssumption == Admins \subseteq Clients /\ Browsers \subseteq Clients
ASSUME RetriesAssumption == MaxRetries \in Nat
ASSUME FaultsAssumption == Faults \in BOOLEAN
ASSUME NoneAssumption == /\ NoJob \notin Jobs /\ NoEnv \notin Envs
                          /\ NoSpec \notin Specs /\ NoClient \notin Clients

VARIABLES
  env,        \* the environments table
  job,        \* the jobs table
  client,     \* what each client's request has read so far
  runner,     \* where each runner is in the job it has claimed
  planFile,   \* per workdir: the plan job whose tofu plan wrote plan.bin last
  resources,  \* per environment: the workdirs whose tofu state has resources
  approved,   \* history: the plan jobs an administrator has approved
  applied     \* history: the plan jobs whose plan.bin tofu apply has run

vars == <<env, job, client, runner, planFile, resources, approved, applied>>

-----------------------------------------------------------------------------
(* Rows and process states *)

EnvRows == [status : EnvStatuses, op : RequestOperations, approval : Approvals,
            spec : Specs \union {NoSpec}, lastPlan : Jobs \union {NoJob},
            lastJob : Jobs \union {NoJob}, workdir : Jobs \union {NoJob},
            retry : 0..MaxRetries, rev : Nat]

JobRows == [status : JobStatuses, type : JobTypes, env : Envs \union {NoEnv},
            op : RequestOperations, spec : Specs \union {NoSpec},
            source : Jobs \union {NoJob}, workdir : Jobs \union {NoJob},
            logDir : Jobs \union {NoJob}, planned : BOOLEAN,
            by : Clients \union {NoClient}, retry : Nat]

AbsentEnv == [status |-> "absent", op |-> "create", approval |-> "not_requested",
              spec |-> NoSpec, lastPlan |-> NoJob, lastJob |-> NoJob,
              workdir |-> NoJob, retry |-> 0, rev |-> 0]

AbsentJob == [status |-> "absent", type |-> "plan", env |-> NoEnv, op |-> "create",
              spec |-> NoSpec, source |-> NoJob, workdir |-> NoJob, logDir |-> NoJob,
              planned |-> FALSE, by |-> NoClient, retry |-> 0]

RequestKinds == {"none", "plan", "approve", "apply", "retry", "destroy"}

\* seen is the revision of the page a browser last looked at, which its next
\* request carries as expected_revision, and seenPlan the plan shown on it.
\* snap and row are the rows the handler of the request has read.
IdleClient == [pc |-> "idle", kind |-> "none", env |-> NoEnv, seen |-> 0,
               seenPlan |-> NoJob, snap |-> AbsentEnv, row |-> AbsentJob]

IdleRunner == [pc |-> "idle", id |-> NoJob, ok |-> FALSE, snap |-> AbsentEnv]

Init ==
  /\ env = [e \in Envs |-> AbsentEnv]
  /\ job = [j \in Jobs |-> AbsentJob]
  /\ client = [c \in Clients |-> IdleClient]
  /\ runner = [r \in Runners |-> IdleRunner]
  /\ planFile = [w \in Jobs |-> NoJob]
  /\ resources = [e \in Envs |-> {}]
  /\ approved = {}
  /\ applied = {}

-----------------------------------------------------------------------------
(* Building rows *)

\* resetEnvironmentAttemptState
Reset(row) == [row EXCEPT !.approval = "not_requested", !.workdir = NoJob,
                          !.lastPlan = NoJob]

\* newEnvironmentPlanJob
PlanJob(c, e, op, spec) ==
  [AbsentJob EXCEPT !.status = "queued", !.env = e, !.op = op, !.spec = spec,
                    !.by = c]

\* The job handleEnvironmentApply builds from the approved plan.
ApplyJob(c, e, row, plan) ==
  [status |-> "queued", type |-> "apply", env |-> e, op |-> row.op,
   spec |-> row.spec, source |-> row.lastPlan, workdir |-> plan.workdir,
   logDir |-> NoJob, planned |-> plan.planned, by |-> c, retry |-> 0]

\* The copy of the failed job handleEnvironmentRetry queues under a new id.
RetryJob(c, failed) ==
  [failed EXCEPT !.status = "queued", !.by = c, !.retry = @ + 1]

Unused(j) == job[j].status = "absent"

-----------------------------------------------------------------------------
(* API requests *)

Kind(c, k) == client[c].kind = k

\* The environment a request is about, and the row its handler has read.
Target(c) == client[c].env
Snap(c) == client[c].snap

\* A browser looks at the environment.
View(c, e) ==
  /\ c \in Browsers /\ client[c].pc \in {"idle", "viewed"}
  /\ env[e].status # "absent"
  /\ client' = [client EXCEPT ![c] = [IdleClient EXCEPT
                  !.pc = "viewed", !.env = e, !.seen = env[e].rev,
                  !.seenPlan = env[e].lastPlan]]
  /\ UNCHANGED <<env, job, runner, planFile, resources, approved, applied>>

\* POST /api/environments: one transaction inserts the environment and its
\* first plan job.
CreateEnvironment(c, e, spec) ==
  /\ client[c].pc = "idle"
  /\ env[e].status = "absent"
  /\ \E j \in Jobs :
       /\ Unused(j)
       /\ job' = [job EXCEPT ![j] = PlanJob(c, e, "create", spec)]
       /\ env' = [env EXCEPT ![e] = [AbsentEnv EXCEPT
                    !.status = "planning", !.spec = spec, !.lastPlan = j,
                    !.lastJob = j, !.rev = 1]]
  /\ UNCHANGED <<client, runner, planFile, resources, approved, applied>>

\* Mutant: the retry budget is not checked.
AdmissibleWithoutBudget(c, kind, row) ==
  \/ kind = "plan" /\ \E op \in RequestOperations : PlanAccess(row.status, op)
  \/ /\ kind = "approve" /\ c \in Admins
     /\ row.lastPlan # NoJob
     /\ CanApprovePlan(row.status, row.approval)
  \/ /\ kind = "apply" /\ c \in Admins
     /\ CanQueueApply(row.status, row.approval, row.op)
  \/ kind = "retry" /\ row.lastJob # NoJob /\ CanRetry(row.status)
  \/ kind = "destroy" /\ c \in Admins /\ CanQueueDestroy(row.status)

\* What a handler checks on the environment row alone.
Admissible(c, kind, row) ==
  \/ kind = "plan" /\ \E op \in RequestOperations : PlanAccess(row.status, op)
  \/ /\ kind = "approve" /\ c \in Admins
     /\ row.lastPlan # NoJob
     /\ CanApprovePlan(row.status, row.approval)
  \/ /\ kind = "apply" /\ c \in Admins
     /\ CanQueueApply(row.status, row.approval, row.op)
  \/ /\ kind = "retry"
     /\ row.lastJob # NoJob
     /\ row.retry < MaxRetries
     /\ CanRetry(row.status)
  \/ kind = "destroy" /\ c \in Admins /\ CanQueueDestroy(row.status)

\* Mutant: expected_revision is not compared.
LoadWithoutPrecondition(c, e, kind) ==
  /\ client[c].pc = IF c \in Browsers THEN "viewed" ELSE "idle"
  /\ c \in Browsers => e = Target(c)
  /\ env[e].status # "absent"
  /\ Admissible(c, kind, env[e])
  /\ client' = [client EXCEPT ![c].pc = "loaded", ![c].kind = kind, ![c].env = e,
                              ![c].snap = env[e]]
  /\ UNCHANGED <<env, job, runner, planFile, resources, approved, applied>>

\* GetEnvironment, the first read of every handler, and the checks that need
\* nothing else, validateExpectedRevision among them.  A request they refuse
\* changes nothing and is not a step.
Load(c, e, kind) ==
  /\ IF c \in Browsers
     THEN client[c].pc = "viewed" /\ e = Target(c) /\ client[c].seen = env[e].rev
     ELSE client[c].pc = "idle"
  /\ env[e].status # "absent"
  /\ Admissible(c, kind, env[e])
  /\ client' = [client EXCEPT ![c].pc = "loaded", ![c].kind = kind, ![c].env = e,
                              ![c].snap = env[e]]
  /\ UNCHANGED <<env, job, runner, planFile, resources, approved, applied>>

\* GetJob, the second read of approve, apply and retry, and the checks on it.
JobAdmissible(c, row) ==
  \/ Kind(c, "approve") /\ row.status = "done"
  \/ Kind(c, "apply") /\ row.status = "done" /\ row.planned /\ row.workdir # NoJob
  \/ /\ Kind(c, "retry") /\ row.status = "failed"
     /\ RetryAccess(c \in Admins, Snap(c).status, row.type, row.op)

LoadJob(c) ==
  LET id == IF Kind(c, "retry") THEN Snap(c).lastJob ELSE Snap(c).lastPlan
  IN  /\ client[c].pc = "loaded"
      /\ client[c].kind \in {"approve", "apply", "retry"}
      /\ client' = [client EXCEPT ![c] =
                      IF id \in Jobs /\ JobAdmissible(c, job[id])
                      THEN [@ EXCEPT !.pc = "ready", !.row = job[id]]
                      ELSE IdleClient]
      /\ UNCHANGED <<env, job, runner, planFile, resources, approved, applied>>

\* Mutant: an UPDATE by id alone.
AnyRevision(e, row) == TRUE

\* The UPDATE's WHERE clause: the row still has the revision the handler read.
RevisionMatches(e, row) == env[e].rev = row.rev

\* One transaction: the environment under compare-and-swap, and the new job.
\* newEnv has the revision it was read with, the write increments it.
CommitWithJob(c, j, newEnv, newJob) ==
  /\ Unused(j)
  /\ RevisionMatches(Target(c), Snap(c))
  /\ env' = [env EXCEPT ![Target(c)] = [newEnv EXCEPT !.rev = @ + 1]]
  /\ job' = [job EXCEPT ![j] = newJob]
  /\ client' = [client EXCEPT ![c] = IdleClient]
  /\ UNCHANGED <<runner, planFile, resources, approved, applied>>

\* POST /plan.  A spec in the body replaces the environment's; the operation
\* of the body (or the default one) passes PlanAccess.
Plan(c, j, op, spec) ==
  /\ client[c].pc = "loaded" /\ Kind(c, "plan")
  /\ PlanAccess(Snap(c).status, op)
  /\ CommitWithJob(c, j,
       [Reset(Snap(c)) EXCEPT !.op = op, !.spec = spec, !.status = "planning",
                              !.lastPlan = j, !.lastJob = j],
       PlanJob(c, Target(c), op, spec))

\* POST /approve (admin only).  Only the environment row is written.
Approve(c) ==
  /\ client[c].pc = "ready" /\ Kind(c, "approve")
  /\ RevisionMatches(Target(c), Snap(c))
  /\ env' = [env EXCEPT ![Target(c)] = [Snap(c) EXCEPT
               !.approval = "approved", !.status = "approved", !.rev = @ + 1]]
  /\ approved' = approved \union {Snap(c).lastPlan}
  /\ client' = [client EXCEPT ![c] = IdleClient]
  /\ UNCHANGED <<job, runner, planFile, resources, applied>>

\* POST /apply (admin only).
Apply(c, j) ==
  /\ client[c].pc = "ready" /\ Kind(c, "apply")
  /\ CommitWithJob(c, j,
       [Snap(c) EXCEPT !.status = "applying", !.lastJob = j],
       ApplyJob(c, Target(c), Snap(c), client[c].row))

\* Mutant: the retry is not counted on the environment.
RetryUncounted(c, j) ==
  /\ client[c].pc = "ready" /\ Kind(c, "retry")
  /\ CommitWithJob(c, j,
       [Reset(Snap(c)) EXCEPT
          !.status = IF client[c].row.type = "apply" THEN "applying" ELSE "planning",
          !.lastJob = j],
       RetryJob(c, client[c].row))

\* POST /retry: queues a copy of the failed job.  The attempt state is reset
\* whatever the job was, an apply and a destroy plan included.
Retry(c, j) ==
  /\ client[c].pc = "ready" /\ Kind(c, "retry")
  /\ CommitWithJob(c, j,
       [Reset(Snap(c)) EXCEPT
          !.status = IF client[c].row.type = "apply" THEN "applying" ELSE "planning",
          !.lastJob = j, !.retry = @ + 1],
       RetryJob(c, client[c].row))

\* POST /destroy (admin only, confirmed by name): a destroy plan.  The workdir
\* survives the reset, for the runner to plan the destruction in.
Destroy(c, j) ==
  /\ client[c].pc = "loaded" /\ Kind(c, "destroy")
  /\ CommitWithJob(c, j,
       [Reset(Snap(c)) EXCEPT
          !.op = "destroy", !.status = "planning", !.workdir = Snap(c).workdir,
          !.lastPlan = j, !.lastJob = j],
       PlanJob(c, Target(c), "destroy", Snap(c).spec))

\* The compare-and-swap matched no row (409), the request was cancelled, or
\* the API process died: nothing is written.
Abort(c) ==
  /\ client[c].pc \in {"loaded", "ready"}
  /\ client' = [client EXCEPT ![c] = IdleClient]
  /\ UNCHANGED <<env, job, runner, planFile, resources, approved, applied>>

\* The writes of a request that has passed all its checks.
Submit(c) ==
  \/ \E j \in Jobs, op \in RequestOperations, spec \in Specs : Plan(c, j, op, spec)
  \/ Approve(c)
  \/ \E j \in Jobs : Apply(c, j) \/ Retry(c, j) \/ Destroy(c, j)

ClientStep(c) ==
  \/ \E e \in Envs : View(c, e)
  \/ \E e \in Envs, spec \in Specs : CreateEnvironment(c, e, spec)
  \/ \E e \in Envs, kind \in RequestKinds \ {"none"} : Load(c, e, kind)
  \/ LoadJob(c)
  \/ Submit(c)
  \/ Abort(c)

-----------------------------------------------------------------------------
(* The runner: one job at a time *)

Claimed(r) == job[runner[r].id]
EnvOf(r) == Claimed(r).env
WorkdirOf(r) == Claimed(r).workdir

At(r, pc) == runner[r].pc = pc
Goto(r, pc) == runner' = [runner EXCEPT ![r].pc = pc]

\* ClaimNextQueuedJob.  The store takes the oldest created_at, which API
\* processes stamp from their own clocks before they commit: any queued job
\* can be the oldest.
Claim(r) ==
  /\ At(r, "idle")
  /\ \E j \in Jobs :
       /\ job[j].status = "queued"
       /\ job' = [job EXCEPT ![j].status = "running"]
       /\ runner' = [runner EXCEPT ![r] = [IdleRunner EXCEPT !.pc = "claimed", !.id = j]]
  /\ UNCHANGED <<env, client, planFile, resources, approved, applied>>

\* runnerJobLogDir: the log directory the job row has, or the job's own.
LogDirOf(r) == IF Claimed(r).logDir # NoJob THEN Claimed(r).logDir ELSE runner[r].id

\* The checks on an apply job's source and the UpdateJob that copies the
\* source's workdir and plan path.  Here and in PrepareDestroyPlan the read and
\* the write of the job are one step: only its runner uses a running job's
\* workdir.
PrepareApply(r) ==
  LET src == job[Claimed(r).source]
  IN  /\ At(r, "claimed") /\ Claimed(r).type = "apply"
      /\ Claimed(r).source # NoJob
      /\ src.type = "plan" /\ src.status = "done" /\ src.workdir # NoJob /\ src.planned
      /\ job' = [job EXCEPT ![runner[r].id].workdir = src.workdir,
                            ![runner[r].id].logDir = LogDirOf(r),
                            ![runner[r].id].planned = TRUE]
      /\ Goto(r, "prepared")
      /\ UNCHANGED <<env, client, planFile, resources, approved, applied>>

\* A create or update plan is rendered into a workdir of its own.
PreparePlan(r) ==
  /\ At(r, "claimed") /\ Claimed(r).type = "plan" /\ Claimed(r).op # "destroy"
  /\ job' = [job EXCEPT ![runner[r].id].workdir = runner[r].id,
                        ![runner[r].id].logDir = LogDirOf(r)]
  /\ planFile' = [planFile EXCEPT ![runner[r].id] = NoJob]
  /\ Goto(r, "prepared")
  /\ UNCHANGED <<env, client, resources, approved, applied>>

\* prepareDestroyPlanJob: the workdir is the environment's, as it is now.
PrepareDestroyPlan(r) ==
  /\ At(r, "claimed") /\ Claimed(r).type = "plan" /\ Claimed(r).op = "destroy"
  /\ env[EnvOf(r)].workdir # NoJob
  /\ job' = [job EXCEPT ![runner[r].id].workdir = env[EnvOf(r)].workdir,
                        ![runner[r].id].logDir = LogDirOf(r)]
  /\ Goto(r, "prepared")
  /\ UNCHANGED <<env, client, planFile, resources, approved, applied>>

\* tofu init and validate, and the UpdateJob that records the plan path.
InitValidate(r) ==
  /\ At(r, "prepared") /\ Claimed(r).type = "plan"
  /\ job' = [job EXCEPT ![runner[r].id].planned = TRUE]
  /\ Goto(r, "planning")
  /\ UNCHANGED <<env, client, planFile, resources, approved, applied>>

\* tofu plan (or plan -destroy) -out plan.bin, in the job's workdir.
TofuPlan(r) ==
  /\ At(r, "planning")
  /\ planFile' = [planFile EXCEPT ![WorkdirOf(r)] = runner[r].id]
  /\ Goto(r, "ran")
  /\ UNCHANGED <<env, job, client, resources, approved, applied>>

\* What running plan.bin leaves in the tofu state of the workdir: a destroy
\* plan empties it, any other plan fills it.
AfterApply(live, w, plan) ==
  IF job[plan].op = "destroy" THEN live \ {w} ELSE live \union {w}

\* tofu apply plan.bin.  It may fail half way: the resources may be there, or
\* still be there, although the command failed.
TofuApply(r, ok) ==
  LET e    == EnvOf(r)
      w    == WorkdirOf(r)
      done == AfterApply(resources[e], w, planFile[w])
  IN  /\ At(r, "prepared") /\ Claimed(r).type = "apply"
      /\ planFile[w] # NoJob
      /\ applied' = applied \union {planFile[w]}
      /\ \E now \in IF ok THEN {done} ELSE {done, resources[e], resources[e] \union {w}} :
           resources' = [resources EXCEPT ![e] = now]
      /\ Goto(r, IF ok THEN "ran" ELSE "failing")
      /\ UNCHANGED <<env, job, client, planFile, approved>>

\* Any step before or instead of a tofu run may fail: no usable provider, a
\* source or a workdir that is missing, init, validate or plan exiting non-zero.
StepFails(r) ==
  /\ runner[r].pc \in {"claimed", "prepared", "planning"}
  /\ Goto(r, "failing")
  /\ UNCHANGED <<env, job, client, planFile, resources, approved, applied>>

\* Mutant: a job that failed is marked done.
FinishJobAlwaysDone(r) ==
  /\ runner[r].pc \in {"ran", "failing"}
  /\ job' = [job EXCEPT ![runner[r].id].status = "done"]
  /\ runner' = [runner EXCEPT ![r].pc = "finished", ![r].ok = At(r, "ran")]
  /\ UNCHANGED <<env, client, planFile, resources, approved, applied>>

\* The job row gets its final status.  The error of the write that marks a job
\* failed is ignored, the row then stays running.
FinishJob(r) ==
  /\ \/ /\ At(r, "ran")
        /\ job' = [job EXCEPT ![runner[r].id].status = "done"]
        /\ runner' = [runner EXCEPT ![r].pc = "finished", ![r].ok = TRUE]
     \/ /\ At(r, "failing")
        /\ \/ job' = [job EXCEPT ![runner[r].id].status = "failed"]
           \/ Faults /\ job' = job
        /\ Goto(r, "finished")
  /\ UNCHANGED <<env, client, planFile, resources, approved, applied>>

\* GetEnvironment of failJob and recordRunnerEnvironmentSuccess: a job that is
\* no longer the environment's last one is ignored.
LoadEnv(r) ==
  /\ At(r, "finished")
  /\ runner' = [runner EXCEPT ![r] =
                  IF env[EnvOf(r)].lastJob \in {NoJob, runner[r].id}
                  THEN [@ EXCEPT !.pc = "recording", !.snap = env[EnvOf(r)]]
                  ELSE IdleRunner]
  /\ UNCHANGED <<env, job, client, planFile, resources, approved, applied>>

\* Mutants: the outcome of a plan does not name the plan, the outcome of an
\* apply does not restore the workdir, a failure leaves the status as it is.
RecordedWithoutPlan(r) ==
  LET row == [runner[r].snap EXCEPT !.lastJob = runner[r].id, !.rev = @ + 1]
  IN  IF ~runner[r].ok THEN [row EXCEPT !.status = "failed"]
      ELSE IF Claimed(r).type = "plan"
      THEN [row EXCEPT !.workdir = WorkdirOf(r), !.status = "pending_approval",
                       !.approval = "pending"]
      ELSE [row EXCEPT !.status = "active", !.workdir = WorkdirOf(r)]

RecordedWithoutWorkdir(r) ==
  LET row == [runner[r].snap EXCEPT !.lastJob = runner[r].id, !.rev = @ + 1]
  IN  IF ~runner[r].ok THEN [row EXCEPT !.status = "failed"]
      ELSE IF Claimed(r).type = "plan"
      THEN [row EXCEPT !.workdir = WorkdirOf(r), !.lastPlan = runner[r].id,
                       !.status = "pending_approval", !.approval = "pending"]
      ELSE [row EXCEPT !.status =
              IF Claimed(r).op = "destroy" THEN "destroyed" ELSE "active"]

RecordedWithoutFailure(r) ==
  LET row == [runner[r].snap EXCEPT !.lastJob = runner[r].id, !.rev = @ + 1]
  IN  IF ~runner[r].ok THEN row
      ELSE [row EXCEPT !.workdir = WorkdirOf(r), !.status =
              IF Claimed(r).type = "plan" THEN "pending_approval" ELSE "active"]

\* The environment row the runner computes from what it has read.
Recorded(r) ==
  LET j   == Claimed(r)
      row == [runner[r].snap EXCEPT !.lastJob = runner[r].id, !.rev = @ + 1]
  IN  IF ~runner[r].ok THEN [row EXCEPT !.status = "failed"]
      ELSE IF j.type = "plan"
      THEN [row EXCEPT !.workdir = j.workdir, !.lastPlan = runner[r].id,
                       !.status = "pending_approval", !.approval = "pending"]
      ELSE [row EXCEPT !.workdir = j.workdir,
                       !.status = IF j.op = "destroy" THEN "destroyed" ELSE "active"]

\* UpdateEnvironment.  A revision that moved on loses the result: the runner
\* writes a *_conflict audit event and goes on.
Record(r) ==
  /\ At(r, "recording")
  /\ env' = IF RevisionMatches(EnvOf(r), runner[r].snap)
            THEN [env EXCEPT ![EnvOf(r)] = Recorded(r)] ELSE env
  /\ runner' = [runner EXCEPT ![r] = IdleRunner]
  /\ UNCHANGED <<job, client, planFile, resources, approved, applied>>

\* The process dies and starts again, or a database error makes it `continue`
\* with the next job.  Nothing puts the claimed job back.
Abandon(r) ==
  /\ Faults /\ ~At(r, "idle")
  /\ runner' = [runner EXCEPT ![r] = IdleRunner]
  /\ UNCHANGED <<env, job, client, planFile, resources, approved, applied>>

\* What a runner does with a job, from the claim to the environment write.
Progress(r) ==
  \/ Claim(r)
  \/ PrepareApply(r) \/ PreparePlan(r) \/ PrepareDestroyPlan(r)
  \/ InitValidate(r) \/ TofuPlan(r)
  \/ \E ok \in BOOLEAN : TofuApply(r, ok)
  \/ StepFails(r)
  \/ FinishJob(r) \/ LoadEnv(r) \/ Record(r)

Next ==
  \/ \E c \in Clients : ClientStep(c)
  \/ \E r \in Runners : Progress(r) \/ Abandon(r)

\* Users are under no obligation; a runner that is up keeps polling, and tofu
\* returns.
Fairness == \A r \in Runners : WF_vars(Progress(r))

Spec == Init /\ [][Next]_vars
FairSpec == Spec /\ Fairness

-----------------------------------------------------------------------------
(* Properties *)

RequestStates == {"idle", "viewed", "loaded", "ready"}
RunnerStates == {"idle", "claimed", "prepared", "planning", "ran", "failing",
                 "finished", "recording"}

ClientStates == [pc : RequestStates, kind : RequestKinds, env : Envs \union {NoEnv},
                 seen : Nat, seenPlan : Jobs \union {NoJob},
                 snap : EnvRows, row : JobRows]
RunnerRows == [pc : RunnerStates, id : Jobs \union {NoJob}, ok : BOOLEAN, snap : EnvRows]

\* Every variable has the shape the code gives it; in particular no handler
\* takes an environment beyond its retry budget.
TypeOK ==
  /\ env \in [Envs -> EnvRows]
  /\ job \in [Jobs -> JobRows]
  /\ client \in [Clients -> ClientStates]
  /\ runner \in [Runners -> RunnerRows]
  /\ planFile \in [Jobs -> Jobs \union {NoJob}]
  /\ resources \in [Envs -> SUBSET Jobs]
  /\ approved \subseteq Jobs
  /\ applied \subseteq Jobs

\* No two runners ever work for the same environment, so no two tofu processes
\* share a workdir, its state file or its plan.bin.  No lock enforces it: it
\* follows from the busy statuses, the compare-and-swap on the revision and the
\* claim together (handlers of environments.go against the loop of main.go).
OneRunnerPerEnvironment ==
  \A r, s \in Runners :
    r # s /\ ~At(r, "idle") /\ ~At(s, "idle") => EnvOf(r) # EnvOf(s)

\* The outcome of a job always reaches its environment: when the runner comes
\* to write it the environment is still busy with this very job, so neither the
\* *_ignored branch nor the *_conflict branch of failJob and
\* recordRunnerEnvironmentSuccess is ever taken.
OutcomeNeverDropped ==
  \A r \in Runners :
    /\ ~At(r, "idle") => /\ env[EnvOf(r)].lastJob = runner[r].id
                         /\ IsEnvironmentBusy(env[EnvOf(r)].status)
    /\ At(r, "recording") => RevisionMatches(EnvOf(r), runner[r].snap)

\* tofu apply only ever runs a plan.bin that an administrator approved, through
\* retries, re-plans and destroy plans that overwrite the plan.bin of a workdir
\* an earlier apply has used.
OnlyApprovedPlansApplied == applied \subseteq approved

\* A plan under review or approved is the plan of what the environment row says:
\* its job is done, has the row's operation and spec, and wrote the plan.bin an
\* apply would run.
ReviewedPlanIsCurrent ==
  \A e \in Envs : env[e].status \in {"pending_approval", "approved"} =>
    LET p == env[e].lastPlan
    IN  /\ p # NoJob
        /\ job[p].status = "done" /\ job[p].type = "plan" /\ job[p].env = e
        /\ job[p].op = env[e].op /\ job[p].spec = env[e].spec
        /\ planFile[job[p].workdir] = p

\* Applies and destroy plans are queued by administrators only: an operator
\* cannot get one by retrying the failed job of an administrator.
PrivilegedJobsByAdmins ==
  \A j \in Jobs : job[j].type = "apply" \/ job[j].op = "destroy" =>
    job[j].by \in Admins

\* The retries of a job chain never exceed the environment's count, nor that
\* count the budget, however requests race.
RetriesWithinBudget ==
  \A j \in Jobs : ~Unused(j) =>
    /\ job[j].retry <= env[job[j].env].retry
    /\ env[job[j].env].retry <= MaxRetries

\* The workdir that the row of an active environment names holds a tofu state that
\* lists resources, though a retry has emptied the field before the apply restores it.
ActiveIsBacked ==
  \A e \in Envs : env[e].status = "active" => env[e].workdir \in resources[e]

\* A client that sends expected_revision approves the plan it looked at, even
\* when the environment is re-planned between its look and its request.
ApprovesWhatWasSeen ==
  [][\A c \in Clients :
       /\ c \in Browsers /\ Kind(c, "approve")
       /\ env'[Target(c)].approval = "approved" /\ env[Target(c)].approval # "approved"
       /\ client'[c].pc = "idle" /\ client[c].pc = "ready"
       => /\ env[Target(c)].lastPlan = client[c].seenPlan
          /\ job[client[c].seenPlan].status = "done"]_vars

\* A job that stays running for ever: no runner is at work on it, and nothing
\* queues it again.
Orphaned(j) ==
  /\ job[j].status = "running"
  /\ \A r \in Runners : At(r, "idle") \/ runner[r].id # j

\* A failed environment can be retried while its budget lasts, for its last job is
\* the failed one the retry handler insists on.  The one exception is the ignored
\* error of failJob: the job is then left running, with nobody to end it.
FailedIsRetryable ==
  \A e \in Envs : env[e].status = "failed" =>
    \/ job[env[e].lastJob].status = "failed"
    \/ Faults /\ Orphaned(env[e].lastJob)

\* An environment that is busy does not stay busy: every queued job is claimed
\* and its outcome recorded, while runners live and tofu returns.
BusyEnds == \A e \in Envs :
  IsEnvironmentBusy(env[e].status) ~> ~IsEnvironmentBusy(env[e].status)

\* cmd/runner/main.go:272 asks for "an existing applied workdir": a destroy plan
\* that succeeded was made against a workdir that has the resources.
DestroyPlanSeesResources ==
  \A j \in Jobs :
    LET e == job[j].env IN
    /\ job[j].status = "done" /\ job[j].type = "plan" /\ job[j].op = "destroy"
    /\ env[e].status = "pending_approval" /\ env[e].lastPlan = j
    /\ resources[e] # {}
    => job[j].workdir \in resources[e]

-----------------------------------------------------------------------------
(* The workflow this module implements *)

PhaseOf(status) ==
  CASE status = "pending_approval"        -> "review"
    [] status \in {"active", "destroyed"} -> "settled"
    [] OTHER                              -> status

\* The plan an environment may run: the approved one, and the one an apply job
\* carries as its source, whatever became of that job.
TicketOf(e) ==
  IF env[e].status = "approved" THEN env[e].lastPlan
  ELSE IF env[e].lastJob # NoJob /\ job[env[e].lastJob].type = "apply"
       THEN job[env[e].lastJob].source
       ELSE NoJob

Workflow == INSTANCE ApprovalWorkflow WITH
  Plans <- Jobs, NoPlan <- NoJob, ran <- applied,
  phase <- [e \in Envs |-> PhaseOf(env[e].status)],
  ticket <- [e \in Envs |-> TicketOf(e)]

\* Requests, retries, re-plans, claims, crashes and lost writes together never
\* leave the approval workflow: an apply starts from an approval or retries an
\* apply that had one, it runs that very plan, and it succeeds only if it did.
ImplementsWorkflow == Workflow!Spec
=============================================================================
