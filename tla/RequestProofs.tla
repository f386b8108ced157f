---------------------------- MODULE RequestProofs ----------------------------
(***************************************************************************)
(* What every step does to the rows, and what follows for the requests:    *)
(* who may queue what, how often a job is retried, which plan is approved. *)
(*                                                                         *)
(* RowsInv ties the three sides together.  A request that has read a job   *)
(* has read one whose row never changes again; a runner at work has the    *)
(* row it left running; the row of an environment and the row of its last  *)
(* job agree.                                                              *)
(***************************************************************************)
EXTENDS OwnershipProofs

\* The job a handler reads after the environment.
JobRead(c) == IF Kind(c, "retry") THEN Snap(c).lastJob ELSE Snap(c).lastPlan

ReadyInv(c) ==
  client[c].pc = "ready" =>
    /\ client[c].kind \in {"approve", "apply", "retry"}
    /\ JobRead(c) \in Jobs
    /\ client[c].row = job[JobRead(c)]
    /\ JobAdmissible(c, client[c].row)

\* Before a job has its outcome, and after.
Working == {"claimed", "prepared", "planning", "ran", "failing"}
Settling == {"finished", "recording"}

RunningInv(r) ==
  /\ runner[r].pc \in Working => Claimed(r).status = "running" /\ ~runner[r].ok
  /\ runner[r].pc \in Settling =>
       /\ runner[r].ok => Claimed(r).status = "done"
       /\ ~runner[r].ok => \/ Claimed(r).status = "failed"
                           \/ Faults /\ Claimed(r).status = "running"

LastJobInv(e) ==
  LET row == env[e]
  IN  /\ row.status \notin {"draft", "destroying"}
      /\ row.status = "absent" => row = AbsentEnv
      /\ row.status # "absent" =>
           /\ row.lastJob \in Jobs
           /\ job[row.lastJob].op = row.op /\ job[row.lastJob].spec = row.spec
      /\ row.status = "planning" => job[row.lastJob].type = "plan"
      /\ row.status = "applying" => job[row.lastJob].type = "apply"
      /\ row.status \in {"pending_approval", "approved"} => row.lastJob = row.lastPlan
      /\ row.status = "failed" =>
           \/ job[row.lastJob].status = "failed"
           \/ Faults /\ job[row.lastJob].status = "running"

ChainInv(j) ==
  /\ Unused(j) => job[j] = AbsentJob
  /\ ~Unused(j) =>
       /\ job[j].type = "apply" \/ job[j].op = "destroy" => job[j].by \in Admins
       /\ job[j].retry <= env[job[j].env].retry

RowsInv ==
  /\ \A c \in Clients : ReadyInv(c)
  /\ \A r \in Runners : RunningInv(r)
  /\ \A e \in Envs : LastJobInv(e)
  /\ \A j \in Jobs : ChainInv(j)

-----------------------------------------------------------------------------
(* What a request does *)

\* A client reads, or gives up.
Reads(c) ==
  /\ UNCHANGED <<env, job, runner, planFile, resources, approved, applied>>
  /\ \A d \in Clients : d # c => client'[d] = client[d]

\* Job j is queued for environment e.
Inserts(e, j) ==
  /\ Unused(j) /\ ~IsEnvironmentBusy(env[e].status)
  /\ \A d \in Envs : d # e => env'[d] = env[d]
  /\ \A k \in Jobs : k # j => job'[k] = job[k]
  /\ \A d \in Clients : client'[d] = client[d] \/ client'[d].pc = "idle"
  /\ UNCHANGED <<runner, planFile, resources, approved, applied>>
  /\ env'[e].rev = env[e].rev + 1 /\ env'[e].lastJob = j
  /\ env'[e].workdir \in {NoJob, env[e].workdir}
  /\ job'[j].status = "queued" /\ job'[j].env = e
  /\ job'[j].op = env'[e].op /\ job'[j].spec = env'[e].spec
  /\ job'[j].type = "apply" \/ job'[j].op = "destroy" => job'[j].by \in Admins

\* A new environment, a plan or the plan of a destruction.
InsertsPlan(e, j) ==
  /\ Inserts(e, j)
  /\ env'[e].status = "planning" /\ env'[e].retry = env[e].retry
  /\ job'[j].type = "plan" /\ job'[j].workdir = NoJob /\ job'[j].retry = 0

InsertsApply(e, j) ==
  /\ Inserts(e, j)
  /\ env[e].status = "approved"
  /\ env'[e].status = "applying" /\ env'[e].retry = env[e].retry
  /\ env'[e].op = env[e].op
  /\ job'[j].type = "apply" /\ job'[j].source = env[e].lastPlan
  /\ job'[j].workdir = job[env[e].lastPlan].workdir /\ job'[j].retry = 0

InsertsRetry(e, j) ==
  LET failed == env[e].lastJob
  IN  /\ Inserts(e, j)
      /\ env[e].status = "failed"
      /\ failed \in Jobs /\ job[failed].status = "failed" /\ job[failed].env = e
      /\ env'[e].status = IF job[failed].type = "apply" THEN "applying" ELSE "planning"
      /\ env'[e].retry = env[e].retry + 1
      /\ job'[j].type = job[failed].type /\ job'[j].op = job[failed].op
      /\ job'[j].source = job[failed].source /\ job'[j].workdir = job[failed].workdir
      /\ job'[j].retry = job[failed].retry + 1

\* The plan of environment e is approved.
Approves(e) ==
  /\ env[e].status = "pending_approval" /\ env[e].lastPlan \in Jobs
  /\ \A d \in Envs : d # e => env'[d] = env[d]
  /\ env'[e] = [env[e] EXCEPT !.approval = "approved", !.status = "approved",
                              !.rev = @ + 1]
  /\ approved' = approved \union {env[e].lastPlan}
  /\ \A d \in Clients : client'[d] = client[d] \/ client'[d].pc = "idle"
  /\ UNCHANGED <<job, runner, planFile, resources, applied>>

ClientEffect(c) ==
  \/ Reads(c)
  \/ \E e \in Envs, j \in Jobs : InsertsPlan(e, j) \/ InsertsApply(e, j) \/ InsertsRetry(e, j)
  \/ \E e \in Envs : Approves(e)

\* The transaction of plan, apply, retry and destroy: the request's row is the
\* current one, and only this environment, this job and this client change.
LEMMA CommitEffect ==
  ASSUME TypeInv, OwnInv, NEW c \in Clients, NEW j \in Jobs, NEW row \in EnvRows,
         NEW newJob \in JobRows, client[c].pc \in {"loaded", "ready"},
         CommitWithJob(c, j, row, newJob)
  PROVE  /\ Target(c) \in Envs /\ Snap(c) = env[Target(c)]
         /\ Unused(j) /\ ~IsEnvironmentBusy(env[Target(c)].status)
         /\ env'[Target(c)] = [row EXCEPT !.rev = @ + 1]
         /\ job'[j] = newJob
         /\ \A d \in Envs : d # Target(c) => env'[d] = env[d]
         /\ \A k \in Jobs : k # j => job'[k] = job[k]
         /\ \A d \in Clients : client'[d] = client[d] \/ client'[d].pc = "idle"
         /\ UNCHANGED <<runner, planFile, resources, approved, applied>>
<1>1. SnapInv(c) /\ Target(c) \in Envs /\ Admissible(c, client[c].kind, Snap(c))
  BY DEF OwnInv, TypeInv, RequestInv
<1>2. Snap(c) = env[Target(c)]
  BY <1>1 DEF SnapInv, CommitWithJob
<1>3. ~IsEnvironmentBusy(env[Target(c)].status)
  BY <1>1, <1>2, AdmittedWhenFree
<1>4. /\ env'[Target(c)] = [row EXCEPT !.rev = @ + 1]
      /\ \A d \in Envs : d # Target(c) => env'[d] = env[d]
  BY <1>1 DEF CommitWithJob, TypeInv, TypeOK
<1>5. job'[j] = newJob /\ \A k \in Jobs : k # j => job'[k] = job[k]
  BY DEF CommitWithJob, TypeInv, TypeOK
<1>6. \A d \in Clients : client'[d] = client[d] \/ client'[d].pc = "idle"
  BY DEF CommitWithJob, IdleClient, TypeInv, TypeOK
<1>. QED BY <1>1, <1>2, <1>3, <1>4, <1>5, <1>6 DEF CommitWithJob

LEMMA ClientSteps ==
  ASSUME TypeInv, OwnInv, RowsInv, NEW c \in Clients, ClientStep(c)
  PROVE  ClientEffect(c)
<1>1. client[c] \in ClientStates /\ Snap(c) \in EnvRows /\ client[c].row \in JobRows
      /\ (client[c].pc \in {"loaded", "ready"} => RequestInv(c) /\ SnapInv(c) /\ ReadyInv(c))
  BY DEF TypeInv, TypeOK, ClientStates, Snap, OwnInv, RowsInv
<1>2. ASSUME NEW state, client' = [client EXCEPT ![c] = state],
             UNCHANGED <<env, job, runner, planFile, resources, approved, applied>>
      PROVE  Reads(c)
  BY <1>2 DEF Reads, TypeInv, TypeOK
<1>3. ASSUME NEW e \in Envs, View(c, e) PROVE Reads(c)
  BY <1>2, <1>3 DEF View
<1>4. ASSUME NEW e \in Envs, NEW kind \in RequestKinds, Load(c, e, kind) PROVE Reads(c)
  BY <1>4 DEF Load, Reads, TypeInv, TypeOK
<1>5. ASSUME LoadJob(c) PROVE Reads(c)
  BY <1>5 DEF LoadJob, Reads, TypeInv, TypeOK
<1>6. ASSUME Abort(c) PROVE Reads(c)
  BY <1>2, <1>6 DEF Abort
<1>7. ASSUME NEW e \in Envs, NEW spec \in Specs, CreateEnvironment(c, e, spec)
      PROVE  \E j \in Jobs : InsertsPlan(e, j)
  <2>. DEFINE row(j) == [AbsentEnv EXCEPT !.status = "planning", !.spec = spec,
                           !.lastPlan = j, !.lastJob = j, !.rev = 1]
  <2>1. PICK j \in Jobs :
          /\ Unused(j)
          /\ job' = [job EXCEPT ![j] = PlanJob(c, e, "create", spec)]
          /\ env' = [env EXCEPT ![e] = row(j)]
    BY <1>7 DEF CreateEnvironment
  <2>2. env[e] = AbsentEnv /\ ~IsEnvironmentBusy(env[e].status)
    BY <1>7 DEF CreateEnvironment, RowsInv, LastJobInv, IsEnvironmentBusy
  <2>3. env'[e] = row(j) /\ \A d \in Envs : d # e => env'[d] = env[d]
    BY <2>1 DEF TypeInv, TypeOK
  <2>4. job'[j] = PlanJob(c, e, "create", spec) /\ \A k \in Jobs : k # j => job'[k] = job[k]
    BY <2>1 DEF TypeInv, TypeOK
  <2>5. /\ row(j).status = "planning" /\ row(j).spec = spec /\ row(j).lastJob = j
        /\ row(j).rev = AbsentEnv.rev + 1 /\ row(j).op = "create"
        /\ row(j).retry = AbsentEnv.retry /\ row(j).workdir = NoJob
    BY DEF AbsentEnv
  <2>. HIDE DEF row
  <2>6. UNCHANGED <<client, runner, planFile, resources, approved, applied>>
    BY <1>7 DEF CreateEnvironment
  <2>7. /\ job'[j].status = "queued" /\ job'[j].env = e /\ job'[j].op = "create"
        /\ job'[j].spec = spec /\ job'[j].type = "plan" /\ job'[j].workdir = NoJob
        /\ job'[j].retry = 0
    BY <2>4 DEF PlanJob, AbsentJob
  <2>. QED BY <2>1, <2>2, <2>3, <2>4, <2>5, <2>6, <2>7 DEF InsertsPlan, Inserts
\* The rows that a transaction writes, after CommitEffect.
<1>8. ASSUME NEW j \in Jobs, NEW op \in RequestOperations, NEW spec \in Specs,
             Plan(c, j, op, spec)
      PROVE  InsertsPlan(Target(c), j) /\ Target(c) \in Envs
  <2>. DEFINE e == Target(c)
              row == [Reset(Snap(c)) EXCEPT !.op = op, !.spec = spec,
                        !.status = "planning", !.lastPlan = j, !.lastJob = j]
              new == PlanJob(c, e, op, spec)
  <2>1. client[c].pc = "loaded" /\ Target(c) \in Envs /\ op # "destroy"
    BY <1>1, <1>8 DEF Plan, PlanAccess, RequestInv
  <2>2. new \in JobRows
    BY <1>1, <2>1, BuiltJobs
  <2>3. row \in EnvRows
    BY <1>1, ResetRow DEF EnvRows, EnvStatuses
  <2>4. /\ row.rev = Snap(c).rev /\ row.status = "planning" /\ row.lastJob = j
        /\ row.retry = Snap(c).retry /\ row.workdir = NoJob /\ row.op = op
        /\ row.spec = spec
    BY <1>1 DEF Reset, EnvRows
  <2>5. CommitWithJob(c, j, row, new)
    BY <1>8 DEF Plan
  <2>6. /\ new.status = "queued" /\ new.env = e /\ new.op = op /\ new.spec = spec
        /\ new.type = "plan" /\ new.workdir = NoJob /\ new.retry = 0
    BY DEF PlanJob, AbsentJob
  <2>. HIDE DEF row, new
  <2>7. LET next == [row EXCEPT !.rev = @ + 1]
        IN  /\ next.rev = Snap(c).rev + 1 /\ next.status = "planning"
            /\ next.lastJob = j /\ next.retry = Snap(c).retry /\ next.workdir = NoJob
            /\ next.op = op /\ next.spec = spec
    BY <2>3, <2>4 DEF EnvRows
  <2>8. /\ Snap(c) = env[e] /\ Unused(j) /\ ~IsEnvironmentBusy(env[e].status)
        /\ env'[e] = [row EXCEPT !.rev = @ + 1] /\ job'[j] = new
        /\ \A d \in Envs : d # e => env'[d] = env[d]
        /\ \A k \in Jobs : k # j => job'[k] = job[k]
        /\ \A d \in Clients : client'[d] = client[d] \/ client'[d].pc = "idle"
        /\ UNCHANGED <<runner, planFile, resources, approved, applied>>
    BY <2>1, <2>2, <2>3, <2>5, CommitEffect
  <2>. QED BY <2>1, <2>6, <2>7, <2>8 DEF InsertsPlan, Inserts
<1>9. ASSUME NEW j \in Jobs, Destroy(c, j)
      PROVE  InsertsPlan(Target(c), j) /\ Target(c) \in Envs
  <2>. DEFINE e == Target(c)
              spec == Snap(c).spec
              row == [Reset(Snap(c)) EXCEPT
                        !.op = "destroy", !.status = "planning",
                        !.workdir = Snap(c).workdir, !.lastPlan = j, !.lastJob = j]
              new == PlanJob(c, e, "destroy", spec)
  <2>1. /\ client[c].pc = "loaded" /\ Target(c) \in Envs /\ c \in Admins
        /\ spec \in Specs \union {NoSpec} /\ "destroy" \in RequestOperations
    BY <1>1, <1>9 DEF Destroy, RequestInv, Admissible, Kind, EnvRows, RequestOperations,
       Operations
  <2>2. new \in JobRows
    BY <1>1, <2>1, BuiltJobs
  <2>3. row \in EnvRows
    BY <1>1, <2>1, ResetRow DEF EnvRows, EnvStatuses
  <2>4. /\ row.rev = Snap(c).rev /\ row.status = "planning" /\ row.lastJob = j
        /\ row.retry = Snap(c).retry /\ row.workdir = Snap(c).workdir
        /\ row.op = "destroy" /\ row.spec = spec
    BY <1>1 DEF Reset, EnvRows
  <2>5. CommitWithJob(c, j, row, new)
    BY <1>9 DEF Destroy
  <2>6. /\ new.status = "queued" /\ new.env = e /\ new.op = "destroy" /\ new.spec = spec
        /\ new.type = "plan" /\ new.workdir = NoJob /\ new.retry = 0 /\ new.by = c
    BY DEF PlanJob, AbsentJob
  <2>. HIDE DEF row, new
  <2>7. LET next == [row EXCEPT !.rev = @ + 1]
        IN  /\ next.rev = Snap(c).rev + 1 /\ next.status = "planning"
            /\ next.lastJob = j /\ next.retry = Snap(c).retry
            /\ next.workdir = Snap(c).workdir
            /\ next.op = "destroy" /\ next.spec = spec
    BY <2>3, <2>4 DEF EnvRows
  <2>8. /\ Snap(c) = env[e] /\ Unused(j) /\ ~IsEnvironmentBusy(env[e].status)
        /\ env'[e] = [row EXCEPT !.rev = @ + 1] /\ job'[j] = new
        /\ \A d \in Envs : d # e => env'[d] = env[d]
        /\ \A k \in Jobs : k # j => job'[k] = job[k]
        /\ \A d \in Clients : client'[d] = client[d] \/ client'[d].pc = "idle"
        /\ UNCHANGED <<runner, planFile, resources, approved, applied>>
    BY <2>1, <2>2, <2>3, <2>5, CommitEffect
  <2>. QED BY <2>1, <2>6, <2>7, <2>8 DEF InsertsPlan, Inserts
<1>10. ASSUME NEW j \in Jobs, Apply(c, j)
       PROVE  InsertsApply(Target(c), j) /\ Target(c) \in Envs
  <2>. DEFINE e == Target(c)
              row == [Snap(c) EXCEPT !.status = "applying", !.lastJob = j]
              new == ApplyJob(c, e, Snap(c), client[c].row)
  <2>1. /\ client[c].pc = "ready" /\ Target(c) \in Envs /\ c \in Admins
        /\ Snap(c).status = "approved"
        /\ Snap(c).spec \in Specs \union {NoSpec} /\ Snap(c).op \in RequestOperations
        /\ client[c].row = job[Snap(c).lastPlan]
    BY <1>1, <1>10 DEF Apply, RequestInv, Admissible, Kind, CanQueueApply, ReadyInv,
       JobRead, EnvRows
  <2>2. new \in JobRows
    BY <1>1, <2>1, BuiltJobs
  <2>3. row \in EnvRows
    BY <1>1 DEF EnvRows, EnvStatuses
  <2>4. /\ row.rev = Snap(c).rev /\ row.status = "applying" /\ row.lastJob = j
        /\ row.retry = Snap(c).retry /\ row.workdir = Snap(c).workdir
        /\ row.op = Snap(c).op /\ row.spec = Snap(c).spec
    BY <1>1 DEF EnvRows
  <2>5. CommitWithJob(c, j, row, new)
    BY <1>10 DEF Apply
  <2>6. /\ new.status = "queued" /\ new.env = e /\ new.op = Snap(c).op
        /\ new.spec = Snap(c).spec /\ new.type = "apply" /\ new.source = Snap(c).lastPlan
        /\ new.workdir = client[c].row.workdir /\ new.retry = 0 /\ new.by = c
    BY DEF ApplyJob
  <2>. HIDE DEF row, new
  <2>7. LET next == [row EXCEPT !.rev = @ + 1]
        IN  /\ next.rev = Snap(c).rev + 1 /\ next.status = "applying"
            /\ next.lastJob = j /\ next.retry = Snap(c).retry
            /\ next.workdir = Snap(c).workdir
            /\ next.op = Snap(c).op /\ next.spec = Snap(c).spec
    BY <2>3, <2>4 DEF EnvRows
  <2>8. /\ Snap(c) = env[e] /\ Unused(j) /\ ~IsEnvironmentBusy(env[e].status)
        /\ env'[e] = [row EXCEPT !.rev = @ + 1] /\ job'[j] = new
        /\ \A d \in Envs : d # e => env'[d] = env[d]
        /\ \A k \in Jobs : k # j => job'[k] = job[k]
        /\ \A d \in Clients : client'[d] = client[d] \/ client'[d].pc = "idle"
        /\ UNCHANGED <<runner, planFile, resources, approved, applied>>
    BY <2>1, <2>2, <2>3, <2>5, CommitEffect
  <2>. QED BY <2>1, <2>6, <2>7, <2>8 DEF InsertsApply, Inserts
<1>11. ASSUME NEW j \in Jobs, Retry(c, j)
       PROVE  InsertsRetry(Target(c), j) /\ Target(c) \in Envs
  <2>. DEFINE e == Target(c)
              old == client[c].row
              status == IF old.type = "apply" THEN "applying" ELSE "planning"
              row == [Reset(Snap(c)) EXCEPT !.status = status, !.lastJob = j,
                                            !.retry = @ + 1]
              new == RetryJob(c, old)
  <2>1. /\ client[c].pc = "ready" /\ Target(c) \in Envs
        /\ Snap(c).status = "failed" /\ Snap(c).retry < MaxRetries
        /\ Snap(c).lastJob \in Jobs /\ old = job[Snap(c).lastJob]
        /\ old.status = "failed" /\ old.env = e
        /\ old.type = "apply" \/ old.op = "destroy" => c \in Admins
    BY <1>1, <1>11 DEF Retry, RequestInv, SnapInv, Admissible, Kind, CanRetry, ReadyInv,
       JobRead, JobAdmissible, RetryAccess
  <2>2. new \in JobRows
    BY <1>1, <2>1, BuiltJobs DEF EnvRows, JobRows
  <2>3. Snap(c).retry + 1 \in 0..MaxRetries
    BY <1>1, <2>1, RetriesAssumption DEF EnvRows
  <2>4. row \in EnvRows
    BY <1>1, <2>3, ResetRow DEF EnvRows, EnvStatuses
  <2>5. /\ row.rev = Snap(c).rev /\ row.status = status /\ row.lastJob = j
        /\ row.retry = Snap(c).retry + 1 /\ row.workdir = NoJob
        /\ row.op = Snap(c).op /\ row.spec = Snap(c).spec
    BY <1>1 DEF Reset, EnvRows
  <2>6. CommitWithJob(c, j, row, new)
    BY <1>11 DEF Retry
  <2>7. /\ new.status = "queued" /\ new.env = e /\ new.op = old.op /\ new.spec = old.spec
        /\ new.type = old.type /\ new.source = old.source /\ new.workdir = old.workdir
        /\ new.retry = old.retry + 1 /\ new.by = c
    BY <1>1, <2>1 DEF RetryJob, JobRows
  <2>. HIDE DEF row, new
  <2>8. LET next == [row EXCEPT !.rev = @ + 1]
        IN  /\ next.rev = Snap(c).rev + 1 /\ next.status = status
            /\ next.lastJob = j /\ next.retry = Snap(c).retry + 1
            /\ next.workdir = NoJob
            /\ next.op = Snap(c).op /\ next.spec = Snap(c).spec
    BY <2>4, <2>5 DEF EnvRows
  <2>9. /\ Snap(c) = env[e] /\ Unused(j) /\ ~IsEnvironmentBusy(env[e].status)
        /\ env'[e] = [row EXCEPT !.rev = @ + 1] /\ job'[j] = new
        /\ \A d \in Envs : d # e => env'[d] = env[d]
        /\ \A k \in Jobs : k # j => job'[k] = job[k]
        /\ \A d \in Clients : client'[d] = client[d] \/ client'[d].pc = "idle"
        /\ UNCHANGED <<runner, planFile, resources, approved, applied>>
    BY <2>1, <2>2, <2>4, <2>6, CommitEffect
  <2>10. new.op = Snap(c).op /\ new.spec = Snap(c).spec
    BY <2>1, <2>7, <2>9 DEF RowsInv, LastJobInv
  <2>. QED BY <2>1, <2>7, <2>8, <2>9, <2>10 DEF InsertsRetry, Inserts
<1>12. ASSUME Approve(c) PROVE Approves(Target(c)) /\ Target(c) \in Envs
  <2>1. /\ Target(c) \in Envs /\ Snap(c) = env[Target(c)]
        /\ Snap(c).status = "pending_approval" /\ Snap(c).lastPlan \in Jobs
    BY <1>1, <1>12 DEF Approve, RequestInv, SnapInv, Admissible, Kind, CanApprovePlan,
       ReadyInv, JobRead
  <2>2. /\ env'[Target(c)] = [env[Target(c)] EXCEPT
             !.approval = "approved", !.status = "approved", !.rev = @ + 1]
        /\ \A d \in Envs : d # Target(c) => env'[d] = env[d]
    BY <1>12, <2>1 DEF Approve, TypeInv, TypeOK
  <2>3. \A d \in Clients : client'[d] = client[d] \/ client'[d].pc = "idle"
    BY <1>12 DEF Approve, IdleClient, TypeInv, TypeOK
  <2>. QED BY <1>12, <2>1, <2>2, <2>3 DEF Approve, Approves
<1>. QED BY <1>3, <1>4, <1>5, <1>6, <1>7, <1>8, <1>9, <1>10, <1>11, <1>12
         DEF ClientStep, Submit, ClientEffect
-----------------------------------------------------------------------------
(* What a runner does *)

\* What a job row never changes once it is inserted.
SameJob(j) ==
  /\ job'[j].type = job[j].type /\ job'[j].env = job[j].env
  /\ job'[j].op = job[j].op /\ job'[j].spec = job[j].spec
  /\ job'[j].source = job[j].source
  /\ job'[j].by = job[j].by /\ job'[j].retry = job[j].retry

\* Runner r works on job j, and on nothing else.
Works(r, j) ==
  /\ \A k \in Jobs : k # j => job'[k] = job[k]
  /\ SameJob(j)
  /\ \A s \in Runners : s # r => runner'[s] = runner[s]
  /\ UNCHANGED <<client, approved>>

\* Runner r goes from one place to another, with the job it has.
Moves(r, from, to) ==
  /\ At(r, from) /\ runner'[r].pc = to
  /\ runner'[r].id = runner[r].id
  /\ Works(r, runner[r].id)

Claims(r, j) ==
  /\ At(r, "idle") /\ job[j].status = "queued"
  /\ Works(r, j)
  /\ job'[j].status = "running" /\ job'[j].workdir = job[j].workdir
  /\ runner'[r].pc = "claimed" /\ runner'[r].id = j /\ ~runner'[r].ok
  /\ UNCHANGED <<env, planFile, resources, applied>>

\* The job gets its workdir.
Prepares(r) ==
  LET j == runner[r].id
      w == job'[j].workdir
  IN  /\ Moves(r, "claimed", "prepared")
      /\ runner'[r].ok = runner[r].ok
      /\ job'[j].status = job[j].status /\ w \in Jobs
      /\ \/ /\ job[j].type = "apply"
            /\ job[j].source \in Jobs /\ w = job[job[j].source].workdir
            /\ planFile' = planFile
         \/ /\ job[j].type = "plan" /\ w = j
            /\ \A v \in Jobs : planFile'[v] = IF v = j THEN NoJob ELSE planFile[v]
         \/ /\ job[j].type = "plan" /\ w = env[EnvOf(r)].workdir
            /\ planFile' = planFile
      /\ UNCHANGED <<env, resources, applied>>

\* Nothing but the place changes, or the job's planned flag.
StartsPlan(r) ==
  /\ Moves(r, "prepared", "planning") /\ Claimed(r).type = "plan"
  /\ runner'[r].ok = runner[r].ok
  /\ job'[runner[r].id].status = Claimed(r).status
  /\ job'[runner[r].id].workdir = WorkdirOf(r)
  /\ UNCHANGED <<env, planFile, resources, applied>>

Fails(r) ==
  /\ \E pc \in {"claimed", "prepared", "planning"} : Moves(r, pc, "failing")
  /\ runner'[r].ok = runner[r].ok
  /\ UNCHANGED <<env, job, planFile, resources, applied>>

Plans(r) ==
  /\ Moves(r, "planning", "ran")
  /\ runner'[r].ok = runner[r].ok
  /\ \A v \in Jobs : planFile'[v] = IF v = WorkdirOf(r) THEN runner[r].id ELSE planFile[v]
  /\ UNCHANGED <<env, job, resources, applied>>

Applies(r) ==
  LET e == EnvOf(r)
      w == WorkdirOf(r)
      p == planFile[w]
  IN  /\ Claimed(r).type = "apply" /\ p \in Jobs
      /\ \/ /\ Moves(r, "prepared", "ran")
            /\ job[p].op # "destroy" => w \in resources'[e]
         \/ Moves(r, "prepared", "failing")
      /\ runner'[r].ok = runner[r].ok
      /\ \A d \in Envs : d # e => resources'[d] = resources[d]
      /\ applied' = applied \union {p}
      /\ UNCHANGED <<env, job, planFile>>

Finishes(r) ==
  LET status == job'[runner[r].id].status
  IN  /\ \/ Moves(r, "ran", "finished") /\ runner'[r].ok /\ status = "done"
         \/ /\ Moves(r, "failing", "finished") /\ runner'[r].ok = runner[r].ok
            /\ status = "failed" \/ (Faults /\ status = Claimed(r).status)
      /\ job'[runner[r].id].workdir = WorkdirOf(r)
      /\ UNCHANGED <<env, planFile, resources, applied>>

Loads(r) ==
  /\ Moves(r, "finished", "recording")
  /\ runner'[r].ok = runner[r].ok
  /\ UNCHANGED <<env, job, planFile, resources, applied>>

\* The outcome reaches the row of the environment.
Records(r) ==
  LET e == EnvOf(r)
      j == runner[r].id
  IN  /\ At(r, "recording") /\ runner'[r].pc = "idle"
      /\ Works(r, j)
      /\ \A d \in Envs : d # e => env'[d] = env[d]
      /\ env'[e].rev = env[e].rev + 1 /\ env'[e].lastJob = j
      /\ env'[e].op = env[e].op /\ env'[e].spec = env[e].spec
      /\ env'[e].retry = env[e].retry
      /\ \/ /\ ~runner[r].ok /\ env'[e].status = "failed"
            /\ env'[e].workdir = env[e].workdir
         \/ /\ runner[r].ok /\ job[j].type = "plan"
            /\ env'[e].status = "pending_approval" /\ env'[e].lastPlan = j
            /\ env'[e].workdir = job[j].workdir
         \/ /\ runner[r].ok /\ job[j].type = "apply"
            /\ env'[e].status = IF job[j].op = "destroy" THEN "destroyed" ELSE "active"
            /\ env'[e].workdir = job[j].workdir
      /\ UNCHANGED <<job, planFile, resources, applied>>

Drops(r) ==
  /\ Faults /\ ~At(r, "idle") /\ runner'[r].pc = "idle"
  /\ \A s \in Runners : s # r => runner'[s] = runner[s]
  /\ UNCHANGED <<env, job, client, planFile, resources, approved, applied>>

RunnerEffect(r) ==
  \/ \E j \in Jobs : Claims(r, j)
  \/ Prepares(r) \/ StartsPlan(r) \/ Plans(r) \/ Applies(r) \/ Fails(r)
  \/ Finishes(r) \/ Loads(r) \/ Records(r) \/ Drops(r)

LEMMA RunnerSteps ==
  ASSUME TypeInv, OwnInv, NEW r \in Runners, Progress(r) \/ Abandon(r)
  PROVE  RunnerEffect(r)
<1>. DEFINE id == runner[r].id
            e == EnvOf(r)
<1>1. ~At(r, "idle") => /\ id \in Jobs /\ job[id] \in JobRows /\ e \in Envs
                        /\ e = job[id].env /\ WorkInv(r) /\ RunnerInv(r)
  BY DEF TypeInv, TypeOK, RunnerInv, JobInv, OwnInv, EnvOf, Claimed
<1>2. runner[r] \in RunnerRows
  BY DEF TypeInv, TypeOK
<1>3. ASSUME NEW to, Goto(r, to)
      PROVE  /\ runner'[r].pc = to /\ runner'[r].id = id /\ runner'[r].ok = runner[r].ok
             /\ \A s \in Runners : s # r => runner'[s] = runner[s]
  BY <1>2, <1>3 DEF Goto, RunnerRows, TypeInv, TypeOK
<1>4. ASSUME NEW from, NEW to, At(r, from), Goto(r, to), UNCHANGED <<job, client, approved>>
      PROVE  Moves(r, from, to)
  BY <1>3, <1>4 DEF Moves, Works, SameJob
<1>5. ASSUME Claim(r) PROVE \E j \in Jobs : Claims(r, j)
  <2>1. PICK j \in Jobs :
          /\ job[j].status = "queued"
          /\ job' = [job EXCEPT ![j].status = "running"]
          /\ runner' = [runner EXCEPT ![r] = [IdleRunner EXCEPT !.pc = "claimed", !.id = j]]
    BY <1>5 DEF Claim
  <2>2. /\ SameJob(j) /\ job'[j].status = "running" /\ job'[j].workdir = job[j].workdir
        /\ \A k \in Jobs : k # j => job'[k] = job[k]
    BY <2>1 DEF SameJob, TypeInv, TypeOK, JobRows
  <2>3. /\ runner'[r].pc = "claimed" /\ runner'[r].id = j /\ ~runner'[r].ok
        /\ \A s \in Runners : s # r => runner'[s] = runner[s]
    BY <2>1 DEF TypeInv, TypeOK, IdleRunner
  <2>. QED BY <1>5, <2>1, <2>2, <2>3 DEF Claim, Claims, Works
<1>6. ASSUME PrepareApply(r) PROVE Prepares(r)
  <2>. DEFINE src == job[job[id].source]
  <2>1. At(r, "claimed") /\ ~At(r, "idle") /\ job[id].type = "apply" /\ Goto(r, "prepared")
        /\ UNCHANGED <<env, client, planFile, resources, approved, applied>>
    BY <1>6 DEF PrepareApply, At, Claimed
  <2>2. job[id].source \in Jobs
    BY <1>1, <1>6, <2>1 DEF PrepareApply, Claimed, JobRows
  <2>3. src.workdir \in Jobs
    BY <1>6, <2>2 DEF PrepareApply, Claimed, JobRows, TypeInv, TypeOK
  <2>4. /\ SameJob(id) /\ job'[id].workdir = src.workdir /\ job'[id].status = job[id].status
        /\ \A k \in Jobs : k # id => job'[k] = job[k]
    BY <1>1, <1>6, <2>1 DEF PrepareApply, Claimed, SameJob, JobRows, TypeInv, TypeOK
  <2>. QED BY <1>3, <2>1, <2>2, <2>3, <2>4 DEF Prepares, Moves, Works
<1>7. ASSUME PreparePlan(r) PROVE Prepares(r)
  <2>1. At(r, "claimed") /\ ~At(r, "idle") /\ job[id].type = "plan" /\ Goto(r, "prepared")
        /\ UNCHANGED <<env, client, resources, approved, applied>>
    BY <1>7 DEF PreparePlan, At, Claimed
  <2>2. /\ SameJob(id) /\ job'[id].workdir = id /\ job'[id].status = job[id].status
        /\ \A k \in Jobs : k # id => job'[k] = job[k]
    BY <1>1, <1>7, <2>1 DEF PreparePlan, Claimed, SameJob, JobRows, TypeInv, TypeOK
  <2>3. \A v \in Jobs : planFile'[v] = IF v = id THEN NoJob ELSE planFile[v]
    BY <1>1, <1>7, <2>1 DEF PreparePlan, TypeInv, TypeOK
  <2>. QED BY <1>1, <1>3, <2>1, <2>2, <2>3 DEF Prepares, Moves, Works
<1>8. ASSUME PrepareDestroyPlan(r) PROVE Prepares(r)
  <2>1. At(r, "claimed") /\ ~At(r, "idle") /\ job[id].type = "plan" /\ Goto(r, "prepared")
        /\ UNCHANGED <<env, client, planFile, resources, approved, applied>>
    BY <1>8 DEF PrepareDestroyPlan, At, Claimed
  <2>2. env[e].workdir \in Jobs
    BY <1>1, <1>8, <2>1 DEF PrepareDestroyPlan, EnvRows, TypeInv, TypeOK
  <2>3. /\ SameJob(id) /\ job'[id].workdir = env[e].workdir
        /\ job'[id].status = job[id].status
        /\ \A k \in Jobs : k # id => job'[k] = job[k]
    BY <1>1, <1>8, <2>1 DEF PrepareDestroyPlan, Claimed, SameJob, JobRows, TypeInv, TypeOK
  <2>. QED BY <1>3, <2>1, <2>2, <2>3 DEF Prepares, Moves, Works
<1>9. ASSUME InitValidate(r) PROVE StartsPlan(r)
  <2>1. At(r, "prepared") /\ ~At(r, "idle") /\ Claimed(r).type = "plan"
        /\ Goto(r, "planning")
        /\ UNCHANGED <<env, client, planFile, resources, approved, applied>>
    BY <1>9 DEF InitValidate, At
  <2>2. /\ SameJob(id) /\ job'[id].workdir = WorkdirOf(r)
        /\ job'[id].status = Claimed(r).status
        /\ \A k \in Jobs : k # id => job'[k] = job[k]
    BY <1>1, <1>9, <2>1 DEF InitValidate, Claimed, WorkdirOf, SameJob, JobRows, TypeInv,
       TypeOK
  <2>. QED BY <1>3, <2>1, <2>2 DEF StartsPlan, Moves, Works
<1>10. ASSUME TofuPlan(r) PROVE Plans(r)
  <2>1. Moves(r, "planning", "ran") /\ runner'[r].ok = runner[r].ok
    BY <1>3, <1>4, <1>10 DEF TofuPlan
  <2>2. \A v \in Jobs : planFile'[v] = IF v = WorkdirOf(r) THEN id ELSE planFile[v]
    BY <1>10 DEF TofuPlan, TypeInv, TypeOK
  <2>. QED BY <1>10, <2>1, <2>2 DEF TofuPlan, Plans
<1>11. ASSUME NEW ok \in BOOLEAN, TofuApply(r, ok) PROVE Applies(r)
  <2>. DEFINE w == WorkdirOf(r)
              done == AfterApply(resources[e], w, planFile[w])
  <2>1. /\ At(r, "prepared") /\ ~At(r, "idle") /\ Claimed(r).type = "apply"
        /\ planFile[w] # NoJob /\ applied' = applied \union {planFile[w]}
        /\ Goto(r, IF ok THEN "ran" ELSE "failing")
        /\ UNCHANGED <<env, job, client, planFile, approved>>
    BY <1>11 DEF TofuApply, At
  <2>2. w \in Jobs /\ planFile[w] \in Jobs
    BY <1>1, <2>1 DEF RunnerInv, TypeInv, TypeOK
  <2>3. PICK now \in IF ok THEN {done} ELSE {done, resources[e], resources[e] \union {w}} :
          resources' = [resources EXCEPT ![e] = now]
    BY <1>11 DEF TofuApply
  <2>4. resources'[e] = now /\ \A d \in Envs : d # e => resources'[d] = resources[d]
    BY <1>1, <2>1, <2>3 DEF TypeInv, TypeOK
  <2>5. ok /\ job[planFile[w]].op # "destroy" => w \in resources'[e]
    BY <2>3, <2>4 DEF AfterApply
  <2>6. Moves(r, "prepared", IF ok THEN "ran" ELSE "failing")
        /\ runner'[r].ok = runner[r].ok
    BY <1>3, <1>4, <2>1
  <2>. QED BY <2>1, <2>2, <2>4, <2>5, <2>6 DEF Applies
<1>12. ASSUME StepFails(r) PROVE Fails(r)
  <2>1. PICK pc \in {"claimed", "prepared", "planning"} : At(r, pc)
    BY <1>12 DEF StepFails, At
  <2>. QED BY <1>3, <1>4, <1>12, <2>1 DEF StepFails, Fails
<1>13. ASSUME FinishJob(r) PROVE Finishes(r)
  <2>1. ~At(r, "idle")
        /\ UNCHANGED <<env, client, planFile, resources, approved, applied>>
    BY <1>13 DEF FinishJob, At
  <2>2. ASSUME NEW status, job' = [job EXCEPT ![id].status = status]
        PROVE  /\ SameJob(id) /\ job'[id].workdir = WorkdirOf(r)
               /\ job'[id].status = status
               /\ \A k \in Jobs : k # id => job'[k] = job[k]
    BY <1>1, <2>1, <2>2 DEF SameJob, WorkdirOf, Claimed, JobRows, TypeInv, TypeOK
  <2>3. CASE /\ At(r, "ran")
             /\ job' = [job EXCEPT ![id].status = "done"]
             /\ runner' = [runner EXCEPT ![r].pc = "finished", ![r].ok = TRUE]
    <3>1. /\ runner'[r].pc = "finished" /\ runner'[r].id = id /\ runner'[r].ok
          /\ \A s \in Runners : s # r => runner'[s] = runner[s]
      BY <1>2, <2>3 DEF RunnerRows, TypeInv, TypeOK
    <3>. QED BY <2>1, <2>2, <2>3, <3>1 DEF Finishes, Moves, Works
  <2>4. CASE /\ At(r, "failing") /\ job' = [job EXCEPT ![id].status = "failed"]
             /\ Goto(r, "finished")
    BY <1>3, <2>1, <2>2, <2>4 DEF Finishes, Moves, Works
  <2>5. CASE At(r, "failing") /\ Faults /\ job' = job /\ Goto(r, "finished")
    BY <1>3, <2>1, <2>5 DEF Finishes, Moves, Works, SameJob, Claimed, WorkdirOf
  <2>. QED BY <1>13, <2>3, <2>4, <2>5 DEF FinishJob
<1>14. ASSUME LoadEnv(r) PROVE Loads(r)
  <2>1. At(r, "finished") /\ ~At(r, "idle")
        /\ UNCHANGED <<env, job, client, planFile, resources, approved, applied>>
    BY <1>14 DEF LoadEnv, At
  <2>2. runner' = [runner EXCEPT ![r] = [@ EXCEPT !.pc = "recording", !.snap = env[e]]]
    BY <1>1, <1>14, <2>1 DEF LoadEnv, WorkInv, Owns
  <2>3. /\ runner'[r].pc = "recording" /\ runner'[r].id = id
        /\ runner'[r].ok = runner[r].ok
        /\ \A s \in Runners : s # r => runner'[s] = runner[s]
    BY <1>2, <2>2 DEF RunnerRows, TypeInv, TypeOK
  <2>. QED BY <2>1, <2>3 DEF Loads, Moves, Works, SameJob
<1>15. ASSUME Record(r) PROVE Records(r)
  <2>1. /\ At(r, "recording") /\ ~At(r, "idle")
        /\ UNCHANGED <<job, client, planFile, resources, approved, applied>>
        /\ runner' = [runner EXCEPT ![r] = IdleRunner]
    BY <1>15 DEF Record, At
  <2>2. env[e] \in EnvRows /\ runner[r].snap = env[e]
    BY <1>1, <2>1 DEF WorkInv, TypeInv, TypeOK
  <2>3. env' = [env EXCEPT ![e] = Recorded(r)]
    BY <1>15, <2>2 DEF Record, RevisionMatches
  <2>4. env'[e] = Recorded(r) /\ \A d \in Envs : d # e => env'[d] = env[d]
    BY <1>1, <2>1, <2>3 DEF TypeInv, TypeOK
  <2>5. /\ runner'[r].pc = "idle"
        /\ \A s \in Runners : s # r => runner'[s] = runner[s]
    BY <2>1 DEF IdleRunner, TypeInv, TypeOK
  <2>. DEFINE row == [env[e] EXCEPT !.lastJob = id, !.rev = @ + 1]
  <2>6. /\ row.rev = env[e].rev + 1 /\ row.lastJob = id /\ row.op = env[e].op
        /\ row.spec = env[e].spec /\ row.retry = env[e].retry
        /\ row.workdir = env[e].workdir /\ DOMAIN row = DOMAIN env[e]
    BY <2>2 DEF EnvRows
  <2>7. {"status", "workdir", "lastPlan", "approval"} \subseteq DOMAIN row
    BY <2>2, <2>6 DEF EnvRows
  <2>8. Recorded(r) =
          IF ~runner[r].ok THEN [row EXCEPT !.status = "failed"]
          ELSE IF job[id].type = "plan"
          THEN [row EXCEPT !.workdir = job[id].workdir, !.lastPlan = id,
                           !.status = "pending_approval", !.approval = "pending"]
          ELSE [row EXCEPT !.workdir = job[id].workdir,
                  !.status = IF job[id].op = "destroy" THEN "destroyed" ELSE "active"]
    BY <2>2 DEF Recorded, Claimed
  <2>9. job[id].type \in {"plan", "apply"}
    BY <1>1, <2>1 DEF JobRows, JobTypes
  <2>. HIDE DEF row
  <2>10. CASE ~runner[r].ok
    <3>1. env'[e] = [row EXCEPT !.status = "failed"]
      BY <2>4, <2>8, <2>10
    <3>. QED BY <2>1, <2>4, <2>5, <2>6, <2>7, <2>10, <3>1 DEF Records, Works, SameJob
  <2>11. CASE runner[r].ok /\ job[id].type = "plan"
    <3>1. env'[e] = [row EXCEPT !.workdir = job[id].workdir, !.lastPlan = id,
                            !.status = "pending_approval", !.approval = "pending"]
      BY <2>4, <2>8, <2>11
    <3>. QED BY <2>1, <2>4, <2>5, <2>6, <2>7, <2>11, <3>1 DEF Records, Works, SameJob
  <2>12. CASE runner[r].ok /\ job[id].type = "apply"
    <3>1. env'[e] = [row EXCEPT !.workdir = job[id].workdir,
                  !.status = IF job[id].op = "destroy" THEN "destroyed" ELSE "active"]
      BY <2>4, <2>8, <2>12
    <3>. QED BY <2>1, <2>4, <2>5, <2>6, <2>7, <2>12, <3>1 DEF Records, Works, SameJob
  <2>. QED BY <2>9, <2>10, <2>11, <2>12
<1>16. ASSUME Abandon(r) PROVE Drops(r)
  BY <1>16 DEF Abandon, Drops, IdleRunner, TypeInv, TypeOK
<1>. QED BY <1>5, <1>6, <1>7, <1>8, <1>9, <1>10, <1>11, <1>12, <1>13, <1>14, <1>15,
            <1>16 DEF Progress, RunnerEffect
-----------------------------------------------------------------------------
(* RowsInv is invariant *)

\* A job that has its outcome is never written again, and no job ever changes
\* what it is about: a request may act on the row it has read.
Settled(j) ==
  /\ ~Unused(j) => SameJob(j) /\ job'[j].status # "absent"
  /\ job[j].status \in {"done", "failed"} => job'[j] = job[j]

LEMMA InsertSettles ==
  ASSUME NEW e \in Envs, NEW j \in Jobs, Inserts(e, j), NEW k \in Jobs
  PROVE  Settled(k)
BY DEF Inserts, Settled, SameJob, Unused

LEMMA RunnerSettles ==
  ASSUME TypeInv, OwnInv, RowsInv, NEW r \in Runners, RunnerEffect(r), NEW k \in Jobs
  PROVE  Settled(k)
<1>. DEFINE id == runner[r].id
<1>1. runner[r].pc \in Working => id \in Jobs /\ job[id].status = "running"
  BY DEF TypeInv, RunnerInv, At, RowsInv, RunningInv, Claimed, Working
<1>2. CASE job' = job
  BY <1>2 DEF Settled, SameJob, Unused
<1>3. ASSUME NEW j \in Jobs, Claims(r, j) PROVE Settled(k)
  BY <1>3 DEF Claims, Works, Settled, SameJob, Unused
<1>4. ASSUME Prepares(r) \/ StartsPlan(r) \/ Finishes(r) PROVE Settled(k)
  <2>1. Works(r, id) /\ runner[r].pc \in Working
    BY <1>4 DEF Prepares, StartsPlan, Finishes, Moves, Working, At
  <2>2. job'[id].status # "absent"
    BY <1>1, <1>4, <2>1 DEF Prepares, StartsPlan, Finishes, Claimed
  <2>. QED BY <1>1, <2>1, <2>2 DEF Works, Settled, SameJob, Unused
<1>. QED BY <1>2, <1>3, <1>4 DEF RunnerEffect, Plans, Applies, Fails, Loads, Records, Drops

LEMMA InsertKeepsRows ==
  ASSUME TypeInv, OwnInv, RowsInv, NEW e \in Envs, NEW j \in Jobs,
         InsertsPlan(e, j) \/ InsertsApply(e, j) \/ InsertsRetry(e, j)
  PROVE  RowsInv'
<1>1. Inserts(e, j)
  BY DEF InsertsPlan, InsertsApply, InsertsRetry
<1>2. ASSUME NEW k \in Jobs, ~Unused(k) PROVE k # j /\ job'[k] = job[k]
  BY <1>1, <1>2 DEF Inserts
<1>3. ASSUME NEW d \in Clients PROVE ReadyInv(d)'
  <2>1. SUFFICES ASSUME client'[d].pc = "ready" PROVE ReadyInv(d)'
    BY DEF ReadyInv
  <2>2. client'[d] = client[d] /\ ReadyInv(d) /\ client[d].pc = "ready"
    BY <1>1, <2>1 DEF Inserts, RowsInv
  <2>3. ~Unused(JobRead(d))
    BY <2>2 DEF ReadyInv, JobAdmissible, Unused
  <2>4. job'[JobRead(d)] = job[JobRead(d)]
    BY <1>2, <2>2, <2>3 DEF ReadyInv
  <2>. QED BY <2>2, <2>4 DEF ReadyInv, JobRead, JobAdmissible, Kind, Snap
<1>4. ASSUME NEW r \in Runners PROVE RunningInv(r)'
  <2>1. ~At(r, "idle") => job'[runner[r].id] = job[runner[r].id]
    BY <1>2 DEF TypeInv, RunnerInv
  <2>2. runner' = runner /\ RunningInv(r)
    BY <1>1 DEF Inserts, RowsInv
  <2>. QED BY <2>1, <2>2 DEF RunningInv, Claimed, At, Working, Settling
<1>5. ASSUME NEW d \in Envs PROVE LastJobInv(d)'
  <2>1. CASE d = e
    <3>1. e \in Envs /\ env'[e].lastJob = j
          /\ job'[j].op = env'[e].op /\ job'[j].spec = env'[e].spec
      BY <1>1 DEF Inserts
    <3>2. \/ env'[e].status = "planning" /\ job'[j].type = "plan"
          \/ env'[e].status = "applying" /\ job'[j].type = "apply"
      <4>1. CASE InsertsPlan(e, j) \/ InsertsApply(e, j)
        BY <4>1 DEF InsertsPlan, InsertsApply
      <4>2. CASE InsertsRetry(e, j)
        BY <4>2 DEF InsertsRetry, TypeInv, TypeOK, JobRows, JobTypes
      <4>. QED BY <4>1, <4>2
    <3>. QED BY <2>1, <3>1, <3>2 DEF LastJobInv
  <2>2. CASE d # e
    <3>1. env'[d] = env[d] /\ LastJobInv(d) /\ RowInv(d)
      BY <1>1, <2>2 DEF Inserts, RowsInv, OwnInv
    <3>2. env[d].status # "absent" => job'[env[d].lastJob] = job[env[d].lastJob]
      BY <1>2, <3>1, NoneAssumption DEF LastJobInv, RowInv
    <3>. QED BY <3>1, <3>2 DEF LastJobInv
  <2>. QED BY <2>1, <2>2
<1>6. /\ env'[e].retry >= env[e].retry
      /\ \A d \in Envs : env[d].retry \in Nat /\ env'[d].retry \in Nat /\ env'[d].retry >= env[d].retry
  <2>1. \A d \in Envs : env[d].retry \in Nat
    BY DEF TypeInv, TypeOK, EnvRows
  <2>2. env'[e].retry = env[e].retry \/ env'[e].retry = env[e].retry + 1
    BY DEF InsertsPlan, InsertsApply, InsertsRetry
  <2>3. \A d \in Envs : d # e => env'[d].retry = env[d].retry
    BY <1>1 DEF Inserts
  <2>. QED BY <2>1, <2>2, <2>3
<1>7. ASSUME NEW k \in Jobs PROVE ChainInv(k)'
  <2>1. CASE k = j
    <3>1. job'[j].retry <= env'[e].retry
      <4>1. CASE InsertsPlan(e, j) \/ InsertsApply(e, j)
        BY <1>6, <4>1 DEF InsertsPlan, InsertsApply
      <4>2. CASE InsertsRetry(e, j)
        <5>. DEFINE failed == env[e].lastJob
        <5>1. /\ failed \in Jobs /\ ~Unused(failed) /\ job[failed].env = e
              /\ job'[j].retry = job[failed].retry + 1
              /\ env'[e].retry = env[e].retry + 1
          BY <4>2 DEF InsertsRetry, Unused
        <5>2. job[failed].retry \in Nat /\ job[failed].retry <= env[e].retry
          BY <5>1 DEF RowsInv, ChainInv, TypeInv, TypeOK, JobRows
        <5>. QED BY <1>6, <5>1, <5>2
      <4>. QED BY <4>1, <4>2
    <3>. QED BY <1>1, <2>1, <3>1 DEF Inserts, ChainInv, Unused
  <2>2. CASE k # j
    <3>1. job'[k] = job[k] /\ ChainInv(k) /\ JobInv(k) /\ job[k].retry \in Nat
      BY <1>1, <2>2 DEF Inserts, RowsInv, TypeInv, TypeOK, JobRows
    <3>. QED BY <1>6, <3>1 DEF ChainInv, JobInv, Unused
  <2>. QED BY <2>1, <2>2
<1>. QED BY <1>3, <1>4, <1>5, <1>7 DEF RowsInv

LEMMA ApproveKeepsRows ==
  ASSUME TypeInv, OwnInv, RowsInv, NEW e \in Envs, Approves(e)
  PROVE  RowsInv'
<1>1. env[e] \in EnvRows
  BY DEF TypeInv, TypeOK
<1>2. /\ env'[e].status = "approved" /\ env'[e].op = env[e].op
      /\ env'[e].spec = env[e].spec /\ env'[e].lastPlan = env[e].lastPlan
      /\ env'[e].lastJob = env[e].lastJob /\ env'[e].retry = env[e].retry
  BY <1>1 DEF Approves, EnvRows
<1>3. \A d \in Envs : d # e => env'[d] = env[d]
  BY DEF Approves
<1>4. ASSUME NEW d \in Clients PROVE ReadyInv(d)'
  BY DEF Approves, RowsInv, ReadyInv, JobRead, JobAdmissible, Kind, Snap
<1>5. ASSUME NEW r \in Runners PROVE RunningInv(r)'
  BY DEF Approves, RowsInv, RunningInv, Claimed
<1>6. ASSUME NEW d \in Envs PROVE LastJobInv(d)'
  <2>1. LastJobInv(d) /\ job' = job
    BY DEF RowsInv, Approves
  <2>2. CASE d = e
    BY <1>2, <2>1, <2>2 DEF LastJobInv, Approves
  <2>3. CASE d # e
    BY <1>3, <2>1, <2>3 DEF LastJobInv
  <2>. QED BY <2>2, <2>3
<1>7. ASSUME NEW k \in Jobs PROVE ChainInv(k)'
  BY <1>2, <1>3 DEF Approves, RowsInv, ChainInv, TypeInv, JobInv, Unused
<1>. QED BY <1>4, <1>5, <1>6, <1>7 DEF RowsInv

\* A client that only reads concerns nobody else; what LoadJob hands to the
\* second half of a handler is the row as it is.
LEMMA ReadKeepsRows ==
  ASSUME TypeInv, OwnInv, RowsInv, NEW c \in Clients, ClientStep(c), Reads(c)
  PROVE  RowsInv'
<1>1. (\A r \in Runners : RunningInv(r)') /\ (\A e \in Envs : LastJobInv(e)')
      /\ (\A j \in Jobs : ChainInv(j)')
  BY DEF Reads, RowsInv, RunningInv, LastJobInv, ChainInv, Claimed, Unused
<1>2. ASSUME NEW d \in Clients, d # c PROVE ReadyInv(d)'
  BY <1>2 DEF Reads, RowsInv, ReadyInv, JobRead, JobAdmissible, Kind, Snap
<1>3. client[c] \in ClientStates
  BY DEF TypeInv, TypeOK
<1>4. ASSUME LoadJob(c) PROVE ReadyInv(c)'
  <2>. DEFINE id == JobRead(c)
  <2>1. client'[c] = IF id \in Jobs /\ JobAdmissible(c, job[id])
                     THEN [client[c] EXCEPT !.pc = "ready", !.row = job[id]]
                     ELSE IdleClient
    BY <1>4 DEF LoadJob, JobRead, TypeInv, TypeOK
  <2>2. CASE id \in Jobs /\ JobAdmissible(c, job[id])
    <3>1. /\ client'[c].kind = client[c].kind /\ client'[c].snap = client[c].snap
          /\ client'[c].row = job[id]
      BY <1>3, <2>1, <2>2 DEF ClientStates
    <3>2. client[c].kind \in {"approve", "apply", "retry"} /\ job' = job
      BY <1>4 DEF LoadJob
    <3>3. id' = id /\ (JobAdmissible(c, job[id]) => JobAdmissible(c, job[id])')
      BY <3>1, <3>2 DEF JobRead, JobAdmissible, Kind, Snap
    <3>4. JobRead(c)' = JobRead(c) /\ JobAdmissible(c, client[c].row)'
      BY <2>2, <3>1, <3>2, <3>3 DEF JobAdmissible
    <3>. QED BY <2>2, <3>1, <3>2, <3>4 DEF ReadyInv
  <2>3. CASE ~(id \in Jobs /\ JobAdmissible(c, job[id]))
    BY <2>1, <2>3 DEF ReadyInv, IdleClient
  <2>. QED BY <2>2, <2>3
<1>5. ASSUME ~LoadJob(c) PROVE ReadyInv(c)'
  <2>1. client'[c].pc # "ready"
    <3>1. ASSUME NEW e \in Envs, View(c, e) PROVE client'[c].pc = "viewed"
      BY <3>1 DEF View, IdleClient, TypeInv, TypeOK
    <3>2. ASSUME NEW e \in Envs, NEW kind, Load(c, e, kind) PROVE client'[c].pc = "loaded"
      BY <1>3, <3>2 DEF Load, ClientStates, TypeInv, TypeOK
    <3>3. ASSUME Submit(c) \/ Abort(c) PROVE client'[c].pc = "idle"
      <4>1. client' = [client EXCEPT ![c] = IdleClient]
        BY <3>3 DEF Submit, Abort, Plan, Approve, Apply, Retry, Destroy, CommitWithJob
      <4>. QED BY <4>1 DEF IdleClient, TypeInv, TypeOK
    <3>4. ASSUME NEW e \in Envs, NEW spec \in Specs, CreateEnvironment(c, e, spec)
          PROVE  client'[c].pc = "idle"
      BY <3>4 DEF CreateEnvironment, Reads
    <3>. QED BY <1>5, <3>1, <3>2, <3>3, <3>4 DEF ClientStep
  <2>. QED BY <2>1 DEF ReadyInv
<1>. QED BY <1>1, <1>2, <1>4, <1>5 DEF RowsInv

LEMMA RunnerKeepsRows ==
  ASSUME TypeInv, OwnInv, RowsInv, NEW r \in Runners, RunnerEffect(r)
  PROVE  RowsInv'
<1>. DEFINE id == runner[r].id
            e == EnvOf(r)
<1>1. \A k \in Jobs : Settled(k)
  BY RunnerSettles
<1>2. client' = client
  BY DEF RunnerEffect, Claims, Prepares, StartsPlan, Plans, Applies, Fails, Finishes,
     Loads, Records, Drops, Moves, Works
<1>3. ASSUME NEW c \in Clients PROVE ReadyInv(c)'
  <2>1. SUFFICES ASSUME client[c].pc = "ready" PROVE ReadyInv(c)'
    BY <1>2 DEF ReadyInv
  <2>2. ReadyInv(c) /\ job'[JobRead(c)] = job[JobRead(c)]
    BY <1>1, <2>1 DEF RowsInv, ReadyInv, JobAdmissible, Settled
  <2>. QED BY <1>2, <2>1, <2>2 DEF ReadyInv, JobRead, JobAdmissible, Kind, Snap
<1>4. ~At(r, "idle") => /\ id \in Jobs /\ ~Unused(id) /\ e \in Envs
                        /\ WorkInv(r) /\ env[e].lastJob = id
  BY DEF TypeInv, RunnerInv, JobInv, OwnInv, WorkInv, Owns, EnvOf, Claimed
<1>5. ASSUME NEW s \in Runners PROVE RunningInv(s)'
  <2>1. CASE s # r /\ ~At(s, "idle")
    <3>1. runner'[s] = runner[s] /\ RunningInv(s)
      BY <2>1 DEF RowsInv, RunnerEffect, Claims, Prepares, StartsPlan, Plans, Applies, Fails,
         Finishes, Loads, Records, Drops, Moves, Works
    <3>2. runner[s].id \in Jobs /\ job[runner[s].id].status # "queued"
          /\ (~At(r, "idle") => runner[s].id # id)
      BY <2>1 DEF TypeInv, RunnerInv, OwnInv, WorkInv, DistinctWork
    <3>3. job'[runner[s].id] = job[runner[s].id]
      BY <3>2 DEF RunnerEffect, Claims, Prepares, StartsPlan, Plans, Applies, Fails,
         Finishes, Loads, Records, Drops, Moves, Works, At
    <3>. QED BY <3>1, <3>3 DEF RunningInv, Claimed
  <2>2. CASE s # r /\ At(s, "idle")
    <3>1. runner'[s] = runner[s]
      BY <2>2 DEF RunnerEffect, Claims, Prepares, StartsPlan, Plans, Applies, Fails,
         Finishes, Loads, Records, Drops, Moves, Works
    <3>. QED BY <2>2, <3>1 DEF RunningInv, At, Working, Settling
  <2>3. CASE s = r
    <3>1. RunningInv(r)
      BY DEF RowsInv
    <3>2. ASSUME NEW j \in Jobs, Claims(r, j) PROVE RunningInv(r)'
      BY <3>2 DEF Claims, RunningInv, Claimed, Working, Settling
    <3>3. ASSUME Prepares(r) \/ StartsPlan(r) PROVE RunningInv(r)'
      BY <3>1, <3>3 DEF Prepares, StartsPlan, Moves, RunningInv, Claimed, Working,
         Settling, At
    <3>4. ASSUME Plans(r) \/ Applies(r) \/ Fails(r) \/ Loads(r) PROVE RunningInv(r)'
      BY <3>1, <3>4 DEF Plans, Applies, Fails, Loads, Moves, RunningInv, Claimed, Working,
         Settling, At
    <3>5. ASSUME Finishes(r) PROVE RunningInv(r)'
      BY <3>1, <3>5 DEF Finishes, Moves, RunningInv, Claimed, Working, Settling, At
    <3>6. ASSUME Records(r) \/ Drops(r) PROVE RunningInv(r)'
      BY <3>6 DEF Records, Drops, RunningInv, Working, Settling
    <3>. QED BY <2>3, <3>2, <3>3, <3>4, <3>5, <3>6 DEF RunnerEffect
  <2>. QED BY <2>1, <2>2, <2>3
<1>6. ASSUME ~Records(r) PROVE env' = env
  BY <1>6 DEF RunnerEffect, Claims, Prepares, StartsPlan, Plans, Applies, Fails,
     Finishes, Loads, Drops
<1>7. ASSUME NEW d \in Envs PROVE LastJobInv(d)'
  <2>1. LastJobInv(d) /\ (env[d].lastJob \in Jobs => ~Unused(env[d].lastJob))
    BY NoneAssumption DEF RowsInv, OwnInv, RowInv
  <2>2. CASE env'[d] = env[d]
    <3>1. ASSUME env[d].status = "failed"
          PROVE  job'[env[d].lastJob] = job[env[d].lastJob]
      <4>1. /\ env[d].lastJob \in Jobs /\ job[env[d].lastJob].env = d
            /\ job[env[d].lastJob].status \in {"failed", "running"}
        BY <2>1, <3>1, NoneAssumption DEF LastJobInv, RowsInv, OwnInv, RowInv
      <4>2. ~At(r, "idle") => env[d].lastJob # id
        BY <1>4, <3>1, <4>1 DEF WorkInv, Owns, IsEnvironmentBusy, EnvOf, Claimed
      <4>. QED BY <4>1, <4>2 DEF RunnerEffect, Claims, Prepares, StartsPlan, Plans, Applies,
                  Fails, Finishes, Loads, Records, Drops, Moves, Works, At
    <3>. QED BY <1>1, <2>1, <2>2, <3>1 DEF LastJobInv, Settled, SameJob
  <2>3. CASE Records(r) /\ d = e
    <3>1. ~At(r, "idle") /\ ~Unused(id) /\ id \in Jobs /\ e \in Envs
      BY <1>4, <2>3 DEF Records, At
    <3>2. env[e].status \in {"planning", "applying"}
      BY <1>4, <2>1, <2>3, <3>1 DEF WorkInv, Owns, IsEnvironmentBusy, LastJobInv
    <3>3. job[id].op = env[e].op /\ job[id].spec = env[e].spec
      BY <1>4, <2>1, <2>3, <3>1, <3>2 DEF LastJobInv
    <3>4. ~runner[r].ok => \/ job[id].status = "failed"
                           \/ Faults /\ job[id].status = "running"
      BY <2>3 DEF Records, RowsInv, RunningInv, Settling, Claimed, At
    <3>5. /\ env'[d].lastJob = id /\ env'[d].op = env[e].op /\ env'[d].spec = env[e].spec
          /\ job' = job /\ id \in Jobs
      BY <2>3, <3>1 DEF Records
    <3>6. CASE ~runner[r].ok
      <4>1. env'[d].status = "failed"
        BY <2>3, <3>6 DEF Records
      <4>. QED BY <3>3, <3>4, <3>5, <3>6, <4>1 DEF LastJobInv
    <3>7. CASE runner[r].ok
      <4>1. /\ env'[d].status \in {"pending_approval", "active", "destroyed"}
            /\ env'[d].status = "pending_approval" => env'[d].lastPlan = id
        BY <2>3, <3>7 DEF Records
      <4>. QED BY <3>3, <3>5, <4>1 DEF LastJobInv
    <3>. QED BY <3>6, <3>7
  <2>. QED BY <1>6, <2>2, <2>3 DEF Records
<1>8. ASSUME NEW k \in Jobs PROVE ChainInv(k)'
  <2>1. \A d \in Envs : env'[d].retry = env[d].retry
    BY <1>6 DEF Records
  <2>2. Unused(k) => job'[k] = job[k]
    <3>1. ASSUME Unused(k), job'[k] # job[k] PROVE FALSE
      <4>1. ASSUME NEW j \in Jobs, Claims(r, j) PROVE FALSE
        BY <3>1, <4>1 DEF Claims, Works, Unused
      <4>2. ASSUME Prepares(r) \/ StartsPlan(r) \/ Finishes(r) PROVE FALSE
        BY <1>4, <3>1, <4>2 DEF Prepares, StartsPlan, Finishes, Moves, Works, At
      <4>. QED BY <3>1, <4>1, <4>2 DEF RunnerEffect, Plans, Applies, Fails, Loads, Records,
                  Drops
    <3>. QED BY <3>1
  <2>. QED BY <1>1, <2>1, <2>2 DEF RowsInv, ChainInv, Settled, SameJob, TypeInv, JobInv, Unused
<1>. QED BY <1>3, <1>5, <1>7, <1>8 DEF RowsInv

LEMMA InitRows == Init => RowsInv
<1>. SUFFICES ASSUME Init PROVE RowsInv
  OBVIOUS
<1>1. \A c \in Clients : ReadyInv(c)
  BY DEF Init, ReadyInv, IdleClient
<1>2. \A r \in Runners : RunningInv(r)
  BY DEF Init, RunningInv, IdleRunner, Working, Settling
<1>3. \A e \in Envs : LastJobInv(e)
  BY DEF Init, LastJobInv, AbsentEnv
<1>4. \A j \in Jobs : ChainInv(j)
  BY DEF Init, ChainInv, Unused, AbsentJob
<1>. QED BY <1>1, <1>2, <1>3, <1>4 DEF RowsInv

LEMMA StepKeepsRows == TypeInv /\ OwnInv /\ RowsInv /\ [Next]_vars => RowsInv'
<1>. SUFFICES ASSUME TypeInv, OwnInv, RowsInv, [Next]_vars PROVE RowsInv'
  OBVIOUS
<1>1. CASE UNCHANGED vars
  BY <1>1 DEF vars, RowsInv, ReadyInv, JobRead, JobAdmissible, Kind, Snap, RunningInv,
     LastJobInv, ChainInv, Claimed, Unused
<1>2. ASSUME NEW c \in Clients, ClientStep(c) PROVE RowsInv'
  BY <1>2, ClientSteps, ReadKeepsRows, InsertKeepsRows, ApproveKeepsRows DEF ClientEffect
<1>3. ASSUME NEW r \in Runners, Progress(r) \/ Abandon(r) PROVE RowsInv'
  BY <1>3, RunnerSteps, RunnerKeepsRows
<1>. QED BY <1>1, <1>2, <1>3 DEF Next

\* Requests, runners and rows agree in every state, with crashes and lost writes:
\* a handler's reads stand for what its write replaces, and what follows about
\* requests follows from it (environments.go against main.go).
THEOREM RowsInvariant == Spec => [](TypeInv /\ OwnInv /\ RowsInv)
<1>. QED BY InitTypes, StepKeepsTypes, InitOwners, StepKeepsOwners, InitRows,
            StepKeepsRows, PTL DEF Spec
-----------------------------------------------------------------------------
(* What a browser has seen *)

\* The page a browser looks at is older than the row or shows its plan, and a
\* request that was let in carries the plan of the page.
LookInv(c) ==
  c \in Browsers =>
    /\ client[c].pc = "viewed" =>
         /\ Target(c) \in Envs
         /\ client[c].seen <= env[Target(c)].rev
         /\ client[c].seen = env[Target(c)].rev
              => client[c].seenPlan = env[Target(c)].lastPlan
    /\ client[c].pc \in {"loaded", "ready"} => Snap(c).lastPlan = client[c].seenPlan

\* A row changes only together with its revision.
LEMMA WritesRaiseRevision ==
  ASSUME TypeInv, NEW e \in Envs,
         \/ \E c \in Clients : ClientEffect(c)
         \/ \E r \in Runners : RunnerEffect(r)
  PROVE  env'[e] = env[e] \/ env'[e].rev = env[e].rev + 1
<1>1. env[e] \in EnvRows
  BY DEF TypeInv, TypeOK
<1>2. ASSUME NEW c \in Clients, Reads(c) PROVE env' = env
  BY <1>2 DEF Reads
<1>3. ASSUME NEW d \in Envs, NEW j \in Jobs, Inserts(d, j)
      PROVE  env'[e] = env[e] \/ env'[e].rev = env[e].rev + 1
  BY <1>3 DEF Inserts
<1>4. ASSUME NEW d \in Envs, Approves(d)
      PROVE  env'[e] = env[e] \/ env'[e].rev = env[e].rev + 1
  BY <1>1, <1>4 DEF Approves, EnvRows
<1>5. ASSUME NEW r \in Runners, RunnerEffect(r)
      PROVE  env'[e] = env[e] \/ env'[e].rev = env[e].rev + 1
  BY <1>5 DEF RunnerEffect, Claims, Prepares, StartsPlan, Plans, Applies, Fails, Finishes,
     Loads, Records, Drops
<1>. QED BY <1>2, <1>3, <1>4, <1>5
         DEF ClientEffect, InsertsPlan, InsertsApply, InsertsRetry

\* A step of one client leaves the requests of the others alone.
LEMMA OthersKeepRequests ==
  ASSUME TypeInv, NEW c \in Clients, NEW d \in Clients, d # c, ClientStep(d)
  PROVE  client'[c] = client[c]
<1>1. client \in [Clients -> ClientStates]
  BY DEF TypeInv, TypeOK
<1>2. ASSUME NEW e \in Envs, NEW spec \in Specs, CreateEnvironment(d, e, spec)
      PROVE  client' = client
  BY <1>2 DEF CreateEnvironment
<1>3. ASSUME NEW e \in Envs, View(d, e) PROVE client'[c] = client[c]
  BY <1>1, <1>3 DEF View
<1>4. ASSUME NEW e \in Envs, NEW kind, Load(d, e, kind) PROVE client'[c] = client[c]
  BY <1>1, <1>4 DEF Load
<1>5. ASSUME LoadJob(d) PROVE client'[c] = client[c]
  BY <1>1, <1>5 DEF LoadJob
<1>6. ASSUME Submit(d) \/ Abort(d) PROVE client'[c] = client[c]
  <2>1. client' = [client EXCEPT ![d] = IdleClient]
    BY <1>6 DEF Submit, Abort, Plan, Approve, Apply, Retry, Destroy, CommitWithJob
  <2>. QED BY <1>1, <2>1
<1>. QED BY <1>2, <1>3, <1>4, <1>5, <1>6 DEF ClientStep

LEMMA StepKeepsLooks ==
  ASSUME TypeInv, OwnInv, RowsInv, \A c \in Clients : LookInv(c), [Next]_vars,
         NEW c \in Clients
  PROVE  LookInv(c)'
<1>1. ASSUME client'[c] = client[c],
             \A e \in Envs : env'[e] = env[e] \/ env'[e].rev = env[e].rev + 1
      PROVE  LookInv(c)'
  <2>1. client[c].seen \in Nat /\ \A e \in Envs : env[e].rev \in Nat
    BY DEF TypeInv, TypeOK, ClientStates, EnvRows
  <2>2. ASSUME c \in Browsers, client[c].pc = "viewed"
        PROVE  /\ Target(c) \in Envs
               /\ client[c].seen <= env'[Target(c)].rev
               /\ client[c].seen = env'[Target(c)].rev
                    => client[c].seenPlan = env'[Target(c)].lastPlan
    BY <1>1, <2>1, <2>2 DEF LookInv
  <2>. QED BY <1>1, <2>2 DEF LookInv, Target, Snap
<1>2. CASE UNCHANGED vars
  BY <1>1, <1>2 DEF vars
<1>3. ASSUME NEW r \in Runners, Progress(r) \/ Abandon(r) PROVE LookInv(c)'
  <2>1. RunnerEffect(r)
    BY <1>3, RunnerSteps
  <2>2. client' = client
    BY <2>1 DEF RunnerEffect, Claims, Prepares, StartsPlan, Plans, Applies, Fails, Finishes,
       Loads, Records, Drops, Moves, Works
  <2>. QED BY <1>1, <2>1, <2>2, WritesRaiseRevision
<1>4. ASSUME NEW d \in Clients, d # c, ClientStep(d) PROVE LookInv(c)'
  BY <1>1, <1>4, ClientSteps, WritesRaiseRevision, OthersKeepRequests
<1>5. ASSUME ClientStep(c) PROVE LookInv(c)'
  <2>1. client[c] \in ClientStates /\ client \in [Clients -> ClientStates] /\ LookInv(c)
    BY DEF TypeInv, TypeOK
  <2>2. ASSUME NEW e \in Envs, View(c, e) PROVE LookInv(c)'
    <3>1. /\ client'[c].pc = "viewed" /\ client'[c].env = e /\ env' = env
          /\ client'[c].seen = env[e].rev /\ client'[c].seenPlan = env[e].lastPlan
      BY <2>1, <2>2 DEF View, IdleClient
    <3>2. env[e].rev \in Nat
      BY DEF TypeInv, TypeOK, EnvRows
    <3>. QED BY <3>1, <3>2 DEF LookInv, Target
  <2>3. ASSUME NEW e \in Envs, NEW kind, Load(c, e, kind) PROVE LookInv(c)'
    <3>1. /\ client'[c].pc = "loaded" /\ client'[c].snap = env[e]
          /\ client'[c].seenPlan = client[c].seenPlan
      BY <2>1, <2>3 DEF Load, ClientStates
    <3>2. c \in Browsers => env[e].lastPlan = client[c].seenPlan
      BY <2>1, <2>3 DEF Load, LookInv
    <3>. QED BY <3>1, <3>2 DEF LookInv, Snap
  <2>4. ASSUME LoadJob(c) PROVE LookInv(c)'
    <3>. DEFINE id == JobRead(c)
    <3>1. \/ client'[c] = [client[c] EXCEPT !.pc = "ready", !.row = job[id]]
          \/ client'[c] = IdleClient
      BY <2>1, <2>4 DEF LoadJob, JobRead
    <3>2. CASE client'[c] = [client[c] EXCEPT !.pc = "ready", !.row = job[id]]
      <4>1. /\ client'[c].pc = "ready" /\ client'[c].snap = client[c].snap
            /\ client'[c].seenPlan = client[c].seenPlan
        BY <2>1, <3>2 DEF ClientStates
      <4>2. client[c].pc = "loaded"
        BY <2>4 DEF LoadJob
      <4>. QED BY <2>1, <4>1, <4>2 DEF LookInv, Snap
    <3>3. CASE client'[c] = IdleClient
      BY <3>3 DEF LookInv, IdleClient
    <3>. QED BY <3>1, <3>2, <3>3
  <2>5. ASSUME Submit(c) \/ Abort(c) PROVE LookInv(c)'
    <3>1. client' = [client EXCEPT ![c] = IdleClient]
      BY <2>5 DEF Submit, Abort, Plan, Approve, Apply, Retry, Destroy, CommitWithJob
    <3>. QED BY <2>1, <3>1 DEF LookInv, IdleClient
  <2>6. ASSUME NEW e \in Envs, NEW spec \in Specs, CreateEnvironment(c, e, spec)
        PROVE  LookInv(c)'
    BY <2>6 DEF CreateEnvironment, LookInv
  <2>. QED BY <1>5, <2>2, <2>3, <2>4, <2>5, <2>6 DEF ClientStep
<1>. QED BY <1>2, <1>3, <1>4, <1>5 DEF Next

-----------------------------------------------------------------------------
(* The theorems *)

\* Only administrators ever have an apply or a destroy plan queued in their
\* name, retries of other people's jobs included (handleEnvironmentRetry checks
\* the job it has read, not the one it writes).
THEOREM PrivilegesHold == Spec => []PrivilegedJobsByAdmins
<1>1. RowsInv => PrivilegedJobsByAdmins
  BY DEF RowsInv, ChainInv, PrivilegedJobsByAdmins, AbsentJob
<1>. QED BY <1>1, RowsInvariant, PTL

\* No job is a longer chain of retries than its environment has counted, and no
\* environment counts more than its budget, for every MaxRetries and however
\* many retries race.
THEOREM RetriesAreBounded == Spec => []RetriesWithinBudget
<1>1. TypeInv /\ RowsInv => RetriesWithinBudget
  BY RetriesAssumption
     DEF TypeInv, TypeOK, JobInv, EnvRows, RowsInv, ChainInv, RetriesWithinBudget
<1>. QED BY <1>1, RowsInvariant, PTL

\* A failed environment's last job is a failed job, which is what
\* handleEnvironmentRetry asks for, or, where faults happen, one that the write of
\* failJob left running: no runner has it any more, because a runner's job keeps its
\* environment busy.  Nothing else ever makes a failed environment refuse its retry.
THEOREM FailuresAreRetryable == Spec => []FailedIsRetryable
<1>1. ASSUME TypeInv, OwnInv, RowsInv PROVE FailedIsRetryable
  <2>1. ASSUME NEW e \in Envs, env[e].status = "failed", NEW r \in Runners, ~At(r, "idle")
        PROVE  runner[r].id # env[e].lastJob
    <3>1. env[e].lastJob \in Jobs /\ job[env[e].lastJob].env = e
      BY <1>1, <2>1, NoneAssumption DEF RowsInv, LastJobInv, OwnInv, RowInv
    <3>2. Owns(runner[r].id, EnvOf(r))
      BY <1>1, <2>1 DEF OwnInv, WorkInv
    <3>. QED BY <2>1, <3>1, <3>2 DEF Owns, EnvOf, Claimed, IsEnvironmentBusy
  <2>. QED BY <1>1, <2>1 DEF RowsInv, LastJobInv, FailedIsRetryable, Orphaned
<1>. QED BY <1>1, RowsInvariant, PTL

LEMMA InitLooks == Init => \A c \in Clients : LookInv(c)
BY DEF Init, LookInv, IdleClient

\* A browser approves the plan it was shown, or its request is refused: the
\* precondition on the revision, read twice in the handler, holds at the write.
THEOREM SeenPlanIsApproved == Spec => ApprovesWhatWasSeen
<1>. DEFINE Looks == \A c \in Clients : LookInv(c)
            SeenWhenApproved(c) ==
              /\ c \in Browsers /\ Kind(c, "approve")
              /\ env'[Target(c)].approval = "approved" /\ env[Target(c)].approval # "approved"
              /\ client'[c].pc = "idle" /\ client[c].pc = "ready"
              => /\ env[Target(c)].lastPlan = client[c].seenPlan
                 /\ job[client[c].seenPlan].status = "done"
<1>1. TypeInv /\ OwnInv /\ RowsInv /\ Looks /\ [Next]_vars => Looks'
  BY StepKeepsLooks
<1>2. TypeInv /\ OwnInv /\ RowsInv /\ Looks /\ [Next]_vars
        => [\A c \in Clients : SeenWhenApproved(c)]_vars
  <2>. SUFFICES ASSUME TypeInv, OwnInv, RowsInv, Looks, Next, NEW c \in Clients,
                       c \in Browsers, Kind(c, "approve"),
                       env'[Target(c)].approval = "approved",
                       env[Target(c)].approval # "approved",
                       client'[c].pc = "idle", client[c].pc = "ready"
                PROVE  /\ env[Target(c)].lastPlan = client[c].seenPlan
                       /\ job[client[c].seenPlan].status = "done"
    OBVIOUS
  <2>1. ClientStep(c)
    <3>1. ASSUME NEW d \in Clients, d # c, ClientStep(d) PROVE FALSE
      BY <3>1, OthersKeepRequests
    <3>2. ASSUME NEW r \in Runners, Progress(r) \/ Abandon(r) PROVE FALSE
      <4>1. RunnerEffect(r)
        BY <3>2, RunnerSteps
      <4>. QED BY <4>1 DEF RunnerEffect, Claims, Prepares, StartsPlan, Plans, Applies, Fails,
                  Finishes, Loads, Records, Drops, Moves, Works
    <3>. QED BY <3>1, <3>2 DEF Next
  <2>2. Approve(c)
    <3>1. ASSUME NEW j \in Jobs, Apply(c, j) \/ Retry(c, j) \/ Destroy(c, j) PROVE FALSE
      BY <3>1 DEF Apply, Retry, Destroy, Kind
    <3>2. ASSUME NEW e \in Envs, NEW spec \in Specs, CreateEnvironment(c, e, spec)
          PROVE  FALSE
      BY <3>2 DEF CreateEnvironment
    <3>3. ASSUME NEW j \in Jobs, NEW op \in RequestOperations, NEW spec \in Specs,
                 Plan(c, j, op, spec)
          PROVE  FALSE
      BY <3>3 DEF Plan, Kind
    <3>4. ASSUME NEW e \in Envs, NEW kind, View(c, e) \/ Load(c, e, kind) PROVE FALSE
      BY <3>4 DEF View, Load
    <3>5. ASSUME LoadJob(c) \/ Abort(c) PROVE FALSE
      BY <3>5 DEF LoadJob, Abort
    <3>. QED BY <2>1, <3>1, <3>2, <3>3, <3>4, <3>5 DEF ClientStep, Submit
  <2>3. Snap(c) = env[Target(c)]
    BY <2>2 DEF Approve, OwnInv, SnapInv
  <2>4. JobRead(c) = Snap(c).lastPlan /\ job[JobRead(c)].status = "done"
    BY DEF RowsInv, ReadyInv, JobRead, JobAdmissible, Kind
  <2>. QED BY <2>3, <2>4 DEF LookInv
<1>. QED BY <1>1, <1>2, InitLooks, RowsInvariant, PTL DEF Spec, ApprovesWhatWasSeen
=============================================================================
