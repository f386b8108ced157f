------------------------- MODULE OrchestratorProofs -------------------------
(***************************************************************************)
(* Proofs about Orchestrator, for every set of environments, jobs,         *)
(* runners and clients.                                                    *)
(***************************************************************************)
EXTENDS Orchestrator, TLAPS

-----------------------------------------------------------------------------
(* Type correctness and the retry budget *)

\* The request of a handler past its first read was admissible for the row it
\* has read, which nothing changes afterwards.
RequestInv(c) ==
  client[c].pc \in {"loaded", "ready"} =>
    /\ Target(c) \in Envs
    /\ Admissible(c, client[c].kind, Snap(c))
    /\ client[c].pc = "ready" => client[c].row.status # "absent"
                                 /\ client[c].row.env \in Envs

\* A runner at work holds a job that exists, and an apply has a workdir.
RunnerInv(r) ==
  ~At(r, "idle") =>
    /\ runner[r].id \in Jobs
    /\ ~Unused(runner[r].id)
    /\ At(r, "prepared") /\ Claimed(r).type = "apply" => WorkdirOf(r) \in Jobs

JobInv(j) == ~Unused(j) => job[j].env \in Envs

TypeInv ==
  /\ TypeOK
  /\ \A c \in Clients : RequestInv(c)
  /\ \A r \in Runners : RunnerInv(r)
  /\ \A j \in Jobs : JobInv(j)

\* The rows and process states that stand for "nothing" are well typed.
LEMMA NullRows ==
  /\ AbsentEnv \in EnvRows
  /\ AbsentJob \in JobRows
  /\ IdleClient \in ClientStates
  /\ IdleRunner \in RunnerRows
<1>1. AbsentEnv \in EnvRows
  BY RetriesAssumption DEF AbsentEnv, EnvRows, EnvStatuses, RequestOperations,
     Operations, Approvals
<1>2. AbsentJob \in JobRows
  BY DEF AbsentJob, JobRows, JobStatuses, JobTypes, RequestOperations, Operations
<1>3. IdleClient \in ClientStates
  BY <1>1, <1>2 DEF IdleClient, ClientStates, RequestStates, RequestKinds
<1>4. IdleRunner \in RunnerRows
  BY <1>1 DEF IdleRunner, RunnerRows, RunnerStates
<1>. QED BY <1>1, <1>2, <1>3, <1>4

LEMMA ResetRow ==
  ASSUME NEW row \in EnvRows
  PROVE  Reset(row) \in EnvRows /\ Reset(row).retry = row.retry
BY DEF Reset, EnvRows, Approvals

LEMMA NextRevisionRow ==
  ASSUME NEW row \in EnvRows
  PROVE  /\ [row EXCEPT !.rev = @ + 1] \in EnvRows
         /\ row.rev + 1 \in Nat
BY DEF EnvRows

\* The jobs a handler builds are job rows.
LEMMA BuiltJobs ==
  ASSUME NEW c \in Clients, NEW e \in Envs \union {NoEnv}, NEW row \in EnvRows,
         NEW plan \in JobRows, NEW spec \in Specs \union {NoSpec},
         NEW op \in RequestOperations
  PROVE  /\ PlanJob(c, e, op, spec) \in JobRows
         /\ ApplyJob(c, e, row, plan) \in JobRows
         /\ RetryJob(c, plan) \in JobRows
<1>1. PlanJob(c, e, op, spec) \in JobRows
  BY NullRows DEF PlanJob, JobRows, JobStatuses
<1>2. ApplyJob(c, e, row, plan) \in JobRows
  BY DEF ApplyJob, JobRows, EnvRows, JobStatuses, JobTypes
<1>3. RetryJob(c, plan) \in JobRows
  <2>1. plan.retry + 1 \in Nat
    BY DEF JobRows
  <2>2. "queued" \in JobStatuses
    BY DEF JobStatuses
  <2>. QED BY <2>1, <2>2 DEF RetryJob, JobRows
<1>. QED BY <1>1, <1>2, <1>3

\* A client that becomes idle keeps the invariant of the clients.
LEMMA IdleKeepsRequests ==
  ASSUME TypeInv, NEW c \in Clients, client' = [client EXCEPT ![c] = IdleClient]
  PROVE  client' \in [Clients -> ClientStates] /\ \A d \in Clients : RequestInv(d)'
<1>1. client' \in [Clients -> ClientStates]
  BY NullRows DEF TypeInv, TypeOK
<1>2. ASSUME NEW d \in Clients PROVE RequestInv(d)'
  <2>1. CASE d = c
    BY <2>1 DEF TypeInv, TypeOK, RequestInv, IdleClient
  <2>2. CASE d # c
    BY <2>2 DEF TypeInv, TypeOK, RequestInv, Target, Snap
  <2>. QED BY <2>1, <2>2
<1>. QED BY <1>1, <1>2

\* The transaction of plan, apply, retry and destroy keeps the invariant.
LEMMA CommitKeepsTypes ==
  ASSUME TypeInv, NEW c \in Clients, NEW j \in Jobs, NEW newEnv \in EnvRows,
         NEW newJob \in JobRows, newJob.env \in Envs,
         CommitWithJob(c, j, newEnv, newJob)
  PROVE  TypeInv'
<1>1. [newEnv EXCEPT !.rev = @ + 1] \in EnvRows
  BY NextRevisionRow
<1>2. env' \in [Envs -> EnvRows]
  BY <1>1 DEF CommitWithJob, TypeInv, TypeOK
<1>3. job' \in [Jobs -> JobRows]
  BY DEF CommitWithJob, TypeInv, TypeOK
<1>4. client' \in [Clients -> ClientStates] /\ \A d \in Clients : RequestInv(d)'
  BY IdleKeepsRequests DEF CommitWithJob
<1>5. ASSUME NEW k \in Jobs, k # j PROVE job'[k] = job[k]
  BY <1>5 DEF CommitWithJob, TypeInv, TypeOK
<1>6. ASSUME NEW r \in Runners PROVE RunnerInv(r)'
  BY <1>5 DEF RunnerInv, CommitWithJob, TypeInv, At, Unused, Claimed, WorkdirOf
<1>7. ASSUME NEW k \in Jobs PROVE JobInv(k)'
  <2>1. CASE k = j
    BY <2>1 DEF JobInv, CommitWithJob, TypeInv, TypeOK
  <2>2. CASE k # j
    BY <2>2, <1>5 DEF JobInv, TypeInv, Unused
  <2>. QED BY <2>1, <2>2
<1>. QED BY <1>2, <1>3, <1>4, <1>6, <1>7 DEF CommitWithJob, TypeInv, TypeOK

LEMMA SubmitKeepsTypes ==
  ASSUME TypeInv, NEW c \in Clients, Submit(c)
  PROVE  TypeInv'
<1>1. client[c] \in ClientStates /\ Snap(c) \in EnvRows /\ client[c].row \in JobRows
  BY DEF TypeInv, TypeOK, ClientStates, Snap
<1>2. /\ client[c].pc \in {"loaded", "ready"} /\ Target(c) \in Envs
      /\ Admissible(c, client[c].kind, Snap(c))
      /\ client[c].pc = "ready" => client[c].row.env \in Envs
  BY DEF Submit, Plan, Approve, Apply, Retry, Destroy, TypeInv, RequestInv
<1>3. Reset(Snap(c)) \in EnvRows /\ Reset(Snap(c)).retry = Snap(c).retry
  BY <1>1, ResetRow
<1>4. ASSUME NEW j \in Jobs, NEW op \in RequestOperations, NEW spec \in Specs,
             Plan(c, j, op, spec)
      PROVE  TypeInv'
  <2>1. [Reset(Snap(c)) EXCEPT !.op = op, !.spec = spec, !.status = "planning",
                               !.lastPlan = j, !.lastJob = j] \in EnvRows
    BY <1>3 DEF EnvRows, EnvStatuses
  <2>2. PlanJob(c, Target(c), op, spec) \in JobRows
        /\ PlanJob(c, Target(c), op, spec).env = Target(c)
    BY <1>1, <1>2, BuiltJobs DEF PlanJob, AbsentJob
  <2>. QED BY <1>2, <1>4, <2>1, <2>2, CommitKeepsTypes DEF Plan
<1>5. ASSUME Approve(c) PROVE TypeInv'
  <2>1. [Snap(c) EXCEPT !.approval = "approved", !.status = "approved",
                        !.rev = @ + 1] \in EnvRows
    BY <1>1, NextRevisionRow DEF EnvRows, EnvStatuses, Approvals
  <2>2. env' \in [Envs -> EnvRows]
    BY <1>5, <2>1 DEF Approve, TypeInv, TypeOK
  <2>3. client' \in [Clients -> ClientStates] /\ \A d \in Clients : RequestInv(d)'
    BY <1>5, IdleKeepsRequests DEF Approve
  <2>4. Snap(c).lastPlan \in Jobs
    BY <1>1, <1>2, <1>5 DEF Approve, Admissible, Kind, EnvRows
  <2>5. \A r \in Runners : RunnerInv(r)'
    BY <1>5 DEF Approve, TypeInv, RunnerInv, At, Unused, Claimed, WorkdirOf
  <2>6. \A j \in Jobs : JobInv(j)'
    BY <1>5 DEF Approve, TypeInv, JobInv, Unused
  <2>. QED BY <1>5, <2>2, <2>3, <2>4, <2>5, <2>6 DEF Approve, TypeInv, TypeOK
<1>6. ASSUME NEW j \in Jobs, Apply(c, j) PROVE TypeInv'
  <2>1. [Snap(c) EXCEPT !.status = "applying", !.lastJob = j] \in EnvRows
    BY <1>1 DEF EnvRows, EnvStatuses
  <2>2. Snap(c).spec \in Specs \union {NoSpec} /\ Snap(c).op \in RequestOperations
    BY <1>1 DEF EnvRows
  <2>3. ApplyJob(c, Target(c), Snap(c), client[c].row) \in JobRows
    BY <1>1, <1>2, <2>2, BuiltJobs
  <2>4. ApplyJob(c, Target(c), Snap(c), client[c].row).env = Target(c)
    BY DEF ApplyJob
  <2>. QED BY <1>2, <1>6, <2>1, <2>3, <2>4, CommitKeepsTypes DEF Apply
<1>7. ASSUME NEW j \in Jobs, Retry(c, j) PROVE TypeInv'
  <2>1. Snap(c).retry < MaxRetries
    BY <1>2, <1>7 DEF Retry, Admissible, Kind
  <2>2. Snap(c).retry + 1 \in 0..MaxRetries
    BY <1>1, <2>1, RetriesAssumption DEF EnvRows
  <2>3. [Reset(Snap(c)) EXCEPT
           !.status = IF client[c].row.type = "apply" THEN "applying" ELSE "planning",
           !.lastJob = j, !.retry = @ + 1] \in EnvRows
    BY <1>3, <2>2 DEF EnvRows, EnvStatuses
  <2>4. RetryJob(c, client[c].row) \in JobRows
    BY <1>1, BuiltJobs DEF EnvRows, JobRows
  <2>5. RetryJob(c, client[c].row).env \in Envs
    BY <1>1, <1>2, <1>7 DEF Retry, RetryJob, JobRows
  <2>. QED BY <1>7, <2>3, <2>4, <2>5, CommitKeepsTypes DEF Retry
<1>8. ASSUME NEW j \in Jobs, Destroy(c, j) PROVE TypeInv'
  <2>1. [Reset(Snap(c)) EXCEPT !.op = "destroy", !.status = "planning",
           !.workdir = Snap(c).workdir, !.lastPlan = j, !.lastJob = j] \in EnvRows
    BY <1>1, <1>3 DEF EnvRows, EnvStatuses, RequestOperations, Operations
  <2>2. PlanJob(c, Target(c), "destroy", Snap(c).spec) \in JobRows
    BY <1>1, <1>2, BuiltJobs DEF EnvRows, RequestOperations, Operations
  <2>3. PlanJob(c, Target(c), "destroy", Snap(c).spec).env = Target(c)
    BY DEF PlanJob, AbsentJob
  <2>. QED BY <1>2, <1>8, <2>1, <2>2, <2>3, CommitKeepsTypes DEF Destroy
<1>. QED BY <1>4, <1>5, <1>6, <1>7, <1>8 DEF Submit

\* A client that reads leaves everybody else's request alone.
LEMMA ReadKeepsTypes ==
  ASSUME TypeInv, NEW c \in Clients, NEW state \in ClientStates,
         client' = [client EXCEPT ![c] = state],
         UNCHANGED <<env, job, runner, planFile, resources, approved, applied>>,
         state.pc \in {"loaded", "ready"} =>
           /\ state.env \in Envs
           /\ Admissible(c, state.kind, state.snap)
           /\ state.pc = "ready" => state.row.status # "absent" /\ state.row.env \in Envs
  PROVE  TypeInv'
<1>1. client' \in [Clients -> ClientStates]
  BY DEF TypeInv, TypeOK
<1>2. ASSUME NEW d \in Clients PROVE RequestInv(d)'
  <2>1. CASE d = c
    <3>1. client'[d] = state
      BY <2>1 DEF TypeInv, TypeOK
    <3>. QED BY <2>1, <3>1 DEF RequestInv, Target, Snap
  <2>2. CASE d # c
    <3>1. client'[d] = client[d]
      BY <2>2 DEF TypeInv, TypeOK
    <3>. QED BY <3>1 DEF TypeInv, RequestInv, Target, Snap
  <2>. QED BY <2>1, <2>2
<1>3. \A r \in Runners : RunnerInv(r)'
  BY DEF TypeInv, RunnerInv, At, Unused, Claimed, WorkdirOf
<1>4. \A j \in Jobs : JobInv(j)'
  BY DEF TypeInv, JobInv, Unused
<1>. QED BY <1>1, <1>2, <1>3, <1>4 DEF TypeInv, TypeOK

LEMMA ClientKeepsTypes ==
  ASSUME TypeInv, NEW c \in Clients, ClientStep(c)
  PROVE  TypeInv'
<1>1. client[c] \in ClientStates /\ client = [client EXCEPT ![c] = client[c]]
  BY DEF TypeInv, TypeOK
<1>2. ASSUME NEW e \in Envs, View(c, e) PROVE TypeInv'
  <2>. DEFINE state == [IdleClient EXCEPT !.pc = "viewed", !.env = e,
                          !.seen = env[e].rev, !.seenPlan = env[e].lastPlan]
  <2>1. env[e] \in EnvRows
    BY DEF TypeInv, TypeOK
  <2>2. state \in ClientStates /\ state.pc = "viewed"
    BY <2>1, NullRows DEF ClientStates, RequestStates, EnvRows, IdleClient
  <2>3. client' = [client EXCEPT ![c] = state]
    BY <1>2 DEF View
  <2>. QED BY <1>2, <2>2, <2>3, ReadKeepsTypes DEF View
<1>3. ASSUME NEW e \in Envs, NEW spec \in Specs, CreateEnvironment(c, e, spec)
      PROVE  TypeInv'
  <2>1. PICK j \in Jobs :
          /\ Unused(j)
          /\ job' = [job EXCEPT ![j] = PlanJob(c, e, "create", spec)]
          /\ env' = [env EXCEPT ![e] = [AbsentEnv EXCEPT
                       !.status = "planning", !.spec = spec, !.lastPlan = j,
                       !.lastJob = j, !.rev = 1]]
    BY <1>3 DEF CreateEnvironment
  <2>2. env' \in [Envs -> EnvRows]
    <3>1. [AbsentEnv EXCEPT !.status = "planning", !.spec = spec, !.lastPlan = j,
                            !.lastJob = j, !.rev = 1] \in EnvRows
      BY NullRows DEF EnvRows, EnvStatuses
    <3>. QED BY <2>1, <3>1 DEF TypeInv, TypeOK
  <2>3. PlanJob(c, e, "create", spec) \in JobRows
    BY NullRows, BuiltJobs DEF RequestOperations, Operations
  <2>4. PlanJob(c, e, "create", spec).env = e
    BY DEF PlanJob, AbsentJob
  <2>5. job' \in [Jobs -> JobRows]
    BY <2>1, <2>3 DEF TypeInv, TypeOK
  <2>6. ASSUME NEW k \in Jobs, k # j PROVE job'[k] = job[k]
    BY <2>1, <2>6 DEF TypeInv, TypeOK
  <2>7. job'[j].env = e
    BY <2>1, <2>4 DEF TypeInv, TypeOK
  <2>8. \A r \in Runners : RunnerInv(r)'
    BY <1>3, <2>1, <2>6 DEF CreateEnvironment, TypeInv, RunnerInv, At, Unused, Claimed,
       WorkdirOf
  <2>9. \A k \in Jobs : JobInv(k)'
    BY <2>6, <2>7 DEF TypeInv, JobInv, Unused
  <2>10. \A d \in Clients : RequestInv(d)'
    BY <1>3 DEF CreateEnvironment, TypeInv, RequestInv, Target, Snap
  <2>. QED BY <1>3, <2>2, <2>5, <2>8, <2>9, <2>10
           DEF CreateEnvironment, TypeInv, TypeOK
<1>4. ASSUME NEW e \in Envs, NEW kind \in RequestKinds, Load(c, e, kind)
      PROVE  TypeInv'
  <2>. DEFINE state == [client[c] EXCEPT !.pc = "loaded", !.kind = kind, !.env = e,
                                         !.snap = env[e]]
  <2>1. env[e] \in EnvRows
    BY DEF TypeInv, TypeOK
  <2>2. state \in ClientStates
    BY <1>1, <2>1 DEF ClientStates, RequestStates
  <2>3. /\ state.pc = "loaded" /\ state.env = e /\ state.kind = kind
        /\ state.snap = env[e]
    BY <1>1 DEF ClientStates
  <2>4. client' = [client EXCEPT ![c] = state]
    BY <1>4 DEF Load, TypeInv, TypeOK
  <2>5. Admissible(c, state.kind, state.snap)
    BY <1>4, <2>3 DEF Load
  <2>6. UNCHANGED <<env, job, runner, planFile, resources, approved, applied>>
    BY <1>4 DEF Load
  <2>. QED BY <2>2, <2>3, <2>4, <2>5, <2>6, ReadKeepsTypes
<1>5. ASSUME LoadJob(c) PROVE TypeInv'
  <2>. DEFINE id == IF Kind(c, "retry") THEN Snap(c).lastJob ELSE Snap(c).lastPlan
  <2>1. CASE id \in Jobs /\ JobAdmissible(c, job[id])
    <3>. DEFINE state == [client[c] EXCEPT !.pc = "ready", !.row = job[id]]
    <3>1. client' = [client EXCEPT ![c] = state]
      BY <1>5, <2>1 DEF LoadJob
    <3>2. job[id] \in JobRows
      BY <2>1 DEF TypeInv, TypeOK
    <3>3. state \in ClientStates
      BY <1>1, <3>2 DEF ClientStates, RequestStates
    <3>4. job[id].status # "absent" /\ job[id].env \in Envs
      BY <2>1 DEF JobAdmissible, TypeInv, JobInv, Unused
    <3>5. state.pc = "ready" /\ state.env = Target(c) /\ state.row = job[id]
          /\ state.kind = client[c].kind /\ state.snap = Snap(c)
      BY <1>1 DEF ClientStates, Target, Snap
    <3>6. Target(c) \in Envs /\ Admissible(c, client[c].kind, Snap(c))
      BY <1>5 DEF LoadJob, TypeInv, RequestInv
    <3>7. UNCHANGED <<env, job, runner, planFile, resources, approved, applied>>
      BY <1>5 DEF LoadJob
    <3>. QED BY <3>1, <3>3, <3>4, <3>5, <3>6, <3>7, ReadKeepsTypes
  <2>2. CASE ~(id \in Jobs /\ JobAdmissible(c, job[id]))
    <3>1. client' = [client EXCEPT ![c] = IdleClient]
      BY <1>5, <2>2 DEF LoadJob
    <3>. QED BY <1>5, <3>1, NullRows, ReadKeepsTypes DEF LoadJob, IdleClient
  <2>. QED BY <2>1, <2>2
<1>6. ASSUME Abort(c) PROVE TypeInv'
  BY <1>6, NullRows, ReadKeepsTypes DEF Abort, IdleClient
<1>. QED BY <1>2, <1>3, <1>4, <1>5, <1>6, SubmitKeepsTypes DEF ClientStep

\* A runner's step that keeps the requests and the environments of the jobs.
LEMMA RunnerKeepsTypes ==
  ASSUME TypeInv, NEW r \in Runners, NEW state \in RunnerRows,
         NEW id \in Jobs, NEW row \in JobRows,
         runner' = [runner EXCEPT ![r] = state],
         job' = [job EXCEPT ![id] = row],
         UNCHANGED <<client, approved>>,
         env' \in [Envs -> EnvRows], planFile' \in [Jobs -> Jobs \union {NoJob}],
         resources' \in [Envs -> SUBSET Jobs], applied' \subseteq Jobs,
         row.env = job[id].env, row.status # "absent", ~Unused(id),
         row.type = job[id].type,
         job[id].workdir \in Jobs => row.workdir \in Jobs,
         state.pc # "idle" =>
           state.id = id /\ (state.pc = "prepared" /\ row.type = "apply"
                               => row.workdir \in Jobs)
  PROVE  TypeInv'
<1>1. job' \in [Jobs -> JobRows] /\ runner' \in [Runners -> RunnerRows]
  BY DEF TypeInv, TypeOK
<1>2. job'[id] = row
  BY DEF TypeInv, TypeOK
<1>3. ASSUME NEW k \in Jobs, k # id PROVE job'[k] = job[k]
  BY <1>3 DEF TypeInv, TypeOK
<1>4. \A c \in Clients : RequestInv(c)'
  BY DEF TypeInv, RequestInv, Target, Snap
<1>5. \A k \in Jobs : JobInv(k)'
  BY <1>2, <1>3 DEF TypeInv, JobInv, Unused
<1>6. ASSUME NEW s \in Runners PROVE RunnerInv(s)'
  <2>1. CASE s = r
    <3>1. runner'[s] = state
      BY <2>1 DEF TypeInv, TypeOK
    <3>. QED BY <1>2, <3>1 DEF RunnerInv, At, Unused, Claimed, WorkdirOf
  <2>2. CASE s # r
    <3>1. runner'[s] = runner[s]
      BY <2>2 DEF TypeInv, TypeOK
    <3>2. RunnerInv(s)
      BY DEF TypeInv
    <3>. QED BY <1>2, <1>3, <3>1, <3>2 DEF RunnerInv, At, Unused, Claimed, WorkdirOf
  <2>. QED BY <2>1, <2>2
<1>. QED BY <1>1, <1>4, <1>5, <1>6 DEF TypeInv, TypeOK

\* A job at work has a log directory to record.
LEMMA LogDirType ==
  ASSUME TypeInv, NEW r \in Runners, ~At(r, "idle")
  PROVE  LogDirOf(r) \in Jobs
BY DEF LogDirOf, Claimed, RunnerInv, TypeInv, TypeOK, JobRows

LEMMA ProgressKeepsTypes ==
  ASSUME TypeInv, NEW r \in Runners, Progress(r)
  PROVE  TypeInv'
<1>. DEFINE id == runner[r].id
<1>1. /\ runner[r] \in RunnerRows
      /\ env \in [Envs -> EnvRows] /\ planFile \in [Jobs -> Jobs \union {NoJob}]
      /\ resources \in [Envs -> SUBSET Jobs] /\ applied \subseteq Jobs
  BY DEF TypeInv, TypeOK
<1>2. ~At(r, "idle") => /\ id \in Jobs /\ ~Unused(id)
                        /\ job[id] \in JobRows /\ job[id].env \in Envs
                        /\ job = [job EXCEPT ![id] = job[id]]
                        /\ RunnerInv(r)
  BY DEF TypeInv, TypeOK, RunnerInv, JobInv
\* Steps that move the runner on and leave its job alone.
<1>3. ASSUME NEW pc \in RunnerStates \ {"idle", "prepared"}, ~At(r, "idle"), Goto(r, pc)
      PROVE  /\ [runner[r] EXCEPT !.pc = pc] \in RunnerRows
             /\ runner' = [runner EXCEPT ![r] = [runner[r] EXCEPT !.pc = pc]]
             /\ [runner[r] EXCEPT !.pc = pc].id = id
             /\ [runner[r] EXCEPT !.pc = pc].pc = pc
  BY <1>1, <1>3 DEF RunnerRows, Goto, TypeInv, TypeOK
<1>4. ASSUME Claim(r) PROVE TypeInv'
  <2>1. PICK j \in Jobs :
          /\ job[j].status = "queued"
          /\ job' = [job EXCEPT ![j].status = "running"]
          /\ runner' = [runner EXCEPT ![r] = [IdleRunner EXCEPT !.pc = "claimed", !.id = j]]
    BY <1>4 DEF Claim
  <2>2. job[j] \in JobRows
    BY DEF TypeInv, TypeOK
  <2>. DEFINE row == [job[j] EXCEPT !.status = "running"]
  <2>3. /\ row \in JobRows /\ row.env = job[j].env /\ row.type = job[j].type
        /\ row.workdir = job[j].workdir /\ row.status = "running"
    BY <2>2 DEF JobRows, JobStatuses
  <2>. DEFINE state == [IdleRunner EXCEPT !.pc = "claimed", !.id = j]
  <2>4. state \in RunnerRows /\ state.pc = "claimed" /\ state.id = j
    BY NullRows DEF RunnerRows, RunnerStates, IdleRunner
  <2>5. job' = [job EXCEPT ![j] = row] /\ ~Unused(j)
    BY <2>1 DEF Unused, TypeInv, TypeOK
  <2>6. UNCHANGED <<env, client, planFile, resources, approved, applied>>
    BY <1>4 DEF Claim
  <2>. HIDE DEF row, state
  <2>. QED BY <1>1, <2>1, <2>3, <2>4, <2>5, <2>6, RunnerKeepsTypes DEF state
<1>5. ASSUME PrepareApply(r) PROVE TypeInv'
  <2>. DEFINE src == job[job[id].source]
              row == [job[id] EXCEPT !.workdir = src.workdir, !.logDir = LogDirOf(r),
                                 !.planned = TRUE]
              state == [runner[r] EXCEPT !.pc = "prepared"]
  <2>1. ~At(r, "idle")
    BY <1>5 DEF PrepareApply, At
  <2>2. src.workdir \in Jobs
    <3>1. job[id].source \in Jobs
      BY <1>2, <1>5, <2>1 DEF PrepareApply, Claimed, JobRows
    <3>2. src \in JobRows
      BY <3>1 DEF TypeInv, TypeOK
    <3>. QED BY <1>5, <3>2 DEF PrepareApply, Claimed, JobRows
  <2>3. /\ row \in JobRows /\ row.env = job[id].env /\ row.type = job[id].type
        /\ row.workdir \in Jobs /\ row.status = job[id].status
    BY <1>2, <2>1, <2>2, LogDirType DEF JobRows
  <2>4. job' = [job EXCEPT ![id] = row]
    BY <1>2, <1>5, <2>1 DEF PrepareApply, Claimed, TypeInv, TypeOK
  <2>5. state \in RunnerRows /\ state.id = id
        /\ runner' = [runner EXCEPT ![r] = state]
    BY <1>1, <1>5 DEF PrepareApply, Goto, RunnerRows, RunnerStates, TypeInv, TypeOK
  <2>6. UNCHANGED <<env, client, planFile, resources, approved, applied>>
    BY <1>5 DEF PrepareApply
  <2>. HIDE DEF row, state
  <2>. QED BY <1>1, <1>2, <2>1, <2>3, <2>4, <2>5, <2>6, RunnerKeepsTypes DEF Unused
<1>6. ASSUME PreparePlan(r) PROVE TypeInv'
  <2>. DEFINE row == [job[id] EXCEPT !.workdir = id, !.logDir = LogDirOf(r)]
              state == [runner[r] EXCEPT !.pc = "prepared"]
  <2>1. ~At(r, "idle")
    BY <1>6 DEF PreparePlan, At
  <2>2. /\ row \in JobRows /\ row.env = job[id].env /\ row.type = job[id].type
        /\ row.workdir \in Jobs /\ row.status = job[id].status
    BY <1>2, <2>1, LogDirType DEF JobRows
  <2>3. job' = [job EXCEPT ![id] = row]
    BY <1>2, <1>6, <2>1 DEF PreparePlan, TypeInv, TypeOK
  <2>4. state \in RunnerRows /\ state.id = id
        /\ runner' = [runner EXCEPT ![r] = state]
    BY <1>1, <1>6 DEF PreparePlan, Goto, RunnerRows, RunnerStates, TypeInv, TypeOK
  <2>5. UNCHANGED <<env, client, resources, approved, applied>>
        /\ planFile' \in [Jobs -> Jobs \union {NoJob}]
    BY <1>1, <1>2, <1>6, <2>1 DEF PreparePlan
  <2>. HIDE DEF row, state
  <2>. QED BY <1>1, <1>2, <2>1, <2>2, <2>3, <2>4, <2>5, RunnerKeepsTypes DEF Unused
<1>7. ASSUME PrepareDestroyPlan(r) PROVE TypeInv'
  <2>. DEFINE row == [job[id] EXCEPT !.workdir = env[job[id].env].workdir,
                                 !.logDir = LogDirOf(r)]
              state == [runner[r] EXCEPT !.pc = "prepared"]
  <2>1. ~At(r, "idle")
    BY <1>7 DEF PrepareDestroyPlan, At
  <2>2. env[job[id].env].workdir \in Jobs
    BY <1>1, <1>2, <1>7, <2>1 DEF PrepareDestroyPlan, EnvOf, Claimed, EnvRows
  <2>3. /\ row \in JobRows /\ row.env = job[id].env /\ row.type = job[id].type
        /\ row.workdir \in Jobs /\ row.status = job[id].status
    BY <1>2, <2>1, <2>2, LogDirType DEF JobRows
  <2>4. job' = [job EXCEPT ![id] = row]
    BY <1>2, <1>7, <2>1 DEF PrepareDestroyPlan, EnvOf, Claimed, TypeInv, TypeOK
  <2>5. state \in RunnerRows /\ state.id = id
        /\ runner' = [runner EXCEPT ![r] = state]
    BY <1>1, <1>7 DEF PrepareDestroyPlan, Goto, RunnerRows, RunnerStates, TypeInv, TypeOK
  <2>6. UNCHANGED <<env, client, planFile, resources, approved, applied>>
    BY <1>7 DEF PrepareDestroyPlan
  <2>. HIDE DEF row, state
  <2>. QED BY <1>1, <1>2, <2>1, <2>3, <2>4, <2>5, <2>6, RunnerKeepsTypes DEF Unused
<1>8. ASSUME InitValidate(r) PROVE TypeInv'
  <2>. DEFINE row == [job[id] EXCEPT !.planned = TRUE]
              state == [runner[r] EXCEPT !.pc = "planning"]
  <2>1. ~At(r, "idle")
    BY <1>8 DEF InitValidate, At
  <2>2. /\ row \in JobRows /\ row.env = job[id].env /\ row.type = job[id].type
        /\ row.workdir = job[id].workdir /\ row.status = job[id].status
    BY <1>2, <2>1 DEF JobRows
  <2>3. job' = [job EXCEPT ![id] = row]
    BY <1>2, <1>8, <2>1 DEF InitValidate, TypeInv, TypeOK
  <2>4. state \in RunnerRows /\ state.id = id /\ state.pc = "planning"
        /\ runner' = [runner EXCEPT ![r] = state]
    BY <1>3, <1>8, <2>1 DEF InitValidate, RunnerStates
  <2>5. UNCHANGED <<env, client, planFile, resources, approved, applied>>
    BY <1>8 DEF InitValidate
  <2>. HIDE DEF row, state
  <2>. QED BY <1>1, <1>2, <2>1, <2>2, <2>3, <2>4, <2>5, RunnerKeepsTypes DEF Unused
<1>9. ASSUME NEW pc \in RunnerStates \ {"idle", "prepared"}, ~At(r, "idle"),
             Goto(r, pc), UNCHANGED <<env, job, client, approved>>,
             planFile' \in [Jobs -> Jobs \union {NoJob}],
             resources' \in [Envs -> SUBSET Jobs], applied' \subseteq Jobs
      PROVE  TypeInv'
  <2>. DEFINE state == [runner[r] EXCEPT !.pc = pc]
  <2>1. /\ state \in RunnerRows /\ state.id = id /\ state.pc = pc
        /\ runner' = [runner EXCEPT ![r] = state]
    BY <1>3, <1>9
  <2>2. job' = [job EXCEPT ![id] = job[id]] /\ env' \in [Envs -> EnvRows]
    BY <1>1, <1>2, <1>9
  <2>. HIDE DEF state
  <2>. QED BY <1>2, <1>9, <2>1, <2>2, RunnerKeepsTypes DEF Unused
<1>10. ASSUME TofuPlan(r) PROVE TypeInv'
  <2>1. ~At(r, "idle") /\ Goto(r, "ran")
    BY <1>10 DEF TofuPlan, At
  <2>2. planFile' \in [Jobs -> Jobs \union {NoJob}]
    BY <1>1, <1>2, <1>10, <2>1 DEF TofuPlan
  <2>. QED BY <1>1, <1>9, <1>10, <2>1, <2>2 DEF TofuPlan, RunnerStates
<1>11. ASSUME NEW ok \in BOOLEAN, TofuApply(r, ok) PROVE TypeInv'
  <2>. DEFINE w == WorkdirOf(r)
              e == EnvOf(r)
              done == AfterApply(resources[e], w, planFile[w])
  <2>1. ~At(r, "idle")
    BY <1>11 DEF TofuApply, At
  <2>2. w \in Jobs
    BY <1>2, <1>11, <2>1 DEF TofuApply, RunnerInv
  <2>3. e \in Envs /\ resources[e] \subseteq Jobs /\ planFile[w] \in Jobs
    BY <1>1, <1>2, <1>11, <2>1, <2>2 DEF TofuApply, EnvOf, Claimed
  <2>4. done \subseteq Jobs
    BY <2>2, <2>3 DEF AfterApply
  <2>5. PICK now \in IF ok THEN {done} ELSE {done, resources[e], resources[e] \union {w}} :
          resources' = [resources EXCEPT ![e] = now]
    BY <1>11 DEF TofuApply
  <2>6. resources' \in [Envs -> SUBSET Jobs]
    BY <1>1, <2>2, <2>3, <2>4, <2>5
  <2>7. applied' \subseteq Jobs
    BY <1>1, <1>11, <2>3 DEF TofuApply
  <2>8. Goto(r, IF ok THEN "ran" ELSE "failing")
        /\ UNCHANGED <<env, job, client, planFile, approved>>
    BY <1>11 DEF TofuApply
  <2>. QED BY <1>1, <1>9, <2>1, <2>6, <2>7, <2>8 DEF RunnerStates
<1>12. ASSUME StepFails(r) PROVE TypeInv'
  BY <1>1, <1>9, <1>12 DEF StepFails, At, RunnerStates
<1>13. ASSUME FinishJob(r) PROVE TypeInv'
  <2>1. ~At(r, "idle") /\ UNCHANGED <<env, client, planFile, resources, approved, applied>>
    BY <1>13 DEF FinishJob, At
  <2>2. ASSUME NEW status \in {"done", "failed"}
        PROVE  /\ [job[id] EXCEPT !.status = status] \in JobRows
               /\ [job[id] EXCEPT !.status = status].env = job[id].env
               /\ [job[id] EXCEPT !.status = status].type = job[id].type
               /\ [job[id] EXCEPT !.status = status].workdir = job[id].workdir
               /\ [job[id] EXCEPT !.status = status].status = status
    BY <1>2, <2>1 DEF JobRows, JobStatuses
  <2>3. PICK state \in RunnerRows :
          /\ state.pc = "finished" /\ state.id = id
          /\ runner' = [runner EXCEPT ![r] = state]
    <3>1. [runner[r] EXCEPT !.pc = "finished"] \in RunnerRows
          /\ [runner[r] EXCEPT !.pc = "finished", !.ok = TRUE] \in RunnerRows
      BY <1>1 DEF RunnerRows, RunnerStates
    <3>2. /\ [runner[r] EXCEPT !.pc = "finished"].pc = "finished"
          /\ [runner[r] EXCEPT !.pc = "finished"].id = id
          /\ [runner[r] EXCEPT !.pc = "finished", !.ok = TRUE].pc = "finished"
          /\ [runner[r] EXCEPT !.pc = "finished", !.ok = TRUE].id = id
      BY <1>1 DEF RunnerRows
    <3>3. CASE Goto(r, "finished")
      <4>1. runner' = [runner EXCEPT ![r] = [runner[r] EXCEPT !.pc = "finished"]]
        BY <3>3 DEF Goto, TypeInv, TypeOK
      <4>. QED BY <3>1, <3>2, <4>1
    <3>4. CASE runner' = [runner EXCEPT ![r].pc = "finished", ![r].ok = TRUE]
      <4>1. runner' = [runner EXCEPT ![r] =
                         [runner[r] EXCEPT !.pc = "finished", !.ok = TRUE]]
        BY <3>4 DEF TypeInv, TypeOK
      <4>. QED BY <3>1, <3>2, <4>1
    <3>. QED BY <1>13, <3>3, <3>4 DEF FinishJob
  <2>4. \/ job' = job
        \/ \E status \in {"done", "failed"} : job' = [job EXCEPT ![id].status = status]
    BY <1>13 DEF FinishJob
  <2>5. CASE job' = job
    BY <1>1, <1>2, <2>1, <2>3, <2>5, RunnerKeepsTypes DEF Unused
  <2>6. ASSUME NEW status \in {"done", "failed"},
               job' = [job EXCEPT ![id].status = status]
        PROVE  TypeInv'
    <3>. DEFINE row == [job[id] EXCEPT !.status = status]
    <3>1. job' = [job EXCEPT ![id] = row]
      BY <1>2, <2>1, <2>6 DEF TypeInv, TypeOK
    <3>2. /\ row \in JobRows /\ row.env = job[id].env /\ row.type = job[id].type
          /\ row.workdir = job[id].workdir /\ row.status = status
      BY <2>2
    <3>. HIDE DEF row
    <3>. QED BY <1>1, <1>2, <2>1, <2>3, <3>1, <3>2, RunnerKeepsTypes
  <2>. QED BY <2>4, <2>5, <2>6
<1>14. ASSUME LoadEnv(r) PROVE TypeInv'
  <2>1. ~At(r, "idle") /\ UNCHANGED <<env, job, client, planFile, resources, approved, applied>>
    BY <1>14 DEF LoadEnv, At
  <2>2. PICK state \in RunnerRows :
          /\ state.pc = "idle" \/ (state.pc = "recording" /\ state.id = id)
          /\ runner' = [runner EXCEPT ![r] = state]
    <3>. DEFINE state == [runner[r] EXCEPT !.pc = "recording", !.snap = env[EnvOf(r)]]
    <3>1. env[EnvOf(r)] \in EnvRows
      BY <1>1, <1>2, <2>1 DEF EnvOf, Claimed
    <3>2. state \in RunnerRows /\ state.pc = "recording" /\ state.id = id
      BY <1>1, <3>1 DEF RunnerRows, RunnerStates
    <3>3. runner' = [runner EXCEPT ![r] = state] \/ runner' = [runner EXCEPT ![r] = IdleRunner]
      BY <1>14 DEF LoadEnv
    <3>4. IdleRunner \in RunnerRows /\ IdleRunner.pc = "idle"
      BY NullRows DEF IdleRunner
    <3>. HIDE DEF state
    <3>. QED BY <3>2, <3>3, <3>4
  <2>. QED BY <1>1, <1>2, <2>1, <2>2, RunnerKeepsTypes DEF Unused
<1>15. ASSUME Record(r) PROVE TypeInv'
  <2>1. ~At(r, "idle") /\ UNCHANGED <<job, client, planFile, resources, approved, applied>>
        /\ runner' = [runner EXCEPT ![r] = IdleRunner]
    BY <1>15 DEF Record, At
  <2>2. Recorded(r) \in EnvRows
    <3>. DEFINE row == [runner[r].snap EXCEPT !.lastJob = id, !.rev = @ + 1]
    <3>1. row \in EnvRows
      <4>1. runner[r].snap \in EnvRows
        BY <1>1 DEF RunnerRows
      <4>2. id \in Jobs
        BY <1>2, <2>1
      <4>3. runner[r].snap.rev + 1 \in Nat
        BY <4>1 DEF EnvRows
      <4>. QED BY <4>1, <4>2, <4>3 DEF EnvRows
    <3>2. job[id].workdir \in Jobs \union {NoJob}
      BY <1>2, <2>1 DEF JobRows
    <3>3. Recorded(r) =
            IF ~runner[r].ok THEN [row EXCEPT !.status = "failed"]
            ELSE IF job[id].type = "plan"
            THEN [row EXCEPT !.workdir = job[id].workdir, !.lastPlan = id,
                             !.status = "pending_approval", !.approval = "pending"]
            ELSE [row EXCEPT !.workdir = job[id].workdir,
                    !.status = IF job[id].op = "destroy" THEN "destroyed" ELSE "active"]
      BY DEF Recorded, Claimed
    <3>. HIDE DEF row
    <3>4. [row EXCEPT !.status = "failed"] \in EnvRows
      BY <3>1 DEF EnvRows, EnvStatuses
    <3>5. [row EXCEPT !.workdir = job[id].workdir, !.lastPlan = id,
                      !.status = "pending_approval", !.approval = "pending"] \in EnvRows
      BY <1>2, <2>1, <3>1, <3>2 DEF EnvRows, EnvStatuses, Approvals
    <3>6. [row EXCEPT !.workdir = job[id].workdir, !.status =
             IF job[id].op = "destroy" THEN "destroyed" ELSE "active"] \in EnvRows
      BY <3>1, <3>2 DEF EnvRows, EnvStatuses
    <3>. QED BY <3>3, <3>4, <3>5, <3>6
  <2>3. env' \in [Envs -> EnvRows]
    BY <1>1, <1>15, <2>2 DEF Record
  <2>4. IdleRunner \in RunnerRows /\ IdleRunner.pc = "idle"
    BY NullRows DEF IdleRunner
  <2>. QED BY <1>1, <1>2, <2>1, <2>3, <2>4, RunnerKeepsTypes DEF Unused
<1>. QED BY <1>4, <1>5, <1>6, <1>7, <1>8, <1>10, <1>11, <1>12, <1>13, <1>14, <1>15
         DEF Progress

LEMMA AbandonKeepsTypes ==
  ASSUME TypeInv, NEW r \in Runners, Abandon(r)
  PROVE  TypeInv'
<1>1. IdleRunner \in RunnerRows /\ IdleRunner.pc = "idle"
  BY NullRows DEF IdleRunner
<1>2. runner' \in [Runners -> RunnerRows]
  BY <1>1 DEF Abandon, TypeInv, TypeOK
<1>3. ASSUME NEW s \in Runners PROVE RunnerInv(s)'
  <2>1. CASE s = r
    BY <1>1, <2>1 DEF Abandon, RunnerInv, At, TypeInv, TypeOK
  <2>2. CASE s # r
    BY <2>2 DEF Abandon, TypeInv, TypeOK, RunnerInv, At, Unused, Claimed, WorkdirOf
  <2>. QED BY <2>1, <2>2
<1>4. \A c \in Clients : RequestInv(c)'
  BY DEF Abandon, TypeInv, RequestInv, Target, Snap
<1>5. \A j \in Jobs : JobInv(j)'
  BY DEF Abandon, TypeInv, JobInv, Unused
<1>. QED BY <1>2, <1>3, <1>4, <1>5 DEF Abandon, TypeInv, TypeOK

LEMMA InitTypes == Init => TypeInv
<1>. SUFFICES ASSUME Init PROVE TypeInv
  OBVIOUS
<1>1. TypeOK
  BY NullRows DEF Init, TypeOK
<1>2. \A c \in Clients : RequestInv(c)
  BY DEF Init, RequestInv, IdleClient
<1>3. \A r \in Runners : RunnerInv(r)
  BY DEF Init, RunnerInv, At, IdleRunner
<1>4. \A j \in Jobs : JobInv(j)
  BY DEF Init, JobInv, Unused, AbsentJob
<1>. QED BY <1>1, <1>2, <1>3, <1>4 DEF TypeInv

LEMMA StepKeepsTypes == TypeInv /\ [Next]_vars => TypeInv'
<1>. SUFFICES ASSUME TypeInv, [Next]_vars PROVE TypeInv'
  OBVIOUS
<1>1. CASE UNCHANGED vars
  BY <1>1 DEF vars, TypeInv, TypeOK, RequestInv, RunnerInv, JobInv, Target, Snap, At,
     Unused, Claimed, WorkdirOf
<1>2. CASE Next
  BY <1>2, ClientKeepsTypes, ProgressKeepsTypes, AbandonKeepsTypes DEF Next
<1>. QED BY <1>1, <1>2

\* The variables keep their types: in particular no interleaving of requests
\* takes an environment beyond the retry budget that handleEnvironmentRetry
\* checks on the row it has read, one database round trip before it writes.
THEOREM TypeCorrect == Spec => []TypeOK
<1>1. Init => TypeInv
  BY InitTypes
<1>2. TypeInv /\ [Next]_vars => TypeInv'
  BY StepKeepsTypes
<1>3. TypeInv => TypeOK
  BY DEF TypeInv
<1>. QED BY <1>1, <1>2, <1>3, PTL DEF Spec

\* The strengthening is invariant as well, for the proofs that build on it.
THEOREM TypesInvariant == Spec => []TypeInv
<1>. QED BY InitTypes, StepKeepsTypes, PTL DEF Spec
=============================================================================
