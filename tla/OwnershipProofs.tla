-------------------------- MODULE OwnershipProofs --------------------------
(***************************************************************************)
(* Who works for an environment.  There is no lock: an environment is      *)
(* owned by the job its row names as lastJob, as long as its status is     *)
(* busy.  OwnInv says that queued jobs and runners at work own their       *)
(* environment, and that a request whose snapshot still has the current    *)
(* revision has the current row in its hands, so that the checks it made   *)
(* on the snapshot hold for the row it replaces.                           *)
(***************************************************************************)
EXTENDS OrchestratorProofs

\* Job j owns environment e.
Owns(j, e) == env[e].lastJob = j /\ IsEnvironmentBusy(env[e].status)

QueuedInv(j) == job[j].status = "queued" => Owns(j, job[j].env)

WorkInv(r) ==
  ~At(r, "idle") =>
    /\ job[runner[r].id].status # "queued"
    /\ Owns(runner[r].id, EnvOf(r))
    /\ At(r, "recording") => runner[r].snap = env[EnvOf(r)]

DistinctWork ==
  \A r, s \in Runners :
    r # s /\ ~At(r, "idle") /\ ~At(s, "idle") => runner[r].id # runner[s].id

\* A row names a job of its own environment.
RowInv(e) ==
  /\ env[e].status = "absent" => env[e].rev = 0
  /\ env[e].status # "absent" => env[e].rev > 0
  /\ env[e].lastJob # NoJob => /\ ~Unused(env[e].lastJob)
                               /\ job[env[e].lastJob].env = e

\* What a request has read is of its target, and current unless the revision
\* has moved on.
SnapInv(c) ==
  client[c].pc \in {"loaded", "ready"} =>
    /\ Snap(c).rev > 0
    /\ Snap(c).rev <= env[Target(c)].rev
    /\ RevisionMatches(Target(c), Snap(c)) => Snap(c) = env[Target(c)]
    /\ Snap(c).lastJob # NoJob => /\ ~Unused(Snap(c).lastJob)
                                  /\ job[Snap(c).lastJob].env = Target(c)
    /\ client[c].pc = "ready" /\ Kind(c, "retry") => client[c].row.env = Target(c)

OwnInv ==
  /\ \A j \in Jobs : QueuedInv(j)
  /\ \A r \in Runners : WorkInv(r)
  /\ DistinctWork
  /\ \A e \in Envs : RowInv(e)
  /\ \A c \in Clients : SnapInv(c)

-----------------------------------------------------------------------------
(* The steps of a request *)

\* A request is admitted only for an environment that is not busy.
LEMMA AdmittedWhenFree ==
  ASSUME NEW c, NEW kind, NEW row, Admissible(c, kind, row)
  PROVE  ~IsEnvironmentBusy(row.status)
BY DEF Admissible, PlanAccess, CanApprovePlan, CanQueueApply, CanRetry,
   CanQueueDestroy, IsEnvironmentBusy

\* Writing one environment, and possibly inserting a job, keeps what the other
\* requests have read: their revision is then out of date.
LEMMA WriteKeepsSnaps ==
  ASSUME TypeInv, OwnInv, NEW c \in Clients, client[c].pc \in {"loaded", "ready"},
         NEW e \in Envs, NEW row \in EnvRows, row.rev = env[e].rev + 1,
         env' = [env EXCEPT ![e] = row],
         \A j \in Jobs : ~Unused(j) => job'[j].env = job[j].env
                                       /\ job'[j].status # "absent",
         client'[c] = client[c]
  PROVE  SnapInv(c)'
<1>1. SnapInv(c) /\ RequestInv(c)
  BY DEF OwnInv, TypeInv
<1>2. Target(c) \in Envs /\ Snap(c) \in EnvRows
  BY <1>1 DEF RequestInv, TypeInv, TypeOK, ClientStates, Snap
<1>3. Snap(c)' = Snap(c) /\ Target(c)' = Target(c)
  BY DEF Snap, Target
<1>4. Snap(c).lastJob \in Jobs \union {NoJob} /\ Snap(c).rev \in Nat
  BY <1>2 DEF EnvRows
<1>5. env[Target(c)].rev \in Nat
  BY <1>2 DEF TypeInv, TypeOK, EnvRows
<1>6. Snap(c).lastJob # NoJob =>
        job'[Snap(c).lastJob].status # "absent" /\ job'[Snap(c).lastJob].env = Target(c)
  <2>1. SUFFICES ASSUME Snap(c).lastJob # NoJob
                 PROVE  job'[Snap(c).lastJob].status # "absent"
                        /\ job'[Snap(c).lastJob].env = Target(c)
    OBVIOUS
  <2>2. Snap(c).lastJob \in Jobs /\ ~Unused(Snap(c).lastJob)
        /\ job[Snap(c).lastJob].env = Target(c)
    BY <1>1, <1>4, <2>1 DEF SnapInv
  <2>. QED BY <2>2
<1>7. CASE e = Target(c)
  <2>1. env'[Target(c)].rev = env[Target(c)].rev + 1
    BY <1>2, <1>7 DEF TypeInv, TypeOK
  <2>. QED BY <1>1, <1>3, <1>4, <1>5, <1>6, <2>1 DEF SnapInv, RevisionMatches, Kind, Unused
<1>8. CASE e # Target(c)
  <2>1. env'[Target(c)] = env[Target(c)]
    BY <1>2, <1>8 DEF TypeInv, TypeOK
  <2>. QED BY <1>1, <1>3, <1>6, <2>1 DEF SnapInv, RevisionMatches, Kind, Unused
<1>. QED BY <1>7, <1>8

\* A request that writes a free environment takes nobody's place.
LEMMA QueueKeepsOwners ==
  ASSUME TypeInv, OwnInv, NEW e \in Envs, NEW j \in Jobs,
         NEW row \in EnvRows, NEW newJob \in JobRows,
         ~IsEnvironmentBusy(env[e].status), Unused(j),
         env' = [env EXCEPT ![e] = row], job' = [job EXCEPT ![j] = newJob],
         UNCHANGED runner,
         row.rev = env[e].rev + 1, row.lastJob = j, IsEnvironmentBusy(row.status),
         newJob.env = e, newJob.status = "queued",
         \A c \in Clients : client'[c] = client[c] \/ client'[c].pc = "idle"
  PROVE  OwnInv'
<1>1. env'[e] = row /\ job'[j] = newJob
  BY DEF TypeInv, TypeOK
<1>2. /\ \A d \in Envs : d # e => env'[d] = env[d]
      /\ \A k \in Jobs : k # j => job'[k] = job[k]
  BY DEF TypeInv, TypeOK
<1>3. ASSUME NEW k \in Jobs, ~Unused(k)
      PROVE  k # j /\ job'[k] = job[k] /\ job[k].env \in Envs
  BY <1>2, <1>3 DEF TypeInv, JobInv
<1>4. ASSUME NEW k \in Jobs PROVE QueuedInv(k)'
  <2>1. CASE k = j
    BY <1>1, <2>1 DEF QueuedInv, Owns
  <2>2. CASE k # j
    <3>1. SUFFICES ASSUME job[k].status = "queued" PROVE Owns(k, job[k].env)'
      BY <1>2, <2>2 DEF QueuedInv
    <3>2. Owns(k, job[k].env) /\ job[k].env \in Envs
      BY <1>3, <3>1 DEF OwnInv, QueuedInv, Unused
    <3>. QED BY <1>2, <3>2, <2>2 DEF Owns
  <2>. QED BY <2>1, <2>2
<1>5. ASSUME NEW r \in Runners PROVE WorkInv(r)'
  <2>1. SUFFICES ASSUME ~At(r, "idle") PROVE WorkInv(r)'
    BY DEF WorkInv, At
  <2>2. runner[r].id \in Jobs /\ ~Unused(runner[r].id) /\ WorkInv(r)
    BY <2>1 DEF TypeInv, RunnerInv, OwnInv
  <2>3. job'[runner[r].id] = job[runner[r].id] /\ EnvOf(r) \in Envs
    BY <1>3, <2>2 DEF EnvOf, Claimed
  <2>4. EnvOf(r) # e
    BY <2>1, <2>2 DEF WorkInv, Owns
  <2>5. EnvOf(r)' = EnvOf(r) /\ env'[EnvOf(r)] = env[EnvOf(r)]
    BY <1>2, <2>3, <2>4 DEF EnvOf, Claimed
  <2>. QED BY <2>1, <2>2, <2>3, <2>5 DEF WorkInv, Owns, At
<1>6. DistinctWork'
  BY DEF OwnInv, DistinctWork, At
<1>7. ASSUME NEW d \in Envs PROVE RowInv(d)'
  <2>1. CASE d = e
    <3>1. row.status # "absent" /\ row.rev > 0
      BY DEF IsEnvironmentBusy, TypeInv, TypeOK, EnvRows
    <3>. QED BY <1>1, <2>1, <3>1 DEF RowInv, Unused
  <2>2. CASE d # e
    <3>1. RowInv(d) /\ env[d].lastJob \in Jobs \union {NoJob}
      BY DEF OwnInv, TypeInv, TypeOK, EnvRows
    <3>. QED BY <1>2, <1>3, <2>2, <3>1 DEF RowInv, Unused
  <2>. QED BY <2>1, <2>2
<1>8. ASSUME NEW c \in Clients PROVE SnapInv(c)'
  <2>1. CASE client'[c].pc = "idle"
    BY <2>1 DEF SnapInv
  <2>2. CASE client'[c] = client[c] /\ client[c].pc \in {"loaded", "ready"}
    <3>1. \A k \in Jobs : ~Unused(k) => job'[k].env = job[k].env
                                        /\ job'[k].status # "absent"
      BY <1>3 DEF Unused
    <3>. QED BY <2>2, <3>1, WriteKeepsSnaps
  <2>3. CASE client'[c] = client[c] /\ client[c].pc \notin {"loaded", "ready"}
    BY <2>3 DEF SnapInv
  <2>. QED BY <2>1, <2>2, <2>3
<1>. QED BY <1>4, <1>5, <1>6, <1>7, <1>8 DEF OwnInv

\* The transaction of plan, apply, retry and destroy.
LEMMA CommitKeepsOwners ==
  ASSUME TypeInv, OwnInv, NEW c \in Clients, NEW j \in Jobs, NEW row \in EnvRows,
         NEW newJob \in JobRows,
         client[c].pc \in {"loaded", "ready"},
         row.rev = Snap(c).rev, row.lastJob = j, IsEnvironmentBusy(row.status),
         newJob.env = Target(c), newJob.status = "queued",
         CommitWithJob(c, j, row, newJob)
  PROVE  OwnInv'
<1>1. SnapInv(c) /\ Target(c) \in Envs /\ Admissible(c, client[c].kind, Snap(c))
  BY DEF OwnInv, TypeInv, RequestInv
<1>2. Snap(c) = env[Target(c)]
  BY <1>1 DEF SnapInv, CommitWithJob
<1>3. ~IsEnvironmentBusy(env[Target(c)].status)
  BY <1>1, <1>2, AdmittedWhenFree
<1>. DEFINE new == [row EXCEPT !.rev = @ + 1]
<1>4. /\ new \in EnvRows /\ new.rev = env[Target(c)].rev + 1
      /\ new.lastJob = j /\ IsEnvironmentBusy(new.status)
  BY <1>2, NextRevisionRow DEF EnvRows
<1>5. /\ Unused(j) /\ env' = [env EXCEPT ![Target(c)] = new]
      /\ job' = [job EXCEPT ![j] = newJob] /\ UNCHANGED runner
  BY DEF CommitWithJob
<1>6. ASSUME NEW d \in Clients PROVE client'[d] = client[d] \/ client'[d].pc = "idle"
  BY DEF CommitWithJob, IdleClient, TypeInv, TypeOK
<1>. HIDE DEF new
<1>. QED BY <1>1, <1>3, <1>4, <1>5, <1>6, QueueKeepsOwners

LEMMA SubmitKeepsOwners ==
  ASSUME TypeInv, OwnInv, NEW c \in Clients, Submit(c)
  PROVE  OwnInv'
<1>1. client[c] \in ClientStates /\ Snap(c) \in EnvRows /\ client[c].row \in JobRows
  BY DEF TypeInv, TypeOK, ClientStates, Snap
<1>2. /\ client[c].pc \in {"loaded", "ready"} /\ Target(c) \in Envs
      /\ Admissible(c, client[c].kind, Snap(c)) /\ SnapInv(c)
  BY DEF Submit, Plan, Approve, Apply, Retry, Destroy, TypeInv, RequestInv, OwnInv
<1>3. /\ Reset(Snap(c)) \in EnvRows /\ Reset(Snap(c)).retry = Snap(c).retry
      /\ Reset(Snap(c)).rev = Snap(c).rev
  BY <1>1, ResetRow DEF Reset, EnvRows
<1>4. Snap(c).spec \in Specs \union {NoSpec} /\ Snap(c).op \in RequestOperations
  BY <1>1 DEF EnvRows
<1>5. ASSUME NEW j \in Jobs, NEW op \in RequestOperations, NEW spec \in Specs,
             Plan(c, j, op, spec)
      PROVE  OwnInv'
  <2>. DEFINE row == [Reset(Snap(c)) EXCEPT !.op = op, !.spec = spec,
                        !.status = "planning", !.lastPlan = j, !.lastJob = j]
              new == PlanJob(c, Target(c), op, spec)
  <2>1. row \in EnvRows /\ row.rev = Snap(c).rev /\ row.lastJob = j
        /\ row.status = "planning"
    BY <1>3 DEF EnvRows, EnvStatuses
  <2>2. new \in JobRows
    BY <1>1, <1>2, BuiltJobs
  <2>3. new.env = Target(c) /\ new.status = "queued"
    BY DEF PlanJob, AbsentJob
  <2>4. CommitWithJob(c, j, row, new)
    BY <1>5 DEF Plan
  <2>. HIDE DEF row, new
  <2>. QED BY <1>2, <2>1, <2>2, <2>3, <2>4, CommitKeepsOwners DEF IsEnvironmentBusy
<1>6. ASSUME NEW j \in Jobs, Apply(c, j) PROVE OwnInv'
  <2>. DEFINE row == [Snap(c) EXCEPT !.status = "applying", !.lastJob = j]
              new == ApplyJob(c, Target(c), Snap(c), client[c].row)
  <2>1. row \in EnvRows /\ row.rev = Snap(c).rev /\ row.lastJob = j
        /\ row.status = "applying"
    BY <1>1 DEF EnvRows, EnvStatuses
  <2>2. new \in JobRows
    BY <1>1, <1>2, <1>4, BuiltJobs
  <2>3. new.env = Target(c) /\ new.status = "queued"
    BY DEF ApplyJob
  <2>4. CommitWithJob(c, j, row, new)
    BY <1>6 DEF Apply
  <2>. HIDE DEF row, new
  <2>. QED BY <1>2, <2>1, <2>2, <2>3, <2>4, CommitKeepsOwners DEF IsEnvironmentBusy
<1>7. ASSUME NEW j \in Jobs, Retry(c, j) PROVE OwnInv'
  <2>. DEFINE status == IF client[c].row.type = "apply" THEN "applying" ELSE "planning"
              row == [Reset(Snap(c)) EXCEPT !.status = status, !.lastJob = j,
                                            !.retry = @ + 1]
              new == RetryJob(c, client[c].row)
  <2>1. Snap(c).retry + 1 \in 0..MaxRetries
    <3>1. Snap(c).retry < MaxRetries /\ Snap(c).retry \in Nat
      BY <1>1, <1>2, <1>7 DEF Retry, Admissible, Kind, EnvRows
    <3>. QED BY <3>1, RetriesAssumption
  <2>2. row \in EnvRows /\ row.rev = Snap(c).rev /\ row.lastJob = j
        /\ row.status = status
    BY <1>3, <2>1 DEF EnvRows, EnvStatuses
  <2>3. new \in JobRows
    BY <1>1, <1>2, <1>4, BuiltJobs
  <2>4. new.env = Target(c) /\ new.status = "queued"
    BY <1>1, <1>2, <1>7 DEF Retry, RetryJob, SnapInv, JobRows
  <2>5. CommitWithJob(c, j, row, new)
    BY <1>7 DEF Retry
  <2>6. IsEnvironmentBusy(row.status)
    BY <2>2 DEF IsEnvironmentBusy
  <2>. HIDE DEF row, new
  <2>. QED BY <1>2, <2>2, <2>3, <2>4, <2>5, <2>6, CommitKeepsOwners
<1>8. ASSUME NEW j \in Jobs, Destroy(c, j) PROVE OwnInv'
  <2>. DEFINE row == [Reset(Snap(c)) EXCEPT
                        !.op = "destroy", !.status = "planning",
                        !.workdir = Snap(c).workdir, !.lastPlan = j, !.lastJob = j]
              new == PlanJob(c, Target(c), "destroy", Snap(c).spec)
  <2>1. row \in EnvRows /\ row.rev = Snap(c).rev /\ row.lastJob = j
        /\ row.status = "planning"
    BY <1>1, <1>3 DEF EnvRows, EnvStatuses, RequestOperations, Operations
  <2>2. new \in JobRows
    BY <1>1, <1>2, <1>4, BuiltJobs DEF RequestOperations, Operations
  <2>3. new.env = Target(c) /\ new.status = "queued"
    BY DEF PlanJob, AbsentJob
  <2>4. CommitWithJob(c, j, row, new)
    BY <1>8 DEF Destroy
  <2>. HIDE DEF row, new
  <2>. QED BY <1>2, <2>1, <2>2, <2>3, <2>4, CommitKeepsOwners DEF IsEnvironmentBusy
<1>9. ASSUME Approve(c) PROVE OwnInv'
  <2>. DEFINE e == Target(c)
              row == [Snap(c) EXCEPT !.approval = "approved", !.status = "approved",
                                     !.rev = @ + 1]
  <2>1. Snap(c) = env[e] /\ ~IsEnvironmentBusy(env[e].status)
    BY <1>2, <1>9, AdmittedWhenFree DEF Approve, SnapInv
  <2>2. /\ row \in EnvRows /\ row.rev = env[e].rev + 1 /\ row.lastJob = env[e].lastJob
        /\ row.status = "approved" /\ row.rev > 0
    <3>1. row \in EnvRows
      BY <1>1, NextRevisionRow DEF EnvRows, EnvStatuses, Approvals
    <3>2. row.rev = Snap(c).rev + 1 /\ row.lastJob = Snap(c).lastJob
          /\ row.status = "approved" /\ Snap(c).rev \in Nat
      BY <1>1 DEF EnvRows
    <3>. HIDE DEF row
    <3>. QED BY <2>1, <3>1, <3>2
  <2>3. env' = [env EXCEPT ![e] = row] /\ UNCHANGED <<job, runner>>
    BY <1>9 DEF Approve
  <2>4. env'[e] = row /\ \A d \in Envs : d # e => env'[d] = env[d]
    BY <1>2, <2>3 DEF TypeInv, TypeOK
  <2>. HIDE DEF row
  <2>5. ASSUME NEW k \in Jobs PROVE QueuedInv(k)'
    BY <2>1, <2>3, <2>4 DEF OwnInv, QueuedInv, Owns, TypeInv, JobInv, Unused
  <2>6. ASSUME NEW r \in Runners PROVE WorkInv(r)'
    BY <2>1, <2>3, <2>4 DEF OwnInv, WorkInv, Owns, At, EnvOf, Claimed, TypeInv,
       RunnerInv, JobInv
  <2>7. DistinctWork'
    BY <2>3 DEF OwnInv, DistinctWork, At
  <2>8. ASSUME NEW d \in Envs PROVE RowInv(d)'
    BY <2>2, <2>3, <2>4 DEF OwnInv, RowInv, Unused
  <2>9. ASSUME NEW d \in Clients PROVE SnapInv(d)'
    <3>1. client'[d] = client[d] \/ client'[d].pc = "idle"
      BY <1>9 DEF Approve, IdleClient, TypeInv, TypeOK
    <3>2. CASE client'[d] = client[d] /\ client[d].pc \in {"loaded", "ready"}
      BY <1>2, <2>2, <2>3, <3>2, WriteKeepsSnaps DEF Unused
    <3>. QED BY <3>1, <3>2 DEF SnapInv
  <2>. QED BY <2>5, <2>6, <2>7, <2>8, <2>9 DEF OwnInv
<1>. QED BY <1>5, <1>6, <1>7, <1>8, <1>9 DEF Submit

\* A request that only reads.
LEMMA ReadKeepsOwners ==
  ASSUME TypeInv, OwnInv, NEW c \in Clients, NEW state \in ClientStates,
         client' = [client EXCEPT ![c] = state],
         UNCHANGED <<env, job, runner, planFile, resources, approved, applied>>,
         SnapInv(c)'
  PROVE  OwnInv'
<1>1. ASSUME NEW d \in Clients PROVE SnapInv(d)'
  <2>1. CASE d = c
    BY <2>1
  <2>2. CASE d # c
    <3>1. client'[d] = client[d]
      BY <2>2 DEF TypeInv, TypeOK
    <3>. QED BY <3>1 DEF OwnInv, SnapInv, Snap, Target, RevisionMatches, Unused, Kind
  <2>. QED BY <2>1, <2>2
<1>2. \A j \in Jobs : QueuedInv(j)'
  BY DEF OwnInv, QueuedInv, Owns
<1>3. \A r \in Runners : WorkInv(r)'
  BY DEF OwnInv, WorkInv, Owns, At, EnvOf, Claimed
<1>4. DistinctWork'
  BY DEF OwnInv, DistinctWork, At
<1>5. \A e \in Envs : RowInv(e)'
  BY DEF OwnInv, RowInv, Unused
<1>. QED BY <1>1, <1>2, <1>3, <1>4, <1>5 DEF OwnInv

LEMMA ClientKeepsOwners ==
  ASSUME TypeInv, OwnInv, NEW c \in Clients, ClientStep(c)
  PROVE  OwnInv'
<1>1. client[c] \in ClientStates
  BY DEF TypeInv, TypeOK
<1>2. ASSUME NEW state \in ClientStates, state.pc \notin {"loaded", "ready"},
             client' = [client EXCEPT ![c] = state],
             UNCHANGED <<env, job, runner, planFile, resources, approved, applied>>
      PROVE  OwnInv'
  <2>1. client'[c] = state
    BY <1>2 DEF TypeInv, TypeOK
  <2>2. SnapInv(c)'
    BY <1>2, <2>1 DEF SnapInv
  <2>. QED BY <1>2, <2>2, ReadKeepsOwners
<1>3. ASSUME NEW e \in Envs, View(c, e) PROVE OwnInv'
  <2>. DEFINE state == [IdleClient EXCEPT !.pc = "viewed", !.env = e,
                          !.seen = env[e].rev, !.seenPlan = env[e].lastPlan]
  <2>1. env[e] \in EnvRows
    BY DEF TypeInv, TypeOK
  <2>2. state \in ClientStates /\ state.pc = "viewed"
    BY <2>1, NullRows DEF ClientStates, RequestStates, EnvRows, IdleClient
  <2>3. client' = [client EXCEPT ![c] = state]
    BY <1>3 DEF View
  <2>. HIDE DEF state
  <2>. QED BY <1>2, <1>3, <2>2, <2>3 DEF View
<1>4. ASSUME NEW e \in Envs, NEW spec \in Specs, CreateEnvironment(c, e, spec)
      PROVE  OwnInv'
  <2>1. PICK j \in Jobs :
          /\ Unused(j)
          /\ job' = [job EXCEPT ![j] = PlanJob(c, e, "create", spec)]
          /\ env' = [env EXCEPT ![e] = [AbsentEnv EXCEPT
                       !.status = "planning", !.spec = spec, !.lastPlan = j,
                       !.lastJob = j, !.rev = 1]]
    BY <1>4 DEF CreateEnvironment
  <2>. DEFINE row == [AbsentEnv EXCEPT !.status = "planning", !.spec = spec,
                        !.lastPlan = j, !.lastJob = j, !.rev = 1]
              new == PlanJob(c, e, "create", spec)
  <2>2. row \in EnvRows /\ row.status = "planning" /\ row.lastJob = j /\ row.rev = 1
    BY NullRows DEF EnvRows, EnvStatuses, AbsentEnv
  <2>3. new \in JobRows
    BY NullRows, BuiltJobs DEF RequestOperations, Operations
  <2>4. new.env = e /\ new.status = "queued"
    BY DEF PlanJob, AbsentJob
  <2>5. env[e].status = "absent" /\ env[e].rev = 0
    BY <1>4 DEF CreateEnvironment, OwnInv, RowInv
  <2>6. UNCHANGED <<runner, client>>
    BY <1>4 DEF CreateEnvironment
  <2>7. ~IsEnvironmentBusy(env[e].status) /\ IsEnvironmentBusy(row.status)
        /\ row.rev = env[e].rev + 1
    BY <2>2, <2>5 DEF IsEnvironmentBusy
  <2>. HIDE DEF row, new
  <2>. QED BY <2>1, <2>2, <2>3, <2>4, <2>6, <2>7, QueueKeepsOwners DEF row, new
<1>5. ASSUME NEW e \in Envs, NEW kind \in RequestKinds, Load(c, e, kind)
      PROVE  OwnInv'
  <2>. DEFINE state == [client[c] EXCEPT !.pc = "loaded", !.kind = kind, !.env = e,
                                         !.snap = env[e]]
  <2>1. env[e] \in EnvRows /\ RowInv(e)
    BY DEF TypeInv, TypeOK, OwnInv
  <2>2. state \in ClientStates
    BY <1>1, <2>1 DEF ClientStates, RequestStates
  <2>3. state.pc = "loaded" /\ state.env = e /\ state.snap = env[e]
    BY <1>1 DEF ClientStates
  <2>4. client' = [client EXCEPT ![c] = state]
        /\ UNCHANGED <<env, job, runner, planFile, resources, approved, applied>>
    BY <1>5 DEF Load, TypeInv, TypeOK
  <2>5. client'[c] = state
    BY <2>4 DEF TypeInv, TypeOK
  <2>. HIDE DEF state
  <2>6. env[e].rev \in Nat /\ env[e].rev > 0
    BY <1>5, <2>1 DEF Load, EnvRows, RowInv
  <2>7. SnapInv(c)'
    BY <2>1, <2>3, <2>4, <2>5, <2>6
       DEF SnapInv, Snap, Target, RevisionMatches, RowInv, Unused
  <2>. QED BY <2>2, <2>4, <2>7, ReadKeepsOwners
<1>6. ASSUME LoadJob(c) PROVE OwnInv'
  <2>. DEFINE id == IF Kind(c, "retry") THEN Snap(c).lastJob ELSE Snap(c).lastPlan
  <2>1. CASE id \in Jobs /\ JobAdmissible(c, job[id])
    <3>. DEFINE state == [client[c] EXCEPT !.pc = "ready", !.row = job[id]]
    <3>1. client' = [client EXCEPT ![c] = state]
          /\ UNCHANGED <<env, job, runner, planFile, resources, approved, applied>>
      BY <1>6, <2>1 DEF LoadJob
    <3>2. job[id] \in JobRows
      BY <2>1 DEF TypeInv, TypeOK
    <3>3. state \in ClientStates
      BY <1>1, <3>2 DEF ClientStates, RequestStates
    <3>4. state.pc = "ready" /\ state.env = Target(c) /\ state.row = job[id]
          /\ state.kind = client[c].kind /\ state.snap = Snap(c)
      BY <1>1 DEF ClientStates, Target, Snap
    <3>5. client'[c] = state
      BY <3>1 DEF TypeInv, TypeOK
    <3>6. SnapInv(c)
      BY DEF OwnInv
    <3>7. client[c].pc = "loaded"
      BY <1>6 DEF LoadJob
    <3>8. Kind(c, "retry") => job[id].env = Target(c)
      BY <2>1, <3>6, <3>7, NoneAssumption DEF SnapInv
    <3>. HIDE DEF state, id
    <3>9. SnapInv(c)'
      BY <3>1, <3>4, <3>5, <3>6, <3>7, <3>8
         DEF SnapInv, Snap, Target, RevisionMatches, Unused, Kind
    <3>. QED BY <3>1, <3>3, <3>9, ReadKeepsOwners
  <2>2. CASE ~(id \in Jobs /\ JobAdmissible(c, job[id]))
    <3>1. client' = [client EXCEPT ![c] = IdleClient]
      BY <1>6, <2>2 DEF LoadJob
    <3>. QED BY <1>2, <1>6, <3>1, NullRows DEF LoadJob, IdleClient
  <2>. QED BY <2>1, <2>2
<1>7. ASSUME Abort(c) PROVE OwnInv'
  BY <1>2, <1>7, NullRows DEF Abort, IdleClient
<1>. QED BY <1>3, <1>4, <1>5, <1>6, <1>7, SubmitKeepsOwners DEF ClientStep

-----------------------------------------------------------------------------
(* The steps of a runner *)

\* A runner that works on its own job, or gives it up, disturbs nobody.
LEMMA WorkKeepsOwners ==
  ASSUME TypeInv, OwnInv, NEW r \in Runners, ~At(r, "idle"),
         NEW row \in JobRows, NEW state \in RunnerRows,
         job' = [job EXCEPT ![runner[r].id] = row],
         row.env = EnvOf(r), row.status \notin {"queued", "absent"},
         runner' = [runner EXCEPT ![r] = state],
         state.pc # "idle" => state.id = runner[r].id,
         state.pc = "recording" => state.snap = env[EnvOf(r)],
         UNCHANGED <<env, client>>
  PROVE  OwnInv'
<1>. DEFINE id == runner[r].id
<1>1. id \in Jobs /\ ~Unused(id) /\ WorkInv(r)
  BY DEF TypeInv, RunnerInv, OwnInv
<1>2. job'[id] = row /\ \A k \in Jobs : k # id => job'[k] = job[k]
  BY <1>1 DEF TypeInv, TypeOK
<1>3. \A k \in Jobs : job'[k].env = job[k].env /\ (~Unused(k) => job'[k].status # "absent")
  BY <1>2 DEF EnvOf, Claimed, Unused
<1>4. runner'[r] = state /\ \A s \in Runners : s # r => runner'[s] = runner[s]
  BY DEF TypeInv, TypeOK
<1>5. ASSUME NEW k \in Jobs PROVE QueuedInv(k)'
  BY <1>2, <1>3 DEF OwnInv, QueuedInv, Owns
<1>6. ASSUME NEW s \in Runners PROVE WorkInv(s)'
  <2>1. CASE s = r
    BY <1>1, <1>2, <1>4, <2>1 DEF WorkInv, Owns, At, EnvOf, Claimed
  <2>2. CASE s # r
    <3>1. SUFFICES ASSUME ~At(s, "idle") PROVE WorkInv(s)'
      BY <1>4, <2>2 DEF WorkInv, At
    <3>2. /\ runner[s].id \in Jobs /\ runner[s].id # id /\ WorkInv(s)
          /\ runner'[s] = runner[s]
      BY <1>4, <2>2, <3>1 DEF TypeInv, RunnerInv, OwnInv, DistinctWork
    <3>. QED BY <1>2, <3>1, <3>2 DEF WorkInv, Owns, At, EnvOf, Claimed
  <2>. QED BY <2>1, <2>2
<1>7. DistinctWork'
  BY <1>4 DEF OwnInv, DistinctWork, At
<1>8. ASSUME NEW e \in Envs PROVE RowInv(e)'
  BY <1>3 DEF OwnInv, RowInv, Unused, TypeInv, TypeOK, EnvRows
<1>9. ASSUME NEW c \in Clients PROVE SnapInv(c)'
  <2>1. SUFFICES ASSUME client[c].pc \in {"loaded", "ready"} PROVE SnapInv(c)'
    BY DEF SnapInv
  <2>2. SnapInv(c) /\ Snap(c).lastJob \in Jobs \union {NoJob}
    BY DEF OwnInv, TypeInv, TypeOK, ClientStates, EnvRows, Snap
  <2>3. Snap(c)' = Snap(c) /\ Target(c)' = Target(c)
    BY DEF Snap, Target
  <2>. QED BY <1>3, <2>1, <2>2, <2>3 DEF SnapInv, RevisionMatches, Unused, Kind
<1>. QED BY <1>5, <1>6, <1>7, <1>8, <1>9 DEF OwnInv

LEMMA ProgressKeepsOwners ==
  ASSUME TypeInv, OwnInv, NEW r \in Runners, Progress(r)
  PROVE  OwnInv'
<1>. DEFINE id == runner[r].id
<1>1. runner[r] \in RunnerRows
  BY DEF TypeInv, TypeOK
<1>2. ~At(r, "idle") => /\ id \in Jobs /\ ~Unused(id) /\ job[id] \in JobRows
                        /\ job[id].env = EnvOf(r) /\ EnvOf(r) \in Envs
                        /\ job[id].status \notin {"queued", "absent"}
                        /\ job = [job EXCEPT ![id] = job[id]]
                        /\ WorkInv(r)
  BY DEF TypeInv, TypeOK, RunnerInv, JobInv, OwnInv, WorkInv, EnvOf, Claimed, Unused
\* Steps that change the workdir, the plan or the status of the job.
<1>3. ASSUME ~At(r, "idle"), NEW row \in JobRows, job' = [job EXCEPT ![id] = row],
             row.env = job[id].env, row.status \notin {"queued", "absent"},
             NEW state \in RunnerRows, runner' = [runner EXCEPT ![r] = state],
             state.pc # "idle" => state.id = id,
             state.pc = "recording" => state.snap = env[EnvOf(r)],
             UNCHANGED <<env, client>>
      PROVE  OwnInv'
  BY <1>2, <1>3, WorkKeepsOwners
<1>4. ASSUME NEW pc \in RunnerStates \ {"idle", "recording"}, Goto(r, pc)
      PROVE  /\ [runner[r] EXCEPT !.pc = pc] \in RunnerRows
             /\ runner' = [runner EXCEPT ![r] = [runner[r] EXCEPT !.pc = pc]]
             /\ [runner[r] EXCEPT !.pc = pc].id = id
             /\ [runner[r] EXCEPT !.pc = pc].pc = pc
  BY <1>1, <1>4 DEF RunnerRows, Goto, TypeInv, TypeOK
<1>5. ASSUME ~At(r, "idle"), NEW row \in JobRows, job' = [job EXCEPT ![id] = row],
             row.env = job[id].env, row.status \notin {"queued", "absent"},
             NEW pc \in RunnerStates \ {"idle", "recording"}, Goto(r, pc),
             UNCHANGED <<env, client>>
      PROVE  OwnInv'
  <2>. DEFINE state == [runner[r] EXCEPT !.pc = pc]
  <2>1. /\ state \in RunnerRows /\ runner' = [runner EXCEPT ![r] = state]
        /\ state.id = id /\ state.pc = pc
    BY <1>4, <1>5
  <2>. HIDE DEF state
  <2>. QED BY <1>3, <1>5, <2>1
<1>6. ASSUME ~At(r, "idle"), UNCHANGED <<env, job, client>>,
             NEW pc \in RunnerStates \ {"idle", "recording"}, Goto(r, pc)
      PROVE  OwnInv'
  BY <1>2, <1>5, <1>6
<1>7. ASSUME Claim(r) PROVE OwnInv'
  <2>1. PICK j \in Jobs :
          /\ job[j].status = "queued"
          /\ job' = [job EXCEPT ![j].status = "running"]
          /\ runner' = [runner EXCEPT ![r] = [IdleRunner EXCEPT !.pc = "claimed", !.id = j]]
    BY <1>7 DEF Claim
  <2>2. /\ job'[j].status = "running" /\ job'[j].env = job[j].env
        /\ \A k \in Jobs : k # j => job'[k] = job[k]
    BY <2>1 DEF TypeInv, TypeOK, JobRows
  <2>3. /\ runner'[r].pc = "claimed" /\ runner'[r].id = j
        /\ \A s \in Runners : s # r => runner'[s] = runner[s]
    BY <2>1 DEF TypeInv, TypeOK, IdleRunner
  <2>4. UNCHANGED <<env, client>>
    BY <1>7 DEF Claim
  <2>5. Owns(j, job[j].env)
    BY <2>1 DEF OwnInv, QueuedInv
  <2>6. \A k \in Jobs : QueuedInv(k)'
    BY <2>2, <2>4 DEF OwnInv, QueuedInv, Owns
  <2>7. ASSUME NEW s \in Runners, s # r, ~At(s, "idle")
        PROVE  runner[s].id \in Jobs /\ runner[s].id # j /\ WorkInv(s)
    BY <2>1, <2>7 DEF OwnInv, WorkInv, TypeInv, RunnerInv
  <2>8. ASSUME NEW s \in Runners PROVE WorkInv(s)'
    <3>1. CASE s = r
      BY <2>2, <2>3, <2>4, <2>5, <3>1 DEF WorkInv, Owns, At, EnvOf, Claimed
    <3>2. CASE s # r
      BY <2>2, <2>3, <2>4, <2>7, <3>2 DEF WorkInv, Owns, At, EnvOf, Claimed
    <3>. QED BY <3>1, <3>2
  <2>9. DistinctWork'
    BY <2>3, <2>7 DEF OwnInv, DistinctWork, At
  <2>10. ASSUME NEW e \in Envs PROVE RowInv(e)'
    BY <2>2, <2>4 DEF OwnInv, RowInv, Unused, TypeInv, TypeOK, EnvRows
  <2>11. ASSUME NEW c \in Clients PROVE SnapInv(c)'
    <3>1. SnapInv(c) /\ Snap(c).lastJob \in Jobs \union {NoJob}
      BY DEF OwnInv, TypeInv, TypeOK, ClientStates, EnvRows, Snap
    <3>2. Snap(c)' = Snap(c) /\ Target(c)' = Target(c)
      BY <2>4 DEF Snap, Target
    <3>. QED BY <2>2, <2>4, <3>1, <3>2 DEF SnapInv, RevisionMatches, Unused, Kind
  <2>. QED BY <2>6, <2>8, <2>9, <2>10, <2>11 DEF OwnInv
<1>8. ASSUME PrepareApply(r) \/ PreparePlan(r) \/ PrepareDestroyPlan(r) PROVE OwnInv'
  <2>1. ~At(r, "idle") /\ Goto(r, "prepared") /\ UNCHANGED <<env, client>>
    BY <1>8 DEF PrepareApply, PreparePlan, PrepareDestroyPlan, At
  <2>2. PICK w : \/ job' = [job EXCEPT ![id].workdir = w, ![id].logDir = LogDirOf(r),
                                       ![id].planned = TRUE]
                 \/ job' = [job EXCEPT ![id].workdir = w, ![id].logDir = LogDirOf(r)]
    BY <1>8 DEF PrepareApply, PreparePlan, PrepareDestroyPlan
  <2>3. TypeInv'
    BY <1>8, ProgressKeepsTypes DEF Progress
  <2>4. /\ job'[id] \in JobRows /\ job'[id].env = job[id].env
        /\ job'[id].status = job[id].status /\ job' = [job EXCEPT ![id] = job'[id]]
    <3>1. job'[id] \in JobRows
      BY <1>2, <2>1, <2>3 DEF TypeInv, TypeOK
    <3>2. job'[id].env = job[id].env /\ job'[id].status = job[id].status
      BY <1>2, <2>1, <2>2 DEF JobRows, TypeInv, TypeOK
    <3>3. job' = [job EXCEPT ![id] = job'[id]]
      BY <1>2, <2>1, <2>2 DEF TypeInv, TypeOK
    <3>. QED BY <3>1, <3>2, <3>3
  <2>. QED BY <1>2, <1>5, <2>1, <2>4 DEF RunnerStates
<1>9. ASSUME InitValidate(r) PROVE OwnInv'
  <2>. DEFINE row == [job[id] EXCEPT !.planned = TRUE]
  <2>1. ~At(r, "idle") /\ Goto(r, "planning") /\ UNCHANGED <<env, client>>
    BY <1>9 DEF InitValidate, At
  <2>2. /\ row \in JobRows /\ row.env = job[id].env /\ row.status = job[id].status
        /\ job' = [job EXCEPT ![id] = row]
    BY <1>2, <1>9, <2>1 DEF InitValidate, JobRows, TypeInv, TypeOK
  <2>. HIDE DEF row
  <2>. QED BY <1>2, <1>5, <2>1, <2>2 DEF RunnerStates
<1>10. ASSUME TofuPlan(r) PROVE OwnInv'
  BY <1>6, <1>10 DEF TofuPlan, At, RunnerStates
<1>11. ASSUME NEW ok \in BOOLEAN, TofuApply(r, ok) PROVE OwnInv'
  BY <1>6, <1>11 DEF TofuApply, At, RunnerStates
<1>12. ASSUME StepFails(r) PROVE OwnInv'
  BY <1>6, <1>12 DEF StepFails, At, RunnerStates
<1>13. ASSUME FinishJob(r) PROVE OwnInv'
  <2>1. ~At(r, "idle") /\ UNCHANGED <<env, client>>
    BY <1>13 DEF FinishJob, At
  <2>2. /\ runner'[r] \in RunnerRows /\ runner' = [runner EXCEPT ![r] = runner'[r]]
        /\ runner'[r].id = id /\ runner'[r].pc = "finished"
    <3>1. TypeInv'
      BY <1>13, ProgressKeepsTypes DEF Progress
    <3>2. \/ Goto(r, "finished")
          \/ runner' = [runner EXCEPT ![r].pc = "finished", ![r].ok = TRUE]
      BY <1>13 DEF FinishJob
    <3>3. runner'[r].id = id /\ runner'[r].pc = "finished"
      BY <1>1, <3>2 DEF Goto, RunnerRows, TypeInv, TypeOK
    <3>4. runner' = [runner EXCEPT ![r] = runner'[r]]
      BY <3>2 DEF Goto, TypeInv, TypeOK
    <3>. QED BY <3>1, <3>3, <3>4 DEF TypeInv, TypeOK
  <2>3. PICK status \in JobStatuses \ {"queued", "absent"} :
          job' = [job EXCEPT ![id] = [job[id] EXCEPT !.status = status]]
    <3>1. job = [job EXCEPT ![id] = [job[id] EXCEPT !.status = job[id].status]]
      BY <1>2, <2>1 DEF JobRows, TypeInv, TypeOK
    <3>2. job[id].status \in JobStatuses
      BY <1>2, <2>1 DEF JobRows
    <3>. QED BY <1>2, <1>13, <2>1, <3>1, <3>2 DEF FinishJob, JobStatuses
  <2>. DEFINE row == [job[id] EXCEPT !.status = status]
  <2>4. row \in JobRows /\ row.env = job[id].env /\ row.status = status
    BY <1>2, <2>1 DEF JobRows
  <2>5. job' = [job EXCEPT ![id] = row]
    BY <2>3
  <2>. HIDE DEF row
  <2>. QED BY <1>3, <2>1, <2>2, <2>4, <2>5
<1>14. ASSUME LoadEnv(r) PROVE OwnInv'
  <2>1. ~At(r, "idle") /\ UNCHANGED <<env, job, client>>
    BY <1>14 DEF LoadEnv, At
  <2>. DEFINE state == [runner[r] EXCEPT !.pc = "recording", !.snap = env[EnvOf(r)]]
  <2>2. env[EnvOf(r)] \in EnvRows
    BY <1>2, <2>1 DEF TypeInv, TypeOK
  <2>3. /\ state \in RunnerRows /\ state.pc = "recording" /\ state.id = id
        /\ state.snap = env[EnvOf(r)]
    BY <1>1, <2>2 DEF RunnerRows, RunnerStates
  <2>4. runner' = [runner EXCEPT ![r] = state]
    BY <1>2, <1>14, <2>1 DEF LoadEnv, WorkInv, Owns
  <2>. HIDE DEF state
  <2>. QED BY <1>2, <1>3, <2>1, <2>3, <2>4
<1>15. ASSUME Record(r) PROVE OwnInv'
  <2>. DEFINE e == EnvOf(r)
              row == Recorded(r)
  <2>1. /\ ~At(r, "idle") /\ UNCHANGED <<job, client>>
        /\ runner' = [runner EXCEPT ![r] = IdleRunner]
    BY <1>15 DEF Record, At
  <2>2. Owns(id, e) /\ runner[r].snap = env[e] /\ e \in Envs
    BY <1>2, <1>15, <2>1 DEF Record, WorkInv
  <2>3. env' = [env EXCEPT ![e] = row]
    BY <1>15, <2>2 DEF Record, RevisionMatches
  <2>4. env'[e] = row /\ \A d \in Envs : d # e => env'[d] = env[d]
    BY <2>2, <2>3 DEF TypeInv, TypeOK
  <2>5. TypeInv'
    BY <1>15, ProgressKeepsTypes DEF Progress
  <2>6. row \in EnvRows
    BY <2>2, <2>4, <2>5 DEF TypeInv, TypeOK
  <2>7. env[e] \in EnvRows
    BY <2>2 DEF TypeInv, TypeOK
  <2>8. row.rev = env[e].rev + 1 /\ row.lastJob = id /\ row.status # "absent"
    <3>. DEFINE new == [env[e] EXCEPT !.lastJob = id, !.rev = @ + 1]
    <3>1. /\ new.rev = env[e].rev + 1 /\ new.lastJob = id
          /\ DOMAIN new = DOMAIN env[e]
      BY <2>7 DEF EnvRows
    <3>2. "status" \in DOMAIN new
      BY <2>7, <3>1 DEF EnvRows
    <3>3. row = IF ~runner[r].ok THEN [new EXCEPT !.status = "failed"]
                ELSE IF Claimed(r).type = "plan"
                THEN [new EXCEPT !.workdir = Claimed(r).workdir, !.lastPlan = id,
                        !.status = "pending_approval", !.approval = "pending"]
                ELSE [new EXCEPT !.workdir = Claimed(r).workdir, !.status =
                        IF Claimed(r).op = "destroy" THEN "destroyed" ELSE "active"]
      BY <2>2 DEF Recorded
    <3>. HIDE DEF new
    <3>. QED BY <3>1, <3>2, <3>3
  <2>9. /\ runner'[r].pc = "idle"
        /\ \A s \in Runners : s # r => runner'[s] = runner[s]
    BY <2>1 DEF TypeInv, TypeOK, IdleRunner
  <2>. HIDE DEF row
  <2>10. ASSUME NEW k \in Jobs PROVE QueuedInv(k)'
    <3>1. SUFFICES ASSUME job[k].status = "queued" PROVE Owns(k, job[k].env)'
      BY <2>1 DEF QueuedInv
    <3>2. Owns(k, job[k].env) /\ k # id /\ job[k].env \in Envs
      BY <1>2, <2>1, <3>1 DEF OwnInv, QueuedInv, TypeInv, JobInv, Unused
    <3>3. job[k].env # e
      BY <2>2, <3>2 DEF Owns
    <3>. QED BY <2>1, <2>4, <3>2, <3>3 DEF Owns
  <2>11. ASSUME NEW s \in Runners PROVE WorkInv(s)'
    <3>1. CASE s = r
      BY <2>9, <3>1 DEF WorkInv, At
    <3>2. CASE s # r
      <4>1. SUFFICES ASSUME ~At(s, "idle") PROVE WorkInv(s)'
        BY <2>9, <3>2 DEF WorkInv, At
      <4>2. WorkInv(s) /\ runner[s].id # id /\ EnvOf(s) \in Envs
        BY <2>1, <3>2, <4>1 DEF OwnInv, DistinctWork, TypeInv, RunnerInv, JobInv, EnvOf,
           Claimed
      <4>3. EnvOf(s) # e
        BY <2>2, <4>1, <4>2 DEF WorkInv, Owns
      <4>. QED BY <2>1, <2>4, <2>9, <3>2, <4>1, <4>2, <4>3
               DEF WorkInv, Owns, At, EnvOf, Claimed
    <3>. QED BY <3>1, <3>2
  <2>12. DistinctWork'
    BY <2>9 DEF OwnInv, DistinctWork, At
  <2>13. ASSUME NEW d \in Envs PROVE RowInv(d)'
    <3>1. CASE d = e
      <4>1. row.rev > 0
        BY <2>7, <2>8 DEF EnvRows
      <4>. QED BY <1>2, <2>1, <2>4, <2>8, <3>1, <4>1 DEF RowInv, Unused
    <3>2. CASE d # e
      BY <2>1, <2>4, <3>2 DEF OwnInv, RowInv, Unused
    <3>. QED BY <3>1, <3>2
  <2>14. ASSUME NEW c \in Clients PROVE SnapInv(c)'
    <3>1. CASE client[c].pc \in {"loaded", "ready"}
      BY <2>1, <2>2, <2>3, <2>6, <2>8, <3>1, WriteKeepsSnaps DEF Unused
    <3>2. CASE client[c].pc \notin {"loaded", "ready"}
      BY <2>1, <3>2 DEF SnapInv
    <3>. QED BY <3>1, <3>2
  <2>. QED BY <2>10, <2>11, <2>12, <2>13, <2>14 DEF OwnInv
<1>. QED BY <1>7, <1>8, <1>9, <1>10, <1>11, <1>12, <1>13, <1>14, <1>15 DEF Progress

LEMMA AbandonKeepsOwners ==
  ASSUME TypeInv, OwnInv, NEW r \in Runners, Abandon(r)
  PROVE  OwnInv'
<1>1. /\ runner[r].id \in Jobs /\ job[runner[r].id] \in JobRows
      /\ job = [job EXCEPT ![runner[r].id] = job[runner[r].id]]
      /\ job[runner[r].id].status \notin {"queued", "absent"}
  BY DEF Abandon, TypeInv, TypeOK, RunnerInv, OwnInv, WorkInv, Unused
<1>2. IdleRunner \in RunnerRows /\ IdleRunner.pc = "idle"
  BY NullRows DEF IdleRunner
<1>. QED BY <1>1, <1>2, WorkKeepsOwners DEF Abandon, EnvOf, Claimed

-----------------------------------------------------------------------------
(* The theorems *)

LEMMA InitOwners == Init => OwnInv
<1>. SUFFICES ASSUME Init PROVE OwnInv
  OBVIOUS
<1>1. \A j \in Jobs : QueuedInv(j)
  BY DEF Init, QueuedInv, AbsentJob
<1>2. (\A r \in Runners : WorkInv(r)) /\ DistinctWork
  BY DEF Init, WorkInv, DistinctWork, At, IdleRunner
<1>3. \A e \in Envs : RowInv(e)
  BY DEF Init, RowInv, AbsentEnv
<1>4. \A c \in Clients : SnapInv(c)
  BY DEF Init, SnapInv, IdleClient
<1>. QED BY <1>1, <1>2, <1>3, <1>4 DEF OwnInv

LEMMA StepKeepsOwners == TypeInv /\ OwnInv /\ [Next]_vars => OwnInv'
<1>. SUFFICES ASSUME TypeInv, OwnInv, [Next]_vars PROVE OwnInv'
  OBVIOUS
<1>1. CASE UNCHANGED vars
  BY <1>1 DEF vars, OwnInv, QueuedInv, WorkInv, DistinctWork, RowInv, SnapInv, Owns,
     Target, Snap, At, Unused, Claimed, EnvOf, RevisionMatches, Kind
<1>2. CASE Next
  BY <1>2, ClientKeepsOwners, ProgressKeepsOwners, AbandonKeepsOwners DEF Next
<1>. QED BY <1>1, <1>2

THEOREM OwnershipInvariant == Spec => [](TypeInv /\ OwnInv)
<1>. QED BY InitTypes, StepKeepsTypes, InitOwners, StepKeepsOwners, PTL DEF Spec

\* No two runners work for the same environment, however many there are, and
\* whatever requests and crashes interleave: tofu never runs twice in one
\* workdir (handlers of environments.go, ClaimNextQueuedJob, main.go).
THEOREM SingleRunner == Spec => []OneRunnerPerEnvironment
<1>1. TypeInv /\ OwnInv => OneRunnerPerEnvironment
  <2>. SUFFICES ASSUME OwnInv, NEW r \in Runners, NEW s \in Runners, r # s,
                       ~At(r, "idle"), ~At(s, "idle"), EnvOf(r) = EnvOf(s)
                PROVE  FALSE
    BY DEF OneRunnerPerEnvironment
  <2>1. Owns(runner[r].id, EnvOf(r)) /\ Owns(runner[s].id, EnvOf(s))
    BY DEF OwnInv, WorkInv
  <2>2. runner[r].id # runner[s].id
    BY DEF OwnInv, DistinctWork
  <2>. QED BY <2>1, <2>2 DEF Owns
<1>. QED BY <1>1, OwnershipInvariant, PTL

\* The runner's read-modify-write of the environment never loses: the branches
\* of failJob and recordRunnerEnvironmentSuccess that ignore an outcome, or
\* report a conflict, are never taken.
THEOREM OutcomeReachesEnvironment == Spec => []OutcomeNeverDropped
<1>1. TypeInv /\ OwnInv => OutcomeNeverDropped
  <2>1. SUFFICES ASSUME OwnInv, NEW r \in Runners, ~At(r, "idle")
                 PROVE  /\ Owns(runner[r].id, EnvOf(r))
                        /\ At(r, "recording") => RevisionMatches(EnvOf(r), runner[r].snap)
    BY DEF OutcomeNeverDropped, Owns, At
  <2>2. WorkInv(r)
    BY <2>1 DEF OwnInv
  <2>. QED BY <2>1, <2>2 DEF WorkInv, RevisionMatches
<1>. QED BY <1>1, OwnershipInvariant, PTL
=============================================================================
