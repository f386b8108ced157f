---------------------------- MODULE WorkflowProofs ----------------------------
(***************************************************************************)
(* Orchestrator implements ApprovalWorkflow: its initial states map to the *)
(* initial state of the workflow, and every step of a request or a runner  *)
(* to a step of the workflow or to a stutter.                              *)
(***************************************************************************)
EXTENDS PlanProofs

\* The abstract variables, as the instance Workflow computes them.
Phases == [e \in Envs |-> PhaseOf(env[e].status)]
Tickets == [e \in Envs |-> TicketOf(e)]

AllInv == TypeInv /\ OwnInv /\ RowsInv /\ PlansInv

\* The ticket of an environment depends on its row and on what its last job
\* never changes.
LEMMA TicketsLast ==
  ASSUME AllInv, \A k \in Jobs : Settled(k), NEW e \in Envs, env'[e] = env[e]
  PROVE  TicketOf(e)' = TicketOf(e) /\ PhaseOf(env[e].status)' = PhaseOf(env[e].status)
<1>1. env[e].lastJob # NoJob => env[e].lastJob \in Jobs /\ ~Unused(env[e].lastJob)
  BY DEF AllInv, OwnInv, RowInv, TypeInv, TypeOK, EnvRows
<1>2. env[e].lastJob # NoJob => SameJob(env[e].lastJob)
  BY <1>1 DEF Settled
<1>. QED BY <1>2 DEF TicketOf, PhaseOf, SameJob

\* A step that writes the row of one environment moves that one only.
LEMMA OneMoves ==
  ASSUME AllInv, \A k \in Jobs : Settled(k), NEW e \in Envs,
         \A d \in Envs : d # e => env'[d] = env[d]
  PROVE  /\ Phases' = [Phases EXCEPT ![e] = PhaseOf(env'[e].status)]
         /\ Tickets' = [Tickets EXCEPT ![e] = TicketOf(e)']
<1>1. ASSUME NEW d \in Envs, d # e
      PROVE  TicketOf(d)' = TicketOf(d) /\ PhaseOf(env'[d].status) = PhaseOf(env[d].status)
  BY <1>1, TicketsLast
<1>. QED BY <1>1 DEF Phases, Tickets

LEMMA StutterStep ==
  ASSUME AllInv, \A k \in Jobs : Settled(k), env' = env, applied' = applied
  PROVE  UNCHANGED Workflow!vars
<1>1. Phases' = Phases /\ Tickets' = Tickets
  BY TicketsLast DEF Phases, Tickets
<1>. QED BY <1>1 DEF Workflow!vars, Phases, Tickets

LEMMA InsertStep ==
  ASSUME AllInv, NEW e \in Envs, NEW j \in Jobs,
         InsertsPlan(e, j) \/ InsertsApply(e, j) \/ InsertsRetry(e, j)
  PROVE  Workflow!Next
<1>1. Inserts(e, j)
  BY DEF InsertsPlan, InsertsApply, InsertsRetry
<1>2. /\ \A k \in Jobs : Settled(k)
      /\ \A d \in Envs : d # e => env'[d] = env[d]
      /\ env'[e].lastJob = j /\ applied' = applied
  BY <1>1, InsertSettles DEF Inserts
<1>3. /\ Phases' = [Phases EXCEPT ![e] = PhaseOf(env'[e].status)]
      /\ Tickets' = [Tickets EXCEPT ![e] = TicketOf(e)']
  BY <1>2, OneMoves DEF AllInv
<1>4. CASE env'[e].status = "planning" /\ job'[j].type = "plan"
  <2>1. TicketOf(e)' = NoJob /\ PhaseOf(env'[e].status) = "planning"
    BY <1>2, <1>4 DEF TicketOf, PhaseOf
  <2>2. PhaseOf(env[e].status) \in {"absent", "review", "approved", "settled", "failed"}
    <3>1. env[e].status \in EnvStatuses /\ LastJobInv(e) /\ ~IsEnvironmentBusy(env[e].status)
      BY <1>1 DEF AllInv, TypeInv, TypeOK, EnvRows, RowsInv, Inserts
    <3>. QED BY <3>1 DEF EnvStatuses, LastJobInv, IsEnvironmentBusy, PhaseOf
  <2>3. Workflow!RequestPlan(e)
    BY <1>2, <1>3, <2>1, <2>2 DEF Workflow!RequestPlan, Workflow!Move, Phases, Tickets
  <2>. QED BY <2>3 DEF Workflow!Next
<1>5. CASE env'[e].status = "applying" /\ job'[j].type = "apply"
  <2>1. /\ PhaseOf(env[e].status) \in {"approved", "failed"}
        /\ TicketOf(e) = job'[j].source /\ TicketOf(e) # NoJob
    <3>1. CASE InsertsApply(e, j)
      <4>1. env[e].status = "approved" /\ env[e].lastPlan \in Jobs
        BY <3>1 DEF InsertsApply, AllInv, PlansInv, ReviewInv, InPlace
      <4>. QED BY <3>1, <4>1, NoneAssumption DEF InsertsApply, PhaseOf, TicketOf
    <3>2. CASE InsertsRetry(e, j)
      <4>. DEFINE old == env[e].lastJob
      <4>1. /\ old \in Jobs /\ job[old].type = "apply" /\ env[e].status = "failed"
            /\ job'[j].source = job[old].source
        BY <1>5, <3>2 DEF InsertsRetry
      <4>2. job[old].source \in Jobs
        BY <4>1 DEF AllInv, PlansInv, ApplyInv, InPlace
      <4>. QED BY <4>1, <4>2, NoneAssumption DEF PhaseOf, TicketOf
    <3>. QED BY <1>5, <3>1, <3>2 DEF InsertsPlan
  <2>2. TicketOf(e)' = job'[j].source /\ PhaseOf(env'[e].status) = "applying"
    BY <1>2, <1>5, NoneAssumption DEF TicketOf, PhaseOf
  <2>3. Tickets' = Tickets
    BY <1>3, <2>1, <2>2 DEF Tickets
  <2>4. Workflow!StartApply(e)
    BY <1>2, <1>3, <2>1, <2>2, <2>3 DEF Workflow!StartApply, Workflow!Move, Phases, Tickets
  <2>. QED BY <2>4 DEF Workflow!Next
<1>6. \/ env'[e].status = "planning" /\ job'[j].type = "plan"
      \/ env'[e].status = "applying" /\ job'[j].type = "apply"
  <2>1. CASE InsertsPlan(e, j) \/ InsertsApply(e, j)
    BY <2>1 DEF InsertsPlan, InsertsApply
  <2>2. CASE InsertsRetry(e, j)
    BY <2>2 DEF InsertsRetry, AllInv, TypeInv, TypeOK, JobRows, JobTypes
  <2>. QED BY <2>1, <2>2
<1>. QED BY <1>4, <1>5, <1>6

\* An approval takes a plan that has not run and that nobody else holds.
LEMMA ApproveStep ==
  ASSUME AllInv, NEW e \in Envs, Approves(e)
  PROVE  Workflow!Next
<1>. DEFINE p == env[e].lastPlan
<1>1. /\ env[e].status = "pending_approval" /\ applied' = applied /\ job' = job
      /\ \A d \in Envs : d # e => env'[d] = env[d]
      /\ env'[e].status = "approved" /\ env'[e].lastPlan = p
  BY DEF Approves, AllInv, TypeInv, TypeOK, EnvRows
<1>2. \A k \in Jobs : Settled(k)
  BY <1>1 DEF Settled, SameJob, Unused
<1>3. /\ Phases' = [Phases EXCEPT ![e] = PhaseOf(env'[e].status)]
      /\ Tickets' = [Tickets EXCEPT ![e] = TicketOf(e)']
  BY <1>1, <1>2, OneMoves
<1>4. InPlace(p, e) /\ p \notin applied /\ env[e].lastJob = p
  BY <1>1 DEF AllInv, PlansInv, ReviewInv, RowsInv, LastJobInv
<1>5. ASSUME NEW d \in Envs PROVE TicketOf(d) # p
  <2>1. CASE d = e
    BY <1>1, <1>4, <2>1, NoneAssumption DEF TicketOf, InPlace
  <2>2. CASE d # e
    <3>1. TicketOf(d) = NoJob \/ InPlace(TicketOf(d), d)
      <4>1. env[d].lastJob \in Jobs \union {NoJob}
        BY DEF AllInv, TypeInv, TypeOK, EnvRows
      <4>. QED BY <4>1 DEF TicketOf, AllInv, PlansInv, ReviewInv, ApplyInv
    <3>. QED BY <1>4, <2>2, <3>1, NoneAssumption DEF InPlace
  <2>. QED BY <2>1, <2>2
<1>6. /\ PhaseOf(env[e].status) = "review" /\ PhaseOf(env'[e].status) = "approved"
      /\ TicketOf(e)' = p /\ p \in Jobs
  BY <1>1, <1>4 DEF PhaseOf, TicketOf, InPlace
<1>. HIDE DEF p
<1>7. Workflow!Approve(e, p)
  BY <1>1, <1>3, <1>4, <1>5, <1>6 DEF Workflow!Approve, Workflow!Move, Phases, Tickets
<1>. QED BY <1>6, <1>7 DEF Workflow!Next

LEMMA RunStep ==
  ASSUME AllInv, NEW r \in Runners, Applies(r)
  PROVE  Workflow!Next
<1>. DEFINE e == EnvOf(r)
            id == runner[r].id
<1>1. /\ ~At(r, "idle") /\ job[id].type = "apply" /\ applied' = applied \union {job[id].source}
      /\ env' = env
  BY AppliesSource DEF AllInv, Applies
<1>2. e \in Envs /\ id \in Jobs /\ env[e].lastJob = id /\ env[e].status = "applying"
  BY <1>1, AtWork DEF AllInv
<1>3. \A k \in Jobs : Settled(k)
  BY RunnerSettles DEF AllInv, RunnerEffect
<1>4. Phases' = Phases /\ Tickets' = Tickets
  BY <1>1, <1>3, TicketsLast DEF Phases, Tickets
<1>5. PhaseOf(env[e].status) = "applying" /\ TicketOf(e) = job[id].source
  BY <1>1, <1>2, NoneAssumption DEF PhaseOf, TicketOf
<1>. HIDE DEF e, id
<1>6. Workflow!Run(e)
  BY <1>1, <1>2, <1>4, <1>5 DEF Workflow!Run, Phases, Tickets
<1>. QED BY <1>2, <1>6 DEF Workflow!Next

LEMMA RecordStep ==
  ASSUME AllInv, NEW r \in Runners, Records(r)
  PROVE  Workflow!Next
<1>. DEFINE e == EnvOf(r)
            id == runner[r].id
<1>1. /\ ~At(r, "idle") /\ At(r, "recording") /\ job' = job /\ applied' = applied
      /\ \A d \in Envs : d # e => env'[d] = env[d]
      /\ env'[e].lastJob = id
  BY DEF Records, At
<1>2. /\ e \in Envs /\ id \in Jobs /\ env[e].lastJob = id /\ job[id].type \in JobTypes
      /\ env[e].status = IF job[id].type = "plan" THEN "planning" ELSE "applying"
  BY <1>1, AtWork DEF AllInv
<1>3. \A k \in Jobs : Settled(k)
  BY <1>1 DEF Settled, SameJob, Unused
<1>4. /\ Phases' = [Phases EXCEPT ![e] = PhaseOf(env'[e].status)]
      /\ Tickets' = [Tickets EXCEPT ![e] = IF env'[e].status = "approved"
                       THEN env'[e].lastPlan
                       ELSE IF env'[e].lastJob # NoJob /\ job'[env'[e].lastJob].type = "apply"
                       THEN job'[env'[e].lastJob].source ELSE NoJob]
  <2>1. ASSUME NEW d \in Envs, d = e
        PROVE  /\ Phases' = [Phases EXCEPT ![d] = PhaseOf(env'[d].status)]
               /\ Tickets' = [Tickets EXCEPT ![d] = TicketOf(d)']
    BY <1>1, <1>3, <2>1, OneMoves
  <2>. QED BY <1>2, <2>1 DEF TicketOf
<1>5. env'[e].status # "approved"
  BY DEF Records
<1>6. Tickets' = Tickets
  <2>1. TicketOf(e) = IF job[id].type = "apply" THEN job[id].source ELSE NoJob
    BY <1>2, NoneAssumption DEF TicketOf, JobTypes
  <2>2. env'[e].lastJob # NoJob /\ job'[env'[e].lastJob] = job[id]
    BY <1>1, <1>2, NoneAssumption
  <2>3. Tickets' = [Tickets EXCEPT ![e] = TicketOf(e)]
    BY <1>4, <1>5, <2>1, <2>2
  <2>. QED BY <1>2, <2>3 DEF Tickets
<1>7. CASE job[id].type = "plan"
  <2>1. /\ PhaseOf(env[e].status) = "planning"
        /\ PhaseOf(env'[e].status) \in {"review", "failed"}
    BY <1>2, <1>7 DEF PhaseOf, Records
  <2>. HIDE DEF e, id
  <2>2. Workflow!PlanEnds(e)
    BY <1>1, <1>2, <1>4, <1>6, <2>1 DEF Workflow!PlanEnds, Workflow!Move, Phases, Tickets
  <2>. QED BY <1>2, <2>2 DEF Workflow!Next
<1>8. CASE job[id].type = "apply"
  <2>1. /\ PhaseOf(env[e].status) = "applying"
        /\ \/ PhaseOf(env'[e].status) = "settled" /\ runner[r].ok
           \/ PhaseOf(env'[e].status) = "failed"
    BY <1>2, <1>8 DEF PhaseOf, Records
  <2>2. runner[r].ok => TicketOf(e) \in applied
    <3>1. TicketOf(e) = job[id].source
      BY <1>2, <1>8, NoneAssumption DEF TicketOf
    <3>2. runner[r].ok => Succeeded(r) /\ TofuInv(r)
      BY <1>1 DEF Succeeded, Settling, At, AllInv, PlansInv
    <3>. QED BY <1>8, <3>1, <3>2 DEF TofuInv, Claimed
  <2>. HIDE DEF e, id
  <2>3. Workflow!ApplyEnds(e)
    BY <1>1, <1>2, <1>4, <1>6, <2>1, <2>2
       DEF Workflow!ApplyEnds, Workflow!Move, Phases, Tickets
  <2>. QED BY <1>2, <2>3 DEF Workflow!Next
<1>. QED BY <1>2, <1>7, <1>8 DEF JobTypes

LEMMA StepImplements == AllInv /\ [Next]_vars => [Workflow!Next]_(Workflow!vars)
<1>. SUFFICES ASSUME AllInv, [Next]_vars PROVE Workflow!Next \/ UNCHANGED Workflow!vars
  OBVIOUS
<1>1. CASE UNCHANGED vars
  <2>1. env' = env /\ job' = job /\ applied' = applied
    BY <1>1 DEF vars
  <2>. QED BY <2>1, StutterStep DEF Settled, SameJob, Unused
<1>2. ASSUME NEW c \in Clients, ClientStep(c)
      PROVE  Workflow!Next \/ UNCHANGED Workflow!vars
  <2>1. ClientEffect(c)
    BY <1>2, ClientSteps DEF AllInv
  <2>2. ASSUME Reads(c) PROVE UNCHANGED Workflow!vars
    BY <2>2, StutterStep DEF Reads, Settled, SameJob, Unused
  <2>. QED BY <2>1, <2>2, InsertStep, ApproveStep DEF ClientEffect
<1>3. ASSUME NEW r \in Runners, Progress(r) \/ Abandon(r)
      PROVE  Workflow!Next \/ UNCHANGED Workflow!vars
  <2>1. RunnerEffect(r) /\ \A k \in Jobs : Settled(k)
    BY <1>3, RunnerSteps, RunnerSettles DEF AllInv
  <2>2. ASSUME ~Applies(r), ~Records(r) PROVE env' = env /\ applied' = applied
    BY <2>1, <2>2 DEF RunnerEffect, Claims, Prepares, StartsPlan, Plans, Fails, Finishes,
       Loads, Drops
  <2>. QED BY <2>1, <2>2, StutterStep, RunStep, RecordStep
<1>. QED BY <1>1, <1>2, <1>3 DEF Next

LEMMA InitImplements == Init => Workflow!Init
<1>. SUFFICES ASSUME Init PROVE Workflow!Init
  OBVIOUS
<1>1. ASSUME NEW e \in Envs PROVE TicketOf(e) = NoJob /\ PhaseOf(env[e].status) = "absent"
  BY <1>1 DEF Init, AbsentEnv, TicketOf, PhaseOf
<1>. QED BY <1>1 DEF Init, Workflow!Init

\* Requests that race, jobs that are retried and re-planned, runners that crash
\* and writes that get lost never leave the approval workflow, for any number
\* of environments, jobs, users and runners: every plan is reviewed before it
\* runs, every new plan voids the approval before it, and an apply that is
\* reported to have succeeded has run the plan that was approved.
THEOREM WorkflowImplemented == Spec => ImplementsWorkflow
<1>1. Init => Workflow!Init
  BY InitImplements
<1>2. TypeInv /\ OwnInv /\ RowsInv /\ PlansInv /\ [Next]_vars
        => [Workflow!Next]_(Workflow!vars)
  BY StepImplements DEF AllInv
<1>. QED BY <1>1, <1>2, PlansInvariant, PTL DEF Spec, ImplementsWorkflow, Workflow!Spec
=============================================================================
