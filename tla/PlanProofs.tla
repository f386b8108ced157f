------------------------------ MODULE PlanProofs ------------------------------
(***************************************************************************)
(* What tofu runs, and where.  A workdir belongs to the environment of the *)
(* plan job that rendered it, and jobs of other environments never run     *)
(* there; as an environment has one runner at a time (OwnershipProofs),    *)
(* the plan.bin of a plan that awaits its review, its apply or the retry   *)
(* of its apply stays the one that plan wrote.  PlansInv says so, and what *)
(* an apply leaves behind.                                                 *)
(***************************************************************************)
EXTENDS RequestProofs

\* Workdir w, when there is one, was named by a job of environment e.
OwnPlace(w, e) == w # NoJob => w \in Jobs /\ ~Unused(w) /\ job[w].env = e

WorkdirsOwned ==
  /\ \A j \in Jobs : ~Unused(j) => OwnPlace(job[j].workdir, job[j].env)
  /\ \A e \in Envs : OwnPlace(env[e].workdir, e)

\* Plan p of environment e is made, and its plan.bin is where it wrote it.
InPlace(p, e) ==
  /\ p \in Jobs /\ job[p].status = "done" /\ job[p].type = "plan" /\ job[p].env = e
  /\ job[p].workdir \in Jobs /\ planFile[job[p].workdir] = p

ReviewInv(e) ==
  /\ env[e].status = "planning" => env[e].lastJob \notin applied
  /\ env[e].status = "pending_approval" => env[e].lastPlan \notin applied
  /\ env[e].status \in {"pending_approval", "approved"} => InPlace(env[e].lastPlan, e)
  /\ env[e].status = "approved" => env[e].lastPlan \in approved

\* The last job of an environment, when it is an apply, can be run, and run
\* again, from the approved plan it was made from.
ApplyInv(e) ==
  LET last == env[e].lastJob
  IN  last \in Jobs /\ job[last].type = "apply" =>
        /\ InPlace(job[last].source, e)
        /\ job[last].source \in approved
        /\ job[job[last].source].op = job[last].op

ActiveInv(e) == env[e].status = "active" => env[e].workdir \in resources[e]

Succeeded(r) == At(r, "ran") \/ (runner[r].pc \in Settling /\ runner[r].ok)

\* What a runner can rely on when it has prepared its job, and when tofu has
\* succeeded.
TofuInv(r) ==
  /\ runner[r].pc \in {"prepared", "planning"} \/ Succeeded(r) => WorkdirOf(r) \in Jobs
  /\ At(r, "planning") => Claimed(r).type = "plan"
  /\ At(r, "prepared") /\ Claimed(r).type = "apply" =>
       WorkdirOf(r) = job[Claimed(r).source].workdir
  /\ Succeeded(r) /\ Claimed(r).type = "plan" => planFile[WorkdirOf(r)] = runner[r].id
  /\ Succeeded(r) /\ Claimed(r).type = "apply" =>
       /\ Claimed(r).source \in applied
       /\ Claimed(r).op # "destroy" => WorkdirOf(r) \in resources[EnvOf(r)]

AppliedInv == \A p \in applied : p \in approved /\ ~Unused(p)

PlansInv ==
  /\ WorkdirsOwned
  /\ \A e \in Envs : ReviewInv(e) /\ ApplyInv(e) /\ ActiveInv(e)
  /\ \A r \in Runners : TofuInv(r)
  /\ AppliedInv

-----------------------------------------------------------------------------
(* The steps of a request *)

\* What settled rows say of a place and of a plan outlives a step.
LEMMA PlacesLast ==
  ASSUME \A k \in Jobs : Settled(k), NEW w, NEW e
  PROVE  /\ OwnPlace(w, e) => OwnPlace(w, e)'
         /\ InPlace(w, e) /\ planFile'[job[w].workdir] = planFile[job[w].workdir]
              => InPlace(w, e)' /\ job'[w] = job[w]
BY DEF Settled, SameJob, OwnPlace, InPlace, Unused

LEMMA InsertKeepsPlans ==
  ASSUME TypeInv, OwnInv, RowsInv, PlansInv, NEW e \in Envs, NEW j \in Jobs,
         InsertsPlan(e, j) \/ InsertsApply(e, j) \/ InsertsRetry(e, j)
  PROVE  PlansInv'
<1>1. Inserts(e, j)
  BY DEF InsertsPlan, InsertsApply, InsertsRetry
<1>2. /\ \A k \in Jobs : Settled(k)
      /\ \A k \in Jobs : ~Unused(k) => k # j /\ job'[k] = job[k]
      /\ UNCHANGED <<runner, planFile, resources, approved, applied>>
      /\ \A d \in Envs : d # e => env'[d] = env[d]
  BY <1>1, InsertSettles DEF Inserts
<1>3. \A p, d : InPlace(p, d) => InPlace(p, d)' /\ job'[p] = job[p]
  BY <1>2, PlacesLast
<1>4. WorkdirsOwned'
  <2>1. ASSUME NEW k \in Jobs, ~Unused(k)' PROVE OwnPlace(job[k].workdir, job[k].env)'
    <3>1. CASE k # j
      <4>1. job'[k] = job[k] /\ ~Unused(k)
        BY <1>1, <2>1, <3>1 DEF Inserts, Unused
      <4>2. OwnPlace(job[k].workdir, job[k].env)
        BY <4>1 DEF PlansInv, WorkdirsOwned
      <4>3. \A w, d : OwnPlace(w, d) => OwnPlace(w, d)'
        BY <1>2, PlacesLast
      <4>. QED BY <4>1, <4>2, <4>3 DEF OwnPlace
    <3>2. CASE k = j
      <4>1. ASSUME NEW w, OwnPlace(w, e), job'[j].workdir = w
            PROVE  OwnPlace(job[k].workdir, job[k].env)'
        <5>1. OwnPlace(w, e)'
          BY <1>2, <4>1, PlacesLast
        <5>. QED BY <1>1, <3>2, <4>1, <5>1 DEF Inserts, OwnPlace
      <4>2. CASE InsertsPlan(e, j)
        BY <4>1, <4>2 DEF InsertsPlan, OwnPlace
      <4>3. CASE InsertsApply(e, j)
        <5>1. InPlace(env[e].lastPlan, e)
          BY <4>3 DEF InsertsApply, PlansInv, ReviewInv
        <5>2. OwnPlace(job[env[e].lastPlan].workdir, e)
          BY <5>1 DEF InPlace, PlansInv, WorkdirsOwned, Unused
        <5>. QED BY <4>1, <4>3, <5>2 DEF InsertsApply
      <4>4. CASE InsertsRetry(e, j)
        <5>1. OwnPlace(job[env[e].lastJob].workdir, e)
          BY <4>4 DEF InsertsRetry, PlansInv, WorkdirsOwned, Unused
        <5>. QED BY <4>1, <4>4, <5>1 DEF InsertsRetry
      <4>. QED BY <4>2, <4>3, <4>4
    <3>. QED BY <3>1, <3>2
  <2>2. ASSUME NEW d \in Envs PROVE OwnPlace(env[d].workdir, d)'
    <3>1. OwnPlace(env[d].workdir, d) /\ env'[d].workdir \in {NoJob, env[d].workdir}
      BY <1>1, <1>2 DEF PlansInv, WorkdirsOwned, Inserts
    <3>2. \A w : OwnPlace(w, d) => OwnPlace(w, d)'
      BY <1>2, PlacesLast
    <3>. QED BY <3>1, <3>2 DEF OwnPlace
  <2>. QED BY <2>1, <2>2 DEF WorkdirsOwned
<1>5. ASSUME NEW d \in Envs PROVE ReviewInv(d)'
  <2>1. CASE d # e
    BY <1>2, <1>3, <2>1 DEF PlansInv, ReviewInv
  <2>2. CASE d = e
    <3>1. env'[e].status \in {"planning", "applying"}
      BY DEF InsertsPlan, InsertsApply, InsertsRetry
    <3>2. env'[e].lastJob = j /\ j \notin applied'
      BY <1>1, <1>2 DEF Inserts, PlansInv, AppliedInv
    <3>. QED BY <2>2, <3>1, <3>2 DEF ReviewInv
  <2>. QED BY <2>1, <2>2
<1>6. ASSUME NEW d \in Envs PROVE ApplyInv(d)'
  <2>1. CASE d # e
    <3>1. env'[d] = env[d] /\ ApplyInv(d) /\ RowInv(d)
      BY <1>2, <2>1 DEF PlansInv, OwnInv
    <3>2. env[d].lastJob \in Jobs => job'[env[d].lastJob] = job[env[d].lastJob]
      BY <1>2, <3>1, NoneAssumption DEF RowInv
    <3>. QED BY <1>2, <1>3, <3>1, <3>2 DEF ApplyInv
  <2>2. CASE d = e
    <3>1. env'[e].lastJob = j
      BY <1>1 DEF Inserts
    <3>2. CASE InsertsPlan(e, j)
      BY <2>2, <3>1, <3>2 DEF InsertsPlan, ApplyInv
    <3>3. CASE InsertsApply(e, j)
      <4>. DEFINE p == env[e].lastPlan
      <4>1. /\ env[e].status = "approved" /\ job'[j].source = p
            /\ job'[j].op = env[e].op
        BY <1>1, <3>3 DEF InsertsApply, Inserts
      <4>2. InPlace(p, e) /\ p \in approved /\ job[p].op = env[e].op
        BY <4>1 DEF PlansInv, ReviewInv, RowsInv, LastJobInv
      <4>. QED BY <1>2, <1>3, <2>2, <3>1, <4>1, <4>2 DEF ApplyInv
    <3>4. CASE InsertsRetry(e, j)
      <4>. DEFINE old == env[e].lastJob
      <4>1. /\ old \in Jobs /\ job'[j].type = job[old].type
            /\ job'[j].source = job[old].source /\ job'[j].op = job[old].op
        BY <3>4 DEF InsertsRetry
      <4>2. ApplyInv(e)
        BY DEF PlansInv
      <4>. QED BY <1>2, <1>3, <2>2, <3>1, <4>1, <4>2 DEF ApplyInv
    <3>. QED BY <3>2, <3>3, <3>4
  <2>. QED BY <2>1, <2>2
<1>7. ASSUME NEW d \in Envs PROVE ActiveInv(d)'
  <2>1. CASE d # e
    BY <1>2, <2>1 DEF PlansInv, ActiveInv
  <2>2. CASE d = e
    BY <2>2 DEF InsertsPlan, InsertsApply, InsertsRetry, ActiveInv
  <2>. QED BY <2>1, <2>2
<1>8. ASSUME NEW r \in Runners PROVE TofuInv(r)'
  <2>1. CASE At(r, "idle")
    BY <1>2, <2>1 DEF TofuInv, Succeeded, At, Settling
  <2>2. CASE ~At(r, "idle")
    <3>1. /\ runner[r].id \in Jobs /\ ~Unused(runner[r].id) /\ TofuInv(r)
          /\ EnvOf(r) \in Envs /\ env[EnvOf(r)].lastJob = runner[r].id
      BY <2>2 DEF TypeInv, RunnerInv, JobInv, OwnInv, WorkInv, Owns, PlansInv, EnvOf,
         Claimed
    <3>2. job'[runner[r].id] = job[runner[r].id]
      BY <1>2, <3>1
    <3>3. Claimed(r).type = "apply" => job'[Claimed(r).source] = job[Claimed(r).source]
      BY <1>3, <3>1 DEF PlansInv, ApplyInv, Claimed
    <3>. QED BY <1>2, <3>1, <3>2, <3>3
             DEF TofuInv, Succeeded, At, Claimed, WorkdirOf, EnvOf
  <2>. QED BY <2>1, <2>2
<1>9. AppliedInv'
  BY <1>2 DEF PlansInv, AppliedInv, TypeInv, TypeOK, Unused
<1>. QED BY <1>4, <1>5, <1>6, <1>7, <1>8, <1>9 DEF PlansInv

LEMMA ApproveKeepsPlans ==
  ASSUME TypeInv, OwnInv, RowsInv, PlansInv, NEW e \in Envs, Approves(e)
  PROVE  PlansInv'
<1>1. /\ UNCHANGED <<job, runner, planFile, resources, applied>>
      /\ approved' = approved \union {env[e].lastPlan}
      /\ \A d \in Envs : d # e => env'[d] = env[d]
  BY DEF Approves
<1>2. /\ env'[e].status = "approved" /\ env'[e].lastPlan = env[e].lastPlan
      /\ env'[e].lastJob = env[e].lastJob /\ env'[e].workdir = env[e].workdir
  BY DEF Approves, TypeInv, TypeOK, EnvRows
<1>3. WorkdirsOwned'
  BY <1>1, <1>2 DEF PlansInv, WorkdirsOwned, OwnPlace, Unused
<1>4. \A p, d : InPlace(p, d) => InPlace(p, d)'
  BY <1>1 DEF InPlace
<1>5. ASSUME NEW d \in Envs PROVE ReviewInv(d)' /\ ApplyInv(d)' /\ ActiveInv(d)'
  <2>1. ReviewInv(d) /\ ApplyInv(d) /\ ActiveInv(d)
    BY DEF PlansInv
  <2>2. env[e].status = "pending_approval"
    BY DEF Approves
  <2>3. ReviewInv(d)'
    BY <1>1, <1>2, <1>4, <2>1, <2>2 DEF ReviewInv
  <2>4. ApplyInv(d)'
    BY <1>1, <1>2, <1>4, <2>1 DEF ApplyInv
  <2>5. ActiveInv(d)'
    BY <1>1, <1>2, <2>1 DEF ActiveInv
  <2>. QED BY <2>3, <2>4, <2>5
<1>6. ASSUME NEW r \in Runners PROVE TofuInv(r)'
  BY <1>1 DEF PlansInv, TofuInv, Succeeded, At, Claimed, WorkdirOf, EnvOf
<1>7. AppliedInv'
  BY <1>1 DEF PlansInv, AppliedInv, Unused
<1>. QED BY <1>3, <1>5, <1>6, <1>7 DEF PlansInv
-----------------------------------------------------------------------------
(* The steps of a runner *)

\* What a runner at work holds.
LEMMA AtWork ==
  ASSUME TypeInv, OwnInv, RowsInv, PlansInv, NEW r \in Runners, ~At(r, "idle")
  PROVE  LET id == runner[r].id
             e  == EnvOf(r)
         IN  /\ id \in Jobs /\ ~Unused(id) /\ e \in Envs /\ job[id].env = e
             /\ job[id].type \in JobTypes
             /\ env[e].lastJob = id
             /\ env[e].status = IF job[id].type = "plan" THEN "planning" ELSE "applying"
             /\ OwnPlace(WorkdirOf(r), e)
             /\ runner[r].pc \in Working => job[id].status = "running" /\ ~runner[r].ok
             /\ job[id].type = "apply" => InPlace(job[id].source, e)
<1>. DEFINE id == runner[r].id
            e == EnvOf(r)
<1>1. /\ id \in Jobs /\ ~Unused(id) /\ e \in Envs /\ job[id].env = e
      /\ job[id].type \in JobTypes
      /\ env[e].lastJob = id /\ IsEnvironmentBusy(env[e].status)
  BY DEF TypeInv, TypeOK, JobRows, RunnerInv, JobInv, OwnInv, WorkInv, Owns, EnvOf, Claimed
<1>2. env[e].status = IF job[id].type = "plan" THEN "planning" ELSE "applying"
  BY <1>1 DEF RowsInv, LastJobInv, IsEnvironmentBusy, JobTypes
<1>3. OwnPlace(WorkdirOf(r), e)
  BY <1>1 DEF PlansInv, WorkdirsOwned, WorkdirOf, Claimed, Unused
<1>4. runner[r].pc \in Working => job[id].status = "running" /\ ~runner[r].ok
  BY DEF RowsInv, RunningInv, Claimed
<1>5. job[id].type = "apply" => InPlace(job[id].source, e)
  BY <1>1 DEF PlansInv, ApplyInv
<1>. QED BY <1>1, <1>2, <1>3, <1>4, <1>5

\* The only runner that writes a plan.bin in a workdir of an environment is the
\* one that makes a plan for it.
LEMMA PlanFilesLast ==
  ASSUME TypeInv, OwnInv, RowsInv, PlansInv, NEW r \in Runners, RunnerEffect(r),
         NEW e \in Envs, NEW w \in Jobs, OwnPlace(w, e),
         env[e].status # "planning"
  PROVE  planFile'[w] = planFile[w]
<1>1. job[w].env = e
  BY NoneAssumption DEF OwnPlace
<1>2. CASE Prepares(r)
  <2>1. ~At(r, "idle")
    BY <1>2 DEF Prepares, Moves, At
  <2>2. \/ planFile' = planFile
        \/ /\ job[runner[r].id].type = "plan"
           /\ \A v \in Jobs : planFile'[v] = IF v = runner[r].id THEN NoJob ELSE planFile[v]
    BY <1>2 DEF Prepares
  <2>3. ASSUME job[runner[r].id].type = "plan" PROVE runner[r].id # w
    <3>1. env[EnvOf(r)].status = "planning" /\ job[runner[r].id].env = EnvOf(r)
      BY <2>1, <2>3, AtWork
    <3>. QED BY <1>1, <3>1
  <2>. QED BY <2>2, <2>3
<1>3. CASE Plans(r)
  <2>1. ~At(r, "idle") /\ Claimed(r).type = "plan"
    BY <1>3 DEF Plans, Moves, At, PlansInv, TofuInv
  <2>2. EnvOf(r) # e
    BY <2>1, AtWork DEF Claimed
  <2>3. WorkdirOf(r) # w
    BY <1>1, <2>1, <2>2, AtWork, NoneAssumption DEF OwnPlace
  <2>. QED BY <1>3, <2>3 DEF Plans
<1>. QED BY <1>2, <1>3 DEF RunnerEffect, Claims, StartsPlan, Applies, Fails, Finishes, Loads,
            Records, Drops

LEMMA RunnerKeepsPlaces ==
  ASSUME TypeInv, OwnInv, RowsInv, PlansInv, NEW r \in Runners, RunnerEffect(r),
         NEW e \in Envs, NEW p, InPlace(p, e), env[e].status # "planning"
  PROVE  InPlace(p, e)' /\ job'[p] = job[p]
<1>1. \A k \in Jobs : Settled(k)
  BY RunnerSettles
<1>2. OwnPlace(job[p].workdir, e)
  BY DEF InPlace, PlansInv, WorkdirsOwned, Unused
<1>3. planFile'[job[p].workdir] = planFile[job[p].workdir]
  BY <1>2, PlanFilesLast DEF InPlace
<1>. QED BY <1>1, <1>3, PlacesLast

\* An apply runs the plan it was made from.
LEMMA AppliesSource ==
  ASSUME TypeInv, OwnInv, RowsInv, PlansInv, NEW r \in Runners, Applies(r)
  PROVE  LET id == runner[r].id
             p  == job[id].source
         IN  /\ ~At(r, "idle") /\ job[id].type = "apply"
             /\ InPlace(p, EnvOf(r)) /\ p \in approved
             /\ planFile[WorkdirOf(r)] = p /\ job[p].op = job[id].op
             /\ applied' = applied \union {p}
<1>. DEFINE id == runner[r].id
            p == job[id].source
<1>1. ~At(r, "idle") /\ At(r, "prepared") /\ job[id].type = "apply"
      /\ applied' = applied \union {planFile[WorkdirOf(r)]}
  BY DEF Applies, Moves, At, Claimed
<1>2. InPlace(p, EnvOf(r)) /\ p \in approved /\ job[p].op = job[id].op
  BY <1>1, AtWork DEF PlansInv, ApplyInv
<1>3. WorkdirOf(r) = job[p].workdir
  BY <1>1 DEF PlansInv, TofuInv, Claimed
<1>. QED BY <1>1, <1>2, <1>3 DEF InPlace

LEMMA RunnerKeepsWorkdirs ==
  ASSUME TypeInv, OwnInv, RowsInv, PlansInv, NEW r \in Runners, RunnerEffect(r)
  PROVE  WorkdirsOwned'
<1>. DEFINE id == runner[r].id
            e == EnvOf(r)
<1>1. \A k \in Jobs : Settled(k)
  BY RunnerSettles
<1>2. \A w, d : OwnPlace(w, d) => OwnPlace(w, d)'
  BY <1>1, PlacesLast
<1>3. ASSUME NEW k \in Jobs, ~Unused(k)' PROVE OwnPlace(job[k].workdir, job[k].env)'
  <2>1. CASE job'[k] = job[k]
    <3>1. OwnPlace(job[k].workdir, job[k].env)
      BY <1>3, <2>1 DEF PlansInv, WorkdirsOwned, Unused
    <3>. QED BY <1>2, <2>1, <3>1 DEF OwnPlace
  <2>2. ASSUME NEW w, OwnPlace(w, job[k].env), job'[k].workdir = w, job'[k].env = job[k].env
        PROVE  OwnPlace(job[k].workdir, job[k].env)'
    <3>1. OwnPlace(w, job[k].env)'
      BY <1>2, <2>2
    <3>2. job'[k].workdir # NoJob =>
            /\ job'[k].workdir \in Jobs /\ job'[job'[k].workdir].status # "absent"
            /\ job'[job'[k].workdir].env = job'[k].env
      BY <2>2, <3>1 DEF OwnPlace, Unused
    <3>. QED BY <3>2 DEF OwnPlace, Unused
  <2>3. ASSUME NEW j \in Jobs, Claims(r, j) PROVE OwnPlace(job[k].workdir, job[k].env)'
    <3>1. OwnPlace(job[k].workdir, job[k].env)
      BY <1>3, <2>3 DEF Claims, Works, PlansInv, WorkdirsOwned, Unused
    <3>2. job'[k].workdir = job[k].workdir /\ job'[k].env = job[k].env
      BY <2>3 DEF Claims, Works, SameJob
    <3>. QED BY <2>2, <3>1, <3>2
  <2>4. ASSUME Prepares(r), k = id PROVE OwnPlace(job[k].workdir, job[k].env)'
    <3>1. ~At(r, "idle") /\ job'[id].env = job[id].env /\ job'[id].workdir \in Jobs
      BY <2>4 DEF Prepares, Moves, Works, SameJob, At
    <3>2. OwnPlace(id, e) /\ OwnPlace(env[e].workdir, e) /\ job[id].env = e
      BY <3>1, AtWork DEF OwnPlace, PlansInv, WorkdirsOwned
    <3>3. job[id].type = "apply" => OwnPlace(job[job[id].source].workdir, e)
      BY <3>1, AtWork DEF InPlace, PlansInv, WorkdirsOwned, Unused
    <3>4. OwnPlace(job'[id].workdir, e)
      BY <2>4, <3>2, <3>3 DEF Prepares
    <3>. QED BY <2>2, <2>4, <3>1, <3>2, <3>4
  <2>5. ASSUME StartsPlan(r) \/ Finishes(r), k = id
        PROVE  OwnPlace(job[k].workdir, job[k].env)'
    <3>1. ~At(r, "idle") /\ job'[id].env = job[id].env /\ job'[id].workdir = WorkdirOf(r)
      BY <2>5 DEF StartsPlan, Finishes, Moves, Works, SameJob, At
    <3>. QED BY <2>2, <2>5, <3>1, AtWork
  <2>. QED BY <2>1, <2>3, <2>4, <2>5 DEF RunnerEffect, Prepares, StartsPlan, Finishes, Plans,
              Applies, Fails, Loads, Records, Drops, Moves, Works
<1>4. ASSUME NEW d \in Envs PROVE OwnPlace(env[d].workdir, d)'
  <2>1. OwnPlace(env[d].workdir, d)
    BY DEF PlansInv, WorkdirsOwned
  <2>2. CASE env'[d] = env[d]
    BY <1>2, <2>1, <2>2 DEF OwnPlace
  <2>3. CASE Records(r) /\ d = e
    <3>1. ~At(r, "idle") /\ env'[e].workdir \in {env[e].workdir, job[id].workdir}
      BY <2>3 DEF Records, At
    <3>2. OwnPlace(job[id].workdir, e)
      BY <3>1, AtWork DEF WorkdirOf, Claimed
    <3>. QED BY <1>2, <2>1, <2>3, <3>1, <3>2 DEF OwnPlace
  <2>. QED BY <2>2, <2>3 DEF RunnerEffect, Claims, Prepares, StartsPlan, Finishes, Plans,
              Applies, Fails, Loads, Records, Drops
<1>. QED BY <1>3, <1>4 DEF WorkdirsOwned

LEMMA RunnerKeepsReviews ==
  ASSUME TypeInv, OwnInv, RowsInv, PlansInv, NEW r \in Runners, RunnerEffect(r),
         NEW d \in Envs
  PROVE  ReviewInv(d)' /\ ApplyInv(d)' /\ ActiveInv(d)'
<1>. DEFINE id == runner[r].id
            e == EnvOf(r)
<1>1. /\ \A k \in Jobs : Settled(k)
      /\ ReviewInv(d) /\ ApplyInv(d) /\ ActiveInv(d) /\ LastJobInv(d) /\ RowInv(d)
      /\ approved' = approved
  BY RunnerSettles DEF PlansInv, RowsInv, OwnInv, RunnerEffect, Claims, Prepares, StartsPlan,
     Finishes, Plans, Applies, Fails, Loads, Records, Drops, Moves, Works
<1>2. ASSUME NEW p, InPlace(p, d), env[d].status # "planning"
      PROVE  InPlace(p, d)' /\ job'[p] = job[p]
  BY <1>2, RunnerKeepsPlaces
\* An apply runs the source of its own environment's last job.
<1>3. ASSUME env[d].status # "applying", NEW p \in Jobs, ~Unused(p), job[p].env = d,
             p \notin applied
      PROVE  p \notin applied'
  <2>1. CASE Applies(r)
    <3>1. /\ ~At(r, "idle") /\ job[id].type = "apply" /\ job[job[id].source].env = e
          /\ applied' = applied \union {job[id].source}
      BY <2>1, AppliesSource DEF InPlace
    <3>2. e # d
      BY <1>3, <3>1, AtWork
    <3>. QED BY <1>3, <3>1, <3>2
  <2>2. CASE ~Applies(r)
    BY <1>3, <2>2 DEF RunnerEffect, Claims, Prepares, StartsPlan, Finishes, Plans, Fails,
       Loads, Records, Drops
  <2>. QED BY <2>1, <2>2
<1>4. CASE env'[d] = env[d]
  <2>1. env[d].status \in {"planning", "pending_approval"} =>
          env[d].lastJob \in Jobs /\ env[d].lastJob \notin applied'
    BY <1>1, <1>3, NoneAssumption DEF LastJobInv, RowInv, ReviewInv
  <2>2. ReviewInv(d)'
    BY <1>1, <1>2, <1>4, <2>1 DEF ReviewInv, LastJobInv
  <2>3. ApplyInv(d)'
    <3>1. SUFFICES ASSUME env[d].lastJob \in Jobs, job'[env[d].lastJob].type = "apply"
                   PROVE  ApplyInv(d)'
      BY <1>4 DEF ApplyInv
    <3>2. ~Unused(env[d].lastJob)
      BY <1>1, <3>1, NoneAssumption DEF RowInv
    <3>3. SameJob(env[d].lastJob)
      BY <1>1, <3>1, <3>2 DEF Settled
    <3>4. env[d].status # "planning"
      BY <1>1, <3>1, <3>3 DEF LastJobInv, SameJob
    <3>. QED BY <1>1, <1>2, <1>4, <3>1, <3>3, <3>4 DEF ApplyInv, SameJob
  <2>4. ActiveInv(d)'
    <3>1. SUFFICES ASSUME env[d].status = "active" PROVE resources'[d] = resources[d]
      BY <1>1, <1>4 DEF ActiveInv
    <3>2. CASE Applies(r)
      <4>1. e # d
        BY <3>1, <3>2, AppliesSource, AtWork
      <4>. QED BY <3>2, <4>1 DEF Applies
    <3>. QED BY <3>2 DEF RunnerEffect, Claims, Prepares, StartsPlan, Finishes, Plans, Fails,
                Loads, Records, Drops
  <2>. QED BY <2>2, <2>3, <2>4
<1>5. CASE Records(r) /\ d = e
  <2>1. /\ ~At(r, "idle") /\ At(r, "recording") /\ env'[e].lastJob = id
        /\ UNCHANGED <<job, planFile, resources, applied>>
    BY <1>5 DEF Records, At
  <2>2. /\ id \in Jobs /\ job[id].env = e /\ env[e].lastJob = id
        /\ env[e].status = IF job[id].type = "plan" THEN "planning" ELSE "applying"
    BY <2>1, AtWork
  <2>3. ASSUME runner[r].ok
        PROVE  Succeeded(r) /\ job[id].status = "done" /\ WorkdirOf(r) \in Jobs /\ TofuInv(r)
    BY <2>1, <2>3 DEF Succeeded, Settling, At, RowsInv, RunningInv, Claimed, PlansInv, TofuInv
  <2>4. ReviewInv(d)'
    <3>1. CASE runner[r].ok /\ job[id].type = "plan"
      <4>1. env'[e].status = "pending_approval" /\ env'[e].lastPlan = id
        BY <1>5, <3>1 DEF Records
      <4>2. ASSUME NEW p, p = id PROVE InPlace(p, d)'
        BY <1>5, <4>2, <2>1, <2>2, <2>3, <3>1 DEF InPlace, TofuInv, WorkdirOf, Claimed
      <4>3. id \notin applied'
        BY <1>1, <1>5, <2>1, <2>2, <3>1 DEF ReviewInv
      <4>. QED BY <1>5, <4>1, <4>2, <4>3 DEF ReviewInv, InPlace
    <3>2. CASE ~(runner[r].ok /\ job[id].type = "plan")
      BY <1>5, <3>2 DEF Records, ReviewInv
    <3>. QED BY <3>1, <3>2
  <2>5. ApplyInv(d)'
    <3>1. SUFFICES ASSUME job[id].type = "apply" PROVE ApplyInv(d)'
      BY <1>5, <2>1 DEF ApplyInv
    <3>. QED BY <1>1, <1>2, <1>5, <2>1, <2>2, <3>1 DEF ApplyInv
  <2>6. ActiveInv(d)'
    <3>1. SUFFICES ASSUME env'[e].status = "active" PROVE env'[e].workdir \in resources[e]
      BY <1>5, <2>1 DEF ActiveInv
    <3>2. /\ runner[r].ok /\ job[id].type = "apply" /\ job[id].op # "destroy"
          /\ env'[e].workdir = job[id].workdir
      BY <1>5, <3>1 DEF Records
    <3>. QED BY <2>3, <3>2 DEF TofuInv, WorkdirOf, Claimed
  <2>. QED BY <2>4, <2>5, <2>6
<1>. QED BY <1>4, <1>5 DEF RunnerEffect, Claims, Prepares, StartsPlan, Finishes, Plans,
            Applies, Fails, Loads, Records, Drops
\* What tofu has done for one runner is out of reach of the others.
LEMMA OthersKeepTofu ==
  ASSUME TypeInv, OwnInv, RowsInv, PlansInv, NEW r \in Runners, RunnerEffect(r),
         NEW s \in Runners, s # r
  PROVE  TofuInv(s)'
<1>1. /\ runner'[s] = runner[s] /\ TofuInv(s)
      /\ \A p \in applied : p \in applied'
      /\ \A k \in Jobs : Settled(k)
  BY RunnerSettles DEF PlansInv, RunnerEffect, Claims, Prepares, StartsPlan, Finishes, Plans,
     Applies, Fails, Loads, Records, Drops, Moves, Works
<1>2. CASE At(s, "idle")
  BY <1>1, <1>2 DEF TofuInv, Succeeded, At, Settling
<1>3. CASE ~At(s, "idle")
  <2>. DEFINE id == runner[s].id
              w == WorkdirOf(s)
              e == EnvOf(s)
  <2>1. /\ id \in Jobs /\ job[id].env = e /\ OwnPlace(w, e) /\ e \in Envs
        /\ job[id].type = "apply" => InPlace(job[id].source, e)
    BY <1>3, AtWork
  <2>2. ~At(r, "idle") => runner[r].id # id /\ EnvOf(r) # e
    <3>1. SUFFICES ASSUME ~At(r, "idle") PROVE runner[r].id # id /\ EnvOf(r) # e
      OBVIOUS
    <3>2. runner[r].id # id
      BY <1>3, <3>1 DEF OwnInv, DistinctWork
    <3>3. env[e].lastJob = id /\ env[EnvOf(r)].lastJob = runner[r].id
      BY <1>3, <3>1, AtWork
    <3>. QED BY <3>2, <3>3
  <2>3. job'[id] = job[id]
    <3>1. job[id].status # "queued"
      BY <1>3 DEF OwnInv, WorkInv
    <3>. QED BY <2>1, <2>2, <3>1 DEF RunnerEffect, Claims, Prepares, StartsPlan, Finishes,
                Plans, Applies, Fails, Loads, Records, Drops, Moves, Works, At
  <2>4. w \in Jobs => planFile'[w] = planFile[w]
    <3>1. SUFFICES ASSUME w \in Jobs PROVE planFile'[w] = planFile[w]
      OBVIOUS
    <3>2. job[w].env = e
      BY <2>1, <3>1, NoneAssumption DEF OwnPlace
    <3>3. CASE Prepares(r)
      <4>1. ~At(r, "idle")
        BY <3>3 DEF Prepares, Moves, At
      <4>2. w # runner[r].id
        BY <2>2, <3>2, <4>1, AtWork
      <4>. QED BY <3>1, <3>3, <4>2 DEF Prepares
    <3>4. CASE Plans(r)
      <4>1. ~At(r, "idle")
        BY <3>4 DEF Plans, Moves, At
      <4>2. w # WorkdirOf(r)
        BY <2>2, <3>1, <3>2, <4>1, AtWork, NoneAssumption DEF OwnPlace
      <4>. QED BY <3>1, <3>4, <4>2 DEF Plans
    <3>. QED BY <3>3, <3>4 DEF RunnerEffect, Claims, StartsPlan, Finishes, Applies, Fails,
                Loads, Records, Drops
  <2>5. resources'[e] = resources[e]
    <3>1. CASE Applies(r)
      <4>1. ~At(r, "idle")
        BY <3>1, AppliesSource
      <4>. QED BY <2>1, <2>2, <3>1, <4>1 DEF Applies
    <3>. QED BY <3>1 DEF RunnerEffect, Claims, Prepares, StartsPlan, Finishes, Plans, Fails,
                Loads, Records, Drops
  <2>6. job[id].type = "apply" => job'[job[id].source] = job[job[id].source]
    BY <1>1, <2>1 DEF InPlace, Settled
  <2>7. /\ Claimed(s)' = Claimed(s) /\ WorkdirOf(s)' = w /\ EnvOf(s)' = e
        /\ Succeeded(s)' = Succeeded(s)
    BY <1>1, <2>3 DEF Claimed, WorkdirOf, EnvOf, Succeeded, At
  <2>. HIDE DEF w, e
  <2>8. Succeeded(s) => w \in Jobs
    BY <1>1 DEF TofuInv, w
  <2>. QED BY <1>1, <2>3, <2>4, <2>5, <2>6, <2>7, <2>8 DEF TofuInv, At, w, e, Claimed
<1>. QED BY <1>2, <1>3

LEMMA RunnerKeepsTofu ==
  ASSUME TypeInv, OwnInv, RowsInv, PlansInv, NEW r \in Runners, RunnerEffect(r)
  PROVE  TofuInv(r)'
<1>. DEFINE id == runner[r].id
            w == WorkdirOf(r)
            e == EnvOf(r)
<1>1. TofuInv(r) /\ \A k \in Jobs : Settled(k)
  BY RunnerSettles DEF PlansInv
<1>2. ASSUME Records(r) \/ Drops(r) \/ Fails(r) \/ \E j \in Jobs : Claims(r, j)
      PROVE  TofuInv(r)'
  <2>1. runner'[r].pc \in {"idle", "failing", "claimed"}
    BY <1>2 DEF Records, Drops, Fails, Claims, Moves
  <2>. QED BY <2>1 DEF TofuInv, Succeeded, At, Settling
<1>3. ASSUME Prepares(r) PROVE TofuInv(r)'
  <2>1. /\ ~At(r, "idle") /\ runner'[r].pc = "prepared" /\ runner'[r].id = id
        /\ SameJob(id) /\ job'[id].workdir \in Jobs
        /\ job[id].type = "apply" => job'[id].workdir = job[job[id].source].workdir
    BY <1>3 DEF Prepares, Moves, Works, At
  <2>2. job[id].type = "apply" => job'[job[id].source] = job[job[id].source]
    BY <1>1, <2>1, AtWork DEF InPlace, Settled
  <2>3. ~Succeeded(r)' /\ ~At(r, "planning")'
    BY <2>1 DEF Succeeded, At, Settling
  <2>. QED BY <2>1, <2>2, <2>3 DEF TofuInv, Claimed, WorkdirOf, SameJob
<1>4. ASSUME StartsPlan(r) PROVE TofuInv(r)'
  <2>1. /\ At(r, "prepared") /\ runner'[r].pc = "planning" /\ runner'[r].id = id
        /\ SameJob(id) /\ job'[id].workdir = w /\ job[id].type = "plan"
    BY <1>4 DEF StartsPlan, Moves, Works, Claimed
  <2>2. w \in Jobs
    BY <1>1, <2>1 DEF TofuInv, At
  <2>3. ~Succeeded(r)' /\ ~At(r, "prepared")'
    BY <2>1 DEF Succeeded, At, Settling
  <2>. QED BY <2>1, <2>2, <2>3 DEF TofuInv, Claimed, WorkdirOf, SameJob
<1>5. ASSUME Plans(r) PROVE TofuInv(r)'
  <2>1. /\ At(r, "planning") /\ runner'[r].pc = "ran" /\ runner'[r].id = id /\ job' = job
        /\ \A v \in Jobs : planFile'[v] = IF v = w THEN id ELSE planFile[v]
    BY <1>5 DEF Plans, Moves
  <2>2. w \in Jobs /\ job[id].type = "plan"
    BY <1>1, <2>1 DEF TofuInv, At, Claimed
  <2>. QED BY <2>1, <2>2 DEF TofuInv, At, Claimed, WorkdirOf
<1>6. ASSUME Applies(r) PROVE TofuInv(r)'
  <2>1. /\ At(r, "prepared") /\ runner'[r].id = id /\ job' = job
        /\ \/ runner'[r].pc = "failing"
           \/ /\ runner'[r].pc = "ran"
              /\ job[planFile[w]].op # "destroy" => w \in resources'[e]
        /\ runner'[r].ok = runner[r].ok
    BY <1>6 DEF Applies, Moves
  <2>2. /\ job[id].type = "apply" /\ planFile[w] = job[id].source
        /\ job[job[id].source].op = job[id].op /\ job[id].source \in applied'
    BY <1>6, AppliesSource
  <2>3. w \in Jobs
    BY <1>1, <2>1 DEF TofuInv, At
  <2>. QED BY <2>1, <2>2, <2>3 DEF TofuInv, Succeeded, Settling, At, Claimed, WorkdirOf, EnvOf
<1>7. ASSUME Finishes(r) \/ Loads(r) PROVE TofuInv(r)'
  <2>1. /\ ~At(r, "idle") /\ runner'[r].id = id /\ runner'[r].pc \in Settling
        /\ SameJob(id) /\ job'[id].workdir = w
        /\ UNCHANGED <<planFile, resources, applied>>
        /\ runner'[r].pc \notin {"ran", "prepared", "planning"}
    BY <1>7 DEF Finishes, Loads, Moves, Works, WorkdirOf, Claimed, Settling, At, SameJob
  <2>2. runner'[r].ok => Succeeded(r)
    BY <1>7, <2>1, AtWork DEF Finishes, Loads, Moves, Succeeded, Settling, Working, At
  <2>3. Succeeded(r) =>
          /\ w \in Jobs
          /\ job[id].type = "plan" => planFile[w] = id
          /\ job[id].type = "apply" =>
               /\ job[id].source \in applied
               /\ job[id].op # "destroy" => w \in resources[e]
    BY <1>1 DEF TofuInv, Claimed
  <2>4. e' = e
    BY <2>1 DEF EnvOf, Claimed, SameJob
  <2>. HIDE DEF w, e
  <2>. QED BY <2>1, <2>2, <2>3, <2>4
           DEF TofuInv, Succeeded, At, Claimed, WorkdirOf, SameJob, e
<1>. QED BY <1>2, <1>3, <1>4, <1>5, <1>6, <1>7 DEF RunnerEffect

LEMMA RunnerKeepsPlans ==
  ASSUME TypeInv, OwnInv, RowsInv, PlansInv, NEW r \in Runners, RunnerEffect(r)
  PROVE  PlansInv'
<1>1. AppliedInv'
  <2>1. \A k \in Jobs : Settled(k)
    BY RunnerSettles
  <2>2. \A p \in applied : p \in Jobs /\ p \in approved /\ ~Unused(p)'
    BY <2>1 DEF PlansInv, AppliedInv, TypeInv, TypeOK, Settled, Unused
  <2>3. approved' = approved
    BY DEF RunnerEffect, Claims, Prepares, StartsPlan, Finishes, Plans, Applies, Fails, Loads,
       Records, Drops, Moves, Works
  <2>4. CASE Applies(r)
    <3>. DEFINE p == job[runner[r].id].source
    <3>1. InPlace(p, EnvOf(r)) /\ p \in approved /\ applied' = applied \union {p}
      BY <2>4, AppliesSource
    <3>2. job'[p].status # "absent"
      BY <2>1, <3>1 DEF InPlace, Settled, Unused
    <3>. QED BY <2>2, <2>3, <3>1, <3>2 DEF AppliedInv, Unused
  <2>5. CASE ~Applies(r)
    <3>1. applied' = applied
      BY <2>5 DEF RunnerEffect, Claims, Prepares, StartsPlan, Finishes, Plans, Fails, Loads,
         Records, Drops
    <3>. QED BY <2>2, <2>3, <3>1 DEF AppliedInv, Unused
  <2>. QED BY <2>4, <2>5
<1>. QED BY <1>1, RunnerKeepsWorkdirs, RunnerKeepsReviews, OthersKeepTofu, RunnerKeepsTofu
         DEF PlansInv

-----------------------------------------------------------------------------
(* The theorems *)

LEMMA InitPlans == Init => PlansInv
<1>. SUFFICES ASSUME Init PROVE PlansInv
  OBVIOUS
<1>1. WorkdirsOwned
  BY DEF Init, WorkdirsOwned, OwnPlace, Unused, AbsentJob, AbsentEnv
<1>2. \A e \in Envs : ReviewInv(e) /\ ApplyInv(e) /\ ActiveInv(e)
  BY NoneAssumption DEF Init, ReviewInv, ApplyInv, ActiveInv, AbsentEnv
<1>3. \A r \in Runners : TofuInv(r)
  BY DEF Init, TofuInv, Succeeded, At, Settling, IdleRunner
<1>4. AppliedInv
  BY DEF Init, AppliedInv
<1>. QED BY <1>1, <1>2, <1>3, <1>4 DEF PlansInv

LEMMA StepKeepsPlans ==
  TypeInv /\ OwnInv /\ RowsInv /\ PlansInv /\ [Next]_vars => PlansInv'
<1>. SUFFICES ASSUME TypeInv, OwnInv, RowsInv, PlansInv, [Next]_vars PROVE PlansInv'
  OBVIOUS
<1>1. ASSUME UNCHANGED <<env, job, runner, planFile, resources, approved, applied>>
      PROVE  PlansInv'
  BY <1>1 DEF PlansInv, WorkdirsOwned, OwnPlace, ReviewInv, ApplyInv, ActiveInv, InPlace,
     TofuInv, Succeeded, AppliedInv, At, Claimed, WorkdirOf, EnvOf, Unused
<1>2. ASSUME NEW c \in Clients, ClientStep(c) PROVE PlansInv'
  BY <1>1, <1>2, ClientSteps, InsertKeepsPlans, ApproveKeepsPlans DEF ClientEffect, Reads
<1>3. ASSUME NEW r \in Runners, Progress(r) \/ Abandon(r) PROVE PlansInv'
  BY <1>3, RunnerSteps, RunnerKeepsPlans
<1>. QED BY <1>1, <1>2, <1>3 DEF Next, vars

\* A plan.bin that is under review or may still be applied is left alone by every
\* job of every environment (prepareApplyJob and processPlanJob in main.go).
THEOREM PlansInvariant == Spec => [](TypeInv /\ OwnInv /\ RowsInv /\ PlansInv)
<1>. QED BY RowsInvariant, InitPlans, StepKeepsPlans, PTL DEF Spec

\* Infrastructure is changed by plans an administrator has approved, and by
\* nothing else: retries, re-plans and the destroy plans that overwrite the
\* plan.bin of a used workdir cannot smuggle another one in
\* (handleEnvironmentApply and handleEnvironmentRetry against processApplyJob).
THEOREM OnlyApprovedPlansRun == Spec => []OnlyApprovedPlansApplied
<1>1. PlansInv => OnlyApprovedPlansApplied
  BY DEF PlansInv, AppliedInv, OnlyApprovedPlansApplied
<1>. QED BY <1>1, PlansInvariant, PTL

\* What a reviewer reads is what an apply would run: the plan the environment
\* row names is done, has the operation and the spec of the row, and nothing has
\* overwritten its plan.bin.
THEOREM ReviewsAreCurrent == Spec => []ReviewedPlanIsCurrent
<1>1. RowsInv /\ PlansInv => ReviewedPlanIsCurrent
  <2>. SUFFICES ASSUME RowsInv, PlansInv, NEW e \in Envs,
                       env[e].status \in {"pending_approval", "approved"}
                PROVE  LET p == env[e].lastPlan
                       IN  /\ p # NoJob
                           /\ job[p].status = "done" /\ job[p].type = "plan"
                           /\ job[p].env = e
                           /\ job[p].op = env[e].op /\ job[p].spec = env[e].spec
                           /\ planFile[job[p].workdir] = p
    BY DEF ReviewedPlanIsCurrent
  <2>1. InPlace(env[e].lastPlan, e)
    BY DEF PlansInv, ReviewInv
  <2>2. LastJobInv(e)
    BY DEF RowsInv
  <2>. QED BY <2>1, <2>2, NoneAssumption DEF InPlace, LastJobInv
<1>. QED BY <1>1, PlansInvariant, PTL

\* The workdir an active environment names holds the tofu state of what runs.
THEOREM ActivesAreBacked == Spec => []ActiveIsBacked
<1>1. PlansInv => ActiveIsBacked
  BY DEF PlansInv, ActiveInv, ActiveIsBacked
<1>. QED BY <1>1, PlansInvariant, PTL
=============================================================================
