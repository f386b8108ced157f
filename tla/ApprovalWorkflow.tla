-------------------------- MODULE ApprovalWorkflow --------------------------
(***************************************************************************)
(* What the product promises about changing infrastructure, with no jobs,  *)
(* runners, revisions or requests: each environment is changed only by     *)
(* running a plan that was reviewed and approved, every new plan voids the *)
(* approval before it, and an apply that failed may be run again from the  *)
(* same plan.  Orchestrator is shown to implement it.                      *)
(***************************************************************************)
CONSTANTS Envs, Plans, NoPlan

VARIABLES
  phase,   \* where each environment is between request, review and result
  ticket,  \* the approved plan an environment may run, or NoPlan
  ran      \* the plans that have been run

vars == <<phase, ticket, ran>>

Init ==
  /\ phase = [e \in Envs |-> "absent"]
  /\ ticket = [e \in Envs |-> NoPlan]
  /\ ran = {}

Move(e, from, to) ==
  /\ phase[e] \in from
  /\ phase' = [phase EXCEPT ![e] = to]

\* A new plan, for whatever operation, or another attempt at one.
RequestPlan(e) ==
  /\ Move(e, {"absent", "review", "approved", "settled", "failed"}, "planning")
  /\ ticket' = [ticket EXCEPT ![e] = NoPlan]
  /\ ran' = ran

PlanEnds(e) ==
  /\ Move(e, {"planning"}, "review") \/ Move(e, {"planning"}, "failed")
  /\ UNCHANGED <<ticket, ran>>

\* Approval is given to a plan that no apply has run yet and that no other
\* environment holds.
Approve(e, p) ==
  /\ p \notin ran /\ \A d \in Envs : ticket[d] # p
  /\ Move(e, {"review"}, "approved")
  /\ ticket' = [ticket EXCEPT ![e] = p]
  /\ ran' = ran

StartApply(e) ==
  /\ ticket[e] # NoPlan
  /\ Move(e, {"approved", "failed"}, "applying")
  /\ UNCHANGED <<ticket, ran>>

Run(e) ==
  /\ phase[e] = "applying"
  /\ ran' = ran \union {ticket[e]}
  /\ UNCHANGED <<phase, ticket>>

\* An apply succeeds only if its plan has run.
ApplyEnds(e) ==
  /\ \/ ticket[e] \in ran /\ Move(e, {"applying"}, "settled")
     \/ Move(e, {"applying"}, "failed")
  /\ UNCHANGED <<ticket, ran>>

Next ==
  \E e \in Envs :
    \/ RequestPlan(e)
    \/ PlanEnds(e)
    \/ \E p \in Plans : Approve(e, p)
    \/ StartApply(e)
    \/ Run(e)
    \/ ApplyEnds(e)

Spec == Init /\ [][Next]_vars
=============================================================================
