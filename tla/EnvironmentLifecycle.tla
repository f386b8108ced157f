------------------------ MODULE EnvironmentLifecycle ------------------------
(***************************************************************************)
(* The vocabulary and the guards of the environment lifecycle: which       *)
(* request may be queued from which status.  Everything here is a pure     *)
(* function of an environment row, as in internal/domain and in the        *)
(* validate* helpers of internal/api/environments.go.                      *)
(*                                                                         *)
(* "absent" stands for a row that does not exist yet.  The statuses        *)
(* "draft" and "destroying" are declared by the code; the API and the      *)
(* runner never write them, so they occur in the guards only.              *)
(***************************************************************************)

EnvStatuses == {"absent", "draft", "planning", "pending_approval", "approved",
                "applying", "active", "destroying", "destroyed", "failed"}

Approvals == {"not_requested", "pending", "approved"}

\* The operations the lifecycle knows, and the ones a request body may carry:
\* the JSON field is a free string, "other" stands for all remaining ones.
Operations == {"create", "update", "destroy"}
RequestOperations == Operations \union {"other"}

JobStatuses == {"absent", "queued", "running", "done", "failed"}
JobTypes == {"plan", "apply"}

\* Mutant: an environment that applies counts as free.
IsEnvironmentBusyPlanning(status) == status \in {"planning", "destroying"}

IsEnvironmentBusy(status) == status \in {"planning", "applying", "destroying"}

CanQueuePlan(status, op) ==
  /\ ~IsEnvironmentBusy(status)
  /\ \/ op = "create" /\ status \in {"draft", "destroyed"}
     \/ op = "update" /\ status \notin {"draft", "destroyed"}

CanApprovePlan(status, approval) ==
  status = "pending_approval" /\ approval = "pending"

\* Mutant: a plan that awaits approval can be applied.
CanQueueApplyUnapproved(status, approval, op) ==
  /\ status \in {"pending_approval", "approved"}
  /\ approval # "not_requested"
  /\ op \in Operations

CanQueueApply(status, approval, op) ==
  status = "approved" /\ approval = "approved" /\ op \in Operations

CanQueueDestroy(status) == ~IsEnvironmentBusy(status) /\ status # "destroyed"

CanRetry(status) == status = "failed"

\* Mutant: the busy check is left to CanQueuePlan, which a free-form operation
\* never reaches.
PlanAccessWhileBusy(status, op) ==
  /\ op # "destroy"
  /\ status = "destroyed" => op = "create"
  /\ op \in {"create", "update"} => CanQueuePlan(status, op)

\* POST /plan: destroy has a route of its own, a busy environment is refused,
\* and CanQueuePlan is consulted for create and for update only.
PlanAccess(status, op) ==
  /\ op # "destroy"
  /\ ~IsEnvironmentBusy(status)
  /\ status = "destroyed" => op = "create"
  /\ op \in {"create", "update"} => CanQueuePlan(status, op)

\* Mutant: only the retry of an apply needs an administrator.
RetryAccessOfDestroyPlans(isAdmin, status, jobType, jobOp) ==
  (jobType = "apply" => isAdmin) /\ status # "destroyed" /\ CanRetry(status)

\* POST /retry: the failed job decides whether an administrator is needed.
RetryAccess(isAdmin, status, jobType, jobOp) ==
  /\ jobType = "apply" \/ jobOp = "destroy" => isAdmin
  /\ status # "destroyed"
  /\ CanRetry(status)
=============================================================================
