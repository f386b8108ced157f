------------------------------- MODULE JobPage -------------------------------
(***************************************************************************)
(* One browser tab on the job page (src/web/src/pages/JobDetail.tsx), the  *)
(* WebSocket that streams a job's status and log to it                     *)
(* (src/internal/api/ws.go) and the plan and apply routes of jobs          *)
(* (src/internal/api/jobs.go).                                             *)
(*                                                                         *)
(* The page draws on two sources that nothing orders: the record it loads  *)
(* and the stream's status messages. The route gives the page no key:      *)
(* another job in the path finds the state of the job before. The operator *)
(* is an administrator. Jobs have no environment here (the page only links *)
(* to the others'), a log is one chunk of one file, and the log as the     *)
(* page shows it, on which nothing depends, is left out.                   *)
(***************************************************************************)
EXTENDS Naturals, FiniteSets

CONSTANTS
  Jobs,         \* identities of jobs
  MaxJobLoads,  \* bound: loads in flight
  NoJob

ASSUME JobAssumption ==
  MaxJobLoads \in Nat \ {0} /\ NoJob \notin Jobs

VARIABLES
  jobRow,     \* the rows of the jobs
  jobTab,     \* the page: the job in its path and React's state
  jobSocket,  \* the socket of the path's job, both ends of it
  jobLoads,   \* the page's loads in flight
  jobCall     \* the request to apply under way

jobVars == <<jobRow, jobTab, jobSocket, jobLoads, jobCall>>
-----------------------------------------------------------------------------
(* Jobs, the routes that make them and the runner *)

JobEnded == {"done", "failed"}

JobRows == [status : {"absent", "queued", "running"} \union JobEnded,
            type : {"plan", "apply"},
            source : Jobs \union {NoJob},   \* of an apply job: its plan
            artifact : BOOLEAN]  \* has a workdir and a plan_path

NoJobRow == [status |-> "absent", type |-> "plan", source |-> NoJob, artifact |-> FALSE]

\* The length of a job's log: tofu's output before the plan_path is stored, or
\* that of the whole apply.
LogOf(r) ==
  IF (r.type = "plan" /\ r.artifact) \/ (r.type = "apply" /\ r.status \in JobEnded)
  THEN 1 ELSE 0

\* handleApply: a finished plan with an artifact.
CanDeriveApply(src) == src.type = "plan" /\ src.status = "done" /\ src.artifact

\* buildDerivedJob
DerivedApply(src) ==
  [NoJobRow EXCEPT !.status = "queued", !.type = "apply", !.source = src, !.artifact = TRUE]

\* Another user posts a plan job, or derives one of another job, which is as
\* good as posted.
JobPosted(j) ==
  /\ jobRow[j].status = "absent"
  /\ jobRow' = [jobRow EXCEPT ![j].status = "queued"]
  /\ UNCHANGED <<jobTab, jobSocket, jobLoads, jobCall>>

\* The runner: it stores the plan_path before it runs the plan.
JobRuns(j) ==
  /\ \/ jobRow[j].status = "queued" /\ jobRow' = [jobRow EXCEPT ![j].status = "running"]
     \/ jobRow[j].status = "running" /\ jobRow' = [jobRow EXCEPT ![j].artifact = TRUE]
  /\ UNCHANGED <<jobTab, jobSocket, jobLoads, jobCall>>

JobEnds(j) ==
  /\ jobRow[j].status = "running"
  /\ \E status \in (IF jobRow[j].artifact THEN JobEnded ELSE {"failed"}) :
       jobRow' = [jobRow EXCEPT ![j].status = status]
  /\ UNCHANGED <<jobTab, jobSocket, jobLoads, jobCall>>
-----------------------------------------------------------------------------
(* The page and its socket *)

\* A record as the page keeps it; its source is a link only.
JobRecords == [id : Jobs, row : JobRows]
RecordOf(j) == [id |-> j, row |-> [jobRow[j] EXCEPT !.source = NoJob]]
NoRecord == [id |-> NoJob, row |-> NoJobRow]

\* What one tick sends: a new status or none, and how much more of the log.
JobMessages == [status : {"none", "queued", "running"} \union JobEnded, more : 0 .. 1]
NoMessage == [status |-> "none", more |-> 0]

NoJobCall == [job |-> NoJob, created |-> NoJob]

Unmounted == [path |-> NoJob, shown |-> NoRecord, status |-> "none", applying |-> FALSE]

NoSocket == [state |-> "closed", told |-> "none", offset |-> 0, wire |-> NoMessage]

JobInit ==
  /\ jobRow = [j \in Jobs |-> NoJobRow]
  /\ jobTab = Unmounted /\ jobSocket = NoSocket
  /\ jobLoads = {} /\ jobCall = NoJobCall

JobTypeOK ==
  /\ jobRow \in [Jobs -> JobRows]
  /\ jobTab.path \in Jobs \union {NoJob}
  /\ jobTab.shown \in JobRecords \union {NoRecord}
  /\ jobTab.status \in {"none", "queued", "running"} \union JobEnded
  /\ jobTab.applying \in BOOLEAN
  /\ jobSocket.state \in {"connecting", "open", "subscribed", "closed"}
  /\ jobSocket.offset \in 0 .. 1
  /\ jobSocket.wire \in JobMessages
  /\ jobLoads \subseteq [job : Jobs, record : JobRecords \union {NoRecord}]
  /\ jobCall \in [job : Jobs \union {NoJob}, created : Jobs \union {NoJob}]

NewJobLoad(j) == [job |-> j, record |-> NoRecord]

\* The effects on the path's job: a load, a socket of its own, the old one closed.
Visit(j) ==
  /\ jobLoads' = jobLoads \union {NewJobLoad(j)}
  /\ jobSocket' = [NoSocket EXCEPT !.state = "connecting"]

JobOpen(j) ==
  /\ jobTab.path = NoJob /\ jobRow[j].status # "absent"
  /\ jobTab' = [Unmounted EXCEPT !.path = j]
  /\ jobLoads' = {NewJobLoad(j)}
  /\ jobSocket' = [NoSocket EXCEPT !.state = "connecting"]
  /\ UNCHANGED <<jobRow, jobCall>>

JobLeave ==
  /\ jobTab.path # NoJob
  /\ jobTab' = Unmounted /\ jobSocket' = NoSocket /\ jobLoads' = {}
  /\ UNCHANGED <<jobRow, jobCall>>

\* The link to the source job, or the browser's history: the page stays mounted.
JobFollow(j) ==
  /\ jobTab.path \notin {NoJob, j} /\ jobRow[j].status # "absent"
  /\ Cardinality(jobLoads) < MaxJobLoads
  /\ jobTab' = [jobTab EXCEPT !.path = j]
  /\ Visit(j)
  /\ UNCHANGED <<jobRow, jobCall>>

SocketOpens ==
  /\ jobSocket.state = "connecting"
  /\ jobSocket' = [jobSocket EXCEPT !.state = "open"]
  /\ UNCHANGED <<jobRow, jobTab, jobLoads, jobCall>>

\* The connection is lost; the page does not connect again.
SocketCloses ==
  /\ jobSocket.state # "closed"
  /\ jobSocket' = NoSocket
  /\ UNCHANGED <<jobRow, jobTab, jobLoads, jobCall>>

\* Mutant: nothing more is told of a job that has ended.
TickUntilEnd ==
  LET r == jobRow[jobTab.path]
  IN  /\ jobSocket.state \in {"open", "subscribed"}
      /\ r.status \notin JobEnded
      /\ jobSocket.wire = NoMessage
      /\ r.status # jobSocket.told \/ LogOf(r) # jobSocket.offset
      /\ jobSocket' = [jobSocket EXCEPT
           !.state = "subscribed", !.told = r.status, !.offset = LogOf(r),
           !.wire = [status |-> IF r.status = jobSocket.told THEN "none" ELSE r.status,
                     more |-> LogOf(r) - jobSocket.offset]]
      /\ UNCHANGED <<jobRow, jobTab, jobLoads, jobCall>>

\* Mutant: the first tick after a subscription tells no status, as the page loads
\* the record itself.
TickTellsChanges ==
  LET r == jobRow[jobTab.path]
  IN  /\ jobSocket.state \in {"open", "subscribed"}
      /\ jobSocket.wire = NoMessage
      /\ r.status # jobSocket.told \/ LogOf(r) # jobSocket.offset
      /\ jobSocket' = [jobSocket EXCEPT
           !.state = "subscribed", !.told = r.status, !.offset = LogOf(r),
           !.wire = [status |-> IF jobSocket.told \in {"none", r.status} THEN "none" ELSE r.status,
                     more |-> LogOf(r) - jobSocket.offset]]
      /\ UNCHANGED <<jobRow, jobTab, jobLoads, jobCall>>

\* The first tick follows the subscription, which starts at the first byte of
\* the log.  A status is told when it differs from the one told last, then what
\* the log has beyond the offset.  (The row and the log are read as one; bound:
\* one message is under way.)
Tick ==
  LET r == jobRow[jobTab.path]
  IN  /\ jobSocket.state \in {"open", "subscribed"}
      /\ jobSocket.wire = NoMessage
      /\ r.status # jobSocket.told \/ LogOf(r) # jobSocket.offset
      /\ jobSocket' = [jobSocket EXCEPT
           !.state = "subscribed", !.told = r.status, !.offset = LogOf(r),
           !.wire = [status |-> IF r.status = jobSocket.told THEN "none" ELSE r.status,
                     more |-> LogOf(r) - jobSocket.offset]]
      /\ UNCHANGED <<jobRow, jobTab, jobLoads, jobCall>>

\* onmessage: the status goes into whatever record is shown (and the chunks behind
\* whatever log is shown).
OnMessage ==
  LET m == jobSocket.wire
      told == m.status # "none"
  IN  /\ m # NoMessage
      /\ jobTab' = [jobTab EXCEPT
           !.status = IF told THEN m.status ELSE @,
           !.shown.row.status = IF told /\ jobTab.shown # NoRecord THEN m.status ELSE @]
      /\ jobSocket' = [jobSocket EXCEPT !.wire = NoMessage]
      /\ UNCHANGED <<jobRow, jobLoads, jobCall>>
-----------------------------------------------------------------------------
(* Loading *)

JobRefresh ==
  /\ jobTab.path # NoJob /\ Cardinality(jobLoads) < MaxJobLoads
  /\ jobLoads' = jobLoads \union {NewJobLoad(jobTab.path)}
  /\ UNCHANGED <<jobRow, jobTab, jobSocket, jobCall>>

\* The load's request for the record; another one, for the log, goes along with it.
JobRead(l) ==
  /\ l.record = NoRecord
  /\ jobLoads' = (jobLoads \ {l}) \union {[l EXCEPT !.record = RecordOf(l.job)]}
  /\ UNCHANGED <<jobRow, jobTab, jobSocket, jobCall>>

\* The record is shown (and the log that the second request brought, if it did).
JobLoaded(l) ==
  /\ l.record # NoRecord
  /\ jobTab' = [jobTab EXCEPT !.shown = l.record, !.status = l.record.row.status]
  /\ jobLoads' = jobLoads \ {l}
  /\ UNCHANGED <<jobRow, jobSocket, jobCall>>

JobLoadFails(l) ==
  /\ jobLoads' = jobLoads \ {l}
  /\ UNCHANGED <<jobRow, jobTab, jobSocket, jobCall>>
-----------------------------------------------------------------------------
(* Applying *)

\* canApply of the record shown, its merged status included.
OffersJobApply == jobTab.shown # NoRecord /\ CanDeriveApply(jobTab.shown.row)

JobApply ==
  /\ OffersJobApply /\ ~jobTab.applying /\ jobCall = NoJobCall
  /\ jobTab' = [jobTab EXCEPT !.applying = TRUE]
  /\ jobCall' = [NoJobCall EXCEPT !.job = jobTab.shown.id]
  /\ UNCHANGED <<jobRow, jobSocket, jobLoads>>

\* handleApply
JobServeApply(j) ==
  /\ jobCall.job # NoJob /\ jobCall.created = NoJob
  /\ CanDeriveApply(jobRow[jobCall.job])
  /\ jobRow[j].status = "absent"
  /\ jobRow' = [jobRow EXCEPT ![j] = DerivedApply(jobCall.job)]
  /\ jobCall' = [jobCall EXCEPT !.created = j]
  /\ UNCHANGED <<jobTab, jobSocket, jobLoads>>

\* The page goes to the job that was created, even if it was left meanwhile.
JobCreated ==
  /\ jobCall.created # NoJob
  /\ jobTab' = [(IF jobTab.path = NoJob THEN Unmounted ELSE jobTab)
                  EXCEPT !.path = jobCall.created, !.applying = FALSE]
  /\ Visit(jobCall.created)
  /\ jobCall' = NoJobCall
  /\ UNCHANGED jobRow

\* Mutant: the button stays disabled when the server refuses.
ApplyFailsForGood ==
  /\ jobCall # NoJobCall
  /\ jobCall' = NoJobCall
  /\ UNCHANGED <<jobRow, jobTab, jobSocket, jobLoads>>

\* Refused, or lost.
JobApplyFails ==
  /\ jobCall # NoJobCall
  /\ jobTab' = [jobTab EXCEPT !.applying = FALSE]
  /\ jobCall' = NoJobCall
  /\ UNCHANGED <<jobRow, jobSocket, jobLoads>>

-----------------------------------------------------------------------------
JobNext ==
  \/ \E j \in Jobs : JobPosted(j) \/ JobRuns(j) \/ JobEnds(j)
  \/ \E j \in Jobs : JobOpen(j) \/ JobFollow(j) \/ JobServeApply(j)
  \/ JobLeave \/ SocketOpens \/ SocketCloses \/ Tick \/ OnMessage
  \/ JobRefresh \/ JobApply \/ JobCreated \/ JobApplyFails
  \/ \E l \in jobLoads : JobRead(l) \/ JobLoaded(l) \/ JobLoadFails(l)
-----------------------------------------------------------------------------
(* Properties *)

\* The page merges a status into whatever record it shows, so after a link or the
\* history menu "done" of one job may stand in the record of another, which is then
\* offered for applying, and still is when the path is that other job's again.  Once
\* the new stream has spoken and was heard, the offer is sound: the path's own record
\* has the button only if the server would derive an apply of it.
ApplyOfferIsSound ==
  LET heard == jobSocket.told # "none" /\ jobSocket.wire.status = "none"
  IN  OffersJobApply /\ jobTab.shown.id = jobTab.path /\ heard
        => CanDeriveApply(jobRow[jobTab.path])

\* While the stream of a job is up, the page comes to say that the job ended.
EndIsAnnounced ==
  \A j \in Jobs :
    /\ jobTab.path = j /\ jobSocket.state \in {"open", "subscribed"}
    /\ jobRow[j].status \in JobEnded /\ jobSocket.told \notin JobEnded
    ~> jobTab.path # j \/ jobSocket.state \notin {"open", "subscribed"} \/ jobTab.status \in JobEnded

\* The apply button is not disabled for ever.
ApplyingEnds == jobTab.applying ~> ~jobTab.applying
=============================================================================
