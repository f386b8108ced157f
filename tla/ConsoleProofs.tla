---------------------------- MODULE ConsoleProofs ----------------------------
(***************************************************************************)
(* Proofs about EnvironmentConsole, for every number of environments and   *)
(* clicks, every retry budget and bound, and any network.                  *)
(*                                                                         *)
(* The page holds a request in many places: in flight, in an open dialog,  *)
(* behind the retry button, in the load that ends it.  All copies of one   *)
(* click's request ask for the same, of the same row; this, with the       *)
(* revision that rises with every write, is what the safety of the page    *)
(* rests on.                                                               *)
(***************************************************************************)
EXTENDS EnvironmentConsole, TLAPS

-----------------------------------------------------------------------------
(* Type correctness *)

\* A mounted page has a path; a review page that polls has an environment to
\* poll for; the error box repeats a call; a dialog has one to be sent; a load that
\* ends an action is of the environment the action was for.
PageInv ==
  /\ page.name # "elsewhere" => page.path \in Envs
  /\ page.name = "review" /\ shown # Nothing => page.polls \in Envs
  /\ alert.offered => alert.retry # NoCall
  /\ dialog # NoCall => dialog.phase = "sent"
  /\ \A l \in loads : l.after # NoCall => l.env = l.after.env

TypeInv == TypeOK /\ PageInv

LEMMA RecordTypes ==
  /\ NoRow \in Rows /\ Created \in Rows
  /\ NoCall \notin Calls
  /\ \A s \in Shown : s.row \in Rows /\ s.env \in Envs \union {NoEnv}
                      /\ (s # Nothing <=> s.env \in Envs)
<1>1. NoRow \in Rows
  BY ConsoleAssumption
     DEF NoRow, Rows, EnvStatuses, Approvals, Operations, JobTypes
<1>2. Created \in Rows
  BY <1>1 DEF Created, Rows, EnvStatuses
<1>3. NoCall \notin Calls
  BY ConsoleAssumption DEF NoCall, Calls
<1>4. \A s \in Shown : s.row \in Rows /\ s.env \in Envs \union {NoEnv}
                       /\ (s # Nothing <=> s.env \in Envs)
  BY <1>1, ConsoleAssumption DEF Shown, Nothing
<1>. QED BY <1>1, <1>2, <1>3, <1>4

LEMMA CallTypes ==
  ASSUME TypeInv, page.name # "elsewhere", NEW kind \in Kinds, NEW i \in Clicks,
         NEW name \in Envs \union {NoEnv}
  PROVE  [Call(kind, name) EXCEPT !.click = i] \in Calls
BY DEF TypeInv, TypeOK, PageInv, Call, NoCall, Calls

LEMMA NextRowTypes ==
  ASSUME NEW r \in Rows
  PROVE  /\ [r EXCEPT !.rev = @ + 1] \in Rows
         /\ [r EXCEPT !.rev = @ + 1].rev = r.rev + 1
         /\ [r EXCEPT !.rev = @ + 1].retry = r.retry
BY DEF Rows

LEMMA ResetTypes ==
  ASSUME NEW r \in Rows
  PROVE  ResetAttempt(r) \in Rows /\ ResetAttempt(r).rev = r.rev /\ ResetAttempt(r).retry = r.retry
BY DEF ResetAttempt, Rows, Approvals

\* A row the server writes is a row, one revision further: the retry budget is
\* respected because the handler compares before it counts.
LEMMA AfterTypes ==
  ASSUME NEW r \in Rows, NEW kind \in Kinds, Accepts(kind, r)
  PROVE  After(kind, r) \in Rows /\ After(kind, r).rev = r.rev + 1
<1>. DEFINE next == [r EXCEPT !.rev = @ + 1]
            reset == ResetAttempt(next)
            queued == [reset EXCEPT !.status = "planning", !.job = "plan",
                                    !.jobFailed = FALSE, !.plan = TRUE]
<1>1. next \in Rows /\ next.rev = r.rev + 1 /\ next.retry = r.retry
  BY NextRowTypes
<1>2. reset \in Rows /\ reset.rev = r.rev + 1 /\ reset.retry = r.retry
  <2>. HIDE DEF next
  <2>. QED BY <1>1, ResetTypes
<1>3. queued \in Rows /\ queued.rev = r.rev + 1
  <2>. HIDE DEF reset
  <2>. QED BY <1>2 DEF Rows, EnvStatuses, JobTypes
<1>4. /\ kind = "plan" => After(kind, r) = [queued EXCEPT !.op = "update"]
      /\ kind = "destroy" => After(kind, r) = [queued EXCEPT !.op = "destroy"]
      /\ kind = "approve" =>
           After(kind, r) = [next EXCEPT !.status = "approved", !.approval = "approved"]
      /\ kind = "apply" => After(kind, r) =
           [next EXCEPT !.status = "applying", !.job = "apply", !.jobFailed = FALSE]
      /\ kind = "retry" => After(kind, r) = Retried(next)
  BY DEF After
<1>. HIDE DEF next, queued, reset
<1>5. CASE kind \in {"plan", "destroy"}
  BY <1>3, <1>4, <1>5 DEF Rows, Operations
<1>6. CASE kind \in {"approve", "apply"}
  BY <1>1, <1>4, <1>6 DEF Rows, EnvStatuses, Approvals, JobTypes
<1>7. CASE kind = "retry"
  <2>1. r.retry + 1 \in 0 .. MaxRetries
    BY <1>7, ConsoleAssumption DEF Accepts, Rows
  <2>2. PICK status \in {"planning", "applying"} :
          Retried(next) = [reset EXCEPT !.retry = r.retry + 1, !.jobFailed = FALSE,
                                        !.status = status]
    BY <1>2 DEF Retried, reset
  <2>3. /\ Retried(next) \in Rows
        /\ Retried(next).rev = r.rev + 1
    BY <1>2, <2>1, <2>2 DEF Rows, EnvStatuses
  <2>. QED BY <1>4, <1>7, <2>3
<1>. QED BY <1>5, <1>6, <1>7 DEF Kinds

LEMMA FailureIs ==
  ASSUME NEW r \in Rows, NEW o \in Failures(r)
  PROVE  /\ o \in Rows /\ o.rev = r.rev /\ o.status = "failed"
<1>1. PICK marked \in BOOLEAN : o = [r EXCEPT !.status = "failed", !.jobFailed = marked]
  BY DEF Failures
<1>. QED BY <1>1 DEF Rows, EnvStatuses

LEMMA OutcomeTypes ==
  ASSUME NEW r \in Rows, NEW o \in Outcomes(r)
  PROVE  o \in Rows /\ o.rev = r.rev + 1
<1>. DEFINE next == [r EXCEPT !.rev = @ + 1]
<1>1. next \in Rows /\ next.rev = r.rev + 1
  BY NextRowTypes
<1>2. /\ r.status \in {"planning", "applying"}
      /\ \/ o \in Failures(next)
         \/ o = [next EXCEPT !.status = "pending_approval", !.approval = "pending", !.plan = TRUE]
         \/ o = [next EXCEPT !.status = "destroyed"]
         \/ o = [next EXCEPT !.status = "active"]
  <2>1. CASE r.status = "planning"
    BY <2>1 DEF Outcomes
  <2>2. CASE r.status = "applying"
    BY <2>2 DEF Outcomes
  <2>. QED BY <2>1, <2>2 DEF Outcomes
<1>. HIDE DEF next
<1>. QED BY <1>1, <1>2, FailureIs DEF Rows, EnvStatuses, Approvals

LEMMA ChangedCallTypes ==
  ASSUME NEW c \in Calls
  PROVE  /\ [c EXCEPT !.live = FALSE] \in Calls
         /\ \A phase \in {"ok", "conflict", "error"} : [c EXCEPT !.phase = phase] \in Calls
         /\ [c EXCEPT !.phase = "sent", !.again = TRUE] \in Calls
BY DEF Calls

LEMMA NewLoadTypes ==
  ASSUME NEW e \in Envs, NEW c \in Calls \union {NoCall}
  PROVE  /\ NewLoad(e, c) \in Loads /\ ~NewLoad(e, c).read
         /\ NewLoad(e, c).after = c /\ NewLoad(e, c).env = e
BY RecordTypes DEF NewLoad, Loads

LEMMA ReadLoadTypes ==
  ASSUME TypeInv, NEW l \in loads, ReadRow(l)
  PROVE  \E m \in Loads :
           /\ loads' = (loads \ {l}) \union {m}
           /\ m.env = l.env /\ m.after = l.after /\ m.read /\ m.row = row[l.env]
<1>1. PICK plan \in {row[l.env].plan, FALSE} :
        loads' = (loads \ {l}) \union
                 {[l EXCEPT !.read = TRUE, !.row = row[l.env], !.plan = plan]}
  BY DEF ReadRow
<1>. DEFINE m == [l EXCEPT !.read = TRUE, !.row = row[l.env], !.plan = plan]
<1>2. l \in Loads /\ l.env \in Envs /\ row[l.env] \in Rows /\ plan \in BOOLEAN
  BY DEF TypeInv, TypeOK, Loads, Rows
<1>3. m \in Loads /\ m.env = l.env /\ m.after = l.after /\ m.read /\ m.row = row[l.env]
  BY <1>2 DEF Loads
<1>. HIDE DEF m
<1>. QED BY <1>1, <1>3 DEF m

LEMMA AnswerTypes ==
  ASSUME TypeInv, NEW c \in calls, NEW phase \in {"ok", "conflict", "error"},
         Answer(c, phase)
  PROVE  calls' \subseteq Calls
<1>1. c \in Calls /\ [c EXCEPT !.phase = phase] \in Calls /\ calls \subseteq Calls
  BY ChangedCallTypes DEF TypeInv, TypeOK
<1>. QED BY <1>1 DEF Answer

LEMMA InitTypes == Init => TypeInv
<1>. SUFFICES ASSUME Init PROVE TypeInv
  OBVIOUS
<1>1. row \in [Envs -> Rows]
  BY RecordTypes DEF Init
<1>2. PageInv
  BY DEF Init, PageInv, Quiet
<1>3. /\ page \in [name : PageNames, path : Envs \union {NoEnv}, polls : Envs \union {NoEnv}]
      /\ shown \in Shown
      /\ alert \in [offered : BOOLEAN, retry : Calls \union {NoCall}]
      /\ busy \in Clicks \union {NoClick} /\ dialog \in Calls \union {NoCall}
      /\ typed \in Envs \union {NoEnv}
      /\ loads \subseteq Loads /\ calls \subseteq Calls /\ effects \in [Clicks -> Nat]
  BY DEF Init, PageNames, Shown, Quiet
<1>. QED BY <1>1, <1>2, <1>3 DEF TypeInv, TypeOK

LEMMA SendTypes ==
  ASSUME TypeInv, NEW call \in Calls, Send(call), UNCHANGED dialog
  PROVE  TypeInv'
<1>1. call.click \in Clicks
  BY DEF Calls
<1>2. TypeOK'
  BY <1>1 DEF TypeInv, TypeOK, Send, Quiet
<1>3. PageInv'
  BY DEF TypeInv, PageInv, Send, Quiet
<1>. QED BY <1>2, <1>3 DEF TypeInv

LEMMA StartLoadTypes ==
  ASSUME TypeInv, NEW e \in Envs, StartLoad(e)
  PROVE  TypeInv'
<1>1. NewLoad(e, NoCall) \in Loads /\ NewLoad(e, NoCall).after = NoCall
  BY NewLoadTypes
<1>2. TypeOK'
  BY <1>1 DEF TypeInv, TypeOK, StartLoad
<1>3. PageInv'
  BY <1>1 DEF TypeInv, TypeOK, PageInv, StartLoad
<1>. QED BY <1>2, <1>3 DEF TypeInv

LEMMA AlertTypes ==
  ASSUME TypeInv, NEW l \in loads, NEW failed \in BOOLEAN
  PROVE  /\ AlertAfter(l, failed) \in [offered : BOOLEAN, retry : Calls \union {NoCall}]
         /\ AlertAfter(l, failed).offered => AlertAfter(l, failed).retry # NoCall
<1>1. l.after \in Calls \union {NoCall} /\ NoCall.phase = "none"
  BY DEF TypeInv, TypeOK, Loads, NoCall
<1>2. CASE l.after.phase = "conflict"
  BY <1>1, <1>2 DEF AlertAfter
<1>3. CASE l.after.phase # "conflict"
  BY <1>3 DEF AlertAfter, TypeInv, TypeOK, PageInv
<1>. QED BY <1>2, <1>3

\* The interval of a review page that shows something has a path to load.
LEMMA PollTypes ==
  ASSUME TypeInv, NEW l \in loads, NEW e \in PollTargets(l)
  PROVE  e \in Envs \union {NoEnv} /\ (page.name = "review" => e \in Envs)
<1>1. page.path \in Envs \union {NoEnv} /\ page.polls \in Envs \union {NoEnv} /\ l.env \in Envs
  BY DEF TypeInv, TypeOK, Loads
<1>2. e \in {page.polls, page.path}
  BY DEF PollTargets
<1>3. ASSUME page.name = "review" PROVE e \in Envs
  <2>1. page.path \in Envs
    BY <1>3 DEF TypeInv, PageInv
  <2>2. CASE e = page.path
    BY <2>1, <2>2
  <2>3. CASE e # page.path
    <3>1. shown.env = l.env
      BY <1>3, <2>3 DEF PollTargets
    <3>2. shown # Nothing
      BY <1>1, <3>1, ConsoleAssumption DEF Nothing
    <3>. QED BY <1>2, <1>3, <2>3, <3>2 DEF TypeInv, PageInv
  <2>. QED BY <2>2, <2>3
<1>. QED BY <1>1, <1>2, <1>3

LEMMA OperatorTypes ==
  ASSUME TypeInv, Operator
  PROVE  TypeInv'
<1>1. ASSUME NEW name \in PageNames, NEW e \in Envs, Open(name, e) PROVE TypeInv'
  <2>1. NewLoad(e, NoCall) \in Loads /\ NewLoad(e, NoCall).after = NoCall
    BY NewLoadTypes
  <2>2. calls' \subseteq Calls
    <3>1. ASSUME NEW c \in calls' PROVE c \in Calls
      <4>1. PICK d \in calls : c = [d EXCEPT !.live = FALSE]
        BY <1>1 DEF Open
      <4>2. d \in Calls
        BY DEF TypeInv, TypeOK
      <4>. QED BY <4>1, <4>2, ChangedCallTypes
    <3>. QED BY <3>1
  <2>3. TypeOK'
    BY <1>1, <2>1, <2>2 DEF TypeInv, TypeOK, Open, Quiet, Shown
  <2>4. PageInv'
    BY <1>1, <2>1 DEF PageInv, Open, Quiet
  <2>. QED BY <2>3, <2>4 DEF TypeInv
<1>2. ASSUME NEW e \in Envs, Jump(e) PROVE TypeInv'
  <2>1. NewLoad(e, NoCall) \in Loads /\ NewLoad(e, NoCall).after = NoCall
    BY NewLoadTypes
  <2>2. TypeOK'
    BY <1>2, <2>1 DEF TypeInv, TypeOK, Jump
  <2>3. PageInv'
    BY <1>2, <2>1 DEF TypeInv, TypeOK, PageInv, Jump
  <2>. QED BY <2>2, <2>3 DEF TypeInv
<1>3. ASSUME NEW e \in Envs, Type(e) PROVE TypeInv'
  BY <1>3 DEF TypeInv, TypeOK, PageInv, Type
<1>4. ASSUME NEW i \in Clicks, Click(i) PROVE TypeInv'
  <2>1. PICK kind \in {"plan", "retry", "approve"} :
          /\ page.name \in {"detail", "approval"}
          /\ Send([Call(kind, NoEnv) EXCEPT !.click = i])
    BY <1>4 DEF Click, OffersPlan, OffersRetry, OffersApprove
  <2>2. [Call(kind, NoEnv) EXCEPT !.click = i] \in Calls
    BY <2>1, CallTypes DEF Kinds
  <2>. QED BY <1>4, <2>1, <2>2, SendTypes DEF Click
<1>5. ASSUME NEW i \in Clicks, Ask(i) PROVE TypeInv'
  <2>1. dialog' \in Calls
    <3>1. typed \in Envs \union {NoEnv}
      BY DEF TypeInv, TypeOK
    <3>2. page.name = "approval"
      BY <1>5 DEF Ask, OffersApply, OffersDestroy
    <3>. QED BY <1>5, <3>1, <3>2, CallTypes DEF Ask, Kinds
  <2>2. dialog'.phase = "sent"
    BY <1>5 DEF Ask, Call, NoCall
  <2>3. TypeOK'
    BY <1>5, <2>1 DEF TypeInv, TypeOK, Ask
  <2>4. PageInv'
    BY <1>5, <2>2 DEF TypeInv, PageInv, Ask
  <2>. QED BY <2>3, <2>4 DEF TypeInv
<1>6. ASSUME Refresh PROVE TypeInv'
  BY <1>6, StartLoadTypes DEF Refresh, TypeInv, PageInv
<1>7. ASSUME Confirm PROVE TypeInv'
  BY <1>7, SendTypes DEF Confirm, TypeInv, TypeOK
<1>8. ASSUME Cancel PROVE TypeInv'
  BY <1>8 DEF TypeInv, TypeOK, PageInv, Cancel
<1>9. ASSUME RetryLast PROVE TypeInv'
  <2>1. alert.retry \in Calls
    BY <1>9 DEF RetryLast, TypeInv, TypeOK, PageInv
  <2>2. [alert.retry EXCEPT !.phase = "sent", !.again = TRUE] \in Calls
    BY <2>1, ChangedCallTypes
  <2>. QED BY <1>9, <2>2, SendTypes DEF RetryLast
<1>. QED BY <1>1, <1>2, <1>3, <1>4, <1>5, <1>6, <1>7, <1>8, <1>9 DEF Operator

LEMMA NetworkTypes ==
  ASSUME TypeInv, Network
  PROVE  TypeInv'
<1>1. ASSUME NEW l \in loads, ReadRow(l) PROVE TypeInv'
  <2>1. PICK m \in Loads :
          /\ loads' = (loads \ {l}) \union {m}
          /\ m.env = l.env /\ m.after = l.after
    BY <1>1, ReadLoadTypes
  <2>3. TypeOK'
    BY <1>1, <2>1 DEF TypeInv, TypeOK, ReadRow
  <2>4. PageInv'
    BY <1>1, <2>1 DEF TypeInv, PageInv, ReadRow
  <2>. QED BY <2>3, <2>4 DEF TypeInv
<1>2. ASSUME NEW l \in loads, Deliver(l) PROVE TypeInv'
  <2>1. shown' \in Shown
    BY <1>2, RecordTypes DEF Deliver, TypeInv, TypeOK, Loads, Shown
  <2>2. PICK e \in PollTargets(l) : page' = [page EXCEPT !.polls = e]
    BY <1>2 DEF Deliver
  <2>3. busy' \in Clicks \union {NoClick} /\ dialog' \in Calls \union {NoCall}
    BY <1>2 DEF Deliver, Ends, TypeInv, TypeOK
  <2>4. dialog' \in {dialog, NoCall}
    BY <1>2 DEF Deliver, Ends
  <2>5. TypeOK'
    BY <1>2, <2>1, <2>2, <2>3, PollTypes, AlertTypes DEF Deliver, TypeInv, TypeOK
  <2>6. page'.path = page.path /\ page'.name = page.name
        /\ (page.name = "review" => page'.polls \in Envs)
    BY <2>2, PollTypes DEF TypeInv, TypeOK
  <2>7. alert'.offered => alert'.retry # NoCall
    BY <1>2, AlertTypes DEF Deliver
  <2>8. PageInv'
    BY <1>2, <2>4, <2>6, <2>7 DEF Deliver, TypeInv, PageInv
  <2>. QED BY <2>5, <2>8 DEF TypeInv
<1>3. ASSUME NEW l \in loads, LoadFails(l) PROVE TypeInv'
  <2>1. busy' \in Clicks \union {NoClick} /\ dialog' \in Calls \union {NoCall}
    BY <1>3 DEF LoadFails, Ends, TypeInv, TypeOK
  <2>2. dialog' \in {dialog, NoCall}
    BY <1>3 DEF LoadFails, Ends
  <2>3. TypeOK'
    BY <1>3, <2>1, AlertTypes DEF LoadFails, TypeInv, TypeOK
  <2>4. PageInv'
    BY <1>3, <2>2, AlertTypes DEF LoadFails, TypeInv, PageInv
  <2>. QED BY <2>3, <2>4 DEF TypeInv
<1>4. ASSUME NEW c \in calls, Serve(c) PROVE TypeInv'
  <2>1. c \in Calls /\ c.env \in Envs /\ c.click \in Clicks /\ c.kind \in Kinds
    BY DEF TypeInv, TypeOK, Calls
  <2>2. calls' \subseteq Calls
    BY <1>4, AnswerTypes DEF Serve, Refuse
  <2>3. row' \in [Envs -> Rows] /\ effects' \in [Clicks -> Nat]
    BY <1>4, <2>1, AfterTypes DEF Serve, Refuse, TypeInv, TypeOK
  <2>. QED BY <1>4, <2>2, <2>3 DEF Serve, TypeInv, TypeOK, PageInv
<1>5. ASSUME NEW c \in calls, Lose(c) PROVE TypeInv'
  <2>1. calls' \subseteq Calls
    BY <1>5, AnswerTypes DEF Lose
  <2>. QED BY <1>5, <2>1 DEF Lose, TypeInv, TypeOK, PageInv
<1>6. ASSUME NEW c \in calls, Receive(c) PROVE TypeInv'
  <2>1. c \in Calls /\ c.env \in Envs /\ c # NoCall
    BY RecordTypes DEF TypeInv, TypeOK, Calls
  <2>2. CASE c.phase = "error"
    <3>1. /\ alert' = [offered |-> TRUE, retry |-> c] /\ calls' \subseteq calls
          /\ busy' = NoClick /\ dialog' = NoCall
          /\ UNCHANGED <<row, page, shown, typed, loads, effects>>
      BY <1>6, <2>2 DEF Receive
    <3>2. TypeOK'
      BY <2>1, <3>1 DEF TypeInv, TypeOK
    <3>3. PageInv'
      BY <2>1, <3>1 DEF TypeInv, PageInv
    <3>. QED BY <3>2, <3>3 DEF TypeInv
  <2>3. CASE c.phase # "error"
    <3>1. NewLoad(c.env, c) \in Loads /\ NewLoad(c.env, c).env = c.env
          /\ NewLoad(c.env, c).after = c
      BY <2>1, NewLoadTypes
    <3>2. /\ loads' = loads \union {NewLoad(c.env, c)} /\ calls' \subseteq calls
          /\ alert' = [alert EXCEPT !.offered = FALSE]
          /\ UNCHANGED <<row, page, shown, busy, dialog, typed, effects>>
      BY <1>6, <2>3 DEF Receive
    <3>3. TypeOK'
      BY <3>1, <3>2 DEF TypeInv, TypeOK
    <3>4. ~alert'.offered
      BY <3>2 DEF TypeInv, TypeOK
    <3>5. PageInv'
      BY <3>1, <3>2, <3>4 DEF TypeInv, PageInv
    <3>. QED BY <3>3, <3>5 DEF TypeInv
  <2>. QED BY <2>2, <2>3
<1>. QED BY <1>1, <1>2, <1>3, <1>4, <1>5, <1>6 DEF Network

LEMMA StepTypes == TypeInv /\ [Next]_vars => TypeInv'
<1>. SUFFICES ASSUME TypeInv, [Next]_vars PROVE TypeInv'
  OBVIOUS
<1>1. ASSUME Poll PROVE TypeInv'
  <2>1. shown # Nothing /\ page.name = "review" /\ StartLoad(page.polls)
    BY <1>1 DEF Poll, Waiting
  <2>. QED BY <2>1, StartLoadTypes DEF TypeInv, PageInv
<1>2. ASSUME NEW e \in Envs, RunnerEnds(e) PROVE TypeInv'
  <2>1. row' \in [Envs -> Rows]
    BY <1>2, OutcomeTypes DEF RunnerEnds, TypeInv, TypeOK
  <2>. QED BY <1>2, <2>1 DEF RunnerEnds, TypeInv, TypeOK, PageInv
<1>3. ASSUME NEW e \in Envs, OtherUser(e) PROVE TypeInv'
  <2>1. row' \in [Envs -> Rows]
    BY <1>3, AfterTypes DEF OtherUser, TypeInv, TypeOK
  <2>. QED BY <1>3, <2>1 DEF OtherUser, TypeInv, TypeOK, PageInv
<1>4. CASE UNCHANGED vars
  BY <1>4 DEF vars, TypeInv, TypeOK, PageInv
<1>. QED BY <1>1, <1>2, <1>3, <1>4, OperatorTypes, NetworkTypes DEF Next

\* Types, which include that no retry count exceeds the budget, whoever retries.
THEOREM ConsoleTypes == Spec => []TypeOK
<1>1. TypeInv => TypeOK
  BY DEF TypeInv
<1>. QED BY <1>1, InitTypes, StepTypes, PTL DEF Spec

-----------------------------------------------------------------------------
(* One action at a time *)

\* The page is busy with the request it waits for, or with the load that ends
\* it, and with nothing else; a request that has been answered is waited for.
UnderWayInv ==
  /\ \A c \in calls : c.live => busy = c.click
  /\ \A c, d \in calls : c.live /\ d.live => c = d
  /\ \A l \in loads : l.after # NoCall => busy = l.after.click
  /\ \A l, m \in loads : l.after # NoCall /\ m.after # NoCall => l = m
  /\ \A c \in calls, l \in loads : c.live => l.after = NoCall
  /\ \A c \in calls : c.phase # "sent" => c.live

\* A page that is not busy waits for nothing.
LEMMA IdlePage ==
  ASSUME TypeInv, UnderWayInv, busy = NoClick
  PROVE  /\ \A c \in calls : ~c.live /\ c.phase = "sent"
         /\ \A l \in loads : l.after = NoCall
<1>1. \A c \in calls : c.click # NoClick
  BY ConsoleAssumption DEF TypeInv, TypeOK, Calls
<1>2. \A l \in loads : l.after # NoCall => l.after.click # NoClick
  BY ConsoleAssumption DEF TypeInv, TypeOK, Loads, Calls
<1>. QED BY <1>1, <1>2 DEF UnderWayInv

LEMMA SendUnderWay ==
  ASSUME TypeInv, UnderWayInv, NEW call \in Calls, call.phase = "sent", Send(call)
  PROVE  UnderWayInv'
<1>1. /\ \A c \in calls : ~c.live /\ c.phase = "sent"
      /\ \A l \in loads : l.after = NoCall
  BY IdlePage DEF Send
<1>. QED BY <1>1 DEF Send, UnderWayInv

LEMMA AnswerUnderWay ==
  ASSUME TypeInv, UnderWayInv, NEW c \in calls, NEW phase \in {"ok", "conflict", "error"},
         Answer(c, phase), UNCHANGED <<busy, loads>>
  PROVE  UnderWayInv'
<1>1. ASSUME NEW d \in calls' PROVE d \in calls \/ (c.live /\ d = [c EXCEPT !.phase = phase])
  BY <1>1 DEF Answer
<1>2. [c EXCEPT !.phase = phase].live = c.live /\ [c EXCEPT !.phase = phase].click = c.click
  BY DEF TypeInv, TypeOK, Calls
<1>3. c.live => \A d \in calls' : ~d.live \/ d = [c EXCEPT !.phase = phase]
  BY DEF Answer, UnderWayInv
<1>. QED BY <1>1, <1>2, <1>3 DEF UnderWayInv

\* A load that comes or goes, and ends nothing, leaves what is under way.
LEMMA LoadUnderWay ==
  ASSUME UnderWayInv, \A l \in loads' : l \in loads \/ l.after = NoCall,
         UNCHANGED <<busy, calls>>
  PROVE  UnderWayInv'
BY DEF UnderWayInv

LEMMA EndUnderWay ==
  ASSUME TypeInv, UnderWayInv, NEW l \in loads, Ends(l), loads' = loads \ {l},
         UNCHANGED calls
  PROVE  UnderWayInv'
<1>1. CASE l.after = NoCall
  BY <1>1, LoadUnderWay DEF Ends
<1>2. CASE l.after # NoCall
  <2>1. \A c \in calls : ~c.live
    BY <1>2 DEF UnderWayInv
  <2>2. \A m \in loads' : m.after = NoCall
    BY <1>2 DEF UnderWayInv
  <2>. QED BY <2>1, <2>2 DEF UnderWayInv
<1>. QED BY <1>1, <1>2

LEMMA StepUnderWay == TypeInv /\ UnderWayInv /\ [Next]_vars => UnderWayInv'
<1>. SUFFICES ASSUME TypeInv, UnderWayInv, [Next]_vars PROVE UnderWayInv'
  OBVIOUS
<1>1. ASSUME NEW name \in PageNames, NEW e \in Envs, Open(name, e) PROVE UnderWayInv'
  <2>1. NewLoad(e, NoCall).after = NoCall
    BY NewLoadTypes
  <2>2. \A l \in loads' : l.after = NoCall
    BY <1>1, <2>1 DEF Open
  <2>3. ASSUME NEW c \in calls' PROVE ~c.live /\ c.phase = "sent"
    <3>1. PICK d \in calls : d.phase = "sent" /\ c = [d EXCEPT !.live = FALSE]
      BY <1>1 DEF Open
    <3>. QED BY <3>1 DEF TypeInv, TypeOK, Calls
  <2>. QED BY <2>2, <2>3 DEF UnderWayInv
<1>2. ASSUME NEW e \in Envs, Jump(e) \/ StartLoad(e) PROVE UnderWayInv'
  <2>1. NewLoad(e, NoCall).after = NoCall
    BY NewLoadTypes
  <2>. QED BY <1>2, <2>1, LoadUnderWay DEF Jump, StartLoad
<1>3. ASSUME UNCHANGED <<busy, loads, calls>> PROVE UnderWayInv'
  BY <1>3 DEF UnderWayInv
<1>4. ASSUME NEW i \in Clicks, Click(i) PROVE UnderWayInv'
  <2>1. PICK kind \in {"plan", "retry", "approve"} :
          /\ page.name \in {"detail", "approval"}
          /\ Send([Call(kind, NoEnv) EXCEPT !.click = i])
    BY <1>4 DEF Click, OffersPlan, OffersRetry, OffersApprove
  <2>2. /\ [Call(kind, NoEnv) EXCEPT !.click = i] \in Calls
        /\ [Call(kind, NoEnv) EXCEPT !.click = i].phase = "sent"
    BY <2>1, CallTypes DEF Kinds, Call, NoCall
  <2>. QED BY <2>1, <2>2, SendUnderWay
<1>5. ASSUME Confirm PROVE UnderWayInv'
  <2>1. dialog \in Calls /\ dialog.phase = "sent" /\ Send(dialog)
    BY <1>5 DEF Confirm, TypeInv, TypeOK, PageInv
  <2>. QED BY <2>1, SendUnderWay
<1>6. ASSUME RetryLast PROVE UnderWayInv'
  <2>1. alert.retry \in Calls
    BY <1>6 DEF RetryLast, TypeInv, TypeOK, PageInv
  <2>2. /\ [alert.retry EXCEPT !.phase = "sent", !.again = TRUE] \in Calls
        /\ [alert.retry EXCEPT !.phase = "sent", !.again = TRUE].phase = "sent"
    BY <2>1 DEF Calls
  <2>. QED BY <1>6, <2>2, SendUnderWay DEF RetryLast
<1>7. ASSUME NEW l \in loads, ReadRow(l) PROVE UnderWayInv'
  <2>1. PICK m \in Loads :
          loads' = (loads \ {l}) \union {m} /\ m.env = l.env /\ m.after = l.after
    BY <1>7, ReadLoadTypes
  <2>2. UNCHANGED <<busy, calls>>
    BY <1>7 DEF ReadRow
  <2>. QED BY <2>1, <2>2 DEF UnderWayInv
<1>8. ASSUME NEW l \in loads, Deliver(l) \/ LoadFails(l) PROVE UnderWayInv'
  <2>1. Ends(l) /\ loads' = loads \ {l} /\ UNCHANGED calls
    BY <1>8 DEF Deliver, LoadFails
  <2>. QED BY <2>1, EndUnderWay
<1>9. ASSUME NEW c \in calls, Serve(c) \/ Lose(c) PROVE UnderWayInv'
  <2>1. /\ Answer(c, "ok") \/ Answer(c, "conflict") \/ Answer(c, "error")
        /\ UNCHANGED <<busy, loads>>
    BY <1>9 DEF Serve, Lose, Refuse
  <2>. QED BY <2>1, AnswerUnderWay
<1>10. ASSUME NEW c \in calls, Receive(c) PROVE UnderWayInv'
  <2>1. c.live /\ calls' = calls \ {c}
    BY <1>10 DEF Receive, UnderWayInv
  <2>2. \A d \in calls' : ~d.live /\ d.phase = "sent"
    BY <2>1 DEF UnderWayInv
  <2>3. \A l \in loads : l.after = NoCall
    BY <2>1 DEF UnderWayInv
  <2>4. CASE c.phase = "error"
    <3>1. loads' = loads
      BY <1>10, <2>4 DEF Receive
    <3>. QED BY <2>2, <2>3, <3>1 DEF UnderWayInv
  <2>5. CASE c.phase # "error"
    <3>1. loads' = loads \union {NewLoad(c.env, c)} /\ busy' = c.click
      BY <1>10, <2>1, <2>5 DEF Receive, UnderWayInv
    <3>2. NewLoad(c.env, c).after = c
      BY NewLoadTypes DEF TypeInv, TypeOK, Calls
    <3>. QED BY <2>2, <2>3, <3>1, <3>2 DEF UnderWayInv
  <2>. QED BY <2>4, <2>5
<1>11. Operator => UnderWayInv'
  <2>1. ASSUME Refresh PROVE UnderWayInv'
    BY <2>1, <1>2 DEF Refresh, TypeInv, PageInv
  <2>2. ASSUME Cancel \/ (\E e \in Envs : Type(e)) \/ (\E i \in Clicks : Ask(i))
        PROVE  UnderWayInv'
    BY <2>2, <1>3 DEF Cancel, Type, Ask
  <2>. QED BY <1>1, <1>2, <1>4, <1>5, <1>6, <2>1, <2>2 DEF Operator
<1>12. Network => UnderWayInv'
  BY <1>7, <1>8, <1>9, <1>10 DEF Network
<1>13. Poll => UnderWayInv'
  BY <1>2 DEF Poll, Waiting, TypeInv, PageInv
<1>14. (\E e \in Envs : RunnerEnds(e) \/ OtherUser(e)) \/ UNCHANGED vars => UnderWayInv'
  BY <1>3 DEF RunnerEnds, OtherUser, vars
<1>. QED BY <1>11, <1>12, <1>13, <1>14 DEF Next

-----------------------------------------------------------------------------
(* What the steps do to the rows *)

\* The rows there can be: one that is planning has no approval, one that waits for an
\* approval a plan and an open approval, one to be applied a plan and its approval.
Guarded(r) ==
  /\ r.status \in {"planning", "pending_approval", "approved", "applying", "active",
                   "destroyed", "failed"}
  /\ r.status = "planning" => r.approval = "not_requested"
  /\ r.status = "pending_approval" => r.approval = "pending" /\ r.plan
  /\ r.status = "approved" => r.approval = "approved" /\ r.plan

RowsInv == \A e \in Envs : Guarded(row[e])

\* One row goes one revision further.
Writes(e) ==
  \E r \in Rows : /\ r.rev = row[e].rev + 1
                  /\ Guarded(row[e]) => Guarded(r)
                  /\ row' = [row EXCEPT ![e] = r]

\* A request is served with success.
Serves(c) ==
  /\ c.phase = "sent" /\ NameMatches(c) /\ RevisionMatches(c)
  /\ Writes(c.env)
  /\ effects' = [effects EXCEPT ![c.click] = @ + 1]
  /\ Answer(c, "ok")
  /\ UNCHANGED <<shown, alert, dialog, loads>>

Rests == UNCHANGED <<row, effects>>

\* Others write a row, of which the page knows nothing.
OthersWrite(e) == Writes(e) /\ UNCHANGED <<shown, alert, dialog, loads, calls, effects>>

LEMMA AfterGuarded ==
  ASSUME NEW r \in Rows, NEW kind \in Kinds, Accepts(kind, r)
  PROVE  Guarded(After(kind, r))
<1>. DEFINE next == [r EXCEPT !.rev = @ + 1]
            reset == ResetAttempt(next)
            queued == [reset EXCEPT !.status = "planning", !.job = "plan",
                                    !.jobFailed = FALSE, !.plan = TRUE]
<1>1. next \in Rows /\ next.plan = r.plan
  BY DEF Rows
<1>2. reset \in Rows /\ reset.approval = "not_requested"
  <2>. HIDE DEF next
  <2>1. reset.approval = "not_requested"
    BY <1>1 DEF ResetAttempt, Rows
  <2>. QED BY <1>1, <2>1, ResetTypes
<1>3. /\ kind = "plan" => After(kind, r) = [queued EXCEPT !.op = "update"]
      /\ kind = "destroy" => After(kind, r) = [queued EXCEPT !.op = "destroy"]
      /\ kind = "approve" =>
           After(kind, r) = [next EXCEPT !.status = "approved", !.approval = "approved"]
      /\ kind = "apply" => After(kind, r) =
           [next EXCEPT !.status = "applying", !.job = "apply", !.jobFailed = FALSE]
      /\ kind = "retry" => After(kind, r) = Retried(next)
  BY DEF After
<1>4. PICK status \in {"planning", "applying"} :
        Retried(next) = [reset EXCEPT !.retry = @ + 1, !.jobFailed = FALSE, !.status = status]
  BY DEF Retried, reset
<1>5. queued \in Rows /\ queued.status = "planning" /\ queued.approval = "not_requested"
  <2>. HIDE DEF reset
  <2>. QED BY <1>2 DEF Rows, EnvStatuses, JobTypes
<1>. HIDE DEF next, reset, queued
<1>6. kind \in {"plan", "destroy"} => /\ After(kind, r).status = "planning"
                                      /\ After(kind, r).approval = "not_requested"
  BY <1>3, <1>5 DEF Rows
<1>7. kind = "apply" => After(kind, r).status = "applying"
  BY <1>1, <1>3 DEF Rows
<1>8. kind = "retry" => /\ After(kind, r).status \in {"planning", "applying"}
                        /\ After(kind, r).approval = "not_requested"
  BY <1>2, <1>3, <1>4 DEF Rows
<1>9. kind = "approve" => /\ After(kind, r).status = "approved"
                          /\ After(kind, r).approval = "approved"
                          /\ After(kind, r).plan = next.plan
  BY <1>1, <1>3 DEF Rows
<1>10. kind = "approve" => r.plan
  BY DEF Accepts
<1>. QED BY <1>1, <1>6, <1>7, <1>8, <1>9, <1>10 DEF Guarded, Kinds

LEMMA OutcomeGuarded ==
  ASSUME NEW r \in Rows, NEW o \in Outcomes(r)
  PROVE  Guarded(o)
<1>. DEFINE next == [r EXCEPT !.rev = @ + 1]
<1>1. next \in Rows
  BY NextRowTypes
<1>2. \/ o \in Failures(next)
      \/ o = [next EXCEPT !.status = "pending_approval", !.approval = "pending", !.plan = TRUE]
      \/ o = [next EXCEPT !.status = "destroyed"]
      \/ o = [next EXCEPT !.status = "active"]
  <2>1. CASE r.status = "planning"
    BY <2>1 DEF Outcomes
  <2>2. CASE r.status = "applying"
    BY <2>2 DEF Outcomes
  <2>. QED BY <2>1, <2>2 DEF Outcomes
<1>. HIDE DEF next
<1>. QED BY <1>1, <1>2, FailureIs DEF Rows, Guarded

\* An operator acts, a load comes, or somebody writes a row.
LEMMA RowSteps ==
  ASSUME TypeInv, [Next]_vars
  PROVE  \/ Rests
         \/ \E e \in Envs : OthersWrite(e)
         \/ \E c \in calls : Serves(c)
<1>1. ASSUME NEW e \in Envs, RunnerEnds(e) PROVE OthersWrite(e)
  <2>1. PICK r \in Outcomes(row[e]) : row' = [row EXCEPT ![e] = r]
    BY <1>1 DEF RunnerEnds
  <2>2. r \in Rows /\ r.rev = row[e].rev + 1 /\ Guarded(r)
    BY OutcomeTypes, OutcomeGuarded DEF TypeInv, TypeOK
  <2>. QED BY <1>1, <2>1, <2>2 DEF OthersWrite, Writes, RunnerEnds
<1>2. ASSUME NEW e \in Envs, OtherUser(e) PROVE OthersWrite(e)
  <2>1. PICK kind \in Kinds :
          Accepts(kind, row[e]) /\ row' = [row EXCEPT ![e] = After(kind, row[e])]
    BY <1>2 DEF OtherUser, TypeInv, TypeOK
  <2>2. /\ After(kind, row[e]) \in Rows /\ After(kind, row[e]).rev = row[e].rev + 1
        /\ Guarded(After(kind, row[e]))
    BY <2>1, AfterTypes, AfterGuarded DEF TypeInv, TypeOK
  <2>. QED BY <1>2, <2>1, <2>2 DEF OthersWrite, Writes, OtherUser
<1>3. ASSUME NEW c \in calls, Serve(c) PROVE Rests \/ Serves(c)
  <2>1. CASE ~Rests
    <3>1. /\ c.phase = "sent" /\ NameMatches(c) /\ RevisionMatches(c)
          /\ Accepts(c.kind, row[c.env])
          /\ row' = [row EXCEPT ![c.env] = After(c.kind, @)]
          /\ effects' = [effects EXCEPT ![c.click] = @ + 1]
          /\ Answer(c, "ok") /\ UNCHANGED <<shown, alert, dialog, loads>>
      BY <1>3, <2>1 DEF Serve, Refuse, Rests
    <3>2. c.kind \in Kinds /\ row[c.env] \in Rows
      BY DEF TypeInv, TypeOK, Calls
    <3>3. /\ After(c.kind, row[c.env]) \in Rows
          /\ After(c.kind, row[c.env]).rev = row[c.env].rev + 1
          /\ Guarded(After(c.kind, row[c.env]))
      BY <3>1, <3>2, AfterTypes, AfterGuarded
    <3>4. row' = [row EXCEPT ![c.env] = After(c.kind, row[c.env])]
      BY <3>1, <3>2
    <3>. QED BY <3>1, <3>3, <3>4 DEF Serves, Writes
  <2>. QED BY <2>1
<1>4. Operator => Rests
  BY DEF Operator, Open, Jump, Type, Click, Ask, Refresh, StartLoad, Confirm, Cancel,
         RetryLast, Send, Rests
<1>5. ASSUME NEW l \in loads, ReadRow(l) \/ Deliver(l) \/ LoadFails(l) PROVE Rests
  BY <1>5 DEF ReadRow, Deliver, LoadFails, Rests
<1>6. ASSUME NEW c \in calls, Lose(c) \/ Receive(c) PROVE Rests
  BY <1>6 DEF Lose, Receive, Rests
<1>7. Poll \/ UNCHANGED vars => Rests
  BY DEF Poll, StartLoad, vars, Rests
<1>. QED BY <1>1, <1>2, <1>3, <1>4, <1>5, <1>6, <1>7 DEF Next, Network

\* A write raises the revision of its row, and touches no other.
LEMMA WriteRaises ==
  ASSUME TypeInv, NEW e \in Envs, Writes(e)
  PROVE  /\ row'[e].rev = row[e].rev + 1
         /\ Guarded(row[e]) => Guarded(row'[e])
         /\ \A f \in Envs : f # e => row'[f] = row[f]
BY DEF TypeInv, TypeOK, Writes

LEMMA StepGuarded == TypeInv /\ RowsInv /\ [Next]_vars => RowsInv'
<1>. SUFFICES ASSUME TypeInv, RowsInv, [Next]_vars PROVE RowsInv'
  OBVIOUS
<1>1. ASSUME NEW e \in Envs, Writes(e) PROVE RowsInv'
  <2>1. \A f \in Envs : Guarded(row'[f])
    BY <1>1, WriteRaises DEF RowsInv
  <2>. QED BY <2>1 DEF RowsInv
<1>2. CASE Rests
  BY <1>2 DEF Rests, RowsInv
<1>3. \A c \in calls : c.env \in Envs
  BY DEF TypeInv, TypeOK, Calls
<1>. QED BY <1>1, <1>2, <1>3, RowSteps DEF OthersWrite, Serves

LEMMA InitGuarded == Init => RowsInv
<1>1. Guarded(Created)
  BY DEF Guarded, Created, NoRow
<1>. QED BY <1>1 DEF Init, RowsInv

\* On a row there can be, the guidance is right: one case per status.
LEMMA GuidedRow ==
  ASSUME NEW r \in Rows, Guarded(r)
  PROVE  GuidanceFits(r)
<1>. USE DEF GuidanceFits, Guarded, NextAction, Workflow, Step, Accepts, Outcomes, Immediate,
             NextStep, ApprovalSpent, ControlUnlocked, PrimaryPage, Checkpoints,
             DestroyLinked, LastExecution, Failures, PlanAccess, CanQueuePlan,
             CanApprovePlan, CanQueueApply, CanQueueDestroy, RetryAccess, CanRetry, IsEnvironmentBusy
<1>1. CASE r.status = "planning"
  BY <1>1
<1>2. CASE r.status = "pending_approval"
  BY <1>2
<1>3. CASE r.status = "approved"
  BY <1>3 DEF Rows
<1>4. CASE r.status = "applying"
  BY <1>4
<1>5. CASE r.status = "active"
  BY <1>5
<1>6. CASE r.status = "destroyed"
  BY <1>6
<1>7. CASE r.status = "failed"
  BY <1>7 DEF Rows
<1>. QED BY <1>1, <1>2, <1>3, <1>4, <1>5, <1>6, <1>7

\* On every row that ever exists the pages advise what the server accepts, but for a
\* retry where the last job could not be marked failed, and for the apply the list
\* names while the approval of the row has been used.
THEOREM GuidanceIsRight == Spec => []GuidanceAgrees
<1>1. TypeInv /\ RowsInv => GuidanceAgrees
  BY GuidedRow DEF TypeInv, TypeOK, RowsInv, GuidanceAgrees
<1>. QED BY <1>1, InitTypes, InitGuarded, StepTypes, StepGuarded, PTL DEF Spec

-----------------------------------------------------------------------------
(* What the steps do to the requests *)

\* The requests the page holds: in flight, behind the retry button, in the dialog
\* that will send it, in the load that ends it.
Held == (calls \union {alert.retry, dialog} \union {l.after : l \in loads}) \ {NoCall}

\* The same request, of the same closure.
SameRequest(c, d) ==
  c.click = d.click /\ c.kind = d.kind /\ c.env = d.env /\ c.seen = d.seen /\ c.named = d.named

\* c is d sent again or answered; it has become a conflict because its revision
\* is not the row's.
Repeats(c, d) ==
  SameRequest(c, d) /\ (c.phase = "conflict" => d.phase = "conflict" \/ ~RevisionMatches(d))

KeepsRequests == \A c \in Held' : \E d \in Held : Repeats(c, d)

\* A click makes a request of its own, about what the page shows.
AddsRequest ==
  \E n \in Calls :
    /\ effects[n.click] = 0 /\ n.seen = shown /\ n.phase = "sent"
    /\ n.kind = "destroy" => n.named = shown.env
    /\ \A d \in Held : d.click # n.click
    /\ \A c \in Held' : c = n \/ \E d \in Held : Repeats(c, d)
    /\ Rests

LEMMA HeldTypes ==
  ASSUME TypeInv, NEW c \in Held
  PROVE  c \in Calls /\ c.click \in Clicks /\ c.env \in Envs /\ c.seen \in Shown
BY DEF Held, TypeInv, TypeOK, Loads, Calls

LEMMA OwnRepeats == \A d : Repeats(d, d)
BY DEF Repeats, SameRequest

\* Requests that go nowhere new.
LEMMA RequestsStay ==
  ASSUME \A c \in calls' : c \in Held \/ \E d \in Held : Repeats(c, d),
         alert'.retry \in Held \union {NoCall},
         dialog' \in Held \union {NoCall},
         \A l \in loads' : l.after \in Held \union {NoCall}
  PROVE  KeepsRequests
<1>1. \A c \in Held' : c \in Held \/ \E d \in Held : Repeats(c, d)
  BY DEF Held
<1>. QED BY <1>1, OwnRepeats DEF KeepsRequests

LEMMA HeldAre ==
  /\ \A c \in calls : c \in Held \union {NoCall}
  /\ alert.retry \in Held \union {NoCall}
  /\ dialog \in Held \union {NoCall}
  /\ \A l \in loads : l.after \in Held \union {NoCall}
BY DEF Held

\* Answering a request changes its phase only.
LEMMA AnswerKeeps ==
  ASSUME TypeInv, NEW c \in calls, NEW phase \in {"ok", "conflict", "error"},
         phase = "conflict" => ~RevisionMatches(c),
         Answer(c, phase), UNCHANGED <<alert, dialog, loads>>
  PROVE  KeepsRequests
<1>1. c \in Calls /\ c \in Held
  BY RecordTypes DEF Held, TypeInv, TypeOK
<1>2. Repeats([c EXCEPT !.phase = phase], c)
  BY <1>1 DEF Repeats, SameRequest, Calls
<1>3. \A d \in calls' : d \in calls \/ d = [c EXCEPT !.phase = phase]
  BY DEF Answer
<1>4. \A d \in calls : d \in Held
  BY RecordTypes DEF Held, TypeInv, TypeOK
<1>. QED BY <1>1, <1>2, <1>3, <1>4, HeldAre, RequestsStay

\* Sending what the page holds, once more or for the first time.
LEMMA SendKeeps ==
  ASSUME TypeInv, NEW call, NEW d \in Held, Repeats(call, d), Send(call), UNCHANGED dialog
  PROVE  KeepsRequests
<1>1. \A c \in calls : c \in Held
  BY RecordTypes DEF Held, TypeInv, TypeOK
<1>2. /\ calls' = calls \union {call} /\ loads' = loads
      /\ alert'.retry = NoCall /\ dialog' = dialog
  BY DEF Send, Quiet
<1>. QED BY <1>1, <1>2, HeldAre, RequestsStay

LEMMA FreshRequest ==
  ASSUME TypeInv, UnderWayInv, NEW i \in Clicks, FreshClick(i), busy = NoClick, dialog = NoCall
  PROVE  effects[i] = 0 /\ \A d \in Held : d.click # i
<1>1. \A l \in loads : l.after = NoCall
  BY IdlePage
<1>. QED BY <1>1 DEF FreshClick, Held

LEMMA ClickSteps ==
  ASSUME TypeInv, UnderWayInv, NEW i \in Clicks, Click(i) \/ Ask(i)
  PROVE  AddsRequest
<1>1. FreshClick(i) /\ busy = NoClick /\ dialog = NoCall
  BY DEF Click, Ask, Send
<1>2. PICK kind \in Kinds, name \in Envs \union {NoEnv} :
        /\ page.name \in {"detail", "approval"}
        /\ kind = "destroy" => name = shown.env
        /\ LET n == [Call(kind, name) EXCEPT !.click = i]
           IN  \/ Send(n) /\ UNCHANGED dialog
               \/ dialog' = n /\ UNCHANGED <<row, alert, loads, calls, effects>>
  <2>1. CASE Click(i)
    BY <2>1 DEF Click, Kinds, OffersPlan, OffersRetry, OffersApprove
  <2>2. CASE Ask(i)
    <3>1. typed \in Envs \union {NoEnv}
      BY DEF TypeInv, TypeOK
    <3>. QED BY <2>2, <3>1 DEF Ask, Kinds, OffersApply, OffersDestroy
  <2>. QED BY <2>1, <2>2
<1>. DEFINE n == [Call(kind, name) EXCEPT !.click = i]
<1>3. n \in Calls
  BY <1>2, CallTypes
<1>4. n.click = i /\ n.seen = shown /\ n.phase = "sent" /\ n.kind = kind /\ n.named = name
  BY DEF Call, NoCall
<1>5. effects[i] = 0 /\ \A d \in Held : d.click # i
  BY <1>1, FreshRequest
<1>. HIDE DEF n
<1>6. Rests /\ \A c \in Held' : c = n \/ c \in Held
  <2>1. CASE Send(n) /\ UNCHANGED dialog
    <3>1. alert'.retry = NoCall
      BY <2>1 DEF Send, Quiet
    <3>. QED BY <2>1, <3>1 DEF Send, Rests, Held
  <2>2. CASE dialog' = n /\ UNCHANGED <<row, alert, loads, calls, effects>>
    BY <2>2 DEF Rests, Held
  <2>. QED BY <1>2, <2>1, <2>2 DEF n
<1>. QED BY <1>2, <1>3, <1>4, <1>5, <1>6, OwnRepeats DEF AddsRequest

LEMMA RequestSteps ==
  ASSUME TypeInv, UnderWayInv, [Next]_vars
  PROVE  KeepsRequests \/ AddsRequest
<1>. USE HeldAre
<1>1. \A c \in calls : c \in Held
  BY RecordTypes DEF Held, TypeInv, TypeOK
<1>2. ASSUME NEW name \in PageNames, NEW e \in Envs, Open(name, e) PROVE KeepsRequests
  <2>1. \A l \in loads' : l.after = NoCall
    BY <1>2, NewLoadTypes DEF Open
  <2>2. ASSUME NEW c \in calls' PROVE \E d \in Held : Repeats(c, d)
    <3>1. PICK d \in calls : c = [d EXCEPT !.live = FALSE]
      BY <1>2 DEF Open
    <3>2. Repeats(c, d)
      BY <3>1 DEF Repeats, SameRequest, TypeInv, TypeOK, Calls
    <3>. QED BY <1>1, <3>2
  <2>3. alert'.retry = NoCall /\ dialog' = NoCall
    BY <1>2 DEF Open, Quiet
  <2>. QED BY <2>1, <2>2, <2>3, RequestsStay
<1>3. ASSUME NEW e \in Envs, Jump(e) \/ StartLoad(e) PROVE KeepsRequests
  <2>1. /\ loads' = loads \union {NewLoad(e, NoCall)}
        /\ alert'.retry = alert.retry /\ UNCHANGED <<dialog, calls>>
    BY <1>3 DEF Jump, StartLoad, TypeInv, TypeOK
  <2>2. \A l \in loads' : l.after \in Held \union {NoCall}
    BY <2>1, NewLoadTypes
  <2>. QED BY <1>1, <2>1, <2>2, RequestsStay
<1>4. ASSUME UNCHANGED <<alert, loads, calls>>, dialog' \in {dialog, NoCall}
      PROVE  KeepsRequests
  BY <1>1, <1>4, RequestsStay
<1>5. ASSUME Confirm PROVE KeepsRequests
  <2>1. dialog \in Held /\ Send(dialog) /\ UNCHANGED dialog
    BY <1>5 DEF Confirm, Held
  <2>. QED BY <2>1, OwnRepeats, SendKeeps
<1>6. ASSUME RetryLast PROVE KeepsRequests
  <2>1. alert.retry \in Calls /\ alert.retry \in Held
    BY <1>6 DEF RetryLast, TypeInv, TypeOK, PageInv, Held
  <2>2. Repeats([alert.retry EXCEPT !.phase = "sent", !.again = TRUE], alert.retry)
    BY <2>1 DEF Repeats, SameRequest, Calls
  <2>. QED BY <1>6, <2>1, <2>2, SendKeeps DEF RetryLast
<1>7. ASSUME NEW l \in loads, ReadRow(l) PROVE KeepsRequests
  <2>1. PICK m \in Loads :
          loads' = (loads \ {l}) \union {m} /\ m.env = l.env /\ m.after = l.after
    BY <1>7, ReadLoadTypes
  <2>2. UNCHANGED <<alert, dialog, calls>>
    BY <1>7 DEF ReadRow
  <2>. QED BY <1>1, <2>1, <2>2, RequestsStay
<1>8. ASSUME NEW l \in loads, Deliver(l) \/ LoadFails(l) PROVE KeepsRequests
  <2>1. alert'.retry \in {alert.retry, l.after}
    BY <1>8 DEF Deliver, LoadFails, AlertAfter, TypeInv, TypeOK
  <2>2. loads' = loads \ {l} /\ dialog' \in {dialog, NoCall} /\ UNCHANGED calls
    BY <1>8 DEF Deliver, LoadFails, Ends
  <2>. QED BY <1>1, <2>1, <2>2, RequestsStay
<1>9. ASSUME NEW c \in calls, Serve(c) \/ Lose(c) PROVE KeepsRequests
  <2>1. /\ \/ Answer(c, "ok") \/ Answer(c, "error")
           \/ Answer(c, "conflict") /\ ~RevisionMatches(c)
        /\ UNCHANGED <<alert, dialog, loads>>
    BY <1>9 DEF Serve, Lose, Refuse
  <2>. QED BY <2>1, AnswerKeeps
<1>10. ASSUME NEW c \in calls, Receive(c) PROVE KeepsRequests
  <2>1. calls' = calls \ {c} /\ dialog' \in {dialog, NoCall}
        /\ alert'.retry \in {alert.retry, c}
    BY <1>10 DEF Receive, TypeInv, TypeOK
  <2>2. NewLoad(c.env, c).after = c
    BY NewLoadTypes DEF TypeInv, TypeOK, Calls
  <2>3. \A l \in loads' : l \in loads \/ l.after = c
    BY <1>10, <2>2 DEF Receive
  <2>. QED BY <1>1, <2>1, <2>3, RequestsStay
<1>11. Operator => KeepsRequests \/ AddsRequest
  <2>1. ASSUME Refresh PROVE KeepsRequests
    BY <2>1, <1>3 DEF Refresh, TypeInv, PageInv
  <2>2. ASSUME Cancel \/ \E e \in Envs : Type(e) PROVE KeepsRequests
    BY <2>2, <1>4 DEF Cancel, Type
  <2>3. ASSUME NEW i \in Clicks, Click(i) \/ Ask(i) PROVE AddsRequest
    BY <2>3, ClickSteps
  <2>. QED BY <1>2, <1>3, <1>5, <1>6, <2>1, <2>2, <2>3 DEF Operator
<1>12. Network => KeepsRequests
  BY <1>7, <1>8, <1>9, <1>10 DEF Network
<1>13. Poll => KeepsRequests
  BY <1>3 DEF Poll, Waiting, TypeInv, PageInv
<1>14. (\E e \in Envs : RunnerEnds(e) \/ OtherUser(e)) \/ UNCHANGED vars => KeepsRequests
  BY <1>4 DEF RunnerEnds, OtherUser, vars
<1>. QED BY <1>11, <1>12, <1>13, <1>14 DEF Next

-----------------------------------------------------------------------------
(* What the page knows, and what it asks for *)

\* A copy of a row is older than the row, or the row as it is.
Known(e, r) == r.rev < row[e].rev \/ r = row[e]

CopiesInv ==
  /\ shown.env \in Envs => Known(shown.env, shown.row)
  /\ \A l \in loads : l.read => Known(l.env, l.row)
  /\ \A c \in Held : c.seen.env \in Envs => Known(c.seen.env, c.seen.row)

\* The revision c sends is one its row has left behind: c can have no effect.
Stale(c) == c.seen.row.rev < row[c.env].rev

\* All copies of a click's request ask for the same; one that had an effect, and
\* one that met a conflict over the row it is about, is stale; a destroy request
\* was confirmed by the name of the environment shown.
RequestsInv ==
  /\ \A c, d \in Held : c.click = d.click => SameRequest(c, d)
  /\ \A i \in Clicks : effects[i] <= 1
  /\ \A c \in Held : effects[c.click] > 0 => Stale(c)
  /\ \A c \in Held : c.phase = "conflict" /\ c.seen.env = c.env => Stale(c)
  /\ \A c \in Held : c.kind = "destroy" => c.named = c.seen.env

ConsoleInv == TypeInv /\ UnderWayInv /\ CopiesInv /\ RequestsInv /\ ConflictIsExplained

LEMMA RowsRise ==
  ASSUME TypeInv, [Next]_vars
  PROVE  \A e \in Envs : row'[e] = row[e] \/ row'[e].rev = row[e].rev + 1
<1>1. \A c \in calls : c.env \in Envs
  BY DEF TypeInv, TypeOK, Calls
<1>2. ASSUME NEW f \in Envs, Writes(f)
      PROVE  \A e \in Envs : row'[e] = row[e] \/ row'[e].rev = row[e].rev + 1
  BY <1>2, WriteRaises
<1>. QED BY <1>1, <1>2, RowSteps DEF Rests, OthersWrite, Serves

\* What has been left behind stays behind.
LEMMA StaleLasts ==
  ASSUME TypeInv, [Next]_vars, NEW c \in Calls, Stale(c)
  PROVE  Stale(c)'
<1>1. c.env \in Envs /\ c.seen.row \in Rows
  BY RecordTypes DEF Calls
<1>2. c.seen.row.rev \in Nat /\ row[c.env].rev \in Nat
  BY <1>1 DEF TypeInv, TypeOK, Rows
<1>3. row'[c.env] = row[c.env] \/ row'[c.env].rev = row[c.env].rev + 1
  BY <1>1, RowsRise
<1>. QED BY <1>2, <1>3 DEF Stale

LEMMA KnownLasts ==
  ASSUME TypeInv, [Next]_vars, NEW e \in Envs, NEW r \in Rows, Known(e, r)
  PROVE  Known(e, r)'
<1>1. r.rev \in Nat /\ row[e].rev \in Nat
  BY DEF TypeInv, TypeOK, Rows
<1>. QED BY <1>1, RowsRise DEF Known

\* The page shows what it showed, nothing, or what a load has read; a load has
\* read the row as it is or has read it before.
LEMMA CopySteps ==
  ASSUME TypeInv, [Next]_vars
  PROVE  /\ \/ shown' \in {shown, Nothing}
            \/ \E l \in loads : l.read /\ shown'.env = l.env /\ shown'.row = l.row
         /\ \A l \in loads' :
              \/ l \in loads
              \/ ~l.read
              \/ /\ \E m \in loads : l.env = m.env /\ l.after = m.after
                 /\ l.row = row[l.env] /\ row' = row
<1>1. ASSUME NEW l \in loads, ReadRow(l)
      PROVE  \A m \in loads' : m \in loads \/ /\ m.env = l.env /\ m.after = l.after
                                              /\ m.row = row[m.env]
  BY <1>1, ReadLoadTypes
<1>2. \A l \in loads : ReadRow(l) => shown' = shown /\ row' = row
  BY DEF ReadRow
<1>3. \A l \in loads : Deliver(l) => l.read /\ shown'.env = l.env /\ shown'.row = l.row
                                     /\ loads' = loads \ {l}
  BY DEF Deliver
<1>4. \A l \in loads : LoadFails(l) => shown' = shown /\ loads' = loads \ {l}
  BY DEF LoadFails
<1>5. \A e \in Envs : ~NewLoad(e, NoCall).read
  BY NewLoadTypes
<1>6. \A c \in calls : ~NewLoad(c.env, c).read
  BY NewLoadTypes DEF TypeInv, TypeOK, Calls
<1>7. ASSUME NEW c \in calls, Serve(c) \/ Lose(c) \/ Receive(c)
      PROVE  shown' = shown /\ \A l \in loads' : l \in loads \/ ~l.read
  BY <1>6, <1>7 DEF Serve, Lose, Receive
<1>8. ASSUME NEW e \in Envs, Jump(e) \/ StartLoad(e)
      PROVE  shown' = shown /\ \A l \in loads' : l \in loads \/ ~l.read
  BY <1>5, <1>8 DEF Jump, StartLoad
<1>9. ASSUME NEW e \in Envs, NEW name \in PageNames, Open(name, e)
      PROVE  shown' = Nothing /\ \A l \in loads' : ~l.read
  BY <1>5, <1>9 DEF Open
<1>10. Operator => shown' \in {shown, Nothing} /\ \A l \in loads' : l \in loads \/ ~l.read
  <2>1. ASSUME Refresh PROVE \E e \in Envs : StartLoad(e)
    BY <2>1 DEF Refresh, TypeInv, PageInv
  <2>2. ASSUME \/ \E e \in Envs : Type(e)
               \/ \E i \in Clicks : Click(i) \/ Ask(i)
               \/ Confirm \/ Cancel \/ RetryLast
        PROVE  shown' = shown /\ loads' = loads
    BY <2>2 DEF Type, Click, Ask, Confirm, Cancel, RetryLast, Send
  <2>. QED BY <1>8, <1>9, <2>1, <2>2 DEF Operator
<1>11. Poll => \E e \in Envs : StartLoad(e)
  BY DEF Poll, Waiting, TypeInv, PageInv
<1>12. ASSUME (\E e \in Envs : RunnerEnds(e) \/ OtherUser(e)) \/ UNCHANGED vars
       PROVE  shown' = shown /\ loads' = loads
  BY <1>12 DEF RunnerEnds, OtherUser, vars
<1>. QED BY <1>1, <1>2, <1>3, <1>4, <1>7, <1>8, <1>10, <1>11, <1>12 DEF Next, Network

LEMMA StepCopies ==
  ASSUME ConsoleInv, [Next]_vars
  PROVE  CopiesInv'
<1>. USE DEF ConsoleInv
<1>1. \A l \in loads : l.env \in Envs /\ l.row \in Rows
  BY RecordTypes DEF TypeInv, TypeOK, Loads
<1>2. ASSUME NEW e \in Envs, NEW r, shown'.env = e, shown'.row = r PROVE Known(e, r)'
  <2>1. CASE shown' = shown
    <3>1. r \in Rows /\ Known(e, r)
      BY <1>2, <2>1, RecordTypes DEF TypeInv, TypeOK, CopiesInv
    <3>. QED BY <3>1, KnownLasts
  <2>2. CASE \E l \in loads : l.read /\ shown'.env = l.env /\ shown'.row = l.row
    <3>1. r \in Rows /\ Known(e, r)
      BY <1>1, <1>2, <2>2 DEF CopiesInv
    <3>. QED BY <3>1, KnownLasts
  <2>3. shown' # Nothing
    BY <1>2, ConsoleAssumption DEF Nothing
  <2>. QED BY <2>1, <2>2, <2>3, CopySteps
<1>3. ASSUME NEW l \in loads', l.read PROVE Known(l.env, l.row)'
  <2>1. CASE l \in loads
    BY <1>1, <1>3, <2>1, KnownLasts DEF CopiesInv
  <2>2. CASE l.row = row[l.env] /\ row' = row
    BY <2>2 DEF Known
  <2>. QED BY <1>3, <2>1, <2>2, CopySteps
<1>4. ASSUME NEW c \in Held', c.seen.env \in Envs PROVE Known(c.seen.env, c.seen.row)'
  <2>1. CASE \E d \in Held : Repeats(c, d)
    <3>1. PICK d \in Held : Repeats(c, d)
      BY <2>1
    <3>2. c.seen.row \in Rows /\ Known(c.seen.env, c.seen.row)
      BY <1>4, <3>1, HeldTypes, RecordTypes DEF CopiesInv, Repeats, SameRequest
    <3>. QED BY <1>4, <3>2, KnownLasts
  <2>2. CASE AddsRequest /\ c.seen = shown
    <3>1. c.seen.row \in Rows /\ Known(c.seen.env, c.seen.row)
      BY <1>4, <2>2, RecordTypes DEF TypeInv, TypeOK, CopiesInv
    <3>. QED BY <1>4, <3>1, KnownLasts
  <2>. QED BY <2>1, <2>2, RequestSteps DEF KeepsRequests, AddsRequest
<1>5. shown'.env \in Envs => Known(shown.env, shown.row)'
  BY <1>2 DEF Known
<1>. QED BY <1>3, <1>4, <1>5 DEF CopiesInv

LEMMA StepRequests ==
  ASSUME ConsoleInv, [Next]_vars
  PROVE  RequestsInv'
<1>. USE DEF ConsoleInv
<1>1. \A c \in Held' : c \in Calls
  <2>1. TypeInv'
    BY StepTypes
  <2>. QED BY <2>1 DEF Held, TypeInv, TypeOK, Loads
<1>2. \A c, d \in Held' : c.click = d.click => SameRequest(c, d)
  BY RequestSteps DEF RequestsInv, KeepsRequests, AddsRequest, Repeats, SameRequest
<1>3. \A c \in Held' : c.kind = "destroy" => c.named = c.seen.env
  BY RequestSteps DEF RequestsInv, KeepsRequests, AddsRequest, Repeats, SameRequest
<1>4. ASSUME NEW c \in Held', c.phase = "conflict", c.seen.env = c.env PROVE Stale(c)'
  <2>1. PICK d \in Held : Repeats(c, d)
    BY <1>4, RequestSteps DEF KeepsRequests, AddsRequest
  <2>2. c \in Calls /\ c.env \in Envs /\ c.seen.row \in Rows /\ row[c.env] \in Rows
    BY <1>1, RecordTypes DEF Calls, TypeInv, TypeOK
  <2>3. Stale(d) => Stale(c)
    BY <2>1 DEF Stale, Repeats, SameRequest
  <2>4. CASE ~RevisionMatches(d)
    <3>1. Known(c.env, c.seen.row) /\ c.seen.row.rev # row[c.env].rev
      BY <1>4, <2>1, <2>2, <2>4 DEF CopiesInv, Repeats, SameRequest, RevisionMatches
    <3>2. Stale(c)
      BY <3>1 DEF Known, Stale
    <3>. QED BY <2>2, <3>2, StaleLasts
  <2>5. CASE d.phase = "conflict"
    BY <1>4, <2>1, <2>2, <2>3, <2>5, StaleLasts DEF RequestsInv, Repeats, SameRequest
  <2>. QED BY <1>4, <2>1, <2>4, <2>5 DEF Repeats
<1>5. /\ \A i \in Clicks : effects'[i] <= 1
      /\ \A c \in Held' : effects'[c.click] > 0 => Stale(c)'
  <2>1. CASE effects' = effects
    <3>1. ASSUME NEW c \in Held', effects[c.click] > 0 PROVE Stale(c)'
      <4>1. PICK d \in Held : Repeats(c, d)
        BY <3>1, RequestSteps DEF KeepsRequests, AddsRequest
      <4>2. Stale(c)
        BY <3>1, <4>1 DEF RequestsInv, Repeats, SameRequest, Stale
      <4>. QED BY <1>1, <4>2, StaleLasts
    <3>. QED BY <2>1, <3>1 DEF RequestsInv
  <2>2. ASSUME NEW x \in calls, Serves(x)
        PROVE  /\ \A i \in Clicks : effects'[i] <= 1
               /\ \A c \in Held' : effects'[c.click] > 0 => Stale(c)'
    <3>1. x \in Held /\ x.env \in Envs /\ x.click \in Clicks /\ row[x.env].rev \in Nat
      BY RecordTypes DEF Held, TypeInv, TypeOK, Calls, Rows
    <3>2. x.seen.row.rev = row[x.env].rev /\ row'[x.env].rev = row[x.env].rev + 1
          /\ effects' = [effects EXCEPT ![x.click] = @ + 1]
      BY <2>2, <3>1, WriteRaises DEF Serves, RevisionMatches
    <3>3. effects[x.click] = 0
      BY <3>1, <3>2 DEF RequestsInv, Stale, TypeInv, TypeOK
    <3>4. KeepsRequests
      BY <3>1, <3>2, RequestSteps DEF AddsRequest, Rests
    <3>5. ASSUME NEW c \in Held', effects'[c.click] > 0 PROVE Stale(c)'
      <4>1. PICK d \in Held : Repeats(c, d)
        BY <3>4 DEF KeepsRequests
      <4>2. CASE c.click = x.click
        <5>1. SameRequest(c, x)
          BY <3>1, <4>1, <4>2 DEF RequestsInv, Repeats, SameRequest
        <5>. QED BY <3>1, <3>2, <5>1 DEF SameRequest, Stale
      <4>3. CASE c.click # x.click
        <5>1. effects[c.click] > 0
          BY <1>1, <3>2, <3>5, <4>3 DEF Calls, TypeInv, TypeOK
        <5>2. Stale(c)
          BY <4>1, <5>1 DEF RequestsInv, Repeats, SameRequest, Stale
        <5>. QED BY <1>1, <5>2, StaleLasts
      <4>. QED BY <4>2, <4>3
    <3>. QED BY <3>1, <3>2, <3>3, <3>5 DEF RequestsInv, TypeInv, TypeOK
  <2>. QED BY <2>1, <2>2, RowSteps DEF Rests, OthersWrite
<1>. QED BY <1>2, <1>3, <1>4, <1>5 DEF RequestsInv

LEMMA StepExplained ==
  ASSUME ConsoleInv, [Next]_vars
  PROVE  ConflictIsExplained'
<1>. USE DEF ConsoleInv
<1>1. ASSUME NEW l \in loads', l.read, l.after.phase = "conflict", l.after.seen.env = l.env
      PROVE  "rev" \in ConflictDelta(l.after.seen.row, l.row)
  <2>1. CASE l \in loads
    BY <1>1, <2>1 DEF ConflictIsExplained
  <2>2. CASE l.row = row[l.env] /\ \E m \in loads : l.env = m.env /\ l.after = m.after
    <3>1. l.after # NoCall
      BY <1>1 DEF NoCall
    <3>2. l.after \in Held /\ l.env = l.after.env
      BY <2>2, <3>1 DEF Held, TypeInv, PageInv
    <3>3. Stale(l.after)
      BY <1>1, <3>2 DEF RequestsInv
    <3>4. l.after.seen.row.rev \in Nat /\ row[l.env].rev \in Nat
      BY <3>2, HeldTypes, RecordTypes DEF Rows, TypeInv, TypeOK
    <3>5. l.after.seen.row.rev # l.row.rev
      BY <2>2, <3>2, <3>3, <3>4 DEF Stale
    <3>. QED BY <3>5 DEF ConflictDelta
  <2>. QED BY <1>1, <2>1, <2>2, CopySteps
<1>. QED BY <1>1 DEF ConflictIsExplained

LEMMA InitConsole == Init => ConsoleInv
<1>. SUFFICES ASSUME Init PROVE ConsoleInv
  OBVIOUS
<1>1. Held = {}
  BY DEF Init, Held, Quiet
<1>2. CopiesInv
  BY <1>1, ConsoleAssumption DEF Init, CopiesInv, Nothing
<1>3. UnderWayInv /\ RequestsInv /\ ConflictIsExplained
  BY <1>1 DEF Init, UnderWayInv, RequestsInv, ConflictIsExplained
<1>. QED BY <1>2, <1>3, InitTypes DEF ConsoleInv

LEMMA StepConsole == ConsoleInv /\ [Next]_vars => ConsoleInv'
BY StepTypes, StepUnderWay, StepCopies, StepRequests, StepExplained DEF ConsoleInv

\* The inductive invariant of the console holds in every state.
THEOREM ConsoleInvariant == Spec => []ConsoleInv
BY InitConsole, StepConsole, PTL DEF Spec

\* A click has one effect at most, however often its request is sent again after
\* a lost answer: the revision it carries is one its first success has left behind.
THEOREM ClicksActOnce == Spec => []ClickActsOnce
<1>1. ConsoleInv => ClickActsOnce
  BY DEF ConsoleInv, RequestsInv, ClickActsOnce
<1>. QED BY <1>1, ConsoleInvariant, PTL

\* After a conflict the row loaded differs, by its revision at least, from the one
\* the operator acted on, whatever the order in which answers and loads arrive.
THEOREM ConflictsAreExplained == Spec => []ConflictIsExplained
<1>1. ConsoleInv => ConflictIsExplained
  BY DEF ConsoleInv
<1>. QED BY <1>1, ConsoleInvariant, PTL

\* A request accepted in a step has the server serve one of the same click, which
\* asks for the same.
LEMMA AcceptedIsServed ==
  ASSUME ConsoleInv, [Next]_vars, NEW c \in calls, Accepted(c)
  PROVE  \E x \in calls : Serves(x) /\ SameRequest(c, x) /\ x.env \in Envs
<1>1. ~UNCHANGED effects
  BY DEF Accepted, ConsoleInv, TypeInv, TypeOK, Calls
<1>2. PICK x \in calls : Serves(x)
  BY <1>1, RowSteps DEF ConsoleInv, Rests, OthersWrite
<1>3. c.click = x.click
  BY <1>2 DEF Accepted, Serves, ConsoleInv, TypeInv, TypeOK, Calls
<1>4. c \in Held /\ x \in Held /\ x.env \in Envs
  BY RecordTypes DEF ConsoleInv, TypeInv, TypeOK, Held, Calls
<1>. QED BY <1>2, <1>3, <1>4 DEF ConsoleInv, RequestsInv

\* A request whose path is still the environment shown takes effect on the very row
\* its operator saw: the copy with the row's revision is the row, because no two
\* writes leave the same revision.  One whose path has moved to another environment
\* takes effect if that row's revision equals the one shown, unless it is a destroy.
THEOREM EffectsMeetShownRow == Spec => AcceptedAtShownRow
<1>. DEFINE Meets(c) ==
       \/ c.seen.env = c.env /\ c.seen.row = row[c.env]
       \/ /\ c.seen.env # c.env /\ c.seen.row.rev = row[c.env].rev
          /\ c.kind # "destroy"
<1>1. ASSUME ConsoleInv, [Next]_vars, NEW c \in calls, Accepted(c)
      PROVE  Meets(c)
  <2>1. PICK x \in calls : Serves(x) /\ SameRequest(c, x) /\ x.env \in Envs
    BY <1>1, AcceptedIsServed
  <2>2. x \in Held
    BY <1>1, RecordTypes DEF ConsoleInv, TypeInv, TypeOK, Held
  <2>3. x.seen.row.rev = row[x.env].rev /\ NameMatches(x)
    BY <2>1 DEF Serves, RevisionMatches
  <2>4. row[x.env].rev \in Nat
    BY <1>1, <2>1 DEF ConsoleInv, TypeInv, TypeOK, Rows
  <2>5. CASE x.seen.env = x.env
    <3>1. Known(x.env, x.seen.row)
      BY <1>1, <2>1, <2>2, <2>5 DEF ConsoleInv, CopiesInv
    <3>. QED BY <2>1, <2>3, <2>4, <2>5, <3>1 DEF Known, SameRequest
  <2>6. CASE x.seen.env # x.env
    BY <2>1, <2>3, <2>6 DEF NameMatches, SameRequest
  <2>. QED BY <2>5, <2>6
<1>2. ConsoleInv /\ [Next]_vars => [\A c \in calls : Accepted(c) => Meets(c)]_vars
  BY <1>1
<1>. QED BY <1>2, ConsoleInvariant, PTL DEF Spec, AcceptedAtShownRow

\* A destroy plan is queued for the environment whose name the operator typed,
\* though the path under the page may have changed: the handler compares the name
\* the page showed, which is the one typed, with the row's.
THEOREM DestroysAreNamed == Spec => DestroysNamedEnvironment
<1>1. ASSUME ConsoleInv, [Next]_vars, NEW c \in calls, Accepted(c), c.kind = "destroy"
      PROVE  c.named = c.env
  <2>1. PICK x \in calls : Serves(x) /\ SameRequest(c, x) /\ x.env \in Envs
    BY <1>1, AcceptedIsServed
  <2>2. c \in Held
    BY <1>1, RecordTypes DEF ConsoleInv, TypeInv, TypeOK, Held
  <2>. QED BY <1>1, <2>1, <2>2
       DEF ConsoleInv, RequestsInv, Serves, NameMatches, SameRequest
<1>2. ConsoleInv /\ [Next]_vars
      => [\A c \in calls : Accepted(c) /\ c.kind = "destroy" => c.named = c.env]_vars
  BY <1>1
<1>. QED BY <1>2, ConsoleInvariant, PTL DEF Spec, DestroysNamedEnvironment
=============================================================================
