----------------------------- MODULE CreatePage -----------------------------
(***************************************************************************)
(* The wizard that creates an environment                                  *)
(* (src/web/src/pages/CreateEnvironment.tsx): seven steps over one spec, a *)
(* draft kept in the browser, and a review that the server computes from   *)
(* the spec and the template before the create button is enabled.          *)
(*                                                                         *)
(* The review is asked for by an effect on the step, the spec and the      *)
(* template; an answer whose effect was cleaned up since is ignored.  The  *)
(* server's answers depend on the request alone, so a request is served    *)
(* when its answer arrives.                                                *)
(***************************************************************************)
EXTENDS SpecForm

CONSTANTS
  Templates,    \* the environment templates on the server
  Basic,        \* the template selected at first
  MaxPreviews,  \* bound: reviews under way when the operator acts
  NoTemplate

ASSUME CreateAssumption ==
  Templates # {} /\ NoTemplate \notin Templates \union {Basic} /\ MaxPreviews \in Nat

VARIABLES
  createTab,       \* the page's state
  createPreviews,  \* requests for a review in flight
  createList,      \* whether the list of templates is awaited
  createCall,      \* the request to create under way
  createDraft      \* the draft in local storage

createVars == <<createTab, createPreviews, createList, createCall, createDraft>>
-----------------------------------------------------------------------------
\* The template, the review, and one step for the five that edit the spec.
Steps == {0, 3, 6}

\* The specs the operator's editing is reduced to: a good one, one the wizard
\* stops, and one that only the server refuses.
WizardSpecs == {"good", "unfinished", "lenient"}
SpecOf ==
  [name \in WizardSpecs |->
     CASE name = "good"       -> EmptySpec
       [] name = "unfinished" -> [EmptySpec EXCEPT !.gateway = Prefix("malformed", {}, 0)]
       [] name = "lenient"    -> [EmptySpec EXCEPT !.networkCidr = Prefix("lenient", {}, 0)]]

Sound == {name \in WizardSpecs : ServerAccepts(SpecOf[name])}
Clean == {name \in WizardSpecs : WizardAccepts(SpecOf[name])}

Submissions == [spec : WizardSpecs, template : Templates \union {Basic}]
NoChoice == [spec |-> "good", template |-> NoTemplate]
Choice(tab) == [spec |-> tab.spec, template |-> tab.template]

FreshTab == [mounted |-> FALSE, ready |-> FALSE, step |-> 0, spec |-> "good",
             template |-> Basic, items |-> {}, preview |-> NoChoice,
             failed |-> FALSE, loading |-> FALSE, creating |-> FALSE]

NoDraft == [step |-> 0, choice |-> NoChoice]
NoCreate == [choice |-> NoChoice, seen |-> NoChoice, refused |-> FALSE]

CreateInit ==
  /\ createTab = FreshTab /\ createPreviews = {} /\ createList = FALSE
  /\ createCall = NoCreate /\ createDraft = NoDraft

CreateTypeOK ==
  /\ createTab \in [mounted : BOOLEAN, ready : BOOLEAN, step : Steps, spec : WizardSpecs,
                    template : Templates \union {Basic}, items : SUBSET Templates,
                    preview : Submissions \union {NoChoice},
                    failed : BOOLEAN, loading : BOOLEAN, creating : BOOLEAN]
  /\ createPreviews \subseteq [choice : Submissions, cancelled : BOOLEAN]
  /\ createList \in BOOLEAN
  /\ createCall \in [choice : Submissions \union {NoChoice}, seen : Submissions \union {NoChoice},
                     refused : BOOLEAN]
  /\ createDraft \in [step : Steps, choice : Submissions \union {NoChoice}]
-----------------------------------------------------------------------------
(* The review *)

Cancelled(previews) == {[p EXCEPT !.cancelled = TRUE] : p \in previews}

\* Mutant: an effect is not cleaned up.
RenderedWithoutCleanup(tab) ==
  IF tab.ready /\ tab.step = 6
  THEN /\ createTab' = [tab EXCEPT !.loading = TRUE, !.failed = FALSE]
       /\ createPreviews' = createPreviews \union {[choice |-> Choice(tab), cancelled |-> FALSE]}
  ELSE createTab' = tab /\ UNCHANGED createPreviews

\* The page is rendered with new state: the effect before is cleaned up, which
\* leaves it loading, and the last step asks for a review.
Rendered(tab) ==
  IF tab.ready /\ tab.step = 6
  THEN /\ createTab' = [tab EXCEPT !.loading = TRUE, !.failed = FALSE]
       /\ createPreviews' = Cancelled(createPreviews) \union
                            {[choice |-> Choice(tab), cancelled |-> FALSE]}
  ELSE createTab' = tab /\ createPreviews' = Cancelled(createPreviews)

\* Mutant: the review is computed without validating the spec.
PreviewEndsUnvalidated(p) ==
  \E ok \in BOOLEAN :
    /\ createPreviews' = createPreviews \ {p}
    /\ createTab' = IF p.cancelled THEN createTab
                    ELSE [createTab EXCEPT !.preview = IF ok THEN p.choice ELSE NoChoice,
                                           !.failed = ~ok, !.loading = FALSE]
    /\ UNCHANGED <<createList, createCall, createDraft>>

\* Mutant: only a review that could be computed ends the loading.
PreviewEndsOnSuccess(p) ==
  \E ok \in {FALSE, p.choice.spec \in Sound} :
    /\ createPreviews' = createPreviews \ {p}
    /\ createTab' = IF p.cancelled THEN createTab
                    ELSE [createTab EXCEPT !.preview = IF ok THEN p.choice ELSE NoChoice,
                                           !.failed = ~ok, !.loading = ~ok]
    /\ UNCHANGED <<createList, createCall, createDraft>>

\* The server validates the spec, not the template; the request may also be lost.
PreviewEnds(p) ==
  \E ok \in {FALSE, p.choice.spec \in Sound} :
    /\ createPreviews' = createPreviews \ {p}
    /\ createTab' = IF p.cancelled THEN createTab
                    ELSE [createTab EXCEPT !.preview = IF ok THEN p.choice ELSE NoChoice,
                                           !.failed = ~ok, !.loading = FALSE]
    /\ UNCHANGED <<createList, createCall, createDraft>>
-----------------------------------------------------------------------------
(* The page *)

\* The draft is restored at once, the rest waits for the viewer.
CreateOpen ==
  /\ ~createTab.mounted
  /\ createTab' = IF createDraft = NoDraft THEN [FreshTab EXCEPT !.mounted = TRUE]
                  ELSE [FreshTab EXCEPT !.mounted = TRUE, !.step = createDraft.step,
                                        !.spec = createDraft.choice.spec,
                                        !.template = createDraft.choice.template]
  /\ UNCHANGED <<createPreviews, createList, createCall, createDraft>>

ViewerArrives ==
  /\ createTab.mounted /\ ~createTab.ready
  /\ Rendered([createTab EXCEPT !.ready = TRUE])
  /\ createList' = TRUE
  /\ UNCHANGED <<createCall, createDraft>>

CreateLeave ==
  /\ createTab.mounted
  /\ createTab' = FreshTab
  /\ createPreviews' = Cancelled(createPreviews) /\ createList' = FALSE
  /\ UNCHANGED <<createCall, createDraft>>

\* The effect depends on the template: it runs when the list changes it.
Selected(tab) ==
  IF tab.template = createTab.template
  THEN createTab' = tab /\ UNCHANGED createPreviews
  ELSE Rendered(tab)

\* The selection stays if it is listed, or if nothing is, else the first one is
\* taken; without an answer it is the basic one.
TemplatesArrive ==
  /\ createList
  /\ createList' = FALSE
  /\ \/ \E first \in Templates :
          Selected([createTab EXCEPT !.items = Templates,
                                     !.template = IF @ \in Templates THEN @ ELSE first])
     \/ \E template \in {Basic, createTab.template} :
          Selected([createTab EXCEPT !.items = {}, !.template = template])
  /\ UNCHANGED <<createCall, createDraft>>

MayAct == createTab.ready /\ Cardinality(createPreviews) < MaxPreviews

\* The list of steps leads anywhere; Back and Continue, which a step's errors
\* disable, lead nowhere else.
GoTo(step) ==
  /\ MayAct /\ step # createTab.step
  /\ Rendered([createTab EXCEPT !.step = step])
  /\ UNCHANGED <<createList, createCall, createDraft>>

Edit ==
  /\ MayAct /\ createTab.step = 3
  /\ \E spec \in WizardSpecs : Rendered([createTab EXCEPT !.spec = spec])
  /\ UNCHANGED <<createList, createCall, createDraft>>

ChooseTemplate(t) ==
  /\ MayAct /\ createTab.step = 0 /\ t \in createTab.items
  /\ Rendered([createTab EXCEPT !.template = t])
  /\ UNCHANGED <<createList, createCall, createDraft>>

\* The draft the server infers from a request in prose replaces the spec.
UseRequestDraft ==
  /\ MayAct /\ createTab.step = 0
  /\ \E spec \in WizardSpecs :
       Rendered([createTab EXCEPT !.spec = spec, !.template = Basic, !.step = 3])
  /\ UNCHANGED <<createList, createCall, createDraft>>

SaveDraft ==
  /\ createTab.ready
  /\ createDraft' = [step |-> createTab.step, choice |-> Choice(createTab)]
  /\ UNCHANGED <<createTab, createPreviews, createList, createCall>>

OffersCreate ==
  /\ createTab.ready /\ createTab.step = 6
  /\ ~createTab.creating /\ ~createTab.loading /\ ~createTab.failed
  /\ createTab.spec \in Clean

\* seen: the review the operator had before the eyes.
CreateEnvironment ==
  /\ OffersCreate /\ createCall = NoCreate
  /\ createTab' = [createTab EXCEPT !.creating = TRUE]
  /\ createCall' = [NoCreate EXCEPT !.choice = Choice(createTab), !.seen = createTab.preview]
  /\ UNCHANGED <<createPreviews, createList, createDraft>>

CreateServed ==
  /\ createCall # NoCreate /\ ~createCall.refused
  /\ IF createCall.choice.spec \in Sound
     THEN \* The draft is removed and the page leads to the plan's review, both
          \* even if the wizard was left, or opened again, meanwhile.
          /\ createDraft' = NoDraft /\ createCall' = NoCreate
          /\ createTab' = FreshTab
          /\ createPreviews' = Cancelled(createPreviews) /\ createList' = FALSE
     ELSE /\ createCall' = [createCall EXCEPT !.refused = TRUE]
          /\ UNCHANGED <<createTab, createPreviews, createList, createDraft>>

\* The answer is an error, or none.
CreateFails ==
  /\ createCall # NoCreate
  /\ createCall' = NoCreate
  /\ createTab' = [createTab EXCEPT !.creating = FALSE]
  /\ UNCHANGED <<createPreviews, createList, createDraft>>

CreateNext ==
  \/ CreateOpen \/ CreateLeave \/ ViewerArrives \/ TemplatesArrive
  \/ \E step \in Steps : GoTo(step)
  \/ \E t \in Templates : ChooseTemplate(t)
  \/ Edit \/ UseRequestDraft \/ SaveDraft
  \/ CreateEnvironment \/ CreateServed \/ CreateFails
  \/ \E p \in createPreviews : PreviewEnds(p)
-----------------------------------------------------------------------------
(* Properties *)

\* What is created is the spec and the template of the review on the screen,
\* whichever answers were late and whenever the list of templates came.
CreatesWhatWasReviewed == createCall.seen = createCall.choice

\* The server takes what the button sends: what the wizard's validator lets
\* through wrongly, the review has stopped.
CreateIsAccepted == ~createCall.refused

\* The review step does not load for ever.
ReviewSettles ==
  (createTab.loading /\ createTab.step = 6) ~> (~createTab.loading \/ createTab.step # 6)
=============================================================================
