----------------------------- MODULE MCWebPages -----------------------------
(***************************************************************************)
(* Small instances of the pages of a browser tab, of which one is mounted: *)
(* each behaviour is of one of them, the others are in their initial       *)
(* state.                                                                  *)
(***************************************************************************)
EXTENDS JobPage, CreatePage, CatalogPages, ListPages

VARIABLE mounted  \* the page of this behaviour

webVars == <<mounted, jobVars, formSpec, createVars, catalogVars, listVars>>

\* The form is checked alone, and as part of the wizard by the specs of CreatePage.
MountedPages == {"job", "form", "create", "catalog", "list"}

WebInit ==
  /\ mounted \in MountedPages
  /\ JobInit /\ FormInit /\ CreateInit /\ CatalogInit /\ ListInit

OnJob(A) == mounted = "job" /\ A /\ UNCHANGED <<mounted, formSpec, createVars, catalogVars, listVars>>
OnForm(A) == mounted = "form" /\ A /\ UNCHANGED <<mounted, jobVars, createVars, catalogVars, listVars>>
OnCreate(A) == mounted = "create" /\ A /\ UNCHANGED <<mounted, jobVars, formSpec, catalogVars, listVars>>
OnCatalog(A) == mounted = "catalog" /\ A /\ UNCHANGED <<mounted, jobVars, formSpec, createVars, listVars>>
OnList(A) == mounted = "list" /\ A /\ UNCHANGED <<mounted, jobVars, formSpec, createVars, catalogVars>>

WebNext ==
  OnJob(JobNext) \/ OnForm(FormNext) \/ OnCreate(CreateNext) \/ OnCatalog(CatalogNext) \/ OnList(ListNext)

\* The stream's server and the browser go on; requests are answered or fail.
WebFairness ==
  /\ WF_jobVars(mounted = "job" /\ Tick) /\ WF_jobVars(mounted = "job" /\ OnMessage)
  /\ WF_jobVars(mounted = "job" /\ (JobCreated \/ JobApplyFails))
  /\ WF_createVars(mounted = "create" /\ \E p \in createPreviews : PreviewEnds(p))

WebSpec == WebInit /\ [][WebNext]_webVars /\ WebFairness

\* The pages' states have their types.
WebTypeOK == JobTypeOK /\ FormTypeOK /\ CreateTypeOK /\ CatalogTypeOK /\ ListTypeOK
=============================================================================
