---------------------------- MODULE CatalogPages ----------------------------
(***************************************************************************)
(* The pages that show what a provider or a template offers                *)
(* (ProviderDetail, ProviderResourceDetail and Templates of                *)
(* src/web/src/pages), the provider picker of CreateEnvironment and        *)
(* Environments, and the page of the provider connections (Providers).     *)
(*                                                                         *)
(* The first four are one machine: something is chosen, by the path or by  *)
(* a click, its detail is asked for, and answers come in any order.  None  *)
(* of them cancels a request.  A load that finds no session leads to the   *)
(* login page, which to the page is to be left.                            *)
(***************************************************************************)
EXTENDS Naturals, Sequences, SequencesExt

CONSTANTS
  Items,    \* names of providers, or of templates
  MaxAsks,  \* bound: requests in flight when the operator acts
  NoItem

ASSUME CatalogAssumption == MaxAsks \in Nat \ {0} /\ NoItem \notin Items

VARIABLES
  catalogView,   \* the mounted page and what it shows
  catalogAsks,   \* its requests in flight
  providersTab,  \* the page of the connections
  providerCalls  \* its requests in flight

catalogVars == <<catalogView, catalogAsks, providersTab, providerCalls>>
-----------------------------------------------------------------------------
(* Showing one provider or template *)

\* "picker" is the choice of a provider among the fields of a new environment.
ViewKinds == {"provider", "resource", "templates", "picker"}

Asks == [what : {"list", "detail", "validate"}, item : Items \union {NoItem},
         unchosen : BOOLEAN]  \* the closure of the request had no choice yet

AskFor(item) == [what |-> "detail", item |-> item, unchosen |-> FALSE]
AskList == [what |-> "list", item |-> NoItem, unchosen |-> catalogView.chosen = NoItem]

NoView == [kind |-> "none", chosen |-> NoItem, info |-> NoItem, detail |-> NoItem,
           verdict |-> NoItem, busy |-> FALSE]

ProvidersClosed == [open |-> FALSE, listed |-> {}, name |-> NoItem, saving |-> FALSE,
                    checking |-> NoItem, preflight |-> NoItem, asked |-> NoItem]

CatalogInit ==
  /\ catalogView = NoView /\ catalogAsks = <<>>
  /\ providersTab = ProvidersClosed /\ providerCalls = <<>>

CatalogTypeOK ==
  LET maybe == Items \union {NoItem}
  IN  /\ catalogView \in [kind : ViewKinds \union {"none"}, chosen : maybe, info : maybe,
                          detail : maybe, verdict : maybe, busy : BOOLEAN]
      /\ catalogAsks \in Seq(Asks)
      /\ providersTab \in [open : BOOLEAN, listed : SUBSET Items, name : maybe,
                           saving : BOOLEAN, checking : maybe, preflight : maybe, asked : maybe]
      /\ providerCalls \in Seq([what : {"list", "reload", "save", "preflight"}, item : maybe])

MayAsk == Len(catalogAsks) < MaxAsks

\* A provider is in the path; a template or a picked provider waits for the list.
ViewOpen(kind, item) ==
  /\ catalogView.kind = "none" /\ ~providersTab.open
  /\ IF kind \in {"provider", "resource"}
     THEN /\ catalogView' = [NoView EXCEPT !.kind = kind, !.chosen = item, !.busy = TRUE]
          /\ catalogAsks' = <<AskFor(item)>>
     ELSE /\ catalogView' = [NoView EXCEPT !.kind = kind]
          /\ catalogAsks' = <<AskList>>
  /\ UNCHANGED <<providersTab, providerCalls>>

ViewLeave ==
  /\ catalogView.kind # "none"
  /\ catalogView' = NoView /\ catalogAsks' = <<>>
  /\ UNCHANGED <<providersTab, providerCalls>>

\* The effect on what is chosen, with the requests asks still in flight.
Inspect(item, asks) ==
  IF item = catalogView.chosen
  THEN catalogAsks' = asks /\ UNCHANGED catalogView
  ELSE /\ catalogView' = [catalogView EXCEPT !.chosen = item, !.busy = TRUE]
       /\ catalogAsks' = Append(asks, AskFor(item))

\* A link or the history menu, under a page without a key; or a click.  (The
\* page of a resource also loads again for another resource of its provider.)
Choose(item) ==
  /\ MayAsk /\ catalogView.chosen \notin {NoItem, item}
  /\ Inspect(item, catalogAsks)
  /\ UNCHANGED <<providersTab, providerCalls>>

\* Only the provider's pages disable the button while they are busy; Templates
\* loads its list again, not what it shows.
ViewRefresh ==
  /\ MayAsk
  /\ \/ /\ catalogView.kind \in {"provider", "resource"} /\ ~catalogView.busy
        /\ catalogView' = [catalogView EXCEPT !.busy = TRUE]
        /\ catalogAsks' = Append(catalogAsks, AskFor(catalogView.chosen))
     \/ /\ catalogView.kind = "templates"
        /\ catalogAsks' = Append(catalogAsks, AskList) /\ UNCHANGED catalogView
  /\ UNCHANGED <<providersTab, providerCalls>>

Validate ==
  /\ MayAsk /\ catalogView.kind = "templates"
  /\ catalogView.chosen # NoItem /\ ~catalogView.busy
  /\ catalogView' = [catalogView EXCEPT !.busy = TRUE]
  /\ catalogAsks' = Append(catalogAsks, [AskFor(catalogView.chosen) EXCEPT !.what = "validate"])
  /\ UNCHANGED <<providersTab, providerCalls>>

\* Templates chooses the first if nothing was chosen when it asked, the picker
\* the preferred one; without an answer or without items neither does.
ListArrives(n) ==
  /\ catalogAsks[n].what = "list"
  /\ \/ catalogAsks' = RemoveAt(catalogAsks, n) /\ UNCHANGED catalogView
     \/ /\ catalogAsks[n].unchosen
        /\ \E item \in Items : Inspect(item, RemoveAt(catalogAsks, n))
  /\ UNCHANGED <<providersTab, providerCalls>>

\* The detail, with the template's validation or the provider's connection, which
\* the list that comes with it may lack.  A failure clears the detail, but not the
\* connection.
DetailArrives(n) ==
  /\ catalogAsks[n].what = "detail"
  /\ catalogAsks' = RemoveAt(catalogAsks, n)
  /\ LET item == catalogAsks[n].item
         judged == IF catalogView.kind = "templates" THEN item ELSE NoItem
     IN  \/ \E info \in (IF catalogView.kind = "provider" THEN {item, NoItem} ELSE {NoItem}) :
              catalogView' = [catalogView EXCEPT !.detail = item, !.info = info,
                                                 !.verdict = judged, !.busy = FALSE]
         \/ catalogView' = [catalogView EXCEPT !.detail = NoItem, !.verdict = NoItem,
                                               !.busy = FALSE]
  /\ UNCHANGED <<providersTab, providerCalls>>

ValidationArrives(n) ==
  /\ catalogAsks[n].what = "validate"
  /\ catalogAsks' = RemoveAt(catalogAsks, n)
  /\ \E verdict \in {catalogAsks[n].item, catalogView.verdict} :
       catalogView' = [catalogView EXCEPT !.verdict = verdict, !.busy = FALSE]
  /\ UNCHANGED <<providersTab, providerCalls>>
-----------------------------------------------------------------------------
(* The connections *)

MayCall == providersTab.open /\ Len(providerCalls) < MaxAsks

ProviderCall(what, item) == [what |-> what, item |-> item]

ProvidersOpen ==
  /\ catalogView.kind = "none" /\ ~providersTab.open
  /\ providersTab' = [ProvidersClosed EXCEPT !.open = TRUE]
  /\ providerCalls' = <<ProviderCall("list", NoItem)>>
  /\ UNCHANGED <<catalogView, catalogAsks>>

ProvidersLeave ==
  /\ providersTab.open
  /\ providersTab' = ProvidersClosed /\ providerCalls' = <<>>
  /\ UNCHANGED <<catalogView, catalogAsks>>

\* The item of a list request is the name in the draft when it was asked.
ProvidersRefresh ==
  /\ MayCall
  /\ providerCalls' = Append(providerCalls, ProviderCall("list", providersTab.name))
  /\ UNCHANGED <<catalogView, catalogAsks, providersTab>>

\* A name is suggested if the draft had none when the list was asked for, even
\* if one has been typed since.
ProvidersArrive(n) ==
  /\ providerCalls[n].what \in {"list", "reload"}
  /\ providerCalls' = RemoveAt(providerCalls, n)
  /\ LET saving == providersTab.saving /\ providerCalls[n].what = "list"
     IN  \/ providersTab' = [providersTab EXCEPT !.saving = saving]
         \/ \E listed \in SUBSET Items, suggested \in Items :
              providersTab' = [providersTab EXCEPT
                !.listed = listed, !.saving = saving,
                !.name = IF providerCalls[n].item = NoItem THEN suggested ELSE @]
  /\ UNCHANGED <<catalogView, catalogAsks>>

\* NoItem is the initial name, which counts as none typed.
TypeName ==
  /\ providersTab.open
  /\ \E item \in Items \union {NoItem} : providersTab' = [providersTab EXCEPT !.name = item]
  /\ UNCHANGED <<catalogView, catalogAsks, providerCalls>>

\* saveProvider, of a draft whose fields pass.
SaveProvider ==
  /\ MayCall /\ ~providersTab.saving
  /\ providersTab' = [providersTab EXCEPT !.saving = TRUE]
  /\ providerCalls' = Append(providerCalls, ProviderCall("save", providersTab.name))
  /\ UNCHANGED <<catalogView, catalogAsks>>

\* After a success the list is loaded again, which ends the saving and clears
\* the notice of the success at once.
ProviderSaved(n) ==
  /\ providerCalls[n].what = "save"
  /\ LET rest == RemoveAt(providerCalls, n)
     IN  \/ /\ providerCalls' = rest
            /\ providersTab' = [providersTab EXCEPT !.saving = FALSE]
         \/ /\ providerCalls' = Append(rest, ProviderCall("reload", providerCalls[n].item))
            /\ UNCHANGED providersTab
  /\ UNCHANGED <<catalogView, catalogAsks>>

\* Mutant: only the button of the provider being checked is disabled.
PreflightOthers(item) ==
  /\ MayCall /\ item \in providersTab.listed /\ providersTab.checking # item
  /\ providersTab' = [providersTab EXCEPT !.checking = item, !.asked = item, !.preflight = NoItem]
  /\ providerCalls' = Append(providerCalls, ProviderCall("preflight", item))
  /\ UNCHANGED <<catalogView, catalogAsks>>

\* runPreflight; asked keeps, for the properties, which provider was asked last.
Preflight(item) ==
  /\ MayCall /\ item \in providersTab.listed /\ providersTab.checking = NoItem
  /\ providersTab' = [providersTab EXCEPT !.checking = item, !.asked = item, !.preflight = NoItem]
  /\ providerCalls' = Append(providerCalls, ProviderCall("preflight", item))
  /\ UNCHANGED <<catalogView, catalogAsks>>

PreflightArrives(n) ==
  /\ providerCalls[n].what = "preflight"
  /\ providerCalls' = RemoveAt(providerCalls, n)
  /\ \E item \in {providerCalls[n].item, NoItem} :
       providersTab' = [providersTab EXCEPT !.preflight = item, !.checking = NoItem]
  /\ UNCHANGED <<catalogView, catalogAsks>>
-----------------------------------------------------------------------------
CatalogNext ==
  \/ \E kind \in ViewKinds, item \in Items : ViewOpen(kind, item)
  \/ \E item \in Items : Choose(item) \/ Preflight(item)
  \/ ViewLeave \/ ViewRefresh \/ Validate
  \/ \E n \in DOMAIN catalogAsks : ListArrives(n) \/ DetailArrives(n) \/ ValidationArrives(n)
  \/ ProvidersOpen \/ ProvidersLeave \/ ProvidersRefresh \/ TypeName \/ SaveProvider
  \/ \E n \in DOMAIN providerCalls : ProvidersArrive(n) \/ ProviderSaved(n) \/ PreflightArrives(n)
-----------------------------------------------------------------------------
(* Properties *)

\* The verdict "ready for plan/apply" on the screen is of the provider asked about
\* last, and none is there while an answer is awaited.
PreflightAnswersTheQuestion ==
  providersTab.preflight # NoItem
    => providersTab.preflight = providersTab.asked /\ providersTab.checking = NoItem
=============================================================================
