----------------------------- MODULE WebProofs -----------------------------
(***************************************************************************)
(* Proofs about the pages of the web UI that MCWebPages puts together, for *)
(* every number of jobs, templates, items and users, every width of an     *)
(* address and every bound.                                                *)
(***************************************************************************)
EXTENDS MCWebPages, SequenceTheorems, TLAPS

-----------------------------------------------------------------------------
(* Requests in flight, kept in the order in which they were sent *)

\* Where the j-th element was before the n-th was removed.
Origin(j, n) == IF j < n THEN j ELSE j + 1

\* Removing an answered request leaves the others, each once.
LEMMA RemoveAtIs ==
  ASSUME NEW S, NEW s \in Seq(S), NEW n \in DOMAIN s
  PROVE  /\ RemoveAt(s, n) \in Seq(S)
         /\ Len(RemoveAt(s, n)) = Len(s) - 1
         /\ \A j \in DOMAIN RemoveAt(s, n) :
              Origin(j, n) \in DOMAIN s \ {n} /\ RemoveAt(s, n)[j] = s[Origin(j, n)]
         /\ \A j, k \in DOMAIN RemoveAt(s, n) : j # k => Origin(j, n) # Origin(k, n)
<1>. DEFINE before == SubSeq(s, 1, n - 1)
            after == SubSeq(s, n + 1, Len(s))
<1>1. n \in 1 .. Len(s) /\ Len(s) \in Nat
  BY LenProperties
<1>2. /\ before \in Seq(S) /\ Len(before) = n - 1
      /\ \A j \in 1 .. n - 1 : before[j] = s[j]
  BY <1>1, SubSeqProperties, LenProperties
<1>3. /\ after \in Seq(S) /\ Len(after) = Len(s) - n
      /\ \A j \in 1 .. Len(s) - n : after[j] = s[n + j]
  BY <1>1, SubSeqProperties, LenProperties
<1>4. RemoveAt(s, n) = before \o after
  BY DEF RemoveAt
<1>. HIDE DEF before, after
<1>5. /\ before \o after \in Seq(S) /\ Len(before \o after) = Len(s) - 1
      /\ \A j \in 1 .. Len(s) - 1 :
           (before \o after)[j] = IF j <= n - 1 THEN before[j] ELSE after[j - (n - 1)]
  <2>1. /\ before \o after \in Seq(S) /\ Len(before \o after) = Len(before) + Len(after)
        /\ \A j \in 1 .. Len(before) + Len(after) :
             (before \o after)[j] = IF j <= Len(before) THEN before[j] ELSE after[j - Len(before)]
    BY <1>2, <1>3, ConcatProperties
  <2>2. Len(before) = n - 1 /\ Len(before) + Len(after) = Len(s) - 1
    BY <1>1, <1>2, <1>3
  <2>. QED BY <2>1, <2>2
<1>6. DOMAIN (before \o after) = 1 .. Len(s) - 1 /\ DOMAIN s = 1 .. Len(s)
  BY <1>5, LenProperties
<1>7. ASSUME NEW j \in 1 .. Len(s) - 1
      PROVE  (before \o after)[j] = s[Origin(j, n)]
  <2>1. CASE j < n
    BY <1>1, <1>2, <1>5, <2>1 DEF Origin
  <2>2. CASE ~(j < n)
    <3>1. j - (n - 1) \in 1 .. Len(s) - n /\ n + (j - (n - 1)) = j + 1
      BY <1>1, <2>2
    <3>2. (before \o after)[j] = after[j - (n - 1)]
      BY <1>1, <1>5, <2>2
    <3>3. after[j - (n - 1)] = s[n + (j - (n - 1))]
      BY <1>3, <3>1
    <3>. QED BY <2>2, <3>1, <3>2, <3>3 DEF Origin
  <2>. QED BY <2>1, <2>2
<1>8. ASSUME NEW j \in 1 .. Len(s) - 1 PROVE Origin(j, n) \in DOMAIN s \ {n}
  <2>1. Origin(j, n) \in 1 .. Len(s) /\ Origin(j, n) # n
    BY ONLY <1>1, j \in 1 .. Len(s) - 1 DEF Origin
  <2>. QED BY ONLY <2>1, <1>6
<1>9. \A j, k \in 1 .. Len(s) - 1 : j # k => Origin(j, n) # Origin(k, n)
  BY ONLY <1>1 DEF Origin
<1>. QED BY ONLY <1>4, <1>5, <1>6, <1>7, <1>8, <1>9

\* A request sent is the last; the others stay where they are.
LEMMA AppendIs ==
  ASSUME NEW S, NEW s \in Seq(S), NEW e \in S
  PROVE  /\ Append(s, e) \in Seq(S)
         /\ \A j \in DOMAIN Append(s, e) :
              \/ j \in DOMAIN s /\ Append(s, e)[j] = s[j]
              \/ j = Len(s) + 1 /\ Append(s, e)[j] = e
         /\ Len(s) + 1 \notin DOMAIN s
<1>1. DOMAIN s = 1 .. Len(s) /\ Len(s) \in Nat
  BY LenProperties
<1>2. /\ Append(s, e) \in Seq(S) /\ Len(Append(s, e)) = Len(s) + 1
      /\ \A i \in 1 .. Len(s) : Append(s, e)[i] = s[i]
      /\ Append(s, e)[Len(s) + 1] = e
  BY AppendProperties
<1>3. DOMAIN Append(s, e) = 1 .. Len(s) + 1
  BY <1>2, LenProperties
<1>4. \A j \in 1 .. Len(s) + 1 : j \in 1 .. Len(s) \/ j = Len(s) + 1
  BY ONLY <1>1
<1>. QED BY ONLY <1>1, <1>2, <1>3, <1>4

-----------------------------------------------------------------------------
(* The catalog pages *)

ProviderCalls == [what : {"list", "reload", "save", "preflight"}, item : Items \union {NoItem}]

\* One connection is checked at a time, the one asked about last, and no verdict is
\* on the screen meanwhile.
Fits(tab, pending) ==
  /\ tab.preflight # NoItem => tab.preflight = tab.asked /\ tab.checking = NoItem
  /\ \A n \in DOMAIN pending :
       pending[n].what = "preflight" =>
         tab.checking # NoItem /\ tab.asked = tab.checking /\ pending[n].item = tab.checking
  /\ \A n, m \in DOMAIN pending :
       pending[n].what = "preflight" /\ pending[m].what = "preflight" => n = m

PreflightInv == Fits(providersTab, providerCalls)

CatalogInv == CatalogTypeOK /\ PreflightInv

LEMMA InitCatalog == CatalogInit => CatalogInv
<1>. SUFFICES ASSUME CatalogInit PROVE CatalogInv
  OBVIOUS
<1>1. /\ catalogView = NoView /\ catalogAsks = <<>>
      /\ providersTab = ProvidersClosed /\ providerCalls = <<>>
  BY DEF CatalogInit
<1>2. catalogAsks \in Seq(Asks) /\ providerCalls \in Seq(ProviderCalls) /\ DOMAIN providerCalls = {}
  BY <1>1, EmptySeq
<1>3. CatalogTypeOK
  BY <1>1, <1>2 DEF CatalogTypeOK, ProviderCalls, NoView, ProvidersClosed, ViewKinds
<1>4. PreflightInv
  BY <1>1, <1>2 DEF PreflightInv, Fits, ProvidersClosed
<1>. QED BY <1>3, <1>4 DEF CatalogInv

Views == [kind : ViewKinds \union {"none"}, chosen : Items \union {NoItem},
          info : Items \union {NoItem}, detail : Items \union {NoItem},
          verdict : Items \union {NoItem}, busy : BOOLEAN]

LEMMA AskTypes ==
  ASSUME CatalogInv
  PROVE  /\ AskList \in Asks
         /\ \A item \in Items \union {NoItem} :
              AskFor(item) \in Asks /\ [AskFor(item) EXCEPT !.what = "validate"] \in Asks
         /\ catalogAsks \in Seq(Asks) /\ catalogView \in Views
         /\ \A n \in DOMAIN catalogAsks :
              catalogAsks[n] \in Asks /\ RemoveAt(catalogAsks, n) \in Seq(Asks)
<1>1. catalogAsks \in Seq(Asks) /\ catalogView \in Views
  BY DEF CatalogInv, CatalogTypeOK, Views
<1>2. \A n \in DOMAIN catalogAsks :
        catalogAsks[n] \in Asks /\ RemoveAt(catalogAsks, n) \in Seq(Asks)
  BY <1>1, RemoveAtIs, ElementOfSeq, LenProperties
<1>3. AskList \in Asks /\ \A item \in Items \union {NoItem} :
        AskFor(item) \in Asks /\ [AskFor(item) EXCEPT !.what = "validate"] \in Asks
  BY DEF AskList, AskFor, Asks
<1>. QED BY <1>1, <1>2, <1>3

\* A view and its requests, with the connections left alone.
LEMMA ViewKept ==
  ASSUME CatalogInv, catalogView' \in Views, catalogAsks' \in Seq(Asks),
         UNCHANGED <<providersTab, providerCalls>>
  PROVE  CatalogInv'
BY DEF CatalogInv, CatalogTypeOK, Views, PreflightInv

LEMMA InspectKeeps ==
  ASSUME CatalogInv, NEW item \in Items, NEW asks \in Seq(Asks), Inspect(item, asks),
         UNCHANGED <<providersTab, providerCalls>>
  PROVE  CatalogInv'
<1>1. Append(asks, AskFor(item)) \in Seq(Asks)
  BY AskTypes, AppendProperties
<1>2. catalogView \in Views
  BY AskTypes
<1>3. catalogAsks' \in Seq(Asks)
      /\ catalogView' \in {catalogView, [catalogView EXCEPT !.chosen = item, !.busy = TRUE]}
  BY <1>1 DEF Inspect
<1>4. catalogView' \in Views
  BY <1>2, <1>3 DEF Views
<1>. QED BY <1>3, <1>4, ViewKept

LEMMA ViewSteps ==
  ASSUME CatalogInv,
         \/ \E kind \in ViewKinds, item \in Items : ViewOpen(kind, item)
         \/ \E item \in Items : Choose(item)
         \/ ViewLeave \/ ViewRefresh \/ Validate
         \/ \E n \in DOMAIN catalogAsks :
              ListArrives(n) \/ DetailArrives(n) \/ ValidationArrives(n)
  PROVE  CatalogInv'
<1>. USE AskTypes
<1>0. NoView \in Views /\ <<>> \in Seq(Asks)
  BY EmptySeq DEF NoView, Views
<1>1. ASSUME NEW kind \in ViewKinds, NEW item \in Items, ViewOpen(kind, item) PROVE CatalogInv'
  <2>1. catalogView' \in {[NoView EXCEPT !.kind = kind, !.chosen = item, !.busy = TRUE],
                          [NoView EXCEPT !.kind = kind]}
    BY <1>1 DEF ViewOpen
  <2>4. catalogView' \in Views
    <3>1. CASE catalogView' = [NoView EXCEPT !.kind = kind]
      BY <3>1 DEF Views, NoView
    <3>2. CASE catalogView' = [NoView EXCEPT !.kind = kind, !.chosen = item, !.busy = TRUE]
      BY <3>2 DEF Views, NoView
    <3>. QED BY <2>1, <3>1, <3>2
  <2>5. \A ask \in Asks : <<ask>> \in Seq(Asks)
    OBVIOUS
  <2>2. <<AskFor(item)>> \in Seq(Asks) /\ <<AskList>> \in Seq(Asks)
    BY <2>5
  <2>3. catalogAsks' \in Seq(Asks) /\ UNCHANGED <<providersTab, providerCalls>>
    BY <1>1, <2>2 DEF ViewOpen
  <2>. QED BY <2>3, <2>4, ViewKept
<1>2. ASSUME NEW item \in Items, Choose(item) PROVE CatalogInv'
  BY <1>2, InspectKeeps DEF Choose
<1>3. ASSUME ViewLeave PROVE CatalogInv'
  BY <1>0, <1>3, ViewKept DEF ViewLeave
<1>4. ASSUME ViewRefresh \/ Validate PROVE CatalogInv'
  <2>1. catalogView' \in {catalogView, [catalogView EXCEPT !.busy = TRUE]}
        /\ UNCHANGED <<providersTab, providerCalls>>
    BY <1>4 DEF ViewRefresh, Validate
  <2>2. PICK ask \in Asks : catalogAsks' = Append(catalogAsks, ask)
    BY <1>4 DEF ViewRefresh, Validate, Views
  <2>3. catalogAsks' \in Seq(Asks)
    BY <2>2, AppendProperties
  <2>4. catalogView' \in Views
    BY <2>1 DEF Views
  <2>. QED BY <2>1, <2>3, <2>4, ViewKept
<1>5. ASSUME NEW n \in DOMAIN catalogAsks, ListArrives(n) PROVE CatalogInv'
  <2>1. CASE catalogAsks' = RemoveAt(catalogAsks, n) /\ UNCHANGED catalogView
    BY <1>5, <2>1, ViewKept DEF ListArrives
  <2>2. CASE \E item \in Items : Inspect(item, RemoveAt(catalogAsks, n))
    BY <1>5, <2>2, InspectKeeps DEF ListArrives
  <2>. QED BY <1>5, <2>1, <2>2 DEF ListArrives
<1>6. ASSUME NEW n \in DOMAIN catalogAsks, DetailArrives(n) PROVE CatalogInv'
  <2>. DEFINE item == catalogAsks[n].item
              judged == IF catalogView.kind = "templates" THEN item ELSE NoItem
  <2>1. item \in Items \union {NoItem} /\ judged \in Items \union {NoItem}
    BY DEF Asks
  <2>2. CASE \E info \in (IF catalogView.kind = "provider" THEN {item, NoItem} ELSE {NoItem}) :
               catalogView' = [catalogView EXCEPT !.detail = item, !.info = info,
                                                  !.verdict = judged, !.busy = FALSE]
    <3>1. PICK info \in {item, NoItem} :
            catalogView' = [catalogView EXCEPT !.detail = item, !.info = info,
                                               !.verdict = judged, !.busy = FALSE]
      BY <2>2
    <3>. HIDE DEF item, judged
    <3>2. catalogView' \in Views
      BY <2>1, <3>1 DEF Views
    <3>. QED BY <1>6, <3>2, ViewKept DEF DetailArrives
  <2>3. CASE catalogView' = [catalogView EXCEPT !.detail = NoItem, !.verdict = NoItem,
                                                !.busy = FALSE]
    <3>1. catalogView' \in Views
      BY <2>3 DEF Views
    <3>. QED BY <1>6, <3>1, ViewKept DEF DetailArrives
  <2>. QED BY <1>6, <2>2, <2>3 DEF DetailArrives
<1>7. ASSUME NEW n \in DOMAIN catalogAsks, ValidationArrives(n) PROVE CatalogInv'
  <2>1. catalogAsks[n].item \in Items \union {NoItem}
        /\ catalogView.verdict \in Items \union {NoItem}
    BY DEF Asks, Views
  <2>2. PICK verdict \in Items \union {NoItem} :
          catalogView' = [catalogView EXCEPT !.verdict = verdict, !.busy = FALSE]
    BY <1>7, <2>1 DEF ValidationArrives
  <2>3. catalogView' \in Views
    BY <2>2 DEF Views
  <2>. QED BY <1>7, <2>3, ViewKept DEF ValidationArrives
<1>. QED BY <1>1, <1>2, <1>3, <1>4, <1>5, <1>6, <1>7

Tabs == [open : BOOLEAN, listed : SUBSET Items, name : Items \union {NoItem},
         saving : BOOLEAN, checking : Items \union {NoItem},
         preflight : Items \union {NoItem}, asked : Items \union {NoItem}]

LEMMA TabTypes ==
  ASSUME CatalogInv
  PROVE  /\ providersTab \in Tabs /\ providerCalls \in Seq(ProviderCalls)
         /\ \A n \in DOMAIN providerCalls :
              /\ providerCalls[n] \in ProviderCalls
              /\ RemoveAt(providerCalls, n) \in Seq(ProviderCalls)
<1>1. providersTab \in Tabs /\ providerCalls \in Seq(ProviderCalls)
  BY DEF CatalogInv, CatalogTypeOK, Tabs, ProviderCalls
<1>. QED BY <1>1, RemoveAtIs, ElementOfSeq, LenProperties

LEMMA TabKept ==
  ASSUME CatalogInv, providersTab' \in Tabs, providerCalls' \in Seq(ProviderCalls),
         PreflightInv', UNCHANGED <<catalogView, catalogAsks>>
  PROVE  CatalogInv'
BY DEF CatalogInv, CatalogTypeOK, Tabs, ProviderCalls

\* The same provider is checked, with the same verdict.
SameCheck(tab, new) ==
  new.checking = tab.checking /\ new.asked = tab.asked /\ new.preflight = tab.preflight

\* Another request is sent.
LEMMA FitsAdded ==
  ASSUME NEW tab, NEW new, NEW pending \in Seq(ProviderCalls), NEW call \in ProviderCalls,
         Fits(tab, pending), SameCheck(tab, new), call.what # "preflight"
  PROVE  Fits(new, Append(pending, call)) /\ Append(pending, call) \in Seq(ProviderCalls)
<1>1. /\ Append(pending, call) \in Seq(ProviderCalls)
      /\ \A n \in DOMAIN Append(pending, call) :
           \/ n \in DOMAIN pending /\ Append(pending, call)[n] = pending[n]
           \/ Append(pending, call)[n] = call
  BY AppendIs
<1>. DEFINE more == Append(pending, call)
<1>. HIDE DEF more
<1>. QED BY <1>1 DEF Fits, SameCheck, more

\* A request is answered.
LEMMA FitsRemoved ==
  ASSUME NEW tab, NEW new, NEW pending \in Seq(ProviderCalls), NEW n \in DOMAIN pending,
         Fits(tab, pending), SameCheck(tab, new)
  PROVE  Fits(new, RemoveAt(pending, n)) /\ RemoveAt(pending, n) \in Seq(ProviderCalls)
<1>1. /\ RemoveAt(pending, n) \in Seq(ProviderCalls)
      /\ \A j \in DOMAIN RemoveAt(pending, n) :
           Origin(j, n) \in DOMAIN pending /\ RemoveAt(pending, n)[j] = pending[Origin(j, n)]
      /\ \A j, k \in DOMAIN RemoveAt(pending, n) : j # k => Origin(j, n) # Origin(k, n)
  BY RemoveAtIs
<1>. QED BY <1>1 DEF Fits, SameCheck

LEMMA ConnectionSteps ==
  ASSUME CatalogInv,
         \/ \E item \in Items : Preflight(item)
         \/ ProvidersOpen \/ ProvidersLeave \/ ProvidersRefresh \/ TypeName \/ SaveProvider
         \/ \E n \in DOMAIN providerCalls :
              ProvidersArrive(n) \/ ProviderSaved(n) \/ PreflightArrives(n)
  PROVE  CatalogInv'
<1>0. /\ providersTab \in Tabs /\ providerCalls \in Seq(ProviderCalls)
      /\ \A n \in DOMAIN providerCalls :
           /\ providerCalls[n] \in ProviderCalls
           /\ RemoveAt(providerCalls, n) \in Seq(ProviderCalls)
  BY TabTypes
<1>1. \A what \in {"list", "reload", "save", "preflight"}, item \in Items \union {NoItem} :
        /\ ProviderCall(what, item) \in ProviderCalls
        /\ ProviderCall(what, item).what = what /\ ProviderCall(what, item).item = item
  BY DEF ProviderCall, ProviderCalls
<1>2. ASSUME NEW item \in Items, Preflight(item) PROVE CatalogInv'
  <2>. DEFINE call == ProviderCall("preflight", item)
  <2>1. /\ providersTab.checking = NoItem /\ providerCalls' = Append(providerCalls, call)
        /\ providersTab' = [providersTab EXCEPT !.checking = item, !.asked = item,
                                                !.preflight = NoItem]
        /\ UNCHANGED <<catalogView, catalogAsks>>
    BY <1>2 DEF Preflight
  <2>2. call \in ProviderCalls /\ call.what = "preflight" /\ call.item = item
    BY <1>1
  <2>. HIDE DEF call
  <2>3. \A n \in DOMAIN providerCalls : providerCalls[n].what # "preflight"
    BY <2>1 DEF CatalogInv, PreflightInv, Fits
  <2>4. /\ providerCalls' \in Seq(ProviderCalls)
        /\ \A n \in DOMAIN providerCalls' :
             \/ n \in DOMAIN providerCalls /\ providerCalls'[n] = providerCalls[n]
             \/ n = Len(providerCalls) + 1 /\ providerCalls'[n] = call
    BY <1>0, <2>1, <2>2, AppendIs
  <2>5. providersTab' \in Tabs /\ providersTab'.checking = item /\ providersTab'.asked = item
        /\ providersTab'.preflight = NoItem
    BY <1>0, <2>1 DEF Tabs
  <2>6. PreflightInv'
    BY <2>2, <2>3, <2>4, <2>5, CatalogAssumption DEF PreflightInv, Fits
  <2>. QED BY <2>1, <2>4, <2>5, <2>6, TabKept
<1>3. ASSUME ProvidersOpen \/ ProvidersLeave PROVE CatalogInv'
  <2>1. \A call \in ProviderCalls : <<call>> \in Seq(ProviderCalls)
    OBVIOUS
  <2>2. /\ providerCalls' \in {<<>>, <<ProviderCall("list", NoItem)>>}
        /\ providersTab' \in {ProvidersClosed, [ProvidersClosed EXCEPT !.open = TRUE]}
        /\ UNCHANGED <<catalogView, catalogAsks>>
    BY <1>3 DEF ProvidersOpen, ProvidersLeave
  <2>3. ProviderCall("list", NoItem) \in ProviderCalls
        /\ ProviderCall("list", NoItem).what = "list"
    BY <1>1
  <2>4. providerCalls' \in Seq(ProviderCalls)
    BY <2>1, <2>2, <2>3, EmptySeq
  <2>5. \A n \in DOMAIN providerCalls' : providerCalls'[n].what = "list"
    BY <2>2, <2>3
  <2>6. providersTab' \in Tabs /\ providersTab'.preflight = NoItem
    <3>1. ProvidersClosed \in Tabs /\ ProvidersClosed.preflight = NoItem
      BY DEF ProvidersClosed, Tabs
    <3>. QED BY <2>2, <3>1 DEF Tabs
  <2>. QED BY <2>2, <2>4, <2>5, <2>6, TabKept DEF PreflightInv, Fits
<1>4. ASSUME ProvidersRefresh \/ SaveProvider PROVE CatalogInv'
  <2>1. providersTab' \in {providersTab, [providersTab EXCEPT !.saving = TRUE]}
        /\ UNCHANGED <<catalogView, catalogAsks>>
    BY <1>4 DEF ProvidersRefresh, SaveProvider
  <2>2. PICK what \in {"list", "save"} :
          providerCalls' = Append(providerCalls, ProviderCall(what, providersTab.name))
    BY <1>4 DEF ProvidersRefresh, SaveProvider
  <2>3. providersTab.name \in Items \union {NoItem}
    BY <1>0 DEF Tabs
  <2>4. providersTab' \in Tabs /\ SameCheck(providersTab, providersTab')
    BY <1>0, <2>1 DEF Tabs, SameCheck
  <2>5. PreflightInv' /\ providerCalls' \in Seq(ProviderCalls)
    BY <1>0, <1>1, <2>2, <2>3, <2>4, FitsAdded DEF CatalogInv, PreflightInv
  <2>. QED BY <2>1, <2>4, <2>5, TabKept
<1>5. ASSUME TypeName PROVE CatalogInv'
  <2>1. PICK item \in Items \union {NoItem} : providersTab' = [providersTab EXCEPT !.name = item]
    BY <1>5 DEF TypeName
  <2>2. providersTab' \in Tabs /\ SameCheck(providersTab, providersTab')
    BY <1>0, <2>1 DEF Tabs, SameCheck
  <2>3. UNCHANGED <<catalogView, catalogAsks, providerCalls>>
    BY <1>5 DEF TypeName
  <2>4. PreflightInv'
    BY <2>2, <2>3 DEF CatalogInv, PreflightInv, Fits, SameCheck
  <2>. QED BY <1>0, <2>2, <2>3, <2>4, TabKept
<1>6. ASSUME NEW n \in DOMAIN providerCalls, ProvidersArrive(n) PROVE CatalogInv'
  <2>. DEFINE saving == providersTab.saving /\ providerCalls[n].what = "list"
              named(i) == IF providerCalls[n].item = NoItem THEN i ELSE providersTab.name
  <2>1. /\ providerCalls' = RemoveAt(providerCalls, n) /\ UNCHANGED <<catalogView, catalogAsks>>
        /\ \/ providersTab' = [providersTab EXCEPT !.saving = saving]
           \/ \E listed \in SUBSET Items, suggested \in Items :
                providersTab' = [providersTab EXCEPT !.listed = listed, !.saving = saving,
                                                     !.name = named(suggested)]
    BY <1>6 DEF ProvidersArrive
  <2>2. saving \in BOOLEAN /\ \A i \in Items : named(i) \in Items \union {NoItem}
    BY <1>0 DEF Tabs
  <2>. HIDE DEF saving, named
  <2>3. providersTab' \in Tabs /\ SameCheck(providersTab, providersTab')
    <3>1. CASE providersTab' = [providersTab EXCEPT !.saving = saving]
      BY <1>0, <2>2, <3>1 DEF Tabs, SameCheck
    <3>2. ASSUME NEW listed \in SUBSET Items, NEW suggested \in Items,
                 providersTab' = [providersTab EXCEPT !.listed = listed, !.saving = saving,
                                                      !.name = named(suggested)]
          PROVE  providersTab' \in Tabs /\ SameCheck(providersTab, providersTab')
      BY <1>0, <2>2, <3>2 DEF Tabs, SameCheck
    <3>. QED BY <2>1, <3>1, <3>2
  <2>4. PreflightInv' /\ providerCalls' \in Seq(ProviderCalls)
    BY <1>0, <2>1, <2>3, FitsRemoved DEF CatalogInv, PreflightInv
  <2>. QED BY <2>1, <2>3, <2>4, TabKept
<1>7. ASSUME NEW n \in DOMAIN providerCalls, ProviderSaved(n) PROVE CatalogInv'
  <2>. DEFINE rest == RemoveAt(providerCalls, n)
  <2>1. /\ providersTab' \in {providersTab, [providersTab EXCEPT !.saving = FALSE]}
        /\ UNCHANGED <<catalogView, catalogAsks>>
        /\ \/ providerCalls' = rest
           \/ providerCalls' = Append(rest, ProviderCall("reload", providerCalls[n].item))
    BY <1>7 DEF ProviderSaved
  <2>2. providersTab' \in Tabs /\ SameCheck(providersTab, providersTab')
    BY <1>0, <2>1 DEF Tabs, SameCheck
  <2>3. Fits(providersTab', rest) /\ rest \in Seq(ProviderCalls)
    BY <1>0, <2>2, FitsRemoved DEF CatalogInv, PreflightInv
  <2>4. providerCalls[n].item \in Items \union {NoItem}
    BY <1>0 DEF ProviderCalls
  <2>5. ProviderCall("reload", providerCalls[n].item) \in ProviderCalls
        /\ ProviderCall("reload", providerCalls[n].item).what = "reload"
    BY <1>1, <2>4
  <2>. HIDE DEF rest
  <2>6. PreflightInv' /\ providerCalls' \in Seq(ProviderCalls)
    <3>1. CASE providerCalls' = rest
      BY <2>3, <3>1 DEF PreflightInv
    <3>2. CASE providerCalls' = Append(rest, ProviderCall("reload", providerCalls[n].item))
      <4>1. SameCheck(providersTab', providersTab')
        BY DEF SameCheck
      <4>. QED BY <2>3, <2>5, <3>2, <4>1, FitsAdded DEF PreflightInv
    <3>. QED BY <2>1, <3>1, <3>2
  <2>. QED BY <2>1, <2>2, <2>6, TabKept
<1>8. ASSUME NEW n \in DOMAIN providerCalls, PreflightArrives(n) PROVE CatalogInv'
  <2>1. /\ providerCalls[n].what = "preflight" /\ providerCalls' = RemoveAt(providerCalls, n)
        /\ UNCHANGED <<catalogView, catalogAsks>>
    BY <1>8 DEF PreflightArrives
  <2>2. PICK item \in {providerCalls[n].item, NoItem} :
          providersTab' = [providersTab EXCEPT !.preflight = item, !.checking = NoItem]
    BY <1>8 DEF PreflightArrives
  <2>3. item \in Items \union {NoItem} /\ (item # NoItem => item = providersTab.asked)
    BY <1>0, <2>1 DEF ProviderCalls, CatalogInv, PreflightInv, Fits
  <2>4. /\ providersTab' \in Tabs /\ providersTab'.preflight = item
        /\ providersTab'.checking = NoItem /\ providersTab'.asked = providersTab.asked
    BY <1>0, <2>2, <2>3 DEF Tabs
  <2>5. /\ providerCalls' \in Seq(ProviderCalls)
        /\ \A j \in DOMAIN providerCalls' :
             Origin(j, n) \in DOMAIN providerCalls \ {n}
             /\ providerCalls'[j] = providerCalls[Origin(j, n)]
    BY <1>0, <2>1, RemoveAtIs
  <2>6. \A j \in DOMAIN providerCalls' : providerCalls'[j].what # "preflight"
    BY <2>1, <2>5 DEF CatalogInv, PreflightInv, Fits
  <2>. QED BY <2>1, <2>3, <2>4, <2>5, <2>6, TabKept DEF PreflightInv, Fits
<1>. QED BY <1>2, <1>3, <1>4, <1>5, <1>6, <1>7, <1>8

LEMMA StepCatalog == CatalogInv /\ [CatalogNext]_catalogVars => CatalogInv'
<1>1. CatalogInv /\ UNCHANGED catalogVars => CatalogInv'
  BY DEF catalogVars, CatalogInv, CatalogTypeOK, PreflightInv
<1>. QED BY <1>1, ViewSteps, ConnectionSteps DEF CatalogNext

-----------------------------------------------------------------------------
(* The wizard *)

CreateTabs ==
  [mounted : BOOLEAN, ready : BOOLEAN, step : Steps, spec : WizardSpecs,
   template : Templates \union {Basic}, items : SUBSET Templates,
   preview : Submissions \union {NoChoice},
   failed : BOOLEAN, loading : BOOLEAN, creating : BOOLEAN]

Previews == [choice : Submissions, cancelled : BOOLEAN]

\* The review under way is of what the page would create; when none is, and none has
\* failed, the one on the screen is.
Reviews(tab, previews) ==
  /\ tab.ready => tab.mounted
  /\ \A p \in previews :
       ~p.cancelled => tab.ready /\ tab.step = 6 /\ tab.loading /\ p.choice = Choice(tab)
  /\ tab.ready /\ tab.step = 6 /\ ~tab.loading /\ ~tab.failed =>
       tab.preview = Choice(tab) /\ tab.spec \in Sound

CreateInv ==
  /\ createTab \in CreateTabs /\ createPreviews \subseteq Previews
  /\ createList \in BOOLEAN
  /\ createDraft \in [step : Steps, choice : Submissions \union {NoChoice}]
  /\ createDraft = NoDraft \/ createDraft.choice \in Submissions
  /\ createCall \in [choice : Submissions \union {NoChoice},
                     seen : Submissions \union {NoChoice}, refused : BOOLEAN]
  /\ createCall.seen = createCall.choice /\ ~createCall.refused
  /\ createCall # NoCreate => createCall.choice.spec \in Sound
  /\ Reviews(createTab, createPreviews)

LEMMA FreshTabIs == FreshTab \in CreateTabs /\ ~FreshTab.ready /\ ~FreshTab.mounted
BY DEF FreshTab, CreateTabs, Steps, WizardSpecs

LEMMA ChoiceTypes ==
  ASSUME NEW tab \in CreateTabs
  PROVE  Choice(tab) \in Submissions /\ Choice(tab).spec = tab.spec
         /\ Choice(tab).template = tab.template
BY DEF Choice, CreateTabs, Submissions

LEMMA InitCreate == CreateInit => CreateInv
<1>. SUFFICES ASSUME CreateInit PROVE CreateInv
  OBVIOUS
<1>1. NoDraft \in [step : Steps, choice : Submissions \union {NoChoice}]
  BY DEF NoDraft, Steps
<1>2. /\ NoCreate \in [choice : Submissions \union {NoChoice},
                       seen : Submissions \union {NoChoice}, refused : BOOLEAN]
      /\ NoCreate.seen = NoCreate.choice /\ ~NoCreate.refused
  BY DEF NoCreate
<1>. QED BY <1>1, <1>2, FreshTabIs DEF CreateInit, CreateInv, Reviews

LEMMA CancelledAre ==
  ASSUME NEW previews \in SUBSET Previews
  PROVE  Cancelled(previews) \subseteq Previews /\ \A p \in Cancelled(previews) : p.cancelled
<1>1. ASSUME NEW p \in previews
      PROVE  [p EXCEPT !.cancelled = TRUE] \in Previews
             /\ [p EXCEPT !.cancelled = TRUE].cancelled
  BY DEF Previews
<1>. QED BY <1>1 DEF Cancelled

\* Every rendering cancels the review before, and asks for a new one of what is in
\* the page by then.
LEMMA RenderedReviews ==
  ASSUME CreateInv, NEW tab \in CreateTabs, tab.ready => tab.mounted, Rendered(tab)
  PROVE  /\ createTab' \in CreateTabs /\ createPreviews' \subseteq Previews
         /\ Reviews(createTab', createPreviews')
<1>1. /\ Cancelled(createPreviews) \subseteq Previews
      /\ \A p \in Cancelled(createPreviews) : p.cancelled
  BY CancelledAre DEF CreateInv
<1>2. CASE ~(tab.ready /\ tab.step = 6)
  BY <1>1, <1>2 DEF Rendered, Reviews
<1>3. CASE tab.ready /\ tab.step = 6
  <2>. DEFINE p == [choice |-> Choice(tab), cancelled |-> FALSE]
  <2>1. /\ createTab' = [tab EXCEPT !.loading = TRUE, !.failed = FALSE]
        /\ createPreviews' = Cancelled(createPreviews) \union {p}
    BY <1>3 DEF Rendered
  <2>2. p \in Previews /\ p.choice = Choice(tab)
    BY ChoiceTypes DEF Previews
  <2>3. /\ createTab' \in CreateTabs /\ createTab'.loading
        /\ createTab'.ready = tab.ready /\ createTab'.mounted = tab.mounted
        /\ createTab'.step = tab.step
        /\ createTab'.spec = tab.spec /\ createTab'.template = tab.template
    BY <2>1 DEF CreateTabs
  <2>4. Choice(createTab') = Choice(tab)
    BY <2>3 DEF Choice
  <2>. HIDE DEF p
  <2>. QED BY <1>1, <1>3, <2>1, <2>2, <2>3, <2>4 DEF Reviews
<1>. QED BY <1>2, <1>3

\* The page and its reviews change, the rest stays.
LEMMA PageChanges ==
  ASSUME CreateInv, createTab' \in CreateTabs, createPreviews' \subseteq Previews,
         Reviews(createTab', createPreviews'), createList' \in BOOLEAN,
         UNCHANGED <<createCall, createDraft>>
  PROVE  CreateInv'
BY DEF CreateInv

LEMMA RenderKeeps ==
  ASSUME CreateInv, NEW tab \in CreateTabs, tab.ready => tab.mounted, Rendered(tab),
         createList' \in BOOLEAN, UNCHANGED <<createCall, createDraft>>
  PROVE  CreateInv'
BY RenderedReviews, PageChanges

LEMMA StepCreate == CreateInv /\ [CreateNext]_createVars => CreateInv'
<1>. SUFFICES ASSUME CreateInv, [CreateNext]_createVars PROVE CreateInv'
  OBVIOUS
<1>0. /\ createTab \in CreateTabs /\ createPreviews \subseteq Previews /\ createList \in BOOLEAN
      /\ Reviews(createTab, createPreviews)
  BY DEF CreateInv
<1>1. ASSUME CreateOpen PROVE CreateInv'
  <2>1. ~createTab.ready /\ \A p \in createPreviews : p.cancelled
    BY <1>0, <1>1 DEF CreateOpen, Reviews
  <2>2. createTab' \in CreateTabs /\ ~createTab'.ready
    <3>1. CASE createDraft = NoDraft
      BY <1>1, <3>1, FreshTabIs DEF CreateOpen, CreateTabs
    <3>2. CASE createDraft # NoDraft
      <4>1. createDraft.choice \in Submissions /\ createDraft.step \in Steps
        BY <3>2 DEF CreateInv
      <4>2. createTab' = [FreshTab EXCEPT !.mounted = TRUE, !.step = createDraft.step,
                                          !.spec = createDraft.choice.spec,
                                          !.template = createDraft.choice.template]
        BY <1>1, <3>2 DEF CreateOpen
      <4>. QED BY <4>1, <4>2, FreshTabIs DEF CreateTabs, Submissions
    <3>. QED BY <3>1, <3>2
  <2>3. UNCHANGED <<createPreviews, createList, createCall, createDraft>>
    BY <1>1 DEF CreateOpen
  <2>. QED BY <1>0, <2>1, <2>2, <2>3, PageChanges DEF Reviews
<1>2. ASSUME ViewerArrives PROVE CreateInv'
  <2>1. [createTab EXCEPT !.ready = TRUE] \in CreateTabs
        /\ [createTab EXCEPT !.ready = TRUE].mounted
    BY <1>0, <1>2 DEF ViewerArrives, CreateTabs
  <2>. QED BY <1>2, <2>1, RenderKeeps DEF ViewerArrives
<1>3. ASSUME CreateLeave PROVE CreateInv'
  <2>1. createTab' = FreshTab /\ createPreviews' = Cancelled(createPreviews)
        /\ createList' = FALSE /\ UNCHANGED <<createCall, createDraft>>
    BY <1>3 DEF CreateLeave
  <2>. QED BY <1>0, <2>1, FreshTabIs, CancelledAre, PageChanges DEF Reviews
<1>4. ASSUME TemplatesArrive PROVE CreateInv'
  <2>1. PICK items \in SUBSET Templates, template \in Templates \union {Basic} :
          Selected([createTab EXCEPT !.items = items, !.template = template])
    <3>1. CASE \E first \in Templates :
                 Selected([createTab EXCEPT !.items = Templates,
                                            !.template = IF @ \in Templates THEN @ ELSE first])
      <4>1. PICK first \in Templates :
              Selected([createTab EXCEPT !.items = Templates,
                                         !.template = IF @ \in Templates THEN @ ELSE first])
        BY <3>1
      <4>2. CASE createTab.template \in Templates
        <5>1. Selected([createTab EXCEPT !.items = Templates, !.template = createTab.template])
          BY <4>1, <4>2
        <5>. QED BY <4>2, <5>1
      <4>3. CASE createTab.template \notin Templates
        <5>1. Selected([createTab EXCEPT !.items = Templates, !.template = first])
          BY <4>1, <4>3
        <5>. QED BY <5>1
      <4>. QED BY <4>2, <4>3
    <3>2. CASE \E template \in {Basic, createTab.template} :
                 Selected([createTab EXCEPT !.items = {}, !.template = template])
      BY <1>0, <3>2 DEF CreateTabs
    <3>. QED BY <1>4, <3>1, <3>2 DEF TemplatesArrive
  <2>. DEFINE tab == [createTab EXCEPT !.items = items, !.template = template]
  <2>2. /\ tab \in CreateTabs /\ tab.ready = createTab.ready /\ tab.mounted = createTab.mounted
        /\ tab.template = template /\ tab.step = createTab.step /\ tab.spec = createTab.spec
        /\ tab.loading = createTab.loading /\ tab.failed = createTab.failed
        /\ tab.preview = createTab.preview
    BY <1>0 DEF CreateTabs
  <2>3. createList' = FALSE /\ UNCHANGED <<createCall, createDraft>>
    BY <1>4 DEF TemplatesArrive
  <2>. HIDE DEF tab
  <2>4. CASE tab.template = createTab.template
    <3>1. createTab' = tab /\ UNCHANGED createPreviews /\ Choice(tab) = Choice(createTab)
      BY <2>1, <2>2, <2>4 DEF Selected, tab, Choice
    <3>. QED BY <1>0, <2>2, <2>3, <3>1, PageChanges DEF Reviews
  <2>5. CASE tab.template # createTab.template
    <3>1. Rendered(tab)
      BY <2>1, <2>2, <2>5 DEF Selected, tab
    <3>. QED BY <1>0, <2>2, <2>3, <3>1, RenderKeeps DEF Reviews
  <2>. QED BY <2>4, <2>5
<1>5. ASSUME NEW step \in Steps, GoTo(step) PROVE CreateInv'
  <2>1. [createTab EXCEPT !.step = step] \in CreateTabs
        /\ [createTab EXCEPT !.step = step].mounted
    BY <1>0, <1>5 DEF GoTo, MayAct, Reviews, CreateTabs
  <2>. QED BY <1>0, <1>5, <2>1, RenderKeeps DEF GoTo
<1>6. ASSUME NEW t \in Templates, ChooseTemplate(t) PROVE CreateInv'
  <2>1. [createTab EXCEPT !.template = t] \in CreateTabs
        /\ [createTab EXCEPT !.template = t].mounted
    BY <1>0, <1>6 DEF ChooseTemplate, MayAct, Reviews, CreateTabs
  <2>. QED BY <1>0, <1>6, <2>1, RenderKeeps DEF ChooseTemplate
<1>7. ASSUME Edit PROVE CreateInv'
  <2>1. PICK spec \in WizardSpecs : Rendered([createTab EXCEPT !.spec = spec])
    BY <1>7 DEF Edit
  <2>2. [createTab EXCEPT !.spec = spec] \in CreateTabs
        /\ [createTab EXCEPT !.spec = spec].mounted
    BY <1>0, <1>7 DEF Edit, MayAct, Reviews, CreateTabs
  <2>. QED BY <1>0, <1>7, <2>1, <2>2, RenderKeeps DEF Edit
<1>8. ASSUME UseRequestDraft PROVE CreateInv'
  <2>1. PICK spec \in WizardSpecs :
          Rendered([createTab EXCEPT !.spec = spec, !.template = Basic, !.step = 3])
    BY <1>8 DEF UseRequestDraft
  <2>2. [createTab EXCEPT !.spec = spec, !.template = Basic, !.step = 3] \in CreateTabs
        /\ [createTab EXCEPT !.spec = spec, !.template = Basic, !.step = 3].mounted
    BY <1>0, <1>8 DEF UseRequestDraft, MayAct, Reviews, CreateTabs, Steps
  <2>. QED BY <1>0, <1>8, <2>1, <2>2, RenderKeeps DEF UseRequestDraft
<1>9. ASSUME SaveDraft PROVE CreateInv'
  <2>1. Choice(createTab) \in Submissions /\ createTab.step \in Steps
    BY <1>0, ChoiceTypes DEF CreateTabs
  <2>2. /\ createDraft' = [step |-> createTab.step, choice |-> Choice(createTab)]
        /\ UNCHANGED <<createTab, createPreviews, createList, createCall>>
    BY <1>9 DEF SaveDraft
  <2>. QED BY <2>1, <2>2 DEF CreateInv
<1>10. ASSUME CreateEnvironment PROVE CreateInv'
  <2>1. createTab.preview = Choice(createTab) /\ createTab.spec \in Sound
    BY <1>0, <1>10 DEF CreateEnvironment, OffersCreate, Reviews
  <2>2. Choice(createTab) \in Submissions /\ Choice(createTab).spec = createTab.spec
    BY <1>0, ChoiceTypes
  <2>3. createCall' = [NoCreate EXCEPT !.choice = Choice(createTab), !.seen = createTab.preview]
        /\ createTab' = [createTab EXCEPT !.creating = TRUE]
        /\ UNCHANGED <<createPreviews, createList, createDraft>>
    BY <1>10 DEF CreateEnvironment
  <2>4. createCall' = [choice |-> Choice(createTab), seen |-> Choice(createTab), refused |-> FALSE]
    BY <2>1, <2>3 DEF NoCreate
  <2>5. createTab' \in CreateTabs /\ Reviews(createTab', createPreviews')
    BY <1>0, <2>3 DEF CreateTabs, Reviews, Choice
  <2>6. /\ createCall' \in [choice : Submissions \union {NoChoice},
                            seen : Submissions \union {NoChoice}, refused : BOOLEAN]
        /\ createCall'.seen = createCall'.choice /\ ~createCall'.refused
        /\ createCall'.choice.spec \in Sound
    BY <2>1, <2>2, <2>4
  <2>7. createPreviews' \subseteq Previews /\ createList' \in BOOLEAN
    BY <1>0, <2>3
  <2>. QED BY <2>3, <2>5, <2>6, <2>7 DEF CreateInv
<1>11. ASSUME CreateServed PROVE CreateInv'
  <2>1. createCall.choice.spec \in Sound
    BY <1>11 DEF CreateServed, CreateInv
  <2>2. /\ createDraft' = NoDraft /\ createCall' = NoCreate
        /\ createTab' = FreshTab
        /\ createPreviews' = Cancelled(createPreviews) /\ createList' = FALSE
    BY <1>11, <2>1 DEF CreateServed
  <2>3. Reviews(createTab', createPreviews') /\ createPreviews' \subseteq Previews
    BY <1>0, <2>2, FreshTabIs, CancelledAre DEF Reviews
  <2>4. NoDraft \in [step : Steps, choice : Submissions \union {NoChoice}]
    BY DEF NoDraft, Steps
  <2>5. /\ NoCreate \in [choice : Submissions \union {NoChoice},
                         seen : Submissions \union {NoChoice}, refused : BOOLEAN]
        /\ NoCreate.seen = NoCreate.choice /\ ~NoCreate.refused
    BY DEF NoCreate
  <2>. QED BY <2>2, <2>3, <2>4, <2>5, FreshTabIs DEF CreateInv
<1>12. ASSUME CreateFails PROVE CreateInv'
  <2>1. createCall' = NoCreate /\ createTab' = [createTab EXCEPT !.creating = FALSE]
        /\ UNCHANGED <<createPreviews, createList, createDraft>>
    BY <1>12 DEF CreateFails
  <2>2. createTab' \in CreateTabs /\ Reviews(createTab', createPreviews')
    BY <1>0, <2>1 DEF CreateTabs, Reviews, Choice
  <2>3. /\ NoCreate \in [choice : Submissions \union {NoChoice},
                         seen : Submissions \union {NoChoice}, refused : BOOLEAN]
        /\ NoCreate.seen = NoCreate.choice /\ ~NoCreate.refused
    BY DEF NoCreate
  <2>. QED BY <2>1, <2>2, <2>3 DEF CreateInv
<1>13. ASSUME NEW p \in createPreviews, PreviewEnds(p) PROVE CreateInv'
  <2>1. PICK ok \in {FALSE, p.choice.spec \in Sound} :
          createTab' = IF p.cancelled THEN createTab
                       ELSE [createTab EXCEPT !.preview = IF ok THEN p.choice ELSE NoChoice,
                                              !.failed = ~ok, !.loading = FALSE]
    BY <1>13 DEF PreviewEnds
  <2>2. createPreviews' = createPreviews \ {p} /\ UNCHANGED <<createList, createCall, createDraft>>
    BY <1>13 DEF PreviewEnds
  <2>3. p \in Previews /\ p.choice \in Submissions /\ p.cancelled \in BOOLEAN
    BY <1>0 DEF Previews
  <2>4. CASE p.cancelled
    BY <1>0, <2>1, <2>2, <2>4, PageChanges DEF Reviews
  <2>5. CASE ~p.cancelled
    <3>. DEFINE shownNow == IF ok THEN p.choice ELSE NoChoice
    <3>1. createTab' = [createTab EXCEPT !.preview = shownNow, !.failed = ~ok, !.loading = FALSE]
      BY <2>1, <2>5
    <3>2. shownNow \in Submissions \union {NoChoice} /\ (ok => shownNow = p.choice)
      BY <2>3
    <3>3. ok \in BOOLEAN /\ (ok => p.choice.spec \in Sound)
      <4>1. CASE ok = FALSE
        BY <4>1
      <4>2. CASE ok = (p.choice.spec \in Sound)
        <5>1. CASE p.choice.spec \in Sound
          <6>1. ok = TRUE
            BY <4>2, <5>1, Zenon
          <6>. QED BY <5>1, <6>1
        <5>2. CASE p.choice.spec \notin Sound
          <6>1. (p.choice.spec \in Sound) = FALSE
            BY <5>2
          <6>2. ok = FALSE
            BY ONLY <4>2, <6>1
          <6>. QED BY <6>2
        <5>. QED BY <5>1, <5>2
      <4>. QED BY <2>1, <4>1, <4>2
    <3>. HIDE DEF shownNow
    <3>4. /\ createTab' \in CreateTabs /\ createTab'.ready = createTab.ready
          /\ createTab'.mounted = createTab.mounted /\ createTab'.step = createTab.step
          /\ createTab'.failed = ~ok /\ ~createTab'.loading /\ createTab'.preview = shownNow
          /\ Choice(createTab') = Choice(createTab)
      BY <1>0, <3>1, <3>2, <3>3 DEF CreateTabs, Choice
    <3>5. p.choice = Choice(createTab) /\ Choice(createTab').spec = createTab'.spec
      BY <1>0, <2>5, <3>4, ChoiceTypes DEF Reviews
    <3>6. \A q \in createPreviews' : q.cancelled
      <4>1. ASSUME NEW q \in createPreviews, ~q.cancelled PROVE q = p
        BY <1>0, <2>3, <2>5, <4>1 DEF Reviews, Previews
      <4>. QED BY <2>2, <4>1
    <3>7. Reviews(createTab', createPreviews')
      BY <1>0, <3>2, <3>3, <3>4, <3>5, <3>6 DEF Reviews
    <3>. QED BY <1>0, <2>2, <3>4, <3>7, PageChanges
  <2>. QED BY <2>4, <2>5
<1>14. CASE UNCHANGED createVars
  BY <1>14 DEF createVars, CreateInv
<1>. QED BY <1>1, <1>2, <1>3, <1>4, <1>5, <1>6, <1>7, <1>8, <1>9, <1>10, <1>11, <1>12, <1>13,
            <1>14 DEF CreateNext

-----------------------------------------------------------------------------
(* The form *)

FormInv == FormTypeOK

\* What the texts have in common.
LEMMA FormsAre ==
  \A t \in CidrTexts \union AddressTexts :
     /\ t = [form |-> t.form, addr |-> t.addr, bits |-> t.bits]
     /\ t.form \in {"blank", "malformed", "lenient", "strict"}
     /\ t.addr \in SUBSET Bit /\ t.bits \in 0 .. Width
BY SpecFormAssumption DEF CidrTexts, AddressTexts, JunkTexts, Prefix, Addresses, Bit

LEMMA InitForm == FormInit => FormInv
<1>. SUFFICES ASSUME FormInit PROVE FormTypeOK
  BY DEF FormInv
<1>1. Prefix("strict", {}, Width) \in CidrTexts /\ Prefix("strict", {}, Width) \in AddressTexts
      /\ Prefix("strict", {}, Width - 1) \in CidrTexts
  BY SpecFormAssumption DEF CidrTexts, AddressTexts, Addresses
<1>2. [NewInstance EXCEPT !.key = "text", !.count = 4] \in Instances
  <2>1. NewInstance \in Instances
    BY DEF NewInstance, Instances, NameTexts, KeyTexts, Counts
  <2>2. ASSUME NEW i \in Instances, NEW key \in KeyTexts, NEW count \in Counts
        PROVE  [i EXCEPT !.key = key, !.count = count] \in Instances
    BY DEF Instances
  <2>3. "text" \in KeyTexts /\ 4 \in Counts
    BY DEF KeyTexts, Counts
  <2>. QED BY <2>1, <2>2, <2>3
<1>3. /\ <<[NewInstance EXCEPT !.key = "text", !.count = 4]>> \in Seq(Instances)
      /\ Len(<<[NewInstance EXCEPT !.key = "text", !.count = 4]>>) = 1
  BY <1>2
<1>4. EmptySpec \in Specs /\ EmptySpec.instances = <<[NewInstance EXCEPT !.key = "text", !.count = 4]>>
  BY <1>1, <1>3 DEF EmptySpec, Specs, NameTexts
<1>. QED BY <1>3, <1>4 DEF FormInit, FormTypeOK

\* A field that is no list of instances.
LEMMA FieldChanged ==
  ASSUME FormInv, formSpec' \in Specs, formSpec'.instances = formSpec.instances
  PROVE  FormInv'
BY DEF FormInv, FormTypeOK

LEMMA InstancesChanged ==
  ASSUME FormInv, NEW instances \in Seq(Instances), Len(instances) \in 1 .. 2,
         formSpec' = [formSpec EXCEPT !.instances = instances]
  PROVE  FormInv'
<1>1. formSpec' \in Specs /\ formSpec'.instances = instances
  BY DEF FormInv, FormTypeOK, Specs
<1>. QED BY <1>1 DEF FormInv, FormTypeOK

LEMMA InstanceChanged ==
  ASSUME FormInv, NEW i \in DOMAIN formSpec.instances, NEW changed \in Instances,
         formSpec' = [formSpec EXCEPT !.instances[i] = changed]
  PROVE  FormInv'
<1>. DEFINE instances == [formSpec.instances EXCEPT ![i] = changed]
<1>1. formSpec.instances \in Seq(Instances) /\ Len(formSpec.instances) \in 1 .. 2
  BY DEF FormInv, FormTypeOK, Specs
<1>2. instances \in Seq(Instances) /\ Len(instances) = Len(formSpec.instances)
  BY <1>1, ExceptSeq
<1>3. formSpec' = [formSpec EXCEPT !.instances = instances]
  OBVIOUS
<1>. HIDE DEF instances
<1>. QED BY <1>1, <1>2, <1>3, InstancesChanged

LEMMA StepForm == FormInv /\ [FormNext]_formSpec => FormInv'
<1>. SUFFICES ASSUME FormInv, [FormNext]_formSpec PROVE FormInv'
  OBVIOUS
<1>0. formSpec \in Specs /\ formSpec.instances \in Seq(Instances) /\ Len(formSpec.instances) \in 1 .. 2
  BY DEF FormInv, FormTypeOK, Specs
<1>1. CASE SetField
  <2>1. \E t \in NameTexts : \/ formSpec' = [formSpec EXCEPT !.tenant = t]
                             \/ formSpec' = [formSpec EXCEPT !.environment = t]
    BY <1>1 DEF SetField, Change
  <2>2. formSpec' \in Specs /\ formSpec'.instances = formSpec.instances
    BY <1>0, <2>1 DEF Specs
  <2>. QED BY <2>2, FieldChanged
<1>2. CASE SetNetwork
  <2>1. \/ \E t \in NameTexts : formSpec' = [formSpec EXCEPT !.network = t]
        \/ \E t \in CidrTexts : formSpec' = [formSpec EXCEPT !.networkCidr = t]
    BY <1>2 DEF SetNetwork, Change
  <2>2. formSpec' \in Specs /\ formSpec'.instances = formSpec.instances
    BY <1>0, <2>1 DEF Specs
  <2>. QED BY <2>2, FieldChanged
<1>3. CASE SetSubnet
  <2>1. \/ \E t \in NameTexts : formSpec' = [formSpec EXCEPT !.subnet = t]
        \/ \E t \in CidrTexts : formSpec' = [formSpec EXCEPT !.subnetCidr = t]
        \/ \E t \in AddressTexts : formSpec' = [formSpec EXCEPT !.gateway = t]
    BY <1>3 DEF SetSubnet, Change
  <2>2. formSpec' \in Specs /\ formSpec'.instances = formSpec.instances
    BY <1>0, <2>1 DEF Specs
  <2>. QED BY <2>2, FieldChanged
<1>4. CASE SetGroups
  <2>1. \E groups \in SUBSET Groups : formSpec' = [formSpec EXCEPT !.groups = groups]
    BY <1>4 DEF SetGroups, Change
  <2>2. formSpec' \in Specs /\ formSpec'.instances = formSpec.instances
    BY <1>0, <2>1 DEF Specs
  <2>. QED BY <2>2, FieldChanged
<1>5. CASE SetInstance
  <2>1. PICK i \in DOMAIN formSpec.instances :
          \/ \E t \in NameTexts : \/ formSpec' = [formSpec EXCEPT !.instances[i].name = t]
                                  \/ formSpec' = [formSpec EXCEPT !.instances[i].image = t]
                                  \/ formSpec' = [formSpec EXCEPT !.instances[i].flavor = t]
          \/ \E t \in KeyTexts : formSpec' = [formSpec EXCEPT !.instances[i].key = t]
          \/ \E n \in Counts : formSpec' = [formSpec EXCEPT !.instances[i].count = n]
    BY <1>5 DEF SetInstance, Change
  <2>. DEFINE one == formSpec.instances[i]
  <2>2. one \in Instances
    BY <1>0, ElementOfSeq, LenProperties
  <2>3. \E changed \in Instances : formSpec' = [formSpec EXCEPT !.instances[i] = changed]
    <3>1. ASSUME NEW t \in NameTexts
          PROVE  /\ [one EXCEPT !.name = t] \in Instances /\ [one EXCEPT !.image = t] \in Instances
                 /\ [one EXCEPT !.flavor = t] \in Instances
      BY <2>2 DEF Instances
    <3>2. ASSUME NEW t \in KeyTexts PROVE [one EXCEPT !.key = t] \in Instances
      BY <2>2 DEF Instances
    <3>3. ASSUME NEW n \in Counts PROVE [one EXCEPT !.count = n] \in Instances
      BY <2>2 DEF Instances
    <3>. QED BY <2>1, <3>1, <3>2, <3>3
  <2>. QED BY <2>3, InstanceChanged
<1>6. CASE AddInstance
  <2>1. NewInstance \in Instances
    BY DEF NewInstance, Instances, NameTexts, KeyTexts, Counts
  <2>2. /\ Append(formSpec.instances, NewInstance) \in Seq(Instances)
        /\ Len(Append(formSpec.instances, NewInstance)) = Len(formSpec.instances) + 1
    BY <1>0, <2>1, AppendProperties
  <2>3. Len(formSpec.instances) < 2
        /\ formSpec' = [formSpec EXCEPT !.instances = Append(formSpec.instances, NewInstance)]
    BY <1>6 DEF AddInstance, Change
  <2>4. Len(Append(formSpec.instances, NewInstance)) \in 1 .. 2
    BY <1>0, <2>2, <2>3
  <2>. QED BY <2>2, <2>3, <2>4, InstancesChanged
<1>7. CASE RemoveInstance
  <2>1. PICK i \in DOMAIN formSpec.instances :
          formSpec' = [formSpec EXCEPT !.instances = RemoveAt(formSpec.instances, i)]
    BY <1>7 DEF RemoveInstance, Change
  <2>2. /\ RemoveAt(formSpec.instances, i) \in Seq(Instances)
        /\ Len(RemoveAt(formSpec.instances, i)) = Len(formSpec.instances) - 1
    BY <1>0, RemoveAtIs
  <2>3. Len(formSpec.instances) > 1
    BY <1>7 DEF RemoveInstance
  <2>4. Len(RemoveAt(formSpec.instances, i)) \in 1 .. 2
    BY <1>0, <2>2, <2>3
  <2>. QED BY <2>1, <2>2, <2>4, InstancesChanged
<1>8. CASE UNCHANGED formSpec
  BY <1>8 DEF FormInv, FormTypeOK
<1>. QED BY <1>1, <1>2, <1>3, <1>4, <1>5, <1>6, <1>7, <1>8 DEF FormNext

\* The bits that the shorter prefix fixes, the longer one fixes as well.
LEMMA PrefixesNest ==
  ASSUME NEW net \in CidrTexts, NEW sub \in CidrTexts, ContainsPrefix(net, sub)
  PROVE  Hosts(sub) \subseteq Hosts(net)
<1>1. /\ net = [form |-> net.form, addr |-> net.addr, bits |-> net.bits]
      /\ sub = [form |-> sub.form, addr |-> sub.addr, bits |-> sub.bits]
      /\ net.addr \subseteq Bit /\ sub.addr \subseteq Bit
      /\ net.bits \in 0 .. Width /\ sub.bits \in 0 .. Width /\ Width \in Nat
  BY FormsAre, SpecFormAssumption
<1>2. Masked([sub EXCEPT !.bits = net.bits]).addr = {b \in sub.addr : b >= Width - net.bits}
  BY <1>1 DEF Masked
<1>3. Masked(net).addr = {b \in net.addr : b >= Width - net.bits}
  BY <1>1 DEF Masked
<1>4. /\ {b \in sub.addr : b >= Width - net.bits} = {b \in net.addr : b >= Width - net.bits}
      /\ sub.bits >= net.bits
  BY <1>2, <1>3 DEF ContainsPrefix
<1>5. SUFFICES ASSUME NEW a \in Addresses, a \in Hosts(sub),
                      NEW b \in Bit, b >= Width - net.bits
               PROVE  b \in a <=> b \in net.addr
  BY DEF Hosts
<1>6. b >= Width - sub.bits
  BY <1>1, <1>4, <1>5 DEF Bit
<1>7. b \in a <=> b \in sub.addr
  BY <1>5, <1>6 DEF Hosts
<1>8. b \in sub.addr <=> b \in net.addr
  BY <1>4, <1>5
<1>. QED BY <1>7, <1>8

LEMMA MaskedHosts ==
  ASSUME NEW sub \in CidrTexts, NEW gate \in AddressTexts,
         Masked([gate EXCEPT !.bits = sub.bits]).addr = Masked(sub).addr
  PROVE  gate.addr \in Hosts(sub)
<1>1. /\ gate = [form |-> gate.form, addr |-> gate.addr, bits |-> gate.bits]
      /\ sub = [form |-> sub.form, addr |-> sub.addr, bits |-> sub.bits]
      /\ gate.addr \subseteq Bit /\ sub.addr \subseteq Bit /\ sub.bits \in 0 .. Width
  BY FormsAre
<1>2. Masked([gate EXCEPT !.bits = sub.bits]).addr = {b \in gate.addr : b >= Width - sub.bits}
  BY <1>1 DEF Masked
<1>3. Masked(sub).addr = {b \in sub.addr : b >= Width - sub.bits}
  BY <1>1 DEF Masked
<1>. QED BY <1>1, <1>2, <1>3 DEF Hosts, Addresses

LEMMA NetworksNest == FormInv => AcceptedNetworksNest
<1>. SUFFICES ASSUME FormInv, ServerAccepts(formSpec)
              PROVE  /\ Hosts(formSpec.subnetCidr) \subseteq Hosts(formSpec.networkCidr)
                     /\ formSpec.gateway.form # "blank"
                          => formSpec.gateway.addr \in Hosts(formSpec.subnetCidr)
  BY DEF AcceptedNetworksNest
<1>1. formSpec \in Specs
  BY DEF FormInv, FormTypeOK
<1>2. /\ formSpec.networkCidr \in CidrTexts /\ formSpec.subnetCidr \in CidrTexts
      /\ formSpec.gateway \in AddressTexts
  BY <1>1 DEF Specs
<1>3. /\ Normalized(formSpec).networkCidr = formSpec.networkCidr
      /\ Normalized(formSpec).subnetCidr = formSpec.subnetCidr
      /\ Normalized(formSpec).gateway = formSpec.gateway
  BY <1>1 DEF Normalized, Specs
<1>4. /\ ContainsPrefix(formSpec.networkCidr, formSpec.subnetCidr)
      /\ \/ formSpec.gateway.form = "blank"
         \/ Masked([formSpec.gateway EXCEPT !.bits = formSpec.subnetCidr.bits]).addr
              = Masked(formSpec.subnetCidr).addr
  BY <1>3, Zenon DEF ServerAccepts
<1>. QED BY <1>2, <1>4, PrefixesNest, MaskedHosts

-----------------------------------------------------------------------------
(* The two validators *)

\* The recursion behind a total, over the instances of a spec that has one or two.
LEMMA TotalIs ==
  ASSUME NEW spec, spec.instances \in Seq(Instances), Len(spec.instances) \in 1 .. 2
  PROVE  /\ spec.instances[1].count \in Nat
         /\ Len(spec.instances) = 1 => TotalCount(spec) = spec.instances[1].count
         /\ Len(spec.instances) = 2 =>
              /\ spec.instances[2].count \in Nat
              /\ TotalCount(spec) = spec.instances[1].count + spec.instances[2].count
<1>. DEFINE all == DOMAIN spec.instances
            count(i) == spec.instances[i].count
            first(s) == CHOOSE x \in s : TRUE
            step(f, s) == IF s = {} THEN 0 ELSE count(first(s)) + f[s \ {first(s)}]
            total == CHOOSE f : f = [s \in SUBSET all |-> step(f, s)]
            of(s, i) == IF i \in s THEN count(i) ELSE 0
            sums == [s \in SUBSET all |-> of(s, 1) + of(s, 2)]
<1>1. TotalCount(spec) = total[all]
  BY Zenon DEF TotalCount, FoldSeq, FoldFunction, FoldFunctionOnSet, MapThenFoldSet
<1>2. all \in {{1}, {1, 2}} /\ (Len(spec.instances) = 1 => all = {1})
      /\ (Len(spec.instances) = 2 => all = {1, 2})
  BY LenProperties
<1>3. \A i \in all : count(i) \in Nat
  <2>1. \A i \in all : spec.instances[i] \in Instances
    BY ElementOfSeq, LenProperties
  <2>. QED BY <2>1 DEF Instances, Counts
<1>4. \A s \in SUBSET all : s # {} => first(s) \in s
  BY Zenon
<1>. HIDE DEF all, count, first
<1>5. \A s \in SUBSET all : sums[s] = step(sums, s)
  <2>. SUFFICES ASSUME NEW s \in SUBSET all PROVE sums[s] = step(sums, s)
    OBVIOUS
  <2>1. CASE s = {}
    BY <2>1
  <2>2. CASE s # {}
    <3>. DEFINE x == first(s)
                rest == s \ {x}
    <3>1. x \in s /\ x \in {1, 2} /\ rest \in SUBSET all /\ count(x) \in Nat
      BY <1>2, <1>3, <1>4, <2>2
    <3>2. \A i \in {1, 2} : of(rest, i) \in Nat
      BY <1>2, <1>3, <3>1
    <3>3. of(s, x) = count(x) /\ of(rest, x) = 0
      BY <3>1
    <3>4. \A i \in {1, 2} : i # x => of(s, i) = of(rest, i)
      OBVIOUS
    <3>5. sums[s] = of(s, 1) + of(s, 2) /\ sums[rest] = of(rest, 1) + of(rest, 2)
      BY <3>1
    <3>6. step(sums, s) = count(x) + sums[rest]
      BY <2>2
    <3>. HIDE DEF x, rest, of, sums
    <3>7. CASE x = 1
      BY <3>2, <3>3, <3>4, <3>5, <3>6, <3>7, <3>1
    <3>8. CASE x = 2
      BY <3>2, <3>3, <3>4, <3>5, <3>6, <3>8, <3>1
    <3>. QED BY <3>1, <3>7, <3>8
  <2>. QED BY <2>1, <2>2
<1>6. sums = [s \in SUBSET all |-> step(sums, s)]
  <2>1. [s \in SUBSET all |-> step(sums, s)] = [s \in SUBSET all |-> sums[s]]
    BY <1>5
  <2>2. sums = [s \in SUBSET all |-> sums[s]]
    OBVIOUS
  <2>. QED BY <2>1, <2>2
<1>. HIDE DEF sums
<1>7. total = [s \in SUBSET all |-> step(total, s)]
  BY <1>6, Zenon
<1>. HIDE DEF total
<1>8. \A s \in SUBSET all : total[s] = step(total, s)
  BY <1>7
<1>9. total[{}] = 0
  BY <1>8
<1>10. \A i \in all : total[{i}] = count(i)
  <2>. SUFFICES ASSUME NEW i \in all PROVE total[{i}] = count(i)
    OBVIOUS
  <2>1. first({i}) = i
    <3>1. {i} \in SUBSET all /\ {i} # {}
      OBVIOUS
    <3>2. first({i}) \in {i}
      BY <1>4, <3>1
    <3>. QED BY <3>2
  <2>2. total[{i}] = count(i) + total[{}]
    <3>1. {i} \ {i} = {} /\ {i} # {} /\ {i} \in SUBSET all
      OBVIOUS
    <3>. QED BY <1>8, <2>1, <3>1
  <2>. QED BY <1>3, <1>9, <2>2
<1>11. CASE Len(spec.instances) = 1
  <2>1. all = {1}
    BY <1>2, <1>11
  <2>2. TotalCount(spec) = count(1) /\ count(1) \in Nat
    BY <1>1, <1>3, <1>10, <2>1
  <2>. QED BY <1>11, <2>2 DEF count
<1>12. CASE Len(spec.instances) = 2
  <2>1. all = {1, 2} /\ count(1) \in Nat /\ count(2) \in Nat
    BY <1>2, <1>3, <1>12
  <2>2. total[{1, 2}] = count(first({1, 2})) + total[{1, 2} \ {first({1, 2})}]
    BY <1>8, <2>1
  <2>3. first({1, 2}) \in {1, 2}
    BY <1>4, <2>1
  <2>4. ASSUME first({1, 2}) = 1 PROVE TotalCount(spec) = count(1) + count(2)
    <3>1. {1, 2} \ {1} = {2}
      OBVIOUS
    <3>2. TotalCount(spec) = count(1) + count(2)
      BY <1>1, <1>10, <2>1, <2>2, <2>4, <3>1
    <3>. QED BY <2>1, <3>2
  <2>5. ASSUME first({1, 2}) = 2 PROVE TotalCount(spec) = count(1) + count(2)
    <3>1. {1, 2} \ {2} = {1}
      OBVIOUS
    <3>2. TotalCount(spec) = count(2) + count(1)
      BY <1>1, <1>10, <2>1, <2>2, <2>5, <3>1
    <3>. QED BY <2>1, <3>2
  <2>6. TotalCount(spec) = count(1) + count(2)
    BY <2>3, <2>4, <2>5
  <2>. QED BY <1>12, <2>1, <2>6 DEF count
<1>. QED BY <1>11, <1>12

\* A shift by less than the width is the shift, and the prefix of length zero is set
\* apart: the wizard's masks are those of netip.
LEMMA MaskIs ==
  ASSUME NEW bits \in 0 .. Width, NEW addr \in SUBSET Bit
  PROVE  addr \intersect Mask(bits) = {b \in addr : b >= Width - bits}
<1>0. Width \in Nat \ {0}
  BY SpecFormAssumption
<1>1. CASE bits = 0
  <2>1. Mask(bits) = {}
    BY <1>1 DEF Mask
  <2>2. \A b \in addr : b \in 0 .. Width - 1
    BY DEF Bit
  <2>3. \A b \in addr : ~(b >= Width - bits)
    BY <1>0, <1>1, <2>2
  <2>. QED BY <2>1, <2>3
<1>2. CASE bits # 0
  <2>1. Width - bits \in 0 .. Width - 1
    BY <1>0, <1>2
  <2>2. \A n \in 0 .. Width - 1 : n % Width = n
    BY <1>0
  <2>3. Mask(bits) = {b \in Bit : b >= Width - bits}
    BY <1>2, <2>1, <2>2 DEF Mask, ShiftedOnes
  <2>. QED BY <2>3
<1>. QED BY <1>1, <1>2

LEMMA PrefixesAgree ==
  ASSUME NEW net \in CidrTexts, NEW sub \in CidrTexts
  PROVE  CidrContains(net, sub) <=> ContainsPrefix(net, sub)
<1>1. /\ net = [form |-> net.form, addr |-> net.addr, bits |-> net.bits]
      /\ sub = [form |-> sub.form, addr |-> sub.addr, bits |-> sub.bits]
      /\ net.addr \in SUBSET Bit /\ sub.addr \in SUBSET Bit
      /\ net.bits \in 0 .. Width /\ sub.bits \in 0 .. Width
  BY FormsAre
<1>2. /\ Masked([sub EXCEPT !.bits = net.bits]).addr = {b \in sub.addr : b >= Width - net.bits}
      /\ Masked(net).addr = {b \in net.addr : b >= Width - net.bits}
  BY <1>1 DEF Masked
<1>3. /\ net.addr \intersect Mask(net.bits) = {b \in net.addr : b >= Width - net.bits}
      /\ sub.addr \intersect Mask(net.bits) = {b \in sub.addr : b >= Width - net.bits}
  BY <1>1, MaskIs
<1>. QED BY <1>2, <1>3 DEF CidrContains, ContainsPrefix

LEMMA AddressesAgree ==
  ASSUME NEW sub \in CidrTexts, NEW gate \in AddressTexts
  PROVE  CidrContainsAddress(sub, gate.addr)
           <=> Masked([gate EXCEPT !.bits = sub.bits]).addr = Masked(sub).addr
<1>1. /\ gate = [form |-> gate.form, addr |-> gate.addr, bits |-> gate.bits]
      /\ sub = [form |-> sub.form, addr |-> sub.addr, bits |-> sub.bits]
      /\ gate.addr \in SUBSET Bit /\ sub.addr \in SUBSET Bit /\ sub.bits \in 0 .. Width
  BY FormsAre
<1>2. /\ Masked([gate EXCEPT !.bits = sub.bits]).addr = {b \in gate.addr : b >= Width - sub.bits}
      /\ Masked(sub).addr = {b \in sub.addr : b >= Width - sub.bits}
  BY <1>1 DEF Masked
<1>3. /\ sub.addr \intersect Mask(sub.bits) = {b \in sub.addr : b >= Width - sub.bits}
      /\ gate.addr \intersect Mask(sub.bits) = {b \in gate.addr : b >= Width - sub.bits}
  BY <1>1, MaskIs
<1>. QED BY <1>2, <1>3 DEF CidrContainsAddress

\* What the wizard accepts, field by field.
Names(spec) == {spec.tenant, spec.environment, spec.network, spec.subnet}
InstanceAccepted(i) ==
  "blank" \notin {i.name, i.image, i.flavor, i.key} /\ i.count \in 2 .. 4

LEMMA WizardIs ==
  ASSUME NEW spec \in Specs
  PROVE  WizardAccepts(spec) <=>
           /\ "blank" \notin Names(spec)
           /\ WizardReads(spec.networkCidr) /\ WizardReads(spec.subnetCidr)
           /\ CidrContains(spec.networkCidr, spec.subnetCidr)
           /\ spec.gateway.form # "malformed"
           /\ spec.gateway.form # "blank" => CidrContainsAddress(spec.subnetCidr, spec.gateway.addr)
           /\ Len(spec.instances) \in 1 .. 2 /\ ~(TotalCount(spec) > 4)
           /\ \A i \in DOMAIN spec.instances : InstanceAccepted(spec.instances[i])
<1>. DEFINE field(name, wrong) == IF wrong THEN {<<name, 0>>} ELSE {}
            numbered(name, Wrong(_)) == {<<name, i>> : i \in {k \in DOMAIN spec.instances : Wrong(k)}}
            net == spec.networkCidr
            sub == spec.subnetCidr
            gate == spec.gateway
            tenant == field("tenant_name", spec.tenant = "blank")
            environment == field("environment_name", spec.environment = "blank")
            network == field("network.name", spec.network = "blank")
            subnet == field("subnet.name", spec.subnet = "blank")
            netCidr == field("network.cidr", ~WizardReads(net))
            subCidr == field("subnet.cidr", ~WizardReads(sub)
                                            \/ (WizardReads(net) /\ ~CidrContains(net, sub)))
            gateway == field("subnet.gateway_ip",
                             \/ gate.form = "malformed"
                             \/ gate.form # "blank" /\ WizardReads(sub)
                                /\ ~CidrContainsAddress(sub, gate.addr))
            instances == field("instances", Len(spec.instances) \notin 1 .. 2 \/ TotalCount(spec) > 4)
            names == numbered("name", LAMBDA i : spec.instances[i].name = "blank")
            images == numbered("image", LAMBDA i : spec.instances[i].image = "blank")
            flavors == numbered("flavor", LAMBDA i : spec.instances[i].flavor = "blank")
            counts == numbered("count", LAMBDA i : spec.instances[i].count \notin 2 .. 4)
            keys == numbered("ssh_key_name", LAMBDA i : spec.instances[i].key = "blank")
<1>1. FieldErrors(spec) =
        UNION {tenant, environment, network, subnet, netCidr, subCidr, gateway, instances,
               names, images, flavors, counts, keys}
  BY Zenon DEF FieldErrors
<1>2. /\ tenant = {} <=> spec.tenant # "blank"
      /\ environment = {} <=> spec.environment # "blank"
      /\ network = {} <=> spec.network # "blank"
      /\ subnet = {} <=> spec.subnet # "blank"
  OBVIOUS
<1>3. /\ netCidr = {} <=> WizardReads(net)
      /\ subCidr = {} <=> WizardReads(sub) /\ (WizardReads(net) => CidrContains(net, sub))
  OBVIOUS
<1>4. gateway = {} <=> /\ gate.form # "malformed"
                       /\ gate.form # "blank" /\ WizardReads(sub)
                            => CidrContainsAddress(sub, gate.addr)
  OBVIOUS
<1>5. instances = {} <=> Len(spec.instances) \in 1 .. 2 /\ ~(TotalCount(spec) > 4)
  OBVIOUS
<1>6. /\ names = {} <=> \A i \in DOMAIN spec.instances : spec.instances[i].name # "blank"
      /\ images = {} <=> \A i \in DOMAIN spec.instances : spec.instances[i].image # "blank"
      /\ flavors = {} <=> \A i \in DOMAIN spec.instances : spec.instances[i].flavor # "blank"
      /\ counts = {} <=> \A i \in DOMAIN spec.instances : spec.instances[i].count \in 2 .. 4
      /\ keys = {} <=> \A i \in DOMAIN spec.instances : spec.instances[i].key # "blank"
  OBVIOUS
<1>. HIDE DEF tenant, environment, network, subnet, netCidr, subCidr, gateway, instances,
              names, images, flavors, counts, keys
<1>7. WizardAccepts(spec) <=>
        /\ tenant = {} /\ environment = {} /\ network = {} /\ subnet = {}
        /\ netCidr = {} /\ subCidr = {} /\ gateway = {} /\ instances = {}
        /\ names = {} /\ images = {} /\ flavors = {} /\ counts = {} /\ keys = {}
  <2>1. \A S : UNION S = {} <=> \A x \in S : x = {}
    OBVIOUS
  <2>2. WizardAccepts(spec) <=>
          \A x \in {tenant, environment, network, subnet, netCidr, subCidr, gateway, instances,
                    names, images, flavors, counts, keys} : x = {}
    BY <1>1, <2>1, Zenon DEF WizardAccepts
  <2>. QED BY ONLY <2>2
<1>. QED BY <1>2, <1>3, <1>4, <1>5, <1>6, <1>7 DEF Names, InstanceAccepted

LEMMA NormalizedIs ==
  ASSUME NEW spec \in Specs
  PROVE  /\ \A f \in {"environment", "tenant", "network", "subnet", "networkCidr", "subnetCidr",
                      "gateway"} : Normalized(spec)[f] = spec[f]
         /\ Normalized(spec).instances \in Seq(Instances)
         /\ Len(Normalized(spec).instances) = Len(spec.instances)
         /\ DOMAIN Normalized(spec).instances = DOMAIN spec.instances
         /\ \A i \in DOMAIN spec.instances :
              LET one == Normalized(spec).instances[i]
                  of == spec.instances[i]
              IN  /\ one.name = of.name /\ one.image = of.image /\ one.flavor = of.flavor
                  /\ one.count = of.count /\ one.key # "blank"
<1>. DEFINE plain(i) == [spec.instances[i] EXCEPT !.key = IF @ = "blank" THEN "none" ELSE @]
            list == [i \in DOMAIN spec.instances |-> plain(i)]
<1>1. spec.instances \in Seq(Instances)
  BY DEF Specs
<1>2. \A i \in DOMAIN spec.instances : spec.instances[i] \in Instances
  BY <1>1, ElementOfSeq, LenProperties
<1>3. ASSUME NEW i \in DOMAIN spec.instances
      PROVE  /\ plain(i) \in Instances
             /\ plain(i).name = spec.instances[i].name /\ plain(i).image = spec.instances[i].image
             /\ plain(i).flavor = spec.instances[i].flavor
             /\ plain(i).count = spec.instances[i].count /\ plain(i).key # "blank"
  <2>1. spec.instances[i] \in Instances
    BY <1>2
  <2>. QED BY <2>1 DEF Instances, KeyTexts
<1>4. Normalized(spec) = [spec EXCEPT !.instances = list]
  BY DEF Normalized
<1>. HIDE DEF plain
<1>5. /\ list \in Seq(Instances) /\ Len(list) = Len(spec.instances)
      /\ DOMAIN list = DOMAIN spec.instances
      /\ \A i \in DOMAIN spec.instances : list[i] = plain(i)
  BY <1>1, <1>3, LenProperties, IsASeq
<1>. HIDE DEF list
<1>6. Normalized(spec).instances = list
  BY <1>4 DEF Specs
<1>7. \A f \in {"environment", "tenant", "network", "subnet", "networkCidr", "subnetCidr",
                "gateway"} : Normalized(spec)[f] = spec[f]
  BY <1>4 DEF Specs
<1>. QED BY <1>3, <1>5, <1>6, <1>7

\* Both validators add up the same counts.
LEMMA TotalsAgree ==
  ASSUME NEW spec \in Specs, Len(spec.instances) \in 1 .. 2
  PROVE  TotalCount(spec) \in Nat /\ TotalCount(Normalized(spec)) = TotalCount(spec)
<1>. DEFINE plain == Normalized(spec)
<1>1. /\ plain.instances \in Seq(Instances) /\ Len(plain.instances) = Len(spec.instances)
      /\ \A i \in DOMAIN spec.instances : plain.instances[i].count = spec.instances[i].count
  BY NormalizedIs
<1>2. spec.instances \in Seq(Instances)
  BY DEF Specs
<1>. HIDE DEF plain
<1>3. CASE Len(spec.instances) = 1
  <2>1. 1 \in DOMAIN spec.instances
    BY <1>2, <1>3, LenProperties
  <2>2. TotalCount(spec) = spec.instances[1].count /\ spec.instances[1].count \in Nat
    BY <1>2, <1>3, TotalIs
  <2>3. TotalCount(plain) = plain.instances[1].count
    BY <1>1, <1>3, TotalIs
  <2>. QED BY <1>1, <2>1, <2>2, <2>3 DEF plain
<1>4. CASE Len(spec.instances) = 2
  <2>1. 1 \in DOMAIN spec.instances /\ 2 \in DOMAIN spec.instances
    BY <1>2, <1>4, LenProperties
  <2>2. /\ TotalCount(spec) = spec.instances[1].count + spec.instances[2].count
        /\ spec.instances[1].count \in Nat /\ spec.instances[2].count \in Nat
    BY <1>2, <1>4, TotalIs
  <2>3. TotalCount(plain) = plain.instances[1].count + plain.instances[2].count
    BY <1>1, <1>4, TotalIs
  <2>. QED BY <1>1, <2>1, <2>2, <2>3 DEF plain
<1>. QED BY <1>3, <1>4

\* What the server accepts, field by field.
InstanceTaken(i) ==
  "blank" \notin {i.name, i.image, i.flavor} /\ i.count > 0 /\ i.count % 2 = 0

LEMMA ServerIs ==
  ASSUME NEW spec \in Specs
  PROVE  ServerAccepts(spec) <=>
           /\ "blank" \notin Names(spec)
           /\ Len(spec.instances) \in 1 .. 2 /\ TotalCount(spec) <= 4
           /\ \A i \in DOMAIN spec.instances : InstanceTaken(spec.instances[i])
           /\ spec.networkCidr.form = "strict" /\ spec.subnetCidr.form = "strict"
           /\ ContainsPrefix(spec.networkCidr, spec.subnetCidr)
           /\ \/ spec.gateway.form = "blank"
              \/ /\ spec.gateway.form = "strict"
                 /\ Masked([spec.gateway EXCEPT !.bits = spec.subnetCidr.bits]).addr
                      = Masked(spec.subnetCidr).addr
<1>. DEFINE s == Normalized(spec)
<1>1. /\ s.environment = spec.environment /\ s.tenant = spec.tenant /\ s.network = spec.network
      /\ s.subnet = spec.subnet /\ s.networkCidr = spec.networkCidr
      /\ s.subnetCidr = spec.subnetCidr /\ s.gateway = spec.gateway
  BY NormalizedIs
<1>2. /\ Len(s.instances) = Len(spec.instances) /\ DOMAIN s.instances = DOMAIN spec.instances
      /\ Len(spec.instances) \in 1 .. 2 => TotalCount(s) = TotalCount(spec)
  BY NormalizedIs, TotalsAgree
<1>3. \A i \in DOMAIN spec.instances :
        LET instance == s.instances[i]
        IN  /\ "blank" \notin {instance.name, instance.image, instance.flavor, instance.key}
            /\ instance.count > 0 /\ instance.count % 2 = 0
        <=> InstanceTaken(spec.instances[i])
  <2>. SUFFICES ASSUME NEW i \in DOMAIN spec.instances
                PROVE  LET instance == s.instances[i]
                       IN  /\ "blank" \notin {instance.name, instance.image, instance.flavor,
                                              instance.key}
                           /\ instance.count > 0 /\ instance.count % 2 = 0
                       <=> InstanceTaken(spec.instances[i])
    OBVIOUS
  <2>1. LET one == s.instances[i]
            of == spec.instances[i]
        IN  /\ one.name = of.name /\ one.image = of.image /\ one.flavor = of.flavor
            /\ one.count = of.count /\ one.key # "blank"
    BY NormalizedIs
  <2>. HIDE DEF s
  <2>. QED BY <2>1 DEF InstanceTaken
<1>4. ServerAccepts(spec) <=>
        /\ "blank" \notin {s.environment, s.tenant, s.network, s.subnet}
        /\ Len(s.instances) \in 1 .. 2
        /\ \A i \in DOMAIN s.instances :
             LET instance == s.instances[i]
             IN  /\ "blank" \notin {instance.name, instance.image, instance.flavor, instance.key}
                 /\ instance.count > 0 /\ instance.count % 2 = 0
        /\ TotalCount(s) <= 4
        /\ s.networkCidr.form = "strict" /\ s.subnetCidr.form = "strict"
        /\ ContainsPrefix(s.networkCidr, s.subnetCidr)
        /\ \/ s.gateway.form = "blank"
           \/ /\ s.gateway.form = "strict"
              /\ Masked([s.gateway EXCEPT !.bits = s.subnetCidr.bits]).addr
                   = Masked(s.subnetCidr).addr
  BY Zenon DEF ServerAccepts
<1>. HIDE DEF s
<1>5. "blank" \notin {s.environment, s.tenant, s.network, s.subnet} <=> "blank" \notin Names(spec)
  BY <1>1 DEF Names
<1>. QED BY <1>1, <1>2, <1>3, <1>4, <1>5

LEMMA AgreeOn ==
  ASSUME NEW spec \in Specs
  PROVE  /\ WizardAccepts(spec) => ServerAccepts(spec) \/ Lenient(spec)
         /\ ServerAccepts(spec) => WizardAccepts(spec) \/ BlankKey(spec)
<1>1. /\ spec.networkCidr \in CidrTexts /\ spec.subnetCidr \in CidrTexts
      /\ spec.gateway \in AddressTexts /\ spec.instances \in Seq(Instances)
  BY DEF Specs
<1>2. /\ spec.networkCidr.form \in {"blank", "malformed", "lenient", "strict"}
      /\ spec.subnetCidr.form \in {"blank", "malformed", "lenient", "strict"}
      /\ spec.gateway.form \in {"blank", "malformed", "lenient", "strict"}
  BY <1>1, FormsAre
<1>3. /\ CidrContains(spec.networkCidr, spec.subnetCidr)
           <=> ContainsPrefix(spec.networkCidr, spec.subnetCidr)
      /\ CidrContainsAddress(spec.subnetCidr, spec.gateway.addr)
           <=> Masked([spec.gateway EXCEPT !.bits = spec.subnetCidr.bits]).addr
                 = Masked(spec.subnetCidr).addr
  BY <1>1, PrefixesAgree, AddressesAgree
<1>4. Len(spec.instances) \in 1 .. 2 => (TotalCount(spec) <= 4 <=> ~(TotalCount(spec) > 4))
  BY TotalsAgree
<1>5. \A i \in DOMAIN spec.instances :
        /\ InstanceAccepted(spec.instances[i]) /\ spec.instances[i].count % 2 # 1
             => InstanceTaken(spec.instances[i])
        /\ InstanceTaken(spec.instances[i]) /\ spec.instances[i].key # "blank"
             => InstanceAccepted(spec.instances[i])
  <2>. SUFFICES ASSUME NEW i \in Instances
                PROVE  /\ InstanceAccepted(i) /\ i.count % 2 # 1 => InstanceTaken(i)
                       /\ InstanceTaken(i) /\ i.key # "blank" => InstanceAccepted(i)
    BY <1>1, ElementOfSeq, LenProperties
  <2>1. i.count \in 0 .. 5
    BY DEF Instances, Counts
  <2>2. /\ i.count \in 2 .. 4 /\ i.count % 2 # 1 => i.count > 0 /\ i.count % 2 = 0
        /\ i.count > 0 /\ i.count % 2 = 0 => i.count \in 2 .. 4
    BY ONLY <2>1
  <2>. QED BY <2>2 DEF InstanceAccepted, InstanceTaken
<1>6. ASSUME WizardAccepts(spec), ~Lenient(spec) PROVE ServerAccepts(spec)
  <2>1. /\ spec.networkCidr.form = "strict" /\ spec.subnetCidr.form = "strict"
        /\ spec.gateway.form \in {"blank", "strict"}
        /\ \A i \in DOMAIN spec.instances : spec.instances[i].count % 2 # 1
    BY <1>2, <1>6, WizardIs DEF Lenient, WizardReads
  <2>. QED BY <1>3, <1>4, <1>5, <1>6, <2>1, WizardIs, ServerIs
<1>7. ASSUME ServerAccepts(spec), ~BlankKey(spec) PROVE WizardAccepts(spec)
  <2>1. \A i \in DOMAIN spec.instances : spec.instances[i].key # "blank"
    BY <1>7 DEF BlankKey
  <2>2. /\ WizardReads(spec.networkCidr) /\ WizardReads(spec.subnetCidr)
        /\ spec.gateway.form # "malformed"
    BY <1>7, ServerIs DEF WizardReads
  <2>. QED BY <1>3, <1>4, <1>5, <1>7, <2>1, <2>2, WizardIs, ServerIs
<1>. QED BY <1>6, <1>7

-----------------------------------------------------------------------------
(* The list pages and the users' page *)

ListTabs == [kind : ListKinds \union {"none"}, shown : 0 .. MaxVersion + 1,
             loading : BOOLEAN, saving : BOOLEAN,
             status : Members \union {NoMember}, role : Members \union {NoMember},
             form : Members \union {NoMember}, typed : BOOLEAN]

UserCalls == [change : UserChanges, user : Members \union {NoMember}]

\* Nothing was read before it was written, and of the guided start's loads only the
\* last is not cancelled: it has not read less than what is shown.
LoadsFit(page, loads, version) ==
  /\ page.shown <= version
  /\ \A n \in DOMAIN loads : loads[n].read <= version
  /\ page.kind = "guided" =>
       /\ \A n \in DOMAIN loads :
            ~loads[n].cancelled /\ loads[n].read # 0 => page.shown <= loads[n].read
       /\ \A n, m \in DOMAIN loads : ~loads[n].cancelled /\ ~loads[m].cancelled => n = m

\* The changes that share the flag of the users' page.
Saves(change) == change \in {"create", "password"}

\* One change that shares the flag is under way at most, its load included, and
\* meanwhile the form is not opened for another user.
CallsFit(page, loads, calls) ==
  /\ page.kind # "users" => DOMAIN calls = {} /\ page.form = NoMember
  /\ \A n \in DOMAIN calls : Saves(calls[n].change) => page.saving
  /\ \A n \in DOMAIN loads : Saves(loads[n].ends) => page.saving
  /\ \A n, m \in DOMAIN calls : Saves(calls[n].change) /\ Saves(calls[m].change) => n = m
  /\ \A n, m \in DOMAIN loads : Saves(loads[n].ends) /\ Saves(loads[m].ends) => n = m
  /\ \A n \in DOMAIN calls, m \in DOMAIN loads : ~(Saves(calls[n].change) /\ Saves(loads[m].ends))
  /\ \A n \in DOMAIN calls :
       calls[n].change = "password" /\ page.form # NoMember => page.form = calls[n].user

ListTyped ==
  /\ listVersion \in 1 .. MaxVersion + 1 /\ listPage \in ListTabs
  /\ listLoads \in Seq(ListLoads) /\ userCalls \in Seq(UserCalls)

ListInv ==
  ListTyped /\ LoadsFit(listPage, listLoads, listVersion) /\ CallsFit(listPage, listLoads, userCalls)

LEMMA NewLoadIs ==
  ASSUME NEW ends \in UserChanges \union {"none"}
  PROVE  /\ NewListLoad(ends) \in ListLoads /\ NewListLoad(ends).read = 0
         /\ ~NewListLoad(ends).cancelled /\ NewListLoad(ends).ends = ends
BY DEF NewListLoad, ListLoads

LEMMA ListElements ==
  ASSUME ListTyped
  PROVE  /\ \A n \in DOMAIN listLoads : listLoads[n] \in ListLoads
         /\ \A n \in DOMAIN userCalls : userCalls[n] \in UserCalls
BY ElementOfSeq, LenProperties DEF ListTyped

\* The page changes, and neither what it shows nor what it asks for.
LEMMA ShownKept ==
  ASSUME NEW page, NEW next, NEW loads, NEW version,
         LoadsFit(page, loads, version), next.shown = page.shown, next.kind = page.kind
  PROVE  LoadsFit(next, loads, version)
BY DEF LoadsFit

LEMMA LoadAdded ==
  ASSUME NEW page, NEW next, NEW loads \in Seq(ListLoads), NEW version \in Nat,
         NEW ends \in UserChanges \union {"none"},
         LoadsFit(page, loads, version), next.shown = page.shown, next.kind = page.kind,
         page.kind # "guided"
  PROVE  LoadsFit(next, Append(loads, NewListLoad(ends)), version)
<1>1. \A j \in DOMAIN Append(loads, NewListLoad(ends)) :
        \/ j \in DOMAIN loads /\ Append(loads, NewListLoad(ends))[j] = loads[j]
        \/ Append(loads, NewListLoad(ends))[j] = NewListLoad(ends)
  BY AppendIs, NewLoadIs
<1>. QED BY <1>1, NewLoadIs DEF LoadsFit

\* The form may be closed at any time.
LEMMA CallsKept ==
  ASSUME NEW page, NEW next, NEW loads, NEW calls, CallsFit(page, loads, calls),
         next.kind = page.kind, next.saving = page.saving,
         next.form = page.form \/ next.form = NoMember
  PROVE  CallsFit(next, loads, calls)
BY DEF CallsFit

LEMMA LoadAddedToCalls ==
  ASSUME NEW page, NEW next, NEW loads \in Seq(ListLoads), NEW calls,
         CallsFit(page, loads, calls), next.kind = page.kind, next.saving = page.saving,
         next.form = page.form
  PROVE  CallsFit(next, Append(loads, NewListLoad("none")), calls)
<1>1. \A j \in DOMAIN Append(loads, NewListLoad("none")) :
        \/ j \in DOMAIN loads /\ Append(loads, NewListLoad("none"))[j] = loads[j]
        \/ Append(loads, NewListLoad("none"))[j].ends = "none"
  BY AppendIs, NewLoadIs
<1>. QED BY <1>1 DEF CallsFit, Saves

LEMMA CallAdded ==
  ASSUME NEW page, NEW next, NEW loads, NEW calls \in Seq(UserCalls), NEW call \in UserCalls,
         CallsFit(page, loads, calls), next.kind = page.kind, next.form = page.form,
         page.kind = "users",
         Saves(call.change) => ~page.saving /\ next.saving,
         ~Saves(call.change) => next.saving = page.saving,
         call.change = "password" => page.form = call.user
  PROVE  CallsFit(next, loads, Append(calls, call))
<1>1. /\ \A j \in DOMAIN Append(calls, call) :
           \/ j \in DOMAIN calls /\ Append(calls, call)[j] = calls[j]
           \/ j = Len(calls) + 1 /\ Append(calls, call)[j] = call
      /\ Len(calls) + 1 \notin DOMAIN calls
  BY AppendIs
<1>2. CASE Saves(call.change)
  <2>1. /\ \A n \in DOMAIN calls : ~Saves(calls[n].change)
        /\ \A n \in DOMAIN loads : ~Saves(loads[n].ends)
    BY <1>2 DEF CallsFit
  <2>. QED BY <1>1, <1>2, <2>1 DEF CallsFit
<1>3. CASE ~Saves(call.change)
  <2>1. call.change # "password"
    BY <1>3 DEF Saves
  <2>. QED BY <1>1, <1>3, <2>1 DEF CallsFit
<1>. QED BY <1>2, <1>3

LEMMA ReleasedIs ==
  ASSUME NEW tab \in ListTabs, NEW ends \in UserChanges \union {"none"}
  PROVE  /\ Released(tab, ends) \in ListTabs
         /\ Released(tab, ends).kind = tab.kind /\ Released(tab, ends).shown = tab.shown
         /\ Released(tab, ends).form = tab.form
         /\ ~Saves(ends) => Released(tab, ends).saving = tab.saving
<1>1. CASE ends \in {"create", "password"}
  BY <1>1 DEF Released, ListTabs, Saves
<1>2. CASE ends = "status"
  BY <1>2 DEF Released, ListTabs
<1>3. CASE ends = "role"
  BY <1>3 DEF Released, ListTabs
<1>4. CASE ends = "none"
  BY <1>4 DEF Released
<1>. QED BY <1>1, <1>2, <1>3, <1>4 DEF UserChanges

\* A load that was not cancelled was the last that could show anything.
LEMMA LoadRemoved ==
  ASSUME NEW page, NEW next, NEW loads \in Seq(ListLoads), NEW version, NEW n \in DOMAIN loads,
         LoadsFit(page, loads, version), next.kind = page.kind, next.shown <= version,
         loads[n].cancelled => next.shown = page.shown
  PROVE  LoadsFit(next, RemoveAt(loads, n), version)
<1>1. /\ \A j \in DOMAIN RemoveAt(loads, n) :
           Origin(j, n) \in DOMAIN loads \ {n} /\ RemoveAt(loads, n)[j] = loads[Origin(j, n)]
      /\ \A j, k \in DOMAIN RemoveAt(loads, n) : j # k => Origin(j, n) # Origin(k, n)
  BY RemoveAtIs
<1>2. next.shown <= version /\ \A j \in DOMAIN RemoveAt(loads, n) : RemoveAt(loads, n)[j].read <= version
  BY <1>1 DEF LoadsFit
<1>3. ASSUME next.kind = "guided", NEW j \in DOMAIN RemoveAt(loads, n),
             ~RemoveAt(loads, n)[j].cancelled, RemoveAt(loads, n)[j].read # 0
      PROVE  next.shown <= RemoveAt(loads, n)[j].read
  <2>1. ~loads[Origin(j, n)].cancelled /\ Origin(j, n) # n /\ Origin(j, n) \in DOMAIN loads
    BY <1>1, <1>3
  <2>2. loads[n].cancelled
    BY <1>3, <2>1 DEF LoadsFit
  <2>. QED BY <1>1, <1>3, <2>1, <2>2 DEF LoadsFit
<1>4. ASSUME next.kind = "guided", NEW j \in DOMAIN RemoveAt(loads, n),
             NEW k \in DOMAIN RemoveAt(loads, n),
             ~RemoveAt(loads, n)[j].cancelled, ~RemoveAt(loads, n)[k].cancelled
      PROVE  j = k
  <2>1. Origin(j, n) = Origin(k, n)
    BY <1>1, <1>4 DEF LoadsFit
  <2>. QED BY <1>1, <2>1
<1>. QED BY <1>2, <1>3, <1>4 DEF LoadsFit

\* The load that ends a change was the only one under way.
LEMMA LoadRemovedFromCalls ==
  ASSUME NEW page, NEW next, NEW loads \in Seq(ListLoads), NEW calls, NEW n \in DOMAIN loads,
         CallsFit(page, loads, calls), next.kind = page.kind, next.form = page.form,
         ~Saves(loads[n].ends) => next.saving = page.saving
  PROVE  CallsFit(next, RemoveAt(loads, n), calls)
<1>1. /\ \A j \in DOMAIN RemoveAt(loads, n) :
           Origin(j, n) \in DOMAIN loads \ {n} /\ RemoveAt(loads, n)[j] = loads[Origin(j, n)]
      /\ \A j, k \in DOMAIN RemoveAt(loads, n) : j # k => Origin(j, n) # Origin(k, n)
  BY RemoveAtIs
<1>2. CASE Saves(loads[n].ends)
  <2>1. /\ \A m \in DOMAIN calls : ~Saves(calls[m].change)
        /\ \A m \in DOMAIN loads : Saves(loads[m].ends) => m = n
    BY <1>2 DEF CallsFit
  <2>2. \A j \in DOMAIN RemoveAt(loads, n) : ~Saves(RemoveAt(loads, n)[j].ends)
    BY <1>1, <2>1
  <2>. QED BY <2>1, <2>2 DEF CallsFit
<1>3. CASE ~Saves(loads[n].ends)
  <2>1. \A j, k \in DOMAIN RemoveAt(loads, n) :
          Saves(RemoveAt(loads, n)[j].ends) /\ Saves(RemoveAt(loads, n)[k].ends) => j = k
    BY <1>1 DEF CallsFit
  <2>. QED BY <1>1, <1>3, <2>1 DEF CallsFit
<1>. QED BY <1>2, <1>3

LEMMA CallRemoved ==
  ASSUME NEW page, NEW next, NEW loads, NEW calls \in Seq(UserCalls), NEW n \in DOMAIN calls,
         CallsFit(page, loads, calls), next.kind = page.kind,
         next.form = page.form \/ next.form = NoMember,
         ~Saves(calls[n].change) => next.saving = page.saving
  PROVE  CallsFit(next, loads, RemoveAt(calls, n))
<1>1. /\ \A j \in DOMAIN RemoveAt(calls, n) :
           Origin(j, n) \in DOMAIN calls \ {n} /\ RemoveAt(calls, n)[j] = calls[Origin(j, n)]
      /\ \A j, k \in DOMAIN RemoveAt(calls, n) : j # k => Origin(j, n) # Origin(k, n)
  BY RemoveAtIs
<1>2. CASE Saves(calls[n].change)
  <2>1. /\ \A m \in DOMAIN loads : ~Saves(loads[m].ends)
        /\ \A m \in DOMAIN calls : Saves(calls[m].change) => m = n
    BY <1>2 DEF CallsFit
  <2>2. \A j \in DOMAIN RemoveAt(calls, n) :
          ~Saves(RemoveAt(calls, n)[j].change) /\ RemoveAt(calls, n)[j].change # "password"
    BY <1>1, <2>1 DEF Saves
  <2>3. page.kind = "users"
    BY DEF CallsFit
  <2>. QED BY <2>1, <2>2, <2>3 DEF CallsFit
<1>3. CASE ~Saves(calls[n].change)
  <2>1. \A j, k \in DOMAIN RemoveAt(calls, n) :
          Saves(RemoveAt(calls, n)[j].change) /\ Saves(RemoveAt(calls, n)[k].change) => j = k
    BY <1>1 DEF CallsFit
  <2>2. page.kind = "users"
    BY DEF CallsFit
  <2>. QED BY <1>1, <1>3, <2>1, <2>2 DEF CallsFit
<1>. QED BY <1>2, <1>3

\* A change that succeeded hands its flag over to the load that ends it.
LEMMA CallLoads ==
  ASSUME NEW page, NEW next, NEW loads \in Seq(ListLoads), NEW calls \in Seq(UserCalls),
         NEW n \in DOMAIN calls, CallsFit(page, loads, calls), calls[n].change \in UserChanges,
         next.kind = page.kind, next.form = page.form \/ next.form = NoMember,
         next.saving = page.saving
  PROVE  CallsFit(next, Append(loads, NewListLoad(calls[n].change)), RemoveAt(calls, n))
<1>. DEFINE load == NewListLoad(calls[n].change)
            left == RemoveAt(calls, n)
<1>1. CallsFit(next, loads, left)
  BY CallRemoved
<1>2. /\ \A j \in DOMAIN Append(loads, load) :
           \/ j \in DOMAIN loads /\ Append(loads, load)[j] = loads[j]
           \/ j = Len(loads) + 1 /\ Append(loads, load)[j].ends = calls[n].change
  BY AppendIs, NewLoadIs
<1>3. CASE Saves(calls[n].change)
  <2>1. /\ \A m \in DOMAIN loads : ~Saves(loads[m].ends)
        /\ \A m \in DOMAIN calls : Saves(calls[m].change) => m = n
        /\ page.saving
    BY <1>3 DEF CallsFit
  <2>2. \A j \in DOMAIN left : ~Saves(left[j].change)
    BY <2>1, RemoveAtIs
  <2>. QED BY <1>1, <1>2, <2>1, <2>2 DEF CallsFit
<1>4. CASE ~Saves(calls[n].change)
  <2>. HIDE DEF load, left
  <2>1. \A j \in DOMAIN Append(loads, load) :
          Saves(Append(loads, load)[j].ends) =>
            j \in DOMAIN loads /\ Append(loads, load)[j] = loads[j]
    BY <1>2, <1>4
  <2>2. CallsFit(next, Append(loads, load), left)
    BY <1>1, <2>1 DEF CallsFit
  <2>. QED BY <2>2 DEF load, left
<1>. QED BY <1>3, <1>4

LEMMA RowsAreRead ==
  ASSUME NEW page, NEW loads \in Seq(ListLoads), NEW calls, NEW version \in Nat,
         NEW n \in DOMAIN loads, LoadsFit(page, loads, version), CallsFit(page, loads, calls)
  PROVE  LET read == [loads EXCEPT ![n].read = version]
         IN  /\ read \in Seq(ListLoads)
             /\ LoadsFit(page, read, version) /\ CallsFit(page, read, calls)
<1>. DEFINE read == [loads EXCEPT ![n].read = version]
<1>1. loads[n] \in ListLoads
  BY ElementOfSeq, LenProperties
<1>2. [loads[n] EXCEPT !.read = version] \in ListLoads
  BY <1>1 DEF ListLoads
<1>3. read = [loads EXCEPT ![n] = [loads[n] EXCEPT !.read = version]]
  OBVIOUS
<1>4. read \in Seq(ListLoads)
  BY <1>2, <1>3, ExceptSeq, LenProperties
<1>5. DOMAIN read = DOMAIN loads
  OBVIOUS
<1>6. \A j \in DOMAIN loads :
        /\ read[j].cancelled = loads[j].cancelled /\ read[j].ends = loads[j].ends
        /\ read[j].read = loads[j].read \/ read[j].read = version
  <2>1. \A j \in DOMAIN loads : j # n => read[j] = loads[j]
    OBVIOUS
  <2>2. read[n] = [loads[n] EXCEPT !.read = version]
    OBVIOUS
  <2>3. /\ read[n].cancelled = loads[n].cancelled /\ read[n].ends = loads[n].ends
        /\ read[n].read = version
    BY <1>1, <2>2 DEF ListLoads
  <2>. QED BY <2>1, <2>3
<1>. HIDE DEF read
<1>7. page.shown <= version
  BY DEF LoadsFit
<1>8. LoadsFit(page, read, version)
  BY <1>5, <1>6, <1>7 DEF LoadsFit
<1>9. CallsFit(page, read, calls)
  BY <1>5, <1>6 DEF CallsFit
<1>. QED BY <1>4, <1>8, <1>9 DEF read

LEMMA InitList == ListInit => ListInv
<1>. SUFFICES ASSUME ListInit PROVE ListInv
  OBVIOUS
<1>1. NoListPage \in ListTabs
  BY ListAssumption DEF NoListPage, ListTabs
<1>2. listLoads \in Seq(ListLoads) /\ userCalls \in Seq(UserCalls)
      /\ DOMAIN listLoads = {} /\ DOMAIN userCalls = {}
  BY EmptySeq DEF ListInit
<1>3. ListTyped
  BY <1>1, <1>2, ListAssumption DEF ListInit, ListTyped
<1>4. LoadsFit(listPage, listLoads, listVersion) /\ CallsFit(listPage, listLoads, userCalls)
  BY <1>2 DEF ListInit, NoListPage, LoadsFit, CallsFit
<1>. QED BY <1>3, <1>4 DEF ListInv

\* What the requests of the users' page have in common.
LEMMA RequestSteps ==
  ASSUME ListInv, NEW change \in UserChanges, NEW user \in Members \union {NoMember},
         Request(change, user), listPage' \in ListTabs, listPage'.kind = listPage.kind,
         listPage'.shown = listPage.shown, listPage'.form = listPage.form,
         listPage.kind = "users",
         Saves(change) => ~listPage.saving /\ listPage'.saving,
         ~Saves(change) => listPage'.saving = listPage.saving,
         change = "password" => listPage.form = user
  PROVE  ListInv'
<1>. DEFINE call == [change |-> change, user |-> user]
<1>1. /\ userCalls' = Append(userCalls, call) /\ UNCHANGED <<listVersion, listLoads>>
      /\ call \in UserCalls /\ call.change = change /\ call.user = user
  BY DEF Request, UserCalls
<1>. HIDE DEF call
<1>2. /\ ListTyped /\ LoadsFit(listPage, listLoads, listVersion)
      /\ CallsFit(listPage, listLoads, userCalls) /\ userCalls \in Seq(UserCalls)
  BY DEF ListInv, ListTyped
<1>3. LoadsFit(listPage', listLoads', listVersion')
  BY <1>1, <1>2, ShownKept
<1>4. CallsFit(listPage', listLoads, Append(userCalls, call))
  BY <1>1, <1>2, CallAdded
<1>5. ListTyped'
  BY <1>1, <1>2, AppendProperties DEF ListTyped
<1>. QED BY <1>1, <1>3, <1>4, <1>5 DEF ListInv

\* What the answers have in common.
LEMMA AnswerSteps ==
  ASSUME ListInv, NEW n \in DOMAIN userCalls, NEW change \in UserChanges, NEW page \in ListTabs,
         Answered(n, change, page), page.kind = listPage.kind, page.shown = listPage.shown,
         page.form = listPage.form \/ page.form = NoMember, page.saving = listPage.saving
  PROVE  ListInv'
<1>1. /\ ListTyped /\ LoadsFit(listPage, listLoads, listVersion)
      /\ CallsFit(listPage, listLoads, userCalls) /\ userCalls \in Seq(UserCalls)
      /\ listLoads \in Seq(ListLoads) /\ listPage \in ListTabs
      /\ listVersion \in 1 .. MaxVersion + 1 /\ listVersion \in Nat
  BY ListAssumption DEF ListInv, ListTyped
<1>2. /\ userCalls[n].change = change /\ userCalls' = RemoveAt(userCalls, n)
      /\ UNCHANGED listVersion /\ userCalls' \in Seq(UserCalls)
  BY <1>1, RemoveAtIs DEF Answered
<1>3. CASE listPage' = page /\ listLoads' = Append(listLoads, NewListLoad(change))
  <2>1. listPage.kind # "guided"
    BY <1>1 DEF CallsFit
  <2>2. LoadsFit(page, Append(listLoads, NewListLoad(change)), listVersion)
    BY <1>1, <2>1, LoadAdded
  <2>3. CallsFit(page, Append(listLoads, NewListLoad(change)), RemoveAt(userCalls, n))
    BY <1>1, <1>2, CallLoads
  <2>4. ListTyped'
    BY <1>1, <1>2, <1>3, NewLoadIs, AppendProperties DEF ListTyped
  <2>. QED BY <1>2, <1>3, <2>2, <2>3, <2>4 DEF ListInv
<1>4. CASE listPage' = Released(listPage, change) /\ UNCHANGED listLoads
  <2>1. /\ listPage' \in ListTabs /\ listPage'.kind = listPage.kind
        /\ listPage'.shown = listPage.shown /\ listPage'.form = listPage.form
        /\ ~Saves(change) => listPage'.saving = listPage.saving
    BY <1>1, <1>4, ReleasedIs
  <2>2. LoadsFit(listPage', listLoads, listVersion)
    BY <1>1, <2>1, ShownKept
  <2>3. CallsFit(listPage', listLoads, RemoveAt(userCalls, n))
    BY <1>1, <1>2, <2>1, CallRemoved
  <2>4. ListTyped'
    BY <1>1, <1>2, <1>4, <2>1 DEF ListTyped
  <2>. QED BY <1>2, <1>4, <2>2, <2>3, <2>4 DEF ListInv
<1>. QED BY <1>3, <1>4 DEF Answered

\* The page changes alone.
LEMMA PageSteps ==
  ASSUME ListInv, UNCHANGED <<listVersion, listLoads, userCalls>>, listPage' \in ListTabs,
         listPage'.kind = listPage.kind, listPage'.shown = listPage.shown,
         listPage'.saving = listPage.saving,
         CallsFit(listPage', listLoads, userCalls)
  PROVE  ListInv'
<1>1. LoadsFit(listPage', listLoads, listVersion)
  BY ShownKept DEF ListInv
<1>. QED BY <1>1 DEF ListInv, ListTyped

LEMMA LoadSteps ==
  ASSUME ListInv, NEW n \in DOMAIN listLoads, RowsRead(n) \/ LoadEnds(n)
  PROVE  ListInv'
<1>1. /\ ListTyped /\ LoadsFit(listPage, listLoads, listVersion)
      /\ CallsFit(listPage, listLoads, userCalls)
      /\ listLoads \in Seq(ListLoads) /\ listPage \in ListTabs
      /\ listVersion \in 1 .. MaxVersion + 1 /\ listVersion \in Nat
      /\ listLoads[n] \in ListLoads
  BY ListAssumption, ListElements DEF ListInv, ListTyped
<1>2. CASE RowsRead(n)
  <2>1. /\ listLoads' = [listLoads EXCEPT ![n].read = listVersion]
        /\ UNCHANGED <<listVersion, listPage, userCalls>>
    BY <1>2 DEF RowsRead
  <2>2. /\ listLoads' \in Seq(ListLoads) /\ LoadsFit(listPage, listLoads', listVersion)
        /\ CallsFit(listPage, listLoads', userCalls)
    BY <1>1, <2>1, RowsAreRead
  <2>. QED BY <1>1, <2>1, <2>2 DEF ListInv, ListTyped
<1>3. CASE LoadEnds(n)
  <2>1. /\ listLoads' = RemoveAt(listLoads, n) /\ listLoads' \in Seq(ListLoads)
        /\ UNCHANGED <<listVersion, userCalls>>
    BY <1>1, <1>3, RemoveAtIs DEF LoadEnds
  <2>2. /\ listPage' \in ListTabs /\ listPage'.kind = listPage.kind
        /\ listPage'.shown <= listVersion /\ listPage'.form = listPage.form
        /\ ~Saves(listLoads[n].ends) => listPage'.saving = listPage.saving
        /\ listLoads[n].cancelled => listPage'.shown = listPage.shown
    <3>1. CASE listLoads[n].cancelled
      BY <1>1, <1>3, <3>1 DEF LoadEnds, LoadsFit
    <3>2. CASE ~listLoads[n].cancelled
      <4>. DEFINE tab == Released([listPage EXCEPT !.loading = FALSE], listLoads[n].ends)
      <4>1. /\ [listPage EXCEPT !.loading = FALSE] \in ListTabs
            /\ [listPage EXCEPT !.loading = FALSE].kind = listPage.kind
            /\ [listPage EXCEPT !.loading = FALSE].form = listPage.form
            /\ [listPage EXCEPT !.loading = FALSE].saving = listPage.saving
            /\ [listPage EXCEPT !.loading = FALSE].shown = listPage.shown
        BY <1>1 DEF ListTabs
      <4>2. listLoads[n].ends \in UserChanges \union {"none"}
        BY <1>1 DEF ListLoads
      <4>3. /\ tab \in ListTabs /\ tab.kind = listPage.kind /\ tab.form = listPage.form
            /\ tab.shown = listPage.shown
            /\ ~Saves(listLoads[n].ends) => tab.saving = listPage.saving
        BY <4>1, <4>2, ReleasedIs
      <4>4. \/ listLoads[n].read # 0 /\ listPage' = [tab EXCEPT !.shown = listLoads[n].read]
            \/ listPage' = [tab EXCEPT !.shown = 0]
            \/ listPage' = [tab EXCEPT !.shown = tab.shown]
        BY <1>3, <3>2 DEF LoadEnds
      <4>. HIDE DEF tab
      <4>5. PICK shown : /\ listPage' = [tab EXCEPT !.shown = shown]
                         /\ shown \in {0, listLoads[n].read, listPage.shown}
        BY <4>3, <4>4
      <4>6. shown \in 0 .. MaxVersion + 1 /\ shown <= listVersion
        <5>1. listLoads[n].read \in Nat /\ listPage.shown \in 0 .. MaxVersion + 1
          BY <1>1 DEF ListLoads, ListTabs
        <5>2. listLoads[n].read <= listVersion /\ listPage.shown <= listVersion
          BY <1>1 DEF LoadsFit
        <5>. QED BY <1>1, <4>5, <5>1, <5>2, ListAssumption
      <4>. QED BY <3>2, <4>3, <4>5, <4>6 DEF ListTabs
    <3>. QED BY <3>1, <3>2
  <2>3. LoadsFit(listPage', RemoveAt(listLoads, n), listVersion)
    BY <1>1, <2>2, LoadRemoved
  <2>4. CallsFit(listPage', RemoveAt(listLoads, n), userCalls)
    BY <1>1, <2>2, LoadRemovedFromCalls
  <2>5. ListTyped'
    BY <1>1, <2>1, <2>2 DEF ListTyped
  <2>. QED BY <2>1, <2>3, <2>4, <2>5 DEF ListInv
<1>. QED BY <1>2, <1>3

LEMMA StepList == ListInv /\ [ListNext]_listVars => ListInv'
<1>. SUFFICES ASSUME ListInv, [ListNext]_listVars PROVE ListInv'
  OBVIOUS
<1>0. /\ ListTyped /\ LoadsFit(listPage, listLoads, listVersion)
      /\ CallsFit(listPage, listLoads, userCalls)
      /\ listLoads \in Seq(ListLoads) /\ userCalls \in Seq(UserCalls) /\ listPage \in ListTabs
      /\ listVersion \in 1 .. MaxVersion + 1 /\ listVersion \in Nat
  BY ListAssumption DEF ListInv, ListTyped
<1>1. CASE ServerChanges
  <2>1. /\ listVersion <= MaxVersion /\ listVersion' = listVersion + 1
        /\ UNCHANGED <<listPage, listLoads, userCalls>>
    BY <1>1 DEF ServerChanges
  <2>2. listPage.shown \in Nat /\ \A n \in DOMAIN listLoads : listLoads[n].read \in Nat
    BY <1>0, ListElements DEF ListTabs, ListLoads
  <2>3. LoadsFit(listPage, listLoads, listVersion + 1)
    BY <1>0, <2>2 DEF LoadsFit
  <2>4. listVersion + 1 \in 1 .. MaxVersion + 1
    BY <1>0, <2>1, ListAssumption
  <2>. QED BY <1>0, <2>1, <2>3, <2>4 DEF ListInv, ListTyped
<1>2. CASE ListLeave
  <2>1. NoListPage \in ListTabs
    BY ListAssumption DEF NoListPage, ListTabs
  <2>2. listLoads' \in Seq(ListLoads) /\ userCalls' \in Seq(UserCalls)
        /\ DOMAIN listLoads' = {} /\ DOMAIN userCalls' = {}
    BY <1>2, EmptySeq DEF ListLeave
  <2>3. LoadsFit(listPage', listLoads', listVersion') /\ CallsFit(listPage', listLoads', userCalls')
    BY <1>0, <1>2, <2>2 DEF ListLeave, NoListPage, LoadsFit, CallsFit
  <2>. QED BY <1>0, <1>2, <2>1, <2>2, <2>3 DEF ListLeave, ListInv, ListTyped
<1>3. ASSUME NEW kind \in ListKinds, ListOpen(kind) PROVE ListInv'
  <2>1. /\ listPage' = [NoListPage EXCEPT !.kind = kind, !.loading = kind \in {"audit", "guided"}]
        /\ listLoads' = <<NewListLoad("none")>> /\ UNCHANGED <<listVersion, userCalls>>
        /\ listPage.kind = "none"
    BY <1>3 DEF ListOpen
  <2>0. NoListPage \in ListTabs /\ NoListPage.shown = 0 /\ NoListPage.form = NoMember
    BY ListAssumption DEF NoListPage, ListTabs
  <2>2. /\ listPage' \in ListTabs /\ listPage'.kind = kind /\ listPage'.shown = 0
        /\ listPage'.form = NoMember
    <3>1. PICK loading \in BOOLEAN :
            listPage' = [NoListPage EXCEPT !.kind = kind, !.loading = loading]
      <4>1. CASE kind \in {"audit", "guided"}
        <5>1. (kind \in {"audit", "guided"}) = TRUE
          BY <4>1
        <5>. QED BY <2>1, <5>1
      <4>2. CASE kind \notin {"audit", "guided"}
        <5>1. (kind \in {"audit", "guided"}) = FALSE
          BY <4>2
        <5>. QED BY <2>1, <5>1
      <4>. QED BY <4>1, <4>2
    <3>. QED BY <2>0, <3>1 DEF ListTabs
  <2>3. /\ listLoads' \in Seq(ListLoads) /\ DOMAIN listLoads' = {1}
        /\ listLoads'[1] = NewListLoad("none")
    BY <2>1, NewLoadIs
  <2>4. DOMAIN userCalls = {}
    BY <1>0, <2>1 DEF CallsFit
  <2>5. LoadsFit(listPage', listLoads', listVersion)
    BY <1>0, <2>2, <2>3, NewLoadIs DEF LoadsFit
  <2>6. CallsFit(listPage', listLoads', userCalls)
    BY <2>2, <2>3, <2>4, NewLoadIs DEF CallsFit, Saves
  <2>. QED BY <1>0, <2>1, <2>2, <2>3, <2>5, <2>6 DEF ListInv, ListTyped
<1>4. CASE ListRefresh
  <2>1. /\ listPage.kind # "guided" /\ UNCHANGED <<listVersion, userCalls>>
        /\ listPage' = [listPage EXCEPT !.loading = listPage.kind = "audit"]
        /\ listLoads' = Append(listLoads, NewListLoad("none"))
    BY <1>4 DEF ListRefresh
  <2>2. /\ listPage' \in ListTabs /\ listPage'.kind = listPage.kind
        /\ listPage'.shown = listPage.shown /\ listPage'.saving = listPage.saving
        /\ listPage'.form = listPage.form
    BY <1>0, <2>1 DEF ListTabs
  <2>3. LoadsFit(listPage', Append(listLoads, NewListLoad("none")), listVersion)
    BY <1>0, <2>1, <2>2, LoadAdded
  <2>4. CallsFit(listPage', Append(listLoads, NewListLoad("none")), userCalls)
    BY <1>0, <2>2, LoadAddedToCalls
  <2>5. ListTyped'
    BY <1>0, <2>1, <2>2, NewLoadIs, AppendProperties DEF ListTyped
  <2>. QED BY <2>1, <2>3, <2>4, <2>5 DEF ListInv
<1>5. CASE SwitchLocale
  <2>. DEFINE dropped == [n \in DOMAIN listLoads |-> [listLoads[n] EXCEPT !.cancelled = TRUE]]
  <2>1. /\ listPage.kind = "guided" /\ UNCHANGED <<listVersion, listPage, userCalls>>
        /\ listLoads' = Append(dropped, NewListLoad("none"))
    BY <1>5 DEF SwitchLocale
  <2>2. \A n \in DOMAIN listLoads :
          /\ dropped[n] \in ListLoads /\ dropped[n].cancelled
          /\ dropped[n].read = listLoads[n].read /\ dropped[n].ends = listLoads[n].ends
    BY <1>0, ListElements DEF ListLoads
  <2>3. dropped \in Seq(ListLoads) /\ DOMAIN dropped = DOMAIN listLoads
        /\ Len(dropped) = Len(listLoads)
    BY <1>0, <2>2, LenProperties, IsASeq
  <2>. HIDE DEF dropped
  <2>4. /\ listLoads' \in Seq(ListLoads)
        /\ \A j \in DOMAIN listLoads' :
             \/ j \in DOMAIN dropped /\ listLoads'[j] = dropped[j]
             \/ j = Len(dropped) + 1 /\ listLoads'[j] = NewListLoad("none")
    BY <2>1, <2>3, NewLoadIs, AppendIs
  <2>5. \A n \in DOMAIN listLoads :
          listLoads[n].read <= listVersion /\ (Saves(listLoads[n].ends) => listPage.saving)
    BY <1>0 DEF LoadsFit, CallsFit
  <2>6. LoadsFit(listPage, listLoads', listVersion)
    <3>0. NewListLoad("none").read = 0
      BY NewLoadIs
    <3>1. ASSUME NEW j \in DOMAIN listLoads', ~listLoads'[j].cancelled
          PROVE  j = Len(dropped) + 1 /\ listLoads'[j].read = 0
      <4>1. ASSUME j \in DOMAIN dropped, listLoads'[j] = dropped[j] PROVE FALSE
        <5>1. dropped[j].cancelled
          BY <2>2, <2>3, <4>1
        <5>. QED BY <3>1, <4>1, <5>1, Zenon
      <4>. QED BY <2>4, <3>0, <4>1
    <3>2. \A j \in DOMAIN listLoads' : listLoads'[j].read <= listVersion
      BY <1>0, <2>2, <2>3, <2>4, <2>5, <3>0
    <3>3. listPage.shown <= listVersion
      BY <1>0 DEF LoadsFit
    <3>. QED BY <3>1, <3>2, <3>3 DEF LoadsFit
  <2>7. CallsFit(listPage, listLoads', userCalls)
    <3>1. \A j \in DOMAIN listLoads' :
            Saves(listLoads'[j].ends) => j \in DOMAIN listLoads /\ listLoads'[j].ends = listLoads[j].ends
      BY <2>2, <2>3, <2>4, NewLoadIs DEF Saves
    <3>. QED BY <1>0, <3>1 DEF CallsFit
  <2>. QED BY <1>0, <2>1, <2>4, <2>6, <2>7 DEF ListInv, ListTyped
<1>6. CASE \E n \in DOMAIN listLoads : RowsRead(n) \/ LoadEnds(n)
  BY <1>6, LoadSteps
<1>7. CASE CreateUser
  <2>1. /\ listPage.kind = "users" /\ ~listPage.saving /\ Request("create", NoMember)
        /\ listPage' = [listPage EXCEPT !.saving = TRUE]
    BY <1>7 DEF CreateUser
  <2>2. /\ listPage' \in ListTabs /\ listPage'.kind = listPage.kind
        /\ listPage'.shown = listPage.shown /\ listPage'.form = listPage.form /\ listPage'.saving
    BY <1>0, <2>1 DEF ListTabs
  <2>. QED BY <2>1, <2>2, RequestSteps DEF Saves, UserChanges
<1>8. ASSUME NEW m \in Members, ToggleUser(m) PROVE ListInv'
  <2>1. /\ listPage.kind = "users" /\ Request("status", m)
        /\ listPage' = [listPage EXCEPT !.status = m]
    BY <1>8 DEF ToggleUser, OnUsers
  <2>2. /\ listPage' \in ListTabs /\ listPage'.kind = listPage.kind
        /\ listPage'.shown = listPage.shown /\ listPage'.form = listPage.form
        /\ listPage'.saving = listPage.saving
    BY <1>0, <2>1 DEF ListTabs
  <2>. QED BY <2>1, <2>2, RequestSteps DEF Saves, UserChanges
<1>9. ASSUME NEW m \in Members, ToggleRole(m) PROVE ListInv'
  <2>1. /\ listPage.kind = "users" /\ Request("role", m)
        /\ listPage' = [listPage EXCEPT !.role = m]
    BY <1>9 DEF ToggleRole, OnUsers
  <2>2. /\ listPage' \in ListTabs /\ listPage'.kind = listPage.kind
        /\ listPage'.shown = listPage.shown /\ listPage'.form = listPage.form
        /\ listPage'.saving = listPage.saving
    BY <1>0, <2>1 DEF ListTabs
  <2>. QED BY <2>1, <2>2, RequestSteps DEF Saves, UserChanges
<1>10. ASSUME NEW m \in Members, OpenPassword(m) PROVE ListInv'
  <2>1. /\ listPage.kind = "users" /\ ~listPage.saving
        /\ listPage' = [listPage EXCEPT !.form = m, !.typed = FALSE]
        /\ UNCHANGED <<listVersion, listLoads, userCalls>>
    BY <1>10 DEF OpenPassword, OnUsers
  <2>2. /\ listPage' \in ListTabs /\ listPage'.kind = listPage.kind
        /\ listPage'.shown = listPage.shown /\ listPage'.saving = listPage.saving
    BY <1>0, <2>1 DEF ListTabs
  <2>3. \A n \in DOMAIN userCalls : userCalls[n].change # "password"
    BY <1>0, <2>1 DEF CallsFit, Saves
  <2>4. CallsFit(listPage', listLoads, userCalls)
    BY <1>0, <2>1, <2>2, <2>3 DEF CallsFit
  <2>. QED BY <2>1, <2>2, <2>4, PageSteps
<1>11. CASE TypePassword
  <2>1. /\ listPage' = [listPage EXCEPT !.typed = TRUE]
        /\ UNCHANGED <<listVersion, listLoads, userCalls>>
    BY <1>11 DEF TypePassword
  <2>2. /\ listPage' \in ListTabs /\ listPage'.kind = listPage.kind
        /\ listPage'.shown = listPage.shown /\ listPage'.saving = listPage.saving
        /\ listPage'.form = listPage.form
    BY <1>0, <2>1 DEF ListTabs
  <2>3. CallsFit(listPage', listLoads, userCalls)
    BY <1>0, <2>2, CallsKept
  <2>. QED BY <2>1, <2>2, <2>3, PageSteps
<1>12. CASE CancelPassword
  <2>1. /\ listPage' = [listPage EXCEPT !.form = NoMember]
        /\ UNCHANGED <<listVersion, listLoads, userCalls>>
    BY <1>12 DEF CancelPassword
  <2>2. /\ listPage' \in ListTabs /\ listPage'.kind = listPage.kind
        /\ listPage'.shown = listPage.shown /\ listPage'.saving = listPage.saving
        /\ listPage'.form = NoMember
    BY <1>0, <2>1 DEF ListTabs
  <2>3. CallsFit(listPage', listLoads, userCalls)
    BY <1>0, <2>2, CallsKept
  <2>. QED BY <2>1, <2>2, <2>3, PageSteps
<1>13. CASE ResetPassword
  <2>1. /\ listPage.form # NoMember /\ ~listPage.saving /\ Request("password", listPage.form)
        /\ listPage' = [listPage EXCEPT !.saving = TRUE]
    BY <1>13 DEF ResetPassword
  <2>2. /\ listPage' \in ListTabs /\ listPage'.kind = listPage.kind
        /\ listPage'.shown = listPage.shown /\ listPage'.form = listPage.form /\ listPage'.saving
        /\ listPage.form \in Members \union {NoMember}
    BY <1>0, <2>1 DEF ListTabs
  <2>3. listPage.kind = "users"
    BY <1>0, <2>1 DEF CallsFit
  <2>4. Saves("password") /\ "password" \in UserChanges
    BY DEF Saves, UserChanges
  <2>. QED BY <2>1, <2>2, <2>3, <2>4, RequestSteps
<1>14. ASSUME NEW n \in DOMAIN userCalls,
              CreateAnswered(n) \/ StatusAnswered(n) \/ RoleAnswered(n)
       PROVE  ListInv'
  BY <1>0, <1>14, AnswerSteps DEF CreateAnswered, StatusAnswered, RoleAnswered, UserChanges
<1>15. ASSUME NEW n \in DOMAIN userCalls, PasswordAnswered(n) PROVE ListInv'
  <2>. DEFINE page == [listPage EXCEPT !.form = NoMember, !.typed = FALSE]
  <2>1. /\ page \in ListTabs /\ page.kind = listPage.kind /\ page.shown = listPage.shown
        /\ page.form = NoMember /\ page.saving = listPage.saving
    BY <1>0 DEF ListTabs
  <2>2. Answered(n, "password", page)
    BY <1>15 DEF PasswordAnswered
  <2>. HIDE DEF page
  <2>. QED BY <2>1, <2>2, AnswerSteps DEF UserChanges
<1>16. CASE UNCHANGED listVars
  BY <1>0, <1>16 DEF listVars, ListInv, ListTyped
<1>. QED BY <1>1, <1>2, <1>3, <1>4, <1>5, <1>6, <1>7, <1>8, <1>9, <1>10, <1>11, <1>12, <1>13,
            <1>14, <1>15, <1>16 DEF ListNext

\* The overview that replaces another is not older.
LEMMA OverviewSteps ==
  ListInv /\ [ListNext]_listVars =>
    (listPage.kind = "guided" /\ listPage'.kind = "guided" /\ listPage'.shown # 0
       => listPage'.shown >= listPage.shown)
<1>. SUFFICES ASSUME ListInv, [ListNext]_listVars,
                     listPage.kind = "guided", listPage'.kind = "guided", listPage'.shown # 0
              PROVE  listPage'.shown >= listPage.shown
  OBVIOUS
<1>0. /\ LoadsFit(listPage, listLoads, listVersion) /\ CallsFit(listPage, listLoads, userCalls)
      /\ listPage \in ListTabs /\ listPage.shown \in Nat /\ DOMAIN userCalls = {}
      /\ listPage.form = NoMember
  BY DEF ListInv, ListTyped, ListTabs, CallsFit
<1>1. ASSUME NEW n \in DOMAIN listLoads, LoadEnds(n) PROVE listPage'.shown >= listPage.shown
  <2>1. CASE listLoads[n].cancelled
    BY <1>0, <1>1, <2>1 DEF LoadEnds
  <2>2. CASE ~listLoads[n].cancelled
    <3>. DEFINE tab == Released([listPage EXCEPT !.loading = FALSE], listLoads[n].ends)
    <3>1. [listPage EXCEPT !.loading = FALSE] \in ListTabs
      BY <1>0 DEF ListTabs
    <3>2. listLoads[n].ends \in UserChanges \union {"none"}
      BY ListElements DEF ListInv, ListLoads
    <3>3. tab \in ListTabs
      BY <3>1, <3>2, ReleasedIs
    <3>4. \/ listLoads[n].read # 0 /\ listPage' = [tab EXCEPT !.shown = listLoads[n].read]
          \/ listPage' = [tab EXCEPT !.shown = 0]
      BY <1>1, <2>2 DEF LoadEnds
    <3>. HIDE DEF tab
    <3>5. listLoads[n].read # 0 /\ listPage'.shown = listLoads[n].read
      BY <3>3, <3>4 DEF ListTabs
    <3>6. listLoads[n].read \in Nat
      BY ListElements DEF ListInv, ListLoads
    <3>. QED BY <1>0, <2>2, <3>5, <3>6 DEF LoadsFit
  <2>. QED BY <2>1, <2>2
<1>2. CASE UNCHANGED listPage
  BY <1>0, <1>2
<1>3. CASE \E n \in DOMAIN listLoads : RowsRead(n)
  BY <1>2, <1>3 DEF RowsRead
<1>4. CASE ServerChanges \/ SwitchLocale \/ UNCHANGED listVars
  BY <1>2, <1>4 DEF ServerChanges, SwitchLocale, listVars
<1>5. ~ListLeave /\ ~ListRefresh /\ \A kind \in ListKinds : ~ListOpen(kind)
  BY DEF ListLeave, ListRefresh, ListOpen, NoListPage
<1>6. ~CreateUser /\ ~TypePassword /\ ~CancelPassword /\ ~ResetPassword
  BY <1>0 DEF CreateUser, TypePassword, CancelPassword, ResetPassword
<1>7. \A m \in Members : ~ToggleUser(m) /\ ~ToggleRole(m) /\ ~OpenPassword(m)
  BY DEF ToggleUser, ToggleRole, OpenPassword, OnUsers
<1>. QED BY <1>0, <1>1, <1>3, <1>4, <1>5, <1>6, <1>7 DEF ListNext

-----------------------------------------------------------------------------
(* The job page *)

JobStatuses == {"none", "queued", "running"} \union JobEnded
PageRecords == JobRecords \union {NoRecord}

JobTabs == [path : Jobs \union {NoJob}, shown : PageRecords, status : JobStatuses,
            applying : BOOLEAN]
JobSockets == [state : {"connecting", "open", "subscribed", "closed"}, told : JobStatuses,
               offset : 0 .. 1, wire : JobMessages]
JobLoadsOf == [job : Jobs, record : PageRecords]

JobTyped ==
  /\ jobRow \in [Jobs -> JobRows]
  /\ jobTab \in JobTabs /\ jobSocket \in JobSockets
  /\ jobLoads \subseteq JobLoadsOf
  /\ jobCall \in [job : Jobs \union {NoJob}, created : Jobs \union {NoJob}]

\* A job that the page, a load or an answer names is there.
Posted(rows, j) == j # NoJob => rows[j].status # "absent"

LoadsPosted(rows, loads) ==
  \A l \in loads : /\ Posted(rows, l.job)
                   /\ l.record # NoRecord => l.record.row.status # "absent"

\* The stream has not told more of the log than there is.
StreamFits(rows, path, socket) ==
  /\ socket.state # "closed" => path # NoJob /\ socket.offset <= LogOf(rows[path])
  /\ socket.wire # NoMessage => socket.state # "closed"

\* A job that is not there has no row.
RowsFit(rows) == \A j \in Jobs : rows[j].status = "absent" => rows[j] = NoJobRow

JobInv ==
  /\ JobTyped /\ RowsFit(jobRow)
  /\ Posted(jobRow, jobTab.path) /\ Posted(jobRow, jobCall.created)
  /\ LoadsPosted(jobRow, jobLoads)
  /\ StreamFits(jobRow, jobTab.path, jobSocket)

LEMMA JobInvIs == JobInv => JobTypeOK
BY DEF JobInv, JobTyped, JobTypeOK, JobTabs, JobSockets, JobLoadsOf, PageRecords, JobStatuses

LEMMA NoRowIs ==
  /\ NoJobRow \in JobRows /\ NoRecord.row \in JobRows /\ LogOf(NoJobRow) = 0
  /\ Unmounted \in JobTabs /\ Unmounted.path = NoJob
  /\ NoMessage \in JobMessages
  /\ NoSocket \in JobSockets /\ NoSocket.state = "closed" /\ NoSocket.wire = NoMessage
  /\ NoSocket.offset = 0
  /\ NoJobCall \in [job : Jobs \union {NoJob}, created : Jobs \union {NoJob}]
  /\ NoJobCall.created = NoJob
<1>1. NoJobRow \in JobRows /\ NoRecord.row \in JobRows /\ LogOf(NoJobRow) = 0
  BY DEF NoJobRow, JobRows, NoRecord, LogOf, JobEnded
<1>2. NoMessage \in JobMessages
  BY DEF NoMessage, JobMessages
<1>4. Unmounted \in JobTabs /\ Unmounted.path = NoJob
  BY DEF Unmounted, JobTabs, PageRecords, JobStatuses
<1>5. /\ NoSocket \in JobSockets /\ NoSocket.state = "closed" /\ NoSocket.wire = NoMessage
      /\ NoSocket.offset = 0
  BY <1>2 DEF NoSocket, JobSockets, JobStatuses
<1>6. /\ NoJobCall \in [job : Jobs \union {NoJob}, created : Jobs \union {NoJob}]
      /\ NoJobCall.created = NoJob
  BY DEF NoJobCall
<1>. QED BY <1>1, <1>2, <1>4, <1>5, <1>6

LEMMA LogIs == \A r \in JobRows : LogOf(r) \in 0 .. 1
BY DEF LogOf

\* A job's row changes as the routes and the runner change it: nothing that is there
\* disappears, and a log only grows.
Grows(before, after) == after.status # "absent" /\ LogOf(before) <= LogOf(after)

LEMMA RowSteps ==
  ASSUME JobInv, NEW j \in Jobs, NEW row \in JobRows,
         jobRow' = [jobRow EXCEPT ![j] = row], Grows(jobRow[j], row),
         UNCHANGED <<jobTab, jobSocket, jobLoads>>,
         jobCall' \in [job : Jobs \union {NoJob}, created : Jobs \union {NoJob}],
         jobCall'.created \in {jobCall.created, j}
  PROVE  JobInv'
<1>1. jobRow \in [Jobs -> JobRows] /\ jobRow' \in [Jobs -> JobRows] /\ RowsFit(jobRow)
      /\ jobTab \in JobTabs /\ jobSocket \in JobSockets /\ jobLoads \subseteq JobLoadsOf
  BY DEF JobInv, JobTyped
<1>2. /\ jobRow'[j] = row
      /\ \A k \in Jobs : k # j => jobRow'[k] = jobRow[k]
  BY <1>1
<1>3. \A k \in Jobs : Posted(jobRow, k) => Posted(jobRow', k)
  BY <1>2 DEF Posted, Grows
<1>4. Posted(jobRow', j)
  BY <1>2 DEF Posted, Grows
<1>5. RowsFit(jobRow')
  BY <1>1, <1>2 DEF RowsFit, Grows
<1>6. Posted(jobRow', jobTab'.path)
  BY <1>1, <1>3 DEF JobInv, Posted, JobTabs
<1>7. Posted(jobRow', jobCall'.created)
  BY <1>3, <1>4 DEF JobInv, Posted, JobTyped
<1>8. LoadsPosted(jobRow', jobLoads')
  <2>1. \A l \in jobLoads : l.job \in Jobs
    BY <1>1 DEF JobLoadsOf
  <2>. QED BY <1>3, <2>1 DEF JobInv, LoadsPosted
<1>9. StreamFits(jobRow', jobTab'.path, jobSocket')
  <2>1. ASSUME jobSocket.state # "closed"
        PROVE  jobTab.path \in Jobs /\ jobSocket.offset <= LogOf(jobRow'[jobTab.path])
    <3>1. jobTab.path \in Jobs /\ jobSocket.offset <= LogOf(jobRow[jobTab.path])
      BY <1>1, <2>1 DEF JobInv, StreamFits, JobTabs
    <3>2. LogOf(jobRow[jobTab.path]) <= LogOf(jobRow'[jobTab.path])
      <4>1. LogOf(jobRow[jobTab.path]) \in 0 .. 1
        BY <1>1, <3>1, LogIs
      <4>. QED BY <1>2, <3>1, <4>1 DEF Grows
    <3>3. /\ LogOf(jobRow[jobTab.path]) \in 0 .. 1 /\ LogOf(jobRow'[jobTab.path]) \in 0 .. 1
          /\ jobSocket.offset \in 0 .. 1
      BY <1>1, <3>1, LogIs DEF JobSockets
    <3>. QED BY <3>1, <3>2, <3>3
  <2>. QED BY <2>1, JobAssumption DEF JobInv, StreamFits
<1>10. JobTyped'
  BY <1>1 DEF JobTyped
<1>. QED BY <1>5, <1>6, <1>7, <1>8, <1>9, <1>10 DEF JobInv

LEMMA InitJob == JobInit => JobInv
<1>. SUFFICES ASSUME JobInit PROVE JobInv
  OBVIOUS
<1>1. jobRow \in [Jobs -> JobRows] /\ \A j \in Jobs : jobRow[j] = NoJobRow
  BY NoRowIs DEF JobInit
<1>2. JobTyped
  BY <1>1, NoRowIs DEF JobInit, JobTyped
<1>3. RowsFit(jobRow)
  BY <1>1 DEF RowsFit, NoJobRow
<1>4. Posted(jobRow, jobTab.path) /\ Posted(jobRow, jobCall.created)
      /\ LoadsPosted(jobRow, jobLoads) /\ StreamFits(jobRow, jobTab.path, jobSocket)
  BY NoRowIs DEF JobInit, Posted, LoadsPosted, StreamFits
<1>. QED BY <1>2, <1>3, <1>4 DEF JobInv

LEMMA RecordIs ==
  ASSUME JobInv, NEW j \in Jobs, Posted(jobRow, j)
  PROVE  RecordOf(j) \in JobRecords /\ RecordOf(j).row.status # "absent"
<1>1. jobRow[j] \in JobRows
  BY DEF JobInv, JobTyped
<1>2. [jobRow[j] EXCEPT !.source = NoJob] \in JobRows
      /\ [jobRow[j] EXCEPT !.source = NoJob].status = jobRow[j].status
  BY <1>1 DEF JobRows
<1>. QED BY <1>2, JobAssumption DEF RecordOf, JobRecords, Posted

\* Routes and the runner.
LEMMA RowActions ==
  ASSUME JobInv, NEW j \in Jobs, JobPosted(j) \/ JobRuns(j) \/ JobEnds(j) \/ JobServeApply(j)
  PROVE  JobInv'
<1>0. /\ jobRow \in [Jobs -> JobRows] /\ jobRow[j] \in JobRows /\ RowsFit(jobRow)
      /\ jobRow[j].status \in {"absent", "queued", "running"} \union JobEnded
      /\ jobRow[j].type \in {"plan", "apply"}
      /\ jobCall \in [job : Jobs \union {NoJob}, created : Jobs \union {NoJob}]
  BY DEF JobInv, JobTyped, JobRows
<1>01. jobRow[j].status = "absent" => jobRow[j] = NoJobRow
  BY <1>0 DEF RowsFit
<1>1. CASE JobPosted(j)
  <2>. DEFINE row == [jobRow[j] EXCEPT !.status = "queued"]
  <2>1. /\ jobRow' = [jobRow EXCEPT ![j] = row] /\ jobRow[j].status = "absent"
        /\ UNCHANGED <<jobTab, jobSocket, jobLoads, jobCall>>
    BY <1>1 DEF JobPosted
  <2>2. row \in JobRows /\ row.status = "queued" /\ LogOf(row) = 0
        /\ LogOf(jobRow[j]) = 0
    BY <1>0, <1>01, <2>1, NoRowIs DEF JobRows, NoJobRow, LogOf
  <2>. HIDE DEF row
  <2>3. Grows(jobRow[j], row)
    BY <2>1, <2>2 DEF Grows
  <2>. QED BY <1>0, <2>1, <2>2, <2>3, RowSteps
<1>2. CASE JobRuns(j)
  <2>1. PICK row : /\ jobRow' = [jobRow EXCEPT ![j] = row]
                   /\ \/ jobRow[j].status = "queued" /\ row = [jobRow[j] EXCEPT !.status = "running"]
                      \/ jobRow[j].status = "running" /\ row = [jobRow[j] EXCEPT !.artifact = TRUE]
    BY <1>2 DEF JobRuns
  <2>2. UNCHANGED <<jobTab, jobSocket, jobLoads, jobCall>>
    BY <1>2 DEF JobRuns
  <2>3. row \in JobRows /\ row.status = "running" /\ LogOf(jobRow[j]) <= LogOf(row)
    <3>1. CASE row = [jobRow[j] EXCEPT !.status = "running"] /\ jobRow[j].status = "queued"
      BY <1>0, <3>1 DEF JobRows, LogOf, JobEnded
    <3>2. CASE row = [jobRow[j] EXCEPT !.artifact = TRUE] /\ jobRow[j].status = "running"
      <4>1. /\ row \in JobRows /\ row.status = "running" /\ row.type = jobRow[j].type
            /\ row.artifact
        BY <1>0, <3>2 DEF JobRows
      <4>2. LogOf(jobRow[j]) <= LogOf(row)
        <5>1. CASE row.type = "plan"
          BY <1>0, <4>1, <5>1, LogIs DEF LogOf
        <5>2. CASE row.type = "apply"
          BY <1>0, <3>2, <4>1, <5>2 DEF LogOf, JobEnded
        <5>. QED BY <1>0, <4>1, <5>1, <5>2
      <4>. QED BY <3>2, <4>1, <4>2
    <3>. QED BY <2>1, <3>1, <3>2
  <2>4. Grows(jobRow[j], row)
    BY <2>3 DEF Grows
  <2>. QED BY <1>0, <2>1, <2>2, <2>3, <2>4, RowSteps
<1>3. CASE JobEnds(j)
  <2>1. PICK status \in JobEnded : jobRow' = [jobRow EXCEPT ![j] = [jobRow[j] EXCEPT !.status = status]]
    BY <1>3 DEF JobEnds, JobEnded
  <2>2. /\ jobRow[j].status = "running" /\ UNCHANGED <<jobTab, jobSocket, jobLoads, jobCall>>
    BY <1>3 DEF JobEnds
  <2>. DEFINE row == [jobRow[j] EXCEPT !.status = status]
  <2>3. row \in JobRows /\ row.status # "absent" /\ LogOf(jobRow[j]) <= LogOf(row)
    BY <1>0, <2>1, <2>2 DEF JobRows, LogOf, JobEnded
  <2>4. jobRow' = [jobRow EXCEPT ![j] = row]
    BY <2>1
  <2>. HIDE DEF row
  <2>. QED BY <1>0, <2>2, <2>3, <2>4, RowSteps DEF Grows
<1>4. CASE JobServeApply(j)
  <2>. DEFINE row == DerivedApply(jobCall.job)
  <2>1. /\ jobCall.job \in Jobs /\ jobRow[j].status = "absent"
        /\ jobRow' = [jobRow EXCEPT ![j] = row]
        /\ jobCall' = [jobCall EXCEPT !.created = j]
        /\ UNCHANGED <<jobTab, jobSocket, jobLoads>>
    BY <1>0, <1>4 DEF JobServeApply
  <2>2. row \in JobRows /\ row.status = "queued" /\ LogOf(row) = 0
    BY <2>1 DEF DerivedApply, NoJobRow, JobRows, LogOf, JobEnded
  <2>3. LogOf(jobRow[j]) = 0
    BY <1>01, <2>1, NoRowIs
  <2>4. jobCall' \in [job : Jobs \union {NoJob}, created : Jobs \union {NoJob}]
        /\ jobCall'.created = j
    BY <1>0, <2>1
  <2>. HIDE DEF row
  <2>5. Grows(jobRow[j], row)
    BY <2>1, <2>2, <2>3 DEF Grows
  <2>. QED BY <2>1, <2>2, <2>3, <2>4, <2>5, RowSteps
<1>. QED BY <1>1, <1>2, <1>3, <1>4

\* The page goes to a job that is there, with a load and a socket of its own.
LEMMA VisitSteps ==
  ASSUME JobInv, NEW j \in Jobs, Posted(jobRow, j), UNCHANGED jobRow,
         jobTab' \in JobTabs, jobTab'.path = j,
         jobLoads' \subseteq jobLoads \union {NewJobLoad(j)},
         jobSocket' = [NoSocket EXCEPT !.state = "connecting"],
         jobCall' \in {jobCall, NoJobCall}
  PROVE  JobInv'
<1>1. NewJobLoad(j) \in JobLoadsOf /\ NewJobLoad(j).job = j /\ NewJobLoad(j).record = NoRecord
  BY DEF NewJobLoad, JobLoadsOf, PageRecords
<1>2. /\ jobSocket' \in JobSockets /\ jobSocket'.offset = 0 /\ jobSocket'.wire = NoMessage
      /\ jobSocket'.state # "closed"
  BY NoRowIs DEF JobSockets
<1>3. JobTyped'
  BY <1>1, <1>2, NoRowIs DEF JobInv, JobTyped
<1>4. LoadsPosted(jobRow', jobLoads')
  BY <1>1 DEF JobInv, LoadsPosted
<1>5. StreamFits(jobRow', jobTab'.path, jobSocket')
  <2>1. LogOf(jobRow[j]) \in 0 .. 1
    BY LogIs DEF JobInv, JobTyped
  <2>. QED BY <1>2, <2>1, JobAssumption DEF StreamFits
<1>6. RowsFit(jobRow') /\ Posted(jobRow', jobTab'.path) /\ Posted(jobRow', jobCall'.created)
  BY NoRowIs DEF JobInv, Posted
<1>. QED BY <1>3, <1>4, <1>5, <1>6 DEF JobInv

\* The page's own steps, which leave the rows alone and the path as it is.
LEMMA TabSteps ==
  ASSUME JobInv, UNCHANGED jobRow, jobTab' \in JobTabs, jobTab'.path = jobTab.path,
         jobSocket' \in JobSockets, StreamFits(jobRow, jobTab.path, jobSocket'),
         jobLoads' \subseteq JobLoadsOf, LoadsPosted(jobRow, jobLoads'),
         jobCall' \in [job : Jobs \union {NoJob}, created : Jobs \union {NoJob}],
         jobCall'.created \in {jobCall.created, NoJob}
  PROVE  JobInv'
<1>1. JobTyped'
  BY DEF JobInv, JobTyped
<1>2. Posted(jobRow', jobTab'.path) /\ Posted(jobRow', jobCall'.created)
  BY DEF JobInv, Posted
<1>. QED BY <1>1, <1>2 DEF JobInv

LEMMA StreamSteps ==
  ASSUME JobInv, SocketOpens \/ SocketCloses \/ Tick \/ OnMessage
  PROVE  JobInv'
<1>0. /\ jobRow \in [Jobs -> JobRows] /\ jobTab \in JobTabs /\ jobSocket \in JobSockets
      /\ jobLoads \subseteq JobLoadsOf
      /\ jobCall \in [job : Jobs \union {NoJob}, created : Jobs \union {NoJob}]
      /\ StreamFits(jobRow, jobTab.path, jobSocket) /\ LoadsPosted(jobRow, jobLoads)
      /\ Posted(jobRow, jobTab.path)
  BY DEF JobInv, JobTyped
<1>1. CASE SocketOpens
  <2>1. /\ jobSocket' \in JobSockets /\ jobSocket'.offset = jobSocket.offset
        /\ jobSocket'.wire = jobSocket.wire /\ jobSocket'.state # "closed"
        /\ jobSocket.state # "closed"
    BY <1>0, <1>1 DEF SocketOpens, JobSockets
  <2>2. StreamFits(jobRow, jobTab.path, jobSocket')
    BY <1>0, <2>1 DEF StreamFits
  <2>. QED BY <1>0, <1>1, <2>1, <2>2, TabSteps DEF SocketOpens
<1>2. CASE SocketCloses
  <2>1. StreamFits(jobRow, jobTab.path, NoSocket)
    BY NoRowIs DEF StreamFits
  <2>. QED BY <1>0, <1>2, <2>1, NoRowIs, TabSteps DEF SocketCloses
<1>3. CASE Tick
  <2>. DEFINE r == jobRow[jobTab.path]
              message == [status |-> IF r.status = jobSocket.told THEN "none" ELSE r.status,
                          more |-> LogOf(r) - jobSocket.offset]
  <2>1. /\ jobSocket.state # "closed"
        /\ jobSocket' = [jobSocket EXCEPT !.state = "subscribed", !.told = r.status,
                                          !.offset = LogOf(r), !.wire = message]
        /\ UNCHANGED <<jobRow, jobTab, jobLoads, jobCall>>
    BY <1>3 DEF Tick
  <2>2. jobTab.path \in Jobs /\ r \in JobRows /\ r.status # "absent"
        /\ jobSocket.offset <= LogOf(r)
    BY <1>0, <2>1, JobAssumption DEF StreamFits, Posted, JobTabs
  <2>3. LogOf(r) \in 0 .. 1 /\ jobSocket.offset \in 0 .. 1
    BY <1>0, <2>2, LogIs DEF JobSockets
  <2>4. LogOf(r) - jobSocket.offset \in 0 .. 1
    BY <2>2, <2>3
  <2>5. r.status \in JobStatuses
    BY <2>2 DEF JobRows, JobStatuses
  <2>6. message \in JobMessages
    BY <2>2, <2>4, <2>5 DEF JobMessages, JobRows
  <2>. HIDE DEF r, message
  <2>7. /\ jobSocket' \in JobSockets /\ jobSocket'.offset = LogOf(r)
        /\ jobSocket'.state # "closed"
    BY <1>0, <2>1, <2>3, <2>5, <2>6 DEF JobSockets
  <2>8. StreamFits(jobRow, jobTab.path, jobSocket')
    BY <2>2, <2>3, <2>7, JobAssumption DEF StreamFits, r
  <2>. QED BY <1>0, <2>1, <2>7, <2>8, TabSteps
<1>4. CASE OnMessage
  <2>. DEFINE m == jobSocket.wire
              told == m.status # "none"
              record == [jobTab EXCEPT !.shown.row.status =
                           IF told /\ jobTab.shown # NoRecord THEN m.status ELSE @].shown
              status == IF told THEN m.status ELSE jobTab.status
  <2>1. /\ m # NoMessage
        /\ jobTab' = [jobTab EXCEPT
             !.status = IF told THEN m.status ELSE @,
             !.shown.row.status = IF told /\ jobTab.shown # NoRecord THEN m.status ELSE @]
        /\ jobSocket' = [jobSocket EXCEPT !.wire = NoMessage]
        /\ UNCHANGED <<jobRow, jobLoads, jobCall>>
    BY <1>4 DEF OnMessage
  <2>2. m \in JobMessages /\ jobTab.path \in Jobs
    BY <1>0, <2>1, JobAssumption DEF JobSockets, StreamFits, JobTabs
  <2>3. status \in JobStatuses
    BY <1>0, <2>2 DEF JobMessages, JobStatuses, JobTabs
  <2>5. /\ record \in PageRecords
        /\ jobTab' = [jobTab EXCEPT !.status = status, !.shown = record]
    <3>1. CASE told /\ jobTab.shown # NoRecord
      <4>1. jobTab.shown \in JobRecords /\ m.status \in {"queued", "running"} \union JobEnded
        BY <1>0, <2>2, <3>1 DEF JobTabs, PageRecords, JobMessages
      <4>2. /\ record = [jobTab.shown EXCEPT !.row = [jobTab.shown.row EXCEPT !.status = m.status]]
            /\ jobTab' = [jobTab EXCEPT !.status = status,
                 !.shown = [jobTab.shown EXCEPT !.row = [jobTab.shown.row EXCEPT !.status = m.status]]]
        BY <1>0, <2>1, <3>1 DEF JobTabs
      <4>3. [jobTab.shown.row EXCEPT !.status = m.status] \in JobRows
        BY <4>1 DEF JobRecords, JobRows
      <4>4. record \in JobRecords
        BY <4>1, <4>2, <4>3 DEF JobRecords
      <4>. QED BY <4>2, <4>4 DEF PageRecords
    <3>2. CASE ~(told /\ jobTab.shown # NoRecord)
      <4>1. /\ jobTab.shown \in PageRecords
            /\ jobTab.shown = [id |-> jobTab.shown.id, row |-> jobTab.shown.row]
            /\ jobTab.shown.row \in JobRows
        BY <1>0, NoRowIs DEF JobTabs, PageRecords, JobRecords, NoRecord
      <4>2. [jobTab.shown EXCEPT !.row = [jobTab.shown.row EXCEPT !.status = jobTab.shown.row.status]]
              = jobTab.shown
        BY <4>1 DEF JobRows
      <4>3. /\ record = [jobTab.shown EXCEPT !.row =
                           [jobTab.shown.row EXCEPT !.status = jobTab.shown.row.status]]
            /\ jobTab' = [jobTab EXCEPT !.status = status,
                 !.shown = [jobTab.shown EXCEPT !.row =
                              [jobTab.shown.row EXCEPT !.status = jobTab.shown.row.status]]]
        BY <1>0, <2>1, <3>2 DEF JobTabs
      <4>. QED BY <4>1, <4>2, <4>3
    <3>. QED BY <3>1, <3>2
  <2>. HIDE DEF m, told, record, status
  <2>6. jobTab' \in JobTabs /\ jobTab'.path = jobTab.path
    BY <1>0, <2>3, <2>5 DEF JobTabs
  <2>7. /\ jobSocket' \in JobSockets /\ jobSocket'.offset = jobSocket.offset
        /\ jobSocket'.state = jobSocket.state /\ jobSocket'.wire = NoMessage
    BY <1>0, <2>1, NoRowIs DEF JobSockets
  <2>8. StreamFits(jobRow, jobTab.path, jobSocket')
    BY <1>0, <2>7 DEF StreamFits
  <2>. QED BY <1>0, <2>1, <2>6, <2>7, <2>8, TabSteps
<1>. QED BY <1>1, <1>2, <1>3, <1>4

LEMMA JobLoadSteps ==
  ASSUME JobInv, NEW l \in jobLoads, JobRead(l) \/ JobLoaded(l) \/ JobLoadFails(l)
  PROVE  JobInv'
<1>0. /\ jobRow \in [Jobs -> JobRows] /\ jobTab \in JobTabs /\ jobSocket \in JobSockets
      /\ jobLoads \subseteq JobLoadsOf /\ l \in JobLoadsOf
      /\ jobCall \in [job : Jobs \union {NoJob}, created : Jobs \union {NoJob}]
      /\ StreamFits(jobRow, jobTab.path, jobSocket) /\ LoadsPosted(jobRow, jobLoads)
      /\ Posted(jobRow, l.job) /\ l.job \in Jobs
  BY DEF JobInv, JobTyped, LoadsPosted, JobLoadsOf
<1>1. CASE JobRead(l)
  <2>. DEFINE read == [l EXCEPT !.record = RecordOf(l.job)]
  <2>2. RecordOf(l.job) \in JobRecords /\ RecordOf(l.job).row.status # "absent"
    BY <1>0, RecordIs
  <2>4. jobLoads' = (jobLoads \ {l}) \union {read}
    BY <1>1 DEF JobRead
  <2>5. read \in JobLoadsOf /\ read.job = l.job /\ read.record = RecordOf(l.job)
    BY <1>0, <2>2 DEF JobLoadsOf, PageRecords
  <2>. HIDE DEF read
  <2>6. jobLoads' \subseteq JobLoadsOf /\ LoadsPosted(jobRow, jobLoads')
    BY <1>0, <2>2, <2>4, <2>5 DEF LoadsPosted
  <2>. QED BY <1>0, <1>1, <2>6, TabSteps DEF JobRead
<1>2. CASE JobLoaded(l)
  <2>2. jobTab' = [jobTab EXCEPT !.shown = l.record, !.status = l.record.row.status]
    BY <1>2 DEF JobLoaded
  <2>3. l.record \in JobRecords /\ l.record.row.status # "absent"
    BY <1>0, <1>2 DEF JobLoaded, LoadsPosted, JobLoadsOf, PageRecords
  <2>4. l.record.row.status \in JobStatuses
    BY <2>3 DEF JobRecords, JobRows, JobStatuses
  <2>5. jobTab' \in JobTabs /\ jobTab'.path = jobTab.path
    BY <1>0, <2>2, <2>3, <2>4 DEF JobTabs, PageRecords
  <2>6. /\ jobLoads' \subseteq JobLoadsOf /\ LoadsPosted(jobRow, jobLoads')
        /\ UNCHANGED <<jobRow, jobSocket, jobCall>>
    BY <1>0, <1>2 DEF JobLoaded, LoadsPosted
  <2>. QED BY <1>0, <2>5, <2>6, TabSteps
<1>3. CASE JobLoadFails(l)
  <2>1. /\ jobLoads' \subseteq JobLoadsOf /\ LoadsPosted(jobRow, jobLoads')
        /\ UNCHANGED <<jobRow, jobTab, jobSocket, jobCall>>
    BY <1>0, <1>3 DEF JobLoadFails, LoadsPosted
  <2>. QED BY <1>0, <2>1, TabSteps
<1>. QED BY <1>1, <1>2, <1>3

LEMMA StepJob == JobInv /\ [JobNext]_jobVars => JobInv'
<1>. SUFFICES ASSUME JobInv, [JobNext]_jobVars PROVE JobInv'
  OBVIOUS
<1>0. /\ jobRow \in [Jobs -> JobRows] /\ jobTab \in JobTabs /\ jobSocket \in JobSockets
      /\ jobLoads \subseteq JobLoadsOf
      /\ jobCall \in [job : Jobs \union {NoJob}, created : Jobs \union {NoJob}]
      /\ StreamFits(jobRow, jobTab.path, jobSocket) /\ LoadsPosted(jobRow, jobLoads)
      /\ Posted(jobRow, jobTab.path) /\ Posted(jobRow, jobCall.created)
  BY DEF JobInv, JobTyped
<1>1. ASSUME NEW j \in Jobs, JobPosted(j) \/ JobRuns(j) \/ JobEnds(j) \/ JobServeApply(j)
      PROVE  JobInv'
  BY <1>1, RowActions
<1>2. ASSUME NEW j \in Jobs, JobOpen(j) PROVE JobInv'
  <2>1. /\ jobTab' = [Unmounted EXCEPT !.path = j] /\ jobLoads' = {NewJobLoad(j)}
        /\ jobSocket' = [NoSocket EXCEPT !.state = "connecting"]
        /\ UNCHANGED <<jobRow, jobCall>> /\ Posted(jobRow, j)
    BY <1>2 DEF JobOpen, Posted
  <2>2. jobTab' \in JobTabs /\ jobTab'.path = j
    BY <2>1, NoRowIs DEF JobTabs
  <2>. QED BY <2>1, <2>2, VisitSteps
<1>3. ASSUME NEW j \in Jobs, JobFollow(j) PROVE JobInv'
  <2>1. /\ jobTab' = [jobTab EXCEPT !.path = j] /\ jobLoads' = jobLoads \union {NewJobLoad(j)}
        /\ jobSocket' = [NoSocket EXCEPT !.state = "connecting"]
        /\ UNCHANGED <<jobRow, jobCall>> /\ Posted(jobRow, j)
    BY <1>3 DEF JobFollow, Visit, Posted
  <2>2. jobTab' \in JobTabs /\ jobTab'.path = j
    BY <1>0, <2>1 DEF JobTabs
  <2>. QED BY <2>1, <2>2, VisitSteps
<1>4. CASE JobLeave
  <2>1. /\ jobTab' = Unmounted /\ jobSocket' = NoSocket /\ jobLoads' = {}
        /\ UNCHANGED <<jobRow, jobCall>>
    BY <1>4 DEF JobLeave
  <2>2. JobTyped'
    BY <1>0, <2>1, NoRowIs DEF JobTyped
  <2>3. /\ Posted(jobRow', jobTab'.path) /\ LoadsPosted(jobRow', jobLoads')
        /\ StreamFits(jobRow', jobTab'.path, jobSocket')
    BY <2>1, NoRowIs DEF Posted, LoadsPosted, StreamFits
  <2>. QED BY <2>1, <2>2, <2>3 DEF JobInv
<1>5. CASE SocketOpens \/ SocketCloses \/ Tick \/ OnMessage
  BY <1>5, StreamSteps
<1>6. CASE JobRefresh
  <2>1. /\ jobTab.path \in Jobs /\ jobLoads' = jobLoads \union {NewJobLoad(jobTab.path)}
        /\ UNCHANGED <<jobRow, jobTab, jobSocket, jobCall>>
    BY <1>0, <1>6 DEF JobRefresh, JobTabs
  <2>2. /\ NewJobLoad(jobTab.path) \in JobLoadsOf /\ NewJobLoad(jobTab.path).job = jobTab.path
        /\ NewJobLoad(jobTab.path).record = NoRecord
    BY <2>1 DEF NewJobLoad, JobLoadsOf, PageRecords
  <2>3. jobLoads' \subseteq JobLoadsOf /\ LoadsPosted(jobRow, jobLoads')
    BY <1>0, <2>1, <2>2 DEF LoadsPosted
  <2>. QED BY <1>0, <2>1, <2>3, TabSteps
<1>7. CASE JobApply
  <2>1. /\ jobTab.shown # NoRecord /\ jobTab' = [jobTab EXCEPT !.applying = TRUE]
        /\ jobCall' = [NoJobCall EXCEPT !.job = jobTab.shown.id]
        /\ UNCHANGED <<jobRow, jobSocket, jobLoads>>
    BY <1>7 DEF JobApply, OffersJobApply
  <2>2. jobTab.shown.id \in Jobs
    BY <1>0, <2>1 DEF JobTabs, PageRecords, JobRecords
  <2>3. /\ jobCall' \in [job : Jobs \union {NoJob}, created : Jobs \union {NoJob}]
        /\ jobCall'.created = NoJob
    BY <2>1, <2>2, NoRowIs
  <2>4. jobTab' \in JobTabs /\ jobTab'.path = jobTab.path
    BY <1>0, <2>1 DEF JobTabs
  <2>. QED BY <1>0, <2>1, <2>3, <2>4, TabSteps
<1>8. CASE JobCreated
  <2>1. PICK tab \in {Unmounted, jobTab} :
          jobTab' = [tab EXCEPT !.path = jobCall.created, !.applying = FALSE]
    BY <1>8 DEF JobCreated
  <2>2. jobCall.created \in Jobs
    BY <1>0, <1>8 DEF JobCreated
  <2>3. tab \in JobTabs
    BY <1>0, <2>1, NoRowIs
  <2>4. jobTab' \in JobTabs /\ jobTab'.path = jobCall.created
    BY <2>1, <2>2, <2>3 DEF JobTabs
  <2>. QED BY <1>0, <1>8, <2>2, <2>4, VisitSteps DEF JobCreated, Visit
<1>9. CASE JobApplyFails
  <2>1. /\ jobTab' = [jobTab EXCEPT !.applying = FALSE] /\ jobCall' = NoJobCall
        /\ UNCHANGED <<jobRow, jobSocket, jobLoads>>
    BY <1>9 DEF JobApplyFails
  <2>2. jobTab' \in JobTabs /\ jobTab'.path = jobTab.path
    BY <1>0, <2>1 DEF JobTabs
  <2>. QED BY <1>0, <2>1, <2>2, NoRowIs, TabSteps
<1>10. ASSUME NEW l \in jobLoads, JobRead(l) \/ JobLoaded(l) \/ JobLoadFails(l) PROVE JobInv'
  BY <1>10, JobLoadSteps
<1>11. CASE UNCHANGED jobVars
  BY <1>11 DEF jobVars, JobInv, JobTyped
<1>. QED BY <1>1, <1>2, <1>3, <1>4, <1>5, <1>6, <1>7, <1>8, <1>9, <1>10, <1>11 DEF JobNext

-----------------------------------------------------------------------------
(* What the job page offers to apply *)

\* A record the page was given was true when it was read: the job is there, its type
\* is the record's, and an artifact the record has the job still has.
Describes(record, rows) ==
  record # NoRecord =>
    /\ rows[record.id].status # "absent" /\ rows[record.id].type = record.row.type
    /\ record.row.artifact => rows[record.id].artifact

\* Where the record says done, the job is.
DoneIsDone(record, rows) ==
  record # NoRecord /\ record.row.status = "done" => rows[record.id].status = "done"

\* What the stream told is true of the path's job, and was told in full.
Heard == jobSocket.told # "none" /\ jobSocket.wire.status = "none"

OfferInv ==
  /\ Describes(jobTab.shown, jobRow)
  /\ \A l \in jobLoads : Describes(l.record, jobRow) /\ DoneIsDone(l.record, jobRow)
  /\ jobSocket.told = "done" => jobTab.path \in Jobs /\ jobRow[jobTab.path].status = "done"
  /\ jobSocket.wire.status \in {"none", jobSocket.told}
  /\ Heard /\ jobTab.shown.id = jobTab.path => DoneIsDone(jobTab.shown, jobRow)

LEMMA InitOffer == JobInit => OfferInv
BY DEF JobInit, OfferInv, Unmounted, NoSocket, NoMessage, Describes, DoneIsDone, Heard

\* Nothing a record tells of a job is taken back.
RowsGrow ==
  \A j \in Jobs : jobRow[j].status # "absent" =>
    /\ jobRow'[j].status # "absent" /\ jobRow'[j].type = jobRow[j].type
    /\ jobRow[j].artifact => jobRow'[j].artifact
    /\ jobRow[j].status = "done" => jobRow'[j].status = "done"

LEMMA RowsOnlyGrow ==
  ASSUME JobInv, NEW j \in Jobs, JobPosted(j) \/ JobRuns(j) \/ JobEnds(j) \/ JobServeApply(j)
  PROVE  RowsGrow
<1>0. jobRow \in [Jobs -> JobRows] /\ jobRow[j] \in JobRows
  BY DEF JobInv, JobTyped
<1>1. PICK row : /\ jobRow' = [jobRow EXCEPT ![j] = row]
                 /\ jobRow[j].status # "absent" =>
                      /\ row.status # "absent" /\ row.type = jobRow[j].type
                      /\ jobRow[j].artifact => row.artifact
                      /\ jobRow[j].status # "done"
  <2>1. CASE JobPosted(j)
    BY <2>1 DEF JobPosted
  <2>2. CASE JobRuns(j)
    <3>1. CASE /\ jobRow[j].status = "queued"
               /\ jobRow' = [jobRow EXCEPT ![j].status = "running"]
      <4>. DEFINE row == [jobRow[j] EXCEPT !.status = "running"]
      <4>1. jobRow' = [jobRow EXCEPT ![j] = row]
        BY <3>1
      <4>2. /\ row.status # "absent" /\ row.type = jobRow[j].type
            /\ row.artifact = jobRow[j].artifact
        BY <1>0 DEF JobRows
      <4>. QED BY <3>1, <4>1, <4>2
    <3>2. CASE /\ jobRow[j].status = "running"
               /\ jobRow' = [jobRow EXCEPT ![j].artifact = TRUE]
      <4>. DEFINE row == [jobRow[j] EXCEPT !.artifact = TRUE]
      <4>1. jobRow' = [jobRow EXCEPT ![j] = row]
        BY <3>2
      <4>2. row.status # "absent" /\ row.type = jobRow[j].type /\ row.artifact
        BY <1>0, <3>2 DEF JobRows
      <4>. QED BY <3>2, <4>1, <4>2
    <3>. QED BY <2>2, <3>1, <3>2 DEF JobRuns
  <2>3. CASE JobEnds(j)
    <3>1. PICK status \in JobEnded : jobRow' = [jobRow EXCEPT ![j].status = status]
      BY <2>3 DEF JobEnds, JobEnded
    <3>. DEFINE row == [jobRow[j] EXCEPT !.status = status]
    <3>2. jobRow[j].status = "running" /\ jobRow' = [jobRow EXCEPT ![j] = row]
      BY <2>3, <3>1 DEF JobEnds
    <3>3. /\ row.status # "absent" /\ row.type = jobRow[j].type
          /\ row.artifact = jobRow[j].artifact
      BY <1>0, <3>1 DEF JobRows, JobEnded
    <3>. QED BY <3>2, <3>3
  <2>4. CASE JobServeApply(j)
    BY <2>4 DEF JobServeApply
  <2>. QED BY <2>1, <2>2, <2>3, <2>4
<1>. QED BY <1>0, <1>1 DEF RowsGrow

\* Routes and the runner make no record and no message untrue.
LEMMA OffersOverRows ==
  ASSUME JobInv, OfferInv, RowsGrow, UNCHANGED <<jobTab, jobSocket, jobLoads>>
  PROVE  OfferInv'
<1>1. /\ jobTab.shown \in PageRecords /\ jobTab.path \in Jobs \union {NoJob}
      /\ \A l \in jobLoads : l.record \in PageRecords
  BY DEF JobInv, JobTyped, JobTabs, JobLoadsOf
<1>2. ASSUME NEW record \in PageRecords, Describes(record, jobRow)
      PROVE  /\ Describes(record, jobRow')
             /\ DoneIsDone(record, jobRow) => DoneIsDone(record, jobRow')
  BY <1>2 DEF Describes, DoneIsDone, RowsGrow, PageRecords, JobRecords
<1>3. jobSocket.told = "done" => jobTab.path \in Jobs /\ jobRow'[jobTab.path].status = "done"
  BY DEF OfferInv, RowsGrow
<1>. QED BY <1>1, <1>2, <1>3 DEF OfferInv, Heard

\* A page that goes elsewhere hears a new stream.
LEMMA OffersOnVisit ==
  ASSUME OfferInv, UNCHANGED jobRow, jobTab'.shown \in {jobTab.shown, NoRecord},
         \A l \in jobLoads' : l \in jobLoads \/ l.record = NoRecord,
         jobSocket'.told = "none", jobSocket'.wire = NoMessage
  PROVE  OfferInv'
BY DEF OfferInv, Heard, Describes, DoneIsDone, NoMessage

LEMMA OfferSteps == JobInv /\ OfferInv /\ [JobNext]_jobVars => OfferInv'
<1>. SUFFICES ASSUME JobInv, OfferInv, [JobNext]_jobVars PROVE OfferInv'
  OBVIOUS
<1>0. /\ jobRow \in [Jobs -> JobRows] /\ jobTab \in JobTabs /\ jobSocket \in JobSockets
      /\ jobLoads \subseteq JobLoadsOf
      /\ StreamFits(jobRow, jobTab.path, jobSocket) /\ LoadsPosted(jobRow, jobLoads)
      /\ Posted(jobRow, jobTab.path)
  BY DEF JobInv, JobTyped
<1>1. ASSUME NEW j \in Jobs, JobPosted(j) \/ JobRuns(j) \/ JobEnds(j) \/ JobServeApply(j)
      PROVE  OfferInv'
  BY <1>1, RowsOnlyGrow, OffersOverRows DEF JobPosted, JobRuns, JobEnds, JobServeApply
<1>2. ASSUME NEW j \in Jobs, JobOpen(j) \/ JobFollow(j) PROVE OfferInv'
  <2>1. jobTab'.shown \in {jobTab.shown, NoRecord} /\ UNCHANGED jobRow
    BY <1>0, <1>2 DEF JobOpen, JobFollow, JobTabs, Unmounted
  <2>2. jobSocket'.told = "none" /\ jobSocket'.wire = NoMessage
    BY <1>2 DEF JobOpen, JobFollow, Visit, NoSocket
  <2>3. \A l \in jobLoads' : l \in jobLoads \/ l.record = NoRecord
    BY <1>2 DEF JobOpen, JobFollow, Visit, NewJobLoad
  <2>. QED BY <2>1, <2>2, <2>3, OffersOnVisit
<1>3. CASE JobLeave
  BY <1>3, OffersOnVisit DEF JobLeave, Unmounted, NoSocket
<1>4. CASE JobCreated
  <2>1. PICK tab \in {Unmounted, jobTab} :
          jobTab' = [tab EXCEPT !.path = jobCall.created, !.applying = FALSE]
    BY <1>4 DEF JobCreated
  <2>2. jobTab'.shown = tab.shown
    BY <1>0, <2>1 DEF JobTabs, Unmounted
  <2>3. jobTab'.shown \in {jobTab.shown, NoRecord}
    BY <2>1, <2>2 DEF Unmounted
  <2>4. /\ UNCHANGED jobRow /\ jobSocket'.told = "none" /\ jobSocket'.wire = NoMessage
        /\ \A l \in jobLoads' : l \in jobLoads \/ l.record = NoRecord
    BY <1>4 DEF JobCreated, Visit, NoSocket, NewJobLoad
  <2>. QED BY <2>3, <2>4, OffersOnVisit
<1>5. CASE SocketOpens
  <2>1. /\ jobSocket'.told = jobSocket.told /\ jobSocket'.wire = jobSocket.wire
        /\ UNCHANGED <<jobRow, jobTab, jobLoads>>
    BY <1>0, <1>5 DEF SocketOpens, JobSockets
  <2>. QED BY <2>1 DEF OfferInv, Heard
<1>6. CASE SocketCloses
  BY <1>6, OffersOnVisit DEF SocketCloses, NoSocket
<1>7. CASE Tick
  <2>. DEFINE r == jobRow[jobTab.path]
  <2>1. /\ jobSocket'.told = r.status
        /\ jobSocket'.wire.status = IF r.status = jobSocket.told THEN "none" ELSE r.status
        /\ jobSocket.wire = NoMessage /\ jobSocket.state # "closed"
        /\ UNCHANGED <<jobRow, jobTab, jobLoads>>
    BY <1>0, <1>7 DEF Tick, JobSockets
  <2>2. jobTab.path \in Jobs /\ r.status # "none"
    BY <1>0, <2>1, JobAssumption DEF StreamFits, JobTabs, JobRows, JobEnded
  <2>. HIDE DEF r
  <2>3. Heard' => Heard
    BY <2>1, <2>2 DEF Heard, NoMessage
  <2>4. jobSocket'.told = "done" => jobTab.path \in Jobs /\ jobRow[jobTab.path].status = "done"
    BY <2>1, <2>2 DEF r
  <2>. QED BY <2>1, <2>3, <2>4 DEF OfferInv
<1>8. CASE OnMessage
  <2>. DEFINE m == jobSocket.wire
              told == m.status # "none"
  <2>1. /\ jobTab'.path = jobTab.path
        /\ jobTab'.shown = [jobTab.shown EXCEPT !.row.status =
                              IF told /\ jobTab.shown # NoRecord THEN m.status ELSE @]
        /\ jobSocket'.told = jobSocket.told /\ jobSocket'.wire = NoMessage
        /\ UNCHANGED <<jobRow, jobLoads>>
    BY <1>0, <1>8 DEF OnMessage, JobTabs, JobSockets
  <2>2. jobTab.shown \in PageRecords
    BY <1>0 DEF JobTabs
  <2>3. CASE told /\ jobTab.shown # NoRecord
    <3>1. jobTab.shown \in JobRecords
      BY <2>2, <2>3 DEF PageRecords
    <3>2. /\ jobTab'.shown.id = jobTab.shown.id /\ jobTab'.shown.row.status = m.status
          /\ jobTab'.shown.row.type = jobTab.shown.row.type
          /\ jobTab'.shown.row.artifact = jobTab.shown.row.artifact
      BY <2>1, <2>3, <3>1 DEF JobRecords, JobRows
    <3>3. Describes(jobTab'.shown, jobRow)
      BY <2>3, <3>2 DEF OfferInv, Describes
    <3>4. jobTab'.shown.id = jobTab.path => DoneIsDone(jobTab'.shown, jobRow)
      BY <2>3, <3>2 DEF OfferInv, DoneIsDone
    <3>. QED BY <2>1, <3>3, <3>4 DEF OfferInv, NoMessage
  <2>4. CASE ~(told /\ jobTab.shown # NoRecord)
    <3>1. jobTab'.shown = jobTab.shown
      <4>1. jobTab.shown.row \in JobRows
            /\ jobTab.shown = [id |-> jobTab.shown.id, row |-> jobTab.shown.row]
        BY <2>2, NoRowIs DEF PageRecords, JobRecords, NoRecord
      <4>2. jobTab'.shown = [jobTab.shown EXCEPT !.row.status = jobTab.shown.row.status]
        BY <2>1, <2>4
      <4>3. jobTab'.shown = [jobTab.shown EXCEPT !.row =
                              [jobTab.shown.row EXCEPT !.status = jobTab.shown.row.status]]
        BY <4>2
      <4>. QED BY <4>1, <4>3 DEF JobRows
    <3>2. Heard' /\ jobTab.shown # NoRecord => Heard
      BY <2>1, <2>4 DEF Heard
    <3>3. DoneIsDone(NoRecord, jobRow)
      BY DEF DoneIsDone
    <3>4. Heard' /\ jobTab.shown.id = jobTab.path => DoneIsDone(jobTab.shown, jobRow)
      BY <3>2, <3>3 DEF OfferInv
    <3>. QED BY <2>1, <3>1, <3>4 DEF OfferInv, NoMessage
  <2>. QED BY <2>3, <2>4
<1>9. CASE JobRefresh
  <2>1. /\ UNCHANGED <<jobRow, jobTab, jobSocket>>
        /\ \A l \in jobLoads' : l \in jobLoads \/ l.record = NoRecord
    BY <1>9 DEF JobRefresh, NewJobLoad
  <2>. QED BY <2>1 DEF OfferInv, Heard, Describes, DoneIsDone
<1>10. CASE JobApply \/ JobApplyFails
  <2>1. /\ UNCHANGED <<jobRow, jobSocket, jobLoads>>
        /\ jobTab'.shown = jobTab.shown /\ jobTab'.path = jobTab.path
    BY <1>0, <1>10 DEF JobApply, JobApplyFails, JobTabs
  <2>. QED BY <2>1 DEF OfferInv, Heard
<1>11. ASSUME NEW l \in jobLoads, JobRead(l) PROVE OfferInv'
  <2>1. /\ UNCHANGED <<jobRow, jobTab, jobSocket>>
        /\ l \in JobLoadsOf /\ Posted(jobRow, l.job) /\ l.job \in Jobs
    BY <1>0, <1>11 DEF JobRead, JobLoadsOf, LoadsPosted
  <2>2. \A k \in jobLoads' : k \in jobLoads \/ k.record = RecordOf(l.job)
    BY <1>11, <2>1 DEF JobRead, JobLoadsOf
  <2>3. /\ RecordOf(l.job).id = l.job
        /\ RecordOf(l.job).row.status = jobRow[l.job].status
        /\ RecordOf(l.job).row.type = jobRow[l.job].type
        /\ RecordOf(l.job).row.artifact = jobRow[l.job].artifact
    BY <1>0, <2>1 DEF RecordOf, JobRows
  <2>4. jobRow[l.job].status # "absent"
    BY <2>1, JobAssumption DEF Posted
  <2>5. Describes(RecordOf(l.job), jobRow) /\ DoneIsDone(RecordOf(l.job), jobRow)
    BY <2>3, <2>4 DEF Describes, DoneIsDone
  <2>. QED BY <2>1, <2>2, <2>5 DEF OfferInv, Heard
<1>12. ASSUME NEW l \in jobLoads, JobLoaded(l) PROVE OfferInv'
  <2>1. /\ UNCHANGED <<jobRow, jobSocket>> /\ jobLoads' \subseteq jobLoads
        /\ jobTab'.shown = l.record /\ jobTab'.path = jobTab.path
    BY <1>0, <1>12 DEF JobLoaded, JobTabs
  <2>. QED BY <2>1 DEF OfferInv, Heard
<1>13. ASSUME NEW l \in jobLoads, JobLoadFails(l) PROVE OfferInv'
  BY <1>13 DEF JobLoadFails, OfferInv, Heard
<1>14. CASE UNCHANGED jobVars
  BY <1>14 DEF jobVars, OfferInv, Heard
<1>. QED BY <1>1, <1>2, <1>3, <1>4, <1>5, <1>6, <1>7, <1>8, <1>9, <1>10, <1>11, <1>12, <1>13,
            <1>14 DEF JobNext

-----------------------------------------------------------------------------
(* The mounted page *)

\* Each page's invariant, whichever page is mounted.
WebInv == JobInv /\ OfferInv /\ FormInv /\ CreateInv /\ CatalogInv /\ ListInv

\* A step is a step of the mounted page, and the others rest.
LEMMA MountedSteps ==
  [WebNext]_webVars =>
    /\ [JobNext]_jobVars /\ [FormNext]_formSpec /\ [CreateNext]_createVars
    /\ [CatalogNext]_catalogVars /\ [ListNext]_listVars
<1>. SUFFICES ASSUME [WebNext]_webVars
              PROVE  /\ [JobNext]_jobVars /\ [FormNext]_formSpec /\ [CreateNext]_createVars
                     /\ [CatalogNext]_catalogVars /\ [ListNext]_listVars
  OBVIOUS
<1>1. CASE OnJob(JobNext)
  BY <1>1 DEF OnJob
<1>2. CASE OnForm(FormNext)
  BY <1>2 DEF OnForm
<1>3. CASE OnCreate(CreateNext)
  BY <1>3 DEF OnCreate
<1>4. CASE OnCatalog(CatalogNext)
  BY <1>4 DEF OnCatalog
<1>5. CASE OnList(ListNext)
  BY <1>5 DEF OnList
<1>6. CASE UNCHANGED webVars
  BY <1>6 DEF webVars
<1>. QED BY <1>1, <1>2, <1>3, <1>4, <1>5, <1>6 DEF WebNext

\* Every page keeps its invariant: what follows about the pages follows from it.
THEOREM WebInvariant == WebSpec => []WebInv
<1>1. WebInit => WebInv
  BY InitJob, InitOffer, InitForm, InitCreate, InitCatalog, InitList DEF WebInit, WebInv
<1>2. WebInv /\ [WebNext]_webVars => WebInv'
  BY MountedSteps, StepJob, OfferSteps, StepForm, StepCreate, StepCatalog, StepList DEF WebInv
<1>. QED BY <1>1, <1>2, PTL DEF WebSpec

\* The state of every page has its type: in particular the stream never sends less
\* than nothing of a log (ws.go's offset is at most the file's size), and no overview
\* is shown that the server has not had.
THEOREM PageTypes == WebSpec => []WebTypeOK
<1>1. WebInv => WebTypeOK
  <2>. SUFFICES ASSUME WebInv PROVE WebTypeOK
    OBVIOUS
  <2>1. JobTypeOK /\ FormTypeOK
    BY JobInvIs DEF WebInv, FormInv
  <2>2. CreateTypeOK
    BY DEF WebInv, CreateInv, CreateTypeOK, CreateTabs, Previews
  <2>3. CatalogTypeOK
    BY DEF WebInv, CatalogInv
  <2>4. ListTypeOK
    BY DEF WebInv, ListInv, ListTyped, ListTypeOK, ListTabs, UserCalls
  <2>. QED BY <2>1, <2>2, <2>3, <2>4 DEF WebTypeOK
<1>. QED BY <1>1, WebInvariant, PTL

\* Once the stream of the path's job has spoken and was heard, the job page offers to
\* apply that job only if handleApply (jobs.go) would derive an apply of it, whatever
\* other job's status was merged into its record before (JobDetail.tsx: onmessage
\* merges into whatever is shown) and however late a load arrives: a status is told
\* anew to every new subscription (ws.go).
THEOREM OffersAreSound == WebSpec => []ApplyOfferIsSound
<1>1. WebInv => ApplyOfferIsSound
  <2>. SUFFICES ASSUME JobInv, OfferInv, OffersJobApply, jobTab.shown.id = jobTab.path, Heard
                PROVE  CanDeriveApply(jobRow[jobTab.path])
    BY DEF WebInv, ApplyOfferIsSound, Heard
  <2>. QED BY DEF OfferInv, OffersJobApply, CanDeriveApply, Describes, DoneIsDone
<1>. QED BY <1>1, WebInvariant, PTL

\* A spec that ValidateEnvironmentSpec accepts has its subnet inside its network and
\* its gateway inside its subnet, for every width of an address.
THEOREM NetworksAreNested == WebSpec => []AcceptedNetworksNest
<1>1. WebInv => AcceptedNetworksNest
  BY NetworksNest DEF WebInv
<1>. QED BY <1>1, WebInvariant, PTL

\* The wizard's validator, with its 32-bit shifts (environmentValidation.ts), and the
\* server's, with netip (validation/environment.go), accept the same specs for every
\* width of an address and one or two groups of instances, lenient texts, fractional
\* counts and blank key names apart.
THEOREM ValidatorsAreOne == WebSpec => []ValidatorsAgree
<1>1. WebInv => ValidatorsAgree
  BY AgreeOn DEF WebInv, FormInv, FormTypeOK, ValidatorsAgree
<1>. QED BY <1>1, WebInvariant, PTL

\* The wizard creates the spec and the template of the review on the screen
\* (CreateEnvironment.tsx: the effect's clean-up cancels a review that is not of them).
THEOREM ReviewIsCreated == WebSpec => []CreatesWhatWasReviewed
<1>1. WebInv => CreatesWhatWasReviewed
  BY DEF WebInv, CreateInv, CreatesWhatWasReviewed
<1>. QED BY <1>1, WebInvariant, PTL

\* The server refuses nothing that the wizard's button sends: the review, computed
\* by the server, stops what the wizard's own validator lets through.
THEOREM ReviewIsAccepted == WebSpec => []CreateIsAccepted
<1>1. WebInv => CreateIsAccepted
  BY DEF WebInv, CreateInv, CreateIsAccepted
<1>. QED BY <1>1, WebInvariant, PTL

\* The verdict on a connection is of the connection checked last (Providers.tsx:
\* a check disables the others).
THEOREM PreflightAnswers == WebSpec => []PreflightAnswersTheQuestion
<1>1. WebInv => PreflightAnswersTheQuestion
  BY DEF WebInv, CatalogInv, PreflightInv, Fits, PreflightAnswersTheQuestion
<1>. QED BY <1>1, WebInvariant, PTL

\* The guided start never replaces an overview by an older one: its effect's clean-up
\* leaves one load that may still show something, and that one asked last
\* (GuidedStart.tsx).
THEOREM OverviewMovesOn == WebSpec => OverviewNeverStepsBack
<1>1. WebInv /\ [WebNext]_webVars =>
        [listPage.kind = "guided" /\ listPage'.kind = "guided" /\ listPage'.shown # 0
           => listPage'.shown >= listPage.shown]_listVars
  BY MountedSteps, OverviewSteps DEF WebInv
<1>. QED BY <1>1, WebInvariant, PTL DEF WebSpec, OverviewNeverStepsBack

\* A password that was set closes the form it was typed into and no other
\* (Users.tsx: the flag that disables the forms of the others is set until the users
\* are loaded again, and the two changes that share it exclude each other).
THEOREM ResetsEndTheirForm == WebSpec => ResetEndsItsOwnForm
<1>1. WebInv /\ [WebNext]_webVars =>
        [\A n \in DOMAIN userCalls :
           userCalls[n].change = "password" /\ Len(userCalls') < Len(userCalls)
           /\ listPage.form # NoMember /\ listPage'.form = NoMember
           /\ listPage'.kind = "users"
           => listPage.form = userCalls[n].user]_listVars
  BY DEF WebInv, ListInv, CallsFit
<1>. QED BY <1>1, WebInvariant, PTL DEF WebSpec, ResetEndsItsOwnForm
=============================================================================
