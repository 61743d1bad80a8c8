---------------------------- MODULE ShellProofs ----------------------------
(***************************************************************************)
(* Proofs about the page, for any number of calls under way, loads, names  *)
(* and texts: what it shows, what its screens wait for and keep, which id  *)
(* it sends and which charts it remembers.                                 *)
(***************************************************************************)
EXTENDS Shell, FiniteSetTheorems, TLAPS

-----------------------------------------------------------------------------
(* Navigation.                                                             *)

(* The explorer has a row and the profile a user.  While /auth/me has not  *)
(* answered, which it does once, nobody is signed in.                      *)
RouteInv ==
  /\ nav = "explorer" => openChart # None
  /\ nav = "profile" => user = TRUE
  /\ "blank" \notin {nav, step, draftFrom}
CallsInv ==
  /\ \A c \in calls : "kind" \in DOMAIN c /\ (c.kind = "me" => user = FALSE)
  /\ \A c, d \in calls : c.kind = "me" /\ d.kind = "me" => c = d
NavInv == RouteInv /\ CallsInv

LEMMA NewCallKind ==
  ASSUME NEW among, NEW kind, NEW name, NEW text
  PROVE LET c == NewCall(among, kind, name, text) IN "kind" \in DOMAIN c /\ c.kind = kind
BY DEF NewCall

(* A route taken keeps the calls pending, but for whom they are.           *)
LEMMA GoKeeps ==
  ASSUME CallsInv, NEW n, NEW s, NEW spec, NEW chart, NEW authed, NEW pending \in SUBSET calls,
         Go(n, s, spec, chart, authed, pending),
         authed = user \/ authed = FALSE \/ \A c \in pending : c.kind # "me"
  PROVE CallsInv' /\ nav' = n /\ step' = s /\ openChart' = chart /\ user' = authed
<1> DEFINE orphaned == {[c EXCEPT !.live = FALSE] : c \in pending}
           new == NewCall(orphaned, "files", chart.name, Blank)
<1>1. nav' = n /\ step' = s /\ openChart' = chart /\ user' = authed
  BY DEF Go
<1>2. calls' = pending \/ calls' = orphaned \/ calls' = orphaned \cup {new}
  BY Zenon DEF Go
<1>3. \A c \in pending : "kind" \in DOMAIN c /\ (c.kind = "me" => authed = FALSE)
  BY DEF CallsInv
<1>4. \A c \in pending :
        DOMAIN [c EXCEPT !.live = FALSE] = DOMAIN c /\ [c EXCEPT !.live = FALSE].kind = c.kind
  BY <1>3
<1>5. "kind" \in DOMAIN new /\ new.kind = "files"
  BY NewCallKind
<1> HIDE DEF new
<1>6. CASE calls' = pending
  BY <1>1, <1>3, <1>6 DEF CallsInv
<1>7. CASE calls' \subseteq orphaned \cup {new}
  <2>1. ASSUME NEW c \in calls' PROVE "kind" \in DOMAIN c /\ (c.kind = "me" => user' = FALSE)
    BY <1>1, <1>3, <1>4, <1>5, <1>7
  <2>2. ASSUME NEW c \in calls', NEW d \in calls', c.kind = "me", d.kind = "me" PROVE c = d
    <3>1. PICK x \in pending : c = [x EXCEPT !.live = FALSE]
      BY <1>5, <1>7, <2>2
    <3>2. PICK y \in pending : d = [y EXCEPT !.live = FALSE]
      BY <1>5, <1>7, <2>2
    <3>3. x.kind = "me" /\ y.kind = "me"
      BY <1>4, <2>2, <3>1, <3>2
    <3>4. x = y
      BY <3>3 DEF CallsInv
    <3> QED
      BY <3>1, <3>2, <3>4
  <2> QED
    BY <1>1, <2>1, <2>2 DEF CallsInv
<1>8. calls' = pending \/ calls' \subseteq orphaned \cup {new}
  BY <1>2
<1> QED
  BY <1>1, <1>6, <1>7, <1>8

(* What can be visited from here.                                          *)
Renders(n, s, from, chart) ==
  /\ n = "explorer" => chart # None
  /\ n = "profile" => user = TRUE
  /\ "blank" \notin {n, s, from}

LEMMA VisitKeeps ==
  ASSUME NavInv, NEW n, NEW s, NEW spec, NEW from, NEW chart,
         Visit(n, s, spec, from, chart), Renders(n, s, from, chart)
  PROVE NavInv'
<1>1. Go(n, s, spec, chart, user, calls)
  BY DEF Visit
<1>2. CallsInv' /\ nav' = n /\ step' = s /\ openChart' = chart /\ user' = user
  BY <1>1, GoKeeps DEF NavInv
<1>3. draftFrom' = from
  BY DEF Visit
<1> QED
  BY <1>2, <1>3 DEF NavInv, RouteInv, Renders

(* A new call that is not /auth/me, on the route as it is.                 *)
LEMMA CallingKeeps ==
  ASSUME NavInv, NEW kind, NEW name, NEW text, kind # "me",
         calls' = calls \cup {NewCall(calls, kind, name, text)}, UNCHANGED <<route, user>>
  PROVE NavInv'
<1> DEFINE new == NewCall(calls, kind, name, text)
<1>1. "kind" \in DOMAIN new /\ new.kind = kind
  BY NewCallKind
<1> HIDE DEF new
<1>2. calls' = calls \cup {new}
  BY DEF new
<1>3. CallsInv'
  BY <1>1, <1>2 DEF NavInv, CallsInv
<1> QED
  BY <1>3 DEF NavInv, RouteInv, route

(* An answer that goes to a screen, or none.                               *)
LEMMA AnswerKeeps ==
  ASSUME NavInv, calls' \subseteq calls, UNCHANGED <<route, user>>
  PROVE NavInv'
BY DEF NavInv, RouteInv, CallsInv, route

LEMMA NavInit == Init => NavInv
BY DEF Init, NavInv, RouteInv, CallsInv

LEMMA LoadKeeps == ASSUME Load PROVE NavInv'
<1>1. nav' = "dashboard" /\ user' = FALSE /\ step' = "choose" /\ draftFrom' = "choose"
  BY DEF Load, Fresh
<1>2. PICK c : calls' = {c} /\ "kind" \in DOMAIN c
  <2> DEFINE old == NewCall({}, "me", Blank, Blank)
             new == [old EXCEPT !.authed = FALSE]
  <2>1. "kind" \in DOMAIN old
    BY NewCallKind
  <2> HIDE DEF old
  <2>2. "kind" \in DOMAIN new
    BY <2>1
  <2>3. calls' = {new}
    BY Zenon DEF Load, old
  <2> QED
    BY <2>2, <2>3
<1> QED
  BY <1>1, <1>2 DEF NavInv, RouteInv, CallsInv

LEMMA ClicksKeep == ASSUME NavInv, Clicks PROVE NavInv'
<1>0. /\ Renders("dashboard", step, draftFrom, None) /\ Renders("charts", step, draftFrom, openChart)
      /\ Renders("generate", "choose", "choose", None)
      /\ Renders("generate", "choose", draftFrom, openChart)
      /\ Renders("generate", draftFrom, draftFrom, openChart)
      /\ Renders("generate", "form", "compose", openChart)
      /\ Renders("generate", "form", "choose", openChart) /\ Renders("generate", "form", "choose", None)
      /\ \A option \in {"prompt", "compose"} : Renders("generate", option, draftFrom, openChart)
      /\ user = TRUE => Renders("profile", step, draftFrom, None)
  BY DEF NavInv, RouteInv, Renders
<1>1. ASSUME goDashboard \/ goGenerate \/ BackToChoose \/ BackFromForm \/ BackFromProfile \/ proceed
      PROVE NavInv'
  <2>1. CASE goDashboard
    BY <1>0, <2>1, VisitKeeps DEF goDashboard
  <2>2. CASE goGenerate
    BY <1>0, <2>2, VisitKeeps DEF goGenerate
  <2>3. CASE BackToChoose
    BY <1>0, <2>3, VisitKeeps DEF BackToChoose
  <2>4. CASE BackFromForm
    BY <1>0, <2>4, VisitKeeps DEF BackFromForm
  <2>5. CASE BackFromProfile
    BY <1>0, <2>5, VisitKeeps DEF BackFromProfile
  <2>6. CASE proceed
    BY <1>0, <2>6, VisitKeeps DEF proceed
  <2> QED
    BY <1>1, <2>1, <2>2, <2>3, <2>4, <2>5, <2>6
<1>2. CASE onProfile
  <2>1. user = TRUE
    BY <1>2, Zenon DEF onProfile
  <2> QED
    BY <1>0, <1>2, <2>1, VisitKeeps DEF onProfile
<1>3. ASSUME goCharts PROVE NavInv'
  <2>1. Go("charts", step, None, None, user, calls)
    BY <1>3 DEF goCharts
  <2>2. CallsInv' /\ nav' = "charts" /\ step' = step /\ draftFrom' = draftFrom
    BY <1>3, <2>1, GoKeeps DEF NavInv, goCharts
  <2> QED
    BY <2>2 DEF NavInv, RouteInv
<1>4. CASE signOut
  <2>1. calls' = calls \cup {NewCall(calls, "logout", Blank, Blank)} /\ UNCHANGED <<route, user>>
    BY <1>4 DEF signOut
  <2> QED
    BY <2>1, CallingKeeps
<1>5. ASSUME NEW kind, kind # "me", Ask(kind) PROVE NavInv'
  <2>1. /\ calls' = calls \cup {NewCall(calls, kind, screen.name, screen.text)}
        /\ UNCHANGED <<route, user>>
    BY <1>5 DEF Ask, Set
  <2> QED
    BY <1>5, <2>1, CallingKeeps
<1>6. CASE draft \/ submit
  BY <1>5, <1>6 DEF draft, submit
<1>7. CASE backToInputs
  BY <1>7, AnswerKeeps DEF backToInputs, Set, Keep
<1>8. ASSUME NEW option \in {"manual", "prompt", "compose"}, Choose(option) PROVE NavInv'
  <2>1. CASE option = "manual"
    BY <1>0, <1>8, <2>1, VisitKeeps DEF Choose
  <2>2. CASE option # "manual"
    BY <1>0, <1>8, <2>2, VisitKeeps DEF Choose
  <2> QED
    BY <2>1, <2>2
<1>9. ASSUME NEW row \in Row, OpenRow(row) PROVE NavInv'
  <2>1. ASSUME openChartView(row) PROVE NavInv'
    <3>1. CASE row.phase = "Expired"
      BY <1>0, <2>1, <3>1, VisitKeeps DEF openChartView
    <3>2. CASE row.phase # "Expired"
      <4>1. Go("explorer", step, None, row, user, calls)
        BY <2>1, <3>2 DEF openChartView
      <4>2. /\ CallsInv' /\ nav' = "explorer" /\ openChart' = row
            /\ step' = step /\ draftFrom' = draftFrom
        BY <2>1, <3>2, <4>1, GoKeeps DEF NavInv, openChartView
      <4>3. row # None
        BY NoneIsNotARow
      <4> QED
        BY <4>2, <4>3 DEF NavInv, RouteInv
    <3> QED
      BY <3>1, <3>2
  <2> QED
    BY <1>3, <1>9, <2>1 DEF OpenRow, RecentRow
<1>10. ASSUME NEW name, NEW text, Type(name, text) PROVE NavInv'
  BY <1>10, AnswerKeeps DEF Type, Set, Keep
<1>11. ASSUME NEW file, readFile(file) PROVE NavInv'
  <2>1. calls' = calls \cup {NewCall(calls, "read", Blank, file)} /\ UNCHANGED <<route, user>>
    BY <1>11 DEF readFile
  <2> QED
    BY <2>1, CallingKeeps
<1> QED
  BY <1>1, <1>2, <1>3, <1>4, <1>6, <1>7, <1>8, <1>9, <1>10, <1>11 DEF Clicks

LEMMA AnsweredKeeps == ASSUME NavInv, NEW c \in calls, Answered(c) PROVE NavInv'
<1> DEFINE pending == calls \ {c}
<1>1. pending \in SUBSET calls
  OBVIOUS
<1>2. CASE MeAnswered(c)
  <2>1. PICK authed \in BOOLEAN : Go(nav, step, None, openChart, authed, pending)
    BY <1>2 DEF MeAnswered
  <2>2. user = FALSE /\ nav # "profile" /\ \A d \in pending : d.kind # "me"
    BY <1>2 DEF MeAnswered, NavInv, RouteInv, CallsInv
  <2>3. /\ CallsInv' /\ nav' = nav /\ openChart' = openChart
        /\ step' = step /\ draftFrom' = draftFrom
    BY <1>1, <1>2, <2>1, <2>2, GoKeeps DEF NavInv, MeAnswered
  <2> QED
    BY <2>2, <2>3 DEF NavInv, RouteInv
<1>3. CASE LoggedOut(c)
  <2>1. Go("charts", step, None, None, FALSE, pending)
    BY <1>3 DEF LoggedOut
  <2>2. CallsInv' /\ nav' = "charts" /\ step' = step /\ draftFrom' = draftFrom
    BY <1>1, <1>3, <2>1, GoKeeps DEF NavInv, LoggedOut
  <2> QED
    BY <2>2 DEF NavInv, RouteInv
<1>4. CASE onload(c) \/ Fails(c) \/ Imported(c) \/ FilesAnswered(c)
  <2>1. calls' = pending /\ UNCHANGED <<route, user>>
    BY <1>4 DEF onload, Fails, Imported, FilesAnswered, Answer, Set
  <2> QED
    BY <2>1, AnswerKeeps
<1>5. CASE Drafted(c)
  <2>1. PICK spec : Go(nav, "form", spec, openChart, user, pending)
    BY <1>5, Zenon DEF Drafted
  <2>2. /\ CallsInv' /\ nav' = nav /\ openChart' = openChart /\ user' = user
        /\ step' = "form" /\ draftFrom' = "prompt"
    BY <1>1, <1>5, <2>1, GoKeeps DEF NavInv, Drafted
  <2> QED
    BY <2>2 DEF NavInv, RouteInv
<1>6. CASE Submitted(c)
  <2>1. Go("charts", "choose", None, openChart, user, pending)
    BY <1>6 DEF Submitted
  <2>2. CallsInv' /\ nav' = "charts" /\ step' = "choose" /\ draftFrom' = draftFrom
    BY <1>1, <1>6, <2>1, GoKeeps DEF NavInv, Submitted
  <2> QED
    BY <2>2 DEF NavInv, RouteInv
<1> QED
  BY <1>2, <1>3, <1>4, <1>5, <1>6 DEF Answered

LEMMA NavStep == NavInv /\ [Next]_vars => NavInv'
<1> SUFFICES ASSUME NavInv, [Next]_vars PROVE NavInv'
  OBVIOUS
<1>1. CASE UNCHANGED page
  BY <1>1, AnswerKeeps DEF page, route
<1>2. CASE refreshCharts
  BY <1>1, <1>2 DEF refreshCharts
<1>3. ASSUME NEW name, NEW text, OtherTab(name, text) PROVE NavInv'
  BY <1>1, <1>3 DEF OtherTab
<1>4. CASE UNCHANGED vars
  BY <1>1, <1>4 DEF vars
<1> QED
  BY <1>2, <1>3, <1>4, LoadKeeps, ClicksKeep, AnsweredKeeps DEF Next

(* Whatever is clicked and answered in which order, the four states that   *)
(* AppShell.jsx (216-254) decides by render some screen.                   *)
THEOREM NeverBlankAlways == Spec => []NeverBlank
<1>1. NavInv => NeverBlank
  BY DEF NavInv, RouteInv, NeverBlank, shown, Rendered
<1> QED
  BY <1>1, NavInit, NavStep, PTL DEF Spec

-----------------------------------------------------------------------------
(* The client id.                                                          *)

(* Requests went under the id that the page remembers, and storage that    *)
(* works has no other.                                                     *)
IdInv ==
  /\ minted \in Nat /\ {stored.clientId, memClientId} \subseteq Nat \cup {None}
  /\ stored = [clientId |-> stored.clientId, charts |-> stored.charts]
  /\ sentAs = IF memClientId = None THEN {} ELSE {memClientId}
  /\ storage = "all" /\ memClientId # None => stored.clientId = memClientId

Ids == <<storage, stored, memClientId, minted, sentAs>>

LEMMA IdInit == Init => IdInv
<1> SUFFICES ASSUME Init PROVE IdInv
  OBVIOUS
<1>1. memClientId = None /\ minted = 0 /\ sentAs = {}
  BY DEF Init
<1>2. PICK charts : stored = [clientId |-> None, charts |-> charts]
  BY Zenon DEF Init
<1> QED
  BY <1>1, <1>2 DEF IdInv

LEMMA SafeSetId ==
  ASSUME IdInv, NEW id, safeSet("clientId", id)
  PROVE stored' = [clientId |-> IF storage = "all" THEN id ELSE stored.clientId, charts |-> stored.charts]
BY DEF IdInv, safeSet

(* The id is used, by this page or, mem and sent being None and {}, by one *)
(* that has forgotten it.                                                  *)
LEMMA ClientIdKeeps ==
  ASSUME IdInv, storage' = storage, NEW mem, NEW sent, clientId(mem, sent),
         <<mem, sent>> = <<memClientId, sentAs>> \/ <<mem, sent>> = <<None, {}>>
  PROVE IdInv'
<1> DEFINE old == IF mem # None THEN mem ELSE safeGet("clientId")
           new == minted + 1
           id == IF old # None THEN old ELSE new
<1>1. old \in Nat \cup {None} /\ minted \in Nat
  BY DEF IdInv, safeGet
<1>2. /\ id \in Nat /\ id # None /\ sent \subseteq {id}
      /\ mem = None \/ (mem = memClientId /\ old = mem)
  BY <1>1, NoneIsNotAnId DEF IdInv
<1>3. memClientId' = id /\ sentAs' = {id}
  BY <1>2 DEF clientId
<1>4. CASE old # None
  <2>1. minted' = minted /\ stored' = stored /\ id = old
    BY <1>4 DEF clientId
  <2>2. storage = "all" => stored.clientId = id
    BY <1>2, <1>4, <2>1 DEF IdInv, safeGet
  <2> QED
    BY <1>2, <1>3, <2>1, <2>2 DEF IdInv
<1>5. CASE old = None
  <2>1. minted' = new /\ safeSet("clientId", new) /\ id = new
    BY <1>5 DEF clientId
  <2>2. stored' = [clientId |-> IF storage = "all" THEN new ELSE stored.clientId,
                   charts |-> stored.charts]
    BY <2>1, SafeSetId
  <2> QED
    BY <1>1, <1>2, <1>3, <2>1, <2>2 DEF IdInv
<1> QED
  BY <1>4, <1>5

LEMMA RequestKeeps == ASSUME IdInv, Requested PROVE IdInv'
  BY ClientIdKeeps DEF Requested

(* A chart is remembered: the other key of the storage.                    *)
LEMMA SavedKeeps ==
  ASSUME IdInv, NEW name, NEW text, saveLocalChart(name, text),
         UNCHANGED <<storage, memClientId, minted, sentAs>>
  PROVE IdInv'
<1>1. PICK list : safeSet("charts", list)
  <2>1. ASSUME NEW list, writeCharts(list) PROVE safeSet("charts", list)
    BY <2>1 DEF writeCharts
  <2>2. \E list : writeCharts(list)
    BY Zenon DEF saveLocalChart
  <2> QED
    BY <2>1, <2>2
<1>2. /\ stored'.clientId = stored.clientId
      /\ stored' = [clientId |-> stored.clientId, charts |-> stored'.charts]
  BY <1>1 DEF IdInv, safeSet
<1> QED
  BY <1>2 DEF IdInv

LEMMA OtherTabKeeps == ASSUME IdInv, NEW name, NEW text, OtherTab(name, text) PROVE IdInv'
<1> DEFINE id == IF stored.clientId = None THEN minted + 1 ELSE stored.clientId
<1>1. PICK charts : stored' = [clientId |-> id, charts |-> charts]
  BY Zenon DEF OtherTab
<1>2. /\ minted' = IF stored.clientId = None THEN minted + 1 ELSE minted
      /\ UNCHANGED <<storage, memClientId, sentAs>> /\ storage = "all"
  BY DEF OtherTab, memory
<1> QED
  BY <1>1, <1>2, NoneIsNotAnId DEF IdInv

LEMMA UnchangedIds == ASSUME IdInv, UNCHANGED Ids PROVE IdInv'
  BY DEF IdInv, Ids

LEMMA StoreHasIds == UNCHANGED store => UNCHANGED Ids
  BY DEF store, memory, Ids

LEMMA RefreshedKeeps == ASSUME IdInv, Refreshed PROVE IdInv'
<1>1. CASE clientId(memClientId, sentAs)
  BY <1>1, ClientIdKeeps DEF Refreshed
<1>2. CASE UNCHANGED <<stored, memClientId, minted, sentAs>>
  BY <1>2, UnchangedIds DEF Refreshed, Ids
<1> QED
  BY <1>1, <1>2, Zenon DEF Refreshed

LEMMA ClicksKeepIds == ASSUME IdInv, Clicks PROVE IdInv'
<1>1. ASSUME NEW n, NEW s, NEW spec, NEW from, NEW chart, Visit(n, s, spec, from, chart)
      PROVE UNCHANGED store
  BY <1>1 DEF Visit
<1>2. ASSUME goDashboard \/ goGenerate \/ BackToChoose \/ BackFromForm \/ BackFromProfile
             \/ proceed \/ onProfile
      PROVE UNCHANGED store
  <2>1. CASE goDashboard
    BY <2>1, Zenon DEF goDashboard, Visit
  <2>2. CASE goGenerate
    BY <2>2, Zenon DEF goGenerate, Visit
  <2>3. CASE BackToChoose
    BY <2>3, Zenon DEF BackToChoose, Visit
  <2>4. CASE BackFromForm
    BY <2>4, Zenon DEF BackFromForm, Visit
  <2>5. CASE BackFromProfile
    BY <2>5, Zenon DEF BackFromProfile, Visit
  <2>6. CASE proceed
    BY <2>6, Zenon DEF proceed, Visit
  <2>7. CASE onProfile
    BY <2>7, Zenon DEF onProfile, Visit
  <2> QED
    BY <1>2, <2>1, <2>2, <2>3, <2>4, <2>5, <2>6, <2>7
<1>3. CASE goCharts
  BY <1>3, RefreshedKeeps DEF goCharts
<1>4. CASE signOut
  BY <1>4, RequestKeeps DEF signOut
<1>5. CASE draft \/ submit
  BY <1>5, RequestKeeps DEF draft, submit, Ask
<1>6. ASSUME NEW option, Choose(option) PROVE UNCHANGED store
  BY <1>6 DEF Choose, Visit
<1>7. ASSUME NEW row, OpenRow(row) PROVE IdInv'
  <2>1. ASSUME openChartView(row) PROVE IdInv'
    <3>1. openChartView(row) => UNCHANGED store \/ Requested
      BY Zenon DEF openChartView, Visit
    <3> QED
      BY <2>1, <3>1, RequestKeeps, UnchangedIds, StoreHasIds
  <2> QED
    BY <1>3, <1>7, <2>1 DEF OpenRow, RecentRow
<1>8. ASSUME backToInputs \/ (\E name, text : Type(name, text)) \/ \E file : readFile(file)
      PROVE UNCHANGED store
  BY <1>8 DEF backToInputs, Type, Keep, readFile
<1> QED
  BY <1>2, <1>3, <1>4, <1>5, <1>6, <1>7, <1>8, UnchangedIds, StoreHasIds DEF Clicks

LEMMA AnsweredKeepsIds == ASSUME IdInv, NEW c \in calls, Answered(c) PROVE IdInv'
<1>1. CASE Submitted(c)
  <2>1. UNCHANGED store \/ (/\ saveLocalChart(c.name, c.text)
                            /\ UNCHANGED <<storage, memClientId, minted, sentAs>>)
    BY <1>1, Zenon DEF Submitted
  <2> QED
    BY <2>1, SavedKeeps, UnchangedIds, StoreHasIds
<1>2. CASE ~Submitted(c)
  <2>1. UNCHANGED store
    BY <1>2, Zenon DEF Answered, MeAnswered, LoggedOut, onload, Fails, Drafted, Imported, FilesAnswered, Answer
  <2> QED
    BY <2>1, UnchangedIds, StoreHasIds
<1> QED
  BY <1>1, <1>2

LEMMA IdStep == IdInv /\ [Next]_vars => IdInv'
<1> SUFFICES ASSUME IdInv, [Next]_vars PROVE IdInv'
  OBVIOUS
<1>1. CASE Load
  BY <1>1, ClientIdKeeps DEF Load
<1>2. CASE refreshCharts
  BY <1>2, RefreshedKeeps DEF refreshCharts
<1>3. CASE UNCHANGED vars
  BY <1>3, UnchangedIds, StoreHasIds DEF vars
<1> QED
  BY <1>1, <1>2, <1>3, ClicksKeepIds, AnsweredKeepsIds, OtherTabKeeps DEF Next

(* A page never sends two ids, whether or not the storage takes writes,    *)
(* and where it does, the id is the one every tab reads (localStore.js     *)
(* 44-68).                                                                 *)
THEOREM OneClientIdAlways == Spec => []OneClientId
<1>1. IdInv => OneClientId
  <2> SUFFICES ASSUME IdInv PROVE OneClientId
    OBVIOUS
  <2>1. CASE sentAs = {}
    BY <2>1, FS_EmptySet DEF OneClientId
  <2>2. CASE memClientId # None /\ sentAs = {memClientId}
    <3>1. Cardinality(sentAs) = 1
      BY <2>2, FS_Singleton
    <3> QED
      BY <2>2, <3>1 DEF OneClientId, IdInv
  <2> QED
    BY <2>1, <2>2 DEF IdInv
<1> QED
  BY <1>1, IdInit, IdStep, PTL DEF Spec

-----------------------------------------------------------------------------
(* Types.                                                                  *)

(* Calls under way are told apart by their ids, and a file is read from    *)
(* those there are.                                                        *)
CallSet(S) ==
  /\ IsFiniteSet(S) /\ S \subseteq Call /\ \A c, d \in S : c.id = d.id => c = d
  /\ \A c \in S : c.kind = "read" => c.text \in Files

(* While there is room, some id is free.                                   *)
LEMMA FreeId ==
  ASSUME NEW among, CallSet(among), Cardinality(among) < MaxCalls
  PROVE  \E id \in 1..MaxCalls : \A c \in among : c.id # id
<1> DEFINE ids == {c.id : c \in among}
<1>1. IsFiniteSet(ids) /\ Cardinality(ids) <= Cardinality(among)
  <2> DEFINE f == [c \in among |-> c.id]
  <2>1. f \in Surjection(among, ids)
    BY DEF Surjection
  <2> HIDE DEF f, ids
  <2>2. QED
    BY <2>1, FS_Surjection DEF CallSet
<1>2. MaxCalls \in Nat
  BY ShellAssumption
<1>3. IsFiniteSet(1..MaxCalls) /\ Cardinality(1..MaxCalls) = MaxCalls
  BY <1>2, FS_Interval
<1>4. CASE \E id \in 1..MaxCalls : id \notin ids
  BY <1>4
<1>5. CASE 1..MaxCalls \subseteq ids
  <2> DEFINE all == 1..MaxCalls
  <2> HIDE DEF ids, all
  <2>1. MaxCalls <= Cardinality(ids)
    <3>1. Cardinality(all) <= Cardinality(ids)
      BY <1>1, <1>5, FS_Subset DEF all
    <3>2. QED
      BY <1>3, <3>1 DEF all
  <2>2. Cardinality(ids) \in Nat /\ Cardinality(among) \in Nat
    BY <1>1, FS_CardinalityType DEF CallSet
  <2>3. QED
    BY <1>1, <1>2, <2>1, <2>2
<1>6. QED
  BY <1>4, <1>5

(* A new call is one, and told apart from those under way.                 *)
LEMMA NewCallType ==
  ASSUME NEW among, CallSet(among), Cardinality(among) < MaxCalls, user \in BOOLEAN,
         NEW kind \in {"me", "logout", "draft", "import", "read", "submit", "files"},
         NEW name \in Names \cup {Blank}, NEW text \in Texts, kind = "read" => text \in Files
  PROVE  LET new == NewCall(among, kind, name, text) IN
         /\ CallSet(among \cup {new}) /\ new \in Call /\ new \notin among
         /\ new.kind = kind /\ new.live = (kind \notin {"me", "logout"})
         /\ new.name = name /\ new.text = text /\ new.authed = user
<1> DEFINE id == CHOOSE i \in 1..MaxCalls : \A c \in among : c.id # i
           new == NewCall(among, kind, name, text)
<1>1. id \in 1..MaxCalls /\ \A c \in among : c.id # id
  BY FreeId
<1>2. new = [id |-> id, kind |-> kind, live |-> kind \notin {"me", "logout"}, authed |-> user,
             name |-> name, text |-> text]
  BY DEF NewCall
<1> HIDE DEF id
<1>3. new \in Call /\ new.id = id
  BY <1>1, <1>2 DEF Call
<1>4. /\ new.kind = kind /\ new.live = (kind \notin {"me", "logout"})
      /\ new.name = name /\ new.text = text /\ new.authed = user
  BY <1>2
<1> HIDE DEF new
<1>5. IsFiniteSet(among \cup {new})
  BY FS_AddElement DEF CallSet
<1>6. QED
  BY <1>1, <1>3, <1>4, <1>5 DEF CallSet, new

Navs == {"dashboard", "generate", "charts", "profile", "explorer"}
StepNames == {"choose", "prompt", "compose", "form"}

(* A summary is of an import.                                              *)
ScreenOK(s) == s \in Screen /\ (s.status = "result" => s.result \in Specs)

PageTyped ==
  /\ nav \in Navs /\ step \in StepNames /\ openChart \in Row \cup {None} /\ user \in BOOLEAN
  /\ ScreenOK(screen) /\ CallSet(calls) /\ loads \in Nat

Orphan(c) == [c EXCEPT !.live = FALSE]

(* The calls of a screen that is left are as many, or fewer, and nobody's. *)
LEMMA Orphans ==
  ASSUME CallSet(calls), NEW pending \in SUBSET calls
  PROVE  LET orphaned == {[c EXCEPT !.live = FALSE] : c \in pending} IN
         /\ CallSet(orphaned) /\ Cardinality(orphaned) <= Cardinality(calls)
         /\ \A c \in orphaned : c.live = FALSE
<1> DEFINE orphaned == {[c EXCEPT !.live = FALSE] : c \in pending}
<1>1. ASSUME NEW c \in Call
      PROVE  /\ Orphan(c) \in Call /\ Orphan(c).live = FALSE /\ Orphan(c).id = c.id
             /\ Orphan(c).kind = c.kind /\ Orphan(c).text = c.text
  BY DEF Call, Orphan
<1>2. IsFiniteSet(pending) /\ Cardinality(pending) <= Cardinality(calls)
  BY FS_Subset DEF CallSet
<1>3. IsFiniteSet(orphaned) /\ Cardinality(orphaned) <= Cardinality(pending)
  <2> DEFINE f == [c \in pending |-> [c EXCEPT !.live = FALSE]]
  <2>1. f \in Surjection(pending, orphaned)
    BY DEF Surjection
  <2> HIDE DEF f, orphaned
  <2>2. QED
    BY <1>2, <2>1, FS_Surjection
<1>4. /\ Cardinality(orphaned) \in Nat /\ Cardinality(pending) \in Nat
      /\ Cardinality(calls) \in Nat
  BY <1>2, <1>3, FS_CardinalityType DEF CallSet
<1>5. \A d \in orphaned : \E c \in pending : d = Orphan(c) /\ c \in Call
  BY DEF Orphan, CallSet
<1> HIDE DEF orphaned
<1>6. Cardinality(orphaned) <= Cardinality(calls)
  BY <1>2, <1>3, <1>4
<1>7. \A d \in orphaned :
        d \in Call /\ d.live = FALSE /\ (d.kind = "read" => d.text \in Files)
  <2>1. SUFFICES ASSUME NEW d \in orphaned
                 PROVE  d \in Call /\ d.live = FALSE /\ (d.kind = "read" => d.text \in Files)
    OBVIOUS
  <2>2. PICK x \in pending : d = Orphan(x) /\ x \in Call
    BY <1>5
  <2>3. x.kind = "read" => x.text \in Files
    BY DEF CallSet
  <2>4. QED
    BY <1>1, <2>2, <2>3
<1>8. ASSUME NEW d \in orphaned, NEW e \in orphaned, d.id = e.id PROVE d = e
  <2>1. PICK x \in pending : d = Orphan(x) /\ x \in Call
    BY <1>5
  <2>2. PICK y \in pending : e = Orphan(y) /\ y \in Call
    BY <1>5
  <2>3. x.id = y.id
    BY <1>1, <1>8, <2>1, <2>2
  <2>4. QED
    BY <2>1, <2>2, <2>3 DEF CallSet
<1>9. QED
  BY <1>3, <1>6, <1>7, <1>8 DEF CallSet, orphaned

(* What a screen that is mounted starts with.                              *)
LEMMA Emptied ==
  /\ ScreenOK(EmptyScreen) /\ ScreenOK([EmptyScreen EXCEPT !.status = "busy"])
  /\ \A spec \in Specs \cup {None} : ScreenOK(FormSeed(spec))
<1> DEFINE Seed(name, text) ==
             [name |-> name, text |-> text, file |-> Blank, status |-> "idle", result |-> None]
<1>1. ASSUME NEW name \in Names \cup {Blank}, NEW text \in Texts
      PROVE  /\ Seed(name, text) \in Screen /\ Seed(name, text).status = "idle"
             /\ [Seed(name, text) EXCEPT !.status = "busy"] \in Screen
             /\ [Seed(name, text) EXCEPT !.status = "busy"].status = "busy"
  BY DEF Screen
<1>2. Blank \in Texts
  BY DEF Texts
<1>3. EmptyScreen = Seed(Blank, Blank)
  BY DEF EmptyScreen
<1>4. ASSUME NEW spec \in Specs PROVE ScreenOK(FormSeed(spec))
  <2>1. spec.name \in Names \cup {Blank} /\ spec.text \in Texts
    BY DEF Specs, SpecOf
  <2>2. FormSeed(spec) \in {EmptyScreen, Seed(spec.name, spec.text)}
    BY <1>3 DEF FormSeed
  <2> HIDE DEF Seed
  <2>3. QED
    BY <1>1, <1>2, <1>3, <2>1, <2>2 DEF ScreenOK
<1> HIDE DEF Seed
<1>5. QED
  BY <1>1, <1>2, <1>3, <1>4 DEF FormSeed, ScreenOK

(* What a route leaves under way, and what it mounts.                      *)
LEMMA GoTyped ==
  ASSUME PageTyped, NEW n \in Navs, NEW s \in StepNames, NEW spec \in Specs \cup {None},
         NEW chart \in Row \cup {None}, NEW authed \in BOOLEAN, NEW pending \in SUBSET calls,
         Rendered(n, s, chart, authed) = "explorer" => shown = "explorer" \/ Room,
         Go(n, s, spec, chart, authed, pending)
  PROVE  PageTyped'
<1> DEFINE kind == Rendered(n, s, chart, authed)
           orphaned == {[c EXCEPT !.live = FALSE] : c \in pending}
           new == NewCall(orphaned, "files", chart.name, Blank)
           fetch == kind = "explorer" /\ Fetches(chart)
<1>1. nav' = n /\ step' = s /\ openChart' = chart /\ user' = authed /\ loads' = loads
  BY DEF Go
<1>2. CallSet(orphaned) /\ Cardinality(orphaned) <= Cardinality(calls)
  BY Orphans DEF PageTyped
<1>3. CASE kind = shown
  <2>1. screen' = screen /\ calls' = pending
    BY <1>3 DEF Go
  <2>2. CallSet(pending)
    BY FS_Subset DEF PageTyped, CallSet
  <2>3. QED
    BY <1>1, <2>1, <2>2 DEF PageTyped
<1>4. CASE kind # shown
  <2>1. ScreenOK(screen')
    <3>1. screen' \in {FormSeed(spec), [EmptyScreen EXCEPT !.status = "busy"], EmptyScreen}
      BY <1>4 DEF Go
    <3>2. QED
      BY <3>1, Emptied
  <2>2. CASE ~fetch
    <3>1. calls' = orphaned
      BY <1>4, <2>2 DEF Go
    <3> HIDE DEF orphaned
    <3>2. QED
      BY <1>1, <1>2, <2>1, <3>1 DEF PageTyped
  <2>3. CASE fetch
    <3>1. calls' = orphaned \cup {new}
      BY <1>4, <2>3 DEF Go
    <3>2. Cardinality(calls) < MaxCalls
      BY <1>4, <2>3 DEF Room
    <3> HIDE DEF orphaned
    <3>3. Cardinality(orphaned) < MaxCalls
      <4>1. Cardinality(orphaned) \in Nat /\ Cardinality(calls) \in Nat /\ MaxCalls \in Nat
        BY <1>2, FS_CardinalityType, ShellAssumption DEF PageTyped, CallSet
      <4>2. QED
        BY <1>2, <3>2, <4>1
    <3>4. chart \in Row
      BY <2>3 DEF Rendered, StepNames
    <3>5. chart.name \in Names \cup {Blank} /\ Blank \in Texts
      BY <3>4 DEF Row, Texts
    <3>6. CallSet(orphaned \cup {new})
      BY <1>2, <3>3, <3>5, NewCallType DEF PageTyped
    <3>7. QED
      BY <1>1, <2>1, <3>1, <3>6 DEF PageTyped
  <2>4. QED
    BY <2>2, <2>3
<1>5. QED
  BY <1>3, <1>4
Froms == {"choose", "prompt", "compose"}

(* A click that leads somewhere.                                           *)
LEMMA VisitTyped ==
  ASSUME PageTyped, NEW n \in Navs \ {"explorer"}, NEW s \in StepNames,
         NEW spec \in Specs \cup {None}, NEW from \in Froms, NEW chart \in Row \cup {None},
         Visit(n, s, spec, from, chart)
  PROVE  PageTyped' /\ draftFrom' \in Froms
<1>1. Go(n, s, spec, chart, user, calls) /\ draftFrom' = from
  BY DEF Visit
<1>2. Rendered(n, s, chart, user) # "explorer"
  BY DEF Rendered, Navs, StepNames
<1>3. PageTyped'
  BY <1>1, <1>2, GoTyped DEF PageTyped
<1>4. QED
  BY <1>1, <1>3

(* A call more, and whatever becomes of the screen.                        *)
LEMMA CallTyped ==
  ASSUME PageTyped, NEW kind \in {"logout", "draft", "import", "read", "submit"},
         NEW name \in Names \cup {Blank}, NEW text \in Texts, kind = "read" => text \in Files,
         Room,
         calls' = calls \cup {NewCall(calls, kind, name, text)}, ScreenOK(screen'),
         UNCHANGED <<route, user, loads>>
  PROVE  PageTyped'
<1>1. CallSet(calls')
  BY NewCallType DEF Room, PageTyped
<1>2. QED
  BY <1>1 DEF PageTyped, route

(* A call less.                                                            *)
LEMMA AnswerTyped ==
  ASSUME PageTyped, NEW c \in calls, calls' = calls \ {c}, ScreenOK(screen'),
         UNCHANGED <<route, user, loads>>
  PROVE  PageTyped'
<1>1. CallSet(calls')
  BY FS_Subset DEF PageTyped, CallSet
<1>2. QED
  BY <1>1 DEF PageTyped, route

(* What is known of a call.                                                *)
LEMMA CallFields ==
  ASSUME PageTyped, NEW c \in calls
  PROVE  /\ c \in Call /\ c.name \in Names \cup {Blank} /\ c.text \in Texts
         /\ c.kind = "read" => c.text \in Files
BY DEF PageTyped, CallSet, Call
-----------------------------------------------------------------------------
(* The list of anonymous charts.                                           *)

StoredShape == stored = [clientId |-> stored.clientId, charts |-> stored.charts]

(* Where storage takes writes, or gives nothing back, the list that is     *)
(* read is the list of what was answered; where it takes them, nothing is  *)
(* kept in memory that is not stored.                                      *)
ListsInv ==
  /\ answered \in Lists /\ {stored.charts, memCharts} \subseteq Lists \cup {None}
  /\ StoredShape /\ storage \in {"all", "reads", "none"}
  /\ storage # "reads" => readCharts = answered
  /\ storage = "all" /\ stored.charts = None => memCharts = None

(* Recording a chart makes a list of a list.                               *)
LEMMA ListFacts ==
  /\ NoCharts \in Lists
  /\ \A list \in Lists, name \in Names \cup {Blank}, text \in Texts :
       Recorded(list, name, text) \in Lists
  /\ \A list \in Lists : list # None /\ \A name \in DOMAIN list : list[name] \in Texts
<1>1. NoCharts \in Lists
  <2>1. NoCharts \in [{} -> Texts]
    BY DEF NoCharts
  <2>2. QED
    BY <2>1 DEF Lists
<1>2. ASSUME NEW list \in Lists, NEW name \in Names \cup {Blank}, NEW text \in Texts
      PROVE  Recorded(list, name, text) \in Lists
  <2>1. PICK names \in SUBSET (Names \cup {Blank}) : list \in [names -> Texts]
    BY DEF Lists
  <2>2. Recorded(list, name, text) \in [names \cup {name} -> Texts]
    BY <2>1 DEF Recorded
  <2>3. QED
    BY <2>2 DEF Lists
<1>3. ASSUME NEW list \in Lists
      PROVE  list # None /\ \A name \in DOMAIN list : list[name] \in Texts
  BY NoneIsNotAList DEF Lists
<1>4. QED
  BY <1>1, <1>2, <1>3

LEMMA ReadIsList == ASSUME ListsInv PROVE readCharts \in Lists
  BY ListFacts DEF ListsInv, readCharts, safeGet

(* What an id does to the storage.                                         *)
LEMMA IdOnly ==
  ASSUME StoredShape, NEW mem, NEW sent, clientId(mem, sent)
  PROVE  stored'.charts = stored.charts /\ StoredShape'
<1> DEFINE old == IF mem # None THEN mem ELSE safeGet("clientId")
           new == minted + 1
<1>1. stored' = stored \/ safeSet("clientId", new)
  BY DEF clientId
<1>2. ASSUME NEW id, safeSet("clientId", id)
      PROVE  stored' = stored \/ stored' = [clientId |-> id, charts |-> stored.charts]
  BY <1>2 DEF safeSet, StoredShape
<1> HIDE DEF new
<1>3. stored' = stored \/ stored' = [clientId |-> new, charts |-> stored.charts]
  BY <1>1, <1>2
<1>4. QED
  BY <1>3 DEF StoredShape

(* Steps that leave the lists alone, as requests do.                       *)
LEMMA ListsKept ==
  ASSUME ListsInv, stored'.charts = stored.charts, StoredShape',
         UNCHANGED <<storage, memCharts, answered>>
  PROVE  ListsInv'
<1>1. safeGet("charts") = IF storage = "none" THEN None ELSE stored.charts
  BY DEF safeGet
<1>2. safeGet("charts")' = IF storage' = "none" THEN None ELSE stored'.charts
  BY DEF safeGet
<1>3. readCharts' = readCharts
  BY <1>1, <1>2 DEF readCharts
<1>4. QED
  BY <1>3 DEF ListsInv

LEMMA ListsRequested == ASSUME ListsInv, Requested PROVE ListsInv'
  BY ListsKept, IdOnly DEF Requested, ListsInv

LEMMA ListsUnchanged == ASSUME ListsInv, UNCHANGED <<store, answered>> PROVE ListsInv'
  BY ListsKept DEF store, memory, ListsInv, StoredShape

(* A refresh copies what is stored into memory, which tells nobody         *)
(* anything new.                                                           *)
LEMMA ListsRefreshed == ASSUME ListsInv, Refreshed PROVE ListsInv'
<1>1. stored'.charts = stored.charts /\ StoredShape' /\ UNCHANGED <<storage, answered>>
  BY IdOnly DEF Refreshed, ListsInv, StoredShape
<1>2. memCharts' = memCharts \/ (safeGet("charts") # None /\ memCharts' = safeGet("charts"))
  BY DEF Refreshed, loadLocalCharts
<1>3. safeGet("charts") = IF storage = "none" THEN None ELSE stored.charts
  BY DEF safeGet
<1>4. safeGet("charts")' = safeGet("charts")
  BY <1>1, <1>3 DEF safeGet
<1>5. readCharts' = readCharts
  BY <1>2, <1>4 DEF readCharts
<1>6. QED
  BY <1>1, <1>2, <1>3, <1>5 DEF ListsInv

(* A chart is remembered.                                                  *)
LEMMA ListsSaved ==
  ASSUME ListsInv, NEW name \in Names \cup {Blank}, NEW text \in Texts,
         saveLocalChart(name, text), UNCHANGED storage,
         answered' = Recorded(answered, name, text)
  PROVE  ListsInv'
<1> DEFINE list == Recorded(readCharts, name, text)
<1>1. list \in Lists /\ list # None /\ answered' \in Lists
  BY ReadIsList, ListFacts DEF ListsInv
<1>2. storage # "reads" => answered' = list
  BY DEF ListsInv
<1>3. memCharts' = list /\ safeSet("charts", list)
  BY DEF saveLocalChart, writeCharts
<1> HIDE DEF list
<1>4. stored' = [clientId |-> stored.clientId,
                 charts |-> IF storage = "all" THEN list ELSE stored.charts]
  BY <1>3 DEF safeSet, ListsInv, StoredShape
<1>5. StoredShape' /\ stored'.charts = IF storage = "all" THEN list ELSE stored.charts
  BY <1>4 DEF StoredShape
<1>6. storage # "reads" => readCharts' = list
  <2>1. safeGet("charts")' = IF storage' = "none" THEN None ELSE stored'.charts
    BY DEF safeGet
  <2>2. QED
    BY <1>1, <1>3, <1>5, <2>1 DEF readCharts, ListsInv
<1>7. QED
  BY <1>1, <1>2, <1>3, <1>5, <1>6 DEF ListsInv

(* ... by another tab.                                                     *)
LEMMA ListsOtherTab ==
  ASSUME ListsInv, NEW name \in Names, NEW text \in Typed, OtherTab(name, text)
  PROVE  ListsInv'
<1> DEFINE old == IF stored.charts = None THEN NoCharts ELSE stored.charts
           list == Recorded(old, name, text)
<1>1. storage = "all" /\ UNCHANGED <<storage, memCharts>> /\ answered' = Recorded(answered, name, text)
  BY DEF OtherTab, memory
<1>2. old = answered
  BY <1>1 DEF ListsInv, readCharts, safeGet
<1>3. list \in Lists /\ list # None /\ answered' = list
  BY <1>1, <1>2, ListFacts DEF ListsInv, Texts
<1> DEFINE id == IF stored.clientId = None THEN minted + 1 ELSE stored.clientId
<1>4. stored' = [clientId |-> id, charts |-> list]
  BY DEF OtherTab
<1> HIDE DEF list, old, id
<1>5. stored'.charts = list /\ StoredShape'
  BY <1>4 DEF StoredShape
<1>6. safeGet("charts")' = list
  BY <1>1, <1>5 DEF safeGet
<1>7. readCharts' = list
  BY <1>3, <1>6 DEF readCharts
<1>8. QED
  BY <1>1, <1>3, <1>5, <1>7 DEF ListsInv

(* A page forgets what is not stored, and what it was told with it.        *)
LEMMA ListsLoad == ASSUME ListsInv, Load PROVE ListsInv'
<1>1. stored'.charts = stored.charts /\ StoredShape' /\ UNCHANGED storage
  BY IdOnly DEF Load, ListsInv
<1>2. safeGet("charts") = IF storage = "none" THEN None ELSE stored.charts
  BY DEF safeGet
<1>3. safeGet("charts")' = safeGet("charts")
  BY <1>1, <1>2 DEF safeGet
<1>4. memCharts' = safeGet("charts")
  BY DEF Load
<1>5. readCharts' = IF safeGet("charts") = None THEN NoCharts ELSE safeGet("charts")
  BY <1>3, <1>4 DEF readCharts
<1>6. answered' = IF storage = "all" THEN answered
                  ELSE IF safeGet("charts") = None THEN NoCharts ELSE safeGet("charts")
  BY DEF Load
<1>7. storage = "all" => answered = readCharts'
  BY <1>2, <1>5 DEF ListsInv, readCharts
<1>8. QED
  BY <1>1, <1>2, <1>4, <1>5, <1>6, <1>7, ListFacts DEF ListsInv
LEMMA ListsInit == Init => ListsInv
<1> SUFFICES ASSUME Init PROVE ListsInv
  OBVIOUS
<1>1. PICK charts \in {None} \cup Remembered :
        /\ storage = "none" => charts = None
        /\ stored = [clientId |-> None, charts |-> charts]
        /\ answered = IF charts = None THEN NoCharts ELSE charts
  BY DEF Init
<1>2. memCharts = None /\ storage \in {"all", "reads", "none"}
  BY ShellAssumption DEF Init
<1>3. charts \in Lists \cup {None}
  <2>1. CASE charts \in Remembered
    <3>1. PICK name \in Names, text \in Typed : charts = Recorded(NoCharts, name, text)
      BY <2>1 DEF Remembered
    <3>2. QED
      BY <3>1, ListFacts DEF Texts
  <2>2. QED
    BY <2>1
<1>4. stored.charts = charts /\ StoredShape
  BY <1>1 DEF StoredShape
<1>5. readCharts = answered
  BY <1>1, <1>2, <1>4 DEF readCharts, safeGet
<1>6. QED
  BY <1>1, <1>2, <1>3, <1>4, <1>5, ListFacts DEF ListsInv

LEMMA ClicksLists == ASSUME ListsInv, Clicks PROVE ListsInv'
<1>1. CASE goDashboard \/ goGenerate \/ BackToChoose \/ BackFromForm \/ BackFromProfile
           \/ proceed \/ onProfile
  <2>1. UNCHANGED <<store, answered>>
    <3>1. CASE goDashboard
      BY <3>1, Zenon DEF goDashboard, Visit
    <3>2. CASE goGenerate
      BY <3>2, Zenon DEF goGenerate, Visit
    <3>3. CASE BackToChoose
      BY <3>3, Zenon DEF BackToChoose, Visit
    <3>4. CASE BackFromForm
      BY <3>4, Zenon DEF BackFromForm, Visit
    <3>5. CASE BackFromProfile
      BY <3>5, Zenon DEF BackFromProfile, Visit
    <3>6. CASE proceed
      BY <3>6, Zenon DEF proceed, Visit
    <3>7. CASE onProfile
      BY <3>7, Zenon DEF onProfile, Visit
    <3>8. QED
      BY <1>1, <3>1, <3>2, <3>3, <3>4, <3>5, <3>6, <3>7
  <2>2. QED
    BY <2>1, ListsUnchanged
<1>2. CASE goCharts
  BY <1>2, ListsRefreshed DEF goCharts
<1>3. CASE signOut
  BY <1>3, ListsRequested DEF signOut
<1>4. CASE draft \/ submit
  BY <1>4, ListsRequested DEF draft, submit, Ask
<1>5. ASSUME NEW option, Choose(option) PROVE ListsInv'
  BY <1>5, ListsUnchanged DEF Choose, Visit
<1>6. ASSUME NEW row, OpenRow(row) PROVE ListsInv'
  <2>1. openChartView(row) => UNCHANGED <<store, answered>> \/ Requested
    BY Zenon DEF openChartView, Visit
  <2>2. QED
    BY <1>2, <1>6, <2>1, ListsRequested, ListsUnchanged DEF OpenRow, RecentRow
<1>7. CASE backToInputs \/ (\E name, text : Type(name, text)) \/ \E file : readFile(file)
  <2>1. UNCHANGED <<store, answered>>
    BY <1>7 DEF backToInputs, Type, Keep, readFile
  <2>2. QED
    BY <2>1, ListsUnchanged
<1>8. QED
  BY <1>1, <1>2, <1>3, <1>4, <1>5, <1>6, <1>7 DEF Clicks

LEMMA AnsweredLists == ASSUME PageTyped, ListsInv, NEW c \in calls, Answered(c) PROVE ListsInv'
<1>1. CASE Submitted(c)
  <2>1. CASE UNCHANGED <<store, answered>>
    BY <2>1, ListsUnchanged
  <2>2. CASE saveLocalChart(c.name, c.text) /\ answered' = Recorded(answered, c.name, c.text)
             /\ UNCHANGED storage
    BY <2>2, CallFields, ListsSaved
  <2>3. QED
    BY <1>1, <2>1, <2>2, Zenon DEF Submitted
<1>2. CASE ~Submitted(c)
  <2>1. UNCHANGED <<store, answered>>
    BY <1>2, Zenon DEF Answered, MeAnswered, LoggedOut, onload, Fails, Drafted, Imported,
       FilesAnswered, Answer
  <2>2. QED
    BY <2>1, ListsUnchanged
<1>3. QED
  BY <1>1, <1>2

LEMMA ListsStep == PageTyped /\ ListsInv /\ [Next]_vars => ListsInv'
<1> SUFFICES ASSUME PageTyped, ListsInv, [Next]_vars PROVE ListsInv'
  OBVIOUS
<1>1. CASE refreshCharts
  BY <1>1, ListsRefreshed DEF refreshCharts
<1>2. CASE UNCHANGED vars
  BY <1>2, ListsUnchanged DEF vars
<1>3. QED
  BY <1>1, <1>2, ListsLoad, ClicksLists, AnsweredLists, ListsOtherTab DEF Next

-----------------------------------------------------------------------------
(* Types, for every step.                                                  *)

PageOK == PageTyped /\ draftFrom \in Froms

LEMMA ClicksTyped == ASSUME PageOK, ListsInv, Clicks PROVE PageOK'
<1>1. \A n \in Navs \ {"explorer"}, s \in StepNames, spec \in Specs \cup {None},
         from \in Froms, chart \in Row \cup {None} :
        Visit(n, s, spec, from, chart) => PageOK'
  BY VisitTyped DEF PageOK
<1>2. /\ step \in StepNames /\ draftFrom \in Froms \cap StepNames
      /\ openChart \in Row \cup {None} /\ ScreenOK(screen) /\ user \in BOOLEAN
      /\ None \in Row \cup {None} /\ None \in Specs \cup {None}
      /\ {"choose", "prompt", "compose", "form"} \subseteq StepNames
      /\ {"choose", "prompt", "compose"} \subseteq Froms
      /\ {"dashboard", "generate", "charts", "profile"} \subseteq Navs \ {"explorer"}
  BY DEF PageOK, PageTyped, Froms, StepNames, Navs
<1>3. CASE goDashboard
  BY <1>1, <1>2, <1>3 DEF goDashboard
<1>4. CASE goGenerate
  BY <1>1, <1>2, <1>4 DEF goGenerate
<1>5. CASE BackToChoose
  BY <1>1, <1>2, <1>5 DEF BackToChoose
<1>6. CASE BackFromForm
  BY <1>1, <1>2, <1>6 DEF BackFromForm
<1>7. CASE BackFromProfile
  BY <1>1, <1>2, <1>7 DEF BackFromProfile
<1>8. CASE proceed
  <2> DEFINE spec == [screen.result EXCEPT !.name = IF screen.name # Blank THEN screen.name ELSE @]
  <2>1. screen.result \in Specs /\ screen.name \in Names \cup {Blank}
    BY <1>2, <1>8 DEF proceed, ScreenOK, Screen
  <2>2. spec \in Specs
    <3>1. PICK name \in Names \cup {Blank}, text \in Texts :
            screen.result = [name |-> name, text |-> text]
      BY <2>1 DEF Specs, SpecOf
    <3>2. spec = [name |-> IF screen.name # Blank THEN screen.name ELSE name, text |-> text]
      BY <3>1
    <3>3. QED
      BY <2>1, <3>2 DEF Specs, SpecOf
  <2>3. Visit("generate", "form", spec, "compose", openChart)
    BY <1>8 DEF proceed
  <2> HIDE DEF spec
  <2>4. QED
    BY <1>1, <1>2, <2>2, <2>3
<1>9. CASE onProfile
  <2>1. Visit("profile", step, None, draftFrom, None)
    BY <1>9, Zenon DEF onProfile
  <2>2. QED
    BY <1>1, <1>2, <2>1
<1>10. CASE goCharts
  <2>1. Go("charts", step, None, None, user, calls) /\ draftFrom' = draftFrom
    BY <1>10 DEF goCharts
  <2>2. Rendered("charts", step, None, user) # "explorer" /\ "charts" \in Navs
    BY DEF Rendered, Navs
  <2>3. QED
    BY <1>2, <2>1, <2>2, GoTyped DEF PageOK
<1>11. CASE signOut
  <2>1. Blank \in Texts
    BY DEF Texts
  <2>2. PageTyped'
    BY <1>2, <1>11, <2>1, CallTyped DEF PageOK, signOut
  <2>3. QED
    BY <1>2, <1>11, <2>2 DEF PageOK, signOut, route
<1>12. ASSUME NEW kind \in {"draft", "import", "submit"}, Ask(kind) PROVE PageOK'
  <2>1. ScreenOK([screen EXCEPT !.status = "busy"]) /\ screen.name \in Names \cup {Blank}
        /\ screen.text \in Texts
    BY <1>2 DEF ScreenOK, Screen
  <2>2. PageTyped'
    BY <1>12, <2>1, CallTyped DEF PageOK, Ask, Set
  <2>3. QED
    BY <1>2, <1>12, <2>2 DEF PageOK, Ask, Set, route
<1>13. CASE draft \/ submit
  BY <1>12, <1>13 DEF draft, submit
<1>14. ASSUME NEW fields, ScreenOK(fields), Set(fields), UNCHANGED calls PROVE PageOK'
  BY <1>14 DEF PageOK, PageTyped, Set, route
<1>15. CASE backToInputs
  <2>1. ScreenOK([screen EXCEPT !.status = "idle"])
    BY <1>2 DEF ScreenOK, Screen
  <2>2. QED
    BY <1>14, <1>15, <2>1 DEF backToInputs, Keep
<1>16. ASSUME NEW option \in {"manual", "prompt", "compose"}, Choose(option) PROVE PageOK'
  <2>1. CASE option = "manual"
    BY <1>1, <1>2, <1>16, <2>1 DEF Choose
  <2>2. CASE option # "manual"
    BY <1>1, <1>2, <1>16, <2>2 DEF Choose
  <2>3. QED
    BY <2>1, <2>2
<1>17. ASSUME NEW row \in Row, OpenRow(row) PROVE PageOK'
  <2>1. ASSUME openChartView(row) PROVE PageOK'
    <3>1. CASE row.phase = "Expired"
      <4>1. row.name \in DOMAIN readCharts /\ row.name \in Names \cup {Blank}
        BY <1>2, <1>17, <3>1 DEF OpenRow, Listed, Row
      <4>2. readCharts[row.name] \in Texts
        BY <4>1, ReadIsList, ListFacts
      <4>3. SpecOf(row.name, readCharts[row.name]) \in Specs
        BY <4>1, <4>2 DEF Specs
      <4>4. QED
        BY <1>1, <1>2, <2>1, <3>1, <4>3 DEF openChartView
    <3>2. CASE row.phase # "Expired"
      <4>1. Room /\ Go("explorer", step, None, row, user, calls) /\ draftFrom' = draftFrom
        BY <2>1, <3>2 DEF openChartView
      <4>2. "explorer" \in Navs
        BY DEF Navs
      <4>3. QED
        BY <1>2, <4>1, <4>2, GoTyped DEF PageOK
    <3>3. QED
      BY <3>1, <3>2
  <2>2. QED
    BY <1>10, <1>17, <2>1 DEF OpenRow, RecentRow
<1>18. ASSUME NEW name \in Names \cup {Blank}, NEW text \in Typed \cup {Blank}, Type(name, text)
       PROVE  PageOK'
  <2> DEFINE fields == [screen EXCEPT !.name = name, !.text = text,
                                      !.file = IF text = screen.text THEN @ ELSE Blank]
  <2>1. ScreenOK(fields)
    BY <1>2 DEF ScreenOK, Screen, Texts
  <2>2. Set(fields) /\ UNCHANGED calls
    BY <1>18 DEF Type, Keep
  <2> HIDE DEF fields
  <2>3. QED
    BY <1>14, <2>1, <2>2
<1>19. ASSUME NEW file \in Files, readFile(file) PROVE PageOK'
  <2>1. file \in Texts
    BY ShellAssumption DEF Texts
  <2>2. PageTyped'
    BY <1>2, <1>19, <2>1, CallTyped DEF PageOK, readFile
  <2>3. QED
    BY <1>2, <1>19, <2>2 DEF PageOK, readFile, route
<1>20. QED
  BY <1>3, <1>4, <1>5, <1>6, <1>7, <1>8, <1>9, <1>10, <1>11, <1>13, <1>15, <1>16, <1>17,
     <1>18, <1>19 DEF Clicks
LEMMA AnsweredTyped == ASSUME PageOK, RouteInv, NEW c \in calls, Answered(c) PROVE PageOK'
<1> DEFINE pending == calls \ {c}
<1>1. /\ nav \in Navs /\ step \in StepNames /\ openChart \in Row \cup {None} /\ user \in BOOLEAN
      /\ ScreenOK(screen) /\ draftFrom \in Froms /\ pending \in SUBSET calls
      /\ c \in Call /\ c.name \in Names \cup {Blank} /\ c.text \in Texts
  BY CallFields DEF PageOK, PageTyped
<1>2. shown = "explorer" \/ \A s, authed : Rendered(nav, s, openChart, authed) # "explorer" \/ s = "explorer"
  BY <1>1 DEF RouteInv, shown, Rendered, Navs, StepNames
<1>3. CASE MeAnswered(c)
  <2>1. PICK authed \in BOOLEAN : Go(nav, step, None, openChart, authed, pending)
    BY <1>3 DEF MeAnswered
  <2>2. Rendered(nav, step, openChart, authed) = "explorer" => shown = "explorer"
    BY <1>1, <1>2 DEF StepNames
  <2>3. PageTyped'
    BY <1>1, <2>1, <2>2, GoTyped DEF PageOK
  <2>4. QED
    BY <1>1, <1>3, <2>3 DEF PageOK, MeAnswered
<1>4. CASE LoggedOut(c)
  <2>1. Go("charts", step, None, None, FALSE, pending) /\ draftFrom' = draftFrom
    BY <1>4 DEF LoggedOut
  <2>2. Rendered("charts", step, None, FALSE) # "explorer" /\ "charts" \in Navs
    BY DEF Rendered, Navs
  <2>3. QED
    BY <1>1, <2>1, <2>2, GoTyped DEF PageOK
<1>5. CASE Drafted(c)
  <2>1. PICK suggested \in Names :
          Go(nav, "form", SpecOf(IF c.name # Blank THEN c.name ELSE suggested, c.text),
             openChart, user, pending)
    BY <1>5, Zenon DEF Drafted
  <2> DEFINE spec == SpecOf(IF c.name # Blank THEN c.name ELSE suggested, c.text)
  <2>2. spec \in Specs /\ "form" \in StepNames
    BY <1>1 DEF Specs, StepNames
  <2>3. Rendered(nav, "form", openChart, user) = "explorer" => shown = "explorer"
    BY <1>2
  <2> HIDE DEF spec
  <2>4. Go(nav, "form", spec, openChart, user, pending)
    BY <2>1 DEF spec
  <2>5. PageTyped'
    BY <1>1, <2>2, <2>3, <2>4, GoTyped DEF PageOK
  <2>6. QED
    BY <1>5, <2>5 DEF PageOK, Drafted, Froms
<1>6. CASE Submitted(c)
  <2>1. Go("charts", "choose", None, openChart, user, pending) /\ draftFrom' = draftFrom
    BY <1>6 DEF Submitted
  <2>2. Rendered("charts", "choose", openChart, user) # "explorer"
        /\ "charts" \in Navs /\ "choose" \in StepNames
    BY DEF Rendered, Navs, StepNames
  <2>3. QED
    BY <1>1, <2>1, <2>2, GoTyped DEF PageOK
<1>7. ASSUME NEW result, ScreenOK(result), Set(IF c.live THEN result ELSE screen),
             calls' = calls \ {c}
      PROVE  PageOK'
  <2>1. ScreenOK(screen') /\ UNCHANGED <<route, user, loads>>
    BY <1>1, <1>7 DEF Set
  <2>2. PageTyped'
    BY <1>7, <2>1, AnswerTyped DEF PageOK
  <2>3. QED
    BY <1>1, <2>1, <2>2 DEF PageOK, route
<1>8. CASE onload(c)
  <2> DEFINE result == [screen EXCEPT !.text = c.text, !.file = c.text]
  <2>1. c.text \in Files
    BY <1>8, CallFields DEF PageOK, onload
  <2>2. ScreenOK(result)
    BY <1>1, <2>1 DEF ScreenOK, Screen
  <2>3. QED
    BY <1>7, <1>8, <2>2 DEF onload
<1>9. CASE Fails(c)
  <2>1. ScreenOK([screen EXCEPT !.status = "error"])
    BY <1>1 DEF ScreenOK, Screen
  <2>2. QED
    BY <1>7, <1>9, <2>1 DEF Fails, Answer
<1>10. CASE Imported(c)
  <2>1. PICK suggested \in Names \cup {Blank} :
          Answer(c, [screen EXCEPT !.status = "result", !.result = SpecOf(suggested, c.text)])
    BY <1>10 DEF Imported
  <2> DEFINE spec == SpecOf(suggested, c.text)
             result == [screen EXCEPT !.status = "result", !.result = spec]
  <2>2. spec \in Specs
    BY <1>1 DEF Specs
  <2> HIDE DEF spec
  <2>3. ScreenOK(result)
    BY <1>1, <2>2 DEF ScreenOK, Screen
  <2>4. Set(IF c.live THEN result ELSE screen) /\ calls' = calls \ {c}
    BY <2>1 DEF Answer, spec
  <2> HIDE DEF result
  <2>5. QED
    BY <1>7, <2>3, <2>4
<1>11. CASE FilesAnswered(c)
  <2>1. ScreenOK([screen EXCEPT !.status = "idle", !.name = c.name])
    BY <1>1 DEF ScreenOK, Screen
  <2>2. QED
    BY <1>7, <1>11, <2>1 DEF FilesAnswered, Answer
<1>12. QED
  BY <1>3, <1>4, <1>5, <1>6, <1>8, <1>9, <1>10, <1>11 DEF Answered
LEMMA LoadTyped == ASSUME PageOK, Load PROVE PageOK'
<1> DEFINE none == {}
           old == NewCall(none, "me", Blank, Blank)
           new == [old EXCEPT !.authed = FALSE]
<1>1. CallSet(none) /\ Cardinality(none) < MaxCalls
  BY FS_EmptySet, ShellAssumption DEF CallSet
<1>2. user \in BOOLEAN /\ Blank \in Texts /\ loads \in Nat
  BY DEF PageOK, PageTyped, Texts
<1>3. calls' = {new}
  BY DEF Load
<1> HIDE DEF none
<1>4. old \in Call /\ old.kind = "me"
  <2>1. ASSUME NEW among, CallSet(among), Cardinality(among) < MaxCalls
        PROVE  NewCall(among, "me", Blank, Blank) \in Call
               /\ NewCall(among, "me", Blank, Blank).kind = "me"
    <3>1. CallSet(among \cup {NewCall(among, "me", Blank, Blank)})
      BY <1>2, <2>1, NewCallType
    <3>2. QED
      BY <3>1, NewCallKind DEF CallSet
  <2>2. QED
    BY <1>1, <2>1 DEF old
<1> HIDE DEF old
<1>5. new \in Call /\ new.kind = "me"
  BY <1>4 DEF Call
<1> HIDE DEF new
<1>6. CallSet(calls')
  BY <1>3, <1>5, FS_Singleton DEF CallSet
<1>7. /\ nav' = "dashboard" /\ step' = "choose" /\ draftFrom' = "choose" /\ openChart' = None
      /\ user' = FALSE /\ screen' = EmptyScreen /\ loads' = loads + 1
  BY DEF Load, Fresh
<1>8. ScreenOK(screen')
  BY <1>7, Emptied
<1>9. loads' \in Nat
  BY <1>2, <1>7
<1>10. QED
  BY <1>6, <1>7, <1>8, <1>9 DEF PageOK, PageTyped, Navs, StepNames, Froms

PageInv == PageOK /\ ListsInv /\ NavInv

LEMMA PageInit == Init => PageInv
<1> SUFFICES ASSUME Init PROVE PageInv
  OBVIOUS
<1>1. CallSet(calls)
  BY FS_EmptySet DEF Init, CallSet
<1>2. PageOK
  BY <1>1, Emptied DEF Init, PageOK, PageTyped, Navs, StepNames, Froms
<1>3. QED
  BY <1>2, ListsInit, NavInit DEF PageInv

LEMMA PageStep == PageInv /\ [Next]_vars => PageInv'
<1> SUFFICES ASSUME PageInv, [Next]_vars PROVE PageInv'
  OBVIOUS
<1>1. ListsInv' /\ NavInv'
  BY ListsStep, NavStep DEF PageInv, PageOK
<1>2. CASE UNCHANGED page
  BY <1>1, <1>2 DEF page, route, PageInv, PageOK, PageTyped
<1>3. CASE refreshCharts \/ UNCHANGED vars \/ \E name, text : OtherTab(name, text)
  BY <1>2, <1>3 DEF refreshCharts, vars, OtherTab
<1>4. PageOK' => PageInv'
  BY <1>1 DEF PageInv
<1>5. QED
  BY <1>3, <1>4, LoadTyped, ClicksTyped, AnsweredTyped DEF Next, PageInv, NavInv

LEMMA PageAlways == Spec => []PageInv
  BY PageInit, PageStep, PTL DEF Spec

(* Types: a route has what its screen needs, a summary is of an import,    *)
(* and while there is room a new call has an id of its own.                *)
THEOREM ShellTypeCorrect == Spec => []TypeOK
<1>1. PageInv => TypeOK
  BY DEF PageInv, PageOK, PageTyped, CallSet, ScreenOK, ListsInv, Froms, Navs, StepNames, TypeOK
<1>2. QED
  BY <1>1, PageAlways, PTL

(* Where storage takes writes, or gives nothing back, the list that the    *)
(* page reads is of the charts this browser was told of, each with the     *)
(* spec last answered, however many tabs, reloads and failed calls there   *)
(* are.                                                                    *)
THEOREM RemembersAnsweredAlways == Spec => []RemembersAnswered
<1>1. PageInv => RemembersAnswered
  BY DEF PageInv, ListsInv, RemembersAnswered, SessionCoherent
<1>2. QED
  BY <1>1, PageAlways, PTL
-----------------------------------------------------------------------------
(* A screen and its calls.                                                 *)

Homes == {<<"draft", "prompt">>, <<"import", "compose">>, <<"read", "compose">>,
          <<"submit", "form">>, <<"files", "explorer">>}

(* A call is alive on the screen that makes calls of its kind, and a       *)
(* screen waits for one at most: the explorer for the files of its chart.  *)
ScreenInv ==
  /\ \A c \in calls : c.live = TRUE => <<c.kind, shown>> \in Homes
  /\ \A c, d \in Own : c = d
  /\ screen.status = "busy" <=> Own # {}
  /\ screen.file # Blank => screen.text = screen.file
  /\ shown = "explorer" =>
       /\ \A c \in Own : c.name = openChart.name
       /\ Pane = "files" => screen.name = openChart.name

(* A screen that is mounted is idle and names no file.                     *)
LEMMA SeedFields ==
  /\ EmptyScreen.status = "idle" /\ EmptyScreen.file = Blank
  /\ \A spec : FormSeed(spec).status = "idle" /\ FormSeed(spec).file = Blank
<1>1. EmptyScreen.status = "idle" /\ EmptyScreen.file = Blank
  BY DEF EmptyScreen
<1>2. ASSUME NEW name, NEW text
      PROVE  LET s == [EmptyScreen EXCEPT !.name = name, !.text = text] IN
             s.status = "idle" /\ s.file = Blank
  BY DEF EmptyScreen
<1>3. QED
  BY <1>1, <1>2 DEF FormSeed

(* Another route, or the same.                                             *)
LEMMA GoScreen ==
  ASSUME PageTyped, ScreenInv, NEW n, NEW s, NEW spec,
         NEW chart \in Row \cup {None}, NEW authed, NEW pending \in SUBSET calls,
         Go(n, s, spec, chart, authed, pending), s \in StepNames,
         Rendered(n, s, chart, authed) = "explorer" =>
           IF shown = "explorer" THEN chart = openChart ELSE Room,
         Rendered(n, s, chart, authed) = shown => Own \subseteq pending
  PROVE  ScreenInv'
<1> DEFINE kind == Rendered(n, s, chart, authed)
           orphaned == {[c EXCEPT !.live = FALSE] : c \in pending}
           new == NewCall(orphaned, "files", chart.name, Blank)
           fetch == kind = "explorer" /\ Fetches(chart)
<1>1. shown' = kind /\ openChart' = chart
  BY DEF Go, shown
<1>2. CASE kind = shown
  <2>1. screen' = screen /\ calls' = pending
    BY <1>2 DEF Go
  <2>2. Own' = Own /\ calls' \subseteq calls
    BY <1>2, <2>1 DEF Own
  <2>3. kind = "explorer" => openChart' = openChart /\ Pane' = Pane
    BY <1>1, <1>2, <2>1 DEF Pane
  <2> HIDE DEF kind
  <2>4. QED
    BY <1>1, <1>2, <2>1, <2>2, <2>3 DEF ScreenInv
<1>3. CASE kind # shown
  <2>1. \A c \in orphaned : c.live = FALSE
    BY Orphans DEF PageTyped
  <2>2. CASE ~fetch
    <3>1. calls' = orphaned /\ screen' \in {FormSeed(spec), EmptyScreen}
      BY <1>3, <2>2 DEF Go
    <3>2. screen'.status = "idle" /\ screen'.file = Blank
      BY <3>1, SeedFields
    <3> HIDE DEF orphaned
    <3>3. Own' = {}
      BY <2>1, <3>1 DEF Own
    <3>4. shown' = "explorer" => Pane' = "failure"
      <4>1. shown' = "explorer" => ~Fetches(openChart')
        BY <1>1, <2>2
      <4> HIDE DEF kind, fetch
      <4>2. QED
        BY <3>2, <4>1 DEF Pane
    <3>5. \A c \in calls' : c.live # TRUE
      BY <2>1, <3>1
    <3>6. QED
      BY <3>2, <3>3, <3>4, <3>5 DEF ScreenInv
  <2>3. CASE fetch
    <3>1. calls' = orphaned \cup {new} /\ screen' = [EmptyScreen EXCEPT !.status = "busy"]
      BY <1>3, <2>3 DEF Go
    <3>2. screen'.status = "busy" /\ screen'.file = Blank
      BY <3>1 DEF EmptyScreen
    <3>3. CallSet(orphaned) /\ Cardinality(orphaned) < MaxCalls
      <4>1. CallSet(orphaned) /\ Cardinality(orphaned) <= Cardinality(calls)
        BY Orphans DEF PageTyped
      <4>2. Cardinality(calls) < MaxCalls
        BY <1>3, <2>3 DEF Room
      <4> HIDE DEF orphaned
      <4>3. Cardinality(orphaned) \in Nat /\ Cardinality(calls) \in Nat /\ MaxCalls \in Nat
        BY <4>1, FS_CardinalityType, ShellAssumption DEF PageTyped, CallSet
      <4>4. QED
        BY <4>1, <4>2, <4>3
    <3>4. chart \in Row
      BY <2>3 DEF Rendered, StepNames
    <3>5. chart.name \in Names \cup {Blank} /\ Blank \in Texts
      BY <3>4 DEF Row, Texts
    <3> HIDE DEF orphaned
    <3>6. new.kind = "files" /\ new.live = TRUE /\ new.name = chart.name
      BY DEF NewCall
    <3> HIDE DEF new
    <3>7. Own' = {new}
      BY <2>1, <3>1, <3>6 DEF Own
    <3>8. shown' = "explorer" /\ openChart' = chart /\ Pane' = "loading"
      BY <1>1, <2>3, <3>2 DEF Pane
    <3>9. \A c \in calls' : c.live = TRUE => c = new
      BY <2>1, <3>1
    <3>10. QED
      BY <3>2, <3>6, <3>7, <3>8, <3>9 DEF ScreenInv, Homes
  <2>4. QED
    BY <2>2, <2>3
<1>4. QED
  BY <1>2, <1>3

(* The screen stays: nothing is answered or asked.                         *)
LEMMA SetScreen ==
  ASSUME ScreenInv, UNCHANGED <<calls, route, user>>, shown # "explorer",
         screen'.status = "busy" <=> screen.status = "busy",
         screen'.file # Blank => screen'.text = screen'.file
  PROVE  ScreenInv'
<1>1. shown' = shown /\ Own' = Own
  BY DEF shown, Own, route
<1>2. QED
  BY <1>1 DEF ScreenInv

(* A call of the screen that it does not wait for, or nobody's.            *)
LEMMA AsideScreen ==
  ASSUME ScreenInv, NEW new, calls' = calls \cup {new}, UNCHANGED <<route, user, screen>>,
         new.live = FALSE \/ (new.kind = "read" /\ shown = "compose")
  PROVE  ScreenInv'
<1>1. shown' = shown /\ Own' = Own /\ openChart' = openChart
  BY DEF shown, Own, route
<1>2. Pane' = Pane
  BY DEF Pane, route
<1>3. QED
  BY <1>1, <1>2 DEF ScreenInv, Homes

LEMMA AskScreen ==
  ASSUME ScreenInv, NEW kind, <<kind, shown>> \in Homes, kind \notin {"read", "files"},
         screen \in Screen, Ask(kind)
  PROVE  ScreenInv'
<1> DEFINE new == NewCall(calls, kind, screen.name, screen.text)
<1>1. new.kind = kind /\ new.live = TRUE
  BY DEF NewCall, Homes
<1> HIDE DEF new
<1>2. /\ screen.status # "busy" /\ screen' = [screen EXCEPT !.status = "busy"]
      /\ calls' = calls \cup {new} /\ UNCHANGED <<route, user>>
  BY DEF Ask, Set, new
<1>3. Own = {}
  BY <1>2 DEF ScreenInv
<1>4. Own' = {new}
  BY <1>1, <1>2, <1>3 DEF Own
<1>5. shown' = shown /\ shown # "explorer"
  BY <1>2 DEF shown, route, Homes
<1>6. /\ screen'.status = "busy" /\ screen'.file = screen.file /\ screen'.text = screen.text
  BY <1>2 DEF Screen
<1>7. QED
  BY <1>1, <1>2, <1>4, <1>5, <1>6 DEF ScreenInv

(* An answer that the screen does not take.                                *)
LEMMA LostScreen ==
  ASSUME ScreenInv, NEW c \in calls, c \notin Own, calls' = calls \ {c},
         UNCHANGED <<route, user, screen>>
  PROVE  ScreenInv'
<1>1. shown' = shown /\ Own' = Own /\ openChart' = openChart
  BY DEF shown, Own, route
<1>2. Pane' = Pane
  BY DEF Pane, route
<1>3. QED
  BY <1>1, <1>2 DEF ScreenInv

(* One that it waited for.                                                 *)
LEMMA TakenScreen ==
  ASSUME ScreenInv, NEW c \in Own, calls' = calls \ {c}, UNCHANGED <<route, user>>,
         screen'.status # "busy", screen'.file # Blank => screen'.text = screen'.file,
         shown = "explorer" => screen'.status = "error" \/ screen'.name = c.name
  PROVE  ScreenInv'
<1>1. shown' = shown /\ openChart' = openChart
  BY DEF shown, route
<1>2. Own = {c} /\ Own' = {}
  BY DEF Own, ScreenInv
<1>3. shown = "explorer" => c.name = openChart.name
  BY DEF ScreenInv
<1>4. shown = "explorer" => (Pane' = "files" => screen'.name = openChart'.name)
  BY <1>1, <1>3 DEF Pane
<1>5. QED
  BY <1>1, <1>2, <1>4 DEF ScreenInv
LEMMA VisitScreen ==
  ASSUME PageOK, ScreenInv, NEW n \in Navs \ {"explorer"}, NEW s \in StepNames, NEW spec,
         NEW from, NEW chart \in Row \cup {None}, Visit(n, s, spec, from, chart)
  PROVE  ScreenInv'
<1>1. Go(n, s, spec, chart, user, calls) /\ Own \subseteq calls
  BY DEF Visit, Own
<1>2. Rendered(n, s, chart, user) # "explorer"
  BY DEF Rendered, Navs, StepNames
<1>3. QED
  BY <1>1, <1>2, GoScreen DEF PageOK

LEMMA ClicksScreen == ASSUME PageOK, ScreenInv, Clicks PROVE ScreenInv'
<1>1. \A spec, from : \A n \in Navs \ {"explorer"}, s \in StepNames, chart \in Row \cup {None} :
        Visit(n, s, spec, from, chart) => ScreenInv'
  BY VisitScreen
<1>2. /\ step \in StepNames /\ draftFrom \in StepNames
      /\ openChart \in Row \cup {None} /\ screen \in Screen
      /\ None \in Row \cup {None}
      /\ {"choose", "prompt", "compose", "form"} \subseteq StepNames
      /\ {"dashboard", "generate", "charts", "profile"} \subseteq Navs \ {"explorer"}
  BY DEF PageOK, PageTyped, ScreenOK, Froms, StepNames, Navs
<1>3. CASE goDashboard
  BY <1>1, <1>2, <1>3 DEF goDashboard
<1>4. CASE goGenerate
  BY <1>1, <1>2, <1>4 DEF goGenerate
<1>5. CASE BackToChoose
  BY <1>1, <1>2, <1>5 DEF BackToChoose
<1>6. CASE BackFromForm
  BY <1>1, <1>2, <1>6 DEF BackFromForm
<1>7. CASE BackFromProfile
  BY <1>1, <1>2, <1>7 DEF BackFromProfile
<1>8. CASE proceed
  <2>1. PICK spec : Visit("generate", "form", spec, "compose", openChart)
    BY <1>8, Zenon DEF proceed
  <2>2. QED
    BY <1>1, <1>2, <2>1
<1>9. CASE onProfile
  <2>1. Visit("profile", step, None, draftFrom, None)
    BY <1>9, Zenon DEF onProfile
  <2>2. QED
    BY <1>1, <1>2, <2>1
<1>10. CASE goCharts
  <2>1. Go("charts", step, None, None, user, calls) /\ Own \subseteq calls
    BY <1>10 DEF goCharts, Own
  <2>2. Rendered("charts", step, None, user) # "explorer"
    BY DEF Rendered
  <2>3. QED
    BY <1>2, <2>1, <2>2, GoScreen DEF PageOK
<1>11. CASE signOut
  <2>1. NewCall(calls, "logout", Blank, Blank).live = FALSE
    BY DEF NewCall
  <2>2. QED
    BY <1>11, <2>1, AsideScreen DEF signOut
<1>12. CASE draft \/ submit
  <2>1. \/ shown = "prompt" /\ Ask("draft")
        \/ shown = "compose" /\ Ask("import")
        \/ shown = "form" /\ Ask("submit")
    BY <1>12 DEF draft, submit, Prompting, Composing
  <2>2. QED
    BY <1>2, <2>1, AskScreen DEF Homes
<1>13. CASE backToInputs
  <2> DEFINE fields == [screen EXCEPT !.status = "idle"]
  <2>1. shown = "compose" /\ screen.status = "result" /\ screen' = fields
        /\ UNCHANGED <<calls, route, user>>
    BY <1>13 DEF backToInputs, Set, Keep
  <2>2. fields.status = "idle" /\ fields.file = screen.file /\ fields.text = screen.text
    BY <1>2 DEF Screen
  <2> HIDE DEF fields
  <2>3. QED
    BY <2>1, <2>2, SetScreen DEF ScreenInv
<1>14. ASSUME NEW option \in {"manual", "prompt", "compose"}, Choose(option) PROVE ScreenInv'
  <2>1. CASE option = "manual"
    BY <1>1, <1>2, <1>14, <2>1 DEF Choose
  <2>2. CASE option # "manual"
    BY <1>1, <1>2, <1>14, <2>2 DEF Choose
  <2>3. QED
    BY <2>1, <2>2
<1>15. ASSUME NEW row \in Row, OpenRow(row) PROVE ScreenInv'
  <2>1. ASSUME openChartView(row), shown # "explorer" PROVE ScreenInv'
    <3>1. CASE row.phase = "Expired"
      <4>1. PICK spec : Visit("generate", "form", spec, "choose", None)
        BY <2>1, <3>1, Zenon DEF openChartView
      <4>2. QED
        BY <1>1, <1>2, <4>1
    <3>2. CASE row.phase # "Expired"
      <4>1. Room /\ Go("explorer", step, None, row, user, calls) /\ Own \subseteq calls
        BY <2>1, <3>2 DEF openChartView, Own
      <4>2. QED
        BY <1>2, <2>1, <4>1, GoScreen DEF PageOK
    <3>3. QED
      BY <3>1, <3>2
  <2>2. QED
    BY <1>10, <1>15, <2>1 DEF OpenRow, RecentRow
<1>16. ASSUME NEW name, NEW text, Type(name, text) PROVE ScreenInv'
  <2> DEFINE file == IF text = screen.text THEN screen.file ELSE Blank
             fields == [screen EXCEPT !.name = name, !.text = text, !.file = file]
  <2>1. fields.status = screen.status /\ fields.file = file /\ fields.text = text
    BY <1>2 DEF Screen
  <2>2. screen' = fields
    BY <1>16 DEF Type, Set
  <2>3. shown # "explorer" /\ UNCHANGED <<calls, route, user>>
    BY <1>16 DEF Type, Set, Keep, Prompting, Composing
  <2>4. file # Blank => text = file
    BY DEF ScreenInv
  <2> HIDE DEF fields, file
  <2>5. QED
    BY <2>1, <2>2, <2>3, <2>4, SetScreen
<1>17. ASSUME NEW file, readFile(file) PROVE ScreenInv'
  <2>1. NewCall(calls, "read", Blank, file).kind = "read" /\ shown = "compose"
    BY <1>17, NewCallKind DEF readFile, Composing
  <2>2. QED
    BY <1>17, <2>1, AsideScreen DEF readFile
<1>18. QED
  BY <1>3, <1>4, <1>5, <1>6, <1>7, <1>8, <1>9, <1>10, <1>11, <1>12, <1>13, <1>14, <1>15,
     <1>16, <1>17 DEF Clicks

LEMMA AnsweredScreen ==
  ASSUME PageOK, NavInv, ScreenInv, NEW c \in calls, Answered(c) PROVE ScreenInv'
<1> DEFINE pending == calls \ {c}
<1>1. /\ nav \in Navs /\ step \in StepNames /\ openChart \in Row \cup {None}
      /\ screen \in Screen /\ pending \in SUBSET calls
      /\ c.live = TRUE => <<c.kind, shown>> \in Homes
      /\ c \in Own <=> c.live = TRUE /\ c.kind # "read"
      /\ c \notin Own => Own \subseteq pending
  BY CallFields DEF PageOK, PageTyped, ScreenOK, ScreenInv, Own, CallSet, Call
<1>2. nav \in {"generate", "explorer"} => \A s, authed :
        Rendered(nav, s, openChart, authed) = IF nav = "generate" THEN s ELSE "explorer"
  BY DEF NavInv, RouteInv, Rendered
<1>3. CASE MeAnswered(c)
  <2>1. PICK authed \in BOOLEAN : Go(nav, step, None, openChart, authed, pending)
    BY <1>3 DEF MeAnswered
  <2>2. user = FALSE /\ nav # "profile" /\ c \notin Own
    BY <1>1, <1>3 DEF MeAnswered, NavInv, RouteInv, CallsInv, Homes
  <2>3. Rendered(nav, step, openChart, authed) = shown
    BY <2>2 DEF shown, Rendered
  <2>4. QED
    BY <1>1, <2>1, <2>2, <2>3, GoScreen DEF PageOK
<1>4. CASE LoggedOut(c)
  <2>1. Go("charts", step, None, None, FALSE, pending) /\ c \notin Own
    BY <1>1, <1>4 DEF LoggedOut, Homes
  <2>2. Rendered("charts", step, None, FALSE) # "explorer"
    BY DEF Rendered
  <2>3. QED
    BY <1>1, <2>1, <2>2, GoScreen DEF PageOK
<1>5. CASE Drafted(c)
  <2>1. PICK spec : Go(nav, "form", spec, openChart, user, pending)
    BY <1>5, Zenon DEF Drafted
  <2>2. Rendered(nav, "form", openChart, user) = "explorer" => shown = "explorer"
    BY <1>1 DEF shown, Rendered, Navs, NavInv, RouteInv
  <2>3. c \in Own => shown = "prompt"
    BY <1>1, <1>5 DEF Drafted, Homes
  <2>4. Rendered(nav, "form", openChart, user) = shown => shown # "prompt"
    BY DEF Rendered, Navs, NavInv, RouteInv, PageOK, PageTyped
  <2>5. QED
    BY <1>1, <2>1, <2>2, <2>3, <2>4, GoScreen DEF PageOK, StepNames
<1>6. CASE Submitted(c)
  <2>1. Go("charts", "choose", None, openChart, user, pending)
    BY <1>6 DEF Submitted
  <2>2. Rendered("charts", "choose", openChart, user) = "charts"
    BY DEF Rendered
  <2>3. c \in Own => shown = "form"
    BY <1>1, <1>6 DEF Submitted, Homes
  <2>4. QED
    BY <1>1, <2>1, <2>2, <2>3, GoScreen DEF PageOK, StepNames
<1>7. ASSUME NEW result, Answer(c, result), c.kind # "read",
             c \in Own => /\ result.status # "busy"
                          /\ result.file # Blank => result.text = result.file
                          /\ shown = "explorer" => result.status = "error" \/ result.name = c.name
      PROVE  ScreenInv'
  <2>1. UNCHANGED <<route, user>> /\ calls' = calls \ {c}
        /\ screen' = IF c.live = TRUE THEN result ELSE screen
    BY <1>7, CallFields DEF Answer, Set, PageOK, Call
  <2>2. CASE c \in Own
    BY <1>1, <1>7, <2>1, <2>2, TakenScreen
  <2>3. CASE c \notin Own
    BY <1>1, <1>7, <2>1, <2>3, LostScreen
  <2>4. QED
    BY <2>2, <2>3
<1>8. CASE onload(c)
  <2> DEFINE result == [screen EXCEPT !.text = c.text, !.file = c.text]
  <2>1. /\ c.kind = "read" /\ calls' = calls \ {c} /\ UNCHANGED <<route, user>>
        /\ screen' = IF c.live = TRUE THEN result ELSE screen
    BY <1>8, CallFields DEF onload, Set, PageOK, Call
  <2>2. result.status = screen.status /\ result.text = c.text /\ result.file = c.text
    BY <1>1 DEF Screen
  <2> HIDE DEF result
  <2>3. CASE c.live = TRUE
    <3>1. shown # "explorer" /\ Own' = Own /\ shown' = shown
      BY <1>1, <2>1, <2>3 DEF Homes, Own, shown, route
    <3>2. QED
      BY <2>1, <2>2, <2>3, <3>1 DEF ScreenInv
  <2>4. CASE c.live # TRUE
    BY <1>1, <2>1, <2>4, LostScreen
  <2>5. QED
    BY <2>3, <2>4
<1>9. CASE Fails(c)
  <2> DEFINE result == [screen EXCEPT !.status = "error"]
  <2>1. result.status = "error" /\ result.text = screen.text /\ result.file = screen.file
    BY <1>1 DEF Screen
  <2>2. Answer(c, result) /\ c.kind # "read"
    BY <1>9 DEF Fails
  <2> HIDE DEF result
  <2>3. QED
    BY <1>7, <2>1, <2>2 DEF ScreenInv
<1>10. CASE Imported(c)
  <2>1. PICK spec : Answer(c, [screen EXCEPT !.status = "result", !.result = spec])
    BY <1>10, Zenon DEF Imported
  <2> DEFINE result == [screen EXCEPT !.status = "result", !.result = spec]
  <2>2. result.status = "result" /\ result.text = screen.text /\ result.file = screen.file
    BY <1>1 DEF Screen
  <2>3. c.kind = "import" /\ (c \in Own => shown = "compose")
    BY <1>1, <1>10 DEF Imported, Homes
  <2> HIDE DEF result
  <2>4. Answer(c, result)
    BY <2>1 DEF result
  <2>5. QED
    BY <1>7, <2>2, <2>3, <2>4 DEF ScreenInv
<1>11. CASE FilesAnswered(c)
  <2> DEFINE result == [screen EXCEPT !.status = "idle", !.name = c.name]
  <2>1. result.status = "idle" /\ result.text = screen.text /\ result.file = screen.file
        /\ result.name = c.name
    BY <1>1 DEF Screen
  <2>2. Answer(c, result) /\ c.kind # "read"
    BY <1>11 DEF FilesAnswered
  <2> HIDE DEF result
  <2>3. QED
    BY <1>7, <2>1, <2>2 DEF ScreenInv
<1>12. QED
  BY <1>3, <1>4, <1>5, <1>6, <1>8, <1>9, <1>10, <1>11 DEF Answered
LEMMA ScreenInit == Init => ScreenInv
BY SeedFields DEF Init, ScreenInv, Own, shown, Rendered

LEMMA ScreenStep == PageInv /\ ScreenInv /\ [Next]_vars => ScreenInv'
<1> SUFFICES ASSUME PageInv, ScreenInv, [Next]_vars PROVE ScreenInv'
  OBVIOUS
<1>1. CASE Load
  <2>1. PICK c : calls' = {[c EXCEPT !.authed = FALSE]} /\ c = NewCall({}, "me", Blank, Blank)
    BY <1>1, Zenon DEF Load
  <2>2. [c EXCEPT !.authed = FALSE].live = FALSE
    BY <2>1 DEF NewCall
  <2>3. Own' = {} /\ \A d \in calls' : d.live # TRUE
    BY <2>1, <2>2 DEF Own
  <2>4. nav' = "dashboard" /\ screen' = EmptyScreen
    BY <1>1 DEF Load, Fresh
  <2>5. QED
    BY <2>3, <2>4, SeedFields DEF ScreenInv, shown, Rendered
<1>2. CASE UNCHANGED page
  <2>1. Pane' = Pane /\ shown' = shown /\ Own' = Own
    BY <1>2 DEF page, route, Pane, shown, Own
  <2>2. QED
    BY <1>2, <2>1 DEF ScreenInv, page, route
<1>3. CASE refreshCharts \/ UNCHANGED vars \/ \E name, text : OtherTab(name, text)
  BY <1>2, <1>3 DEF refreshCharts, vars, OtherTab
<1>4. QED
  BY <1>1, <1>3, ClicksScreen, AnsweredScreen DEF Next, PageInv

LEMMA ScreenAlways == Spec => []ScreenInv
  BY ScreenInit, ScreenStep, PageAlways, PTL DEF Spec

(* A screen says that it is busy exactly while one call of its own is      *)
(* under way, whatever is visited and answered in which order.             *)
THEOREM BusyOnlyWithCallAlways == Spec => []BusyOnlyWithCall
<1>1. ScreenInv => BusyOnlyWithCall
  <2> SUFFICES ASSUME ScreenInv PROVE BusyOnlyWithCall
    OBVIOUS
  <2>1. CASE Own = {}
    BY <2>1, FS_EmptySet DEF ScreenInv, BusyOnlyWithCall
  <2>2. CASE Own # {}
    <3>1. PICK c \in Own : Own = {c}
      BY <2>2 DEF ScreenInv
    <3>2. Cardinality(Own) = 1
      BY <3>1, FS_Singleton
    <3>3. QED
      BY <2>2, <3>2 DEF ScreenInv, BusyOnlyWithCall
  <2>3. QED
    BY <2>1, <2>2
<1>2. QED
  BY <1>1, ScreenAlways, PTL

(* The file name on the compose screen is that of the text beside it.      *)
THEOREM FileNameIsTextAlways == Spec => []FileNameIsText
<1>1. ScreenInv => FileNameIsText
  BY DEF ScreenInv, FileNameIsText
<1>2. QED
  BY <1>1, ScreenAlways, PTL

(* The explorer never shows the files of a chart that was open before.     *)
THEOREM FilesOfOpenChartAlways == Spec => []FilesOfOpenChart
<1>1. ScreenInv => FilesOfOpenChart
  BY DEF ScreenInv, FilesOfOpenChart
<1>2. QED
  BY <1>1, ScreenAlways, PTL

(* A route that shows what is shown keeps it.                              *)
LEMMA GoKeepsScreen ==
  ASSUME NEW n, NEW s, NEW spec, NEW chart, NEW authed, NEW pending,
         Go(n, s, spec, chart, authed, pending), shown' = shown
  PROVE  screen' = screen
<1>1. shown' = Rendered(n, s, chart, authed)
  BY DEF Go, shown
<1>2. QED
  BY <1>1 DEF Go

(* A click that ends a call leaves its screen.                             *)
LEMMA ClicksKeepCalls ==
  ASSUME Clicks, shown' = shown, NEW c \in calls, c \notin calls'
  PROVE  screen' = screen
<1>1. \A n, s, spec, from, chart : Visit(n, s, spec, from, chart) => screen' = screen
  BY GoKeepsScreen DEF Visit
<1>2. CASE goDashboard \/ goGenerate \/ BackToChoose \/ BackFromForm \/ BackFromProfile
           \/ proceed \/ onProfile
  <2>1. \E n, s, spec, from, chart : Visit(n, s, spec, from, chart)
    <3>1. CASE proceed
      BY <3>1, Zenon DEF proceed
    <3>2. CASE ~proceed
      BY <1>2, <3>2, Zenon DEF goDashboard, goGenerate, BackToChoose, BackFromForm,
         BackFromProfile, onProfile
    <3>3. QED
      BY <3>1, <3>2
  <2>2. QED
    BY <1>1, <2>1
<1>3. CASE goCharts
  BY <1>3, GoKeepsScreen DEF goCharts
<1>4. ASSUME NEW option, Choose(option) PROVE screen' = screen
  BY <1>1, <1>4, Zenon DEF Choose
<1>5. ASSUME NEW row, OpenRow(row) PROVE screen' = screen
  <2>1. ASSUME openChartView(row) PROVE screen' = screen
    <3>1. CASE row.phase = "Expired"
      BY <1>1, <2>1, <3>1, Zenon DEF openChartView
    <3>2. CASE row.phase # "Expired"
      <4>1. Go("explorer", step, None, row, user, calls)
        BY <2>1, <3>2 DEF openChartView
      <4>2. QED
        BY <4>1, GoKeepsScreen
    <3>3. QED
      BY <3>1, <3>2
  <2>2. QED
    BY <1>3, <1>5, <2>1 DEF OpenRow, RecentRow
<1>6. CASE signOut \/ draft \/ submit \/ backToInputs \/ (\E name, text : Type(name, text))
           \/ \E file : readFile(file)
  <2>1. calls \subseteq calls'
    BY <1>6 DEF signOut, draft, submit, Ask, backToInputs, Type, Keep, readFile
  <2>2. QED
    BY <2>1
<1>7. QED
  BY <1>2, <1>3, <1>4, <1>5, <1>6 DEF Clicks

LEMMA AnsweredKeepsInput ==
  ASSUME screen \in Screen, NEW c \in calls, Answered(c), shown' = shown,
         NEW d \in calls, d.kind # "read", d \notin calls', shown # "explorer",
         ScreenInv, PageOK
  PROVE  Inputs(screen') = Inputs(screen)
<1>1. CASE MeAnswered(c) \/ LoggedOut(c) \/ Drafted(c) \/ Submitted(c)
  <2>1. \E n, s, spec, chart, authed, pending : Go(n, s, spec, chart, authed, pending)
    <3>1. CASE MeAnswered(c)
      BY <3>1, Zenon DEF MeAnswered
    <3>2. CASE LoggedOut(c)
      BY <3>2, Zenon DEF LoggedOut
    <3>3. CASE Drafted(c)
      BY <3>3, Zenon DEF Drafted
    <3>4. CASE Submitted(c)
      BY <3>4, Zenon DEF Submitted
    <3>5. QED
      BY <1>1, <3>1, <3>2, <3>3, <3>4
  <2>2. QED
    BY <2>1, GoKeepsScreen
<1>2. CASE onload(c)
  <2>1. c = d
    BY <1>2 DEF onload
  <2>2. QED
    BY <1>2, <2>1 DEF onload
<1>3. ASSUME NEW result, Answer(c, result), Inputs(result) = Inputs(screen)
      PROVE  Inputs(screen') = Inputs(screen)
  BY <1>3 DEF Answer, Set
<1>4. CASE Fails(c)
  <2>1. Inputs([screen EXCEPT !.status = "error"]) = Inputs(screen)
    BY DEF Inputs, Screen
  <2>2. QED
    BY <1>3, <1>4, <2>1 DEF Fails
<1>5. CASE Imported(c)
  <2>1. PICK spec : Answer(c, [screen EXCEPT !.status = "result", !.result = spec])
    BY <1>5, Zenon DEF Imported
  <2>2. Inputs([screen EXCEPT !.status = "result", !.result = spec]) = Inputs(screen)
    BY DEF Inputs, Screen
  <2>3. QED
    BY <1>3, <2>1, <2>2
<1>6. CASE FilesAnswered(c)
  <2>1. c.live # TRUE
    BY <1>6 DEF FilesAnswered, ScreenInv, Homes
  <2>2. c.live \in BOOLEAN
    BY CallFields DEF PageOK, Call
  <2>3. QED
    BY <1>6, <2>1, <2>2 DEF FilesAnswered, Answer, Set
<1>7. QED
  BY <1>1, <1>2, <1>4, <1>5, <1>6 DEF Answered

(* No answer, late or not, success or failure, changes what was typed into *)
(* the screen that stays.                                                  *)
THEOREM AnswersKeepInputAlways == Spec => AnswersKeepInput
<1> DEFINE Kept == \A c \in calls :
             c.kind # "read" /\ c \notin calls' /\ shown' = shown /\ shown # "explorer"
               => Inputs(screen') = Inputs(screen) \/ loads' # loads
<1>1. PageInv /\ ScreenInv /\ [Next]_vars => [Kept]_vars
  <2> SUFFICES ASSUME PageInv, ScreenInv, Next, NEW c \in calls, c.kind # "read",
                      c \notin calls', shown' = shown, shown # "explorer"
               PROVE  Inputs(screen') = Inputs(screen) \/ loads' # loads
    OBVIOUS
  <2>1. screen \in Screen /\ loads \in Nat
    BY DEF PageInv, PageOK, PageTyped, ScreenOK
  <2>2. CASE Load
    BY <2>1, <2>2 DEF Load
  <2>3. CASE Clicks
    BY <2>3, ClicksKeepCalls
  <2>4. ASSUME NEW d \in calls, Answered(d) PROVE Inputs(screen') = Inputs(screen)
    BY <2>1, <2>4, AnsweredKeepsInput DEF PageInv
  <2>5. CASE refreshCharts \/ \E name, text : OtherTab(name, text)
    BY <2>5 DEF refreshCharts, OtherTab, page
  <2>6. QED
    BY <2>2, <2>3, <2>4, <2>5 DEF Next
<1>2. QED
  BY <1>1, PageAlways, ScreenAlways, PTL DEF Spec, AnswersKeepInput
=============================================================================
