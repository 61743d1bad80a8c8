-------------------------------- MODULE Shell --------------------------------
(***************************************************************************)
(* One tab of the web app around the list of charts (ChartsPage) and the   *)
(* form's editor (SpecForm): what AppShell.jsx shows, the screens' own     *)
(* state, and the calls under way, which nothing cancels.  A screen that   *)
(* is left forgets its state; the answer to its call still comes, and what *)
(* it does to the page, as opposed to the screen, it does all the same.    *)
(* A spec is a name and a text standing for the rest.  The list is         *)
(* refreshed in one step, and its rows are any that a refresh may show.    *)
(* draftSpec is left out: only a form that mounts reads it, and whatever   *)
(* leads to the form sets it in the same step.                             *)
(***************************************************************************)
EXTENDS LocalStore

CONSTANTS
  Names,          \* chart names
  Blank,          \* an empty input
  Typed,          \* texts that are typed
  Files,          \* compose files; a file's text is named like the file
  StorageModes,   \* values of storage
  MaxCalls,       \* bound on calls under way
  MaxLoads        \* bound on loads of the page

ASSUME ShellAssumption ==
  /\ StorageModes \subseteq {"all", "reads", "none"} /\ MaxCalls \in Nat \ {0} /\ MaxLoads \in Nat
  /\ Files \subseteq Typed /\ Blank \notin Names \cup Typed

VARIABLES
  nav, step,      \* the tab, and the step of the wizard under "generate"
  draftFrom,      \* the step Back returns to from the form
  openChart,      \* the row being explored
  user,           \* somebody is signed in ("authed")
  screen,         \* what is mounted: inputs, status, and what was fetched
  calls,          \* calls whose answer is still to come
  loads,          \* loads of the page so far
  answered        \* not in the code: what anonymous charts were generated from

route == <<nav, step, draftFrom, openChart>>
page == <<route, user, screen, calls, loads>>
vars == <<page, store, answered>>

Texts == {Blank} \cup Typed
SpecOf(name, text) == [name |-> name, text |-> text]
Specs == {SpecOf(name, text) : name \in Names \cup {Blank}, text \in Texts}
Phases == {"Pending", "Ready", "Failed", "Expired"}
Row == [name : Names, phase : Phases]
ASSUME NoneIsNotARow == None \notin Row

(* name and text are the inputs.  In the explorer, name is the chart whose *)
(* files are shown.                                                        *)
Screen ==
  [name : Names \cup {Blank}, text : Texts, file : Files \cup {Blank},
   status : {"idle", "busy", "error", "result"}, result : Specs \cup {None}]

(* live: the screen that made the call is still there.                     *)
Call ==
  [id : 1..MaxCalls, kind : {"me", "logout", "draft", "import", "read", "submit", "files"},
   live : BOOLEAN, authed : BOOLEAN, name : Names \cup {Blank}, text : Texts]

(* The lists of anonymous charts: a chart's text by its name.              *)
Lists == UNION {[names -> Texts] : names \in SUBSET (Names \cup {Blank})}
ASSUME NoneIsNotAList == None \notin Lists

TypeOK ==
  /\ nav \in {"dashboard", "generate", "charts", "profile", "explorer"}
  /\ step \in {"choose", "prompt", "compose", "form"}
  /\ draftFrom \in {"choose", "prompt", "compose"}
  /\ openChart \in Row \cup {None} /\ user \in BOOLEAN
  /\ screen \in Screen /\ calls \subseteq Call
  /\ \A c, d \in calls : c.id = d.id => c = d
  /\ answered \in Lists /\ {stored.charts, memCharts} \subseteq Lists \cup {None}

-----------------------------------------------------------------------------
(* Mounting.                                                               *)

(* The screen that is rendered, if any.                                    *)
Rendered(n, s, chart, authed) ==
  CASE n = "generate" -> s
    [] (n = "explorer" /\ chart = None) \/ (n = "profile" /\ ~authed) -> "blank"
    [] OTHER -> n
shown == Rendered(nav, step, openChart, user)

EmptyScreen ==
  [name |-> Blank, text |-> Blank, file |-> Blank, status |-> "idle", result |-> None]
FormSeed(spec) ==
  IF spec = None THEN EmptyScreen ELSE [EmptyScreen EXCEPT !.name = spec.name, !.text = spec.text]

(* The explorer fetches a chart's files, unless it has failed.             *)
Fetches(chart) == chart.phase # "Failed"

Room == Cardinality(calls) < MaxCalls
NewCall(among, kind, name, text) ==
  [id |-> CHOOSE id \in 1..MaxCalls : \A c \in among : c.id # id,
   kind |-> kind, live |-> kind \notin {"me", "logout"}, authed |-> user, name |-> name, text |-> text]

(* Another route: if it renders another screen, that one starts afresh.    *)
(* spec is what a form is opened with, pending the calls still under way.  *)
Go(n, s, spec, chart, authed, pending) ==
  LET kind == Rendered(n, s, chart, authed)
      orphaned == {[c EXCEPT !.live = FALSE] : c \in pending}
      fetch == kind = "explorer" /\ Fetches(chart)
  IN /\ nav' = n /\ step' = s /\ openChart' = chart /\ user' = authed
     /\ IF kind = shown THEN screen' = screen /\ calls' = pending
        ELSE /\ screen' = CASE kind = "form"     -> FormSeed(spec)
                            [] fetch             -> [EmptyScreen EXCEPT !.status = "busy"]
                            [] OTHER             -> EmptyScreen
             /\ calls' = orphaned \cup
                  (IF fetch THEN {NewCall(orphaned, "files", chart.name, Blank)} ELSE {})
     /\ UNCHANGED loads

(* A click that sends nothing.                                             *)
Visit(n, s, spec, from, chart) ==
  /\ Go(n, s, spec, chart, user, calls) /\ draftFrom' = from
  /\ UNCHANGED <<store, answered>>

Requested == clientId(memClientId, sentAs) /\ UNCHANGED <<storage, memCharts, answered>>

-----------------------------------------------------------------------------
(* Loading, and who is signed in.                                          *)

Fresh ==
  /\ nav' = "dashboard" /\ step' = "choose" /\ draftFrom' = "choose"
  /\ openChart' = None /\ user' = FALSE /\ screen' = EmptyScreen

(* What an earlier page has left: nothing or a chart.                      *)
Remembered == {Recorded(NoCharts, name, text) : name \in Names, text \in Typed}

Init ==
  /\ nav = "dashboard" /\ step = "choose" /\ draftFrom = "choose"
  /\ openChart = None /\ user = FALSE /\ screen = EmptyScreen /\ calls = {} /\ loads = 0
  /\ storage \in StorageModes
  /\ \E charts \in {None} \cup Remembered :
       /\ storage = "none" => charts = None
       /\ stored = [clientId |-> None, charts |-> charts]
       /\ answered = IF charts = None THEN NoCharts ELSE charts
  /\ memClientId = None /\ memCharts = None /\ minted = 0 /\ sentAs = {}

(* The page asks who is signed in; it forgets all that is not stored.      *)
Load ==
  /\ loads < MaxLoads /\ loads' = loads + 1
  /\ Fresh /\ calls' = {[NewCall({}, "me", Blank, Blank) EXCEPT !.authed = FALSE]}
  /\ clientId(None, {}) /\ memCharts' = safeGet("charts") /\ UNCHANGED storage
  /\ answered' = IF storage = "all" THEN answered
                 ELSE IF safeGet("charts") = None THEN NoCharts ELSE safeGet("charts")

MeAnswered(c) ==
  /\ c.kind = "me"
  /\ \E authed \in BOOLEAN : Go(nav, step, None, openChart, authed, calls \ {c})
  /\ UNCHANGED <<draftFrom, store, answered>>

signOut ==
  /\ user /\ Room
  /\ calls' = calls \cup {NewCall(calls, "logout", Blank, Blank)}
  /\ Requested /\ UNCHANGED <<route, user, screen, loads>>

(* Faulty variant: the page stays where it is.                             *)
LoggedOutHere(c) ==
  /\ c.kind = "logout"
  /\ Go(nav, step, None, None, FALSE, calls \ {c})
  /\ UNCHANGED <<draftFrom, store, answered>>

LoggedOut(c) ==
  /\ c.kind = "logout"
  /\ Go("charts", step, None, None, FALSE, calls \ {c})
  /\ UNCHANGED <<draftFrom, store, answered>>

-----------------------------------------------------------------------------
(* Ways about.                                                             *)

goDashboard == Visit("dashboard", step, None, draftFrom, None)
goGenerate == Visit("generate", "choose", None, "choose", None)
onProfile == user /\ Visit("profile", step, None, draftFrom, None)

(* The list is refreshed: by the click, or by a timer meanwhile.           *)
Refreshed ==
  /\ IF user THEN UNCHANGED memCharts ELSE loadLocalCharts
  /\ IF user \/ readCharts # NoCharts THEN clientId(memClientId, sentAs)
     ELSE UNCHANGED <<stored, memClientId, minted, sentAs>>
  /\ UNCHANGED <<storage, answered>>
refreshCharts == Refreshed /\ UNCHANGED page
goCharts ==
  /\ Go("charts", step, None, None, user, calls) /\ UNCHANGED draftFrom
  /\ Refreshed

(* The rows: for an anonymous browser, the charts remembered.              *)
Listed(row) ==
  IF user THEN row.phase # "Expired"
  ELSE row.name \in DOMAIN readCharts

(* A row is clicked in the list.  One that expired goes to the form with   *)
(* the spec remembered.                                                    *)
openChartView(row) ==
  IF row.phase = "Expired"
  THEN Visit("generate", "form", SpecOf(row.name, readCharts[row.name]), "choose", None)
  ELSE /\ Room /\ Go("explorer", step, None, row, user, calls)
       /\ UNCHANGED <<draftFrom, answered>>
       /\ IF Fetches(row) THEN Requested ELSE UNCHANGED store

(* What the explorer shows beside a chart's name.                          *)
Pane ==
  CASE ~Fetches(openChart)      -> "failure"
    [] screen.status = "busy"   -> "loading"
    [] screen.status = "error"  -> "error"
    [] OTHER                    -> "files"

(* ... or on the dashboard, which leaves charts that are being built to    *)
(* the list.                                                               *)
Openable(row) == row.phase \in {"Ready", "Failed"}
RecentRow(row) == IF Openable(row) THEN openChartView(row) ELSE goCharts

OpenRow(row) ==
  /\ Listed(row)
  /\ \/ shown = "charts" /\ openChartView(row)
     \/ shown = "dashboard" /\ RecentRow(row)

Choose(option) ==
  /\ shown = "choose"
  /\ CASE option = "manual" -> Visit("generate", "form", None, "choose", openChart)
       [] OTHER             -> Visit("generate", option, None, draftFrom, openChart)

(* The inputs of the two drafting screens, while they can be used: not     *)
(* while the draft is made, and not under the summary of an import.        *)
Prompting == shown = "prompt" /\ screen.status # "busy"
Composing == shown = "compose" /\ screen.status \notin {"busy", "result"}

(* Buttons that say Back.  The explorer's is the tab Charts.               *)
BackToChoose == (Prompting \/ Composing) /\ Visit("generate", "choose", None, draftFrom, openChart)
BackFromForm ==
  /\ shown = "form" /\ screen.status # "busy"
  /\ Visit("generate", draftFrom, None, draftFrom, openChart)
BackFromProfile == shown = "profile" /\ Visit("charts", step, None, draftFrom, openChart)

-----------------------------------------------------------------------------
(* Inputs of the screen.                                                   *)

Set(fields) == screen' = fields /\ UNCHANGED <<route, user, loads>>
Keep == UNCHANGED <<calls, store, answered>>

(* Typing, where the inputs are enabled.  Typing a text forgets the file.  *)
Type(name, text) ==
  /\ Prompting \/ Composing \/ shown = "form"
  /\ Set([screen EXCEPT !.name = name, !.text = text,
                        !.file = IF text = screen.text THEN @ ELSE Blank])
  /\ Keep

(* Faulty variant: the name is shown as soon as the file is chosen.        *)
readFileNamed(file) ==
  /\ Composing /\ Room
  /\ calls' = calls \cup {NewCall(calls, "read", Blank, file)}
  /\ Set([screen EXCEPT !.file = file]) /\ UNCHANGED <<store, answered>>

(* The examples of the prompt screen fill in both inputs: see Type.        *)
(* A compose file is chosen or dropped, and read in the background.        *)
readFile(file) ==
  /\ Composing /\ Room
  /\ calls' = calls \cup {NewCall(calls, "read", Blank, file)}
  /\ UNCHANGED <<route, user, screen, loads, store, answered>>

(* It has been read, whatever the screen is doing then.                    *)
onload(c) ==
  /\ c.kind = "read" /\ calls' = calls \ {c}
  /\ Set(IF c.live THEN [screen EXCEPT !.text = c.text, !.file = c.text] ELSE screen)
  /\ UNCHANGED <<store, answered>>

-----------------------------------------------------------------------------
(* Calls of the screens.                                                   *)

Ask(kind) ==
  /\ screen.status # "busy" /\ Room
  /\ Set([screen EXCEPT !.status = "busy"])
  /\ calls' = calls \cup {NewCall(calls, kind, screen.name, screen.text)}
  /\ Requested

draft ==
  \/ Prompting /\ screen.text # Blank /\ Ask("draft")
  \/ Composing /\ screen.text # Blank /\ Ask("import")
submit == shown = "form" /\ screen.name # Blank /\ Ask("submit")

(* The screen, if it is still there, takes the answer of its call.         *)
Answer(c, result) ==
  /\ calls' = calls \ {c}
  /\ Set(IF c.live THEN result ELSE screen)
  /\ UNCHANGED <<store, answered>>

(* Faulty variant: the screen keeps saying that it is busy.                *)
FailsQuietly(c) ==
  c.kind \in {"draft", "import", "submit", "files"} /\ Answer(c, screen)

(* Faulty variant: a state that no screen knows.                           *)
FailsUnknown(c) ==
  /\ c.kind \in {"draft", "import", "submit", "files"}
  /\ Answer(c, [screen EXCEPT !.status = "failed"])

(* An error, or no answer: the screen says so and the inputs stay.         *)
Fails(c) ==
  /\ c.kind \in {"draft", "import", "submit", "files"}
  /\ Answer(c, [screen EXCEPT !.status = "error"])

(* Faulty variant: the form is mounted anew for each draft.                *)
DraftedAnew(c) ==
  /\ c.kind = "draft"
  /\ \E suggested \in Names :
       LET spec == SpecOf(IF c.name # Blank THEN c.name ELSE suggested, c.text)
       IN IF shown = "form"
          THEN /\ Set(FormSeed(spec)) /\ calls' = calls \ {c} /\ UNCHANGED <<store, answered>>
          ELSE /\ Go(nav, "form", spec, openChart, user, calls \ {c})
               /\ draftFrom' = "prompt" /\ UNCHANGED <<store, answered>>

(* A draft goes to the form, wherever the user is.  A typed name counts    *)
(* more than the suggested one.                                            *)
Drafted(c) ==
  /\ c.kind = "draft"
  /\ \E suggested \in Names :
       Go(nav, "form", SpecOf(IF c.name # Blank THEN c.name ELSE suggested, c.text),
          openChart, user, calls \ {c})
  /\ draftFrom' = "prompt" /\ UNCHANGED <<store, answered>>

(* An imported file is summed up first ...                                 *)
Imported(c) ==
  /\ c.kind = "import"
  /\ \E suggested \in Names \cup {Blank} :
       Answer(c, [screen EXCEPT !.status = "result", !.result = SpecOf(suggested, c.text)])

(* ... and goes to the form, or back to the inputs, from there.            *)
proceed ==
  /\ shown = "compose" /\ screen.status = "result"
  /\ Visit("generate", "form",
           [screen.result EXCEPT !.name = IF screen.name # Blank THEN screen.name ELSE @],
           "compose", openChart)
backToInputs ==
  shown = "compose" /\ screen.status = "result" /\ Set([screen EXCEPT !.status = "idle"]) /\ Keep

(* handleSubmit, answered: an anonymous chart is remembered, and the page  *)
(* goes to the list wherever the user is.                                  *)
Submitted(c) ==
  /\ c.kind = "submit"
  /\ Go("charts", "choose", None, openChart, user, calls \ {c})
  /\ IF c.authed THEN UNCHANGED <<store, answered>>
     ELSE /\ saveLocalChart(c.name, c.text)
          /\ answered' = Recorded(answered, c.name, c.text)
          /\ UNCHANGED <<storage, memClientId, minted, sentAs>>
  /\ UNCHANGED draftFrom

(* Faulty variant: an answer for a chart that was left is shown.           *)
FilesAnsweredLate(c) ==
  /\ c.kind = "files" /\ calls' = calls \ {c}
  /\ Set(IF shown = "explorer" THEN [screen EXCEPT !.status = "idle", !.name = c.name] ELSE screen)
  /\ UNCHANGED <<store, answered>>

FilesAnswered(c) ==
  c.kind = "files" /\ Answer(c, [screen EXCEPT !.status = "idle", !.name = c.name])

(* Another tab of this browser has a chart generated.                      *)
OtherTab(name, text) ==
  /\ storage = "all"
  /\ LET old == IF stored.charts = None THEN NoCharts ELSE stored.charts
         new == stored.clientId = None
     IN /\ stored' = [clientId |-> IF new THEN minted + 1 ELSE stored.clientId,
                      charts |-> Recorded(old, name, text)]
        /\ minted' = IF new THEN minted + 1 ELSE minted
  /\ answered' = Recorded(answered, name, text)
  /\ UNCHANGED <<page, storage, memory, sentAs>>

Clicks ==
  \/ goDashboard \/ goGenerate \/ goCharts \/ onProfile \/ signOut
  \/ BackToChoose \/ BackFromForm \/ BackFromProfile
  \/ draft \/ submit \/ proceed \/ backToInputs
  \/ \E option \in {"manual", "prompt", "compose"} : Choose(option)
  \/ \E row \in Row : OpenRow(row)
  \/ \E name \in Names \cup {Blank}, text \in Typed \cup {Blank} : Type(name, text)
  \/ \E file \in Files : readFile(file)

Answered(c) ==
  \/ MeAnswered(c) \/ LoggedOut(c) \/ onload(c) \/ Fails(c)
  \/ Drafted(c) \/ Imported(c) \/ Submitted(c) \/ FilesAnswered(c)

Next ==
  \/ Load
  \/ loads > 0 /\ (Clicks \/ refreshCharts)
  \/ \E c \in calls : Answered(c)
  \/ \E name \in Names, text \in Typed : OtherTab(name, text)

Spec == Init /\ [][Next]_vars

-----------------------------------------------------------------------------
(* Properties.                                                             *)

(* "States: idle, drafting (spinner, disabled), error" (PromptScreen.jsx): *)
(* a screen is busy exactly while one call of its own is under way, through *)
(* whatever is visited and answered in between.                            *)
Own == {c \in calls : c.live /\ c.kind # "read"}
BusyOnlyWithCall ==
  Cardinality(Own) = IF screen.status = "busy" THEN 1 ELSE 0

(* "input preserved" (PromptScreen.jsx): no answer, late or not, success   *)
(* or failure, changes what was typed into the screen that stays.  A file  *)
(* that was being read does.                                               *)
Inputs(s) == <<s.name, s.text, s.file>>
AnswersKeepInput ==
  [][\A c \in calls :
       c.kind # "read" /\ c \notin calls' /\ shown' = shown /\ shown # "explorer"
         => Inputs(screen') = Inputs(screen) \/ loads' # loads]_vars

(* The file name on the compose screen is that of the text shown with it.  *)
FileNameIsText == shown = "compose" /\ screen.file # Blank => screen.text = screen.file

(* The files in the explorer are those of the chart that is open, however  *)
(* late the answers for charts that were open before.                      *)
FilesOfOpenChart == shown = "explorer" /\ Pane = "files" => screen.name = openChart.name

(* Whatever is answered in which order, the page shows something.          *)
NeverBlank == shown # "blank"

(* "the id is stable for this session regardless of whether the write      *)
(* above actually persisted" (localStore.js), and the same in every tab    *)
(* where it did.                                                           *)
OneClientId ==
  /\ Cardinality(sentAs) <= 1
  /\ storage = "all" => sentAs \subseteq {stored.clientId}

(* "Anonymous charts are remembered in the browser (spec + name)"          *)
(* (AppShell.jsx): the list-of-record has the charts this browser was told *)
(* of, in this tab or, where tabs share it, another, each with the spec    *)
(* last answered.                                                          *)
SessionCoherent == readCharts = answered
RemembersAnswered == storage # "reads" => SessionCoherent
=============================================================================
