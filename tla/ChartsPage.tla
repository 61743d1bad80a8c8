----------------------------- MODULE ChartsPage -----------------------------
(***************************************************************************)
(* One browser tab of the web app (web/src/app/AppShell.jsx): the list of  *)
(* charts it shows, how it is refreshed, and who the tab and the server    *)
(* think the user is.  Requests are answered by the server at one moment   *)
(* and the answer is used at a later one, possibly after those of younger  *)
(* requests.  Charts live as ChartLife says, per owner: the same name is   *)
(* another chart for the signed-in user and for the anonymous browser.     *)
(***************************************************************************)
EXTENDS Naturals, FiniteSets

CONSTANTS
  Names,          \* chart names, as the user knows them
  Absent,         \* no chart (404, or not in the list)
  NoRow,          \* no such row in the page's list
  Unread,         \* the server has not answered yet
  MaxRefreshes,   \* bound on the refreshes in flight at once
  MaxSubmits,     \* bound on submissions
  MaxLoads,       \* bound on sign-ins and reloads
  MaxRemovals,    \* bound on charts being withdrawn or vanishing
  MaxFaults       \* bound on failed requests and failed builds

ASSUME BoundsAssumption ==
  MaxRefreshes \in Nat \ {0} /\ {MaxSubmits, MaxLoads, MaxRemovals, MaxFaults} \subseteq Nat

VARIABLES
  view,           \* ChartLife: what the server tells of each owner's charts
  cookie,         \* the browser's session cookie is one the server accepts
  user,           \* the tab's auth.user is set ("authed")
  me,             \* the GET /auth/me of this load
  remembered,     \* names in localStorage, the anonymous list-of-record
  rows,           \* the state `charts`
  listError,      \* the last refresh failed, and the page says so
  refreshes,      \* refreshCharts calls under way
  submits,        \* handleSubmit calls under way, up to their 600ms timer
  used            \* how much of each bound is used up

session == <<cookie, user, me>>
list == <<rows, listError>>
vars == <<view, session, remembered, list, refreshes, submits, used>>

Owners == {"user", "anon"}
Life == INSTANCE ChartLife WITH Charts <- Owners \X Names

(* optimistic is the flag _optimistic.  owner is not in the code: whose    *)
(* chart the row tells about.                                              *)
Row == [phase: Life!Phases \cup {"Expired"}, link: BOOLEAN,
        owner: Owners, optimistic: BOOLEAN]

(* No chart is not what a chart looks like, and no row is not a row.       *)
ASSUME AbsentIsNotAView == Absent \notin Life!View
ASSUME NoRowIsNotARow == NoRow \notin Row

(* A refresh: over the remembered names (local) or the server's list, the  *)
(* charts still to be read, and what was read of the others.               *)
Refresh == [local: BOOLEAN, todo: SUBSET Names, got: [Names -> Row \cup {NoRow, Unread}]]

(* authed is the tab's at the time of the click; owner, once the server    *)
(* has answered, whose chart was generated.                                *)
Submission == [name: Names, authed: BOOLEAN, owner: Owners,
               step: {"sent", "answered", "timer"}]

TypeOK ==
  /\ view \in [Owners \X Names -> Life!View \cup {Absent}]
  /\ cookie \in BOOLEAN /\ user \in BOOLEAN
  /\ me \in {"asked", "yes", "no", "done"}
  /\ remembered \subseteq Names
  /\ rows \in [Names -> Row \cup {NoRow}]
  /\ listError \in BOOLEAN
  /\ refreshes \subseteq Refresh /\ Cardinality(refreshes) <= MaxRefreshes
  /\ submits \subseteq Submission
  /\ user => cookie

-----------------------------------------------------------------------------
(* The server's side: whose charts a request sees depends on the cookie    *)
(* that travels with it.                                                   *)

requestOwner == IF cookie THEN "user" ELSE "anon"
Chart(n) == view[<<requestOwner, n>>]

(* The row of a chart the server knows, and one of a remembered chart.     *)
Shown(n) ==
  [phase |-> Chart(n).phase, link |-> Chart(n).link, owner |-> requestOwner,
   optimistic |-> FALSE]
Remembered(phase) == [phase |-> phase, link |-> FALSE, owner |-> "anon", optimistic |-> FALSE]

Use(what, limit) == used[what] < limit /\ used' = [used EXCEPT ![what] = @ + 1]

-----------------------------------------------------------------------------
(* The page's functions.                                                   *)

isActive(row) == row # NoRow /\ row.phase \in {"Pending", "Generating"}

NewRefresh(authed) ==
  [local |-> ~authed,
   todo  |-> IF authed THEN Names ELSE remembered,
   got   |-> [n \in Names |-> IF authed \/ n \in remembered THEN Unread ELSE NoRow]]

(* refreshCharts, called with the given state of auth.                     *)
refreshCharts(authed) ==
  /\ Cardinality(refreshes) < MaxRefreshes
  /\ refreshes' = refreshes \cup {NewRefresh(authed)}

(* Faulty variant: the answer replaces the list.                           *)
mergeChartsAll(prev, answer) == answer

(* The answer replaces the list, but for optimistic rows it does not have. *)
mergeCharts(prev, answer) ==
  [n \in Names |->
     IF answer[n] = NoRow /\ prev[n] # NoRow /\ prev[n].optimistic
     THEN prev[n] ELSE answer[n]]

(* hydrateLocalCharts: one remembered chart, from its own request.  A 404  *)
(* makes it Expired, any other failure the remembered record.              *)
Hydrated(n) == IF Chart(n) = Absent THEN Remembered("Expired") ELSE Shown(n)
Fallback == Remembered("Pending")

(* A chart's row in the server's list, if it has one.                      *)
Listed(n) == IF Chart(n) = Absent THEN NoRow ELSE Shown(n)

-----------------------------------------------------------------------------
(* Loading the page, and who is signed in.                                 *)

Loaded ==
  /\ user' = FALSE /\ me' = "asked" /\ submits' = {}
  /\ rows' = [n \in Names |-> NoRow] /\ listError' = FALSE
  /\ refreshes' = {NewRefresh(FALSE)}

Init ==
  /\ Life!Init /\ cookie \in BOOLEAN /\ user = FALSE /\ me = "asked"
  /\ remembered = {} /\ submits = {}
  /\ rows = [n \in Names |-> NoRow] /\ listError = FALSE
  /\ refreshes = {NewRefresh(FALSE)}
  /\ used = [what \in {"submit", "load", "removal", "fault"} |-> 0]

(* A reload, or the way through GitHub and back, which sets the cookie.    *)
Load ==
  /\ cookie' \in {cookie, TRUE} /\ Loaded
  /\ Use("load", MaxLoads)
  /\ UNCHANGED <<view, remembered>>

(* GET /auth/me at the server, and its answer in the page; a failure means *)
(* signed out.                                                             *)
MeRead ==
  /\ me = "asked"
  /\ \/ me' = (IF cookie THEN "yes" ELSE "no") /\ UNCHANGED used
     \/ me' = "no" /\ Use("fault", MaxFaults)
  /\ UNCHANGED <<view, cookie, user, remembered, list, refreshes, submits>>

(* Faulty variant: refreshCharts keeps the authed of the first render.     *)
MeAnsweredQuietly ==
  /\ me \in {"yes", "no"} /\ me' = "done"
  /\ user' = (me = "yes")
  /\ UNCHANGED <<view, cookie, remembered, list, refreshes, submits, used>>

MeAnswered ==
  /\ me \in {"yes", "no"} /\ me' = "done"
  /\ user' = (me = "yes")
  /\ IF user' # user THEN refreshCharts(user') ELSE UNCHANGED refreshes
  /\ UNCHANGED <<view, cookie, remembered, list, submits, used>>

(* Faulty variant: only the cookie is cleared.                             *)
SignOutCookieOnly ==
  /\ user /\ cookie /\ cookie' = FALSE
  /\ refreshCharts(FALSE)
  /\ UNCHANGED <<view, user, me, remembered, list, submits, used>>

(* The tab counts as signed out even if the request failed.                *)
SignOut ==
  /\ user /\ user' = FALSE
  /\ \/ cookie' = FALSE /\ UNCHANGED used
     \/ UNCHANGED cookie /\ Use("fault", MaxFaults)
  /\ refreshCharts(FALSE)
  /\ UNCHANGED <<view, me, remembered, list, submits>>

-----------------------------------------------------------------------------
(* Refreshing the list.                                                    *)

(* Faulty variant: only Pending rows keep the interval running.            *)
PollPending ==
  /\ \E n \in Names : rows[n] # NoRow /\ rows[n].phase = "Pending"
  /\ refreshCharts(user)
  /\ UNCHANGED <<view, session, remembered, list, submits, used>>

(* setInterval, while anyActive.                                           *)
Poll ==
  /\ \E n \in Names : isActive(rows[n])
  /\ refreshCharts(user)
  /\ UNCHANGED <<view, session, remembered, list, submits, used>>

(* The user clicks Charts.                                                 *)
goCharts ==
  /\ refreshCharts(user)
  /\ UNCHANGED <<view, session, remembered, list, submits, used>>

(* GET /charts reads all of the owner's charts at one moment.              *)
ReadList(r) ==
  /\ ~r.local /\ r.todo # {}
  /\ refreshes' = (refreshes \ {r}) \cup
       {[r EXCEPT !.todo = {}, !.got = [n \in Names |-> Listed(n)]]}
  /\ UNCHANGED <<view, session, remembered, list, submits, used>>

(* GET /charts/{name} reads one remembered chart.                          *)
ReadOne(r, n) ==
  /\ r.local /\ n \in r.todo
  /\ \E row \in {Hydrated(n), Fallback} :
       /\ refreshes' = (refreshes \ {r}) \cup {[r EXCEPT !.todo = @ \ {n}, !.got[n] = row]}
       /\ IF row = Hydrated(n) THEN UNCHANGED used ELSE Use("fault", MaxFaults)
  /\ UNCHANGED <<view, session, remembered, list, submits>>

Deliver(r) ==
  /\ r.todo = {}
  /\ rows' = mergeCharts(rows, r.got) /\ listError' = FALSE
  /\ refreshes' = refreshes \ {r}
  /\ UNCHANGED <<view, session, remembered, submits, used>>

(* GET /charts failed: the list stays as it is.                            *)
ListFails(r) ==
  /\ ~r.local /\ refreshes' = refreshes \ {r} /\ Use("fault", MaxFaults)
  /\ listError' = TRUE
  /\ UNCHANGED <<view, session, remembered, rows, submits>>

-----------------------------------------------------------------------------
(* handleSubmit.                                                           *)

Submit(n) ==
  /\ submits' = submits \cup
       {[name |-> n, authed |-> user, owner |-> requestOwner, step |-> "sent"]}
  /\ Use("submit", MaxSubmits)
  /\ UNCHANGED <<view, session, remembered, list, refreshes>>

Advance(s, owner, step) ==
  submits' = (submits \ {s}) \cup {[s EXCEPT !.owner = owner, !.step = step]}

(* The server applies the spec, new or as it was, and answers Pending.     *)
Generated(s) ==
  /\ s.step = "sent" /\ Life!Accept(<<requestOwner, s.name>>)
  /\ Advance(s, requestOwner, "answered")
  /\ UNCHANGED <<session, remembered, list, refreshes, used>>

(* An error, or no answer: the form shows it and the list is left alone.   *)
SubmitFails(s) ==
  /\ s.step \in {"sent", "answered"} /\ submits' = submits \ {s}
  /\ Use("fault", MaxFaults)
  /\ UNCHANGED <<view, session, remembered, list, refreshes>>

(* The answer puts an optimistic row on top and starts the 600ms timer.    *)
Submitted(s) ==
  /\ s.step = "answered" /\ Advance(s, s.owner, "timer")
  /\ remembered' = IF s.authed THEN remembered ELSE remembered \cup {s.name}
  /\ rows' = [rows EXCEPT ![s.name] =
               [phase |-> "Pending", link |-> FALSE, owner |-> s.owner, optimistic |-> TRUE]]
  /\ UNCHANGED <<view, session, listError, refreshes, used>>

TimerFires(s) ==
  /\ s.step = "timer" /\ submits' = submits \ {s}
  /\ refreshCharts(user)
  /\ UNCHANGED <<view, session, remembered, list, used>>

-----------------------------------------------------------------------------
(* The operator, and whoever removes charts.                               *)

Build(c) ==
  /\ \/ (Life!Begin(c) \/ Life!Finish(c)) /\ UNCHANGED used
     \/ Life!Fail(c) /\ Use("fault", MaxFaults)
  /\ UNCHANGED <<session, remembered, list, refreshes, submits>>

Remove(c) ==
  /\ Life!Withdraw(c) \/ Life!Vanish(c)
  /\ Use("removal", MaxRemovals)
  /\ UNCHANGED <<session, remembered, list, refreshes, submits>>

Reading == \E r \in refreshes : ReadList(r) \/ \E n \in Names : ReadOne(r, n)
Delivering == \E r \in refreshes : Deliver(r)
Submitting == \E s \in submits : Generated(s) \/ Submitted(s) \/ TimerFires(s)

Next ==
  \/ Load \/ MeRead \/ MeAnswered \/ SignOut \/ Poll \/ goCharts
  \/ Reading \/ Delivering \/ Submitting
  \/ \E r \in refreshes : ListFails(r)
  \/ \E s \in submits : SubmitFails(s)
  \/ \E n \in Names : Submit(n)
  \/ \E c \in Owners \X Names : Build(c) \/ Remove(c)

Spec == Init /\ [][Next]_vars

(* Requests are answered, answers used, timers fire, the poll interval     *)
(* runs, and the operator works (ChartLife).  Users owe nothing.           *)
Fairness ==
  /\ WF_vars(MeRead) /\ WF_vars(MeAnswered)
  /\ WF_vars(Reading) /\ WF_vars(Delivering) /\ WF_vars(Submitting) /\ WF_vars(Poll)
  /\ \A c \in Owners \X Names :
       /\ WF_vars(Life!Begin(c) /\ Build(c))
       /\ WF_vars((Life!Finish(c) \/ Life!Fail(c)) /\ Build(c))

FairSpec == Spec /\ Fairness

-----------------------------------------------------------------------------
(* Properties.                                                             *)

(* A row about a chart of the one whom both tab and server believe to be   *)
(* there.                                                                  *)
Own(row) == row # NoRow /\ row.owner = requestOwner /\ user = cookie

(* "preserving any just-submitted row not yet visible" (AppShell.jsx): as  *)
(* long as the page and the identity stay and no chart is removed, a row   *)
(* whose submission has been answered stays in the list.                   *)
Answered(n) == \A s \in submits : s.name = n => s.step = "timer"
KeepsRows ==
  \A n \in Names : Own(rows[n]) /\ Answered(n) /\ rows'[n] = NoRow => Load
RowsStay == [][KeepsRows]_vars

(* "Signed in: the server's owner-scoped /charts. Anonymous: the browser's *)
(* localStorage list-of-record" (AppShell.jsx): once the refreshes are     *)
(* through, no row tells about a chart of somebody else.                   *)
ListOfIdentity ==
  me = "done" /\ user = cookie /\ refreshes = {} /\ ~listError =>
    \A n \in Names : rows[n] # NoRow /\ ~rows[n].optimistic => Own(rows[n])

(* A row that says Pending or Generating does not say so for ever, as long *)
(* as its chart exists and is in the list that the refreshes go through:   *)
(* the server's for a user, the remembered names for an anonymous browser. *)
Tracked(n) == Own(rows[n]) /\ Chart(n) # Absent /\ (user \/ n \in remembered)
RowsSettle ==
  \A n \in Names : isActive(rows[n]) ~> ~isActive(rows[n]) \/ ~Tracked(n)

(* "polls /charts every ~2.5s while anything is Pending/Generating,        *)
(* advancing to Ready or Failed" (AppShell.jsx), "when Ready, a freshly    *)
(* presigned downloadUrl" (api.js): the Download button of a Ready row     *)
(* comes to work without the user doing anything more.                     *)
Dead(row) == row # NoRow /\ row.phase = "Ready" /\ ~row.link
LinkArrives == \A n \in Names : Dead(rows[n]) ~> ~Dead(rows[n])
=============================================================================
