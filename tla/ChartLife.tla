----------------------------- MODULE ChartLife -----------------------------
(***************************************************************************)
(* What GET /charts tells about a chart over time: the phase and whether a *)
(* download link comes with it (internal/server/charts.go, summarize).     *)
(* The operator implements this; the web app's pages are written on it.    *)
(***************************************************************************)
CONSTANTS Charts, Absent

VARIABLE view

Phases == {"Pending", "Generating", "Ready", "Failed"}
View == [phase: Phases, link: BOOLEAN]

Init == view = [c \in Charts |-> Absent]

(* A spec is accepted.  A chart that is already there keeps its phase; it  *)
(* keeps its link only if the spec is the one it was rendered from.        *)
Accept(c) ==
  \/ view[c] = Absent /\ view' = [view EXCEPT ![c] = [phase |-> "Pending", link |-> FALSE]]
  \/ view[c] # Absent /\ \E link \in {view[c].link, FALSE} :
                            view' = [view EXCEPT ![c].link = link]

(* A chart without a link is being built, again if need be.                *)
Begin(c) ==
  /\ view[c] # Absent /\ ~view[c].link
  /\ view' = [view EXCEPT ![c].phase = "Generating"]

Building(c) == view[c] # Absent /\ view[c].phase = "Generating"

Finish(c) == Building(c) /\ view' = [view EXCEPT ![c] = [phase |-> "Ready", link |-> TRUE]]

Fail(c) == Building(c) /\ view' = [view EXCEPT ![c].phase = "Failed"]

(* A chart that is going away loses its link before it disappears.         *)
Withdraw(c) == view[c] # Absent /\ view' = [view EXCEPT ![c].link = FALSE]

Vanish(c) == view[c] # Absent /\ ~view[c].link /\ view' = [view EXCEPT ![c] = Absent]

Next == \E c \in Charts : Accept(c) \/ Begin(c) \/ Finish(c) \/ Fail(c) \/ Withdraw(c) \/ Vanish(c)

Spec == Init /\ [][Next]_view

(* No chart waits for ever to be built, and no build goes on for ever.     *)
FairSpec ==
  /\ Spec
  /\ \A c \in Charts : WF_view(Begin(c)) /\ WF_view(Finish(c) \/ Fail(c))
=============================================================================
