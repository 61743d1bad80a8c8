------------------------------ MODULE MCShell ------------------------------
(* Shell for TLC: a bound on what is asked of the server and written by    *)
(* the other tab.  Chart names are alike.                                  *)
EXTENDS Shell, TLC

CONSTANTS
  n1, n2,
  MaxUses    \* bound on drafts, imports, submissions and other tabs' charts

VARIABLE uses

Using ==
  \/ \E c \in calls' \ calls : c.kind \in {"draft", "import", "submit"}
  \/ stored'.charts # stored.charts /\ UNCHANGED memCharts

MCInit == Init /\ uses = 0
MCNext == Next /\ uses' = (IF Using THEN uses + 1 ELSE uses) /\ uses' <= MaxUses
MCSpec == MCInit /\ [][MCNext]_<<vars, uses>>

Symmetry == Permutations(Names)
=============================================================================
