---------------------------- MODULE MCChartsPage ----------------------------
(***************************************************************************)
(* ChartsPage with a bound on what may happen to its charts together, and  *)
(* a note of whether a refresh has ever started while another was under    *)
(* way: what holds only until then is stated so.                           *)
(***************************************************************************)
EXTENDS ChartsPage

CONSTANT MaxUses  \* bound on submissions, removals and faults together

VARIABLE overlapped

MCInit == Init /\ overlapped = FALSE
MCNext ==
  /\ Next
  /\ used'["submit"] + used'["removal"] + used'["fault"] <= MaxUses
  /\ overlapped' = (overlapped \/ Cardinality(refreshes') > 1)
MCSpec == MCInit /\ [][MCNext]_<<vars, overlapped>> /\ Fairness

(* ListOfIdentity, as long as one refresh ends before the next starts: the *)
(* list is of the user the tab and the server agree on.                    *)
ListOfIdentityInTurns == overlapped \/ ListOfIdentity

(* RowsStay, as long as one refresh ends before the next starts and no     *)
(* chart has been removed: an answered submission's row stays in the list. *)
RowsStayInTurns ==
  [][overlapped' \/ used'["removal"] > 0 \/ KeepsRows]_<<vars, overlapped>>
=============================================================================
