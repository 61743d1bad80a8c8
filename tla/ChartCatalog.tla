---------------------------- MODULE ChartCatalog ----------------------------
(***************************************************************************)
(* What the operator promises to whoever reads charts: for every chart a   *)
(* spec that is wanted and, at times, an archive that is served.  Nothing  *)
(* but the wanted spec is ever served, and the archive of a chart is taken *)
(* back only because its spec changed or the chart is going away.          *)
(***************************************************************************)
CONSTANTS Charts, Specs, Nothing

VARIABLES
  wanted,         \* the spec accepted last, or Nothing
  served          \* the spec whose archive may be downloaded, or Nothing

Init ==
  /\ wanted = [c \in Charts |-> Nothing]
  /\ served = [c \in Charts |-> Nothing]

(* A spec is accepted.  Accepting the same spec again changes nothing.     *)
Accept(c, spec) ==
  /\ wanted' = [wanted EXCEPT ![c] = spec]
  /\ served' = [served EXCEPT ![c] = IF wanted[c] = spec THEN @ ELSE Nothing]

(* The archive of the wanted spec becomes available.                       *)
Serve(c) ==
  /\ wanted[c] # Nothing
  /\ served' = [served EXCEPT ![c] = wanted[c]]
  /\ UNCHANGED wanted

(* The chart is going away: its archive is withdrawn first.                *)
Withdraw(c) ==
  /\ served[c] # Nothing
  /\ served' = [served EXCEPT ![c] = Nothing]
  /\ UNCHANGED wanted

(* The chart is gone.                                                      *)
Forget(c) ==
  /\ served[c] = Nothing
  /\ wanted' = [wanted EXCEPT ![c] = Nothing]
  /\ UNCHANGED served

Next ==
  \E c \in Charts :
    \/ Serve(c) \/ Withdraw(c) \/ Forget(c)
    \/ \E spec \in Specs : Accept(c, spec)

Spec == Init /\ [][Next]_<<wanted, served>>
=============================================================================
