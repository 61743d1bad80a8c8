-------------------------- MODULE MCComposeImport --------------------------
(* ComposeImport for TLC: the first service of a file has anything, the    *)
(* second is built or pulled, and those after it have but their keys.      *)
EXTENDS ComposeImport

Built ==
  [key : Keys, build : {TRUE}, image : {""}, ports : {<<>>},
   global : {FALSE}, replicas : {FALSE}, carries : {FALSE}]
Pulled ==
  {[service EXCEPT !.build = FALSE, !.image = image] :
     service \in Built, image \in DependencyKeys \cup {"other"}}

Variety ==
  CASE read = {}             -> Services
    [] Cardinality(read) = 1 -> Built \cup Pulled
    [] OTHER                 -> Built

MCInit == Init /\ umbrella = <<0>>
MCNext == Return \/ \E service \in Variety : Import(service)
MCSpec == MCInit /\ [][MCNext]_vars
=============================================================================
