----------------------------- MODULE ApiServer -----------------------------
(***************************************************************************)
(* What one ChartpressConfig object goes through in the Kubernetes API     *)
(* server.  The server is not part of this repository: these operators say *)
(* what the code relies on when it calls Apply (internal/server/k8s.go)    *)
(* and Update, UpdateStatus and Delete (internal/operator/client.go).      *)
(*                                                                         *)
(* A resourceVersion is only ever compared with the one the server holds,  *)
(* so objects do not carry it: a holder of a copy knows whether the copy   *)
(* is still current (Operator.tla).  status.artifactKey is a function of   *)
(* the chart's name and is written exactly when phase is set to Ready.     *)
(***************************************************************************)
EXTENDS Naturals

CONSTANTS
  Specs,          \* chart specifications, as the CRD's schema admits them
  NoCR            \* no such object

Phases == {"", "Generating", "Ready", "Failed"}

(* The fields the code reads or writes: spec, metadata.generation, the     *)
(* expires-at annotation (0: none), the artifact-cleanup finalizer,        *)
(* whether deletionTimestamp is set, status.phase and                      *)
(* status.observedGeneration (0: absent).                                  *)
Object == [spec: Specs, gen: Nat, exp: Nat, fin: BOOLEAN, del: BOOLEAN,
           phase: Phases, observed: Nat]

ASSUME NoCRIsNotAnObject == NoCR \notin Object

(* Server-side apply of the backend's manifest: it creates the object or   *)
(* replaces spec and annotation, and leaves the finalizers and the status, *)
(* which it does not own.  The generation moves with the spec only.        *)
Applied(obj, spec, exp) ==
  IF obj = NoCR
  THEN [spec |-> spec, gen |-> 1, exp |-> exp, fin |-> FALSE, del |-> FALSE,
        phase |-> "", observed |-> 0]
  ELSE [obj EXCEPT !.spec = spec, !.exp = exp,
                   !.gen = IF spec = obj.spec THEN @ ELSE @ + 1]

(* Delete by name, without preconditions: with a finalizer it only sets    *)
(* deletionTimestamp, which is a new generation.                           *)
Deleted(obj) ==
  IF ~obj.fin THEN NoCR
  ELSE IF obj.del THEN obj
  ELSE [obj EXCEPT !.del = TRUE, !.gen = @ + 1]

(* Update of the main resource with the finalizer set or not; a            *)
(* terminating object that loses its last finalizer is gone.               *)
WithFinalizer(obj, present) ==
  IF obj.del /\ ~present THEN NoCR ELSE [obj EXCEPT !.fin = present]

(* UpdateStatus: the status block is replaced, nothing else.               *)
WithStatus(obj, phase, observed) ==
  [obj EXCEPT !.phase = phase, !.observed = observed]
=============================================================================
