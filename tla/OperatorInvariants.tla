-------------------------- MODULE OperatorInvariants --------------------------
(***************************************************************************)
(* Why the operator is correct: the inductive invariants behind its        *)
(* properties.  Copies holds for any number of operators, Exclusive needs  *)
(* that there is only one.                                                 *)
(***************************************************************************)
EXTENDS Operator

Calls == Steps \ {"down", "idle"}

(* Between the write of Generating and the write that ends the attempt.    *)
Attempt == {"upload", "ready", "failSpec", "failWork"}

(* A current copy is the server's object, so a write that is accepted      *)
(* starts from what the server holds.                                      *)
CopyIsCurrent ==
  \A o \in Operators : current[o] => pc[o] \in Calls /\ cr[key[o]] = snap[o]

(* The events on their way lead from the cache to the server's object.     *)
CacheCatchesUp ==
  \A o \in Operators, c \in Charts :
    /\ pc[o] = "down" => watch[o][c] = <<>>
    /\ pc[o] # "down" /\ watch[o][c] = <<>> => cache[o][c] = cr[c]
    /\ watch[o][c] # <<>> => watch[o][c][Len(watch[o][c])] = cr[c]

(* The call the worker is at says what its copy looks like.                *)
Fits(step, obj) ==
  /\ step \in {"remove", "dropfin"} => obj.del /\ obj.fin
  /\ step = "addfin" => ~obj.del /\ ~obj.fin
  /\ step \in {"reap", "generating"} \cup Attempt => ~obj.del /\ obj.fin
  /\ step = "generating" => ~UpToDate(obj)
  /\ step \in Attempt => obj.phase = "Generating"

CopyFitsCall == \A o \in Operators : Fits(pc[o], snap[o])

(* What the server can hold: a status is never ahead of its generation, a  *)
(* deletion always is, and both a deletion and a Ready status imply the    *)
(* finalizer.                                                              *)
Coherent(obj) ==
  /\ obj.observed <= obj.gen
  /\ obj.del => obj.fin /\ obj.observed < obj.gen
  /\ obj.phase = "Ready" => obj.fin

Copies ==
  /\ CopyIsCurrent /\ CacheCatchesUp /\ CopyFitsCall
  /\ \A c \in Charts : cr[c] # NoCR => Coherent(cr[c])

Awake(o, c) == c \in queue[o] \cup delayed[o] \/ watch[o][c] # <<>>

InHands(o, c) == pc[o] \in Calls /\ key[o] = c

(* What NoLostWakeup asks to be looked at.                                 *)
NeedsWork(obj) ==
  obj # NoCR /\ obj.spec \notin Invalid /\ FirstCall(obj) \notin {"return", "reap"}

(* An operator has heard of every change that its worker's copy lacks, and *)
(* of every chart that needs work and is not in the worker's hands; only   *)
(* an invalid spec is given up.                                            *)
NoticedBy(o) ==
  /\ \A c \in Charts : pc[o] # "down" /\ ~Awake(o, c) =>
        /\ InHands(o, c) => snap[o] = cr[c]
        /\ ~InHands(o, c) => ~NeedsWork(cr[c])
  /\ pc[o] = "failSpec" => snap[o].spec \in Invalid

Noticed == \A o \in Operators : NoticedBy(o)

OneOperator == \A o, p \in Operators : o = p

(* An attempt works on an object that exists, is not Ready, keeps its      *)
(* finalizer, and is at least as new as the copy and the copy as the       *)
(* archive; at the final write the archive is the copy's.                  *)
AttemptOwnsChart ==
  \A o \in Operators : pc[o] \in Attempt =>
    LET c == key[o] IN
    /\ cr[c] # NoCR /\ cr[c].phase # "Ready" /\ cr[c].fin
    /\ snap[o].gen <= cr[c].gen
    /\ bucket[c] # NoArtifact => bucket[c].gen <= snap[o].gen
    /\ pc[o] = "ready" => bucket[c] = [spec |-> snap[o].spec, gen |-> snap[o].gen]

(* The finalizer is dropped after the archive is gone.                     *)
CleanedBeforeDrop ==
  \A o \in Operators : pc[o] = "dropfin" => bucket[key[o]] = NoArtifact

ArchiveNotAhead ==
  \A c \in Charts : bucket[c] # NoArtifact /\ cr[c] # NoCR => bucket[c].gen <= cr[c].gen

(* No version of c that o has cached, or is about to hear of, is marked    *)
(* for deletion.                                                           *)
NoDeletionSeen(o, c) ==
  /\ cache[o][c] # NoCR => ~cache[o][c].del
  /\ \A i \in 1 .. Len(watch[o][c]) : watch[o][c][i] # NoCR => ~watch[o][c][i].del

(* A chart that is up to date is not mistaken for an earlier one of its    *)
(* name that was deleted: the worker brought it up to date from a copy     *)
(* that was current, so what it knows of it is at least as recent.         *)
NoStaleDeletion ==
  \A o \in Operators, c \in Charts :
    /\ cr[c] # NoCR /\ UpToDate(cr[c]) =>
         /\ NoDeletionSeen(o, c)
         /\ pc[o] \in Calls /\ key[o] = c => ~snap[o].del
    /\ current[o] /\ pc[o] \in Calls /\ key[o] = c /\ ~snap[o].del =>
         NoDeletionSeen(o, c)

Exclusive ==
  /\ AttemptOwnsChart /\ CleanedBeforeDrop /\ NoStaleDeletion
  /\ ArchiveNotAhead /\ NoOrphan /\ ReadyIsExact
=============================================================================
