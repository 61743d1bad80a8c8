------------------------------ MODULE Operator ------------------------------
(***************************************************************************)
(* The operator (internal/operator): an informer feeds a workqueue, and    *)
(* one worker reconciles one ChartpressConfig at a time against the API    *)
(* server and the object store.  Every network call of Reconcile is a step *)
(* of its own, because anything may happen between two of them: users      *)
(* apply, the clock ticks, watch events arrive, the process dies, and      *)
(* (with more than one element in Operators) another operator works.       *)
(***************************************************************************)
EXTENDS ApiServer, Sequences

CONSTANTS
  Charts,         \* metadata.names, already owner-scoped
  Anon,           \* those of anonymous browsers: they expire
  Operators,      \* operator processes; the design has one
  Invalid,        \* the Specs that engine.Validate rejects
  Unrenderable,   \* the valid Specs on which RenderZip fails
  TTL,            \* anonChartTTL, in clock ticks
  NoArtifact, NoChart,
  MaxTime,        \* bound on the clock
  MaxEdits,       \* bound on user writes: applies and deletions
  MaxFaults       \* bound on crashes and failed calls

ASSUME ChartsAssumption == Anon \subseteq Charts /\ NoChart \notin Charts
ASSUME BoundsAssumption ==
  TTL \in Nat \ {0} /\ MaxTime \in Nat /\ MaxEdits \in Nat /\ MaxFaults \in Nat

(* An archive is a function of the spec it was rendered from; gen is the   *)
(* generation of that spec, kept to compare archives by age.               *)
Artifact == [spec: Specs, gen: Nat]
ASSUME NoArtifactIsNotOne == NoArtifact \notin Artifact

VARIABLES
  cr,             \* the API server's objects
  bucket,         \* the object store: charts/<name>.zip
  now,            \* the clock
  watch,          \* per operator and chart, the watch events not yet seen
  cache,          \* per operator, the informer's indexer
  queue,          \* per operator, the workqueue
  delayed,        \* per operator, keys waiting out a rate-limited backoff
  pc,             \* per operator, the call the worker makes next
  key,            \* per operator, the chart being reconciled
  snap,           \* per operator, Reconcile's obj
  current,        \* per operator: snap has the server's resourceVersion
  edits, faults   \* how much of MaxEdits and MaxFaults is used up

worker == <<pc, key, snap, current>>
informer == <<watch, cache>>
vars == <<cr, bucket, now, informer, queue, delayed, worker, edits, faults>>

Steps == {"down", "idle", "remove", "dropfin", "addfin", "reap",
          "generating", "upload", "ready", "failSpec", "failWork"}

TypeOK ==
  /\ cr \in [Charts -> Object \cup {NoCR}]
  /\ bucket \in [Charts -> Artifact \cup {NoArtifact}]
  /\ now \in Nat
  /\ watch \in [Operators -> [Charts -> Seq(Object \cup {NoCR})]]
  /\ cache \in [Operators -> [Charts -> Object \cup {NoCR}]]
  /\ queue \in [Operators -> SUBSET Charts]
  /\ delayed \in [Operators -> SUBSET Charts]
  /\ pc \in [Operators -> Steps]
  /\ key \in [Operators -> Charts \cup {NoChart}]
  /\ snap \in [Operators -> Object \cup {NoCR}]
  /\ current \in [Operators -> BOOLEAN]
  /\ edits \in Nat /\ faults \in Nat
  /\ \A o \in Operators : pc[o] \notin {"down", "idle"} =>
        key[o] \in Charts /\ snap[o] \in Object

Init ==
  /\ cr = [c \in Charts |-> NoCR]
  /\ bucket = [c \in Charts |-> NoArtifact]
  /\ now = 0
  /\ watch = [o \in Operators |-> [c \in Charts |-> <<>>]]
  /\ cache = [o \in Operators |-> [c \in Charts |-> NoCR]]
  /\ queue = [o \in Operators |-> {}]
  /\ delayed = [o \in Operators |-> {}]
  /\ pc = [o \in Operators |-> "idle"]
  /\ key = [o \in Operators |-> NoChart]
  /\ snap = [o \in Operators |-> NoCR]
  /\ current = [o \in Operators |-> FALSE]
  /\ edits = 0 /\ faults = 0

-----------------------------------------------------------------------------
(* The server's side of a write.                                           *)

(* The server stores obj as c's object and tells every running informer.   *)
(* A write that changes nothing is none: no event, no resourceVersion.     *)
Put(c, obj) ==
  /\ cr' = [cr EXCEPT ![c] = obj]
  /\ watch' = [o \in Operators |->
                IF pc[o] = "down" \/ obj = cr[c] THEN watch[o]
                ELSE [watch[o] EXCEPT ![c] = Append(@, obj)]]

(* Whose copies are still the server's after c's object becomes obj.       *)
StillCurrent(c, obj) ==
  [o \in Operators |-> current[o] /\ (key[o] = c => obj = cr[c])]

Fault == faults < MaxFaults /\ faults' = faults + 1

-----------------------------------------------------------------------------
(* Reconcile's decisions on its copy of the object.                        *)

isExpired(obj) == obj.exp # 0 /\ now > obj.exp

UpToDate(obj) == obj.phase = "Ready" /\ obj.observed = obj.gen

(* Faulty variant: the short-circuit forgotten.                            *)
AfterFinalizerAlways(obj) == IF isExpired(obj) THEN "reap" ELSE "generating"

(* Once the finalizer is on: reap, stop, or generate.                      *)
AfterFinalizer(obj) ==
  CASE isExpired(obj) -> "reap"
    [] ~isExpired(obj) /\ UpToDate(obj) -> "return"
    [] OTHER -> "generating"

FirstCall(obj) ==
  CASE obj.del /\ ~obj.fin  -> "return"
    [] obj.del /\ obj.fin   -> "remove"
    [] ~obj.del /\ ~obj.fin -> "addfin"
    [] OTHER                -> AfterFinalizer(obj)

(* Decode, validate and render, which involve nobody else.                 *)
AfterGenerating(obj) ==
  CASE obj.spec \in Invalid -> "failSpec"
    [] obj.spec \in Unrenderable \ Invalid -> "failWork"
    [] OTHER -> "upload"

(* Faulty variant: the key is forgotten whatever Reconcile returned.       *)
ReturnForgets(o, err, copies) ==
  /\ pc' = [pc EXCEPT ![o] = "idle"]
  /\ key' = [key EXCEPT ![o] = NoChart]
  /\ snap' = [snap EXCEPT ![o] = NoCR]
  /\ current' = [copies EXCEPT ![o] = FALSE]
  /\ UNCHANGED delayed

(* Reconcile returns and the worker settles the key: an error requeues it  *)
(* with backoff.  copies is `current` as the last call left it.            *)
Return(o, err, copies) ==
  /\ pc' = [pc EXCEPT ![o] = "idle"]
  /\ key' = [key EXCEPT ![o] = NoChart]
  /\ snap' = [snap EXCEPT ![o] = NoCR]
  /\ current' = [copies EXCEPT ![o] = FALSE]
  /\ delayed' = IF err THEN [delayed EXCEPT ![o] = @ \cup {key[o]}] ELSE delayed

(* Go on to the call `step` with the object obj, or return nil or an error. *)
Proceed(o, step, obj, copies) ==
  IF step \in {"return", "error"}
  THEN Return(o, step = "error", copies)
  ELSE /\ pc' = [pc EXCEPT ![o] = step]
       /\ snap' = [snap EXCEPT ![o] = obj]
       /\ current' = copies
       /\ UNCHANGED <<key, delayed>>

(* An Update or UpdateStatus that makes the object obj.  The server        *)
(* refuses a copy that is not current (Conflict, NotFound), and a request  *)
(* or its response may be lost.                                            *)
Write(o, obj, onSuccess, onError) ==
  \/ /\ current[o]
     /\ Put(key[o], obj)
     /\ LET copies == StillCurrent(key[o], obj) IN
        \/ Proceed(o, onSuccess, obj, [copies EXCEPT ![o] = TRUE]) /\ UNCHANGED faults
        \/ Proceed(o, onError, snap[o], copies) /\ Fault
  \/ /\ \/ ~current[o] /\ UNCHANGED faults
        \/ Fault
     /\ Proceed(o, onError, snap[o], current)
     /\ UNCHANGED <<cr, watch>>

-----------------------------------------------------------------------------
(* The worker: processNext and the calls of Reconcile, in program order.   *)

Dequeue(o, c) ==
  /\ pc[o] = "idle" /\ c \in queue[o]
  /\ queue' = [queue EXCEPT ![o] = @ \ {c}]
  /\ LET obj == cache[o][c] IN
     IF obj = NoCR \/ FirstCall(obj) = "return"
     THEN UNCHANGED worker
     ELSE /\ pc' = [pc EXCEPT ![o] = FirstCall(obj)]
          /\ key' = [key EXCEPT ![o] = c]
          /\ snap' = [snap EXCEPT ![o] = obj]
          /\ current' = [current EXCEPT ![o] = watch[o][c] = <<>>]
  /\ UNCHANGED <<cr, bucket, now, informer, delayed, edits, faults>>

(* Faulty variant: the removal is best effort.                             *)
RemoveArtifactUnchecked(o) ==
  /\ pc[o] = "remove"
  /\ \/ bucket' = [bucket EXCEPT ![key[o]] = NoArtifact] /\ UNCHANGED faults
     \/ bucket' = bucket /\ Fault
  /\ Proceed(o, "dropfin", snap[o], current)
  /\ UNCHANGED <<cr, now, informer, queue, edits>>

RemoveArtifact(o) ==
  /\ pc[o] = "remove"
  /\ \/ /\ bucket' = [bucket EXCEPT ![key[o]] = NoArtifact]
        /\ Proceed(o, "dropfin", snap[o], current)
        /\ UNCHANGED faults
     \/ /\ bucket' \in {bucket, [bucket EXCEPT ![key[o]] = NoArtifact]}
        /\ Proceed(o, "error", snap[o], current)
        /\ Fault
  /\ UNCHANGED <<cr, now, informer, queue, edits>>

DropFinalizer(o) ==
  /\ pc[o] = "dropfin"
  /\ Write(o, WithFinalizer(snap[o], FALSE), "return", "error")
  /\ UNCHANGED <<bucket, now, cache, queue, edits>>

AddFinalizer(o) ==
  /\ pc[o] = "addfin"
  /\ LET updated == WithFinalizer(snap[o], TRUE)
     IN  Write(o, updated, AfterFinalizer(updated), "error")
  /\ UNCHANGED <<bucket, now, cache, queue, edits>>

(* Delete carries the name only: whatever object has it now is deleted.    *)
Reap(o) ==
  /\ pc[o] = "reap"
  /\ LET c == key[o]
         gone == Deleted(cr[c])
     IN  \/ /\ cr[c] # NoCR /\ Put(c, gone)
            /\ \/ Return(o, FALSE, StillCurrent(c, gone)) /\ UNCHANGED faults
               \/ Return(o, TRUE, StillCurrent(c, gone)) /\ Fault
         \/ /\ \/ cr[c] = NoCR /\ UNCHANGED faults
               \/ Fault
            /\ Return(o, TRUE, current)
            /\ UNCHANGED <<cr, watch>>
  /\ UNCHANGED <<bucket, now, cache, queue, edits>>

SetGenerating(o) ==
  /\ pc[o] = "generating"
  /\ LET updated == WithStatus(snap[o], "Generating", 0)
     IN  Write(o, updated, AfterGenerating(updated), "error")
  /\ UNCHANGED <<bucket, now, cache, queue, edits>>

(* Faulty variant: the error of the upload is ignored.                     *)
UploadUnchecked(o) ==
  /\ pc[o] = "upload"
  /\ LET stored == [bucket EXCEPT ![key[o]] = [spec |-> snap[o].spec, gen |-> snap[o].gen]]
     IN  \/ bucket' = stored /\ UNCHANGED faults
         \/ bucket' = bucket /\ Fault
  /\ Proceed(o, "ready", snap[o], current)
  /\ UNCHANGED <<cr, now, informer, queue, edits>>

(* A failed upload may still have replaced the archive.                    *)
Upload(o) ==
  /\ pc[o] = "upload"
  /\ LET c == key[o]
         stored == [bucket EXCEPT ![c] = [spec |-> snap[o].spec, gen |-> snap[o].gen]]
     IN  \/ bucket' = stored /\ Proceed(o, "ready", snap[o], current) /\ UNCHANGED faults
         \/ bucket' \in {bucket, stored} /\ Proceed(o, "failWork", snap[o], current) /\ Fault
  /\ UNCHANGED <<cr, now, informer, queue, edits>>

SetReady(o) ==
  /\ pc[o] = "ready"
  /\ Write(o, WithStatus(snap[o], "Ready", snap[o].gen), "return", "error")
  /\ UNCHANGED <<bucket, now, cache, queue, edits>>

(* An invalid spec is reported and not retried; the outcome of the write   *)
(* is ignored.                                                             *)
SetFailedSpec(o) ==
  /\ pc[o] = "failSpec"
  /\ Write(o, WithStatus(snap[o], "Failed", 0), "return", "return")
  /\ UNCHANGED <<bucket, now, cache, queue, edits>>

(* A failed render or upload is reported and retried.                      *)
SetFailedWork(o) ==
  /\ pc[o] = "failWork"
  /\ Write(o, WithStatus(snap[o], "Failed", 0), "error", "error")
  /\ UNCHANGED <<bucket, now, cache, queue, edits>>

WorkerStep(o) ==
  \/ RemoveArtifact(o) \/ DropFinalizer(o) \/ AddFinalizer(o) \/ Reap(o)
  \/ SetGenerating(o) \/ Upload(o) \/ SetReady(o)
  \/ SetFailedSpec(o) \/ SetFailedWork(o)

-----------------------------------------------------------------------------
(* The informer, the workqueue's timers and the process itself.            *)

(* Add, Update and Delete events all just enqueue the key.                 *)
Deliver(o, c) ==
  /\ pc[o] # "down" /\ watch[o][c] # <<>>
  /\ cache' = [cache EXCEPT ![o][c] = Head(watch[o][c])]
  /\ watch' = [watch EXCEPT ![o][c] = Tail(@)]
  /\ queue' = [queue EXCEPT ![o] = @ \cup {c}]
  /\ UNCHANGED <<cr, bucket, now, delayed, worker, edits, faults>>

(* Faulty variant: an informer factory without a resync period.            *)
ResyncOff(o) == pc[o] # "down" /\ UNCHANGED vars

(* Every 30s the informer re-delivers what it has cached.                  *)
Resync(o) ==
  /\ pc[o] # "down"
  /\ queue' = [queue EXCEPT ![o] = @ \cup {c \in Charts : cache[o][c] # NoCR}]
  /\ UNCHANGED <<cr, bucket, now, informer, delayed, worker, edits, faults>>

BackoffOver(o, c) ==
  /\ pc[o] # "down" /\ c \in delayed[o]
  /\ delayed' = [delayed EXCEPT ![o] = @ \ {c}]
  /\ queue' = [queue EXCEPT ![o] = @ \cup {c}]
  /\ UNCHANGED <<cr, bucket, now, informer, worker, edits, faults>>

(* The process dies between two calls; all it knew was in memory.          *)
Crash(o) ==
  /\ pc[o] # "down" /\ Fault
  /\ pc' = [pc EXCEPT ![o] = "down"]
  /\ key' = [key EXCEPT ![o] = NoChart]
  /\ snap' = [snap EXCEPT ![o] = NoCR]
  /\ current' = [current EXCEPT ![o] = FALSE]
  /\ queue' = [queue EXCEPT ![o] = {}]
  /\ delayed' = [delayed EXCEPT ![o] = {}]
  /\ cache' = [cache EXCEPT ![o] = [c \in Charts |-> NoCR]]
  /\ watch' = [watch EXCEPT ![o] = [c \in Charts |-> <<>>]]
  /\ UNCHANGED <<cr, bucket, now, edits>>

(* Faulty variant: the worker starts before the cache is synced.           *)
RestartUnsynced(o) ==
  /\ pc[o] = "down"
  /\ pc' = [pc EXCEPT ![o] = "idle"]
  /\ queue' = [queue EXCEPT ![o] = {c \in Charts : cr[c] # NoCR}]
  /\ UNCHANGED <<cr, bucket, now, informer, delayed, key, snap, current, edits, faults>>

(* Start: the cache is synced from a list before the worker runs, and the  *)
(* list is delivered as Add events.                                        *)
Restart(o) ==
  /\ pc[o] = "down"
  /\ pc' = [pc EXCEPT ![o] = "idle"]
  /\ cache' = [cache EXCEPT ![o] = cr]
  /\ queue' = [queue EXCEPT ![o] = {c \in Charts : cr[c] # NoCR}]
  /\ UNCHANGED <<cr, bucket, now, watch, delayed, key, snap, current, edits, faults>>

-----------------------------------------------------------------------------
(* Users and the clock.                                                    *)

(* Faulty variant: the lifetime is subtracted.                             *)
ExpiryStampsBackwards(c) == IF c \in Anon THEN {now - TTL} ELSE {0}

(* The stamps an apply that lands now may carry: the backend computed it   *)
(* when the request came in, less than TTL ago.                            *)
ExpiryStamps(c) ==
  IF c \in Anon THEN {exp \in TTL .. now + TTL : exp >= now} ELSE {0}

UserWrite(c, obj) ==
  /\ edits < MaxEdits /\ edits' = edits + 1
  /\ Put(c, obj)
  /\ current' = StillCurrent(c, obj)
  /\ UNCHANGED <<bucket, now, cache, queue, delayed, pc, key, snap, faults>>

(* A /generate request reaches the API server, or someone uses kubectl.    *)
Apply(c, spec) == \E exp \in ExpiryStamps(c) : UserWrite(c, Applied(cr[c], spec, exp))

UserDelete(c) == cr[c] # NoCR /\ UserWrite(c, Deleted(cr[c]))

Tick ==
  /\ now < MaxTime /\ now' = now + 1
  /\ UNCHANGED <<cr, bucket, informer, queue, delayed, worker, edits, faults>>

-----------------------------------------------------------------------------
OperatorStep(o) ==
  \/ WorkerStep(o) \/ Resync(o) \/ Crash(o) \/ Restart(o)
  \/ \E c \in Charts : Dequeue(o, c) \/ Deliver(o, c) \/ BackoffOver(o, c)

Environment ==
  \/ Tick
  \/ \E c \in Charts : UserDelete(c) \/ \E spec \in Specs : Apply(c, spec)

Next == Environment \/ \E o \in Operators : OperatorStep(o)

Spec == Init /\ [][Next]_vars

-----------------------------------------------------------------------------
(* What the scheduling gives.  The worker goroutine and the informer keep  *)
(* running, the kubelet restarts the process, backoffs end, and the resync *)
(* timer fires.  The workqueue is first-in first-out, so a key in it is    *)
(* eventually picked even if it is put back time and again: strong         *)
(* fairness.  Users, the clock and faults owe nothing.                     *)
QueueFairness(o) ==
  /\ WF_vars(WorkerStep(o)) /\ WF_vars(Restart(o))
  /\ \A c \in Charts :
       SF_vars(Dequeue(o, c)) /\ WF_vars(Deliver(o, c)) /\ WF_vars(BackoffOver(o, c))

Fairness == \A o \in Operators : QueueFairness(o) /\ WF_vars(Resync(o))

FairSpec == Spec /\ Fairness

(* The time between two resyncs.                                           *)
QuietSpec ==
  /\ Init /\ [][Next /\ \A o \in Operators : ~Resync(o)]_vars
  /\ \A o \in Operators : QueueFairness(o)

-----------------------------------------------------------------------------
(* Properties.                                                             *)

(* A Ready status that carries the current generation is exact: the stored *)
(* archive is the one rendered from the spec the API server holds.  This   *)
(* is what Reconcile's short-circuit and the backend's download gate rely  *)
(* on, across applies during a render, failed uploads and crashes.         *)
ReadyIsExact ==
  \A c \in Charts :
    cr[c] # NoCR /\ UpToDate(cr[c]) =>
      bucket[c] # NoArtifact /\ bucket[c].spec = cr[c].spec

(* No archive is left behind: whatever is stored belongs to an object that *)
(* still carries the finalizer which will remove it.                       *)
NoOrphan ==
  \A c \in Charts : bucket[c] # NoArtifact => cr[c] # NoCR /\ cr[c].fin

(* The archive under a key never goes back to an older spec, neither       *)
(* through a stale cache nor through a retry.                              *)
NoRollback ==
  [][\A c \in Charts : bucket[c] # NoArtifact /\ bucket'[c] # NoArtifact =>
       bucket'[c].gen >= bucket[c].gen]_vars

(* A chart that is up to date stays so until its object changes            *)
(* generation: an operator that works from a stale copy cannot send it     *)
(* back to Generating or Failed, and it never vanishes while served.       *)
ReadyStays ==
  [][\A c \in Charts : cr[c] # NoCR /\ UpToDate(cr[c]) =>
       /\ cr'[c] # NoCR
       /\ UpToDate(cr'[c]) \/ cr'[c].gen > cr[c].gen]_vars

(* A chart that needs work, other than reaping, will be looked at without  *)
(* waiting for the resync: its key is queued, backing off or in the        *)
(* worker's hands, or an event about it is on its way.  (For an invalid    *)
(* spec Reconcile drops a failed status write, so only the resync helps.)  *)
NoLostWakeup ==
  \A o \in Operators, c \in Charts :
    /\ pc[o] # "down" /\ cr[c] # NoCR /\ cr[c].spec \notin Invalid
    /\ FirstCall(cr[c]) \notin {"return", "reap"}
    => \/ c \in queue[o] \cup delayed[o] \/ key[o] = c
       \/ watch[o][c] # <<>>

(* Level-based convergence: once users stop, every chart that is left is   *)
(* up to date and unexpired, whatever failed on the way: accepted specs    *)
(* are served, expired charts reaped and deleted ones cleaned up.  Only a  *)
(* chart whose spec cannot be rendered may be tried again and again.       *)
Hopeless(obj) == obj.spec \in Invalid \cup Unrenderable /\ FirstCall(obj) = "generating"
Converges ==
  <>[](\A c \in Charts :
        cr[c] = NoCR \/ FirstCall(cr[c]) = "return" \/ Hopeless(cr[c]))

(* The operator implements the catalog of charts: wanted is the spec the   *)
(* API server holds, served the spec of the stored archive while the gate  *)
(* of summarize (phase Ready, observedGeneration current) is open.         *)
wanted == [c \in Charts |-> IF cr[c] = NoCR THEN NoCR ELSE cr[c].spec]
served ==
  [c \in Charts |->
     IF cr[c] # NoCR /\ UpToDate(cr[c]) /\ bucket[c] # NoArtifact
     THEN bucket[c].spec ELSE NoCR]

Catalog == INSTANCE ChartCatalog WITH Nothing <- NoCR

ImplementsCatalog == Catalog!Spec

(* The operator implements the life of charts that pages poll: phase and   *)
(* link as summarize derives them from the object, with the progress that  *)
(* a polling page waits for, through failed calls, crashes and deletions.  *)
view ==
  [c \in Charts |->
     IF cr[c] = NoCR THEN NoCR
     ELSE [phase |-> IF cr[c].phase = "" THEN "Pending" ELSE cr[c].phase,
           link |-> UpToDate(cr[c])]]

Life == INSTANCE ChartLife WITH Absent <- NoCR
ASSUME NoCRIsNotAView == NoCR \notin Life!View

ImplementsLife == Life!FairSpec

(* "The operator deletes a chart once it is past this instant"             *)
(* (internal/apis/apis.go): a chart it deletes is past its expires-at.     *)
ReapsOnlyExpired ==
  [][\A o \in Operators :
       Reap(o) /\ cr'[key[o]] # cr[key[o]] => isExpired(cr[key[o]])]_vars

(* "deterministic; resync re-checks if the spec changes" (reconcile.go):   *)
(* between two resyncs, an invalid spec is reported Failed and left alone. *)
InvalidSpecRests ==
  <>[](\A c \in Charts :
         cr[c] # NoCR /\ cr[c].spec \in Invalid => cr[c].phase = "Failed")
=============================================================================
