--------------------------- MODULE OperatorProofs ---------------------------
(***************************************************************************)
(* Theorems about the operator, for every value of the constants.          *)
(***************************************************************************)
EXTENDS OperatorInvariants, SequenceTheorems, TLAPS

Entry == Object \cup {NoCR}

USE ChartsAssumption, NoCRIsNotAnObject, BoundsAssumption

-----------------------------------------------------------------------------
(* The object operators return objects.                                    *)

(* An apply yields an object, from nothing or from an object.              *)
LEMMA AppliedType ==
  ASSUME NEW obj \in Entry, NEW spec \in Specs, NEW exp \in Nat
  PROVE  Applied(obj, spec, exp) \in Object
<1>1. CASE obj = NoCR
  BY <1>1 DEF Applied, Object, Phases
<1>2. CASE obj \in Object
  <2> DEFINE gen == IF spec = obj.spec THEN obj.gen ELSE obj.gen + 1
  <2>1. gen \in Nat
    BY <1>2 DEF Object
  <2>2. Applied(obj, spec, exp) = [obj EXCEPT !.spec = spec, !.exp = exp, !.gen = gen]
    BY <1>2 DEF Applied, Object
  <2> HIDE DEF gen
  <2>3. QED
    BY <1>2, <2>1, <2>2 DEF Object
<1>3. QED
  BY <1>1, <1>2 DEF Entry

(* A delete yields the object, or none.                                    *)
LEMMA DeletedType == ASSUME NEW obj \in Object PROVE Deleted(obj) \in Entry
<1>1. obj.gen + 1 \in Nat
  BY DEF Object
<1>2. [obj EXCEPT !.del = TRUE, !.gen = obj.gen + 1] \in Object
  BY <1>1 DEF Object
<1>3. QED
  BY <1>2 DEF Deleted, Entry

(* So does an update of the finalizer; setting it always leaves an object. *)
LEMMA WithFinalizerType ==
  ASSUME NEW obj \in Object, NEW present \in BOOLEAN
  PROVE  /\ WithFinalizer(obj, present) \in Entry
         /\ present => WithFinalizer(obj, present) \in Object
  BY DEF WithFinalizer, Object, Entry

(* A status write leaves an object.                                        *)
LEMMA WithStatusType ==
  ASSUME NEW obj \in Object, NEW phase \in Phases, NEW observed \in Nat
  PROVE  WithStatus(obj, phase, observed) \in Object
  BY DEF WithStatus, Object

(* The stamps an apply may carry are instants.                             *)
LEMMA ExpiryStampsType ==
  ASSUME now \in Nat, NEW c, NEW exp \in ExpiryStamps(c) PROVE exp \in Nat
  BY DEF ExpiryStamps

-----------------------------------------------------------------------------
(* Types of the parts actions are made of.                                 *)

(* A write to the API server keeps the types of objects and events.        *)
LEMMA PutType ==
  ASSUME TypeOK, NEW c \in Charts, NEW obj \in Entry, Put(c, obj)
  PROVE  /\ cr' \in [Charts -> Entry]
         /\ watch' \in [Operators -> [Charts -> Seq(Entry)]]
<1>1. cr' \in [Charts -> Entry]
  BY DEF TypeOK, Put, Entry
<1>2. ASSUME NEW o \in Operators
      PROVE  [watch[o] EXCEPT ![c] = Append(@, obj)] \in [Charts -> Seq(Entry)]
  BY DEF TypeOK, Entry
<1>3. QED
  BY <1>1, <1>2 DEF TypeOK, Put, Entry

(* The bookkeeping of copies is Boolean.                                   *)
LEMMA StillCurrentType ==
  ASSUME TypeOK, NEW c \in Charts, NEW obj \in Entry
  PROVE  StillCurrent(c, obj) \in [Operators -> BOOLEAN]
  BY DEF TypeOK, StillCurrent

WorkerOK ==
  /\ pc \in [Operators -> Steps]
  /\ key \in [Operators -> Charts \cup {NoChart}]
  /\ snap \in [Operators -> Entry]
  /\ current \in [Operators -> BOOLEAN]
  /\ delayed \in [Operators -> SUBSET Charts]
  /\ \A o \in Operators : pc[o] \notin {"down", "idle"} =>
        key[o] \in Charts /\ snap[o] \in Object

(* Going on to a call, or returning, keeps the worker's types.             *)
LEMMA ProceedType ==
  ASSUME TypeOK, NEW o \in Operators, pc[o] \in Calls,
         NEW step \in Calls \cup {"return", "error"},
         NEW obj \in Entry, step \in Calls => obj \in Object,
         NEW copies \in [Operators -> BOOLEAN],
         Proceed(o, step, obj, copies)
  PROVE  WorkerOK'
<1> DEFINE Idle(p) == p \in {"down", "idle"}
<1>1. /\ pc \in [Operators -> Steps]
      /\ key \in [Operators -> Charts \cup {NoChart}]
      /\ snap \in [Operators -> Entry]
      /\ delayed \in [Operators -> SUBSET Charts]
      /\ \A p \in Operators : ~Idle(pc[p]) => key[p] \in Charts /\ snap[p] \in Object
      /\ key[o] \in Charts
  BY DEF TypeOK, Entry, Calls
<1>2. CASE step \in {"return", "error"}
  <2>1. /\ pc' = [pc EXCEPT ![o] = "idle"]
        /\ key' = [key EXCEPT ![o] = NoChart]
        /\ snap' = [snap EXCEPT ![o] = NoCR]
        /\ current' = [copies EXCEPT ![o] = FALSE]
        /\ delayed' = [delayed EXCEPT ![o] = @ \cup {key[o]}] \/ delayed' = delayed
    BY <1>2 DEF Proceed, Return
  <2>2. /\ pc' \in [Operators -> Steps]
        /\ key' \in [Operators -> Charts \cup {NoChart}]
        /\ snap' \in [Operators -> Entry]
        /\ delayed' \in [Operators -> SUBSET Charts]
        /\ current' \in [Operators -> BOOLEAN]
    BY <1>1, <2>1 DEF Steps, Entry
  <2>3. \A p \in Operators : ~Idle(pc'[p]) => key'[p] \in Charts /\ snap'[p] \in Object
    BY <1>1, <2>1
  <2>4. QED
    BY <2>2, <2>3 DEF WorkerOK
<1>3. CASE step \in Calls
  <2>1. /\ pc' = [pc EXCEPT ![o] = step]
        /\ snap' = [snap EXCEPT ![o] = obj]
        /\ current' = copies /\ key' = key /\ delayed' = delayed
        /\ obj \in Object
    BY <1>3 DEF Proceed, Calls, Steps
  <2>2. /\ pc' \in [Operators -> Steps]
        /\ key' \in [Operators -> Charts \cup {NoChart}]
        /\ snap' \in [Operators -> Entry]
        /\ delayed' \in [Operators -> SUBSET Charts]
        /\ current' \in [Operators -> BOOLEAN]
    BY <1>1, <1>3, <2>1 DEF Calls, Entry
  <2>3. \A p \in Operators : ~Idle(pc'[p]) => key'[p] \in Charts /\ snap'[p] \in Object
    BY <1>1, <2>1
  <2>4. QED
    BY <2>2, <2>3 DEF WorkerOK
<1>4. QED
  BY <1>2, <1>3

(* An Update or UpdateStatus keeps the types of all it touches.            *)
LEMMA WriteType ==
  ASSUME TypeOK, NEW o \in Operators, pc[o] \in Calls,
         NEW obj \in Entry,
         NEW onSuccess \in Calls \cup {"return", "error"},
         onSuccess \in Calls => obj \in Object,
         NEW onError \in {"return", "error"},
         Write(o, obj, onSuccess, onError)
  PROVE  /\ cr' \in [Charts -> Entry]
         /\ watch' \in [Operators -> [Charts -> Seq(Entry)]]
         /\ WorkerOK' /\ faults' \in Nat
<1> DEFINE copies == StillCurrent(key[o], obj)
<1>1. key[o] \in Charts /\ snap[o] \in Object /\ faults \in Nat
  BY DEF TypeOK, Calls
<1>2. copies \in [Operators -> BOOLEAN] /\ current \in [Operators -> BOOLEAN]
  BY <1>1, StillCurrentType DEF TypeOK
<1>3. [copies EXCEPT ![o] = TRUE] \in [Operators -> BOOLEAN]
  BY <1>2
<1>4. CASE Put(key[o], obj) /\ Proceed(o, onSuccess, obj, [copies EXCEPT ![o] = TRUE])
           /\ UNCHANGED faults
  <2>1. WorkerOK'
    BY <1>3, <1>4, ProceedType
  <2>2. QED
    BY <1>1, <1>4, <2>1, PutType
<1>5. CASE Put(key[o], obj) /\ Proceed(o, onError, snap[o], copies) /\ Fault
  <2>1. onError \notin Calls
    BY DEF Calls, Steps
  <2>2. WorkerOK'
    BY <1>1, <1>2, <1>5, <2>1, ProceedType DEF Entry
  <2>3. QED
    BY <1>1, <1>5, <2>2, PutType DEF Fault
<1>6. CASE Proceed(o, onError, snap[o], current) /\ UNCHANGED <<cr, watch>>
           /\ (UNCHANGED faults \/ Fault)
  <2>1. onError \notin Calls
    BY DEF Calls, Steps
  <2>2. WorkerOK'
    BY <1>1, <1>2, <1>6, <2>1, ProceedType DEF Entry
  <2>3. QED
    BY <1>1, <1>6, <2>2 DEF Fault, TypeOK, Entry
<1>7. QED
  BY <1>4, <1>5, <1>6 DEF Write

(* What Reconcile decides to do next is one of its calls or a return.      *)
LEMMA DecisionType ==
  ASSUME NEW obj
  PROVE  /\ AfterFinalizer(obj) \in {"reap", "return", "generating"}
         /\ FirstCall(obj) \in {"return", "remove", "addfin", "reap", "generating"}
         /\ AfterGenerating(obj) \in {"failSpec", "failWork", "upload"}
<1>1. AfterFinalizer(obj) \in {"reap", "return", "generating"}
  BY DEF AfterFinalizer
<1>2. FirstCall(obj) \in {"return", "remove", "addfin", "reap", "generating"}
  BY <1>1 DEF FirstCall
<1>3. AfterGenerating(obj) \in {"failSpec", "failWork", "upload"}
  BY DEF AfterGenerating
<1>4. QED
  BY <1>1, <1>2, <1>3

-----------------------------------------------------------------------------
(* Type correctness.                                                       *)

(* The types after a step, from the types of the parts it may change.      *)
LEMMA TypeFromParts ==
  ASSUME TypeOK, UNCHANGED <<now, cache, queue, edits>>, WorkerOK',
         cr' \in [Charts -> Entry],
         watch' \in [Operators -> [Charts -> Seq(Entry)]],
         bucket' \in [Charts -> Artifact \cup {NoArtifact}], faults' \in Nat
  PROVE  TypeOK'
  BY DEF TypeOK, WorkerOK, Entry

(* Every call of the worker keeps the types.                               *)
LEMMA WorkerTypeStep ==
  ASSUME TypeOK, NEW o \in Operators, WorkerStep(o)
  PROVE  TypeOK'
<1> DEFINE c == key[o]
<1>1. pc[o] \in Calls
  BY DEF TypeOK, Calls, Steps, WorkerStep, RemoveArtifact, DropFinalizer,
         AddFinalizer, Reap, SetGenerating, Upload, SetReady, SetFailedSpec, SetFailedWork
<1>2. c \in Charts /\ snap[o] \in Object /\ snap[o] \in Entry
  BY <1>1 DEF TypeOK, Calls, Entry
<1>3. current \in [Operators -> BOOLEAN] /\ faults \in Nat
  BY DEF TypeOK
<1>4. ASSUME NEW obj \in Entry,
             NEW onSuccess \in Calls \cup {"return", "error"},
             onSuccess \in Calls => obj \in Object,
             NEW onError \in {"return", "error"},
             Write(o, obj, onSuccess, onError),
             UNCHANGED <<bucket, now, cache, queue, edits>>
      PROVE  TypeOK'
  <2>1. /\ cr' \in [Charts -> Entry]
        /\ watch' \in [Operators -> [Charts -> Seq(Entry)]]
        /\ WorkerOK' /\ faults' \in Nat
    BY <1>1, <1>4, WriteType
  <2>2. QED
    BY <1>4, <2>1, TypeFromParts DEF TypeOK
<1>5. ASSUME NEW b \in [Charts -> Artifact \cup {NoArtifact}], bucket' = b,
             NEW step \in Calls \cup {"return", "error"},
             Proceed(o, step, snap[o], current), faults' \in Nat,
             UNCHANGED <<cr, now, informer, queue, edits>>
      PROVE  TypeOK'
  <2>1. WorkerOK'
    BY <1>1, <1>2, <1>3, <1>5, ProceedType
  <2>2. cr' \in [Charts -> Entry] /\ watch' \in [Operators -> [Charts -> Seq(Entry)]]
    BY <1>5 DEF TypeOK, Entry, informer
  <2>3. QED
    BY <1>5, <2>1, <2>2, TypeFromParts DEF informer
<1>6. CASE RemoveArtifact(o)
  <2>1. [bucket EXCEPT ![c] = NoArtifact] \in [Charts -> Artifact \cup {NoArtifact}]
    BY <1>2 DEF TypeOK
  <2>2. bucket \in [Charts -> Artifact \cup {NoArtifact}]
    BY DEF TypeOK
  <2>3. faults' \in Nat
    BY <1>3, <1>6 DEF RemoveArtifact, Fault
  <2>4. QED
    BY <1>5, <1>6, <2>1, <2>2, <2>3 DEF RemoveArtifact, Calls, Steps
<1>7. CASE DropFinalizer(o)
  <2>1. WithFinalizer(snap[o], FALSE) \in Entry
    BY <1>2, WithFinalizerType
  <2>2. QED
    BY <1>4, <1>7, <2>1 DEF DropFinalizer, Calls, Steps
<1>8. CASE AddFinalizer(o)
  <2> DEFINE updated == WithFinalizer(snap[o], TRUE)
  <2>1. updated \in Object /\ updated \in Entry
    BY <1>2, WithFinalizerType DEF Entry
  <2>2. AfterFinalizer(updated) \in Calls \cup {"return", "error"}
    BY DecisionType DEF Calls, Steps
  <2>3. QED
    BY <1>4, <1>8, <2>1, <2>2 DEF AddFinalizer
<1>9. CASE Reap(o)
  <2> DEFINE gone == Deleted(cr[c])
  <2>1. \/ /\ cr[c] # NoCR /\ Put(c, gone)
           /\ \E err \in BOOLEAN : Return(o, err, StillCurrent(c, gone))
        \/ Return(o, TRUE, current) /\ UNCHANGED <<cr, watch>>
    BY <1>9 DEF Reap
  <2>2. /\ UNCHANGED <<bucket, now, cache, queue, edits>>
        /\ faults' = faults \/ faults' = faults + 1
    BY <1>9 DEF Reap, Fault
  <2>3. faults' \in Nat /\ bucket' \in [Charts -> Artifact \cup {NoArtifact}]
    BY <1>3, <2>2 DEF TypeOK
  <2>4. ASSUME NEW err \in BOOLEAN, NEW copies \in [Operators -> BOOLEAN],
               Return(o, err, copies)
        PROVE  WorkerOK'
    <3>1. \E step \in {"return", "error"} : Proceed(o, step, snap[o], copies)
      BY <2>4 DEF Proceed
    <3>2. QED
      BY <1>1, <1>2, <3>1, ProceedType DEF Calls, Steps
  <2>5. CASE cr[c] # NoCR /\ Put(c, gone)
             /\ \E err \in BOOLEAN : Return(o, err, StillCurrent(c, gone))
    <3>1. gone \in Entry
      BY <1>2, <2>5, DeletedType DEF TypeOK
    <3>2. WorkerOK'
      BY <1>2, <2>4, <2>5, <3>1, StillCurrentType
    <3>3. QED
      BY <1>2, <2>2, <2>3, <2>5, <3>1, <3>2, PutType, TypeFromParts
  <2>6. CASE Return(o, TRUE, current) /\ UNCHANGED <<cr, watch>>
    <3>1. WorkerOK'
      BY <1>3, <2>4, <2>6
    <3>2. cr' \in [Charts -> Entry] /\ watch' \in [Operators -> [Charts -> Seq(Entry)]]
      BY <2>6 DEF TypeOK, Entry
    <3>3. QED
      BY <2>2, <2>3, <3>1, <3>2, TypeFromParts
  <2>7. QED
    BY <2>1, <2>5, <2>6
<1>10. CASE SetGenerating(o)
  <2> DEFINE updated == WithStatus(snap[o], "Generating", 0)
  <2>1. updated \in Object /\ updated \in Entry
    BY <1>2, WithStatusType DEF Entry, Phases
  <2>2. AfterGenerating(updated) \in Calls \cup {"return", "error"}
    BY DecisionType DEF Calls, Steps
  <2>3. QED
    BY <1>4, <1>10, <2>1, <2>2 DEF SetGenerating
<1>11. CASE Upload(o)
  <2> DEFINE stored == [bucket EXCEPT ![c] = [spec |-> snap[o].spec, gen |-> snap[o].gen]]
  <2>1. bucket \in [Charts -> Artifact \cup {NoArtifact}]
    BY DEF TypeOK
  <2>2. stored \in [Charts -> Artifact \cup {NoArtifact}]
    BY <1>2, <2>1 DEF Artifact, Object
  <2>3. faults' \in Nat
    BY <1>3, <1>11 DEF Upload, Fault
  <2>4. QED
    BY <1>5, <1>11, <2>1, <2>2, <2>3 DEF Upload, Calls, Steps
<1>12. CASE SetReady(o)
  <2>1. snap[o].gen \in Nat
    BY <1>2 DEF Object
  <2>2. WithStatus(snap[o], "Ready", snap[o].gen) \in Entry
    BY <1>2, <2>1, WithStatusType DEF Entry, Phases
  <2>3. QED
    BY <1>4, <1>12, <2>2 DEF SetReady, Calls, Steps
<1>13. CASE SetFailedSpec(o) \/ SetFailedWork(o)
  <2>1. WithStatus(snap[o], "Failed", 0) \in Entry
    BY <1>2, WithStatusType DEF Entry, Phases
  <2>2. QED
    BY <1>4, <1>13, <2>1 DEF SetFailedSpec, SetFailedWork, Calls, Steps
<1>14. QED
  BY <1>6, <1>7, <1>8, <1>9, <1>10, <1>11, <1>12, <1>13 DEF WorkerStep

(* So do the informer, the timers and the process.                         *)
LEMMA ProcessTypeStep ==
  ASSUME TypeOK, NEW o \in Operators,
         \/ \E c \in Charts : Dequeue(o, c) \/ Deliver(o, c) \/ BackoffOver(o, c)
         \/ Resync(o) \/ Crash(o) \/ Restart(o)
  PROVE  TypeOK'
<1> USE DEF informer, worker
<1>1. ASSUME NEW c \in Charts, Dequeue(o, c) PROVE TypeOK'
  <2> DEFINE obj == cache[o][c]
  <2>1. queue' \in [Operators -> SUBSET Charts]
        /\ UNCHANGED <<cr, bucket, now, watch, cache, delayed, edits, faults>>
    BY <1>1 DEF Dequeue, TypeOK
  <2>2. CASE UNCHANGED worker
    BY <2>1, <2>2 DEF TypeOK
  <2>3. CASE /\ obj # NoCR /\ FirstCall(obj) # "return"
             /\ pc' = [pc EXCEPT ![o] = FirstCall(obj)]
             /\ key' = [key EXCEPT ![o] = c]
             /\ snap' = [snap EXCEPT ![o] = obj]
             /\ current' = [current EXCEPT ![o] = watch[o][c] = <<>>]
    <3>1. obj \in Object /\ FirstCall(obj) \in Steps
      BY <2>3, DecisionType DEF TypeOK, Steps
    <3>2. /\ pc' \in [Operators -> Steps]
          /\ key' \in [Operators -> Charts \cup {NoChart}]
          /\ snap' \in [Operators -> Object \cup {NoCR}]
          /\ current' \in [Operators -> BOOLEAN]
      BY <2>3, <3>1 DEF TypeOK
    <3>3. \A p \in Operators : pc'[p] \notin {"down", "idle"} =>
             key'[p] \in Charts /\ snap'[p] \in Object
      BY <2>3, <3>1 DEF TypeOK
    <3>4. QED
      BY <2>1, <3>2, <3>3 DEF TypeOK
  <2>4. QED
    BY <1>1, <2>2, <2>3 DEF Dequeue
<1>2. ASSUME NEW c \in Charts, Deliver(o, c) PROVE TypeOK'
  <2>1. watch[o][c] \in Seq(Object \cup {NoCR}) /\ watch[o][c] # <<>>
    BY <1>2 DEF Deliver, TypeOK
  <2>2. /\ Head(watch[o][c]) \in Object \cup {NoCR}
        /\ Tail(watch[o][c]) \in Seq(Object \cup {NoCR})
    BY <2>1
  <2>3. /\ cache' \in [Operators -> [Charts -> Object \cup {NoCR}]]
        /\ watch' \in [Operators -> [Charts -> Seq(Object \cup {NoCR})]]
        /\ queue' \in [Operators -> SUBSET Charts]
    BY <1>2, <2>2 DEF Deliver, TypeOK
  <2>4. QED
    BY <1>2, <2>3 DEF Deliver, TypeOK
<1>3. ASSUME NEW c \in Charts, BackoffOver(o, c) PROVE TypeOK'
  BY <1>3 DEF BackoffOver, TypeOK
<1>4. CASE Resync(o)
  BY <1>4 DEF Resync, TypeOK
<1>5. CASE Crash(o)
  <2>1. /\ pc' \in [Operators -> Steps]
        /\ key' \in [Operators -> Charts \cup {NoChart}]
        /\ snap' \in [Operators -> Object \cup {NoCR}]
        /\ current' \in [Operators -> BOOLEAN]
        /\ queue' \in [Operators -> SUBSET Charts]
        /\ delayed' \in [Operators -> SUBSET Charts]
    BY <1>5 DEF Crash, TypeOK, Steps
  <2>2. /\ cache' \in [Operators -> [Charts -> Object \cup {NoCR}]]
        /\ watch' \in [Operators -> [Charts -> Seq(Object \cup {NoCR})]]
    BY <1>5 DEF Crash, TypeOK
  <2>3. \A p \in Operators : pc'[p] \notin {"down", "idle"} =>
           key'[p] \in Charts /\ snap'[p] \in Object
    BY <1>5 DEF Crash, TypeOK
  <2>4. QED
    BY <1>5, <2>1, <2>2, <2>3 DEF Crash, Fault, TypeOK
<1>6. CASE Restart(o)
  <2>1. /\ pc' \in [Operators -> Steps]
        /\ queue' \in [Operators -> SUBSET Charts]
        /\ cache' \in [Operators -> [Charts -> Object \cup {NoCR}]]
    BY <1>6 DEF Restart, TypeOK, Steps
  <2>2. \A p \in Operators : pc'[p] \notin {"down", "idle"} =>
           key'[p] \in Charts /\ snap'[p] \in Object
    BY <1>6 DEF Restart, TypeOK
  <2>3. QED
    BY <1>6, <2>1, <2>2 DEF Restart, TypeOK
<1>7. QED
  BY <1>1, <1>2, <1>3, <1>4, <1>5, <1>6

(* And so do users and the clock.                                          *)
LEMMA EnvironmentTypeStep ==
  ASSUME TypeOK, Environment
  PROVE  TypeOK'
<1>1. ASSUME NEW c \in Charts, NEW obj \in Entry, UserWrite(c, obj)
      PROVE  TypeOK'
  <2>1. /\ cr' \in [Charts -> Entry]
        /\ watch' \in [Operators -> [Charts -> Seq(Entry)]]
    BY <1>1, PutType DEF UserWrite
  <2>2. current' \in [Operators -> BOOLEAN]
    BY <1>1, StillCurrentType DEF UserWrite
  <2>3. QED
    BY <1>1, <2>1, <2>2 DEF UserWrite, TypeOK, Entry
<1>2. ASSUME NEW c \in Charts, UserDelete(c)
      PROVE  TypeOK'
  <2>1. Deleted(cr[c]) \in Entry
    BY <1>2, DeletedType DEF UserDelete, TypeOK
  <2>2. QED
    BY <1>1, <1>2, <2>1 DEF UserDelete
<1>3. ASSUME NEW c \in Charts, NEW spec \in Specs, Apply(c, spec)
      PROVE  TypeOK'
  <2>1. PICK exp \in ExpiryStamps(c) : UserWrite(c, Applied(cr[c], spec, exp))
    BY <1>3 DEF Apply
  <2>2. exp \in Nat /\ cr[c] \in Entry
    BY <2>1, ExpiryStampsType DEF TypeOK, Entry
  <2>3. Applied(cr[c], spec, exp) \in Entry
    BY <2>2, AppliedType DEF Entry
  <2>4. QED
    BY <1>1, <2>1, <2>3
<1>4. CASE Tick
  BY <1>4 DEF Tick, TypeOK, informer, worker
<1>5. QED
  BY <1>2, <1>3, <1>4 DEF Environment

(* Type correctness: every object, event, copy and archive has its shape   *)
(* and the worker always has an object in hand while it makes calls.       *)
THEOREM TypeCorrect == Spec => []TypeOK
<1>1. Init => TypeOK
  BY DEF Init, TypeOK, Steps
<1>2. TypeOK /\ [Next]_vars => TypeOK'
  <2> SUFFICES ASSUME TypeOK, [Next]_vars PROVE TypeOK'
    OBVIOUS
  <2>1. CASE Environment
    BY <2>1, EnvironmentTypeStep
  <2>2. ASSUME NEW o \in Operators, OperatorStep(o)
        PROVE  TypeOK'
    <3>1. CASE WorkerStep(o)
      BY <3>1, WorkerTypeStep
    <3>2. CASE ~WorkerStep(o)
      BY <2>2, <3>2, ProcessTypeStep DEF OperatorStep
    <3>3. QED
      BY <3>1, <3>2
  <2>3. CASE UNCHANGED vars
    BY <2>3 DEF vars, informer, worker, TypeOK
  <2>4. QED
    BY <2>1, <2>2, <2>3 DEF Next
<1>3. QED
  BY <1>1, <1>2, PTL DEF Spec

-----------------------------------------------------------------------------
(* Copies, for any number of operators.                                    *)

(* What an Update or UpdateStatus by o amounts to: the others keep their   *)
(* copies and learn when these are outdated; o's call is refused or lost,  *)
(* or the server stores obj in place of o's copy.                          *)
LEMMA WriteEffect ==
  ASSUME TypeOK, CopyIsCurrent, NEW o \in Operators, pc[o] \in Calls,
         NEW obj, NEW onSuccess \in Calls \cup {"return", "error"},
         NEW onError \in {"return", "error"},
         Write(o, obj, onSuccess, onError)
  PROVE  /\ \A p \in Operators \ {o} :
              /\ pc'[p] = pc[p] /\ key'[p] = key[p] /\ snap'[p] = snap[p]
              /\ current'[p] => current[p] /\ cr'[key[p]] = cr[key[p]]
         /\ \/ UNCHANGED <<cr, watch>> /\ pc'[o] = "idle" /\ ~current'[o]
            \/ /\ current[o] /\ cr[key[o]] = snap[o] /\ Put(key[o], obj)
               /\ \/ pc'[o] = "idle" /\ ~current'[o]
                  \/ /\ onSuccess \in Calls /\ pc'[o] = onSuccess
                     /\ key'[o] = key[o] /\ snap'[o] = obj
<1> DEFINE c == key[o]
           copies == StillCurrent(c, obj)
<1>1. /\ pc \in [Operators -> Steps] /\ key \in [Operators -> Charts \cup {NoChart}]
      /\ snap \in [Operators -> Entry] /\ current \in [Operators -> BOOLEAN]
      /\ cr \in [Charts -> Entry] /\ c \in Charts
  BY DEF TypeOK, Calls, Entry
<1>2. ASSUME NEW step \in {"return", "error"}, NEW x, NEW cp \in [Operators -> BOOLEAN],
             Proceed(o, step, x, cp)
      PROVE  /\ pc'[o] = "idle" /\ ~current'[o]
             /\ \A p \in Operators \ {o} :
                  pc'[p] = pc[p] /\ key'[p] = key[p] /\ snap'[p] = snap[p] /\ current'[p] = cp[p]
  BY <1>1, <1>2 DEF Proceed, Return
<1>3. ASSUME NEW step \in Calls, NEW x, NEW cp \in [Operators -> BOOLEAN],
             Proceed(o, step, x, cp)
      PROVE  /\ pc'[o] = step /\ key'[o] = key[o] /\ snap'[o] = x
             /\ \A p \in Operators \ {o} :
                  pc'[p] = pc[p] /\ key'[p] = key[p] /\ snap'[p] = snap[p] /\ current'[p] = cp[p]
  BY <1>1, <1>3 DEF Proceed, Calls, Steps
<1>4. /\ copies \in [Operators -> BOOLEAN]
      /\ [copies EXCEPT ![o] = TRUE] \in [Operators -> BOOLEAN]
      /\ \A p \in Operators : copies[p] => current[p] /\ (key[p] = c => obj = cr[c])
  BY <1>1 DEF StillCurrent
<1>5. ASSUME Put(c, obj), NEW p \in Operators, copies[p]
      PROVE  current[p] /\ cr'[key[p]] = cr[key[p]]
  <2>1. current[p] /\ key[p] \in Charts
    BY <1>4, <1>5 DEF CopyIsCurrent, TypeOK, Calls
  <2>2. QED
    BY <1>1, <1>4, <1>5, <2>1 DEF Put
<1>6. current[o] => cr[c] = snap[o]
  BY DEF CopyIsCurrent
<1>7. CASE current[o] /\ Put(c, obj)
           /\ Proceed(o, onSuccess, obj, [copies EXCEPT ![o] = TRUE])
  <2> DEFINE cp == [copies EXCEPT ![o] = TRUE]
  <2>1. cp \in [Operators -> BOOLEAN] /\ \A p \in Operators \ {o} : cp[p] = copies[p]
    BY <1>4
  <2>2. Proceed(o, onSuccess, obj, cp)
    BY <1>7
  <2> HIDE DEF cp
  <2>3. /\ \A p \in Operators \ {o} :
             pc'[p] = pc[p] /\ key'[p] = key[p] /\ snap'[p] = snap[p] /\ current'[p] = cp[p]
        /\ \/ pc'[o] = "idle" /\ ~current'[o]
           \/ onSuccess \in Calls /\ pc'[o] = onSuccess /\ key'[o] = c /\ snap'[o] = obj
    <3>1. CASE onSuccess \in Calls
      BY <1>3, <2>1, <2>2, <3>1
    <3>2. CASE onSuccess \in {"return", "error"}
      BY <1>2, <2>1, <2>2, <3>2
    <3>3. QED
      BY <3>1, <3>2
  <2>4. \A p \in Operators \ {o} : current'[p] => current[p] /\ cr'[key[p]] = cr[key[p]]
    BY <1>5, <1>7, <2>1, <2>3
  <2>5. QED
    BY <1>6, <1>7, <2>3, <2>4
<1>8. CASE current[o] /\ Put(c, obj) /\ Proceed(o, onError, snap[o], copies)
  BY <1>2, <1>4, <1>5, <1>6, <1>8
<1>9. CASE Proceed(o, onError, snap[o], current) /\ UNCHANGED <<cr, watch>>
  BY <1>1, <1>2, <1>9
<1>10. QED
  BY <1>7, <1>8, <1>9 DEF Write

(* A write keeps the events leading from every cache to the server.        *)
LEMMA PutCatchesUp ==
  ASSUME TypeOK, CacheCatchesUp, NEW c \in Charts, NEW obj \in Entry,
         Put(c, obj), UNCHANGED cache,
         \A p \in Operators : pc'[p] = "down" <=> pc[p] = "down"
  PROVE  CacheCatchesUp'
<1> SUFFICES ASSUME NEW p \in Operators, NEW x \in Charts
             PROVE  /\ pc'[p] = "down" => watch'[p][x] = <<>>
                    /\ pc'[p] # "down" /\ watch'[p][x] = <<>> => cache'[p][x] = cr'[x]
                    /\ watch'[p][x] # <<>> => watch'[p][x][Len(watch'[p][x])] = cr'[x]
  BY DEF CacheCatchesUp
<1>1. /\ cr \in [Charts -> Entry] /\ watch[p] \in [Charts -> Seq(Entry)]
      /\ cr' = [cr EXCEPT ![c] = obj]
  BY DEF TypeOK, Entry, Put
<1>2. CASE x # c \/ obj = cr[c] \/ pc[p] = "down"
  <2>1. watch'[p][x] = watch[p][x]
    BY <1>1, <1>2 DEF Put
  <2>2. CASE pc[p] = "down"
    BY <2>1, <2>2 DEF CacheCatchesUp
  <2>3. CASE pc[p] # "down"
    <3>1. cr'[x] = cr[x]
      BY <1>1, <1>2, <2>3
    <3>2. QED
      BY <2>1, <2>3, <3>1 DEF CacheCatchesUp
  <2>4. QED
    BY <2>2, <2>3
<1>3. CASE x = c /\ obj # cr[c] /\ pc[p] # "down"
  <2>1. watch'[p][x] = Append(watch[p][c], obj) /\ cr'[x] = obj
    BY <1>1, <1>3 DEF Put
  <2>2. watch[p][c] \in Seq(Entry)
    BY <1>1
  <2>3. /\ Append(watch[p][c], obj) # <<>>
        /\ Append(watch[p][c], obj)[Len(Append(watch[p][c], obj))] = obj
    BY <2>2
  <2>4. QED
    BY <1>3, <2>1, <2>3
<1>4. QED
  BY <1>2, <1>3

(* A write by o of a coherent object that fits o's next call.              *)
LEMMA WriteCopies ==
  ASSUME TypeOK, Copies, NEW o \in Operators, pc[o] \in Calls,
         NEW obj \in Entry, NEW onSuccess \in Calls \cup {"return", "error"},
         NEW onError \in {"return", "error"},
         Write(o, obj, onSuccess, onError), UNCHANGED cache,
         cr[key[o]] = snap[o] /\ obj # NoCR => Coherent(obj),
         onSuccess \in Calls => Fits(onSuccess, obj)
  PROVE  Copies'
<1> DEFINE c == key[o]
<1>1. c \in Charts /\ cr \in [Charts -> Entry]
  BY DEF TypeOK, Calls, Entry
<1>2. /\ \A p \in Operators \ {o} :
           /\ pc'[p] = pc[p] /\ key'[p] = key[p] /\ snap'[p] = snap[p]
           /\ current'[p] => current[p] /\ cr'[key[p]] = cr[key[p]]
      /\ \/ UNCHANGED <<cr, watch>> /\ pc'[o] = "idle" /\ ~current'[o]
         \/ /\ current[o] /\ cr[c] = snap[o] /\ Put(c, obj)
            /\ \/ pc'[o] = "idle" /\ ~current'[o]
               \/ /\ onSuccess \in Calls /\ pc'[o] = onSuccess
                  /\ key'[o] = c /\ snap'[o] = obj
  BY WriteEffect DEF Copies
<1>3. CopyIsCurrent'
  <2> SUFFICES ASSUME NEW p \in Operators, current'[p]
               PROVE  pc'[p] \in Calls /\ cr'[key'[p]] = snap'[p]
    BY DEF CopyIsCurrent
  <2>1. CASE p # o
    BY <1>2, <2>1 DEF Copies, CopyIsCurrent
  <2>2. CASE p = o
    BY <1>1, <1>2, <2>2 DEF Put
  <2>3. QED
    BY <2>1, <2>2
<1>4. CacheCatchesUp'
  <2>1. \A p \in Operators : pc'[p] = "down" <=> pc[p] = "down"
    BY <1>2 DEF Calls, Steps
  <2>2. CASE UNCHANGED <<cr, watch>>
    BY <2>1, <2>2 DEF Copies, CacheCatchesUp
  <2>3. CASE Put(c, obj)
    BY <1>1, <2>1, <2>3, PutCatchesUp DEF Copies
  <2>4. QED
    BY <1>2, <2>2, <2>3
<1>5. CopyFitsCall'
  <2> SUFFICES ASSUME NEW p \in Operators PROVE Fits(pc'[p], snap'[p])
    BY DEF CopyFitsCall
  <2>1. CASE p # o
    BY <1>2, <2>1 DEF Copies, CopyFitsCall
  <2>2. CASE p = o /\ pc'[o] = "idle"
    BY <2>2 DEF Fits, Attempt
  <2>3. CASE p = o /\ onSuccess \in Calls /\ pc'[o] = onSuccess /\ snap'[o] = obj
    BY <2>3
  <2>4. QED
    BY <1>2, <2>1, <2>2, <2>3
<1>6. ASSUME NEW x \in Charts, cr'[x] # NoCR PROVE Coherent(cr'[x])
  BY <1>1, <1>2, <1>6 DEF Put, Copies
<1>7. QED
  BY <1>3, <1>4, <1>5, <1>6 DEF Copies

(* The server's changes leave a coherent object coherent.                  *)
LEMMA CoherentChanges ==
  ASSUME NEW obj \in Object, Coherent(obj)
  PROVE  /\ Deleted(obj) # NoCR => Coherent(Deleted(obj))
         /\ ~obj.del => Coherent(WithFinalizer(obj, TRUE))
         /\ \A spec \in Specs, exp \in Nat : Coherent(Applied(obj, spec, exp))
         /\ Coherent(WithStatus(obj, "Generating", 0)) \/ obj.del
         /\ Coherent(WithStatus(obj, "Failed", 0)) \/ obj.del
         /\ ~obj.del /\ obj.fin => Coherent(WithStatus(obj, "Ready", obj.gen))
<1>1. /\ obj.gen \in Nat /\ obj.observed \in Nat
      /\ obj.del \in BOOLEAN /\ obj.fin \in BOOLEAN /\ obj # NoCR
  BY DEF Object
<1>2. Deleted(obj) # NoCR => Coherent(Deleted(obj))
  <2>1. CASE obj.fin /\ ~obj.del
    <3> DEFINE new == [obj EXCEPT !.del = TRUE, !.gen = obj.gen + 1]
    <3>1. /\ new.del = TRUE /\ new.gen = obj.gen + 1 /\ new.fin = obj.fin
          /\ new.observed = obj.observed /\ new.phase = obj.phase
      BY DEF Object
    <3>2. Deleted(obj) = new
      BY <2>1 DEF Deleted
    <3> HIDE DEF new
    <3>3. new.observed <= new.gen /\ new.observed < new.gen
      BY <1>1, <3>1 DEF Coherent
    <3>4. QED
      BY <2>1, <3>1, <3>2, <3>3 DEF Coherent
  <2>2. CASE ~obj.fin \/ obj.del
    BY <2>2 DEF Deleted
  <2>3. QED
    BY <1>1, <2>1, <2>2
<1>3. ~obj.del => Coherent(WithFinalizer(obj, TRUE))
  BY <1>1 DEF WithFinalizer, Coherent, Object
<1>4. ASSUME NEW spec \in Specs, NEW exp \in Nat
      PROVE  Coherent(Applied(obj, spec, exp))
  <2> DEFINE gen == IF spec = obj.spec THEN obj.gen ELSE obj.gen + 1
             new == [obj EXCEPT !.spec = spec, !.exp = exp, !.gen = gen]
  <2>1. gen \in Nat /\ gen >= obj.gen
    BY <1>1
  <2>2. /\ new.gen = gen /\ new.del = obj.del /\ new.fin = obj.fin
        /\ new.observed = obj.observed /\ new.phase = obj.phase
    BY DEF Object
  <2>3. Applied(obj, spec, exp) = new
    BY <1>1 DEF Applied
  <2> HIDE DEF gen, new
  <2>4. QED
    BY <1>1, <2>1, <2>2, <2>3 DEF Coherent
<1>5. ASSUME NEW phase \in {"Generating", "Failed"}, ~obj.del
      PROVE  Coherent(WithStatus(obj, phase, 0))
  BY <1>1, <1>5 DEF WithStatus, Coherent, Object
<1>6. ~obj.del /\ obj.fin => Coherent(WithStatus(obj, "Ready", obj.gen))
  BY <1>1 DEF WithStatus, Coherent, Object
<1>7. QED
  BY <1>2, <1>3, <1>4, <1>5, <1>6

(* Every call of the worker keeps the copies right.                        *)
LEMMA WorkerCopies ==
  ASSUME TypeOK, Copies, NEW o \in Operators, WorkerStep(o)
  PROVE  Copies'
<1> DEFINE c == key[o]
<1>1. pc[o] \in Calls
  BY DEF TypeOK, Calls, Steps, WorkerStep, RemoveArtifact, DropFinalizer,
         AddFinalizer, Reap, SetGenerating, Upload, SetReady, SetFailedSpec, SetFailedWork
<1>2. c \in Charts /\ snap[o] \in Object /\ cr \in [Charts -> Entry]
  BY <1>1 DEF TypeOK, Calls, Entry
<1>3. Fits(pc[o], snap[o]) /\ (cr[c] = snap[o] => Coherent(snap[o]))
  BY <1>2 DEF Copies, CopyFitsCall
<1>4. ASSUME NEW step \in Calls \cup {"error"}, Proceed(o, step, snap[o], current),
             UNCHANGED <<cr, watch, cache>>, step # "error" => Fits(step, snap[o])
      PROVE  Copies'
  <2>1. \A p \in Operators \ {o} : pc'[p] = pc[p] /\ key'[p] = key[p]
                                   /\ snap'[p] = snap[p] /\ current'[p] = current[p]
    BY <1>4 DEF Proceed, Return, TypeOK
  <2>2. CASE step = "error"
    <3>1. pc'[o] = "idle" /\ ~current'[o]
      BY <1>4, <2>2 DEF Proceed, Return, TypeOK
    <3>2. CopyIsCurrent' /\ CacheCatchesUp' /\ CopyFitsCall'
      BY <1>1, <1>4, <2>1, <3>1
      DEF Copies, CopyIsCurrent, CacheCatchesUp, CopyFitsCall, Fits, Attempt, Calls
    <3>3. QED
      BY <1>4, <3>2 DEF Copies
  <2>3. CASE step \in Calls
    <3>1. pc'[o] = step /\ key'[o] = c /\ snap'[o] = snap[o] /\ current'[o] = current[o]
      BY <1>4, <2>3 DEF Proceed, TypeOK, Calls, Steps
    <3>2. CopyIsCurrent'
      BY <1>1, <1>4, <2>1, <2>3, <3>1 DEF Copies, CopyIsCurrent
    <3>3. CacheCatchesUp'
      BY <1>1, <1>4, <2>1, <2>3, <3>1 DEF Copies, CacheCatchesUp, Calls
    <3>4. CopyFitsCall'
      BY <1>4, <2>1, <2>3, <3>1 DEF Copies, CopyFitsCall, Calls, Steps
    <3>5. QED
      BY <1>4, <3>2, <3>3, <3>4 DEF Copies
  <2>4. QED
    BY <2>2, <2>3
<1>5. CASE RemoveArtifact(o)
  <2>1. Fits("dropfin", snap[o])
    BY <1>3, <1>5 DEF RemoveArtifact, Fits, Attempt
  <2>2. UNCHANGED <<cr, watch, cache>>
        /\ \E step \in {"dropfin", "error"} : Proceed(o, step, snap[o], current)
    BY <1>5 DEF RemoveArtifact, informer
  <2>3. QED
    BY <1>4, <2>1, <2>2 DEF Calls, Steps
<1>6. CASE DropFinalizer(o)
  <2>1. snap[o].del
    BY <1>3, <1>6 DEF DropFinalizer, Fits
  <2>2. WithFinalizer(snap[o], FALSE) = NoCR
    BY <2>1 DEF WithFinalizer
  <2>3. QED
    BY <1>1, <1>6, <2>2, WriteCopies DEF DropFinalizer, Entry, Calls, Steps
<1>7. CASE AddFinalizer(o)
  <2> DEFINE new == WithFinalizer(snap[o], TRUE)
             next == AfterFinalizer(new)
  <2>1. ~snap[o].del
    BY <1>3, <1>7 DEF AddFinalizer, Fits
  <2>2. new = [snap[o] EXCEPT !.fin = TRUE]
    BY <2>1 DEF WithFinalizer
  <2>3. new \in Object /\ ~new.del /\ new.fin
    BY <1>2, <2>1, <2>2 DEF Object
  <2>4. next \in Calls => Fits(next, new)
    BY <2>3 DEF AfterFinalizer, Fits, Attempt, Calls, Steps
  <2>5. next \in Calls \cup {"return", "error"}
    BY DecisionType DEF Calls, Steps
  <2>6. Write(o, new, next, "error") /\ UNCHANGED cache
    BY <1>7 DEF AddFinalizer
  <2>7. cr[c] = snap[o] => Coherent(new)
    BY <1>2, <1>3, <2>1, CoherentChanges
  <2> HIDE DEF new, next
  <2>8. QED
    BY <1>1, <2>3, <2>4, <2>5, <2>6, <2>7, WriteCopies DEF Entry
<1>8. CASE Reap(o)
  <2> DEFINE gone == Deleted(cr[c])
  <2>1. /\ pc'[o] = "idle" /\ ~current'[o] /\ UNCHANGED cache
        /\ \A p \in Operators \ {o} : pc'[p] = pc[p] /\ key'[p] = key[p] /\ snap'[p] = snap[p]
        /\ \/ cr[c] # NoCR /\ Put(c, gone)
              /\ \A p \in Operators \ {o} : current'[p] = StillCurrent(c, gone)[p]
           \/ UNCHANGED <<cr, watch>> /\ \A p \in Operators \ {o} : current'[p] = current[p]
    BY <1>8 DEF Reap, Return, TypeOK, StillCurrent
  <2>2. cr[c] # NoCR => gone \in Entry /\ (gone # NoCR => Coherent(gone))
    BY <1>2, DeletedType, CoherentChanges DEF Copies, Entry
  <2>3. CopyFitsCall'
    BY <2>1 DEF Copies, CopyFitsCall, Fits, Attempt
  <2>4. \A p \in Operators : pc'[p] = "down" <=> pc[p] = "down"
    BY <1>1, <2>1 DEF Calls
  <2>5. CASE cr[c] # NoCR /\ Put(c, gone)
             /\ \A p \in Operators \ {o} : current'[p] = StillCurrent(c, gone)[p]
    <3>1. CopyIsCurrent'
      <4> SUFFICES ASSUME NEW p \in Operators, current'[p]
                   PROVE  pc'[p] \in Calls /\ cr'[key'[p]] = snap'[p]
        BY DEF CopyIsCurrent
      <4>1. p # o /\ current[p] /\ (key[p] = c => gone = cr[c])
        BY <2>1, <2>5 DEF StillCurrent
      <4>2. pc[p] \in Calls /\ cr[key[p]] = snap[p] /\ key[p] \in Charts
        BY <4>1 DEF Copies, CopyIsCurrent, TypeOK, Calls
      <4>3. cr'[key[p]] = cr[key[p]]
        BY <1>2, <2>5, <4>1, <4>2 DEF Put
      <4>4. QED
        BY <2>1, <4>1, <4>2, <4>3
    <3>2. CacheCatchesUp'
      BY <1>2, <2>1, <2>2, <2>4, <2>5, PutCatchesUp DEF Copies
    <3>3. \A x \in Charts : cr'[x] # NoCR => Coherent(cr'[x])
      BY <1>2, <2>2, <2>5 DEF Copies, Put
    <3>4. QED
      BY <2>3, <3>1, <3>2, <3>3 DEF Copies
  <2>6. CASE UNCHANGED <<cr, watch>> /\ \A p \in Operators \ {o} : current'[p] = current[p]
    BY <2>1, <2>3, <2>4, <2>6 DEF Copies, CopyIsCurrent, CacheCatchesUp
  <2>7. QED
    BY <2>1, <2>5, <2>6
<1>9. CASE SetGenerating(o)
  <2> DEFINE new == WithStatus(snap[o], "Generating", 0)
             next == AfterGenerating(new)
  <2>1. ~snap[o].del /\ snap[o].fin
    BY <1>3, <1>9 DEF SetGenerating, Fits
  <2>2. new \in Object /\ ~new.del /\ new.fin /\ new.phase = "Generating"
    BY <1>2, <2>1 DEF WithStatus, Object, Phases
  <2>3. next \in Attempt
    BY DecisionType DEF Attempt
  <2>4. Fits(next, new)
    BY <2>2, <2>3 DEF Fits, Attempt
  <2>5. Write(o, new, next, "error") /\ UNCHANGED cache
    BY <1>9 DEF SetGenerating
  <2>6. cr[c] = snap[o] => Coherent(new)
    BY <1>2, <1>3, <2>1, CoherentChanges
  <2> HIDE DEF new, next
  <2>7. QED
    BY <1>1, <2>2, <2>3, <2>4, <2>5, <2>6, WriteCopies DEF Entry, Attempt, Calls, Steps
<1>10. CASE Upload(o)
  <2>1. Fits("ready", snap[o]) /\ Fits("failWork", snap[o])
    BY <1>3, <1>10 DEF Upload, Fits, Attempt
  <2>2. UNCHANGED <<cr, watch, cache>>
        /\ \E step \in {"ready", "failWork"} : Proceed(o, step, snap[o], current)
    BY <1>10 DEF Upload, informer
  <2>3. QED
    BY <1>4, <2>1, <2>2 DEF Calls, Steps
<1>11. CASE SetReady(o) \/ SetFailedSpec(o) \/ SetFailedWork(o)
  <2> DEFINE ready == WithStatus(snap[o], "Ready", snap[o].gen)
             failed == WithStatus(snap[o], "Failed", 0)
  <2>1. ~snap[o].del /\ snap[o].fin
    BY <1>3, <1>11 DEF SetReady, SetFailedSpec, SetFailedWork, Fits, Attempt
  <2>2. ready \in Entry /\ failed \in Entry
    <3>1. snap[o].gen \in Nat
      BY <1>2 DEF Object
    <3>2. QED
      BY <1>2, <3>1, WithStatusType DEF Entry, Phases
  <2>3. cr[c] = snap[o] => Coherent(ready) /\ Coherent(failed)
    BY <1>2, <1>3, <2>1, CoherentChanges
  <2>4. \E new \in {ready, failed}, next \in {"return", "error"}, err \in {"return", "error"} :
           Write(o, new, next, err)
    BY <1>11 DEF SetReady, SetFailedSpec, SetFailedWork
  <2>5. UNCHANGED cache
    BY <1>11 DEF SetReady, SetFailedSpec, SetFailedWork
  <2> HIDE DEF ready, failed
  <2>6. QED
    BY <1>1, <2>2, <2>3, <2>4, <2>5, WriteCopies DEF Calls, Steps
<1>12. QED
  BY <1>5, <1>6, <1>7, <1>8, <1>9, <1>10, <1>11 DEF WorkerStep

(* Taking the head off a sequence leaves its last element where it was.    *)
LEMMA TailEnds ==
  ASSUME NEW S, NEW s \in Seq(S), s # <<>>
  PROVE  /\ Tail(s) = <<>> => Head(s) = s[Len(s)]
         /\ Tail(s) # <<>> => Tail(s)[Len(Tail(s))] = s[Len(s)]
<1>1. /\ Len(s) \in Nat /\ Len(s) >= 1 /\ Head(s) = s[1]
      /\ Tail(s) \in Seq(S) /\ Len(Tail(s)) = Len(s) - 1
      /\ \A i \in 1 .. Len(Tail(s)) : Tail(s)[i] = s[i + 1]
  BY HeadTailProperties
<1>2. Tail(s) = <<>> <=> Len(Tail(s)) = 0
  BY <1>1, EmptySeq
<1>3. QED
  BY <1>1, <1>2

(* Taking a key fits the call that Reconcile starts with.                  *)
LEMMA FirstCallFits ==
  ASSUME NEW obj \in Object, FirstCall(obj) # "return"
  PROVE  FirstCall(obj) \in Calls /\ Fits(FirstCall(obj), obj)
<1>1. obj.del \in BOOLEAN /\ obj.fin \in BOOLEAN
  BY DEF Object
<1>2. FirstCall(obj) \in Calls
  BY DecisionType DEF Calls, Steps
<1>3. CASE obj.del
  BY <1>1, <1>2, <1>3 DEF FirstCall, Fits, Attempt
<1>4. CASE ~obj.del /\ ~obj.fin
  BY <1>1, <1>2, <1>4 DEF FirstCall, Fits, Attempt
<1>5. CASE ~obj.del /\ obj.fin
  <2>1. FirstCall(obj) = AfterFinalizer(obj)
    BY <1>5 DEF FirstCall
  <2>2. FirstCall(obj) \in {"reap", "generating"}
        /\ (FirstCall(obj) = "generating" => ~UpToDate(obj))
    BY <2>1 DEF AfterFinalizer
  <2>3. QED
    BY <1>2, <1>5, <2>2 DEF Fits, Attempt
<1>6. QED
  BY <1>1, <1>3, <1>4, <1>5

(* The informer, the timers and the process keep the copies right.         *)
LEMMA ProcessCopies ==
  ASSUME TypeOK, Copies, NEW o \in Operators,
         \/ \E c \in Charts : Dequeue(o, c) \/ Deliver(o, c) \/ BackoffOver(o, c)
         \/ Resync(o) \/ Crash(o) \/ Restart(o)
  PROVE  Copies'
<1> USE DEF informer, worker
<1>1. /\ pc \in [Operators -> Steps] /\ key \in [Operators -> Charts \cup {NoChart}]
      /\ snap \in [Operators -> Entry] /\ current \in [Operators -> BOOLEAN]
      /\ cr \in [Charts -> Entry] /\ cache \in [Operators -> [Charts -> Entry]]
      /\ watch \in [Operators -> [Charts -> Seq(Entry)]]
  BY DEF TypeOK, Entry
<1>2. ASSUME NEW c \in Charts, Dequeue(o, c) PROVE Copies'
  <2> DEFINE obj == cache[o][c]
  <2>1. UNCHANGED <<cr, watch, cache>> /\ pc[o] = "idle"
    BY <1>2 DEF Dequeue
  <2>2. CASE UNCHANGED worker
    BY <2>1, <2>2 DEF Copies, CopyIsCurrent, CacheCatchesUp, CopyFitsCall
  <2>3. CASE ~UNCHANGED worker
    <3>1. /\ obj \in Object /\ FirstCall(obj) # "return"
          /\ pc' = [pc EXCEPT ![o] = FirstCall(obj)]
          /\ key' = [key EXCEPT ![o] = c]
          /\ snap' = [snap EXCEPT ![o] = obj]
          /\ current' = [current EXCEPT ![o] = watch[o][c] = <<>>]
      BY <1>1, <1>2, <2>3 DEF Dequeue, Entry
    <3>2. pc'[o] \in Calls /\ Fits(pc'[o], snap'[o])
      BY <1>1, <3>1, FirstCallFits
    <3>3. current'[o] => cr[c] = obj
      BY <1>1, <2>1, <3>1 DEF Copies, CacheCatchesUp
    <3>4. CopyIsCurrent'
      BY <1>1, <2>1, <3>1, <3>2, <3>3 DEF Copies, CopyIsCurrent
    <3>5. CacheCatchesUp'
      BY <1>1, <2>1, <3>1, <3>2 DEF Copies, CacheCatchesUp, Calls
    <3>6. CopyFitsCall'
      BY <1>1, <3>1, <3>2 DEF Copies, CopyFitsCall
    <3>7. QED
      BY <2>1, <3>4, <3>5, <3>6 DEF Copies
  <2>4. QED
    BY <2>2, <2>3
<1>3. ASSUME NEW c \in Charts, Deliver(o, c) PROVE Copies'
  <2> DEFINE w == watch[o][c]
  <2>1. /\ UNCHANGED <<cr, pc, key, snap, current>> /\ pc[o] # "down"
        /\ w \in Seq(Entry) /\ w # <<>>
        /\ cache' = [cache EXCEPT ![o][c] = Head(w)]
        /\ watch' = [watch EXCEPT ![o][c] = Tail(w)]
    BY <1>1, <1>3 DEF Deliver
  <2>2. \A p \in Operators, x \in Charts : p # o \/ x # c =>
           cache'[p][x] = cache[p][x] /\ watch'[p][x] = watch[p][x]
    BY <1>1, <2>1
  <2>3. cache'[o][c] = Head(w) /\ watch'[o][c] = Tail(w)
    BY <1>1, <2>1
  <2>4. w[Len(w)] = cr[c]
    BY <2>1 DEF Copies, CacheCatchesUp
  <2>5. /\ Tail(w) = <<>> => Head(w) = w[Len(w)]
        /\ Tail(w) # <<>> => Tail(w)[Len(Tail(w))] = w[Len(w)]
    BY <2>1, TailEnds
  <2>6. CacheCatchesUp'
    BY <2>1, <2>2, <2>3, <2>4, <2>5 DEF Copies, CacheCatchesUp
  <2>7. QED
    BY <2>1, <2>6 DEF Copies, CopyIsCurrent, CopyFitsCall
<1>4. CASE Resync(o) \/ \E c \in Charts : BackoffOver(o, c)
  BY <1>4 DEF Resync, BackoffOver, Copies, CopyIsCurrent, CacheCatchesUp, CopyFitsCall
<1>5. CASE Crash(o)
  <2>1. /\ cr' = cr /\ pc'[o] = "down" /\ ~current'[o] /\ pc[o] # "down"
        /\ watch'[o] = [c \in Charts |-> <<>>]
        /\ \A p \in Operators \ {o} :
             /\ pc'[p] = pc[p] /\ key'[p] = key[p] /\ snap'[p] = snap[p]
             /\ current'[p] = current[p] /\ watch'[p] = watch[p] /\ cache'[p] = cache[p]
    BY <1>1, <1>5 DEF Crash
  <2>2. CopyIsCurrent'
    BY <2>1 DEF Copies, CopyIsCurrent
  <2>3. CacheCatchesUp'
    BY <2>1 DEF Copies, CacheCatchesUp
  <2>4. CopyFitsCall'
    BY <2>1 DEF Copies, CopyFitsCall, Fits, Attempt
  <2>5. QED
    BY <2>1, <2>2, <2>3, <2>4 DEF Copies
<1>6. CASE Restart(o)
  <2>1. /\ cr' = cr /\ pc[o] = "down" /\ pc'[o] = "idle" /\ cache'[o] = cr
        /\ UNCHANGED <<watch, key, snap, current>>
        /\ \A p \in Operators \ {o} : pc'[p] = pc[p] /\ cache'[p] = cache[p]
    BY <1>1, <1>6 DEF Restart
  <2>2. CopyIsCurrent'
    BY <2>1 DEF Copies, CopyIsCurrent, Calls
  <2>3. CacheCatchesUp'
    BY <2>1 DEF Copies, CacheCatchesUp
  <2>4. CopyFitsCall'
    BY <2>1 DEF Copies, CopyFitsCall, Fits, Attempt
  <2>5. QED
    BY <2>1, <2>2, <2>3, <2>4 DEF Copies
<1>7. QED
  BY <1>2, <1>3, <1>4, <1>5, <1>6

(* A write to c's object that is not the operators'.                       *)
Edited(c) ==
  /\ Put(c, cr'[c]) /\ current' = StillCurrent(c, cr'[c])
  /\ UNCHANGED <<bucket, cache, queue, delayed, pc, key, snap>>

(* What goes on outside the operators: the clock, or a write that applies  *)
(* or deletes a chart and leaves a coherent object, or none.               *)
Outside ==
  \/ UNCHANGED <<cr, bucket, watch, cache, queue, delayed, worker>>
  \/ \E c \in Charts :
       /\ \/ cr[c] # NoCR /\ cr'[c] = Deleted(cr[c])
          \/ \E spec \in Specs, exp \in Nat : cr'[c] = Applied(cr[c], spec, exp)
       /\ cr'[c] \in Entry /\ (cr'[c] # NoCR => Coherent(cr'[c]))
       /\ Edited(c)

Moves == Outside \/ \E o \in Operators : OperatorStep(o)

(* Deleting a chart is such a write.                                       *)
LEMMA DeleteOutside ==
  ASSUME TypeOK, Copies, NEW c \in Charts, cr[c] # NoCR, cr'[c] = Deleted(cr[c]), Edited(c)
  PROVE  Outside
<1>1. cr[c] \in Object /\ Coherent(cr[c])
  BY DEF TypeOK, Copies
<1>2. cr'[c] \in Entry /\ (cr'[c] # NoCR => Coherent(cr'[c]))
  BY <1>1, DeletedType, CoherentChanges
<1>3. QED
  BY <1>2 DEF Outside

(* What an apply creates is coherent.                                      *)
LEMMA NewCoherent == ASSUME NEW spec, NEW exp PROVE Coherent(Applied(NoCR, spec, exp))
  BY DEF Applied, Coherent

(* Applying a chart is one, too.                                           *)
LEMMA ApplyOutside ==
  ASSUME TypeOK, Copies, NEW c \in Charts, NEW spec \in Specs, NEW exp \in Nat,
         cr'[c] = Applied(cr[c], spec, exp), Edited(c)
  PROVE  Outside
<1>1. cr[c] \in Entry /\ (cr[c] # NoCR => cr[c] \in Object /\ Coherent(cr[c]))
  BY DEF TypeOK, Entry, Copies
<1>2. cr'[c] \in Object /\ cr'[c] \in Entry
  BY <1>1, AppliedType DEF Entry
<1>3. Coherent(Applied(cr[c], spec, exp))
  BY <1>1, CoherentChanges, NewCoherent
<1>4. QED
  BY <1>2, <1>3 DEF Outside

(* Users and the clock do nothing else.                                    *)
LEMMA EnvironmentOutside ==
  ASSUME TypeOK, Copies, Environment
  PROVE  Outside
<1>1. cr \in [Charts -> Entry]
  BY DEF TypeOK, Entry
<1>2. ASSUME NEW c \in Charts, NEW obj, UserWrite(c, obj)
      PROVE  cr'[c] = obj /\ Edited(c)
  BY <1>1, <1>2 DEF UserWrite, Put, Edited
<1>3. ASSUME NEW c \in Charts, UserDelete(c) PROVE Outside
  BY <1>2, <1>3, DeleteOutside DEF UserDelete
<1>4. ASSUME NEW c \in Charts, NEW spec \in Specs, Apply(c, spec) PROVE Outside
  <2>1. PICK exp \in ExpiryStamps(c) : UserWrite(c, Applied(cr[c], spec, exp))
    BY <1>4 DEF Apply
  <2>2. exp \in Nat
    BY <2>1, ExpiryStampsType DEF TypeOK
  <2>3. QED
    BY <1>2, <2>1, <2>2, ApplyOutside
<1>5. CASE Tick
  BY <1>5 DEF Tick, informer, Outside
<1>6. QED
  BY <1>3, <1>4, <1>5 DEF Environment

(* A step of the system is one of the operators' or from outside.          *)
LEMMA NextMoves == ASSUME TypeOK, Copies, [Next]_vars PROVE Moves
<1>1. CASE UNCHANGED vars
  BY <1>1 DEF vars, informer, Moves, Outside
<1>2. QED
  BY <1>1, EnvironmentOutside DEF Next, Moves

(* Users keep the copies right.                                            *)
LEMMA OutsideCopies ==
  ASSUME TypeOK, Copies, Outside
  PROVE  Copies'
<1>1. CASE UNCHANGED <<cr, bucket, watch, cache, worker>>
  BY <1>1 DEF worker, Copies, CopyIsCurrent, CacheCatchesUp, CopyFitsCall
<1>2. ASSUME NEW c \in Charts, Edited(c), cr'[c] \in Entry,
             cr'[c] # NoCR => Coherent(cr'[c])
      PROVE  Copies'
  <2>1. /\ UNCHANGED <<cache, pc, key, snap>> /\ current' = StillCurrent(c, cr'[c])
        /\ Put(c, cr'[c])
    BY <1>2 DEF Edited
  <2>2. CopyIsCurrent'
    <3> SUFFICES ASSUME NEW p \in Operators, current'[p]
                 PROVE  pc'[p] \in Calls /\ cr'[key'[p]] = snap'[p]
      BY DEF CopyIsCurrent
    <3>1. current[p] /\ (key[p] = c => cr'[c] = cr[c])
      BY <2>1 DEF StillCurrent
    <3>2. pc[p] \in Calls /\ cr[key[p]] = snap[p] /\ key[p] \in Charts
      BY <3>1 DEF Copies, CopyIsCurrent, TypeOK, Calls
    <3>3. cr'[key[p]] = cr[key[p]]
      BY <2>1, <3>1, <3>2 DEF Put, TypeOK
    <3>4. QED
      BY <2>1, <3>2, <3>3
  <2>3. CacheCatchesUp'
    <3> DEFINE obj == cr'[c]
    <3>1. obj \in Entry /\ Put(c, obj)
      BY <1>2, <2>1
    <3> HIDE DEF obj
    <3>2. QED
      BY <2>1, <3>1, PutCatchesUp DEF Copies
  <2>4. CopyFitsCall' /\ \A x \in Charts : cr'[x] # NoCR => Coherent(cr'[x])
    BY <1>2, <2>1 DEF Copies, CopyFitsCall, Put, TypeOK
  <2>5. QED
    BY <2>2, <2>3, <2>4 DEF Copies
<1>3. QED
  BY <1>1, <1>2 DEF Outside

(* Every step does.                                                        *)
LEMMA CopiesStep == ASSUME TypeOK, Copies, Moves PROVE Copies'
<1>1. CASE Outside
  BY <1>1, OutsideCopies
<1>2. ASSUME NEW o \in Operators, OperatorStep(o) PROVE Copies'
  <2>1. CASE WorkerStep(o)
    BY <2>1, WorkerCopies
  <2>2. CASE ~WorkerStep(o)
    BY <1>2, <2>2, ProcessCopies DEF OperatorStep
  <2>3. QED
    BY <2>1, <2>2
<1>3. QED
  BY <1>1, <1>2 DEF Moves

(* With any number of operators, crashing and lagging as they like, a copy *)
(* that the server would accept is the server's object, events lead from   *)
(* every cache to it, and objects stay coherent.                           *)
THEOREM CopiesAlways == Spec => []Copies
<1>1. Init => Copies
  BY DEF Init, Copies, CopyIsCurrent, CacheCatchesUp, CopyFitsCall, Fits, Attempt
<1>2. TypeOK /\ Copies /\ [Next]_vars => Copies'
  BY NextMoves, CopiesStep
<1>3. QED
  BY <1>1, <1>2, TypeCorrect, PTL DEF Spec

-----------------------------------------------------------------------------
(* What the worker's calls amount to, the bookkeeping left out.            *)

(* c's object becomes obj, and nothing else is stored anywhere.            *)
Stores(c, obj) == cr' = [cr EXCEPT ![c] = obj] /\ bucket' = bucket

Idles(o) == pc'[o] = "idle"

GoesOn(o, steps, obj) == pc'[o] \in steps /\ key'[o] = key[o] /\ snap'[o] = obj

(* The nine ways a call of o ends, by what it leaves behind; a write that  *)
(* was accepted started from the server's object.                          *)
Effect(o) ==
  LET c == key[o]
      x == snap[o]
      generating == WithStatus(x, "Generating", 0)
      stored == [bucket EXCEPT ![c] = [spec |-> x.spec, gen |-> x.gen]]
      cleared == [bucket EXCEPT ![c] = NoArtifact]
  IN
  \/ cr' = cr /\ bucket' = bucket /\ Idles(o)
  \/ /\ pc[o] = "remove" /\ cr' = cr
     /\ \/ bucket' \in {bucket, cleared} /\ Idles(o)
        \/ bucket' = cleared /\ GoesOn(o, {"dropfin"}, x)
  \/ pc[o] = "dropfin" /\ cr[c] = x /\ Stores(c, NoCR) /\ Idles(o)
  \/ /\ pc[o] = "addfin" /\ cr[c] = x /\ Stores(c, [x EXCEPT !.fin = TRUE])
     /\ Idles(o) \/ GoesOn(o, {"reap", "generating"}, [x EXCEPT !.fin = TRUE])
  \/ pc[o] = "reap" /\ cr[c] # NoCR /\ Stores(c, Deleted(cr[c])) /\ Idles(o)
  \/ /\ pc[o] = "generating" /\ cr[c] = x /\ Stores(c, generating)
     /\ Idles(o) \/ GoesOn(o, Attempt \ {"ready"}, generating)
  \/ /\ pc[o] = "upload" /\ cr' = cr
     /\ \/ bucket' = stored /\ GoesOn(o, {"ready"}, x)
        \/ bucket' \in {bucket, stored} /\ GoesOn(o, {"failWork"}, x)
  \/ pc[o] = "ready" /\ cr[c] = x /\ Stores(c, WithStatus(x, "Ready", x.gen)) /\ Idles(o)
  \/ /\ pc[o] \in {"failSpec", "failWork"} /\ cr[c] = x
     /\ Stores(c, WithStatus(x, "Failed", 0)) /\ Idles(o)

(* Every call ends in one of these ways, and leaves the others' alone.     *)
LEMMA WorkerEffect ==
  ASSUME TypeOK, Copies, NEW o \in Operators, WorkerStep(o)
  PROVE  /\ pc[o] \in Calls /\ Effect(o)
         /\ \A p \in Operators \ {o} : pc'[p] = pc[p] /\ key'[p] = key[p] /\ snap'[p] = snap[p]
<1> DEFINE c == key[o]
           Others == \A p \in Operators \ {o} :
                       pc'[p] = pc[p] /\ key'[p] = key[p] /\ snap'[p] = snap[p]
<1>1. pc[o] \in Calls
  BY DEF TypeOK, Calls, Steps, WorkerStep, RemoveArtifact, DropFinalizer,
         AddFinalizer, Reap, SetGenerating, Upload, SetReady, SetFailedSpec, SetFailedWork
<1>2. /\ c \in Charts /\ snap[o] \in Object /\ Fits(pc[o], snap[o])
      /\ pc \in [Operators -> Steps] /\ key \in [Operators -> Charts \cup {NoChart}]
      /\ snap \in [Operators -> Entry]
  BY <1>1 DEF TypeOK, Calls, Entry, Copies, CopyFitsCall
<1>3. ASSUME NEW obj, NEW onSuccess \in Calls \cup {"return", "error"},
             NEW onError \in {"return", "error"}, Write(o, obj, onSuccess, onError)
      PROVE  /\ Others
             /\ \/ cr' = cr /\ Idles(o)
                \/ /\ cr[c] = snap[o] /\ cr' = [cr EXCEPT ![c] = obj]
                   /\ Idles(o) \/ (onSuccess \in Calls /\ GoesOn(o, {onSuccess}, obj))
  BY <1>1, <1>3, WriteEffect DEF Copies, Put, Idles, GoesOn
<1>3a. ASSUME NEW obj, NEW next \in {"return", "error"}, NEW err \in {"return", "error"},
              Write(o, obj, next, err)
       PROVE  Others /\ Idles(o) /\ (cr' = cr \/ (cr[c] = snap[o] /\ cr' = [cr EXCEPT ![c] = obj]))
  <2>1. next \notin Calls
    BY DEF Calls, Steps
  <2>2. /\ Others
        /\ \/ cr' = cr /\ Idles(o)
           \/ /\ cr[c] = snap[o] /\ cr' = [cr EXCEPT ![c] = obj]
              /\ Idles(o) \/ (next \in Calls /\ GoesOn(o, {next}, obj))
    BY <1>3, <1>3a
  <2>3. QED
    BY <2>1, <2>2
<1>4. ASSUME NEW step \in {"dropfin", "ready", "failWork"}, NEW copies,
             Proceed(o, step, snap[o], copies)
      PROVE  Others /\ GoesOn(o, {step}, snap[o])
  BY <1>2, <1>4 DEF Proceed, GoesOn
<1>5. ASSUME NEW err, NEW copies, Return(o, err, copies)
      PROVE  Others /\ Idles(o)
  BY <1>2, <1>5 DEF Return, Idles
<1>6. CASE RemoveArtifact(o)
  <2>1. /\ pc[o] = "remove" /\ cr' = cr
        /\ \/ /\ bucket' = [bucket EXCEPT ![c] = NoArtifact]
              /\ Proceed(o, "dropfin", snap[o], current)
           \/ /\ bucket' \in {bucket, [bucket EXCEPT ![c] = NoArtifact]}
              /\ Return(o, TRUE, current)
    BY <1>6 DEF RemoveArtifact, Proceed
  <2>2. /\ Others
        /\ \/ bucket' \in {bucket, [bucket EXCEPT ![c] = NoArtifact]} /\ Idles(o)
           \/ bucket' = [bucket EXCEPT ![c] = NoArtifact] /\ GoesOn(o, {"dropfin"}, snap[o])
    BY <1>4, <1>5, <2>1
  <2>3. Effect(o)
    BY <2>1, <2>2 DEF Effect
  <2>4. QED
    BY <1>1, <2>2, <2>3
<1>7. CASE DropFinalizer(o)
  <2>1. WithFinalizer(snap[o], FALSE) = NoCR
    BY <1>2, <1>7 DEF DropFinalizer, Fits, WithFinalizer
  <2>2. pc[o] = "dropfin" /\ bucket' = bucket /\ Write(o, NoCR, "return", "error")
    BY <1>7, <2>1 DEF DropFinalizer
  <2>3. Others /\ Idles(o) /\ (cr' = cr \/ (cr[c] = snap[o] /\ cr' = [cr EXCEPT ![c] = NoCR]))
    BY <1>3a, <2>2
  <2>4. Effect(o)
    BY <2>2, <2>3 DEF Effect, Stores
  <2>5. QED
    BY <1>1, <2>3, <2>4
<1>8. CASE AddFinalizer(o)
  <2> DEFINE new == [snap[o] EXCEPT !.fin = TRUE]
             next == AfterFinalizer(new)
  <2>1. WithFinalizer(snap[o], TRUE) = new
    BY <1>2, <1>8 DEF AddFinalizer, Fits, WithFinalizer
  <2>2. pc[o] = "addfin" /\ bucket' = bucket /\ Write(o, new, next, "error")
    BY <1>8, <2>1 DEF AddFinalizer
  <2>3. next \in {"reap", "return", "generating"}
    BY DecisionType
  <2> HIDE DEF new, next
  <2>4. /\ Others
        /\ \/ cr' = cr /\ Idles(o)
           \/ /\ cr[c] = snap[o] /\ cr' = [cr EXCEPT ![c] = new]
              /\ Idles(o) \/ (next \in Calls /\ GoesOn(o, {next}, new))
    BY <1>3, <2>2, <2>3 DEF Calls, Steps
  <2>5. next \in Calls => next \in {"reap", "generating"}
    BY <2>3 DEF Calls, Steps
  <2>6. QED
    BY <1>1, <2>2, <2>4, <2>5 DEF Effect, Stores, GoesOn, new
<1>9. CASE Reap(o)
  <2>1. /\ pc[o] = "reap" /\ bucket' = bucket
        /\ \/ cr[c] # NoCR /\ cr' = [cr EXCEPT ![c] = Deleted(cr[c])]
           \/ cr' = cr
        /\ \E err \in BOOLEAN : Return(o, err, StillCurrent(c, Deleted(cr[c]))) \/ Return(o, err, current)
    BY <1>9 DEF Reap, Put
  <2>2. QED
    BY <1>1, <1>5, <2>1 DEF Effect, Stores
<1>10. CASE SetGenerating(o)
  <2> DEFINE new == WithStatus(snap[o], "Generating", 0)
             next == AfterGenerating(new)
  <2>1. pc[o] = "generating" /\ bucket' = bucket /\ Write(o, new, next, "error")
    BY <1>10 DEF SetGenerating
  <2>2. next \in Attempt \ {"ready"}
    BY DecisionType DEF Attempt
  <2> HIDE DEF new, next
  <2>3. /\ Others
        /\ \/ cr' = cr /\ Idles(o)
           \/ /\ cr[c] = snap[o] /\ cr' = [cr EXCEPT ![c] = new]
              /\ Idles(o) \/ (next \in Calls /\ GoesOn(o, {next}, new))
    BY <1>3, <2>1, <2>2 DEF Attempt, Calls, Steps
  <2>4. QED
    BY <1>1, <2>1, <2>2, <2>3 DEF Effect, Stores, GoesOn, new
<1>11. CASE Upload(o)
  <2> DEFINE stored == [bucket EXCEPT ![c] = [spec |-> snap[o].spec, gen |-> snap[o].gen]]
  <2>1. /\ pc[o] = "upload" /\ cr' = cr
        /\ \/ bucket' = stored /\ Proceed(o, "ready", snap[o], current)
           \/ bucket' \in {bucket, stored} /\ Proceed(o, "failWork", snap[o], current)
    BY <1>11 DEF Upload
  <2>2. /\ Others
        /\ \/ bucket' = stored /\ GoesOn(o, {"ready"}, snap[o])
           \/ bucket' \in {bucket, stored} /\ GoesOn(o, {"failWork"}, snap[o])
    BY <1>4, <2>1
  <2>3. Effect(o)
    BY <2>1, <2>2 DEF Effect
  <2>4. QED
    BY <1>1, <2>2, <2>3
<1>12. CASE SetReady(o)
  <2> DEFINE new == WithStatus(snap[o], "Ready", snap[o].gen)
  <2>1. pc[o] = "ready" /\ bucket' = bucket /\ Write(o, new, "return", "error")
    BY <1>12 DEF SetReady
  <2> HIDE DEF new
  <2>2. /\ Others
        /\ (cr' = cr \/ (cr[c] = snap[o] /\ cr' = [cr EXCEPT ![c] = new])) /\ Idles(o)
    BY <1>3a, <2>1
  <2>3. Effect(o)
    BY <2>1, <2>2 DEF Effect, Stores, new
  <2>4. QED
    BY <1>1, <2>2, <2>3
<1>13. CASE SetFailedSpec(o) \/ SetFailedWork(o)
  <2> DEFINE new == WithStatus(snap[o], "Failed", 0)
  <2>1. /\ pc[o] \in {"failSpec", "failWork"} /\ bucket' = bucket
        /\ \E next \in {"return", "error"} : Write(o, new, next, next)
    BY <1>13 DEF SetFailedSpec, SetFailedWork
  <2> HIDE DEF new
  <2>2. /\ Others
        /\ (cr' = cr \/ (cr[c] = snap[o] /\ cr' = [cr EXCEPT ![c] = new])) /\ Idles(o)
    BY <1>3a, <2>1
  <2>3. Effect(o)
    BY <2>1, <2>2 DEF Effect, Stores, new
  <2>4. QED
    BY <1>1, <2>2, <2>3
<1>14. QED
  BY <1>6, <1>7, <1>8, <1>9, <1>10, <1>11, <1>12, <1>13 DEF WorkerStep

-----------------------------------------------------------------------------
(* What the server's changes do to the fields.                             *)

(* A status write sets phase and observedGeneration only.                  *)
LEMMA StatusFields ==
  ASSUME NEW obj \in Object, NEW phase, NEW observed
  PROVE  LET new == WithStatus(obj, phase, observed) IN
         /\ new.phase = phase /\ new.observed = observed
         /\ new.spec = obj.spec /\ new.gen = obj.gen
         /\ new.fin = obj.fin /\ new.del = obj.del
  BY DEF WithStatus, Object

(* Setting the finalizer changes nothing else.                             *)
LEMMA FinalizerFields ==
  ASSUME NEW obj \in Object
  PROVE  LET new == [obj EXCEPT !.fin = TRUE] IN
         /\ new \in Object /\ new.fin /\ new.del = obj.del
         /\ new.phase = obj.phase /\ new.observed = obj.observed
         /\ new.spec = obj.spec /\ new.gen = obj.gen
  BY DEF Object

(* A deletion leaves the object, removes one without finalizer, or moves   *)
(* the generation of one with the finalizer.                               *)
LEMMA DeletedFields ==
  ASSUME NEW obj \in Object
  PROVE  LET new == Deleted(obj) IN
         \/ new = NoCR /\ ~obj.fin
         \/ new = obj
         \/ /\ new \in Object /\ obj.fin /\ ~obj.del /\ new.fin /\ new.del
            /\ new.gen = obj.gen + 1 /\ new.spec = obj.spec
            /\ new.phase = obj.phase /\ new.observed = obj.observed
<1>1. obj.gen + 1 \in Nat
  BY DEF Object
<1>2. CASE obj.fin /\ ~obj.del
  <2> DEFINE new == [obj EXCEPT !.del = TRUE, !.gen = obj.gen + 1]
  <2>1. /\ new \in Object /\ new.fin = obj.fin /\ new.del = TRUE
        /\ new.gen = obj.gen + 1 /\ new.spec = obj.spec
        /\ new.phase = obj.phase /\ new.observed = obj.observed
    BY <1>1 DEF Object
  <2>2. Deleted(obj) = new
    BY <1>2 DEF Deleted
  <2> HIDE DEF new
  <2>3. QED
    BY <1>2, <2>1, <2>2
<1>3. CASE ~obj.fin \/ obj.del
  BY <1>3 DEF Deleted
<1>4. QED
  BY <1>2, <1>3

(* An apply keeps the finalizer and the status, and the generation unless  *)
(* the spec changes.                                                       *)
LEMMA AppliedFields ==
  ASSUME NEW obj \in Object, NEW spec, NEW exp
  PROVE  LET new == Applied(obj, spec, exp) IN
         /\ new.spec = spec /\ new.fin = obj.fin /\ new.del = obj.del
         /\ new.phase = obj.phase /\ new.observed = obj.observed
         /\ \/ spec = obj.spec /\ new.gen = obj.gen
            \/ spec # obj.spec /\ new.gen = obj.gen + 1
<1> DEFINE gen == IF spec = obj.spec THEN obj.gen ELSE obj.gen + 1
           new == [obj EXCEPT !.spec = spec, !.exp = exp, !.gen = gen]
<1>1. /\ new.spec = spec /\ new.fin = obj.fin /\ new.del = obj.del /\ new.gen = gen
      /\ new.phase = obj.phase /\ new.observed = obj.observed
  BY DEF Object
<1>2. Applied(obj, spec, exp) = new
  BY DEF Applied
<1> HIDE DEF new
<1>3. QED
  BY <1>1, <1>2

-----------------------------------------------------------------------------
(* Ready stays Ready, for any number of operators.                         *)

(* One step of a user or an operator on an up-to-date object.              *)
LEMMA ReadyStep ==
  ASSUME TypeOK, Copies, Moves,
         NEW c \in Charts, cr[c] # NoCR, UpToDate(cr[c])
  PROVE  /\ cr'[c] # NoCR
         /\ UpToDate(cr'[c]) \/ cr'[c].gen > cr[c].gen
<1>1. /\ cr \in [Charts -> Entry] /\ cr[c] \in Object /\ Coherent(cr[c])
      /\ cr[c].gen \in Nat /\ cr[c].phase = "Ready" /\ cr[c].observed = cr[c].gen
      /\ cr[c].fin /\ ~cr[c].del
  BY DEF TypeOK, Entry, Copies, Coherent, UpToDate, Object
<1>2. CASE cr'[c] = cr[c]
  BY <1>2
<1>3. CASE cr'[c] = Deleted(cr[c])
  BY <1>1, <1>3, DeletedFields DEF UpToDate
<1>4. CASE Outside
  <2>1. PICK d \in Charts :
          /\ \/ cr[d] # NoCR /\ cr'[d] = Deleted(cr[d])
             \/ \E spec \in Specs, exp \in Nat : cr'[d] = Applied(cr[d], spec, exp)
          /\ cr'[d] \in Entry /\ Edited(d)
     \/ UNCHANGED cr
    BY <1>4 DEF Outside
  <2>2. CASE UNCHANGED cr
    BY <1>2, <2>2
  <2>3. CASE d # c
    BY <1>1, <1>2, <2>1, <2>3 DEF Edited, Put
  <2>4. CASE d = c /\ cr'[c] = Deleted(cr[c])
    BY <1>3, <2>4
  <2>5. CASE d = c /\ \E spec \in Specs, exp \in Nat : cr'[c] = Applied(cr[c], spec, exp)
    <3>1. PICK spec \in Specs, exp \in Nat : cr'[c] = Applied(cr[c], spec, exp)
      BY <2>5
    <3>2. cr'[c] # NoCR
      BY <1>1, <3>1, AppliedType DEF Entry
    <3>3. QED
      BY <1>1, <3>1, <3>2, AppliedFields DEF UpToDate
  <2>6. QED
    BY <2>1, <2>2, <2>3, <2>4, <2>5
<1>5. ASSUME NEW o \in Operators, WorkerStep(o)
      PROVE  /\ cr'[c] # NoCR
             /\ UpToDate(cr'[c]) \/ cr'[c].gen > cr[c].gen
  <2> DEFINE x == snap[o]
  <2>1. pc[o] \in Calls /\ Effect(o)
    BY <1>5, WorkerEffect
  <2>2. key[o] \in Charts /\ x \in Object /\ Fits(pc[o], x)
    BY <2>1 DEF TypeOK, Calls, Copies, CopyFitsCall
  <2>3. CASE key[o] # c
    BY <1>1, <1>2, <2>1, <2>2, <2>3 DEF Effect, Stores
  <2>4. CASE key[o] = c /\ cr[c] # x
    BY <1>1, <1>2, <1>3, <2>1, <2>2, <2>4 DEF Effect, Stores
  <2>5. CASE key[o] = c /\ cr[c] = x
    <3>1. pc[o] \notin {"dropfin", "addfin", "generating", "ready", "failSpec", "failWork"}
      BY <1>1, <2>2, <2>5 DEF Fits, Attempt, UpToDate
    <3>2. QED
      BY <1>1, <1>2, <1>3, <2>1, <2>2, <2>5, <3>1 DEF Effect, Stores
  <2>6. QED
    BY <2>3, <2>4, <2>5
<1>6. ASSUME NEW o \in Operators, OperatorStep(o), ~WorkerStep(o)
      PROVE  UNCHANGED cr
  BY <1>6 DEF OperatorStep, Resync, Crash, Restart, Dequeue, Deliver, BackoffOver
<1>7. QED
  BY <1>2, <1>4, <1>5, <1>6 DEF Moves

(* However many operators work from however stale copies, an up-to-date    *)
(* chart stays up to date until a user or a deletion moves its generation. *)
THEOREM ReadyStaysAlways == Spec => ReadyStays
<1>1. TypeOK /\ Copies /\ [Next]_vars =>
        [\A c \in Charts : cr[c] # NoCR /\ UpToDate(cr[c]) =>
           /\ cr'[c] # NoCR
           /\ UpToDate(cr'[c]) \/ cr'[c].gen > cr[c].gen]_vars
  BY NextMoves, ReadyStep
<1>2. QED
  BY <1>1, TypeCorrect, CopiesAlways, PTL DEF Spec, ReadyStays

-----------------------------------------------------------------------------
(* No wakeup is lost, for any number of operators.                         *)

(* How an Update or UpdateStatus leaves the key: backing off, given up     *)
(* after a failure that is not retried, or with the object written.        *)
LEMMA WriteSettles ==
  ASSUME TypeOK, CopyIsCurrent, NEW o \in Operators, pc[o] \in Calls,
         NEW obj, NEW onSuccess \in Calls \cup {"return", "error"},
         NEW onError \in {"return", "error"},
         Write(o, obj, onSuccess, onError)
  PROVE  /\ \A p \in Operators \ {o} : delayed'[p] = delayed[p]
         /\ delayed[o] \subseteq delayed'[o]
         /\ \/ pc'[o] = "idle" /\ key[o] \in delayed'[o]
            \/ pc'[o] = "idle" /\ onError = "return"
            \/ /\ cr[key[o]] = snap[o] /\ cr'[key[o]] = obj
               /\ \/ pc'[o] = "idle" /\ onSuccess \notin Calls
                  \/ /\ onSuccess \in Calls /\ pc'[o] = onSuccess
                     /\ key'[o] = key[o] /\ snap'[o] = obj
<1>1. /\ pc \in [Operators -> Steps] /\ key \in [Operators -> Charts \cup {NoChart}]
      /\ snap \in [Operators -> Entry] /\ delayed \in [Operators -> SUBSET Charts]
      /\ cr \in [Charts -> Entry] /\ key[o] \in Charts
  BY DEF TypeOK, Calls, Entry
<1>2. ASSUME NEW step \in {"return", "error"}, NEW x, NEW copies, Proceed(o, step, x, copies)
      PROVE  /\ pc'[o] = "idle"
             /\ \A p \in Operators \ {o} : delayed'[p] = delayed[p]
             /\ delayed[o] \subseteq delayed'[o]
             /\ step = "error" => key[o] \in delayed'[o]
  BY <1>1, <1>2 DEF Proceed, Return
<1>3. ASSUME NEW x, NEW copies, Proceed(o, onSuccess, x, copies), onSuccess \in Calls
      PROVE  /\ pc'[o] = onSuccess /\ key'[o] = key[o] /\ snap'[o] = x
             /\ delayed' = delayed
  BY <1>1, <1>3 DEF Proceed, Calls, Steps
<1>4. CASE /\ current[o] /\ Put(key[o], obj)
           /\ \E copies : Proceed(o, onSuccess, obj, copies)
  <2>1. cr[key[o]] = snap[o] /\ cr'[key[o]] = obj
    BY <1>1, <1>4 DEF CopyIsCurrent, Put
  <2>2. CASE onSuccess \in Calls
    BY <1>3, <1>4, <2>1, <2>2
  <2>3. CASE onSuccess \in {"return", "error"}
    <3>1. onSuccess \notin Calls
      BY <2>3 DEF Calls, Steps
    <3>2. QED
      BY <1>2, <1>4, <2>1, <2>3, <3>1
  <2>4. QED
    BY <2>2, <2>3
<1>5. CASE \E copies : Proceed(o, onError, snap[o], copies)
  BY <1>2, <1>5
<1>6. QED
  BY <1>4, <1>5 DEF Write

(* A call of the worker writes one object to the server, or nothing.       *)
LEMMA WorkerPuts ==
  ASSUME NEW o \in Operators, WorkerStep(o)
  PROVE  UNCHANGED <<cr, watch>> \/ \E obj : Put(key[o], obj)
<1>1. ASSUME NEW obj, NEW onSuccess, NEW onError, Write(o, obj, onSuccess, onError)
      PROVE  UNCHANGED <<cr, watch>> \/ Put(key[o], obj)
  BY <1>1 DEF Write
<1>2. CASE RemoveArtifact(o) \/ Upload(o)
  BY <1>2 DEF RemoveArtifact, Upload, informer
<1>3. CASE Reap(o)
  BY <1>3 DEF Reap
<1>4. QED
  BY <1>1, <1>2, <1>3 DEF WorkerStep, DropFinalizer, AddFinalizer, SetGenerating,
       SetReady, SetFailedSpec, SetFailedWork

(* How a call of the worker leaves the key.                                *)
Settled(o) ==
  LET c == key[o] IN
  \/ pc'[o] = "idle" /\ \/ c \in delayed'[o]
                        \/ cr[c] # snap[o]
                        \/ cr'[c] # cr[c]
                        \/ pc[o] = "failSpec"
  \/ pc'[o] \in Calls /\ key'[o] = c /\ snap'[o] = cr'[c]
  \/ pc'[o] \in Calls /\ key'[o] = c /\ snap'[o] = snap[o] /\ cr'[c] = cr[c]

(* A call that ends the reconciliation requeues the key, has changed the   *)
(* object, worked on an outdated copy, or has given up an invalid spec.    *)
LEMMA WorkerSettles ==
  ASSUME TypeOK, Copies, NEW o \in Operators, WorkerStep(o),
         pc[o] = "failSpec" => snap[o].spec \in Invalid
  PROVE  /\ UNCHANGED <<queue, now>> /\ Settled(o)
         /\ \A p \in Operators \ {o} : delayed'[p] = delayed[p]
         /\ delayed[o] \subseteq delayed'[o]
         /\ pc'[o] = "failSpec" => snap'[o].spec \in Invalid
<1> DEFINE c == key[o]
           x == snap[o]
           Delays == /\ \A p \in Operators \ {o} : delayed'[p] = delayed[p]
                     /\ delayed[o] \subseteq delayed'[o]
           Rejects == pc'[o] = "failSpec" => snap'[o].spec \in Invalid
<1>1. pc[o] \in Calls
  BY DEF TypeOK, Calls, Steps, WorkerStep, RemoveArtifact, DropFinalizer,
         AddFinalizer, Reap, SetGenerating, Upload, SetReady, SetFailedSpec, SetFailedWork
<1>2. /\ c \in Charts /\ x \in Object /\ Fits(pc[o], x)
      /\ pc \in [Operators -> Steps] /\ key \in [Operators -> Charts \cup {NoChart}]
      /\ snap \in [Operators -> Entry] /\ delayed \in [Operators -> SUBSET Charts]
      /\ cr \in [Charts -> Entry]
  BY <1>1 DEF TypeOK, Calls, Entry, Copies, CopyFitsCall
<1>3. UNCHANGED <<queue, now>>
  BY DEF WorkerStep, RemoveArtifact, DropFinalizer, AddFinalizer, Reap, SetGenerating,
         Upload, SetReady, SetFailedSpec, SetFailedWork
<1>4. ASSUME NEW obj, obj # x, NEW onSuccess \in (Calls \ {"failSpec"}) \cup {"return", "error"},
             Write(o, obj, onSuccess, "error")
      PROVE  Settled(o) /\ Delays /\ Rejects
  <2>1. /\ Delays
        /\ \/ pc'[o] = "idle" /\ c \in delayed'[o]
           \/ /\ cr[c] = x /\ cr'[c] = obj
              /\ \/ pc'[o] = "idle"
                 \/ /\ onSuccess \in Calls /\ pc'[o] = onSuccess
                    /\ key'[o] = c /\ snap'[o] = obj
    BY <1>1, <1>4, WriteSettles DEF Copies
  <2>2. QED
    BY <1>4, <2>1 DEF Settled
<1>5. ASSUME NEW step \in {"dropfin", "ready", "failWork", "error"},
             Proceed(o, step, x, current), cr' = cr
      PROVE  Settled(o) /\ Delays /\ Rejects
  BY <1>2, <1>5 DEF Proceed, Return, Settled, Calls, Steps
<1>6. CASE RemoveArtifact(o)
  BY <1>3, <1>5, <1>6 DEF RemoveArtifact
<1>7. CASE DropFinalizer(o)
  <2>1. WithFinalizer(x, FALSE) = NoCR
    BY <1>2, <1>7 DEF DropFinalizer, Fits, WithFinalizer
  <2>2. Write(o, NoCR, "return", "error") /\ NoCR # x
    BY <1>2, <1>7, <2>1 DEF DropFinalizer
  <2>3. QED
    BY <1>3, <1>4, <2>2
<1>8. CASE AddFinalizer(o)
  <2> DEFINE new == WithFinalizer(x, TRUE)
             next == AfterFinalizer(new)
  <2>1. new # x
    BY <1>2, <1>8 DEF AddFinalizer, Fits, WithFinalizer, Object
  <2>2. next \in (Calls \ {"failSpec"}) \cup {"return", "error"}
    BY DecisionType DEF Calls, Steps
  <2>3. Write(o, new, next, "error")
    BY <1>8 DEF AddFinalizer
  <2> HIDE DEF new, next
  <2>4. QED
    BY <1>3, <1>4, <2>1, <2>2, <2>3
<1>9. CASE Reap(o)
  <2> DEFINE gone == Deleted(cr[c])
  <2>1. \/ /\ cr[c] # NoCR /\ cr' = [cr EXCEPT ![c] = gone]
           /\ \E err \in BOOLEAN : Return(o, err, StillCurrent(c, gone))
        \/ Return(o, TRUE, current) /\ cr' = cr
    BY <1>9 DEF Reap, Put
  <2>2. ASSUME NEW err, NEW copies, Return(o, err, copies)
        PROVE  pc'[o] = "idle" /\ Delays /\ (err = TRUE => c \in delayed'[o])
    BY <1>2, <2>2 DEF Return
  <2>3. pc[o] = "reap" /\ pc'[o] = "idle" /\ Delays
        /\ (c \in delayed'[o] \/ (cr[c] # NoCR /\ cr'[c] = gone))
    BY <1>2, <1>9, <2>1, <2>2 DEF Reap
  <2>4. cr[c] = x => gone # x
    <3>1. x.fin /\ ~x.del
      BY <1>2, <2>3 DEF Fits
    <3>2. Deleted(x).del
      BY <1>2, <3>1 DEF Deleted, Object
    <3>3. QED
      BY <3>1, <3>2
  <2>5. QED
    BY <1>3, <2>3, <2>4 DEF Settled
<1>10. CASE SetGenerating(o)
  <2> DEFINE new == WithStatus(x, "Generating", 0)
             next == AfterGenerating(new)
  <2>1. Write(o, new, next, "error")
    BY <1>10 DEF SetGenerating
  <2>2. next \in Calls /\ (next = "failSpec" => new.spec \in Invalid)
    BY DecisionType DEF AfterGenerating, Calls, Steps
  <2> HIDE DEF new, next
  <2>3. /\ Delays
        /\ \/ pc'[o] = "idle" /\ c \in delayed'[o]
           \/ /\ cr[c] = x /\ cr'[c] = new
              /\ pc'[o] = next /\ key'[o] = c /\ snap'[o] = new
    BY <1>1, <2>1, <2>2, WriteSettles DEF Copies
  <2>4. QED
    BY <1>3, <2>2, <2>3 DEF Settled
<1>11. CASE Upload(o)
  BY <1>3, <1>5, <1>11 DEF Upload
<1>12. ASSUME NEW phase \in {"Ready", "Failed"}, NEW observed, pc[o] \in Attempt
       PROVE  WithStatus(x, phase, observed) # x
  <2> DEFINE new == WithStatus(x, phase, observed)
  <2>1. new.phase = phase /\ x.phase = "Generating"
    BY <1>2, <1>12, StatusFields DEF Fits
  <2>2. QED
    BY <2>1
<1>13. CASE SetReady(o)
  <2> DEFINE new == WithStatus(x, "Ready", x.gen)
  <2>1. Write(o, new, "return", "error") /\ new # x
    BY <1>12, <1>13 DEF SetReady, Attempt
  <2> HIDE DEF new
  <2>2. QED
    BY <1>3, <1>4, <2>1
<1>14. CASE SetFailedWork(o)
  <2> DEFINE new == WithStatus(x, "Failed", 0)
  <2>1. Write(o, new, "error", "error") /\ new # x
    BY <1>12, <1>14 DEF SetFailedWork, Attempt
  <2> HIDE DEF new
  <2>2. QED
    BY <1>3, <1>4, <2>1
<1>15. CASE SetFailedSpec(o)
  <2> DEFINE new == WithStatus(x, "Failed", 0)
  <2>1. pc[o] = "failSpec" /\ Write(o, new, "return", "return")
    BY <1>15 DEF SetFailedSpec
  <2>2. "return" \notin Calls
    BY DEF Calls, Steps
  <2> HIDE DEF new
  <2>3. Delays /\ pc'[o] = "idle"
    BY <1>1, <2>1, <2>2, WriteSettles DEF Copies
  <2>4. QED
    BY <1>3, <2>1, <2>3 DEF Settled
<1>16. QED
  BY <1>6, <1>7, <1>8, <1>9, <1>10, <1>11, <1>13, <1>14, <1>15 DEF WorkerStep

(* An operator that does not move stays informed: a write reaches every    *)
(* running informer, and time only adds to what waits for the resync.      *)
LEMMA OthersNotice ==
  ASSUME TypeOK, NEW o \in Operators, NoticedBy(o),
         pc'[o] = pc[o], key'[o] = key[o], snap'[o] = snap[o],
         queue'[o] = queue[o], delayed'[o] = delayed[o],
         now' \in Nat, now' >= now,
         \/ cr' = cr /\ watch'[o] = watch[o]
         \/ \E c \in Charts : \E obj : Put(c, obj)
  PROVE  NoticedBy(o)'
<1>1. ASSUME NEW c \in Charts, pc[o] # "down"
      PROVE  \/ cr'[c] = cr[c] /\ watch'[o][c] = watch[o][c]
             \/ watch'[o][c] # <<>>
  <2>1. CASE cr' = cr /\ watch'[o] = watch[o]
    BY <2>1
  <2>2. ASSUME NEW x \in Charts, NEW obj, Put(x, obj)
        PROVE  \/ cr'[c] = cr[c] /\ watch'[o][c] = watch[o][c]
               \/ watch'[o][c] # <<>>
    <3>1. /\ watch[o] \in [Charts -> Seq(Object \cup {NoCR})]
          /\ cr \in [Charts -> Entry]
      BY DEF TypeOK, Entry
    <3>2. CASE x # c \/ obj = cr[x]
      BY <2>2, <3>1, <3>2 DEF Put
    <3>3. CASE x = c /\ obj # cr[x]
      <4>1. watch'[o][c] = Append(watch[o][c], obj)
        BY <1>1, <2>2, <3>1, <3>3 DEF Put
      <4>2. watch[o][c] \in Seq(Object \cup {NoCR})
        BY <3>1
      <4>3. Append(watch[o][c], obj) # <<>>
        BY <4>2
      <4>4. QED
        BY <4>1, <4>3
    <3>4. QED
      BY <3>2, <3>3
  <2>3. QED
    BY <2>1, <2>2
<1>2. ASSUME NEW c \in Charts, cr'[c] = cr[c], NeedsWork(cr[c])' PROVE NeedsWork(cr[c])
  <2>1. now \in Nat /\ cr[c] # NoCR /\ cr[c] \in Object /\ cr[c].exp \in Nat
    BY <1>2 DEF TypeOK, Object, NeedsWork
  <2>2. isExpired(cr[c]) => isExpired(cr[c])'
    BY <1>2, <2>1 DEF isExpired
  <2>3. QED
    BY <1>2, <2>2 DEF NeedsWork, FirstCall, AfterFinalizer, UpToDate
<1>3. ASSUME NEW c \in Charts, pc'[o] # "down", ~Awake(o, c)'
      PROVE  /\ InHands(o, c)' => snap'[o] = cr'[c]
             /\ ~InHands(o, c)' => ~NeedsWork(cr[c])'
  <2>1. cr'[c] = cr[c] /\ watch'[o][c] = watch[o][c]
    BY <1>1, <1>3 DEF Awake
  <2>2. ~Awake(o, c) /\ pc[o] # "down"
    BY <1>3, <2>1 DEF Awake
  <2>3. CASE InHands(o, c)
    BY <2>1, <2>2, <2>3 DEF NoticedBy, InHands
  <2>4. CASE ~InHands(o, c)
    <3>1. ~NeedsWork(cr[c])
      BY <2>2, <2>4 DEF NoticedBy
    <3>2. ~NeedsWork(cr[c])'
      BY <1>2, <2>1, <3>1
    <3>3. QED
      BY <2>4, <3>2 DEF InHands
  <2>5. QED
    BY <2>3, <2>4
<1>4. QED
  BY <1>3 DEF NoticedBy

(* The operator whose worker moves stays informed.                         *)
LEMMA WorkerNotices ==
  ASSUME TypeOK, Copies, NEW o \in Operators, NoticedBy(o), WorkerStep(o)
  PROVE  NoticedBy(o)'
<1> DEFINE c == key[o]
<1>1. /\ pc[o] \in Calls /\ Effect(o)
      /\ UNCHANGED <<queue, now>> /\ Settled(o)
      /\ delayed[o] \subseteq delayed'[o]
      /\ pc'[o] = "failSpec" => snap'[o].spec \in Invalid
  BY WorkerEffect, WorkerSettles DEF NoticedBy
<1>2. c \in Charts /\ pc[o] # "down"
  BY <1>1 DEF TypeOK, Calls
<1>3. \A x \in Charts : /\ watch[o][x] # <<>> => watch'[o][x] # <<>>
                        /\ cr'[x] # cr[x] => watch'[o][x] # <<>>
  <2>1. /\ watch[o] \in [Charts -> Seq(Object \cup {NoCR})]
        /\ cr \in [Charts -> Entry]
    BY DEF TypeOK, Entry
  <2>2. CASE UNCHANGED <<cr, watch>>
    BY <2>2
  <2>3. ASSUME NEW obj, Put(c, obj)
        PROVE  \A x \in Charts : /\ watch[o][x] # <<>> => watch'[o][x] # <<>>
                                 /\ cr'[x] # cr[x] => watch'[o][x] # <<>>
    <3>1. CASE obj = cr[c]
      BY <1>2, <2>1, <2>3, <3>1 DEF Put
    <3>2. CASE obj # cr[c]
      <4>1. /\ watch'[o] = [watch[o] EXCEPT ![c] = Append(@, obj)]
            /\ cr' = [cr EXCEPT ![c] = obj]
        BY <1>2, <2>3, <3>2 DEF Put
      <4>2. watch[o][c] \in Seq(Object \cup {NoCR})
        BY <1>2, <2>1
      <4>3. Append(watch[o][c], obj) # <<>>
        BY <4>2
      <4>4. QED
        BY <1>2, <2>1, <4>1, <4>3
    <3>3. QED
      BY <3>1, <3>2
  <2>4. QED
    BY <2>2, <2>3, WorkerPuts
<1>4. ASSUME NEW x \in Charts, ~Awake(o, x)'
      PROVE  /\ InHands(o, x)' => snap'[o] = cr'[x]
             /\ ~InHands(o, x)' => ~NeedsWork(cr[x])'
  <2>1. ~Awake(o, x) /\ cr'[x] = cr[x]
    BY <1>1, <1>3, <1>4 DEF Awake
  <2>2. NeedsWork(cr[x])' <=> NeedsWork(cr[x])
    BY <1>1, <2>1 DEF NeedsWork, FirstCall, AfterFinalizer, UpToDate, isExpired
  <2>3. CASE x # c
    <3>1. ~InHands(o, x) /\ ~InHands(o, x)'
      BY <1>1, <2>3 DEF Settled, InHands, Calls
    <3>2. QED
      BY <1>2, <2>1, <2>2, <3>1 DEF NoticedBy
  <2>4. CASE x = c
    <3>1. snap[o] = cr[c]
      BY <1>1, <1>2, <2>1, <2>4 DEF NoticedBy, InHands
    <3>2. CASE pc'[o] \in Calls
      <4>1. pc'[o] # "idle"
        BY <3>2 DEF Calls
      <4>2. QED
        BY <1>1, <2>1, <2>4, <3>1, <3>2, <4>1 DEF Settled, InHands
    <3>3. CASE pc'[o] \notin Calls
      <4>1. pc[o] = "failSpec"
        BY <1>1, <1>4, <2>1, <2>4, <3>1, <3>3 DEF Settled, Awake
      <4>2. cr[c].spec \in Invalid
        BY <3>1, <4>1 DEF NoticedBy
      <4>3. QED
        BY <2>2, <2>4, <3>3, <4>2 DEF NeedsWork, InHands
    <3>4. QED
      BY <3>2, <3>3
  <2>5. QED
    BY <2>3, <2>4
<1>5. QED
  BY <1>1, <1>4 DEF NoticedBy

(* So does one that dequeues a key, hears of an event, dies or starts.     *)
LEMMA ProcessNotices ==
  ASSUME TypeOK, Copies, NEW o \in Operators, NoticedBy(o),
         \/ \E c \in Charts : Dequeue(o, c) \/ Deliver(o, c) \/ BackoffOver(o, c)
         \/ Resync(o) \/ Crash(o) \/ Restart(o)
  PROVE  NoticedBy(o)'
<1>1. UNCHANGED <<cr, now>>
  BY DEF Dequeue, Deliver, BackoffOver, Resync, Crash, Restart
<1>2. \A c \in Charts : NeedsWork(cr[c])' <=> NeedsWork(cr[c])
  BY <1>1 DEF NeedsWork, FirstCall, AfterFinalizer, UpToDate, isExpired
<1>3. ASSUME \A x \in Charts : Awake(o, x) => Awake(o, x)', UNCHANGED worker
      PROVE  NoticedBy(o)'
  BY <1>1, <1>2, <1>3 DEF NoticedBy, InHands, worker
<1>4. ASSUME NEW c \in Charts, Dequeue(o, c) PROVE NoticedBy(o)'
  <2> DEFINE obj == cache[o][c]
  <2>1. /\ pc[o] = "idle" /\ queue'[o] = queue[o] \ {c}
        /\ UNCHANGED <<watch, delayed>>
        /\ queue \in [Operators -> SUBSET Charts]
    BY <1>4 DEF Dequeue, informer, TypeOK
  <2>2. \A x \in Charts \ {c} : Awake(o, x) <=> Awake(o, x)'
    BY <2>1 DEF Awake
  <2>3. ~Awake(o, c)' => cache[o][c] = cr[c]
    BY <2>1 DEF Awake, Copies, CacheCatchesUp
  <2>4. \A x \in Charts : ~InHands(o, x)
    BY <2>1 DEF InHands, Calls
  <2>5. CASE UNCHANGED worker /\ (obj = NoCR \/ FirstCall(obj) = "return")
    <3>1. obj = cr[c] => ~NeedsWork(cr[c])
      BY <2>5 DEF NeedsWork
    <3>2. \A x \in Charts : ~InHands(o, x)' /\ pc'[o] = pc[o]
      BY <2>4, <2>5 DEF InHands, worker
    <3>3. ASSUME NEW x \in Charts, ~Awake(o, x)' PROVE ~NeedsWork(cr[x])'
      <4>1. CASE x = c
        BY <1>2, <2>3, <3>1, <3>3, <4>1
      <4>2. CASE x # c
        BY <1>2, <2>1, <2>2, <2>4, <3>3, <4>2 DEF NoticedBy
      <4>3. QED
        BY <4>1, <4>2
    <3>4. QED
      BY <2>1, <3>2, <3>3 DEF NoticedBy
  <2>6. CASE pc'[o] = FirstCall(obj) /\ key'[o] = c /\ snap'[o] = obj
    <3>1. pc'[o] # "failSpec"
      BY <2>6, DecisionType
    <3>2. ASSUME NEW x \in Charts, ~Awake(o, x)'
          PROVE  /\ InHands(o, x)' => snap'[o] = cr'[x]
                 /\ ~InHands(o, x)' => ~NeedsWork(cr[x])'
      <4>1. CASE x = c
        <5>1. obj = cr[c]
          BY <2>3, <3>2, <4>1
        <5>2. FirstCall(obj) = "return" => ~NeedsWork(cr[c])
          BY <5>1 DEF NeedsWork
        <5>3. FirstCall(obj) # "return" => InHands(o, c)'
          BY <2>6, DecisionType DEF InHands, Calls, Steps
        <5>4. QED
          BY <1>1, <1>2, <2>6, <4>1, <5>1, <5>2, <5>3
      <4>2. CASE x # c
        <5>1. ~InHands(o, x)'
          BY <2>6, <4>2 DEF InHands
        <5>2. QED
          BY <1>2, <2>1, <2>2, <2>4, <3>2, <4>2, <5>1 DEF NoticedBy
      <4>3. QED
        BY <4>1, <4>2
    <3>3. QED
      BY <3>1, <3>2 DEF NoticedBy
  <2>7. QED
    BY <1>4, <2>5, <2>6 DEF Dequeue, TypeOK
<1>5. ASSUME NEW c \in Charts, Deliver(o, c) PROVE NoticedBy(o)'
  <2>1. ASSUME NEW x \in Charts, Awake(o, x) PROVE Awake(o, x)'
    BY <1>5, <2>1 DEF Deliver, Awake, TypeOK
  <2>2. QED
    BY <1>3, <1>5, <2>1 DEF Deliver
<1>6. ASSUME NEW c \in Charts, BackoffOver(o, c) PROVE NoticedBy(o)'
  <2>1. ASSUME NEW x \in Charts, Awake(o, x) PROVE Awake(o, x)'
    BY <1>6, <2>1 DEF BackoffOver, Awake, informer, TypeOK
  <2>2. QED
    BY <1>3, <1>6, <2>1 DEF BackoffOver
<1>7. CASE Resync(o)
  <2>1. ASSUME NEW x \in Charts, Awake(o, x) PROVE Awake(o, x)'
    BY <1>7, <2>1 DEF Resync, Awake, informer, TypeOK
  <2>2. QED
    BY <1>3, <1>7, <2>1 DEF Resync
<1>8. CASE Crash(o)
  <2>1. pc'[o] = "down"
    BY <1>8 DEF Crash, TypeOK
  <2>2. QED
    BY <2>1 DEF NoticedBy
<1>9. CASE Restart(o)
  <2>1. /\ pc'[o] = "idle" /\ queue'[o] = {c \in Charts : cr[c] # NoCR}
    BY <1>9 DEF Restart, TypeOK
  <2>2. ASSUME NEW x \in Charts, ~Awake(o, x)' PROVE ~NeedsWork(cr[x])'
    BY <1>2, <2>1, <2>2 DEF Awake, NeedsWork
  <2>3. \A x \in Charts : ~InHands(o, x)'
    BY <2>1 DEF InHands, Calls
  <2>4. QED
    BY <2>1, <2>2, <2>3 DEF NoticedBy
<1>10. QED
  BY <1>4, <1>5, <1>6, <1>7, <1>8, <1>9

(* Through crashes, failed calls, stale caches and other operators'        *)
(* writes, a running operator has noticed what it lacks: the invariant     *)
(* behind NoLostWakeup.                                                    *)
THEOREM NoticedAlways == Spec => []Noticed
<1>1. Init => Noticed
  BY DEF Init, Noticed, NoticedBy, NeedsWork, InHands, Calls
<1>2. TypeOK /\ TypeOK' /\ Copies /\ Noticed /\ [Next]_vars => Noticed'
  <2> SUFFICES ASSUME TypeOK, TypeOK', Copies, Noticed, [Next]_vars,
                      NEW p \in Operators
               PROVE  NoticedBy(p)'
    BY DEF Noticed
  <2>1. NoticedBy(p) /\ now \in Nat /\ now' \in Nat
    BY DEF Noticed, TypeOK
  <2>2. CASE Environment
    <3>1. \/ UNCHANGED <<cr, watch>>
          \/ \E c \in Charts : \E obj : Put(c, obj)
      BY <2>2, EnvironmentOutside DEF Outside, Edited
    <3>2. UNCHANGED <<queue, delayed, pc, key, snap>> /\ now' >= now
      BY <2>1, <2>2 DEF Environment, Tick, UserDelete, Apply, UserWrite, worker
    <3>3. QED
      BY <2>1, <3>1, <3>2, OthersNotice
  <2>3. ASSUME NEW o \in Operators, WorkerStep(o) PROVE NoticedBy(p)'
    <3>1. CASE p = o
      BY <2>1, <2>3, <3>1, WorkerNotices
    <3>2. CASE p # o
      <4>1. /\ UNCHANGED <<queue, now>> /\ delayed'[p] = delayed[p]
            /\ pc'[p] = pc[p] /\ key'[p] = key[p] /\ snap'[p] = snap[p]
        BY <2>3, <3>2, WorkerEffect, WorkerSettles DEF Noticed, NoticedBy
      <4>2. UNCHANGED <<cr, watch>> \/ \E c \in Charts : \E obj : Put(c, obj)
        <5>1. pc[o] \in Calls
          BY <2>3, WorkerEffect
        <5>2. key[o] \in Charts
          BY <5>1 DEF TypeOK, Calls
        <5>3. QED
          BY <2>3, <5>2, WorkerPuts
      <4>3. QED
        BY <2>1, <4>1, <4>2, OthersNotice
    <3>3. QED
      BY <3>1, <3>2
  <2>4. ASSUME NEW o \in Operators, OperatorStep(o), ~WorkerStep(o) PROVE NoticedBy(p)'
    <3>1. CASE p = o
      BY <2>1, <2>4, <3>1, ProcessNotices DEF OperatorStep
    <3>2. CASE p # o
      <4>1. /\ queue'[p] = queue[p] /\ delayed'[p] = delayed[p] /\ watch'[p] = watch[p]
            /\ pc'[p] = pc[p] /\ key'[p] = key[p] /\ snap'[p] = snap[p]
            /\ UNCHANGED <<cr, now>>
        BY <2>4, <3>2 DEF OperatorStep, Resync, Crash, Restart, Dequeue, Deliver,
             BackoffOver, worker, informer, TypeOK
      <4>2. QED
        BY <2>1, <4>1, OthersNotice
    <3>3. QED
      BY <3>1, <3>2
  <2>5. CASE UNCHANGED vars
    <3>1. UNCHANGED <<cr, watch, now, queue, delayed, pc, key, snap>>
      BY <2>5 DEF vars, informer, worker
    <3>2. QED
      BY <2>1, <3>1, OthersNotice
  <2>6. QED
    BY <2>2, <2>3, <2>4, <2>5 DEF Next
<1>3. QED
  BY <1>1, <1>2, TypeCorrect, CopiesAlways, PTL DEF Spec

(* No wakeup is lost: whatever fails or is outdated, a running operator    *)
(* will look at every chart that needs work without waiting for a resync.  *)
THEOREM NoLostWakeupAlways == Spec => []NoLostWakeup
<1>1. Noticed => NoLostWakeup
  BY DEF Noticed, NoticedBy, NoLostWakeup, Awake, InHands, NeedsWork
<1>2. QED
  BY <1>1, NoticedAlways, PTL
=============================================================================
