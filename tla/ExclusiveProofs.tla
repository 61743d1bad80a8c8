-------------------------- MODULE ExclusiveProofs --------------------------
(***************************************************************************)
(* What holds of the operator because there is only one of it, for every   *)
(* value of the other constants.                                           *)
(***************************************************************************)
EXTENDS OperatorProofs

USE ChartsAssumption, NoCRIsNotAnObject, NoArtifactIsNotOne

-----------------------------------------------------------------------------
(* What a step makes of the versions an operator has seen or will see.     *)

(* A stored version that is not marked adds no deletion to what is seen.   *)
LEMMA PutSeen ==
  ASSUME TypeOK, NEW o \in Operators, NEW c \in Charts, NEW obj \in Entry,
         Put(c, obj), UNCHANGED cache, NoDeletionSeen(o, c),
         obj # NoCR => ~obj.del
  PROVE  NoDeletionSeen(o, c)'
<1> DEFINE w == watch[o][c]
<1>1. w \in Seq(Entry) /\ watch[o] \in [Charts -> Seq(Entry)]
  BY DEF TypeOK, Entry
<1>2. CASE watch'[o] = watch[o]
  BY <1>2 DEF NoDeletionSeen
<1>3. CASE watch'[o] = [watch[o] EXCEPT ![c] = Append(@, obj)]
  <2>1. watch'[o][c] = Append(w, obj)
    BY <1>1, <1>3
  <2>2. /\ Len(Append(w, obj)) = Len(w) + 1 /\ Len(w) \in Nat
        /\ Append(w, obj)[Len(w) + 1] = obj
        /\ \A i \in 1 .. Len(w) : Append(w, obj)[i] = w[i]
    BY <1>1
  <2>3. \A i \in 1 .. Len(w) + 1 : i \in 1 .. Len(w) \/ i = Len(w) + 1
    BY <2>2
  <2>4. QED
    BY <2>1, <2>2, <2>3 DEF NoDeletionSeen
<1>4. QED
  BY <1>2, <1>3 DEF Put

(* A write to one chart says nothing of another.                           *)
LEMMA PutElsewhere ==
  ASSUME TypeOK, NEW c \in Charts, NEW obj, Put(c, obj),
         NEW o \in Operators, NEW x \in Charts \ {c}
  PROVE  cr'[x] = cr[x] /\ watch'[o][x] = watch[o][x]
  BY DEF Put, TypeOK

(* Nor does a write that changes nothing.                                  *)
LEMMA PutNothing ==
  ASSUME TypeOK, NEW c \in Charts, Put(c, cr[c]), NEW o \in Operators
  PROVE  cr' = cr /\ watch'[o] = watch[o]
  BY DEF Put, TypeOK

(* Delivering an event moves it from the ones on their way to the cache.   *)
LEMMA DeliverSeen ==
  ASSUME TypeOK, NEW o \in Operators, NEW c \in Charts, Deliver(o, c),
         NEW x \in Charts, NoDeletionSeen(o, x)
  PROVE  NoDeletionSeen(o, x)'
<1> DEFINE w == watch[o][c]
<1>1. /\ w \in Seq(Entry) /\ w # <<>>
      /\ cache \in [Operators -> [Charts -> Entry]]
      /\ watch \in [Operators -> [Charts -> Seq(Entry)]]
      /\ cache' = [cache EXCEPT ![o][c] = Head(w)]
      /\ watch' = [watch EXCEPT ![o][c] = Tail(w)]
  BY DEF TypeOK, Entry, Deliver
<1>2. CASE x # c
  <2>1. cache'[o][x] = cache[o][x] /\ watch'[o][x] = watch[o][x]
    BY <1>1, <1>2
  <2>2. QED
    BY <2>1 DEF NoDeletionSeen
<1>3. CASE x = c
  <2>1. cache'[o][c] = Head(w) /\ watch'[o][c] = Tail(w)
    BY <1>1
  <2>2. /\ Len(w) \in Nat /\ Len(w) >= 1 /\ Head(w) = w[1]
        /\ Len(Tail(w)) = Len(w) - 1
        /\ \A i \in 1 .. Len(Tail(w)) : Tail(w)[i] = w[i + 1]
    BY <1>1, HeadTailProperties
  <2>3. /\ 1 \in 1 .. Len(w)
        /\ \A i \in 1 .. Len(Tail(w)) : i + 1 \in 1 .. Len(w)
    BY <2>2
  <2>4. QED
    BY <1>3, <2>1, <2>2, <2>3 DEF NoDeletionSeen
<1>4. QED
  BY <1>2, <1>3

(* A call of the worker writes nothing to the API server, or one object in *)
(* place of a current copy (Reap: of any); a worker that goes on without   *)
(* writing keeps its copy, one that wrote goes on with what it wrote,      *)
(* which is not marked if the copy was not.                                *)
LEMMA WorkerWrites ==
  ASSUME TypeOK, Copies, NEW o \in Operators, WorkerStep(o)
  PROVE  LET c == key[o] IN
         /\ UNCHANGED cache
         /\ \/ /\ UNCHANGED <<cr, watch>>
               /\ \/ pc'[o] \notin Calls
                  \/ key'[o] = c /\ snap'[o] = snap[o] /\ current'[o] = current[o]
            \/ \E obj \in Entry :
                 /\ Put(c, obj)
                 /\ \/ pc[o] = "reap" /\ pc'[o] \notin Calls
                    \/ /\ current[o] /\ (obj # NoCR => obj.del = snap[o].del)
                       /\ \/ pc'[o] \notin Calls
                          \/ key'[o] = c /\ snap'[o] = obj /\ obj # NoCR
<1> DEFINE c == key[o]
<1>1. pc[o] \in Calls /\ "idle" \notin Calls
  BY DEF TypeOK, Calls, Steps, WorkerStep, RemoveArtifact, DropFinalizer,
         AddFinalizer, Reap, SetGenerating, Upload, SetReady, SetFailedSpec, SetFailedWork
<1>2. /\ c \in Charts /\ snap[o] \in Object /\ cr \in [Charts -> Entry]
      /\ pc \in [Operators -> Steps] /\ snap \in [Operators -> Entry]
      /\ key \in [Operators -> Charts \cup {NoChart}]
      /\ current \in [Operators -> BOOLEAN] /\ Fits(pc[o], snap[o])
  BY <1>1 DEF TypeOK, Calls, Entry, Copies, CopyFitsCall
<1>3. ASSUME NEW step, Proceed(o, step, snap[o], current)
      PROVE  pc'[o] \notin Calls
             \/ (key'[o] = c /\ snap'[o] = snap[o] /\ current'[o] = current[o])
  BY <1>1, <1>2, <1>3 DEF Proceed, Return
<1> DEFINE Nothing == /\ UNCHANGED <<cr, watch>>
                     /\ \/ pc'[o] \notin Calls
                        \/ key'[o] = c /\ snap'[o] = snap[o] /\ current'[o] = current[o]
           Something(obj) ==
             /\ Put(c, obj)
             /\ \/ pc[o] = "reap" /\ pc'[o] \notin Calls
                \/ /\ current[o] /\ (obj # NoCR => obj.del = snap[o].del)
                   /\ \/ pc'[o] \notin Calls
                      \/ key'[o] = c /\ snap'[o] = obj /\ obj # NoCR
<1>4. ASSUME NEW obj \in Entry, obj # NoCR => obj.del = snap[o].del,
             NEW onSuccess \in Calls \cup {"return", "error"},
             onSuccess \in Calls => obj # NoCR,
             NEW onError \in {"return", "error"}, Write(o, obj, onSuccess, onError)
      PROVE  Nothing \/ Something(obj)
  BY <1>1, <1>4, WriteEffect DEF Copies
<1>5. CASE RemoveArtifact(o) \/ Upload(o)
  <2>1. /\ UNCHANGED <<cr, watch, cache>>
        /\ \E step \in Steps \cup {"error"} : Proceed(o, step, snap[o], current)
    BY <1>5 DEF RemoveArtifact, Upload, informer, Steps
  <2>2. QED
    BY <1>3, <2>1
<1>6. CASE DropFinalizer(o)
  <2>1. WithFinalizer(snap[o], FALSE) = NoCR
    BY <1>2, <1>6 DEF DropFinalizer, Fits, WithFinalizer
  <2>2. Write(o, NoCR, "return", "error") /\ UNCHANGED cache
    BY <1>6, <2>1 DEF DropFinalizer
  <2>3. NoCR \in Entry /\ "return" \notin Calls
    BY DEF Entry, Calls, Steps
  <2> HIDE DEF Nothing, Something
  <2>4. Nothing \/ Something(NoCR)
    BY <1>4, <2>2, <2>3
  <2>5. QED
    BY <2>2, <2>3, <2>4 DEF Nothing, Something
<1>7. CASE AddFinalizer(o)
  <2> DEFINE new == WithFinalizer(snap[o], TRUE)
             next == AfterFinalizer(new)
  <2>1. new = [snap[o] EXCEPT !.fin = TRUE]
    BY <1>2, <1>7 DEF AddFinalizer, Fits, WithFinalizer
  <2>2. new \in Entry /\ new # NoCR /\ new.del = snap[o].del
    <3> HIDE DEF new
    <3>1. new \in Object /\ new.del = snap[o].del
      BY <1>2, <2>1, FinalizerFields
    <3>2. QED
      BY <3>1 DEF Entry
  <2>3. next \in Calls \cup {"return", "error"}
    BY DecisionType DEF Calls, Steps
  <2>4. Write(o, new, next, "error") /\ UNCHANGED cache
    BY <1>7 DEF AddFinalizer
  <2> HIDE DEF Nothing, Something, new, next
  <2>5. Nothing \/ Something(new)
    BY <1>4, <2>2, <2>3, <2>4
  <2>6. QED
    BY <2>2, <2>4, <2>5 DEF Nothing, Something, Entry
<1>8. CASE Reap(o)
  <2> DEFINE gone == Deleted(cr[c])
  <2>1. /\ pc[o] = "reap" /\ UNCHANGED cache /\ pc'[o] = "idle"
        /\ (cr[c] # NoCR /\ Put(c, gone)) \/ UNCHANGED <<cr, watch>>
    BY <1>2, <1>8 DEF Reap, Return
  <2>2. cr[c] # NoCR => gone \in Entry
    BY <1>2, DeletedType DEF Entry
  <2>3. QED
    BY <1>1, <2>1, <2>2
<1>9. CASE SetGenerating(o) \/ SetReady(o) \/ SetFailedSpec(o) \/ SetFailedWork(o)
  <2>1. PICK phase \in Phases, observed \in Nat, next \in Calls \cup {"return", "error"},
             err \in {"return", "error"} :
          Write(o, WithStatus(snap[o], phase, observed), next, err) /\ UNCHANGED cache
    <3>1. AfterGenerating(WithStatus(snap[o], "Generating", 0)) \in Calls \cup {"return", "error"}
      BY DecisionType DEF Calls, Steps
    <3>2. snap[o].gen \in Nat /\ 0 \in Nat
      BY <1>2 DEF Object
    <3>3. QED
      BY <1>9, <3>1, <3>2 DEF SetGenerating, SetReady, SetFailedSpec, SetFailedWork, Phases
  <2> DEFINE new == WithStatus(snap[o], phase, observed)
  <2>2. new \in Entry /\ new # NoCR /\ new.del = snap[o].del
    <3>1. new \in Object /\ new.del = snap[o].del
      BY <1>2, WithStatusType, StatusFields
    <3> HIDE DEF new
    <3>2. QED
      BY <3>1 DEF Entry
  <2> HIDE DEF Nothing, Something, new
  <2>3. Nothing \/ Something(new)
    BY <1>4, <2>1, <2>2 DEF new
  <2>4. QED
    BY <2>1, <2>2, <2>3 DEF Nothing, Something, Entry
<1>10. QED
  BY <1>5, <1>6, <1>7, <1>8, <1>9 DEF WorkerStep

-----------------------------------------------------------------------------
(* An up-to-date chart is never mistaken for a deleted one.                *)

(* Only the final write of an attempt makes a chart up to date.            *)
LEMMA OnlyReadyUpdates ==
  ASSUME TypeOK, Copies, NEW o \in Operators, WorkerStep(o),
         NEW c \in Charts, cr'[c] # cr[c], cr'[c] # NoCR, UpToDate(cr'[c])
  PROVE  /\ key[o] = c /\ ~snap[o].del /\ pc'[o] \notin Calls
         /\ pc[o] = "ready" /\ cr[c] = snap[o]
         /\ cr'[c] = WithStatus(snap[o], "Ready", snap[o].gen)
<1> DEFINE x == snap[o]
<1>1. pc[o] \in Calls /\ Effect(o)
  BY WorkerEffect
<1>2. /\ cr \in [Charts -> Entry] /\ key[o] \in Charts /\ x \in Object /\ Fits(pc[o], x)
  BY <1>1 DEF TypeOK, Calls, Entry, Copies, CopyFitsCall
<1>3. key[o] = c
  BY <1>1, <1>2 DEF Effect, Stores
<1>4. CASE pc[o] = "ready" /\ cr[c] = x
           /\ cr'[c] = WithStatus(x, "Ready", x.gen) /\ Idles(o)
  BY <1>2, <1>3, <1>4 DEF Fits, Attempt, Idles, Calls, Steps
<1>5. CASE cr[c] = x /\ \E phase \in {"Generating", "Failed"} : cr'[c] = WithStatus(x, phase, 0)
  BY <1>2, <1>5, StatusFields DEF UpToDate
<1>6. CASE cr[c] = x /\ pc[o] = "addfin" /\ cr'[c] = [x EXCEPT !.fin = TRUE]
  <2>1. ~x.fin /\ Coherent(x)
    BY <1>2, <1>6 DEF Fits, Copies
  <2>2. QED
    BY <1>2, <1>6, <2>1, FinalizerFields DEF UpToDate, Coherent
<1>7. CASE cr[c] # NoCR /\ cr'[c] = Deleted(cr[c])
  <2>1. cr[c] \in Object /\ cr[c].gen \in Nat /\ cr[c].observed \in Nat /\ Coherent(cr[c])
    BY <1>2, <1>7 DEF Copies, Entry, Object
  <2>2. cr'[c].gen = cr[c].gen + 1 /\ cr'[c].observed = cr[c].observed
    BY <1>7, <2>1, DeletedFields
  <2>3. QED
    BY <2>1, <2>2 DEF UpToDate, Coherent
<1>8. QED
  BY <1>1, <1>2, <1>3, <1>4, <1>5, <1>6, <1>7 DEF Effect, Stores

(* The worker's calls keep it so.                                          *)
LEMMA WorkerNoStaleDeletion ==
  ASSUME TypeOK, Copies, NoStaleDeletion, OneOperator,
         NEW o \in Operators, WorkerStep(o)
  PROVE  NoStaleDeletion'
<1> DEFINE c == key[o]
<1>1. pc[o] \in Calls /\ c \in Charts /\ snap[o] \in Object /\ cr \in [Charts -> Entry]
  <2>1. pc[o] \in Calls
    BY WorkerEffect
  <2>2. QED
    BY <2>1 DEF TypeOK, Calls, Entry
<1>2. SUFFICES ASSUME NEW x \in Charts
      PROVE  /\ cr'[x] # NoCR /\ UpToDate(cr'[x]) =>
                  /\ NoDeletionSeen(o, x)'
                  /\ pc'[o] \in Calls /\ key'[o] = x => ~snap'[o].del
             /\ current'[o] /\ pc'[o] \in Calls /\ key'[o] = x /\ ~snap'[o].del =>
                  NoDeletionSeen(o, x)'
  BY DEF NoStaleDeletion, OneOperator
<1>3. CASE /\ UNCHANGED <<cr, watch, cache>>
           /\ \/ pc'[o] \notin Calls
              \/ key'[o] = c /\ snap'[o] = snap[o] /\ current'[o] = current[o]
  BY <1>1, <1>3 DEF NoStaleDeletion, NoDeletionSeen
<1>4. ASSUME NEW obj \in Entry, UNCHANGED cache, Put(c, obj),
             \/ pc[o] = "reap" /\ pc'[o] \notin Calls
             \/ /\ current[o] /\ (obj # NoCR => obj.del = snap[o].del)
                /\ \/ pc'[o] \notin Calls
                   \/ key'[o] = c /\ snap'[o] = obj /\ obj # NoCR
      PROVE  /\ cr'[x] # NoCR /\ UpToDate(cr'[x]) =>
                  /\ NoDeletionSeen(o, x)'
                  /\ pc'[o] \in Calls /\ key'[o] = x => ~snap'[o].del
             /\ current'[o] /\ pc'[o] \in Calls /\ key'[o] = x /\ ~snap'[o].del =>
                  NoDeletionSeen(o, x)'
  <2>1. CASE x # c
    <3>1. cr'[x] = cr[x] /\ watch'[o][x] = watch[o][x] /\ cache' = cache
      BY <1>1, <1>4, <2>1, PutElsewhere
    <3>2. pc'[o] \notin Calls \/ key'[o] = c
      BY <1>4
    <3>3. QED
      BY <1>1, <2>1, <3>1, <3>2 DEF NoStaleDeletion, NoDeletionSeen
  <2>2. CASE x = c
    <3>1. cr'[x] = obj /\ Put(x, obj) /\ key[o] = x
      BY <1>1, <1>4, <2>2 DEF Put
    <3>2. ASSUME cr'[x] # NoCR, UpToDate(cr'[x]) PROVE NoDeletionSeen(o, x)'
      <4>1. CASE obj = cr[x]
        <5>1. watch'[o] = watch[o] /\ cache' = cache
          BY <1>1, <1>4, <3>1, <4>1, PutNothing
        <5>2. NoDeletionSeen(o, x)
          BY <3>1, <3>2, <4>1 DEF NoStaleDeletion
        <5>3. QED
          BY <5>1, <5>2 DEF NoDeletionSeen
      <4>2. CASE obj # cr[x]
        <5>1. pc[o] = "ready" /\ ~snap[o].del
          BY <1>1, <3>1, <3>2, <4>2, OnlyReadyUpdates
        <5>2. current[o] /\ (obj # NoCR => ~obj.del)
          BY <1>4, <5>1
        <5>3. NoDeletionSeen(o, x)
          BY <1>1, <3>1, <5>1, <5>2 DEF NoStaleDeletion
        <5>4. QED
          BY <1>4, <3>1, <5>2, <5>3, PutSeen
      <4>3. QED
        BY <4>1, <4>2
    <3>3. ASSUME cr'[x] # NoCR, UpToDate(cr'[x]), pc'[o] \in Calls PROVE ~snap'[o].del
      <4>1. obj = cr[x]
        BY <1>1, <3>1, <3>3, OnlyReadyUpdates
      <4>2. snap'[o] = obj /\ obj # NoCR /\ obj.del = snap[o].del
        BY <1>4, <3>3
      <4>3. QED
        BY <1>1, <3>1, <3>3, <4>1, <4>2 DEF NoStaleDeletion
    <3>4. ASSUME pc'[o] \in Calls, ~snap'[o].del PROVE NoDeletionSeen(o, x)'
      <4>1. current[o] /\ ~snap[o].del /\ (obj # NoCR => ~obj.del)
        BY <1>4, <3>4
      <4>2. NoDeletionSeen(o, x)
        BY <1>1, <3>1, <4>1 DEF NoStaleDeletion
      <4>3. QED
        BY <1>4, <3>1, <4>1, <4>2, PutSeen
    <3>5. QED
      BY <2>2, <3>2, <3>3, <3>4
  <2>3. QED
    BY <2>1, <2>2
<1>5. QED
  BY <1>3, <1>4, WorkerWrites

(* So do the informer, the timers and the process.                         *)
LEMMA ProcessNoStaleDeletion ==
  ASSUME TypeOK, Copies, NoStaleDeletion, OneOperator, NEW o \in Operators,
         \/ \E c \in Charts : Dequeue(o, c) \/ Deliver(o, c) \/ BackoffOver(o, c)
         \/ Resync(o) \/ Crash(o) \/ Restart(o)
  PROVE  NoStaleDeletion'
<1> USE DEF informer, worker
<1>1. /\ pc \in [Operators -> Steps] /\ key \in [Operators -> Charts \cup {NoChart}]
      /\ snap \in [Operators -> Entry] /\ current \in [Operators -> BOOLEAN]
      /\ cr \in [Charts -> Entry] /\ cache \in [Operators -> [Charts -> Entry]]
      /\ watch \in [Operators -> [Charts -> Seq(Entry)]] /\ UNCHANGED cr
  BY DEF TypeOK, Entry, Dequeue, Deliver, BackoffOver, Resync, Crash, Restart
<1>2. SUFFICES ASSUME NEW x \in Charts
      PROVE  /\ cr[x] # NoCR /\ UpToDate(cr[x]) =>
                  /\ NoDeletionSeen(o, x)'
                  /\ pc'[o] \in Calls /\ key'[o] = x => ~snap'[o].del
             /\ current'[o] /\ pc'[o] \in Calls /\ key'[o] = x /\ ~snap'[o].del =>
                  NoDeletionSeen(o, x)'
  BY <1>1 DEF NoStaleDeletion, OneOperator
<1>3. ASSUME UNCHANGED <<watch, cache, pc, key, snap, current>>
      PROVE  /\ cr[x] # NoCR /\ UpToDate(cr[x]) =>
                  /\ NoDeletionSeen(o, x)'
                  /\ pc'[o] \in Calls /\ key'[o] = x => ~snap'[o].del
             /\ current'[o] /\ pc'[o] \in Calls /\ key'[o] = x /\ ~snap'[o].del =>
                  NoDeletionSeen(o, x)'
  BY <1>3 DEF NoStaleDeletion, NoDeletionSeen
<1>4. ASSUME NEW c \in Charts, Dequeue(o, c), ~UNCHANGED worker
      PROVE  /\ cr[x] # NoCR /\ UpToDate(cr[x]) =>
                  /\ NoDeletionSeen(o, x)'
                  /\ pc'[o] \in Calls /\ key'[o] = x => ~snap'[o].del
             /\ current'[o] /\ pc'[o] \in Calls /\ key'[o] = x /\ ~snap'[o].del =>
                  NoDeletionSeen(o, x)'
  <2>1. /\ cache[o][c] # NoCR /\ key'[o] = c /\ snap'[o] = cache[o][c]
        /\ UNCHANGED <<watch, cache>>
        /\ current'[o] = (watch[o][c] = <<>>)
    BY <1>1, <1>4 DEF Dequeue
  <2>2. cr[x] # NoCR /\ UpToDate(cr[x]) => NoDeletionSeen(o, x)
    BY DEF NoStaleDeletion
  <2>3. NoDeletionSeen(o, x)' <=> NoDeletionSeen(o, x)
    BY <2>1 DEF NoDeletionSeen
  <2>4. x = c /\ NoDeletionSeen(o, x) => ~snap'[o].del
    BY <2>1 DEF NoDeletionSeen
  <2>5. ASSUME x = c, current'[o], ~snap'[o].del PROVE NoDeletionSeen(o, x)
    <3>1. watch[o][x] = <<>> /\ snap'[o] = cache[o][x]
      BY <2>1, <2>5
    <3>2. QED
      BY <2>5, <3>1 DEF NoDeletionSeen
  <2>6. QED
    BY <2>1, <2>2, <2>3, <2>4, <2>5
<1>5. ASSUME NEW c \in Charts, Deliver(o, c)
      PROVE  /\ cr[x] # NoCR /\ UpToDate(cr[x]) =>
                  /\ NoDeletionSeen(o, x)'
                  /\ pc'[o] \in Calls /\ key'[o] = x => ~snap'[o].del
             /\ current'[o] /\ pc'[o] \in Calls /\ key'[o] = x /\ ~snap'[o].del =>
                  NoDeletionSeen(o, x)'
  <2>1. NoDeletionSeen(o, x) => NoDeletionSeen(o, x)'
    BY <1>5, DeliverSeen
  <2>2. UNCHANGED <<pc, key, snap, current>>
    BY <1>5 DEF Deliver
  <2>3. QED
    BY <2>1, <2>2 DEF NoStaleDeletion
<1>6. CASE Crash(o)
  <2>1. /\ pc'[o] \notin Calls
        /\ cache'[o][x] = NoCR /\ watch'[o][x] = <<>>
    BY <1>1, <1>6 DEF Crash, Calls
  <2>2. NoDeletionSeen(o, x)'
    BY <2>1, EmptySeq DEF NoDeletionSeen
  <2>3. QED
    BY <2>1, <2>2
<1>7. CASE Restart(o)
  <2>1. /\ pc'[o] \notin Calls /\ pc[o] = "down"
        /\ cache'[o] = cr /\ watch' = watch /\ watch[o][x] = <<>>
    BY <1>1, <1>7 DEF Restart, Calls, Copies, CacheCatchesUp
  <2>2. cr[x] # NoCR /\ UpToDate(cr[x]) => ~cr[x].del
    BY <1>1 DEF Copies, Coherent, UpToDate, Entry, Object
  <2>3. cr[x] # NoCR /\ UpToDate(cr[x]) => NoDeletionSeen(o, x)'
    BY <2>1, <2>2, EmptySeq DEF NoDeletionSeen
  <2>4. QED
    BY <2>1, <2>3
<1>8. QED
  BY <1>3, <1>4, <1>5, <1>6, <1>7 DEF Dequeue, BackoffOver, Resync

-----------------------------------------------------------------------------
(* Users.                                                                  *)

(* What a user, or the clock, may make of a chart: nothing; gone, if it    *)
(* has no finalizer; new; or as it was, but for a spec or a deletion that  *)
(* comes with a new generation.                                            *)
LEMMA OutsideEffect ==
  ASSUME TypeOK, Copies, Outside, NEW x \in Charts
  PROVE  /\ UNCHANGED <<bucket, cache, pc, key, snap>>
         /\ \/ cr'[x] = cr[x]
            \/ cr[x] \in Object /\ ~cr[x].fin /\ cr'[x] = NoCR
            \/ cr[x] = NoCR /\ cr'[x] \in Object /\ cr'[x].phase = ""
            \/ /\ cr[x] \in Object /\ cr'[x] \in Object
               /\ cr'[x].fin = cr[x].fin
               /\ cr'[x].phase = cr[x].phase /\ cr'[x].observed = cr[x].observed
               /\ \/ cr'[x].gen = cr[x].gen + 1
                  \/ /\ cr'[x].gen = cr[x].gen
                     /\ cr'[x].spec = cr[x].spec /\ cr'[x].del = cr[x].del
<1>1. cr \in [Charts -> Entry]
  BY DEF TypeOK, Entry
<1>2. CASE UNCHANGED <<cr, bucket, watch, cache, worker>>
  BY <1>2 DEF worker
<1>3. ASSUME NEW c \in Charts,
             \/ cr[c] # NoCR /\ cr'[c] = Deleted(cr[c])
             \/ \E spec \in Specs, exp \in Nat : cr'[c] = Applied(cr[c], spec, exp),
             cr'[c] \in Entry, Edited(c)
      PROVE  /\ UNCHANGED <<bucket, cache, pc, key, snap>>
             /\ \/ cr'[x] = cr[x]
                \/ cr[x] \in Object /\ ~cr[x].fin /\ cr'[x] = NoCR
                \/ cr[x] = NoCR /\ cr'[x] \in Object /\ cr'[x].phase = ""
                \/ /\ cr[x] \in Object /\ cr'[x] \in Object
                   /\ cr'[x].fin = cr[x].fin
                   /\ cr'[x].phase = cr[x].phase /\ cr'[x].observed = cr[x].observed
                   /\ \/ cr'[x].gen = cr[x].gen + 1
                      \/ /\ cr'[x].gen = cr[x].gen
                         /\ cr'[x].spec = cr[x].spec /\ cr'[x].del = cr[x].del
  <2>1. UNCHANGED <<bucket, cache, pc, key, snap>> /\ Put(c, cr'[c])
    BY <1>3 DEF Edited
  <2>2. CASE x # c
    BY <2>1, <2>2, PutElsewhere, <1>1 DEF Put
  <2>3. CASE x = c /\ cr[c] # NoCR /\ cr'[c] = Deleted(cr[c])
    <3>1. cr[c] \in Object
      BY <1>1, <2>3 DEF Entry
    <3> DEFINE new == Deleted(cr[c])
    <3>2. \/ new = NoCR /\ ~cr[c].fin
          \/ new = cr[c]
          \/ /\ new \in Object /\ new.fin = cr[c].fin /\ new.gen = cr[c].gen + 1
             /\ new.phase = cr[c].phase /\ new.observed = cr[c].observed
      <4>1. \/ new = NoCR /\ ~cr[c].fin
            \/ new = cr[c]
            \/ /\ new \in Object /\ cr[c].fin /\ new.fin /\ new.gen = cr[c].gen + 1
               /\ new.phase = cr[c].phase /\ new.observed = cr[c].observed
        BY <3>1, DeletedFields
      <4>2. cr[c].fin \in BOOLEAN /\ (new \in Object => new.fin \in BOOLEAN)
        BY <3>1 DEF Object
      <4> HIDE DEF new
      <4>3. QED
        BY <4>1, <4>2
    <3> HIDE DEF new
    <3>3. cr'[x] = new
      BY <2>3 DEF new
    <3>4. QED
      BY <2>1, <2>3, <3>1, <3>2, <3>3
  <2>4. ASSUME x = c, NEW spec \in Specs, NEW exp \in Nat, cr'[c] = Applied(cr[c], spec, exp)
        PROVE  \/ cr[c] = NoCR /\ cr'[c] \in Object /\ cr'[c].phase = ""
               \/ /\ cr[c] \in Object /\ cr'[c] \in Object
                  /\ cr'[c].fin = cr[c].fin
                  /\ cr'[c].phase = cr[c].phase /\ cr'[c].observed = cr[c].observed
                  /\ \/ cr'[c].gen = cr[c].gen + 1
                     \/ /\ cr'[c].gen = cr[c].gen
                        /\ cr'[c].spec = cr[c].spec /\ cr'[c].del = cr[c].del
    <3>1. cr'[c] \in Object
      BY <1>1, <2>4, AppliedType
    <3>2. CASE cr[c] = NoCR
      <4>1. Applied(NoCR, spec, exp).phase = ""
        BY DEF Applied
      <4>2. QED
        BY <2>4, <3>1, <3>2, <4>1
    <3>3. CASE cr[c] # NoCR
      <4>1. cr[c] \in Object
        BY <1>1, <3>3 DEF Entry
      <4> DEFINE new == Applied(cr[c], spec, exp)
      <4>2. /\ new.fin = cr[c].fin /\ new.del = cr[c].del
            /\ new.phase = cr[c].phase /\ new.observed = cr[c].observed
            /\ \/ new.spec = cr[c].spec /\ new.gen = cr[c].gen
               \/ new.gen = cr[c].gen + 1
        BY <4>1, AppliedFields
      <4> HIDE DEF new
      <4>3. cr'[c] = new
        BY <2>4 DEF new
      <4>4. QED
        BY <3>1, <4>1, <4>2, <4>3
    <3>4. QED
      BY <3>2, <3>3
  <2>5. QED
    BY <1>3, <2>1, <2>2, <2>3, <2>4
<1>4. QED
  BY <1>2, <1>3 DEF Outside

(* A user who leaves a chart up to date found it so.                       *)
LEMMA OutsideUpdates ==
  ASSUME TypeOK, Copies, Outside, NEW x \in Charts,
         cr'[x] # NoCR, UpToDate(cr'[x])
  PROVE  /\ cr[x] # NoCR /\ UpToDate(cr[x]) /\ cr'[x].spec = cr[x].spec
         /\ ~cr'[x].del
<1>1. CASE cr'[x] = cr[x]
  <2>1. cr[x] \in Object /\ Coherent(cr[x])
    BY <1>1 DEF TypeOK, Copies
  <2>2. ~cr[x].del
    BY <1>1, <2>1 DEF Coherent, UpToDate, Object
  <2>3. QED
    BY <1>1, <2>2
<1>2. CASE cr[x] = NoCR /\ cr'[x].phase = ""
  BY <1>2 DEF UpToDate
<1>3. CASE /\ cr[x] \in Object
           /\ cr'[x].phase = cr[x].phase /\ cr'[x].observed = cr[x].observed
           /\ \/ cr'[x].gen = cr[x].gen + 1
              \/ /\ cr'[x].gen = cr[x].gen
                 /\ cr'[x].spec = cr[x].spec /\ cr'[x].del = cr[x].del
  <2>1. /\ Coherent(cr[x]) /\ cr[x].gen \in Nat /\ cr[x].observed \in Nat
    BY <1>3 DEF Copies, Object
  <2>2. cr'[x].gen # cr[x].gen + 1
    BY <1>3, <2>1 DEF Coherent, UpToDate
  <2>3. QED
    BY <1>3, <2>1, <2>2 DEF Coherent, UpToDate
<1>4. QED
  BY <1>1, <1>2, <1>3, OutsideEffect

(* Users do not make an operator mistake a chart for a deleted one.        *)
LEMMA OutsideNoStaleDeletion ==
  ASSUME TypeOK, Copies, NoStaleDeletion, OneOperator, Outside
  PROVE  NoStaleDeletion'
<1>1. SUFFICES ASSUME NEW o \in Operators, NEW x \in Charts
      PROVE  /\ cr'[x] # NoCR /\ UpToDate(cr'[x]) =>
                  /\ NoDeletionSeen(o, x)'
                  /\ pc'[o] \in Calls /\ key'[o] = x => ~snap'[o].del
             /\ current'[o] /\ pc'[o] \in Calls /\ key'[o] = x /\ ~snap'[o].del =>
                  NoDeletionSeen(o, x)'
  BY DEF NoStaleDeletion
<1>2. UNCHANGED <<cache, pc, key, snap>>
  BY OutsideEffect
<1>3. \/ UNCHANGED <<cr, watch, current>>
      \/ \E c \in Charts : cr'[c] \in Entry /\ Put(c, cr'[c]) /\ current' = StillCurrent(c, cr'[c])
  BY DEF Outside, Edited, worker
<1>4. CASE UNCHANGED <<cr, watch, current>>
  BY <1>2, <1>4 DEF NoStaleDeletion, NoDeletionSeen
<1>5. ASSUME NEW c \in Charts, cr'[c] \in Entry, Put(c, cr'[c]),
             current' = StillCurrent(c, cr'[c])
      PROVE  /\ cr'[x] # NoCR /\ UpToDate(cr'[x]) =>
                  /\ NoDeletionSeen(o, x)'
                  /\ pc'[o] \in Calls /\ key'[o] = x => ~snap'[o].del
             /\ current'[o] /\ pc'[o] \in Calls /\ key'[o] = x /\ ~snap'[o].del =>
                  NoDeletionSeen(o, x)'
  <2>1. current'[o] => current[o] /\ (key[o] = c => cr'[c] = cr[c])
    BY <1>5 DEF StillCurrent
  <2>2. x # c \/ cr'[x] = cr[x] => cr'[x] = cr[x] /\ watch'[o][x] = watch[o][x]
    <3>1. CASE x # c
      BY <1>5, <3>1, PutElsewhere
    <3>2. CASE x = c /\ cr'[x] = cr[x]
      BY <1>5, <3>2, PutNothing
    <3>3. QED
      BY <3>1, <3>2
  <2>3. ASSUME cr'[x] # NoCR, UpToDate(cr'[x])
        PROVE  /\ NoDeletionSeen(o, x)'
               /\ pc'[o] \in Calls /\ key'[o] = x => ~snap'[o].del
    <3>1. cr[x] # NoCR /\ UpToDate(cr[x]) /\ ~cr'[x].del
      BY <2>3, OutsideUpdates
    <3>2. NoDeletionSeen(o, x) /\ (pc[o] \in Calls /\ key[o] = x => ~snap[o].del)
      BY <3>1 DEF NoStaleDeletion
    <3>3. CASE x = c
      <4> DEFINE obj == cr'[x]
      <4>1. obj \in Entry /\ ~obj.del /\ Put(x, obj)
        BY <1>5, <3>1, <3>3
      <4> HIDE DEF obj
      <4>2. NoDeletionSeen(o, x)'
        BY <1>2, <3>2, <4>1, PutSeen
      <4>3. QED
        BY <1>2, <3>2, <4>2
    <3>4. CASE x # c
      BY <1>2, <2>2, <3>2, <3>4 DEF NoDeletionSeen
    <3>5. QED
      BY <3>3, <3>4
  <2>4. ASSUME current'[o], pc'[o] \in Calls, key'[o] = x, ~snap'[o].del
        PROVE  NoDeletionSeen(o, x)'
    <3>1. NoDeletionSeen(o, x) /\ (x = c => cr'[x] = cr[x])
      BY <1>2, <2>1, <2>4 DEF NoStaleDeletion
    <3>2. QED
      BY <1>2, <2>2, <3>1 DEF NoDeletionSeen
  <2>5. QED
    BY <2>3, <2>4
<1>6. QED
  BY <1>3, <1>4, <1>5

-----------------------------------------------------------------------------
(* The other parts of Exclusive, chart by chart and operator by operator.  *)

(* What ArchiveNotAhead, NoOrphan and ReadyIsExact say of one chart.       *)
ChartOK(x) ==
  /\ bucket[x] # NoArtifact =>
       cr[x] # NoCR /\ cr[x].fin /\ bucket[x].gen <= cr[x].gen
  /\ cr[x] # NoCR /\ UpToDate(cr[x]) =>
       bucket[x] # NoArtifact /\ bucket[x].spec = cr[x].spec

(* What AttemptOwnsChart and CleanedBeforeDrop say of one operator.        *)
AttemptOK(o) ==
  LET c == key[o] IN
  /\ pc[o] \in Attempt =>
       /\ cr[c] # NoCR /\ cr[c].phase # "Ready" /\ cr[c].fin
       /\ snap[o].gen <= cr[c].gen
       /\ bucket[c] # NoArtifact => bucket[c].gen <= snap[o].gen
       /\ pc[o] = "ready" => bucket[c] = [spec |-> snap[o].spec, gen |-> snap[o].gen]
  /\ pc[o] = "dropfin" => bucket[c] = NoArtifact

(* Users keep both: a new spec or a deletion closes the gate.              *)
LEMMA OutsideParts ==
  ASSUME TypeOK, Copies, Outside,
         \A x \in Charts : ChartOK(x), \A o \in Operators : AttemptOK(o)
  PROVE  /\ \A x \in Charts : ChartOK(x)'
         /\ \A o \in Operators : AttemptOK(o)'
<1>1. cr \in [Charts -> Entry] /\ bucket \in [Charts -> Artifact \cup {NoArtifact}]
  BY DEF TypeOK, Entry
<1>2. ASSUME NEW x \in Charts PROVE ChartOK(x)'
  <2>1. UNCHANGED bucket
    BY OutsideEffect
  <2>2. ASSUME cr'[x] # NoCR, UpToDate(cr'[x])
        PROVE  bucket'[x] # NoArtifact /\ bucket'[x].spec = cr'[x].spec
    BY <2>1, <2>2, OutsideUpdates DEF ChartOK
  <2>3. ASSUME bucket'[x] # NoArtifact
        PROVE  cr'[x] # NoCR /\ cr'[x].fin /\ bucket'[x].gen <= cr'[x].gen
    <3>1. /\ bucket[x] # NoArtifact /\ cr[x] # NoCR /\ cr[x].fin
          /\ bucket[x].gen <= cr[x].gen
      BY <2>1, <2>3 DEF ChartOK
    <3>2. bucket[x].gen \in Nat /\ cr[x] \in Object /\ cr[x].gen \in Nat
      BY <1>1, <3>1 DEF Artifact, Entry, Object
    <3>3. /\ cr'[x] # NoCR /\ cr'[x].fin
          /\ cr'[x].gen = cr[x].gen \/ cr'[x].gen = cr[x].gen + 1
      BY <3>1, OutsideEffect
    <3>4. QED
      BY <2>1, <3>1, <3>2, <3>3
  <2>4. QED
    BY <2>2, <2>3 DEF ChartOK
<1>3. ASSUME NEW o \in Operators PROVE AttemptOK(o)'
  <2>1. UNCHANGED <<pc, key, snap>>
    BY DEF Outside, Edited, worker
  <2>2. CASE pc[o] \in Attempt
    <3> DEFINE c == key[o]
    <3>1. c \in Charts /\ snap[o] \in Object /\ snap[o].gen \in Nat
      BY <2>2 DEF TypeOK, Attempt, Object
    <3>2. /\ cr[c] # NoCR /\ cr[c].phase # "Ready" /\ cr[c].fin
          /\ snap[o].gen <= cr[c].gen
          /\ bucket[c] # NoArtifact => bucket[c].gen <= snap[o].gen
          /\ pc[o] = "ready" => bucket[c] = [spec |-> snap[o].spec, gen |-> snap[o].gen]
      BY <2>2 DEF AttemptOK
    <3>3. cr[c].gen \in Nat
      BY <1>1, <3>1, <3>2 DEF Entry, Object
    <3>4. /\ bucket' = bucket /\ cr'[c] # NoCR /\ cr'[c].fin
          /\ cr'[c].phase = cr[c].phase
          /\ cr'[c].gen = cr[c].gen \/ cr'[c].gen = cr[c].gen + 1
      BY <3>1, <3>2, OutsideEffect
    <3>5. snap[o].gen <= cr'[c].gen
      BY <3>1, <3>2, <3>3, <3>4
    <3>6. key'[o] = c /\ pc'[o] = pc[o] /\ snap'[o] = snap[o]
      BY <2>1
    <3>7. pc[o] # "dropfin"
      BY <2>2 DEF Attempt
    <3> HIDE DEF c
    <3>8. QED
      BY <3>2, <3>4, <3>5, <3>6, <3>7 DEF AttemptOK
  <2>3. CASE pc[o] \notin Attempt
    <3>1. pc[o] = "dropfin" => key[o] \in Charts
      BY DEF TypeOK
    <3>2. pc[o] = "dropfin" => bucket' = bucket
      BY <3>1, OutsideEffect
    <3>3. QED
      BY <2>1, <2>3, <3>2 DEF AttemptOK
  <2>4. QED
    BY <2>2, <2>3
<1>4. QED
  BY <1>2, <1>3

(* So do the informer, the timers and the process.                         *)
LEMMA ProcessParts ==
  ASSUME TypeOK, NEW o \in Operators,
         \/ \E c \in Charts : Dequeue(o, c) \/ Deliver(o, c) \/ BackoffOver(o, c)
         \/ Resync(o) \/ Crash(o) \/ Restart(o),
         \A x \in Charts : ChartOK(x), AttemptOK(o)
  PROVE  (\A x \in Charts : ChartOK(x)') /\ AttemptOK(o)'
<1>1. UNCHANGED <<cr, bucket>>
  BY DEF Dequeue, Deliver, BackoffOver, Resync, Crash, Restart
<1>2. \A x \in Charts : ChartOK(x)'
  BY <1>1 DEF ChartOK, UpToDate
<1>3. CASE UNCHANGED worker
  BY <1>1, <1>2, <1>3 DEF AttemptOK, worker
<1>4. CASE Crash(o) \/ Restart(o)
  <2>1. pc'[o] \in {"down", "idle"}
    <3>1. pc \in [Operators -> Steps]
      BY DEF TypeOK
    <3>2. QED
      BY <1>4, <3>1 DEF Crash, Restart
  <2>2. QED
    BY <1>2, <2>1 DEF AttemptOK, Attempt
<1>5. ASSUME NEW c \in Charts, Dequeue(o, c), ~UNCHANGED worker PROVE AttemptOK(o)'
  <2>1. pc'[o] \in {"return", "remove", "addfin", "reap", "generating"}
    BY <1>5, DecisionType DEF Dequeue, TypeOK
  <2>2. QED
    BY <2>1 DEF AttemptOK, Attempt
<1>6. QED
  BY <1>2, <1>3, <1>4, <1>5 DEF Dequeue, Deliver, BackoffOver, Resync

(* So do the worker's calls, on the chart in its hands.                    *)
LEMMA WorkerParts ==
  ASSUME TypeOK, Copies, NoStaleDeletion, NEW o \in Operators, WorkerStep(o),
         \A x \in Charts : ChartOK(x), AttemptOK(o)
  PROVE  (\A x \in Charts : ChartOK(x)') /\ AttemptOK(o)'
<1> DEFINE c == key[o]
           x == snap[o]
<1>1. pc[o] \in Calls /\ Effect(o)
  BY WorkerEffect
<1>2. /\ c \in Charts /\ x \in Object /\ x.gen \in Nat /\ Fits(pc[o], x)
      /\ cr \in [Charts -> Entry] /\ bucket \in [Charts -> Artifact \cup {NoArtifact}]
  BY <1>1 DEF TypeOK, Calls, Entry, Copies, CopyFitsCall, Object
<1>3. /\ cr[c] # NoCR => cr[c] \in Object /\ cr[c].gen \in Nat /\ Coherent(cr[c])
      /\ bucket[c] # NoArtifact => bucket[c].gen \in Nat
  BY <1>2 DEF Copies, Entry, Artifact, Object
<1>4. \A y \in Charts \ {c} : cr'[y] = cr[y] /\ bucket'[y] = bucket[y]
  BY <1>1, <1>2 DEF Effect, Stores
<1>5. ASSUME NEW y \in Charts \ {c} PROVE ChartOK(y)'
  <2>1. ChartOK(y) /\ cr'[y] = cr[y] /\ bucket'[y] = bucket[y]
    BY <1>4, <1>5
  <2>2. QED
    BY <2>1 DEF ChartOK, UpToDate
<1>6. ASSUME Idles(o) PROVE AttemptOK(o)'
  BY <1>6 DEF Idles, AttemptOK, Attempt
<1> DEFINE Fine(b, r) ==
             /\ b # NoArtifact => r # NoCR /\ r.fin /\ b.gen <= r.gen
             /\ r # NoCR /\ UpToDate(r) => b # NoArtifact /\ b.spec = r.spec
<1>7. Fine(bucket[c], cr[c])
  BY <1>2 DEF ChartOK
<1>8. ASSUME Fine(bucket'[c], cr'[c]) PROVE \A y \in Charts : ChartOK(y)'
  <2>1. ASSUME NEW y \in Charts, y = c PROVE ChartOK(y)'
    <3>1. Fine(bucket'[y], cr'[y])
      BY <1>8, <2>1
    <3>2. QED
      BY <3>1 DEF ChartOK, UpToDate
  <2>2. QED
    BY <1>5, <2>1
<1> HIDE DEF Fine
<1>9. CASE cr' = cr /\ bucket' = bucket /\ Idles(o)
  BY <1>6, <1>7, <1>8, <1>9
<1>10. CASE pc[o] = "remove" /\ cr' = cr /\ bucket'[c] \in {bucket[c], NoArtifact}
            /\ (Idles(o) \/ (bucket'[c] = NoArtifact /\ GoesOn(o, {"dropfin"}, x)))
  <2>1. ~(cr[c] # NoCR /\ UpToDate(cr[c]))
    BY <1>1, <1>2, <1>10 DEF NoStaleDeletion, Fits
  <2>2. Fine(bucket'[c], cr'[c])
    BY <1>7, <1>10, <2>1 DEF Fine
  <2>3. ASSUME bucket'[c] = NoArtifact, GoesOn(o, {"dropfin"}, x)
        PROVE  AttemptOK(o)'
    BY <2>3 DEF GoesOn, AttemptOK, Attempt
  <2>4. QED
    BY <1>6, <1>8, <1>10, <2>2, <2>3
<1>11. CASE pc[o] = "dropfin" /\ cr'[c] = NoCR /\ bucket' = bucket /\ Idles(o)
  <2>1. bucket[c] = NoArtifact
    BY <1>11 DEF AttemptOK
  <2>2. Fine(bucket'[c], cr'[c])
    BY <1>11, <2>1 DEF Fine
  <2>3. QED
    BY <1>6, <1>8, <1>11, <2>2
<1>12. CASE pc[o] = "addfin" /\ cr[c] = x /\ cr'[c] = [x EXCEPT !.fin = TRUE]
            /\ bucket' = bucket
            /\ (Idles(o) \/ GoesOn(o, {"reap", "generating"}, [x EXCEPT !.fin = TRUE]))
  <2> DEFINE new == [x EXCEPT !.fin = TRUE]
  <2>1. /\ new \in Object /\ new.fin /\ new.gen = x.gen /\ new.spec = x.spec
        /\ new.phase = x.phase /\ new.observed = x.observed
    BY <1>2, FinalizerFields
  <2> HIDE DEF new
  <2>2. Fine(bucket'[c], new)
    <3>1. x # NoCR /\ Fine(bucket'[c], x)
      BY <1>2, <1>7, <1>12
    <3>2. QED
      BY <2>1, <3>1 DEF Fine, UpToDate
  <2>3. Fine(bucket'[c], cr'[c])
    BY <1>12, <2>2 DEF new
  <2>4. pc'[o] \in {"reap", "generating"} => AttemptOK(o)'
    BY DEF AttemptOK, Attempt
  <2>5. QED
    BY <1>6, <1>8, <1>12, <2>3, <2>4 DEF GoesOn
<1>13. CASE pc[o] = "reap" /\ cr[c] # NoCR /\ cr'[c] = Deleted(cr[c])
            /\ bucket' = bucket /\ Idles(o)
  <2> DEFINE new == Deleted(cr[c])
  <2>1. \/ new = NoCR /\ ~cr[c].fin
        \/ new = cr[c]
        \/ /\ new \in Object /\ new.fin /\ new.gen = cr[c].gen + 1
           /\ new.phase = cr[c].phase /\ new.observed = cr[c].observed
    BY <1>3, <1>13, DeletedFields
  <2> HIDE DEF new
  <2>2. ASSUME new = cr[c] \/ (new = NoCR /\ ~cr[c].fin)
        PROVE  Fine(bucket[c], new)
    BY <1>7, <1>13, <2>2 DEF Fine
  <2>3. ASSUME new \in Object, new.fin, new.gen = cr[c].gen + 1,
               new.phase = cr[c].phase, new.observed = cr[c].observed
        PROVE  Fine(bucket[c], new)
    <3>1. ~UpToDate(new)
      BY <1>3, <1>13, <2>3 DEF UpToDate, Coherent, Object
    <3>2. bucket[c] # NoArtifact => bucket[c].gen <= new.gen
      BY <1>3, <1>7, <1>13, <2>3 DEF Fine
    <3>3. QED
      BY <1>7, <1>13, <2>3, <3>1, <3>2 DEF Fine
  <2>4. Fine(bucket'[c], new)
    BY <1>7, <1>13, <2>1, <2>2, <2>3 DEF Fine
  <2>5. QED
    BY <1>6, <1>8, <1>13, <2>4 DEF new
<1>14. CASE pc[o] = "generating" /\ cr[c] = x /\ bucket' = bucket
            /\ cr'[c] = WithStatus(x, "Generating", 0)
            /\ (Idles(o) \/ GoesOn(o, Attempt \ {"ready"}, WithStatus(x, "Generating", 0)))
  <2> DEFINE new == WithStatus(x, "Generating", 0)
  <2>1. /\ new.fin /\ new.gen = x.gen /\ new.spec = x.spec /\ new.phase = "Generating"
        /\ new \in Object
    <3>1. new \in Object
      BY <1>2, WithStatusType DEF Phases
    <3>2. /\ new.fin = x.fin /\ new.gen = x.gen /\ new.spec = x.spec
          /\ new.phase = "Generating"
      BY <1>2, StatusFields
    <3>3. x.fin
      BY <1>2, <1>14 DEF Fits
    <3> HIDE DEF new
    <3>4. QED
      BY <3>1, <3>2, <3>3
  <2> HIDE DEF new
  <2>2. Fine(bucket'[c], new)
    BY <1>7, <1>14, <2>1 DEF Fine, UpToDate
  <2>3. ASSUME GoesOn(o, Attempt \ {"ready"}, new) PROVE AttemptOK(o)'
    <3>1. /\ pc'[o] \in Attempt \ {"ready"} /\ key'[o] = c /\ snap'[o] = new
          /\ cr'[c] = new /\ bucket'[c] = bucket[c] /\ new # NoCR
      BY <1>14, <2>1, <2>3 DEF GoesOn, new
    <3>2. new.gen <= new.gen /\ (bucket[c] # NoArtifact => bucket[c].gen <= new.gen)
      BY <1>2, <1>7, <1>14, <2>1 DEF Fine
    <3>3. QED
      BY <2>1, <3>1, <3>2 DEF AttemptOK, Attempt
  <2>4. QED
    BY <1>6, <1>8, <1>14, <2>2, <2>3 DEF new
<1>15. CASE pc[o] = "upload" /\ cr' = cr
            /\ \/ bucket'[c] = [spec |-> x.spec, gen |-> x.gen] /\ GoesOn(o, {"ready"}, x)
               \/ /\ bucket'[c] \in {bucket[c], [spec |-> x.spec, gen |-> x.gen]}
                  /\ GoesOn(o, {"failWork"}, x)
  <2> DEFINE new == [spec |-> x.spec, gen |-> x.gen]
  <2>1. /\ cr[c] # NoCR /\ cr[c].phase # "Ready" /\ cr[c].fin /\ x.gen <= cr[c].gen
        /\ bucket[c] # NoArtifact => bucket[c].gen <= x.gen
    BY <1>15 DEF AttemptOK, Attempt
  <2>2. new.gen = x.gen
    OBVIOUS
  <2>3. bucket'[c] \in {bucket[c], new}
    BY <1>15
  <2> HIDE DEF new
  <2>4. Fine(bucket'[c], cr'[c])
    BY <1>7, <1>15, <2>1, <2>2, <2>3 DEF Fine, UpToDate
  <2>5. AttemptOK(o)'
    <3>1. /\ pc'[o] \in {"ready", "failWork"} /\ key'[o] = c /\ snap'[o] = x /\ cr' = cr
          /\ pc'[o] = "ready" => bucket'[c] = new
      BY <1>15 DEF GoesOn, new
    <3>2. bucket'[c] # NoArtifact => bucket'[c].gen <= x.gen
      BY <1>2, <2>1, <2>2, <2>3
    <3>3. QED
      BY <2>1, <3>1, <3>2 DEF AttemptOK, Attempt, new
  <2>6. QED
    BY <1>8, <2>4, <2>5
<1>16. CASE pc[o] = "ready" /\ cr[c] = x /\ bucket' = bucket
            /\ cr'[c] = WithStatus(x, "Ready", x.gen) /\ Idles(o)
  <2> DEFINE new == WithStatus(x, "Ready", x.gen)
  <2>1. new.fin = x.fin /\ new.gen = x.gen /\ new.spec = x.spec
    BY <1>2, StatusFields
  <2>2. bucket[c] = [spec |-> x.spec, gen |-> x.gen] /\ x.fin /\ new # NoCR
    <3>1. new \in Object
      BY <1>2, WithStatusType DEF Phases
    <3>2. QED
      BY <1>2, <1>16, <3>1 DEF AttemptOK, Attempt, Fits
  <2>3. bucket[c] # NoArtifact /\ bucket[c].spec = x.spec /\ bucket[c].gen = x.gen
    <3>1. bucket[c] \in Artifact
      BY <1>2, <2>2 DEF Artifact, Object
    <3>2. QED
      BY <2>2, <3>1
  <2>4. x.gen <= x.gen
    BY <1>2
  <2> HIDE DEF new
  <2>5. Fine(bucket'[c], new)
    BY <1>16, <2>1, <2>2, <2>3, <2>4 DEF Fine
  <2>6. QED
    BY <1>6, <1>8, <1>16, <2>5 DEF new
<1>17. CASE pc[o] \in {"failSpec", "failWork"} /\ cr[c] = x /\ bucket' = bucket
            /\ cr'[c] = WithStatus(x, "Failed", 0) /\ Idles(o)
  <2> DEFINE new == WithStatus(x, "Failed", 0)
  <2>1. /\ new.fin = x.fin /\ new.gen = x.gen /\ new.spec = x.spec /\ new.phase = "Failed"
        /\ new \in Object
    <3>1. new \in Object
      BY <1>2, WithStatusType DEF Phases
    <3>2. /\ new.fin = x.fin /\ new.gen = x.gen /\ new.spec = x.spec
          /\ new.phase = "Failed"
      BY <1>2, StatusFields
    <3> HIDE DEF new
    <3>3. QED
      BY <3>1, <3>2
  <2> HIDE DEF new
  <2>2. Fine(bucket'[c], new)
    BY <1>7, <1>17, <2>1 DEF Fine, UpToDate
  <2>3. QED
    BY <1>6, <1>8, <1>17, <2>2 DEF new
<1>18. QED
  BY <1>1, <1>2, <1>9, <1>10, <1>11, <1>12, <1>13, <1>14, <1>15, <1>16, <1>17
  DEF Effect, Stores

-----------------------------------------------------------------------------
(* The theorems.                                                           *)

(* Every step of a system with one operator keeps it exclusive.            *)
LEMMA ExclusiveStep ==
  ASSUME OneOperator, TypeOK, Copies, Exclusive, Moves
  PROVE  Exclusive'
<1>1. /\ \A x \in Charts : ChartOK(x)
      /\ \A o \in Operators : AttemptOK(o)
      /\ NoStaleDeletion
  BY DEF Exclusive, AttemptOwnsChart, CleanedBeforeDrop, ArchiveNotAhead, NoOrphan,
         ReadyIsExact, ChartOK, AttemptOK
<1>2. ASSUME \A x \in Charts : ChartOK(x)', \A o \in Operators : AttemptOK(o)',
             NoStaleDeletion'
      PROVE  Exclusive'
  BY <1>2 DEF Exclusive, AttemptOwnsChart, CleanedBeforeDrop, ArchiveNotAhead, NoOrphan,
         ReadyIsExact, ChartOK, AttemptOK
<1>3. CASE Outside
  BY <1>1, <1>2, <1>3, OutsideParts, OutsideNoStaleDeletion
<1>4. ASSUME NEW o \in Operators, OperatorStep(o) PROVE Exclusive'
  <2>1. CASE WorkerStep(o)
    BY <1>1, <1>2, <2>1, WorkerParts, WorkerNoStaleDeletion DEF OneOperator
  <2>2. CASE ~WorkerStep(o)
    BY <1>1, <1>2, <1>4, <2>2, ProcessParts, ProcessNoStaleDeletion
    DEF OneOperator, OperatorStep
  <2>3. QED
    BY <2>1, <2>2
<1>5. QED
  BY <1>3, <1>4 DEF Moves

(* One operator at a time is exclusive: an attempt works on a chart that   *)
(* nobody else finishes, the archive is gone before the finalizer is       *)
(* dropped, and what is served or stored is what it should be.             *)
THEOREM ExclusiveAlways == OneOperator => (Spec => []Exclusive)
<1> SUFFICES ASSUME OneOperator PROVE Spec => []Exclusive
  OBVIOUS
<1>1. Init => Exclusive
  BY DEF Init, Exclusive, AttemptOwnsChart, CleanedBeforeDrop, NoStaleDeletion,
         ArchiveNotAhead, NoOrphan, ReadyIsExact, Attempt
<1>2. TypeOK /\ Copies /\ Exclusive /\ [Next]_vars => Exclusive'
  BY NextMoves, ExclusiveStep
<1>3. QED
  BY <1>1, <1>2, TypeCorrect, CopiesAlways, PTL DEF Spec

(* With one operator a Ready status that carries the current generation    *)
(* means that the stored archive is of the spec the server holds.          *)
THEOREM ReadyIsExactAlways == OneOperator => (Spec => []ReadyIsExact)
<1>1. Exclusive => ReadyIsExact
  BY DEF Exclusive
<1>2. QED
  BY <1>1, ExclusiveAlways, PTL

(* With one operator no archive outlives the object it was made for.       *)
THEOREM NoOrphanAlways == OneOperator => (Spec => []NoOrphan)
<1>1. Exclusive => NoOrphan
  BY DEF Exclusive
<1>2. QED
  BY <1>1, ExclusiveAlways, PTL

(* A step replaces an archive by one of the same or a later generation.    *)
LEMMA ArchiveAges ==
  ASSUME TypeOK, Copies, Exclusive, Moves, NEW c \in Charts,
         bucket[c] # NoArtifact, bucket'[c] # NoArtifact
  PROVE  bucket'[c].gen >= bucket[c].gen
<1>1. /\ bucket[c].gen \in Nat
      /\ bucket = [x \in Charts |-> bucket[x]]
  BY DEF TypeOK, Artifact
<1>2. CASE bucket'[c] = bucket[c]
  BY <1>1, <1>2
<1>3. ASSUME NEW o \in Operators, WorkerStep(o) PROVE bucket'[c].gen >= bucket[c].gen
  <2>1. Effect(o) /\ pc[o] \in Calls
    BY <1>3, WorkerEffect
  <2>2. key[o] \in Charts /\ snap[o] \in Object /\ snap[o].gen \in Nat
    BY <2>1 DEF TypeOK, Calls, Object
  <2>3. CASE pc[o] = "upload" /\ key[o] = c
             /\ bucket'[c] = [spec |-> snap[o].spec, gen |-> snap[o].gen]
    <3>1. bucket[c].gen <= snap[o].gen
      BY <2>3 DEF Exclusive, AttemptOwnsChart, Attempt
    <3>2. bucket'[c].gen = snap[o].gen
      BY <2>3
    <3>3. QED
      BY <1>1, <2>2, <3>1, <3>2
  <2>4. QED
    BY <1>1, <1>2, <2>1, <2>2, <2>3 DEF Effect, Stores
<1>4. ASSUME Outside \/ \E o \in Operators : OperatorStep(o) /\ ~WorkerStep(o)
      PROVE  UNCHANGED bucket
  BY <1>4 DEF Outside, Edited, OperatorStep, Dequeue, Deliver, BackoffOver, Resync,
       Crash, Restart
<1>5. QED
  BY <1>2, <1>3, <1>4 DEF Moves

(* With one operator an archive is only ever replaced by one of the same   *)
(* or a later generation.                                                  *)
THEOREM NoRollbackAlways == OneOperator => (Spec => NoRollback)
<1>1. TypeOK /\ Copies /\ Exclusive /\ [Next]_vars =>
        [\A c \in Charts : bucket[c] # NoArtifact /\ bucket'[c] # NoArtifact =>
           bucket'[c].gen >= bucket[c].gen]_vars
  BY NextMoves, ArchiveAges
<1>2. QED
  BY <1>1, ExclusiveAlways, TypeCorrect, CopiesAlways, PTL DEF Spec, NoRollback
=============================================================================
