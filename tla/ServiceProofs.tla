--------------------------- MODULE ServiceProofs ---------------------------
(***************************************************************************)
(* Theorems about the backend's requests beside the operator, for every    *)
(* value of the constants.                                                 *)
(***************************************************************************)
EXTENDS Service, ExclusiveProofs

USE ChartsAssumption, BoundsAssumption, NoCRIsNotAnObject, NoArtifactIsNotOne,
    NoRequestIsNotOne

-----------------------------------------------------------------------------
(* What requests do to the system.                                         *)

(* A step of the service, for the operator, is one of its own or a write   *)
(* from outside.                                                           *)
LEMMA ServiceMoves ==
  ASSUME ServiceTypeOK, Copies, [ServiceNext]_svars
  PROVE  Moves
<1>1. TypeOK /\ request \in [Requests -> Call \cup {NoRequest}] /\ cr \in [Charts -> Entry]
  BY DEF ServiceTypeOK, TypeOK, Entry
<1>2. CASE UNCHANGED <<cr, bucket, watch, cache, queue, delayed, worker>>
  BY <1>2 DEF Moves, Outside
<1>3. ASSUME NEW r \in Requests, ApplyGenerated(r) PROVE Moves
  <2> DEFINE c == request[r].chart
             obj == Applied(cr[c], request[r].spec, request[r].exp)
  <2>1. request[r] \in Call /\ request[r].op = "apply"
    BY <1>1, <1>3 DEF ApplyGenerated
  <2>2. c \in Charts /\ request[r].spec \in Specs /\ request[r].exp \in Nat
    BY <2>1 DEF Call
  <2>3. CASE Put(c, obj) /\ current' = StillCurrent(c, obj)
    <3>1. cr'[c] = obj
      BY <1>1, <2>2, <2>3 DEF Put
    <3>2. Edited(c)
      BY <1>3, <2>3, <3>1 DEF ApplyGenerated, Edited
    <3> HIDE DEF c
    <3>3. QED
      BY <1>1, <2>2, <3>1, <3>2, ApplyOutside DEF Moves
  <2>4. CASE UNCHANGED <<cr, watch, current>>
    <3>1. UNCHANGED <<cr, bucket, watch, cache, queue, delayed, worker>>
      BY <1>3, <2>4 DEF ApplyGenerated, worker
    <3>2. QED
      BY <1>2, <3>1
  <2>5. QED
    BY <1>3, <2>3, <2>4 DEF ApplyGenerated
<1>4. ASSUME NEW r \in Requests, RequestStep(r), ~ApplyGenerated(r)
      PROVE  UNCHANGED <<cr, bucket, watch, cache, queue, delayed, worker>>
  BY <1>4 DEF RequestStep, Generate, Read, Fetch, Done, vars, informer
<1>5. ASSUME NEW c \in Charts, Delete(c) PROVE Moves
  BY <1>1, <1>5, EnvironmentOutside DEF Delete, Environment, Moves
<1>6. CASE Tick
  BY <1>1, <1>6, EnvironmentOutside DEF Environment, Moves
<1>7. CASE UNCHANGED svars
  BY <1>2, <1>7 DEF svars, vars, informer
<1>8. QED
  BY <1>2, <1>3, <1>4, <1>5, <1>6, <1>7 DEF ServiceNext, Moves

(* What goes on outside the operators keeps the types.                     *)
LEMMA OutsideType ==
  ASSUME TypeOK, Outside, now' \in Nat, edits' \in Nat, faults' \in Nat
  PROVE  TypeOK'
<1>1. CASE UNCHANGED <<cr, bucket, watch, cache, queue, delayed, worker>>
  BY <1>1 DEF TypeOK, worker
<1>2. ASSUME NEW c \in Charts, cr'[c] \in Entry, Edited(c) PROVE TypeOK'
  <2> DEFINE obj == cr'[c]
  <2>1. obj \in Entry /\ Put(c, obj) /\ current' = StillCurrent(c, obj)
        /\ UNCHANGED <<bucket, cache, queue, delayed, pc, key, snap>>
    BY <1>2 DEF Edited
  <2> HIDE DEF obj
  <2>2. /\ cr' \in [Charts -> Entry]
        /\ watch' \in [Operators -> [Charts -> Seq(Entry)]]
        /\ current' \in [Operators -> BOOLEAN]
    BY <2>1, PutType, StillCurrentType
  <2>3. QED
    BY <2>1, <2>2 DEF TypeOK, Entry
<1>3. QED
  BY <1>1, <1>2 DEF Outside

(* The counters stay numbers.                                              *)
LEMMA CountersType ==
  ASSUME TypeOK, ServiceNext, ~\E o \in Operators : OperatorStep(o)
  PROVE  now' \in Nat /\ edits' \in Nat /\ faults' \in Nat
<1>1. now \in Nat /\ edits \in Nat /\ faults \in Nat
  BY DEF TypeOK
<1>2. ASSUME NEW r \in Requests, RequestStep(r)
      PROVE  now' \in Nat /\ edits' \in Nat /\ faults' \in Nat
  <2>1. CASE \E c \in Charts, spec \in Specs : Generate(r, c, spec)
    BY <1>1, <2>1 DEF Generate
  <2>2. CASE ApplyGenerated(r)
    <3>1. UNCHANGED <<now, edits>> /\ (UNCHANGED faults \/ Fault)
      BY <2>2 DEF ApplyGenerated
    <3>2. QED
      BY <1>1, <3>1 DEF Fault
  <2>3. CASE UNCHANGED vars
    BY <1>1, <2>3 DEF vars
  <2>4. QED
    BY <1>2, <2>1, <2>2, <2>3 DEF RequestStep, Read, Fetch, Done
<1>3. ASSUME NEW c \in Charts, Delete(c)
      PROVE  now' \in Nat /\ edits' \in Nat /\ faults' \in Nat
  BY <1>1, <1>3 DEF Delete, UserDelete, UserWrite
<1>4. CASE Tick
  BY <1>1, <1>4 DEF Tick
<1>5. \/ \E r \in Requests : RequestStep(r)
      \/ \E c \in Charts : Delete(c)
      \/ Tick
  BY DEF ServiceNext
<1>6. QED
  BY <1>2, <1>3, <1>4, <1>5

(* Requests stay requests.                                                 *)
LEMMA RequestType ==
  ASSUME ServiceTypeOK, ServiceNext
  PROVE  request' \in [Requests -> Call \cup {NoRequest}]
<1>1. request \in [Requests -> Call \cup {NoRequest}]
  BY DEF ServiceTypeOK
<1>2. ASSUME NEW r \in Requests, NEW call \in Call \cup {NoRequest}, Becomes(r, call)
      PROVE  request' \in [Requests -> Call \cup {NoRequest}]
  BY <1>1, <1>2 DEF Becomes
<1>3. ASSUME NEW r \in Requests, NEW c \in Charts, NEW spec \in Specs, Generate(r, c, spec)
      PROVE  request' \in [Requests -> Call \cup {NoRequest}]
  <2> DEFINE stamp == IF c \in Anon THEN now + TTL ELSE 0
  <2>1. stamp \in Nat
    BY DEF ServiceTypeOK, TypeOK
  <2>2. Becomes(r, [op |-> "apply", chart |-> c, spec |-> spec, exp |-> stamp])
    BY <1>3 DEF Generate
  <2> HIDE DEF stamp
  <2>3. [op |-> "apply", chart |-> c, spec |-> spec, exp |-> stamp] \in Call
    BY <2>1 DEF Call
  <2>4. QED
    BY <1>2, <2>2, <2>3
<1>4. ASSUME NEW r \in Requests, NEW c \in Charts, NEW op \in {"link", "files"}, Read(r, c, op)
      PROVE  request' \in [Requests -> Call \cup {NoRequest}]
  <2>1. [op |-> op, chart |-> c] \in Call
    BY DEF Call
  <2>2. QED
    BY <1>2, <1>4, <2>1 DEF Read
<1>5. ASSUME NEW r \in Requests, Fetch(r)
      PROVE  request' \in [Requests -> Call \cup {NoRequest}]
  <2> DEFINE c == request[r].chart
  <2>1. c \in Charts
    BY <1>1, <1>5 DEF Fetch, Call
  <2>2. bucket[c] \in Artifact \cup {NoArtifact}
    BY <2>1 DEF ServiceTypeOK, TypeOK
  <2>3. bucket[c] # NoArtifact => [op |-> "served", chart |-> c, archive |-> bucket[c]] \in Call
    BY <2>1, <2>2 DEF Call
  <2>4. QED
    BY <1>2, <1>5, <2>3 DEF Fetch
<1>6. ASSUME NEW r \in Requests, ApplyGenerated(r) \/ Done(r)
      PROVE  request' \in [Requests -> Call \cup {NoRequest}]
  BY <1>2, <1>6 DEF ApplyGenerated, Done
<1>7. CASE UNCHANGED request
  BY <1>1, <1>7
<1>8. QED
  BY <1>3, <1>4, <1>5, <1>6, <1>7 DEF ServiceNext, RequestStep, Delete

(* The specs noted for a reader are specs.                                 *)
LEMMA SinceType ==
  ASSUME ServiceTypeOK, ServiceNext, cr' \in [Charts -> Entry],
         request' \in [Requests -> Call \cup {NoRequest}]
  PROVE  since' \in [Requests -> SUBSET Specs]
<1>1. ASSUME NEW call \in Call PROVE Wanted(cr'[call.chart]) \subseteq Specs
  <2>1. call.chart \in Charts
    BY DEF Call
  <2>2. QED
    BY <2>1 DEF Wanted, Entry, Object
<1>2. since \in [Requests -> SUBSET Specs]
  BY DEF ServiceTypeOK
<1>3. QED
  BY <1>1, <1>2 DEF ServiceNext, Track

(* One step keeps all types.                                               *)
LEMMA ServiceTypeStep ==
  ASSUME ServiceTypeOK, Copies, [ServiceNext]_svars
  PROVE  ServiceTypeOK'
<1>1. CASE ServiceNext
  <2>1. TypeOK'
    <3>1. ASSUME NEW o \in Operators, OperatorStep(o) PROVE TypeOK'
      BY <3>1, WorkerTypeStep, ProcessTypeStep DEF OperatorStep, ServiceTypeOK
    <3>2. CASE ~\E o \in Operators : OperatorStep(o)
      <4>1. now' \in Nat /\ edits' \in Nat /\ faults' \in Nat
        BY <1>1, <3>2, CountersType DEF ServiceTypeOK
      <4>2. Outside
        BY <3>2, ServiceMoves DEF Moves
      <4>3. QED
        BY <4>1, <4>2, OutsideType DEF ServiceTypeOK
    <3>3. QED
      BY <3>1, <3>2
  <2>2. QED
    BY <1>1, <2>1, RequestType, SinceType DEF ServiceTypeOK, TypeOK, Entry
<1>2. CASE UNCHANGED svars
  BY <1>2 DEF svars, vars, informer, worker, ServiceTypeOK, TypeOK
<1>3. QED
  BY <1>1, <1>2

(* Types, and what an operator knows, with the backend's requests beside   *)
(* any number of operators.                                                *)
THEOREM ServiceTypeCorrect == ServiceSpec => [](ServiceTypeOK /\ Copies)
<1>1. ServiceInit => ServiceTypeOK /\ Copies
  <2>1. Init => TypeOK
    BY DEF Init, TypeOK, Steps
  <2>2. Init => Copies
    BY DEF Init, Copies, CopyIsCurrent, CacheCatchesUp, CopyFitsCall, Fits, Attempt
  <2>3. QED
    BY <2>1, <2>2 DEF ServiceInit, ServiceTypeOK
<1>2. ServiceTypeOK /\ Copies /\ [ServiceNext]_svars => ServiceTypeOK' /\ Copies'
  BY ServiceTypeStep, ServiceMoves, CopiesStep DEF ServiceTypeOK
<1>3. QED
  BY <1>1, <1>2, PTL DEF ServiceSpec

-----------------------------------------------------------------------------
(* What is served was wanted.                                              *)

(* The object of c, its archive and every attempt on it carry specs of S.  *)
Within(c, S) ==
  /\ cr[c] # NoCR => cr[c].spec \in S
  /\ bucket[c] # NoArtifact => bucket[c].spec \in S
  /\ \A o \in Operators : pc[o] \in Attempt /\ key[o] = c => snap[o].spec \in S

Reading(r) == request[r] # NoRequest /\ request[r].op \in {"link", "files"}

(* From the gate on, all that a fetch may find under the chart's key, now  *)
(* or when the attempt under way is over, is of a spec noted for it.       *)
Followed ==
  /\ \A r \in Requests : Reading(r) => Within(request[r].chart, since[r])
  /\ ServedWasWanted

(* Archives and attempts take no spec but the object's, so what they carry *)
(* stays within the specs that the object has had.                         *)
LEMMA WithinStep ==
  ASSUME TypeOK, Copies, Moves, NEW c \in Charts, NEW S, NEW T, S \subseteq T,
         Within(c, S), cr'[c] # NoCR => cr'[c].spec \in T
  PROVE  /\ bucket'[c] # NoArtifact => bucket'[c].spec \in T
         /\ \A o \in Operators : pc'[o] \in Attempt /\ key'[o] = c => snap'[o].spec \in T
<1>1. /\ cr \in [Charts -> Entry] /\ bucket \in [Charts -> Artifact \cup {NoArtifact}]
      /\ pc \in [Operators -> Steps] /\ key \in [Operators -> Charts \cup {NoChart}]
      /\ snap \in [Operators -> Entry]
  BY DEF TypeOK, Entry
<1>2. CASE Outside
  <2>1. UNCHANGED <<bucket, pc, key, snap>>
    BY <1>2 DEF Outside, Edited, worker
  <2>2. QED
    BY <2>1 DEF Within
<1>3. ASSUME NEW o \in Operators, WorkerStep(o)
      PROVE  /\ bucket'[c] # NoArtifact => bucket'[c].spec \in T
             /\ \A p \in Operators : pc'[p] \in Attempt /\ key'[p] = c => snap'[p].spec \in T
  <2> DEFINE x == snap[o]
  <2>1. /\ pc[o] \in Calls /\ Effect(o)
        /\ \A p \in Operators \ {o} : pc'[p] = pc[p] /\ key'[p] = key[p] /\ snap'[p] = snap[p]
    BY <1>3, WorkerEffect
  <2>2. key[o] \in Charts /\ x \in Object
    BY <2>1 DEF TypeOK, Calls
  <2>3. bucket'[c] = bucket[c] \/ bucket'[c] = NoArtifact
        \/ (pc[o] = "upload" /\ key[o] = c /\ bucket'[c].spec = x.spec)
    BY <1>1, <2>1, <2>2 DEF Effect, Stores
  <2>4. bucket'[c] # NoArtifact => bucket'[c].spec \in T
    BY <2>3 DEF Within, Attempt
  <2>5. ASSUME pc'[o] \in Attempt, key'[o] = c PROVE snap'[o].spec \in T
    <3>1. \/ /\ pc[o] = "generating" /\ Stores(key[o], WithStatus(x, "Generating", 0))
             /\ GoesOn(o, Attempt \ {"ready"}, WithStatus(x, "Generating", 0))
          \/ /\ pc[o] = "upload" /\ key'[o] = key[o] /\ snap'[o] = x
      BY <2>1, <2>5 DEF Effect, Idles, GoesOn, Attempt
    <3>2. CASE pc[o] = "upload" /\ key'[o] = key[o] /\ snap'[o] = x
      BY <2>5, <3>2 DEF Within, Attempt
    <3>3. CASE Stores(key[o], WithStatus(x, "Generating", 0))
               /\ GoesOn(o, Attempt \ {"ready"}, WithStatus(x, "Generating", 0))
      <4> DEFINE obj == WithStatus(x, "Generating", 0)
      <4>1. obj \in Object
        BY <2>2, WithStatusType DEF Phases
      <4>2. snap'[o] = obj /\ key[o] = c
        BY <2>5, <3>3 DEF GoesOn
      <4> HIDE DEF obj
      <4>3. cr'[c] = obj
        BY <1>1, <3>3, <4>2 DEF Stores, obj
      <4>4. QED
        BY <4>1, <4>2, <4>3, NoCRIsNotAnObject
    <3>4. QED
      BY <3>1, <3>2, <3>3
  <2>6. QED
    BY <2>1, <2>4, <2>5 DEF Within
<1>4. ASSUME NEW o \in Operators, OperatorStep(o), ~WorkerStep(o)
      PROVE  /\ bucket'[c] # NoArtifact => bucket'[c].spec \in T
             /\ \A p \in Operators : pc'[p] \in Attempt /\ key'[p] = c => snap'[p].spec \in T
  <2>1. UNCHANGED bucket
    BY <1>4 DEF OperatorStep, Dequeue, Deliver, BackoffOver, Resync, Crash, Restart
  <2>2. ASSUME NEW p \in Operators, pc'[p] \in Attempt
        PROVE  pc[p] = pc'[p] /\ key'[p] = key[p] /\ snap'[p] = snap[p]
    <3>1. CASE UNCHANGED worker
      BY <3>1 DEF worker
    <3>2. CASE Crash(o) \/ Restart(o)
      BY <1>1, <2>2, <3>2 DEF Crash, Restart, Attempt
    <3>3. CASE \E d \in Charts : Dequeue(o, d)
      <4>1. ASSUME NEW obj PROVE FirstCall(obj) \notin Attempt
        BY DEF FirstCall, AfterFinalizer, Attempt
      <4>2. QED
        BY <1>1, <2>2, <3>3, <4>1 DEF Dequeue, worker
    <3>4. QED
      BY <1>4, <3>1, <3>2, <3>3 DEF OperatorStep, Deliver, BackoffOver, Resync
  <2>3. QED
    BY <2>1, <2>2 DEF Within
<1>5. QED
  BY <1>2, <1>3, <1>4 DEF Moves

(* The gate is open only while the archive is the object's and no attempt  *)
(* is under way.                                                           *)
LEMMA GateCloses ==
  ASSUME TypeOK, Exclusive, NEW c \in Charts, gate(cr[c])
  PROVE  Within(c, {cr[c].spec})
  BY DEF gate, UpToDate, Within, Exclusive, ReadyIsExact, AttemptOwnsChart
(* What becomes of one request in a step.                                  *)
LEMMA RequestChanges ==
  ASSUME ServiceTypeOK, ServiceNext, NEW r \in Requests
  PROVE  \/ request'[r] = request[r]
         \/ request'[r] = NoRequest
         \/ request'[r] # NoRequest /\ request'[r].op = "apply"
         \/ \E c \in Charts, op \in {"link", "files"} :
              /\ Read(r, c, op) /\ request[r] = NoRequest
              /\ request'[r] = [op |-> op, chart |-> c] /\ request'[r] # NoRequest
         \/ /\ Reading(r) /\ bucket[request[r].chart] # NoArtifact
            /\ request'[r] = [op |-> "served", chart |-> request[r].chart,
                              archive |-> bucket[request[r].chart]]
<1>1. request \in [Requests -> Call \cup {NoRequest}]
  BY DEF ServiceTypeOK
<1>2. ASSUME NEW q \in Requests, NEW call, Becomes(q, call)
      PROVE  request'[r] = IF q = r THEN call ELSE request[r]
  BY <1>1, <1>2 DEF Becomes
<1>3. ASSUME NEW q \in Requests, NEW c \in Charts, NEW spec \in Specs, Generate(q, c, spec)
      PROVE  request'[r] = request[r] \/ (request'[r] # NoRequest /\ request'[r].op = "apply")
  <2> DEFINE exp == IF c \in Anon THEN now + TTL ELSE 0
             call == [op |-> "apply", chart |-> c, spec |-> spec, exp |-> exp]
  <2>1. exp \in Nat
    BY DEF ServiceTypeOK, TypeOK
  <2>2. Becomes(q, call)
    BY <1>3 DEF Generate
  <2> HIDE DEF exp
  <2>3. call \in Call /\ call.op = "apply"
    BY <2>1 DEF Call
  <2> HIDE DEF call
  <2>4. QED
    BY <1>2, <2>2, <2>3
<1>4. ASSUME NEW q \in Requests, NEW c \in Charts, NEW op \in {"link", "files"}, Read(q, c, op)
      PROVE  \/ request'[r] = request[r]
             \/ /\ q = r /\ request[r] = NoRequest
                /\ request'[r] = [op |-> op, chart |-> c] /\ request'[r] # NoRequest
  <2>1. [op |-> op, chart |-> c] \in Call
    BY DEF Call
  <2>2. QED
    BY <1>2, <1>4, <2>1 DEF Read
<1>5. ASSUME NEW q \in Requests, Fetch(q)
      PROVE  \/ request'[r] = request[r]
             \/ request'[r] = NoRequest
             \/ /\ Reading(r) /\ bucket[request[r].chart] # NoArtifact
                /\ request'[r] = [op |-> "served", chart |-> request[r].chart,
                                  archive |-> bucket[request[r].chart]]
  BY <1>2, <1>5 DEF Fetch, Reading
<1>6. ASSUME NEW q \in Requests, ApplyGenerated(q) \/ Done(q)
      PROVE  request'[r] = request[r] \/ request'[r] = NoRequest
  BY <1>2, <1>6 DEF ApplyGenerated, Done
<1>7. CASE UNCHANGED request
  BY <1>7
<1>8. QED
  BY <1>3, <1>4, <1>5, <1>6, <1>7 DEF ServiceNext, RequestStep, Delete

(* What is noted for a request while it reads.                             *)
LEMMA NotesGrow ==
  ASSUME ServiceNext, NEW r \in Requests, request'[r] # NoRequest
  PROVE  IF request[r] # NoRequest /\ request[r].op = "served"
         THEN since'[r] = since[r]
         ELSE since'[r] = since[r] \cup Wanted(cr'[request'[r].chart])
  BY DEF ServiceNext, Track

(* A request that reads, or begins to, keeps to the specs noted for it.    *)
LEMMA FollowedStep ==
  ASSUME ServiceTypeOK, Copies, Exclusive, Followed, ServiceNext
  PROVE  Followed'
<1>1. TypeOK /\ Moves /\ request \in [Requests -> Call \cup {NoRequest}]
  BY ServiceMoves DEF ServiceTypeOK
<1>2. SUFFICES ASSUME NEW r \in Requests, request'[r] # NoRequest
               PROVE  /\ Reading(r)' => Within(request[r].chart, since[r])'
                      /\ request'[r].op = "served" => request'[r].archive.spec \in since'[r]
  BY DEF Followed, ServedWasWanted, Reading
<1> DEFINE c == request'[r].chart
           notes == since'[r]
           Goal == /\ cr'[c] # NoCR => cr'[c].spec \in notes
                   /\ bucket'[c] # NoArtifact => bucket'[c].spec \in notes
                   /\ \A o \in Operators : pc'[o] \in Attempt /\ key'[o] = c => snap'[o].spec \in notes
<1>3. Goal => Within(request[r].chart, since[r])'
  BY DEF Within
<1>4. ASSUME NEW S, S \subseteq notes, c \in Charts, Within(c, S),
             cr'[c] # NoCR => cr'[c].spec \in notes
      PROVE  Goal
  <2> HIDE DEF c, notes
  <2>1. QED
    BY <1>1, <1>4, WithinStep
<1> HIDE DEF Goal
<1>5. CASE request'[r] = request[r] /\ request[r].op = "served"
  BY <1>2, <1>5, NotesGrow DEF Followed, ServedWasWanted, Reading
<1>6. CASE request'[r] = request[r] /\ Reading(r)
  <2>1. since[r] \subseteq notes /\ (cr'[c] # NoCR => cr'[c].spec \in notes)
    BY <1>2, <1>6, NotesGrow DEF Reading, Wanted
  <2>2. c \in Charts /\ Within(c, since[r])
    BY <1>1, <1>6 DEF Followed, Reading, Call
  <2>3. QED
    BY <1>3, <1>4, <1>6, <2>1, <2>2 DEF Reading
<1>7. ASSUME NEW x \in Charts, NEW op \in {"link", "files"}, Read(r, x, op),
             request[r] = NoRequest, request'[r] = [op |-> op, chart |-> x]
      PROVE  Goal /\ request'[r].op # "served"
  <2>1. c = x /\ UNCHANGED cr /\ gate(cr[x]) /\ cr[x] # NoCR
    BY <1>7 DEF Read, vars, gate
  <2>2. cr'[c] # NoCR => cr'[c].spec \in notes
    BY <1>2, <1>7, NotesGrow DEF Wanted
  <2>3. Within(c, {cr[x].spec}) /\ {cr[x].spec} \subseteq notes
    BY <1>1, <2>1, <2>2, GateCloses
  <2>4. QED
    BY <1>4, <1>7, <2>1, <2>2, <2>3
<1>8. CASE /\ Reading(r) /\ bucket[request[r].chart] # NoArtifact
           /\ request'[r] = [op |-> "served", chart |-> request[r].chart,
                             archive |-> bucket[request[r].chart]]
  <2>1. bucket[request[r].chart].spec \in since[r]
    BY <1>8 DEF Followed, Within
  <2>2. since[r] \subseteq notes
    BY <1>2, <1>8, NotesGrow DEF Reading
  <2>3. QED
    BY <1>8, <2>1, <2>2 DEF Reading
<1>9. CASE request'[r].op = "apply"
  BY <1>9 DEF Reading
<1>10. CASE request'[r] = request[r] /\ ~Reading(r) /\ request[r].op # "served"
  BY <1>10 DEF Reading
<1>11. QED
  BY <1>2, <1>3, <1>5, <1>6, <1>7, <1>8, <1>9, <1>10, RequestChanges
-----------------------------------------------------------------------------
(* The theorems.                                                           *)

(* Requests between their steps do not disturb what one operator keeps: a  *)
(* stamped expiry that is applied late is an apply like any other.         *)
THEOREM ServiceExclusive == OneOperator => (ServiceSpec => []Exclusive)
<1> SUFFICES ASSUME OneOperator PROVE ServiceSpec => []Exclusive
  OBVIOUS
<1>1. ServiceInit => Exclusive
  BY DEF ServiceInit, Init, Exclusive, AttemptOwnsChart, CleanedBeforeDrop, NoStaleDeletion,
         ArchiveNotAhead, NoOrphan, ReadyIsExact, Attempt
<1>2. ServiceTypeOK /\ Copies /\ Exclusive /\ [ServiceNext]_svars => Exclusive'
  BY ServiceMoves, ExclusiveStep DEF ServiceTypeOK
<1>3. QED
  BY <1>1, <1>2, ServiceTypeCorrect, PTL DEF ServiceSpec

(* What a link or the files endpoint serves was rendered from a spec that  *)
(* the chart had since its gate was passed, whatever was applied, rendered *)
(* or deleted in between; any number of charts and requests.               *)
THEOREM ServedWasWantedAlways == OneOperator => (ServiceSpec => []ServedWasWanted)
<1> SUFFICES ASSUME OneOperator PROVE ServiceSpec => []ServedWasWanted
  OBVIOUS
<1>1. ServiceInit => Followed
  BY DEF ServiceInit, Followed, ServedWasWanted, Reading
<1>2. ServiceTypeOK /\ Copies /\ Exclusive /\ Followed /\ [ServiceNext]_svars => Followed'
  <2>1. CASE ServiceTypeOK /\ Copies /\ Exclusive /\ Followed /\ ServiceNext
    BY <2>1, FollowedStep
  <2>2. CASE Followed /\ UNCHANGED svars
    BY <2>2 DEF svars, vars, worker, Followed, ServedWasWanted, Reading, Within
  <2>3. QED
    BY <2>1, <2>2
<1>3. Followed => ServedWasWanted
  BY DEF Followed
<1>4. QED
  BY <1>1, <1>2, <1>3, ServiceTypeCorrect, ServiceExclusive, PTL DEF ServiceSpec

(* A gate that is open stays open until the spec changes or the chart is   *)
(* deleted, and an archive is never replaced by an older one, requests or  *)
(* not.                                                                    *)
THEOREM ServiceStays == OneOperator => (ServiceSpec => ReadyStays /\ NoRollback)
<1> SUFFICES ASSUME OneOperator PROVE ServiceSpec => ReadyStays /\ NoRollback
  OBVIOUS
<1>1. ServiceTypeOK /\ Copies /\ [ServiceNext]_svars =>
        [\A c \in Charts : cr[c] # NoCR /\ UpToDate(cr[c]) =>
           /\ cr'[c] # NoCR
           /\ UpToDate(cr'[c]) \/ cr'[c].gen > cr[c].gen]_vars
  BY ServiceMoves, ReadyStep DEF ServiceTypeOK
<1>2. ServiceTypeOK /\ Copies /\ Exclusive /\ [ServiceNext]_svars =>
        [\A c \in Charts : bucket[c] # NoArtifact /\ bucket'[c] # NoArtifact =>
           bucket'[c].gen >= bucket[c].gen]_vars
  BY ServiceMoves, ArchiveAges DEF ServiceTypeOK
<1>3. QED
  BY <1>1, <1>2, ServiceTypeCorrect, ServiceExclusive, PTL
  DEF ServiceSpec, ReadyStays, NoRollback
=============================================================================
