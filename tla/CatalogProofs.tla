--------------------------- MODULE CatalogProofs ---------------------------
(***************************************************************************)
(* What the operator implements: the catalog of charts, if there is one    *)
(* operator, and the steps of a chart's life, for any number of them.      *)
(***************************************************************************)
EXTENDS ExclusiveProofs

USE NoCRIsNotAnObject

-----------------------------------------------------------------------------
(* A step concerns one chart.                                              *)

(* Whatever happens, there is a chart such that the objects and archives   *)
(* of all others stay as they are.                                         *)
LEMMA OneChart ==
  ASSUME TypeOK, Copies, Moves, Charts # {}
  PROVE  \E c \in Charts : \A x \in Charts \ {c} : cr'[x] = cr[x] /\ bucket'[x] = bucket[x]
<1>1. CASE UNCHANGED <<cr, bucket>>
  BY <1>1
<1>2. CASE Outside
  <2>1. CASE \E c \in Charts : Edited(c)
    <3>1. PICK c \in Charts : Edited(c)
      BY <2>1
    <3>2. \A x \in Charts \ {c} : cr'[x] = cr[x] /\ bucket'[x] = bucket[x]
      BY <3>1 DEF Edited, Put, TypeOK
    <3>3. QED
      BY <3>2
  <2>2. QED
    BY <1>1, <1>2, <2>1 DEF Outside
<1>3. ASSUME NEW o \in Operators, WorkerStep(o)
      PROVE  \A x \in Charts \ {key[o]} : cr'[x] = cr[x] /\ bucket'[x] = bucket[x]
  <2>1. /\ Effect(o) /\ cr = [x \in Charts |-> cr[x]] /\ bucket = [x \in Charts |-> bucket[x]]
    BY <1>3, WorkerEffect DEF TypeOK
  <2>2. QED
    BY <2>1 DEF Effect, Stores
<1>4. ASSUME NEW o \in Operators, WorkerStep(o) PROVE key[o] \in Charts
  <2>1. pc[o] \in Calls
    BY <1>4, WorkerEffect
  <2>2. QED
    BY <2>1 DEF TypeOK, Calls
<1>5. ASSUME NEW o \in Operators, OperatorStep(o), ~WorkerStep(o)
      PROVE  UNCHANGED <<cr, bucket>>
  BY <1>5 DEF OperatorStep, Resync, Crash, Restart, Dequeue, Deliver, BackoffOver
<1>6. QED
  BY <1>1, <1>2, <1>3, <1>4, <1>5 DEF Moves

-----------------------------------------------------------------------------
(* The catalog of charts.                                                  *)

(* What is served is what is wanted.                                       *)
LEMMA ServesWanted ==
  ASSUME ReadyIsExact, NEW c \in Charts
  PROVE  served[c] \in {NoCR, wanted[c]}
  BY DEF ReadyIsExact, served, wanted

(* A chart that is up to date after a step has the spec it had before.     *)
LEMMA UpdatesKeepSpec ==
  ASSUME TypeOK, Copies, Moves, NEW c \in Charts, cr'[c] # NoCR, UpToDate(cr'[c])
  PROVE  cr[c] # NoCR /\ cr[c].spec = cr'[c].spec
<1>1. CASE cr'[c] = cr[c]
  BY <1>1
<1>2. CASE Outside
  BY <1>2, OutsideUpdates
<1>3. ASSUME NEW o \in Operators, WorkerStep(o), cr'[c] # cr[c]
      PROVE  cr[c] # NoCR /\ cr[c].spec = cr'[c].spec
  <2>1. /\ cr[c] = snap[o] /\ key[o] = c /\ pc[o] = "ready"
        /\ cr'[c] = WithStatus(snap[o], "Ready", snap[o].gen)
    BY <1>3, OnlyReadyUpdates
  <2>2. snap[o] \in Object
    BY <2>1 DEF TypeOK
  <2> DEFINE new == WithStatus(snap[o], "Ready", snap[o].gen)
  <2>3. new.spec = snap[o].spec
    BY <2>2, StatusFields
  <2> HIDE DEF new
  <2>4. QED
    BY <1>3, <2>1, <2>2, <2>3 DEF new
<1>4. ASSUME NEW o \in Operators, OperatorStep(o), ~WorkerStep(o) PROVE cr'[c] = cr[c]
  BY <1>4 DEF OperatorStep, Resync, Crash, Restart, Dequeue, Deliver, BackoffOver
<1>5. QED
  BY <1>1, <1>2, <1>3, <1>4 DEF Moves

(* Every step of the operator, of a user or of the clock is a step of the  *)
(* catalog, or none.                                                       *)
LEMMA CatalogStep ==
  ASSUME TypeOK, TypeOK', Copies, ReadyIsExact, ReadyIsExact', Moves
  PROVE  [Catalog!Next]_<<wanted, served>>
<1>1. CASE Charts = {}
  BY <1>1 DEF wanted, served
<1>2. CASE Charts # {}
  <2>1. PICK c \in Charts : \A x \in Charts \ {c} : cr'[x] = cr[x] /\ bucket'[x] = bucket[x]
    BY <1>2, OneChart
  <2>2. \A x \in Charts \ {c} : wanted'[x] = wanted[x] /\ served'[x] = served[x]
    BY <2>1 DEF wanted, served, UpToDate
  <2>3. /\ wanted = [x \in Charts |-> wanted[x]] /\ wanted' = [x \in Charts |-> wanted'[x]]
        /\ served = [x \in Charts |-> served[x]] /\ served' = [x \in Charts |-> served'[x]]
    BY DEF wanted, served
  <2>4. /\ served[c] \in {NoCR, wanted[c]}
        /\ served'[c] \in {NoCR, wanted'[c]}
    BY ServesWanted DEF ReadyIsExact, served, wanted
  <2>5. CASE wanted'[c] = wanted[c]
    <3>1. CASE served'[c] = served[c]
      BY <2>2, <2>3, <2>5, <3>1
    <3>2. CASE served'[c] # served[c] /\ served'[c] = wanted[c]
      <4>1. Catalog!Serve(c)
        BY <2>2, <2>3, <2>4, <2>5, <3>2 DEF Catalog!Serve
      <4>2. QED
        BY <4>1 DEF Catalog!Next
    <3>3. CASE served'[c] # served[c] /\ served'[c] = NoCR
      <4>1. Catalog!Withdraw(c)
        BY <2>2, <2>3, <2>5, <3>3 DEF Catalog!Withdraw
      <4>2. QED
        BY <4>1 DEF Catalog!Next
    <3>4. QED
      BY <2>4, <2>5, <3>1, <3>2, <3>3
  <2>6. CASE wanted'[c] # wanted[c] /\ cr'[c] # NoCR
    <3>1. cr'[c].spec \in Specs /\ wanted'[c] = cr'[c].spec
      BY <2>6 DEF TypeOK, Object, wanted
    <3>2. ~UpToDate(cr'[c])
      BY <2>6, <3>1, UpdatesKeepSpec DEF wanted
    <3>3. served'[c] = NoCR
      BY <3>2 DEF served, UpToDate
    <3>4. Catalog!Accept(c, cr'[c].spec)
      BY <2>2, <2>3, <2>6, <3>1, <3>3 DEF Catalog!Accept
    <3>5. QED
      BY <3>1, <3>4 DEF Catalog!Next
  <2>7. CASE wanted'[c] # wanted[c] /\ cr'[c] = NoCR
    <3>1. wanted'[c] = NoCR /\ served'[c] = NoCR /\ cr[c] # NoCR
      BY <2>7 DEF wanted, served
    <3>2. ~UpToDate(cr[c])
      BY <2>7, <3>1, ReadyStep
    <3>3. served[c] = NoCR
      BY <3>2 DEF served
    <3>4. Catalog!Forget(c)
      BY <2>2, <2>3, <3>1, <3>3 DEF Catalog!Forget
    <3>5. QED
      BY <3>4 DEF Catalog!Next
  <2>8. QED
    BY <2>5, <2>6, <2>7
<1>3. QED
  BY <1>1, <1>2

(* One operator implements the catalog: through renders that race with     *)
(* applies, failed calls, crashes and stale caches, only the wanted spec   *)
(* is ever served, and an archive is withdrawn only because its spec       *)
(* changed or its chart is going away, before the chart disappears.        *)
THEOREM ImplementsCatalogAlways == OneOperator => (Spec => ImplementsCatalog)
<1> SUFFICES ASSUME OneOperator PROVE Spec => ImplementsCatalog
  OBVIOUS
<1>1. Init => Catalog!Init
  BY DEF Init, Catalog!Init, wanted, served
<1>2. TypeOK /\ TypeOK' /\ Copies /\ ReadyIsExact /\ ReadyIsExact' /\ [Next]_vars
        => [Catalog!Next]_<<wanted, served>>
  BY NextMoves, CatalogStep
<1>3. QED
  BY <1>1, <1>2, TypeCorrect, CopiesAlways, ReadyIsExactAlways, PTL
  DEF Spec, ImplementsCatalog, Catalog!Spec

-----------------------------------------------------------------------------
(* The life of a chart.                                                    *)

(* What GET /charts tells of an object.                                    *)
Told(obj) ==
  IF obj = NoCR THEN NoCR
  ELSE [phase |-> IF obj.phase = "" THEN "Pending" ELSE obj.phase, link |-> UpToDate(obj)]

(* Of an object it tells a phase, and of one that is not up to date that   *)
(* there is no link.                                                       *)
LEMMA ToldParts ==
  ASSUME NEW obj \in Object
  PROVE  /\ Told(obj) # NoCR /\ Told(obj) \in Life!View
         /\ Told(obj).phase = (IF obj.phase = "" THEN "Pending" ELSE obj.phase)
         /\ UpToDate(obj) => Told(obj).link = TRUE
         /\ ~UpToDate(obj) => Told(obj).link = FALSE
<1> DEFINE phase == IF obj.phase = "" THEN "Pending" ELSE obj.phase
           link == UpToDate(obj)
<1>1. phase \in Life!Phases /\ link \in BOOLEAN
  BY DEF Object, Phases, Life!Phases, UpToDate
<1>2. Told(obj) = [phase |-> phase, link |-> link]
  BY DEF Told
<1> HIDE DEF phase
<1>3. link = TRUE \/ link = FALSE
  BY DEF UpToDate
<1>4. (UpToDate(obj) => link = TRUE) /\ (~UpToDate(obj) => link = FALSE)
  BY DEF UpToDate
<1> HIDE DEF link
<1>5. Told(obj) \in Life!View /\ Told(obj).phase = phase /\ Told(obj).link = link
  BY <1>1, <1>2 DEF Life!View
<1>6. Told(obj) # NoCR
  BY <1>5, NoCRIsNotAView
<1>7. QED
  BY <1>4, <1>5, <1>6 DEF phase

(* The steps in the life of a chart, by what was told of it and what is.   *)
LifeChange(v, w) ==
  \/ w = v
  \/ v = NoCR /\ w \in Life!View /\ w.phase = "Pending" /\ w.link = FALSE
  \/ v \in Life!View /\ v.link = FALSE /\ w = NoCR
  \/ /\ v \in Life!View /\ w \in Life!View
     /\ \/ w.phase = v.phase /\ w.link = FALSE
        \/ v.link = FALSE /\ w.phase = "Generating" /\ w.link = FALSE
        \/ v.phase = "Generating" /\ w.phase = "Ready" /\ w.link = TRUE
        \/ v.phase = "Generating" /\ w.phase = "Failed" /\ w.link = v.link

(* A change of one chart of these kinds is a step of ChartLife.            *)
LEMMA LifeOfChange ==
  ASSUME NEW c \in Charts, \A x \in Charts \ {c} : view'[x] = view[x],
         LifeChange(view[c], view'[c])
  PROVE  [Life!Next]_view
<1> DEFINE v == view[c]
           w == view'[c]
<1>1. /\ view = [x \in Charts |-> view[x]] /\ view' = [x \in Charts |-> view'[x]]
      /\ view' = [view EXCEPT ![c] = w]
  BY DEF view
<1>2. v \in Life!View => /\ v # NoCR
                        /\ \A p \in Life!Phases : [v EXCEPT !.phase = p] = [phase |-> p, link |-> v.link]
                        /\ \A l \in BOOLEAN : [v EXCEPT !.link = l] = [phase |-> v.phase, link |-> l]
  BY NoCRIsNotAView DEF Life!View
<1>3. w \in Life!View => w = [phase |-> w.phase, link |-> w.link] /\ w.phase \in Life!Phases
  BY DEF Life!View
<1>4. CASE w = v
  BY <1>1, <1>4
<1>5. CASE v = NoCR /\ w \in Life!View /\ w.phase = "Pending" /\ w.link = FALSE
  BY <1>1, <1>3, <1>5 DEF Life!Next, Life!Accept
<1>6. CASE v \in Life!View /\ v.link = FALSE /\ w = NoCR
  BY <1>1, <1>2, <1>6 DEF Life!Next, Life!Vanish
<1>7. ASSUME v \in Life!View, w \in Life!View PROVE view' = [view EXCEPT ![c] = w] /\ v # NoCR
  BY <1>1, <1>2, <1>7
<1>8. CASE v \in Life!View /\ w \in Life!View /\ w.phase = v.phase /\ w.link = FALSE
  <2>1. w = [v EXCEPT !.link = FALSE] /\ v # NoCR
    BY <1>2, <1>3, <1>8
  <2>2. Life!Withdraw(c)
    BY <1>1, <2>1 DEF Life!Withdraw
  <2>3. QED
    BY <2>2 DEF Life!Next
<1>9. CASE v \in Life!View /\ w \in Life!View
           /\ v.link = FALSE /\ w.phase = "Generating" /\ w.link = FALSE
  <2>1. w = [v EXCEPT !.phase = "Generating"] /\ v # NoCR
    BY <1>2, <1>3, <1>9
  <2>2. Life!Begin(c)
    BY <1>1, <1>9, <2>1 DEF Life!Begin
  <2>3. QED
    BY <2>2 DEF Life!Next
<1>10. CASE v \in Life!View /\ w \in Life!View
            /\ v.phase = "Generating" /\ w.phase = "Ready" /\ w.link = TRUE
  <2>1. w = [phase |-> "Ready", link |-> TRUE] /\ v # NoCR
    BY <1>2, <1>3, <1>10
  <2>2. Life!Finish(c)
    BY <1>1, <1>10, <2>1 DEF Life!Finish, Life!Building
  <2>3. QED
    BY <2>2 DEF Life!Next
<1>11. CASE v \in Life!View /\ w \in Life!View
            /\ v.phase = "Generating" /\ w.phase = "Failed" /\ w.link = v.link
  <2>1. w = [v EXCEPT !.phase = "Failed"] /\ v # NoCR
    BY <1>2, <1>3, <1>11
  <2>2. Life!Fail(c)
    BY <1>1, <1>11, <2>1 DEF Life!Fail, Life!Building
  <2>3. QED
    BY <2>2 DEF Life!Next
<1>12. QED
  BY <1>4, <1>5, <1>6, <1>8, <1>9, <1>10, <1>11 DEF LifeChange

(* What becomes of an object that no other step but an attempt's touches.  *)
LEMMA ToldChanges ==
  ASSUME NEW old \in Object, Coherent(old), NEW new \in Object, new.phase = old.phase,
         \/ new.observed = old.observed /\ new.gen = old.gen
         \/ new.observed = old.observed /\ new.gen = old.gen + 1
  PROVE  LifeChange(Told(old), Told(new))
<1>1. old.gen \in Nat /\ old.observed \in Nat /\ old.observed <= old.gen
  BY DEF Object, Coherent
<1>2. /\ Told(old) \in Life!View /\ Told(new) \in Life!View
      /\ Told(new).phase = Told(old).phase
  BY ToldParts
<1>3. CASE new.gen = old.gen + 1
  <2>1. ~UpToDate(new)
    BY <1>1, <1>3 DEF UpToDate
  <2>2. QED
    BY <1>2, <2>1, ToldParts DEF LifeChange
<1>4. CASE new.gen = old.gen
  <2>1. UpToDate(new) <=> UpToDate(old)
    BY <1>4, <1>1 DEF UpToDate
  <2>2. Told(new) = Told(old)
    <3>1. Told(new).link = Told(old).link
      BY <2>1, ToldParts
    <3>2. QED
      BY <1>2, <3>1 DEF Life!View
  <2>3. QED
    BY <2>2 DEF LifeChange
<1>5. QED
  BY <1>3, <1>4

(* What is told of every chart changes as ChartLife says.                  *)
LEMMA LifeStep ==
  ASSUME TypeOK, Copies, Moves, NEW c \in Charts
  PROVE  LifeChange(Told(cr[c]), Told(cr'[c]))
<1>1. cr \in [Charts -> Entry] /\ (cr[c] # NoCR => cr[c] \in Object /\ Coherent(cr[c]))
  BY DEF TypeOK, Entry, Copies
<1>2. CASE cr'[c] = cr[c]
  BY <1>2 DEF LifeChange
<1>3. ASSUME cr[c] # NoCR, cr'[c] = NoCR, ~UpToDate(cr[c])
      PROVE  LifeChange(Told(cr[c]), Told(cr'[c]))
  <2>1. Told(NoCR) = NoCR
    BY DEF Told
  <2>2. QED
    BY <1>1, <1>3, <2>1, ToldParts DEF LifeChange
<1>4. CASE Outside
  <2>1. CASE cr[c] \in Object /\ ~cr[c].fin /\ cr'[c] = NoCR
    BY <1>1, <1>3, <2>1 DEF Coherent, UpToDate
  <2>2. CASE cr[c] = NoCR /\ cr'[c] \in Object /\ cr'[c].phase = ""
    <3>1. Told(cr[c]) = NoCR /\ ~UpToDate(cr'[c])
      BY <2>2 DEF Told, UpToDate
    <3>2. QED
      BY <2>2, <3>1, ToldParts DEF LifeChange
  <2>3. CASE /\ cr[c] \in Object /\ cr'[c] \in Object
             /\ cr'[c].phase = cr[c].phase /\ cr'[c].observed = cr[c].observed
             /\ cr'[c].gen = cr[c].gen + 1 \/ cr'[c].gen = cr[c].gen
    BY <1>1, <2>3, ToldChanges
  <2>4. QED
    BY <1>2, <1>4, <2>1, <2>2, <2>3, OutsideEffect
<1>5. ASSUME NEW o \in Operators, WorkerStep(o), cr'[c] # cr[c]
      PROVE  LifeChange(Told(cr[c]), Told(cr'[c]))
  <2> DEFINE x == snap[o]
  <2>1. pc[o] \in Calls /\ Effect(o)
    BY <1>5, WorkerEffect
  <2>2. x \in Object /\ Fits(pc[o], x) /\ x.gen \in Nat
    BY <2>1 DEF TypeOK, Calls, Copies, CopyFitsCall, Object
  <2>3. key[o] = c
    BY <1>1, <1>5, <2>1 DEF Effect, Stores
  <2>3a. ASSUME NEW phase \in Phases, NEW observed \in Nat, cr'[c] = WithStatus(x, phase, observed)
         PROVE  /\ cr'[c] \in Object /\ cr'[c].phase = phase
                /\ cr'[c].observed = observed /\ cr'[c].gen = x.gen
    <3> DEFINE new == WithStatus(x, phase, observed)
    <3>1. /\ new \in Object /\ new.phase = phase
          /\ new.observed = observed /\ new.gen = x.gen
      BY <2>2, WithStatusType, StatusFields
    <3> HIDE DEF new
    <3>2. QED
      BY <2>3a, <3>1 DEF new
  <2>4. CASE pc[o] = "dropfin" /\ cr[c] = x /\ cr'[c] = NoCR
    BY <1>1, <1>3, <2>2, <2>4 DEF Fits, Coherent, UpToDate, Object
  <2>5. CASE pc[o] = "addfin" /\ cr[c] = x /\ cr'[c] = [x EXCEPT !.fin = TRUE]
    <3>1. /\ cr'[c] \in Object /\ cr'[c].phase = x.phase
          /\ cr'[c].gen = x.gen /\ cr'[c].observed = x.observed
      BY <2>2, <2>5, FinalizerFields
    <3>2. QED
      BY <1>1, <2>2, <2>5, <3>1, ToldChanges
  <2>6. CASE cr[c] # NoCR /\ cr'[c] = Deleted(cr[c])
    <3> DEFINE new == Deleted(cr[c])
    <3>1. \/ new = NoCR /\ ~cr[c].fin
          \/ new = cr[c]
          \/ /\ new \in Object /\ new.gen = cr[c].gen + 1
             /\ new.phase = cr[c].phase /\ new.observed = cr[c].observed
      BY <1>1, <2>6, DeletedFields
    <3> HIDE DEF new
    <3>2. cr'[c] = new
      BY <2>6 DEF new
    <3>3. CASE new = NoCR /\ ~cr[c].fin
      BY <1>1, <1>3, <2>6, <3>2, <3>3 DEF Coherent, UpToDate
    <3>4. QED
      BY <1>1, <1>5, <2>6, <3>1, <3>2, <3>3, ToldChanges
  <2>7. CASE pc[o] = "generating" /\ cr[c] = x /\ cr'[c] = WithStatus(x, "Generating", 0)
    <3>1. cr'[c] \in Object /\ cr'[c].phase = "Generating" /\ ~UpToDate(cr'[c]) /\ ~UpToDate(x)
      BY <2>2, <2>3a, <2>7 DEF Phases, UpToDate, Fits
    <3>2. QED
      BY <2>2, <2>7, <3>1, ToldParts DEF LifeChange
  <2>8. CASE pc[o] = "ready" /\ cr[c] = x /\ cr'[c] = WithStatus(x, "Ready", x.gen)
    <3>1. cr'[c] \in Object /\ cr'[c].phase = "Ready" /\ UpToDate(cr'[c]) /\ x.phase = "Generating"
      BY <2>2, <2>3a, <2>8 DEF Phases, UpToDate, Fits, Attempt
    <3>2. QED
      BY <2>2, <2>8, <3>1, ToldParts DEF LifeChange
  <2>9. CASE pc[o] \in {"failSpec", "failWork"} /\ cr[c] = x /\ cr'[c] = WithStatus(x, "Failed", 0)
    <3>1. /\ cr'[c] \in Object /\ cr'[c].phase = "Failed" /\ ~UpToDate(cr'[c])
          /\ x.phase = "Generating" /\ ~UpToDate(x)
      BY <2>2, <2>3a, <2>9 DEF Phases, UpToDate, Fits, Attempt
    <3>2. QED
      BY <2>2, <2>9, <3>1, ToldParts DEF LifeChange
  <2>10. QED
    BY <1>1, <1>5, <2>1, <2>3, <2>4, <2>5, <2>6, <2>7, <2>8, <2>9 DEF Effect, Stores
<1>6. ASSUME NEW o \in Operators, OperatorStep(o), ~WorkerStep(o) PROVE cr'[c] = cr[c]
  BY <1>6 DEF OperatorStep, Resync, Crash, Restart, Dequeue, Deliver, BackoffOver
<1>7. QED
  BY <1>2, <1>4, <1>5, <1>6 DEF Moves

(* Any number of operators implement the steps of a chart's life: phase    *)
(* and link change only as the pages that poll them are written for.  (The *)
(* progress ChartLife promises besides, under fairness, is model-checked.) *)
THEOREM LifeStepsAlways == Spec => Life!Spec
<1>1. Init => Life!Init
  BY DEF Init, Life!Init, view
<1>2. TypeOK /\ Copies /\ [Next]_vars => [Life!Next]_view
  <2> SUFFICES ASSUME TypeOK, Copies, [Next]_vars PROVE [Life!Next]_view
    OBVIOUS
  <2>1. \A c \in Charts : view[c] = Told(cr[c]) /\ view'[c] = Told(cr'[c])
    BY DEF view, Told, UpToDate
  <2>2. CASE Charts = {}
    BY <2>2 DEF view
  <2>3. CASE Charts # {}
    <3>1. PICK c \in Charts : \A x \in Charts \ {c} : cr'[x] = cr[x]
      BY <2>3, NextMoves, OneChart
    <3>2. \A x \in Charts \ {c} : view'[x] = view[x]
      BY <2>1, <3>1
    <3>3. LifeChange(view[c], view'[c])
      BY <2>1, NextMoves, LifeStep
    <3>4. QED
      BY <3>2, <3>3, LifeOfChange
  <2>4. QED
    BY <2>2, <2>3
<1>3. QED
  BY <1>1, <1>2, TypeCorrect, CopiesAlways, PTL DEF Spec, Life!Spec
=============================================================================
