--------------------------- MODULE ComposeProofs ---------------------------
(***************************************************************************)
(* However many services a file has, however they are spelled: the         *)
(* subcharts that ComposeImport drafts have distinct names, the loop that  *)
(* looks for a free suffix ends, as there are more suffixes than names,    *)
(* every draft fits the engine and says what the file says of its service, *)
(* and no service is passed over without a word.  DraftInv is the          *)
(* invariant: what holds of a subchart when it is drafted stays true of it *)
(* when others follow.                                                     *)
(***************************************************************************)
EXTENDS ComposeImport, FiniteSetTheorems, FunctionTheorems, WellFoundedInduction, TLAPS

(* A nonempty set of suffixes has a least element.                         *)
LEMMA LeastSuffix ==
  ASSUME NEW T \in SUBSET Nat, T # {}
  PROVE \E i \in T : \A j \in T : ~(j < i)
<1>1. \E i \in T : \A j \in T : <<j, i>> \notin OpToRel(<, Nat)
  BY NatLessThanWellFounded, WFMin
<1>2. PICK i \in T : \A j \in T : <<j, i>> \notin OpToRel(<, Nat)
  BY <1>1
<1>3. \A j \in T : ~(j < i)
  BY <1>2 DEF OpToRel
<1> QED
  BY <1>3

(* deduped finds a suffix that is free.                                    *)
LEMMA FreeSuffix ==
  ASSUME IsFiniteSet(seen), seen \subseteq Seq(Nat), NEW name \in Seq(Nat)
  PROVE \E i \in Suffixes : Free(name, i)
<1> DEFINE T == {i \in Suffixes : Append(name, i) \notin seen}
           f == [i \in Suffixes |-> Append(name, i)]
<1>1. Cardinality(seen) \in Nat
  BY FS_CardinalityType
<1>2. IsFiniteSet(Suffixes) /\ Cardinality(Suffixes) = Cardinality(seen) + 1
  <2>1. 2 \in Int /\ Cardinality(seen) + 2 \in Int /\ ~(2 > Cardinality(seen) + 2)
    BY <1>1
  <2>2. IsFiniteSet(2..(Cardinality(seen) + 2))
        /\ Cardinality(2..(Cardinality(seen) + 2)) = (Cardinality(seen) + 2) - 2 + 1
    BY <2>1, FS_Interval
  <2> QED
    BY <1>1, <2>2 DEF Suffixes
<1>3. Suffixes \subseteq Nat
  BY <1>1 DEF Suffixes
<1>4. \A i, j \in Suffixes : f[i] = f[j] => i = j
  <2> SUFFICES ASSUME NEW i \in Suffixes, NEW j \in Suffixes, Append(name, i) = Append(name, j)
               PROVE i = j
    OBVIOUS
  <2>1. Append(name, i)[Len(name) + 1] = i /\ Append(name, j)[Len(name) + 1] = j
    BY <1>3
  <2> QED
    BY <2>1
<1>5. T # {}
  <2> SUFFICES ASSUME T = {} PROVE FALSE
    OBVIOUS
  <2>1. f \in [Suffixes -> seen]
    OBVIOUS
  <2>2. \E i, j \in Suffixes : i # j /\ f[i] = f[j]
    <3>1. Cardinality(seen) < Cardinality(Suffixes)
      BY <1>1, <1>2
    <3> HIDE DEF f, T
    <3> QED
      BY <1>2, <2>1, <3>1, FS_PigeonHole
  <2> QED
    BY <1>4, <2>2
<1>6. PICK i \in T : \A j \in T : ~(j < i)
  BY <1>3, <1>5, LeastSuffix
<1>7. Free(name, i)
  BY <1>6 DEF Free
<1> QED
  BY <1>6, <1>7

(* A name that deduped gives is a name and is free.                        *)
LEMMA DedupedFree ==
  ASSUME IsFiniteSet(seen), seen \subseteq Seq(Nat), NEW name \in Seq(Nat)
  PROVE deduped(name) \in Seq(Nat) /\ deduped(name) \notin seen
<1>1. CASE name \notin seen
  BY <1>1 DEF deduped
<1>2. CASE name \in seen
  <2> DEFINE i == CHOOSE x \in Suffixes : Free(name, x)
  <2>1. i \in Suffixes /\ Free(name, i)
    BY FreeSuffix
  <2>2. Cardinality(seen) \in Nat
    BY FS_CardinalityType
  <2>3. i \in Nat
    BY <2>1, <2>2 DEF Suffixes
  <2>4. Append(name, i) \in Seq(Nat) /\ Append(name, i) \notin seen
    BY <2>1, <2>3 DEF Free
  <2>5. deduped(name) = Append(name, i)
    BY <1>2 DEF deduped
  <2> QED
    BY <2>4, <2>5
<1> QED
  BY <1>1, <1>2

-----------------------------------------------------------------------------
(* What a drafted row makes of a service, once the engine resolves it.     *)

LEMMA FirstPortIsNumber == \A service \in Services : firstPort(service) \in Nat
<1> SUFFICES ASSUME NEW service \in Services PROVE firstPort(service) \in Nat
  OBVIOUS
<1>1. CASE Listed(service) = {}
  BY <1>1 DEF firstPort
<1>2. CASE Listed(service) # {}
  <2> DEFINE first == CHOOSE i \in Listed(service) : \A j \in Listed(service) : i <= j
  <2>1. PICK n \in 0..MaxPorts : service.ports \in [1..n -> Ports]
    BY DEF Services
  <2>2. Listed(service) \subseteq DOMAIN service.ports /\ DOMAIN service.ports \subseteq Nat
    BY <2>1 DEF Listed
  <2>3. PICK i \in Listed(service) : \A j \in Listed(service) : ~(j < i)
    BY <1>2, <2>2, LeastSuffix
  <2>4. \A j \in Listed(service) : i <= j
    BY <2>2, <2>3
  <2>5. first \in Listed(service)
    BY <2>4
  <2>6. service.ports[first] \in Ports
    BY <2>1, <2>2, <2>5
  <2>7. firstPort(service) = service.ports[first]
    BY <1>2 DEF firstPort
  <2> QED
    BY <2>6, <2>7, ImportAssumption
<1> QED
  BY <1>1, <1>2

LEMMA RowKeys ==
  ASSUME NEW service \in Services, NEW name
  PROVE LET row == Row(service, name)
        IN /\ row.name = name
           /\ row.pattern = IF firstPort(service) > 0 THEN "api-microservice" ELSE "worker"
           /\ DOMAIN row.keys \subseteq {"port", "workload", "scaling"}
           /\ "port" \in DOMAIN row.keys <=> firstPort(service) > 0
           /\ "workload" \in DOMAIN row.keys <=> service.global
           /\ "scaling" \in DOMAIN row.keys <=> service.replicas
           /\ firstPort(service) > 0 => row.keys["port"] = firstPort(service)
           /\ service.global => row.keys["workload"] = "daemonset"
           /\ service.replicas => row.keys["scaling"] = "fixed"
<1>1. service.global \in BOOLEAN /\ service.replicas \in BOOLEAN
  BY DEF Services
<1> QED
  BY <1>1 DEF Row

LEMMA RowResolved ==
  ASSUME NEW service \in Services, NEW name
  PROVE LET t == Engine!ResolveTraits(Row(service, name), Platform)
        IN /\ t.port = firstPort(service)
           /\ t.exposure = IF firstPort(service) > 0 THEN "http" ELSE "none"
           /\ t.workload = IF service.global THEN "daemonset" ELSE "deployment"
           /\ service.replicas \/ service.global => t.scaling = "fixed"
<1> DEFINE row == Row(service, name)
           t == Engine!ResolveTraits(row, Platform)
           p == firstPort(service)
<1>1. p \in Nat
  BY FirstPortIsNumber
<1>2. service.global \in BOOLEAN /\ service.replicas \in BOOLEAN
  BY DEF Services
<1>3. /\ Engine!PATTERNS["api-microservice"].exposure = "http"
      /\ Engine!PATTERNS["api-microservice"].workload = "deployment"
      /\ Engine!PATTERNS["worker"].exposure = "none"
      /\ Engine!PATTERNS["worker"].workload = "deployment"
  BY DEF Engine!PATTERNS, Engine!PatternIds
<1>4. /\ row.pattern = IF p > 0 THEN "api-microservice" ELSE "worker"
      /\ DOMAIN row.keys \subseteq {"port", "workload", "scaling"}
      /\ "port" \in DOMAIN row.keys <=> p > 0
      /\ "workload" \in DOMAIN row.keys <=> service.global
      /\ "scaling" \in DOMAIN row.keys <=> service.replicas
      /\ p > 0 => row.keys["port"] = p
      /\ service.global => row.keys["workload"] = "daemonset"
      /\ service.replicas => row.keys["scaling"] = "fixed"
  BY RowKeys
<1> DEFINE exposure == Engine!Chosen(row, "exposure", Engine!PATTERNS[row.pattern].exposure)
           workload == Engine!Chosen(row, "workload", Engine!PATTERNS[row.pattern].workload)
<1> HIDE DEF row, p
<1>5. exposure = IF p > 0 THEN "http" ELSE "none"
  BY <1>1, <1>3, <1>4 DEF Engine!Chosen
<1>6. workload = IF service.global THEN "daemonset" ELSE "deployment"
  BY <1>2, <1>3, <1>4 DEF Engine!Chosen
<1> HIDE DEF exposure, workload
<1>7. t.exposure = exposure /\ t.workload = workload
  BY DEF Engine!ResolveTraits, exposure, workload
<1>8. t.port = IF exposure = "none" THEN 0
               ELSE Engine!Chosen(row, "port", Engine!defaultPort(exposure))
  BY DEF Engine!ResolveTraits, exposure
<1>9. t.port = p
  BY <1>1, <1>4, <1>5, <1>8 DEF Engine!Chosen
<1>10. t.scaling = Engine!Chosen(row, "scaling", IF workload = "daemonset" THEN "fixed"
                                                ELSE Engine!PATTERNS[row.pattern].scaling)
  BY DEF Engine!ResolveTraits, workload
<1>11. service.replicas \/ service.global => t.scaling = "fixed"
  BY <1>2, <1>4, <1>6, <1>10 DEF Engine!Chosen
<1> QED
  BY <1>5, <1>6, <1>7, <1>9, <1>11 DEF row, p

(* A drafted row chooses nothing that contradicts it but, maybe, a port.   *)
LEMMA RowFits ==
  ASSUME NEW service \in Services, NEW name
  PROVE Engine!Contradictions(Row(service, name), Platform) \subseteq {"port"}
<1> DEFINE row == Row(service, name)
           t == Engine!ResolveTraits(row, Platform)
<1>1. service.global \in BOOLEAN /\ service.replicas \in BOOLEAN
  BY DEF Services
<1>2. /\ DOMAIN row.keys \subseteq {"port", "workload", "scaling"}
      /\ "scaling" \in DOMAIN row.keys <=> service.replicas
  BY RowKeys
<1>3. service.replicas \/ service.global => t.scaling = "fixed"
  BY RowResolved
<1> HIDE DEF row, t
<1>4. \A key \in Engine!Contradictions(row, Platform) :
        /\ key \in DOMAIN row.keys
        /\ \/ key = "port"
           \/ key = "ingress"
           \/ key = "scaling" /\ t.scaling # "fixed"
  BY DEF Engine!Contradictions, t
<1>5. \A key \in Engine!Contradictions(row, Platform) : key = "port"
  BY <1>1, <1>2, <1>3, <1>4
<1> QED
  BY <1>5 DEF row

-----------------------------------------------------------------------------
(* The invariant.                                                          *)

(* Every row that can be drafted.                                          *)
Rows == {Row(service, name) : service \in Services, name \in Seq(Nat)}

(* seen is finite and holds the name of every subchart, and these differ.  *)
Taken ==
  /\ seen \subseteq Seq(Nat) /\ IsFiniteSet(seen)
  /\ subcharts \in Seq(Rows)
  /\ \A i \in DOMAIN subcharts : subcharts[i].name \in seen
  /\ NamesDistinct

LEMMA NamesAreSequences == \A service \in Services : service.key.name \in Seq(Nat)
<1>1. Words \subseteq Nat /\ Numbers \subseteq Nat
  BY ImportAssumption
<1>2. \A w \in Nat : <<w>> \in Seq(Nat)
  OBVIOUS
<1>3. \A w, n \in Nat : <<w, n>> \in Seq(Nat)
  OBVIOUS
<1>4. Names \subseteq Seq(Nat)
  <2> SUFFICES ASSUME NEW name \in Names PROVE name \in Seq(Nat)
    OBVIOUS
  <2>1. CASE name = <<>>
    BY <2>1
  <2>2. CASE \E w \in Words : name = <<w>>
    BY <1>1, <1>2, <2>2
  <2>3. CASE \E w \in Words, n \in Numbers : name = <<w, n>>
    BY <1>1, <1>3, <2>3
  <2>4. name = <<>> \/ (\E w \in Words : name = <<w>>)
          \/ (\E w \in Words, n \in Numbers : name = <<w, n>>)
    BY DEF Names
  <2> QED
    BY <2>1, <2>2, <2>3, <2>4
<1>5. \A service \in Services : service.key \in Keys
  BY DEF Services
<1> QED
  BY <1>4, <1>5 DEF Keys

LEMMA TakenInit == Init => Taken
<1>1. IsFiniteSet({})
  BY FS_EmptySet
<1> QED
  BY <1>1 DEF Init, Taken, NamesDistinct

(* A new subchart takes a name that nothing has.                           *)
LEMMA TakenSubchart ==
  ASSUME Taken, NEW service \in Services, Subchart(service)
  PROVE Taken'
<1> DEFINE name == deduped(service.key.name)
           row == Row(service, name)
           n == Len(subcharts)
<1>1. name \in Seq(Nat) /\ name \notin seen
  BY NamesAreSequences, DedupedFree DEF Taken
<1>2. subcharts' = Append(subcharts, row) /\ seen' = seen \cup {name}
  BY DEF Subchart
<1>3. row \in Rows
  BY <1>1 DEF Rows
<1>4. row.name = name
  BY DEF Row
<1>5. subcharts \in Seq(Rows) /\ n \in Nat /\ DOMAIN subcharts = 1..n
  BY DEF Taken
<1> HIDE DEF name, row
<1>6. subcharts' \in Seq(Rows)
  BY <1>2, <1>3, <1>5
<1>7. /\ DOMAIN subcharts' = 1..(n + 1)
      /\ \A i \in 1..n : subcharts'[i] = subcharts[i]
      /\ subcharts'[n + 1] = row
  BY <1>2, <1>3, <1>5
<1>8. seen' \subseteq Seq(Nat) /\ IsFiniteSet(seen')
  BY <1>1, <1>2, FS_AddElement DEF Taken
<1>9. \A i \in 1..n : subcharts'[i].name \in seen /\ subcharts'[i].name # name
  BY <1>1, <1>5, <1>7 DEF Taken
<1>10. subcharts'[n + 1].name = name
  BY <1>4, <1>7
<1>11. \A i \in DOMAIN subcharts' : subcharts'[i].name \in seen'
  <2> TAKE i \in DOMAIN subcharts'
  <2>1. i \in 1..n \/ i = n + 1
    BY <1>5, <1>7
  <2> QED
    BY <1>2, <1>9, <1>10, <2>1
<1>12. NamesDistinct'
  <2> SUFFICES ASSUME NEW i \in DOMAIN subcharts', NEW j \in DOMAIN subcharts',
                      subcharts'[i].name = subcharts'[j].name
               PROVE i = j
    BY DEF NamesDistinct
  <2>1. (i \in 1..n \/ i = n + 1) /\ (j \in 1..n \/ j = n + 1)
    BY <1>5, <1>7
  <2>2. CASE i \in 1..n /\ j \in 1..n
    BY <1>5, <1>7, <2>2 DEF Taken, NamesDistinct
  <2>3. CASE i = n + 1 \/ j = n + 1
    BY <1>9, <1>10, <2>1, <2>3
  <2> QED
    BY <2>1, <2>2, <2>3
<1> QED
  BY <1>6, <1>8, <1>11, <1>12 DEF Taken

LEMMA TakenStep == Taken /\ [Next]_vars => Taken'
<1> SUFFICES ASSUME Taken, [Next]_vars PROVE Taken'
  OBVIOUS
<1>1. CASE UNCHANGED <<subcharts, seen>>
  BY <1>1 DEF Taken, NamesDistinct
<1>2. CASE Return
  BY <1>1, <1>2 DEF Return
<1>3. ASSUME NEW service \in Services, Import(service) PROVE Taken'
  <2>1. CASE Dependency(service)
    BY <1>1, <2>1 DEF Dependency
  <2>2. CASE Skipped(service)
    BY <1>1, <2>2 DEF Skipped
  <2>3. CASE Subchart(service)
    BY <2>3, TakenSubchart
  <2> QED
    BY <1>3, <2>1, <2>2, <2>3 DEF Import
<1>4. CASE UNCHANGED vars
  BY <1>1, <1>4 DEF vars
<1> QED
  BY <1>2, <1>3, <1>4 DEF Next

(* The draft of any file gives no two subcharts one name: the suffix that  *)
(* deduped appends (compose.go 136-144) never is a name already taken.     *)
THEOREM NamesDistinctAlways == Spec => []NamesDistinct
<1>1. Taken => NamesDistinct
  BY DEF Taken
<1> QED
  BY <1>1, TakenInit, TakenStep, PTL DEF Spec

-----------------------------------------------------------------------------
(* What rows say of their services, and where the services went.           *)

(* Each row was drafted from its service.                                  *)
Drafted ==
  /\ origin \in Seq(Services) /\ Len(origin) = Len(subcharts)
  /\ \A i \in DOMAIN subcharts : subcharts[i] = Row(origin[i], subcharts[i].name)

DraftInv == Taken /\ TypeOK /\ Drafted /\ ServicesAccounted

LEMMA DraftInit == Init => DraftInv
<1> SUFFICES ASSUME Init PROVE DraftInv
  OBVIOUS
<1>1. umbrella \in Names
  BY DEF Init, Keys, Names
<1>2. TypeOK
  BY <1>1 DEF Init, TypeOK
<1>3. Drafted /\ ServicesAccounted
  BY DEF Init, Drafted, ServicesAccounted
<1> QED
  BY <1>2, <1>3, TakenInit DEF DraftInv

(* A new row goes to the end, and those before it stay.                    *)
LEMMA SubchartAppends ==
  ASSUME Taken, Drafted, NEW service \in Services, Subchart(service)
  PROVE LET name == deduped(service.key.name)
            last == Len(subcharts) + 1
        IN /\ DOMAIN subcharts' = 1..last /\ DOMAIN origin' = 1..last /\ last \in Nat
           /\ DOMAIN subcharts = 1..(last - 1) /\ DOMAIN origin = 1..(last - 1)
           /\ \A i \in 1..(last - 1) : subcharts'[i] = subcharts[i] /\ origin'[i] = origin[i]
           /\ subcharts'[last] = Row(service, name) /\ origin'[last] = service
           /\ origin' \in Seq(Services) /\ Len(origin') = Len(subcharts')
           /\ seen' = seen \cup {name}
<1> DEFINE name == deduped(service.key.name)
           row == Row(service, name)
<1>1. /\ subcharts' = Append(subcharts, row) /\ origin' = Append(origin, service)
      /\ seen' = seen \cup {name}
  BY DEF Subchart
<1>2. name \in Seq(Nat)
  BY NamesAreSequences, DedupedFree DEF Taken
<1>3. row \in Rows
  BY <1>2 DEF Rows
<1>4. subcharts \in Seq(Rows)
  BY DEF Taken
<1>5. origin \in Seq(Services) /\ Len(origin) = Len(subcharts)
  BY DEF Drafted
<1> HIDE DEF name, row
<1>6. /\ Len(subcharts) \in Nat
      /\ DOMAIN subcharts = 1..Len(subcharts) /\ DOMAIN origin = 1..Len(subcharts)
      /\ DOMAIN subcharts' = 1..(Len(subcharts) + 1)
      /\ DOMAIN origin' = 1..(Len(subcharts) + 1)
      /\ Len(origin') = Len(subcharts')
  BY <1>1, <1>3, <1>4, <1>5
<1>7. /\ \A i \in 1..Len(subcharts) : subcharts'[i] = subcharts[i] /\ origin'[i] = origin[i]
      /\ subcharts'[Len(subcharts) + 1] = row /\ origin'[Len(subcharts) + 1] = service
      /\ origin' \in Seq(Services)
  BY <1>1, <1>3, <1>4, <1>5
<1>8. (Len(subcharts) + 1) - 1 = Len(subcharts) /\ Len(subcharts) + 1 \in Nat
  BY <1>6
<1> QED
  BY <1>1, <1>6, <1>7, <1>8 DEF name, row

LEMMA DraftedSubchart ==
  ASSUME Taken, Drafted, NEW service \in Services, Subchart(service)
  PROVE Drafted'
<1> DEFINE name == deduped(service.key.name)
           last == Len(subcharts) + 1
<1>1. /\ DOMAIN subcharts' = 1..last /\ last \in Nat /\ DOMAIN subcharts = 1..(last - 1)
      /\ \A i \in 1..(last - 1) : subcharts'[i] = subcharts[i] /\ origin'[i] = origin[i]
      /\ subcharts'[last] = Row(service, name) /\ origin'[last] = service
      /\ origin' \in Seq(Services) /\ Len(origin') = Len(subcharts')
  BY SubchartAppends
<1>2. Row(service, name).name = name
  BY DEF Row
<1> HIDE DEF name, last
<1>3. \A i \in 1..last : i \in 1..(last - 1) \/ i = last
  BY <1>1
<1>4. \A i \in DOMAIN subcharts' : subcharts'[i] = Row(origin'[i], subcharts'[i].name)
  <2> SUFFICES ASSUME NEW i \in DOMAIN subcharts'
               PROVE subcharts'[i] = Row(origin'[i], subcharts'[i].name)
    OBVIOUS
  <2>1. CASE i \in 1..(last - 1)
    BY <1>1, <2>1 DEF Drafted
  <2>2. CASE i = last
    BY <1>1, <1>2, <2>2
  <2> QED
    BY <1>1, <1>3, <2>1, <2>2
<1> QED
  BY <1>1, <1>4 DEF Drafted

(* The service just read is accounted for, and none before is forgotten.   *)
LEMMA AccountedService ==
  ASSUME Taken, Drafted, ServicesAccounted, NEW service \in Services, Import(service)
  PROVE ServicesAccounted'
<1> DEFINE key == service.key
           Kept(k, d) ==
             \/ d \in dependencies
             \/ Note("skipped", k) \in notes
             \/ \E i \in DOMAIN origin :
                  /\ origin[i].key = k
                  /\ Changed(k) => Note("renamed", k) \in notes
                  /\ subcharts[i].name # k.name => Note("deduped", subcharts[i].name) \in notes
<1>1. /\ read' = read \cup {<<key, imageToDependency(service)>>}
      /\ dependencies \subseteq dependencies' /\ notes \subseteq notes'
  BY DEF Import, Dependency, Skipped, Subchart, Reading
<1>2. \A i \in DOMAIN origin :
        i \in DOMAIN origin' /\ origin'[i] = origin[i] /\ subcharts'[i] = subcharts[i]
  <2>1. CASE Subchart(service)
    <3> DEFINE last == Len(subcharts) + 1
    <3>1. /\ DOMAIN origin' = 1..last /\ last \in Nat /\ DOMAIN origin = 1..(last - 1)
          /\ \A i \in 1..(last - 1) : subcharts'[i] = subcharts[i] /\ origin'[i] = origin[i]
      BY <2>1, SubchartAppends
    <3> HIDE DEF last
    <3> QED
      BY <3>1
  <2>2. CASE UNCHANGED <<subcharts, origin>>
    BY <2>2
  <2> QED
    BY <2>1, <2>2 DEF Import, Dependency, Skipped
<1>3. \A r \in read : Kept(r[1], r[2])
  BY DEF ServicesAccounted
<1>4. \A r \in read :
        \/ r[2] \in dependencies'
        \/ Note("skipped", r[1]) \in notes'
        \/ \E i \in DOMAIN origin' :
             /\ origin'[i].key = r[1]
             /\ Changed(r[1]) => Note("renamed", r[1]) \in notes'
             /\ subcharts'[i].name # r[1].name => Note("deduped", subcharts'[i].name) \in notes'
  <2> SUFFICES ASSUME NEW r \in read
               PROVE \/ r[2] \in dependencies'
                     \/ Note("skipped", r[1]) \in notes'
                     \/ \E i \in DOMAIN origin' :
                          /\ origin'[i].key = r[1]
                          /\ Changed(r[1]) => Note("renamed", r[1]) \in notes'
                          /\ subcharts'[i].name # r[1].name
                               => Note("deduped", subcharts'[i].name) \in notes'
    OBVIOUS
  <2>1. CASE r[2] \in dependencies \/ Note("skipped", r[1]) \in notes
    BY <1>1, <2>1
  <2>2. CASE \E i \in DOMAIN origin :
               /\ origin[i].key = r[1]
               /\ Changed(r[1]) => Note("renamed", r[1]) \in notes
               /\ subcharts[i].name # r[1].name => Note("deduped", subcharts[i].name) \in notes
    BY <1>1, <1>2, <2>2
  <2> QED
    BY <1>3, <2>1, <2>2
<1>5. \/ imageToDependency(service) \in dependencies'
      \/ Note("skipped", key) \in notes'
      \/ \E i \in DOMAIN origin' :
           /\ origin'[i].key = key
           /\ Changed(key) => Note("renamed", key) \in notes'
           /\ subcharts'[i].name # key.name => Note("deduped", subcharts'[i].name) \in notes'
  <2>1. CASE Dependency(service)
    BY <2>1 DEF Dependency, imageToDependency
  <2>2. CASE Skipped(service)
    BY <2>2 DEF Skipped
  <2>3. CASE Subchart(service)
    <3> DEFINE name == deduped(key.name)
               last == Len(subcharts) + 1
    <3>1. /\ DOMAIN origin' = 1..last /\ last \in Nat
          /\ subcharts'[last] = Row(service, name) /\ origin'[last] = service
      <4> HIDE DEF last
      <4> QED
        BY <2>3, SubchartAppends DEF last
    <3>2. subcharts'[last].name = name
      BY <3>1 DEF Row
    <3>3. /\ Changed(key) => Note("renamed", key) \in notes'
          /\ name # key.name => Note("deduped", name) \in notes'
      BY <2>3 DEF Subchart
    <3>4. last \in 1..last
      <4>1. last \in Nat /\ last > 0
        BY <3>1 DEF Taken
      <4> HIDE DEF last
      <4> QED
        BY <4>1
    <3> HIDE DEF last, name
    <3> QED
      BY <3>1, <3>2, <3>3, <3>4
  <2> QED
    BY <2>1, <2>2, <2>3 DEF Import
<1>6. \A r \in read' : r \in read \/ (r[1] = key /\ r[2] = imageToDependency(service))
  BY <1>1
<1> HIDE DEF key
<1> QED
  BY <1>4, <1>5, <1>6 DEF ServicesAccounted

LEMMA TypeService ==
  ASSUME Taken, Drafted, TypeOK, NEW service \in Services, Import(service)
  PROVE TypeOK'
<1>1. service.key \in Keys /\ service.image \in DependencyKeys \cup {"other", ""}
  BY DEF Services
<1>2. umbrella' = umbrella /\ read' = read \cup {<<service.key, imageToDependency(service)>>}
  BY DEF Import, Dependency, Skipped, Subchart, Reading
<1>3. imageToDependency(service) \in DependencyKeys \cup {""}
  BY DEF imageToDependency
<1>4. dependencies' \subseteq DependencyKeys
  <2>1. CASE Dependency(service)
    BY <2>1 DEF Dependency, imageToDependency, TypeOK
  <2>2. CASE dependencies' = dependencies
    BY <2>2 DEF TypeOK
  <2> QED
    BY <2>1, <2>2 DEF Import, Skipped, Subchart
<1>5. read' \subseteq Keys \X (DependencyKeys \cup {""})
  <2> DEFINE K == Keys
             D == DependencyKeys \cup {""}
             r == <<service.key, imageToDependency(service)>>
  <2>1. r \in K \X D
    BY <1>1, <1>3
  <2>2. read \subseteq K \X D
    BY DEF TypeOK
  <2> HIDE DEF r
  <2>3. read' = read \cup {r}
    BY <1>2 DEF r
  <2> HIDE DEF K, D
  <2>4. read' \subseteq K \X D
    BY <2>1, <2>2, <2>3
  <2> QED
    BY <2>4 DEF K, D
<1>6. /\ seen' \subseteq Seq(Nat) \ {<<>>}
      /\ \A i \in DOMAIN subcharts' :
           /\ subcharts'[i].name \in seen'
           /\ subcharts'[i].pattern \in {"api-microservice", "worker"}
           /\ DOMAIN subcharts'[i].keys \subseteq {"port", "workload", "scaling"}
  <2>1. CASE UNCHANGED <<subcharts, seen>>
    BY <2>1 DEF TypeOK
  <2>2. CASE Subchart(service)
    <3> DEFINE name == deduped(service.key.name)
               last == Len(subcharts) + 1
    <3>1. /\ DOMAIN subcharts' = 1..last /\ last \in Nat /\ DOMAIN subcharts = 1..(last - 1)
          /\ \A i \in 1..(last - 1) : subcharts'[i] = subcharts[i]
          /\ subcharts'[last] = Row(service, name)
          /\ seen' = seen \cup {name}
      BY <2>2, SubchartAppends
    <3>2. name \in Seq(Nat) \ {<<>>}
      <4>1. service.key.name \in Seq(Nat) /\ service.key.name # <<>>
        BY <2>2, NamesAreSequences DEF Subchart
      <4>2. CASE service.key.name \notin seen
        BY <4>1, <4>2 DEF deduped
      <4>3. CASE service.key.name \in seen
        <5> DEFINE i == CHOOSE x \in Suffixes : Free(service.key.name, x)
        <5>1. i \in Suffixes
          BY <4>1, FreeSuffix DEF Taken
        <5>2. Cardinality(seen) \in Nat
          BY FS_CardinalityType DEF Taken
        <5>3. i \in Nat
          BY <5>1, <5>2 DEF Suffixes
        <5>4. name = Append(service.key.name, i)
          BY <4>3 DEF deduped
        <5> HIDE DEF name, i
        <5> QED
          BY <4>1, <5>3, <5>4
      <4> QED
        BY <4>2, <4>3
    <3>3. /\ Row(service, name).name = name
          /\ Row(service, name).pattern \in {"api-microservice", "worker"}
          /\ DOMAIN Row(service, name).keys \subseteq {"port", "workload", "scaling"}
      BY RowKeys
    <3> HIDE DEF name, last
    <3>4. \A i \in 1..last : i \in 1..(last - 1) \/ i = last
      BY <3>1
    <3> QED
      BY <3>1, <3>2, <3>3, <3>4 DEF TypeOK
  <2> QED
    BY <2>1, <2>2 DEF Import, Dependency, Skipped
<1> QED
  BY <1>2, <1>4, <1>5, <1>6 DEF TypeOK

LEMMA DraftStep == DraftInv /\ [Next]_vars => DraftInv'
<1> SUFFICES ASSUME DraftInv, [Next]_vars PROVE DraftInv'
  OBVIOUS
<1> USE DEF DraftInv
<1>1. Taken'
  BY TakenStep
<1>2. CASE Return
  <2>1. /\ notes \subseteq notes'
        /\ UNCHANGED <<umbrella, subcharts, dependencies, seen, read, origin>>
    BY <1>2 DEF Return
  <2> QED
    BY <1>1, <2>1 DEF TypeOK, Drafted, ServicesAccounted
<1>3. ASSUME NEW service \in Services, Import(service) PROVE DraftInv'
  <2>1. Drafted'
    <3>1. CASE Subchart(service)
      BY <3>1, DraftedSubchart
    <3>2. CASE UNCHANGED <<subcharts, origin>>
      BY <3>2 DEF Drafted
    <3> QED
      BY <1>3, <3>1, <3>2 DEF Import, Dependency, Skipped
  <2> QED
    BY <1>1, <1>3, <2>1, AccountedService, TypeService
<1>4. CASE UNCHANGED vars
  BY <1>1, <1>4 DEF vars, TypeOK, Drafted, ServicesAccounted
<1> QED
  BY <1>2, <1>3, <1>4 DEF Next

LEMMA DraftAlways == Spec => []DraftInv
BY DraftInit, DraftStep, PTL DEF Spec

(* Types: a draft has known patterns, keys and dependencies, and no        *)
(* subchart without a name.                                                *)
THEOREM ComposeTypeCorrect == Spec => []TypeOK
<1>1. DraftInv => TypeOK
  BY DEF DraftInv
<1> QED
  BY <1>1, DraftAlways, PTL

(* The draft of any file is one the server accepts under the default       *)
(* platform, as far as traits go, but for ports that are out of range in   *)
(* the file itself.                                                        *)
THEOREM ImportsFitAlways == Spec => []ImportsFit
<1>1. DraftInv => ImportsFit
  <2> SUFFICES ASSUME DraftInv, NEW i \in DOMAIN subcharts
               PROVE Engine!Contradictions(subcharts[i], Platform) \subseteq {"port"}
    BY DEF ImportsFit
  <2>1. origin[i] \in Services
    BY DEF DraftInv, Taken, Drafted
  <2>2. subcharts[i] = Row(origin[i], subcharts[i].name)
    BY DEF DraftInv, Drafted
  <2> QED
    BY <2>1, <2>2, RowFits
<1> QED
  BY <1>1, DraftAlways, PTL

(* What the engine makes of any drafted subchart is what the file said of  *)
(* its port, its place on every node and its replicas.                     *)
THEOREM HonorsFileAlways == Spec => []HonorsFile
<1>1. DraftInv => HonorsFile
  <2> SUFFICES ASSUME DraftInv, NEW i \in DOMAIN subcharts
               PROVE LET t == Engine!ResolveTraits(subcharts[i], Platform)
                         service == origin[i]
                     IN /\ t.port = firstPort(service)
                        /\ (t.exposure # "none") = (firstPort(service) # 0)
                        /\ service.global => t.workload = "daemonset"
                        /\ service.replicas \/ service.global => t.scaling = "fixed"
    BY DEF HonorsFile
  <2>1. origin[i] \in Services
    BY DEF DraftInv, Taken, Drafted
  <2>2. subcharts[i] = Row(origin[i], subcharts[i].name)
    BY DEF DraftInv, Drafted
  <2> DEFINE row == subcharts[i]
             t == Engine!ResolveTraits(row, Platform)
             p == firstPort(origin[i])
  <2>3. /\ t.port = p /\ t.exposure = IF p > 0 THEN "http" ELSE "none"
        /\ t.workload = IF origin[i].global THEN "daemonset" ELSE "deployment"
        /\ origin[i].replicas \/ origin[i].global => t.scaling = "fixed"
    BY <2>1, <2>2, RowResolved
  <2>4. p \in Nat
    BY <2>1, FirstPortIsNumber
  <2> HIDE DEF t, p
  <2>5. (t.exposure # "none") = (p # 0)
    BY <2>3, <2>4
  <2> QED
    BY <2>3, <2>5 DEF t, p
<1> QED
  BY <1>1, DraftAlways, PTL

(* However many services a file has: none is lost, or renamed without a    *)
(* word.                                                                   *)
THEOREM ServicesAccountedAlways == Spec => []ServicesAccounted
<1>1. DraftInv => ServicesAccounted
  BY DEF DraftInv
<1> QED
  BY <1>1, DraftAlways, PTL
=============================================================================
