----------------------------- MODULE FormProofs -----------------------------
(***************************************************************************)
(* Proofs about the spec editor, for any patterns in use, ports, rows and  *)
(* edits.  Its invariants: one call is under way at most (CallInv), the    *)
(* dialog restores what it found (ScrollInv), form, dialog and calls fit   *)
(* together (FormInv), panels are told apart by their rows' ids            *)
(* (PanelsInv), and no row is contradicted but for its port (RowsLegal).   *)
(* The mirrored functions of form and engine agree on every row.           *)
(***************************************************************************)
EXTENDS SpecForm, FiniteSetTheorems, SequenceTheorems, TLAPS

(* At most one call is under way, the button shows it while the form is    *)
(* there, and a form that is gone has had its call accepted.               *)
CallInv ==
  /\ sending = <<>> \/ \E spec : sending = <<spec>>
  /\ submitting = (sending # <<>> /\ mounted)

LEMMA CallInit == Init => CallInv
<1>1. Init => sending = <<>> /\ submitting = FALSE
  BY DEF Init
<1> QED
  BY <1>1 DEF CallInv

LEMMA CallStep == CallInv /\ [Next]_vars => CallInv'
<1> SUFFICES ASSUME CallInv, [Next]_vars PROVE CallInv'
  OBVIOUS
<1> DEFINE Quiet == UNCHANGED <<request, mounted>>
<1>1. CASE Quiet
  BY <1>1 DEF CallInv, request
<1>2. CASE submit
  <2>1. sending = <<>> /\ mounted' = mounted
    BY <1>2 DEF submit, CallInv, Editable
  <2>2. CASE sending' = Append(sending, Submitted(form)) /\ submitting' = TRUE
    <3>1. sending' = <<Submitted(form)>>
      BY <2>1, <2>2
    <3>2. sending' # <<>>
      BY <3>1
    <3>3. mounted'
      BY <1>2, <2>1 DEF submit, Editable
    <3>4. \E spec : sending' = <<spec>>
      BY <3>1, Zenon
    <3>5. submitting' = (sending' # <<>> /\ mounted')
      BY <2>2, <3>2, <3>3, Zenon
    <3> QED
      BY <3>4, <3>5, Zenon DEF CallInv
  <2>3. CASE UNCHANGED <<sending, submitting>>
    BY <2>1, <2>3 DEF CallInv
  <2> QED
    BY <1>2, <2>2, <2>3 DEF submit
<1>3. CASE SubmitFails
  BY <1>3 DEF SubmitFails, CallInv
<1>4. CASE Accepted
  BY <1>4 DEF Accepted, CallInv
<1>5. CASE Regenerate
  BY <1>5 DEF Regenerate, CallInv
<1>6. ASSUME NEW i \in DOMAIN form.rows, EditRow(i) PROVE Quiet
  BY <1>6 DEF EditRow, toggleExpanded, removeRow, resetTraits, updRow, setTrait, Edit
<1>7. ASSUME NEW name \in Names, setName(name) PROVE Quiet
  BY <1>7 DEF setName, Edit
<1>8. ASSUME NEW rules \in Rules, setRule(rules) PROVE Quiet
  BY <1>8 DEF setRule, Edit
<1>9. ASSUME NEW picker, setPickerFor(picker) PROVE Quiet
  BY <1>9 DEF setPickerFor
<1>10. ASSUME NEW pattern \in Patterns, pickPattern(pattern) PROVE Quiet
  BY <1>10 DEF pickPattern
<1>11. CASE UNCHANGED vars
  BY <1>1, <1>11 DEF vars, request
<1> HIDE DEF Quiet
<1> QED
  BY <1>1, <1>2, <1>3, <1>4, <1>5, <1>6, <1>7, <1>8, <1>9, <1>10, <1>11 DEF Next

(* One form has one call to /generate under way at most: submit is off     *)
(* while one is, and stays so whatever is edited meanwhile.                *)
THEOREM OneCallAlways == Spec => []OneCall
<1>1. CallInv => OneCall
  <2>1. CASE sending = <<>>
    BY <2>1 DEF OneCall
  <2>2. ASSUME NEW spec, sending = <<spec>> PROVE OneCall
    BY <2>2 DEF OneCall
  <2> QED
    BY <2>1, <2>2 DEF CallInv
<1> QED
  BY <1>1, CallInit, CallStep, PTL DEF Spec

-----------------------------------------------------------------------------
(* What the dialog will restore is what the page had before it.            *)
ScrollInv ==
  IF pickerFor # Closed THEN overflow = "hidden" /\ prev = "" ELSE overflow = ""

LEMMA RenderedKeeps == ASSUME ScrollInv, NEW picker, Rendered(picker) PROVE ScrollInv'
  BY DEF ScrollInv, Rendered

LEMMA ScrollStep == ScrollInv /\ [Next]_vars => ScrollInv'
<1> SUFFICES ASSUME ScrollInv, [Next]_vars PROVE ScrollInv'
  OBVIOUS
<1>1. CASE UNCHANGED dialog
  BY <1>1 DEF ScrollInv, dialog
<1>2. ASSUME NEW i \in DOMAIN form.rows, EditRow(i) PROVE UNCHANGED dialog
  BY <1>2 DEF EditRow, toggleExpanded, removeRow, resetTraits, updRow, setTrait, Edit
<1>3. ASSUME NEW name \in Names, setName(name) PROVE UNCHANGED dialog
  BY <1>3 DEF setName, Edit
<1>4. ASSUME NEW rules \in Rules, setRule(rules) PROVE UNCHANGED dialog
  BY <1>4 DEF setRule, Edit
<1>5. ASSUME NEW picker, setPickerFor(picker) PROVE ScrollInv'
  BY <1>5, RenderedKeeps DEF setPickerFor
<1>6. ASSUME NEW pattern \in Patterns, pickPattern(pattern) PROVE ScrollInv'
  BY <1>6, RenderedKeeps DEF pickPattern
<1>7. CASE submit
  BY <1>1, <1>7 DEF submit
<1>8. CASE SubmitFails
  BY <1>8, RenderedKeeps DEF SubmitFails
<1>9. CASE Accepted
  BY <1>9, RenderedKeeps DEF Accepted
<1>10. CASE Regenerate
  BY <1>1, <1>10 DEF Regenerate
<1>11. CASE UNCHANGED vars
  BY <1>1, <1>11 DEF vars
<1> QED
  BY <1>1, <1>2, <1>3, <1>4, <1>5, <1>6, <1>7, <1>8, <1>9, <1>10, <1>11 DEF Next

(* The page scrolls again once the dialog is gone, by a choice or with the *)
(* form under it, and however often its effect ran meanwhile.              *)
THEOREM ScrollLockedAlways == Spec => []ScrollLocked
<1>1. Init => ScrollInv
  BY DEF Init, ScrollInv
<1>2. ScrollInv => ScrollLocked
  BY DEF ScrollInv, ScrollLocked
<1> QED
  BY <1>1, <1>2, ScrollStep, PTL DEF Spec

-----------------------------------------------------------------------------
(* What setTrait leaves of a row.                                          *)

KeyValues == UNION {Values(key) : key \in TRAIT_KEYS}
Keys ==
  {keys \in UNION {[D -> KeyValues] : D \in SUBSET TRAIT_KEYS} :
     \A key \in DOMAIN keys : keys[key] \in Values(key)}
FormRow == [id : Nat, name : Names, pattern : DOMAIN PATTERNS, keys : Keys]

LEMMA KeysDef == ASSUME NEW keys \in Keys
  PROVE /\ DOMAIN keys \subseteq TRAIT_KEYS /\ keys = [key \in DOMAIN keys |-> keys[key]]
        /\ \A key \in DOMAIN keys : keys[key] \in Values(key)
  BY DEF Keys

LEMMA WithoutKeys == ASSUME NEW keys \in Keys, NEW gone
  PROVE /\ Without(keys, gone) \in Keys /\ DOMAIN Without(keys, gone) = DOMAIN keys \ gone
        /\ \A key \in DOMAIN keys \ gone : Without(keys, gone)[key] = keys[key]
<1>1. [key \in DOMAIN keys \ gone |-> keys[key]] \in [DOMAIN keys \ gone -> KeyValues]
  BY KeysDef DEF KeyValues
<1> QED
  BY <1>1, KeysDef DEF Keys, Without

LEMMA WithKeys ==
  ASSUME NEW keys \in Keys, NEW key \in TRAIT_KEYS, NEW value \in Values(key)
  PROVE LET more == With(keys, key, value)
        IN /\ more \in Keys /\ DOMAIN more = {key} \cup DOMAIN keys
           /\ \A k \in DOMAIN more : more[k] = IF k = key THEN value ELSE keys[k]
<1> DEFINE more == With(keys, key, value)
<1>1. DOMAIN more = {key} \cup DOMAIN keys /\ DOMAIN more \in SUBSET TRAIT_KEYS
  BY KeysDef DEF With
<1>2. more = [k \in DOMAIN more |-> IF k = key THEN value ELSE keys[k]]
  BY <1>1 DEF With
<1>3. \A k \in DOMAIN more : (IF k = key THEN value ELSE keys[k]) \in Values(k)
  BY <1>1, KeysDef
<1>4. more \in [DOMAIN more -> KeyValues]
  BY <1>1, <1>2, <1>3 DEF KeyValues
<1> QED
  BY <1>1, <1>2, <1>3, <1>4 DEF Keys

LEMMA ChooseKeys ==
  ASSUME NEW row \in FormRow, NEW rules, NEW key \in TRAIT_KEYS, NEW value \in Values(key)
  PROVE Choose(row, rules, key, value) \in FormRow
<1> DEFINE bare == [row EXCEPT !.keys = Without(row.keys, {key})]
           more == With(bare.keys, key, value)
<1>1. bare \in FormRow /\ bare.keys = Without(row.keys, {key})
  BY WithoutKeys DEF FormRow
<1>2. more \in Keys
  BY <1>1, WithKeys DEF FormRow
<1>3. [bare EXCEPT !.keys = more] \in FormRow
  BY <1>1, <1>2 DEF FormRow
<1> QED
  BY <1>1, <1>3 DEF Choose

LEMMA RegistryTypes == ASSUME NEW id \in DOMAIN PATTERNS
  PROVE /\ PATTERNS[id].workload \in WORKLOADS /\ PATTERNS[id].exposure \in EXPOSURE_OPTIONS
        /\ PATTERNS[id].scaling \in SCALING_OPTIONS
        /\ PATTERNS[id].ingress \in BOOLEAN /\ PATTERNS[id].shared_env \in BOOLEAN
<1>1. id \in PatternIds
  BY DEF PATTERNS
<1>2. PATTERNS[id].workload \in WORKLOADS
  BY <1>1 DEF PATTERNS, WORKLOADS
<1>3. PATTERNS[id].exposure \in EXPOSURE_OPTIONS
  BY <1>1 DEF PATTERNS, EXPOSURE_OPTIONS
<1>4. PATTERNS[id].scaling \in SCALING_OPTIONS
  BY <1>1 DEF PATTERNS, SCALING_OPTIONS
<1>5. PATTERNS[id].ingress \in BOOLEAN
  <2> DEFINE public == {"api-microservice", "edge-gateway", "web-frontend", "realtime-gateway",
                        "webhook-ingest", "admin-dashboard", "custom"}
  <2>1. PATTERNS[id].ingress = (id \in public)
    BY <1>1 DEF PATTERNS
  <2> HIDE DEF public
  <2> QED
    BY <2>1
<1>6. PATTERNS[id].shared_env \in BOOLEAN
  BY <1>1 DEF PATTERNS
<1> QED
  BY <1>2, <1>3, <1>4, <1>5, <1>6

LEMMA ExposureType == ASSUME NEW row \in FormRow
  PROVE Chosen(row, "exposure", PATTERNS[row.pattern].exposure) \in EXPOSURE_OPTIONS
<1>1. row.keys \in Keys /\ row.pattern \in DOMAIN PATTERNS
  BY DEF FormRow
<1>2. "exposure" \in DOMAIN row.keys => row.keys["exposure"] \in EXPOSURE_OPTIONS
  BY <1>1, KeysDef DEF Values
<1> QED
  BY <1>1, <1>2, RegistryTypes DEF Chosen

(* What can contradict the rules in a row: its port, ingress or scaling.   *)
LEMMA ContradictionCases == ASSUME NEW row, NEW rules, NEW k \in Contradictions(row, rules)
  PROVE LET e == ResolveTraits(row, rules)
        IN \/ k = "port"
           \/ k = "ingress" /\ k \in DOMAIN row.keys /\ ~Routable(e.exposure, rules)
           \/ k = "scaling" /\ k \in DOMAIN row.keys /\ e.workload = "daemonset"
  BY DEF Contradictions

(* "keys that no longer apply are dropped, never kept hidden" (setTrait):  *)
(* whatever a row looked like and whatever is chosen, what setTrait leaves *)
(* is a row the server accepts, up to the range of the port, under every   *)
(* set of rules with an ingress.                                           *)
THEOREM TraitSetLegal ==
  ASSUME NEW row \in FormRow, NEW rules, NEW key \in TRAIT_KEYS, NEW value \in Values(key),
         NEW platform, platform.ingress # "none"
  PROVE Contradictions(TraitSet(row, rules, key, value), platform) \subseteq {"port"}
<1> DEFINE next == Choose(row, rules, key, value)
           t == resolveTraits(next, rules)
           gone == {k \in {"ingress"} : t.exposure \in {"none", "tcp"}} \cup
                   {k \in {"port"} : t.exposure = "none"} \cup
                   {k \in {"scaling"} : t.workload = "daemonset"}
           last == [next EXCEPT !.keys = Without(next.keys, gone)]
           e == ResolveTraits(last, platform)
<1>1. TraitSet(row, rules, key, value) = last
  BY DEF TraitSet
<1>2. next \in FormRow
  BY ChooseKeys
<1>3. last.pattern = next.pattern /\ last.keys = Without(next.keys, gone)
  <2> HIDE DEF next, gone
  <2> QED
    BY <1>2 DEF FormRow
<1>4. /\ DOMAIN last.keys = DOMAIN next.keys \ gone
      /\ \A k \in DOMAIN next.keys \ gone : last.keys[k] = next.keys[k]
  <2> HIDE DEF next, gone, last
  <2>1. next.keys \in Keys
    BY <1>2 DEF FormRow
  <2> QED
    <3>1. /\ DOMAIN Without(next.keys, gone) = DOMAIN next.keys \ gone
          /\ \A k \in DOMAIN next.keys \ gone : Without(next.keys, gone)[k] = next.keys[k]
      BY <2>1, WithoutKeys
    <3> QED
      BY <1>3, <3>1
<1>5. e.exposure = t.exposure /\ e.workload = t.workload
  <2> HIDE DEF next, last
  <2>1. "exposure" \notin gone /\ "workload" \notin gone
    OBVIOUS
  <2> QED
    BY <1>3, <1>4, <2>1 DEF ResolveTraits, resolveTraits, Chosen
<1>6. t.exposure \in EXPOSURE_OPTIONS
  BY <1>2, ExposureType DEF resolveTraits
<1>7. "ingress" \in DOMAIN last.keys => Routable(e.exposure, platform)
  <2> HIDE DEF next, last, t, e
  <2> QED
    BY <1>4, <1>5, <1>6 DEF Routable, EXPOSURE_OPTIONS
<1>8. "scaling" \in DOMAIN last.keys => e.workload # "daemonset"
  <2> HIDE DEF next, last, t, e
  <2> QED
    BY <1>4, <1>5
<1> HIDE DEF last
<1>9. ASSUME NEW k \in Contradictions(last, platform) PROVE k = "port"
  BY <1>7, <1>8, ContradictionCases
<1> QED
  BY <1>1, <1>9

LEMMA ChosenTypes == ASSUME NEW row \in FormRow
  PROVE LET d == PATTERNS[row.pattern]
        IN /\ Chosen(row, "workload", d.workload) \in WORKLOADS
           /\ Chosen(row, "exposure", d.exposure) \in EXPOSURE_OPTIONS
           /\ Chosen(row, "scaling", d.scaling) \in SCALING_OPTIONS
           /\ Chosen(row, "ingress", d.ingress) \in BOOLEAN
           /\ \A key \in DOMAIN row.keys \cap {"ingress", "shared_env"} : row.keys[key] \in BOOLEAN
<1>1. row.keys \in Keys /\ row.pattern \in DOMAIN PATTERNS
  BY DEF FormRow
<1>2. \A key \in DOMAIN row.keys : row.keys[key] \in Values(key)
  BY <1>1, KeysDef
<1>3. /\ Values("workload") = WORKLOADS /\ Values("exposure") = EXPOSURE_OPTIONS
      /\ Values("scaling") = SCALING_OPTIONS /\ Values("ingress") = BOOLEAN
      /\ Values("shared_env") = BOOLEAN
  BY DEF Values
<1> DEFINE keys == row.keys
           d == PATTERNS[row.pattern]
<1>4. /\ d.workload \in WORKLOADS /\ d.exposure \in EXPOSURE_OPTIONS
      /\ d.scaling \in SCALING_OPTIONS /\ d.ingress \in BOOLEAN
  BY <1>1, RegistryTypes
<1> HIDE DEF d
<1>5. /\ "workload" \in DOMAIN keys => keys["workload"] \in WORKLOADS
      /\ "exposure" \in DOMAIN keys => keys["exposure"] \in EXPOSURE_OPTIONS
      /\ "scaling" \in DOMAIN keys => keys["scaling"] \in SCALING_OPTIONS
      /\ "ingress" \in DOMAIN keys => keys["ingress"] \in BOOLEAN
      /\ "shared_env" \in DOMAIN keys => keys["shared_env"] \in BOOLEAN
  BY <1>2, <1>3
<1> QED
  BY <1>4, <1>5 DEF Chosen, d

(* The form and the engine make the same of a row that nothing contradicts. *)
LEMMA SameTraits ==
  ASSUME NEW row \in FormRow, NEW rules, Contradictions(row, rules) = {}
  PROVE resolveTraits(row, rules) = ResolveTraits(row, rules)
<1> DEFINE d == PATTERNS[row.pattern]
           keys == row.keys
           t == resolveTraits(row, rules)
           e == ResolveTraits(row, rules)
           workload == Chosen(row, "workload", d.workload)
           exposure == Chosen(row, "exposure", d.exposure)
<1>1. /\ workload \in WORKLOADS /\ exposure \in EXPOSURE_OPTIONS
      /\ "ingress" \in DOMAIN keys => keys["ingress"] \in BOOLEAN
      /\ d.ingress \in BOOLEAN
  BY ChosenTypes, RegistryTypes DEF FormRow
<1>2. /\ e.workload = workload /\ e.exposure = exposure
      /\ e.ingress = Chosen(row, "ingress", d.ingress /\ Routable(exposure, rules))
      /\ e.scaling = Chosen(row, "scaling", IF workload = "daemonset" THEN "fixed" ELSE d.scaling)
  BY DEF ResolveTraits
<1>3. "scaling" \in DOMAIN keys /\ workload = "daemonset" => keys["scaling"] = "fixed"
  BY <1>2 DEF Contradictions, Chosen
<1>4. "ingress" \in DOMAIN keys /\ keys["ingress"] = TRUE => Routable(exposure, rules)
  BY <1>2 DEF Contradictions, Chosen
<1> HIDE DEF d, keys, workload, exposure
<1>5. (IF workload = "daemonset" THEN "fixed" ELSE Chosen(row, "scaling", d.scaling))
        = Chosen(row, "scaling", IF workload = "daemonset" THEN "fixed" ELSE d.scaling)
  BY <1>3 DEF Chosen, keys
<1>6. (Chosen(row, "ingress", d.ingress) /\ Routable(exposure, rules))
        = Chosen(row, "ingress", d.ingress /\ Routable(exposure, rules))
  <2>1. CASE "ingress" \in DOMAIN keys
    <3>1. keys["ingress"] = TRUE \/ keys["ingress"] = FALSE
      BY <1>1, <2>1
    <3>2. /\ Chosen(row, "ingress", d.ingress) = keys["ingress"]
          /\ Chosen(row, "ingress", d.ingress /\ Routable(exposure, rules)) = keys["ingress"]
      BY <2>1 DEF Chosen, keys
    <3> QED
      BY <1>4, <2>1, <3>1, <3>2
  <2>2. CASE "ingress" \notin DOMAIN keys
    BY <2>2 DEF Chosen, keys
  <2> QED
    BY <2>1, <2>2
<1> QED
  BY <1>5, <1>6 DEF resolveTraits, ResolveTraits, d, workload, exposure

(* For resolved traits the engine leaves what the form lists, the ingress  *)
(* under its file's name, and beside it what the form never lists.         *)
LEMMA SameManifests ==
  ASSUME NEW t, t.workload \in WORKLOADS, t.exposure \in EXPOSURE_OPTIONS,
         t.scaling \in SCALING_OPTIONS, t.ingress \in BOOLEAN
  PROVE Templates(t, form.rules) =
          {IF f = "ingress" THEN IngressFile ELSE f : f \in subchartManifests(t)} \cup Unlisted(t)
<1> DEFINE base == {"deployment", "service", "ingress", "hpa", "networkPolicy", "pdb"}
           made1 == applyWorkload(base, t.workload)
           made2 == applyTraits(made1, t)
           made == applyIngress(made2, t, form.rules)
           headless == {f \in {"headless-service"} : t.workload = "statefulset"}
           pdb == {f \in {"pdb"} : t.scaling # "singleton"}
           net == {f \in {"service", "networkPolicy"} : t.exposure # "none"}
           hpa == {f \in {"hpa"} : t.scaling = "auto" /\ t.workload # "daemonset"}
           rest == {t.workload} \cup net \cup hpa
<1>1. made1 = {t.workload, "service", "ingress", "networkPolicy", "pdb"} \cup headless
              \cup {f \in {"hpa"} : t.workload # "daemonset"}
  BY DEF applyWorkload, WORKLOADS
<1> HIDE DEF made1
<1>2. made2 = rest \cup {"ingress"} \cup headless \cup pdb
  BY <1>1 DEF applyTraits, WORKLOADS, SCALING_OPTIONS
<1> HIDE DEF made2
<1>3. "ingress" \notin rest \cup headless \cup pdb
  BY DEF WORKLOADS
<1>4. made = rest \cup headless \cup pdb \cup {f \in {IngressFile} : t.ingress = TRUE}
  <2>1. CASE t.ingress = TRUE
    BY <1>2, <1>3, <2>1 DEF applyIngress, IngressFile
  <2>2. CASE t.ingress = FALSE
    BY <1>2, <1>3, <2>2 DEF applyIngress
  <2> QED
    BY <2>1, <2>2
<1>5. Templates(t, form.rules) = made
  BY DEF Templates, made1, made2
<1> HIDE DEF made
<1>6. subchartManifests(t) = rest \cup {f \in {"ingress"} : t.ingress = TRUE}
  <2>1. CASE t.ingress = TRUE
    BY <2>1 DEF subchartManifests
  <2>2. CASE t.ingress = FALSE
    BY <2>2 DEF subchartManifests
  <2> QED
    BY <2>1, <2>2
<1>7. Unlisted(t) = headless \cup pdb
  BY DEF Unlisted
<1> HIDE DEF rest, headless, pdb
<1>8. {IF f = "ingress" THEN IngressFile ELSE f : f \in subchartManifests(t)} =
        rest \cup {f \in {IngressFile} : t.ingress = TRUE}
  BY <1>3, <1>6
<1> QED
  BY <1>4, <1>5, <1>7, <1>8

-----------------------------------------------------------------------------
(* The rows that have a name, in their order.                              *)

Rank(named, i) == Cardinality({j \in named : j <= i})

LEMMA Interval == ASSUME NEW k \in Nat PROVE IsFiniteSet(1..k) /\ Cardinality(1..k) = k
<1>1. 1 \in Int /\ k \in Int
  OBVIOUS
<1>2. IsFiniteSet(1..k) /\ Cardinality(1..k) = IF 1 > k THEN 0 ELSE k - 1 + 1
  BY <1>1, FS_Interval
<1> QED
  BY <1>2

LEMMA RankType ==
  ASSUME NEW named \in SUBSET Nat, IsFiniteSet(named), NEW i \in named
  PROVE Rank(named, i) \in 1..Cardinality(named)
<1> DEFINE S == {j \in named : j <= i}
<1>1. S \subseteq named /\ i \in S
  OBVIOUS
<1>2. IsFiniteSet(S) /\ Cardinality(S) <= Cardinality(named)
  BY <1>1, FS_Subset
<1>3. Cardinality(S) \in Nat /\ Cardinality(named) \in Nat
  BY <1>2, FS_CardinalityType
<1>4. Cardinality(S) # 0
  BY <1>1, <1>2, FS_EmptySet
<1> QED
  BY <1>2, <1>3, <1>4 DEF Rank

LEMMA RankGrows ==
  ASSUME NEW named \in SUBSET Nat, IsFiniteSet(named), NEW i \in named, NEW j \in named, i < j
  PROVE Rank(named, i) < Rank(named, j)
<1> DEFINE S == {k \in named : k <= i}
           T == {k \in named : k <= j}
<1>0. i \in Nat /\ j \in Nat /\ \A k \in named : k \in Nat
  OBVIOUS
<1>1. S \subseteq T /\ j \in T /\ j \notin S
  <2>1. \A k \in named : k <= i => k <= j
    BY <1>0
  <2>2. j <= j /\ ~(j <= i)
    BY <1>0
  <2> QED
    BY <2>1, <2>2
<1>2. IsFiniteSet(T)
  BY FS_Subset
<1>3. IsFiniteSet(S) /\ Cardinality(S) <= Cardinality(T) /\ (Cardinality(S) = Cardinality(T) => S = T)
  BY <1>1, <1>2, FS_Subset
<1>4. Cardinality(S) \in Nat /\ Cardinality(T) \in Nat
  BY <1>2, <1>3, FS_CardinalityType
<1> QED
  BY <1>1, <1>3, <1>4 DEF Rank

(* Each number up to their number is the rank of one.                      *)
LEMMA NthNamed ==
  ASSUME NEW named \in SUBSET Nat, IsFiniteSet(named), NEW n \in 1..Cardinality(named)
  PROVE Nth(named, n) \in named /\ Rank(named, Nth(named, n)) = n
<1> DEFINE C == Cardinality(named)
           T == (1..C) \ {n}
           f == [i \in named |-> Rank(named, i)]
<1>1. C \in Nat
  BY FS_CardinalityType
<1>2. \E i \in named : Rank(named, i) = n
  <2> SUFFICES ASSUME \A i \in named : Rank(named, i) # n PROVE FALSE
    OBVIOUS
  <2>1. f \in [named -> T]
    BY RankType
  <2>2. IsFiniteSet(T) /\ Cardinality(T) < C
    <3>1. IsFiniteSet(1..C) /\ Cardinality(1..C) = C
      BY <1>1, Interval
    <3>2. IsFiniteSet(T) /\ Cardinality(T) = Cardinality(1..C) - 1
      BY <3>1, FS_RemoveElement
    <3> QED
      BY <1>1, <3>1, <3>2
  <2>3. \E i, j \in named : i # j /\ f[i] = f[j]
    <3> HIDE DEF f, T
    <3> QED
      BY <2>1, <2>2, FS_PigeonHole
  <2>4. PICK i, j \in named : i # j /\ Rank(named, i) = Rank(named, j)
    BY <2>3
  <2>5. i < j \/ j < i
    BY <2>4
  <2>6. Rank(named, i) \in Nat /\ Rank(named, j) \in Nat
    BY RankType, <1>1
  <2> QED
    BY <2>4, <2>5, <2>6, RankGrows
<1> QED
  BY <1>2 DEF Nth, Rank

LEMMA NthRank ==
  ASSUME NEW named \in SUBSET Nat, IsFiniteSet(named), NEW i \in named
  PROVE Nth(named, Rank(named, i)) = i
<1> DEFINE n == Rank(named, i)
           j == Nth(named, n)
<1>1. n \in 1..Cardinality(named) /\ Cardinality(named) \in Nat
  BY RankType, FS_CardinalityType
<1>2. j \in named /\ Rank(named, j) = n
  BY <1>1, NthNamed
<1> HIDE DEF j
<1>3. i \in Nat /\ j \in Nat
  BY <1>2
<1>4. CASE i < j
  <2>1. Rank(named, i) < Rank(named, j)
    BY <1>2, <1>4, RankGrows
  <2> QED
    BY <1>1, <1>2, <2>1
<1>5. CASE j < i
  <2>1. Rank(named, j) < Rank(named, i)
    BY <1>2, <1>5, RankGrows
  <2> QED
    BY <1>1, <1>2, <2>1
<1>6. i # j => i < j \/ j < i
  BY <1>3
<1> QED
  BY <1>4, <1>5, <1>6 DEF j

-----------------------------------------------------------------------------
(* Specs and forms.                                                        *)

SetKeys == {keys \in Keys : \A key \in DOMAIN keys : IsSet(key, keys[key])}
SpecRow == [name : Names, pattern : Patterns, keys : SetKeys]
FormRows == [id : 1..MaxRows, name : Names, pattern : Patterns, keys : SetKeys]
Specs == [name : Names, rules : Rules, rows : Seq(SpecRow)]
Forms == [name : Names, rules : Rules, rows : Seq(FormRows)]

(* What the form sends.                                                    *)
Sent ==
  {spec \in Specs : /\ Len(spec.rows) <= MaxRows
                    /\ \A i \in DOMAIN spec.rows : spec.rows[i].name # Blank}

LEMMA RowsAreFormRows == FormRows \subseteq FormRow
BY FormAssumption DEF FormRows, FormRow, SetKeys

LEMMA NamedRows ==
  ASSUME NEW rows, NEW n \in Nat, DOMAIN rows = 1..n
  PROVE /\ Named(rows) \in SUBSET Nat /\ Named(rows) \subseteq 1..n /\ IsFiniteSet(Named(rows))
        /\ Cardinality(Named(rows)) \in Nat /\ Cardinality(Named(rows)) <= n
<1>1. IsFiniteSet(1..n) /\ Cardinality(1..n) = n
  BY Interval
<1>2. Named(rows) \subseteq 1..n
  BY DEF Named
<1>3. IsFiniteSet(Named(rows)) /\ Cardinality(Named(rows)) <= n
  BY <1>1, <1>2, FS_Subset
<1> QED
  BY <1>2, <1>3, FS_CardinalityType

LEMMA SeqOf ==
  ASSUME NEW S, NEW n \in Nat, NEW f, f \in [1..n -> S]
  PROVE f \in Seq(S) /\ Len(f) = n /\ DOMAIN f = 1..n
BY SeqDef, LenProperties

LEMMA SubmittedSent ==
  ASSUME NEW f \in Forms, Len(f.rows) <= MaxRows
  PROVE Submitted(f) \in Sent
<1> DEFINE n == Len(f.rows)
           named == Named(f.rows)
           m == Cardinality(named)
           rows == [k \in 1..m |-> cleanSubchart(f.rows[Nth(named, k)])]
<1>1. f.rows \in Seq(FormRows) /\ n \in Nat /\ DOMAIN f.rows = 1..n
  BY DEF Forms
<1>2. /\ named \in SUBSET Nat /\ named \subseteq 1..n /\ IsFiniteSet(named)
      /\ m \in Nat /\ m <= n
  BY <1>1, NamedRows
<1>3. \A k \in 1..m : Nth(named, k) \in named
  BY <1>2, NthNamed
<1>4. \A i \in named : f.rows[i].name # Blank
  BY DEF Named
<1>5. \A i \in named : cleanSubchart(f.rows[i]) \in SpecRow /\ cleanSubchart(f.rows[i]).name # Blank
  <2> SUFFICES ASSUME NEW i \in named
               PROVE cleanSubchart(f.rows[i]) \in SpecRow /\ cleanSubchart(f.rows[i]).name # Blank
    OBVIOUS
  <2>1. f.rows[i].name # Blank
    BY <1>4
  <2>2. f.rows[i] \in FormRows
    BY <1>1, <1>2
  <2> HIDE DEF named
  <2> QED
    BY <2>1, <2>2 DEF cleanSubchart, FormRows, SpecRow
<1> HIDE DEF named, m
<1>6. rows \in [1..m -> SpecRow] /\ \A k \in 1..m : rows[k].name # Blank
  BY <1>3, <1>5
<1>7. Submitted(f) = [name |-> f.name, rules |-> f.rules, rows |-> rows]
  BY DEF Submitted, named, m
<1> HIDE DEF rows
<1>8. rows \in Seq(SpecRow) /\ Len(rows) = m /\ DOMAIN rows = 1..m
  BY <1>2, <1>6, SeqOf
<1>9. Submitted(f) \in Specs /\ Submitted(f).rows = rows
  BY <1>7, <1>8 DEF Forms, Specs
<1>10. m <= MaxRows
  BY <1>1, <1>2, FormAssumption
<1> QED
  BY <1>6, <1>8, <1>9, <1>10 DEF Sent

LEMMA Normalized ==
  ASSUME NEW spec \in Specs, Len(spec.rows) <= MaxRows
  PROVE LET f == normalizeSpec(spec)
        IN /\ f \in Forms /\ DOMAIN f.rows = DOMAIN spec.rows /\ Len(f.rows) = Len(spec.rows)
           /\ f.name = spec.name /\ f.rules = spec.rules
           /\ \A i \in DOMAIN spec.rows :
                /\ f.rows[i].id = i /\ f.rows[i].name = spec.rows[i].name
                /\ f.rows[i].pattern = spec.rows[i].pattern /\ f.rows[i].keys = spec.rows[i].keys
<1> DEFINE n == Len(spec.rows)
           rows == [i \in 1..n |-> [id |-> i, name |-> spec.rows[i].name,
                                    pattern |-> spec.rows[i].pattern, keys |-> spec.rows[i].keys]]
<1>1. spec.rows \in Seq(SpecRow) /\ n \in Nat /\ DOMAIN spec.rows = 1..n /\ MaxRows \in Nat
  BY FormAssumption DEF Specs
<1>2. \A i \in 1..n : spec.rows[i] \in SpecRow
  BY <1>1
<1>3. rows \in [1..n -> FormRows]
  BY <1>1, <1>2 DEF SpecRow, FormRows
<1>4. normalizeSpec(spec) = [name |-> spec.name, rules |-> spec.rules, rows |-> rows]
  BY <1>1 DEF normalizeSpec
<1>5. \A i \in 1..n : /\ rows[i].id = i /\ rows[i].name = spec.rows[i].name
                      /\ rows[i].pattern = spec.rows[i].pattern /\ rows[i].keys = spec.rows[i].keys
  OBVIOUS
<1> HIDE DEF rows
<1>6. rows \in Seq(FormRows) /\ Len(rows) = n /\ DOMAIN rows = 1..n
  BY <1>1, <1>3, SeqOf
<1> QED
  BY <1>1, <1>4, <1>5, <1>6 DEF Specs, Forms

(* A spec that was sent comes through the form as it was.                  *)
LEMMA SentAgain ==
  ASSUME NEW spec \in Sent
  PROVE Submitted(normalizeSpec(spec)) = spec
<1> DEFINE f == normalizeSpec(spec)
           n == Len(spec.rows)
           named == Named(f.rows)
           rows == [k \in 1..Cardinality(named) |-> cleanSubchart(f.rows[Nth(named, k)])]
<1>1. spec \in Specs /\ n <= MaxRows /\ \A i \in DOMAIN spec.rows : spec.rows[i].name # Blank
  BY DEF Sent
<1>2. spec.rows \in Seq(SpecRow) /\ n \in Nat /\ DOMAIN spec.rows = 1..n
  BY <1>1 DEF Specs
<1>3. /\ DOMAIN f.rows = 1..n /\ f.name = spec.name /\ f.rules = spec.rules
      /\ \A i \in 1..n :
           /\ f.rows[i].name = spec.rows[i].name
           /\ f.rows[i].pattern = spec.rows[i].pattern /\ f.rows[i].keys = spec.rows[i].keys
  BY <1>1, <1>2, Normalized
<1> HIDE DEF f
<1>4. named = 1..n
  BY <1>1, <1>2, <1>3 DEF Named
<1>5. \A i \in 0..n : IsFiniteSet(1..i) /\ Cardinality(1..i) = i
  BY <1>2, Interval
<1> HIDE DEF named
<1>6. \A i \in 1..n : Rank(named, i) = i
  <2> SUFFICES ASSUME NEW i \in 1..n PROVE Rank(named, i) = i
    OBVIOUS
  <2>1. {j \in named : j <= i} = 1..i
    BY <1>2, <1>4
  <2>2. Rank(named, i) = Cardinality(1..i)
    BY <2>1 DEF Rank
  <2>3. i \in 0..n
    BY <1>2
  <2> QED
    BY <1>5, <2>2, <2>3
<1>7. Cardinality(named) = n /\ IsFiniteSet(named) /\ named \in SUBSET Nat
  BY <1>2, <1>4, <1>5
<1>8. \A i \in 1..n : Nth(named, i) = i
  <2> SUFFICES ASSUME NEW i \in 1..n PROVE Nth(named, i) = i
    OBVIOUS
  <2>1. Nth(named, Rank(named, i)) = i
    BY <1>4, <1>7, NthRank
  <2> QED
    BY <1>6, <2>1
<1>9. \A i \in 1..n : cleanSubchart(f.rows[i]) = spec.rows[i]
  <2> SUFFICES ASSUME NEW i \in 1..n PROVE cleanSubchart(f.rows[i]) = spec.rows[i]
    OBVIOUS
  <2>1. spec.rows[i] \in SpecRow
    BY <1>2
  <2> DEFINE row == spec.rows[i]
  <2>2. cleanSubchart(f.rows[i]) = [name |-> row.name, pattern |-> row.pattern, keys |-> row.keys]
    BY <1>3 DEF cleanSubchart
  <2> HIDE DEF row
  <2>3. row \in SpecRow => row = [name |-> row.name, pattern |-> row.pattern, keys |-> row.keys]
    BY DEF SpecRow
  <2> QED
    BY <2>1, <2>2, <2>3 DEF row
<1>10. rows = spec.rows
  BY <1>2, <1>7, <1>8, <1>9
<1>11. Submitted(f) = [name |-> f.name, rules |-> f.rules, rows |-> rows]
  BY DEF Submitted, named
<1> HIDE DEF rows
<1> QED
  BY <1>1, <1>3, <1>10, <1>11 DEF Specs, f

-----------------------------------------------------------------------------
(* Rows that are replaced, removed and added.                              *)

LEMMA RowsReplaced ==
  ASSUME NEW f \in Forms, NEW i \in DOMAIN f.rows, NEW row \in FormRows
  PROVE LET g == [f EXCEPT !.rows[i] = row]
        IN /\ g \in Forms /\ g.rules = f.rules /\ DOMAIN g.rows = DOMAIN f.rows
           /\ Len(g.rows) = Len(f.rows) /\ g.rows = [f.rows EXCEPT ![i] = row]
           /\ \A j \in DOMAIN f.rows : g.rows[j] = IF j = i THEN row ELSE f.rows[j]
<1> DEFINE rows == f.rows
           more == [rows EXCEPT ![i] = row]
           g == [f EXCEPT !.rows[i] = row]
<1>1. rows \in Seq(FormRows) /\ rows \in [1..Len(rows) -> FormRows] /\ DOMAIN rows = 1..Len(rows)
  BY LenProperties DEF Forms
<1>2. /\ more \in Seq(FormRows) /\ Len(more) = Len(rows)
      /\ \A j \in 1..Len(rows) : more[j] = IF j = i THEN row ELSE rows[j]
  BY <1>1, ExceptSeq
<1>3. DOMAIN more = DOMAIN rows
  OBVIOUS
<1>4. g = [f EXCEPT !.rows = more]
  OBVIOUS
<1> HIDE DEF more, g
<1>5. g \in Forms /\ g.rules = f.rules /\ g.rows = more
  BY <1>2, <1>4 DEF Forms
<1> QED
  BY <1>1, <1>2, <1>3, <1>5 DEF g, more

RowsWithout(rows, i) == SubSeq(rows, 1, i - 1) \o SubSeq(rows, i + 1, Len(rows))

LEMMA RowsRemoved ==
  ASSUME NEW rows \in Seq(FormRows), NEW i \in DOMAIN rows
  PROVE LET less == RowsWithout(rows, i)
        IN /\ less \in Seq(FormRows) /\ Len(less) = Len(rows) - 1
           /\ DOMAIN less = 1..(Len(rows) - 1)
           /\ \A j \in DOMAIN less : less[j] = IF j < i THEN rows[j] ELSE rows[j + 1]
<1> DEFINE n == Len(rows)
           a == SubSeq(rows, 1, i - 1)
           b == SubSeq(rows, i + 1, n)
<1>1. n \in Nat /\ DOMAIN rows = 1..n /\ i \in 1..n
  BY LenProperties
<1>2. \A j \in 1..n : rows[j] \in FormRows
  BY <1>1
<1>3. /\ a \in Seq(FormRows) /\ Len(a) = i - 1
      /\ \A j \in 1..(i - 1) : a[j] = rows[j]
  <2>1. 1 \in Int /\ i - 1 \in Int /\ \A j \in 1..(i - 1) : rows[j] \in FormRows
    BY <1>1, <1>2
  <2>2. /\ a \in Seq(FormRows) /\ Len(a) = IF 1 <= i - 1 THEN (i - 1) - 1 + 1 ELSE 0
        /\ \A j \in 1..((i - 1) - 1 + 1) : a[j] = rows[1 + j - 1]
    BY <2>1, SubSeqProperties
  <2> HIDE DEF a
  <2>3. \A j \in 1..(i - 1) : j \in 1..((i - 1) - 1 + 1) /\ 1 + j - 1 = j
    BY <1>1
  <2> QED
    BY <1>1, <2>2, <2>3
<1>4. /\ b \in Seq(FormRows) /\ Len(b) = n - i
      /\ \A j \in 1..(n - i) : b[j] = rows[i + j]
  <2>1. i + 1 \in Int /\ n \in Int /\ \A j \in (i + 1)..n : rows[j] \in FormRows
    BY <1>1, <1>2
  <2>2. /\ b \in Seq(FormRows) /\ Len(b) = IF i + 1 <= n THEN n - (i + 1) + 1 ELSE 0
        /\ \A j \in 1..(n - (i + 1) + 1) : b[j] = rows[(i + 1) + j - 1]
    BY <2>1, SubSeqProperties
  <2> HIDE DEF b
  <2>3. \A j \in 1..(n - i) : j \in 1..(n - (i + 1) + 1) /\ (i + 1) + j - 1 = i + j
    BY <1>1
  <2> QED
    BY <1>1, <2>2, <2>3
<1> HIDE DEF a, b
<1> DEFINE c == a \o b
<1>5. /\ c \in Seq(FormRows) /\ Len(c) = Len(a) + Len(b)
      /\ \A j \in 1..(Len(a) + Len(b)) : c[j] = IF j <= Len(a) THEN a[j] ELSE b[j - Len(a)]
  BY <1>3, <1>4, ConcatProperties
<1> HIDE DEF c
<1>6. Len(c) = n - 1 /\ DOMAIN c = 1..(n - 1)
  BY <1>1, <1>3, <1>4, <1>5, LenProperties
<1>7. ASSUME NEW j \in 1..(n - 1) PROVE c[j] = IF j < i THEN rows[j] ELSE rows[j + 1]
  <2>1. CASE j < i
    <3>1. j \in 1..(i - 1) /\ j <= Len(a) /\ j \in 1..(Len(a) + Len(b))
      BY <1>1, <1>3, <1>4, <2>1
    <3> QED
      BY <1>3, <1>5, <2>1, <3>1
  <2>2. CASE ~(j < i)
    <3>1. /\ j - (i - 1) \in 1..(n - i) /\ ~(j <= Len(a)) /\ j \in 1..(Len(a) + Len(b))
          /\ i + (j - (i - 1)) = j + 1
      BY <1>1, <1>3, <1>4, <2>2
    <3> QED
      BY <1>3, <1>4, <1>5, <2>2, <3>1
  <2> QED
    BY <2>1, <2>2
<1>8. RowsWithout(rows, i) = c
  BY DEF RowsWithout, a, b, c
<1> QED
  BY <1>5, <1>6, <1>7, <1>8

(* An id is left for a new row.                                            *)
LEMMA FreshIdLeft ==
  ASSUME form \in Forms, Len(form.rows) < MaxRows
  PROVE FreshId \in 1..MaxRows /\ \A i \in DOMAIN form.rows : form.rows[i].id # FreshId
<1> DEFINE n == Len(form.rows)
           S == 1..MaxRows
           T == 1..n
           f == [id \in S |-> CHOOSE i \in T : form.rows[i].id = id]
<1>1. n \in Nat /\ DOMAIN form.rows = T /\ MaxRows \in Nat
  BY FormAssumption, LenProperties DEF Forms
<1>2. /\ IsFiniteSet(S) /\ Cardinality(S) = MaxRows
      /\ IsFiniteSet(T) /\ Cardinality(T) = n
  BY <1>1, Interval
<1>3. \E id \in S : \A i \in T : form.rows[i].id # id
  <2> SUFFICES ASSUME \A id \in S : \E i \in T : form.rows[i].id = id PROVE FALSE
    OBVIOUS
  <2>1. \A id \in S : f[id] \in T /\ form.rows[f[id]].id = id
    <3> HIDE DEF S, T
    <3> QED
      OBVIOUS
  <2>2. f \in [S -> T]
    <3> HIDE DEF S, T
    <3> QED
      BY <2>1
  <2>3. Cardinality(T) < Cardinality(S)
    BY <1>2
  <2> HIDE DEF f, S, T
  <2>4. \E x, y \in S : x # y /\ f[x] = f[y]
    BY <1>2, <2>2, <2>3, FS_PigeonHole
  <2> QED
    BY <2>1, <2>4
<1> QED
  BY <1>1, <1>3 DEF FreshId

-----------------------------------------------------------------------------
(* Keys that are set.                                                      *)

LEMMA NoKeysSet == NoKeys \in SetKeys /\ DOMAIN NoKeys = {}
<1>1. DOMAIN NoKeys = {} /\ NoKeys \in [{} -> KeyValues]
  BY DEF NoKeys
<1>2. {} \in SUBSET TRAIT_KEYS
  OBVIOUS
<1> QED
  BY <1>1, <1>2 DEF Keys, SetKeys

LEMMA WithSet ==
  ASSUME NEW keys \in SetKeys, NEW key \in TRAIT_KEYS, NEW value \in Values(key), IsSet(key, value)
  PROVE With(keys, key, value) \in SetKeys
<1> DEFINE more == With(keys, key, value)
<1>1. keys \in Keys /\ \A k \in DOMAIN keys : IsSet(k, keys[k])
  BY DEF SetKeys
<1>2. /\ more \in Keys /\ DOMAIN more = {key} \cup DOMAIN keys
      /\ \A k \in DOMAIN more : more[k] = IF k = key THEN value ELSE keys[k]
  BY <1>1, WithKeys
<1> HIDE DEF more
<1>3. \A k \in DOMAIN more : IsSet(k, more[k])
  <2> SUFFICES ASSUME NEW k \in DOMAIN more PROVE IsSet(k, more[k])
    OBVIOUS
  <2>1. CASE k = key
    BY <1>2, <2>1
  <2>2. CASE k # key
    BY <1>1, <1>2, <2>2
  <2> QED
    BY <2>1, <2>2
<1>4. more \in SetKeys
  BY <1>2, <1>3 DEF SetKeys
<1> QED
  BY <1>4 DEF more

LEMMA WithoutSet ==
  ASSUME NEW keys \in SetKeys, NEW gone
  PROVE Without(keys, gone) \in SetKeys
<1>1. keys \in Keys /\ \A k \in DOMAIN keys : IsSet(k, keys[k])
  BY DEF SetKeys
<1> DEFINE less == Without(keys, gone)
<1>2. /\ less \in Keys /\ DOMAIN less = DOMAIN keys \ gone
      /\ \A k \in DOMAIN keys \ gone : less[k] = keys[k]
  BY <1>1, WithoutKeys
<1> HIDE DEF less
<1>3. \A k \in DOMAIN less : IsSet(k, less[k])
  BY <1>1, <1>2
<1>4. less \in SetKeys
  BY <1>2, <1>3 DEF SetKeys
<1> QED
  BY <1>4 DEF less

LEMMA OneMoreSet == ASSUME NEW keys \in SetKeys PROVE OneMore(keys) \subseteq SetKeys
<1> SUFFICES ASSUME NEW key \in TRAIT_KEYS, NEW value \in Values(key), IsSet(key, value)
             PROVE With(keys, key, value) \in SetKeys
  BY DEF OneMore
<1> QED
  BY WithSet

(* setTrait keeps a row a row, with its id and its name.                   *)
LEMMA TraitSetRow ==
  ASSUME NEW row \in FormRows, NEW rules, NEW key \in TRAIT_KEYS, NEW value \in Values(key)
  PROVE TraitSet(row, rules, key, value) \in FormRows /\ TraitSet(row, rules, key, value).id = row.id
<1> DEFINE bare == [row EXCEPT !.keys = Without(row.keys, {key})]
           next == Choose(row, rules, key, value)
           t == resolveTraits(next, rules)
           gone == {k \in {"ingress"} : t.exposure \in {"none", "tcp"}} \cup
                   {k \in {"port"} : t.exposure = "none"} \cup
                   {k \in {"scaling"} : t.workload = "daemonset"}
           last == [next EXCEPT !.keys = Without(next.keys, gone)]
<1>1. bare \in FormRows /\ bare.id = row.id
  <2>1. Without(row.keys, {key}) \in SetKeys
    BY WithoutSet DEF FormRows
  <2> QED
    BY <2>1 DEF FormRows
<1>2. IsSet(key, value) => /\ [bare EXCEPT !.keys = With(bare.keys, key, value)] \in FormRows
                           /\ [bare EXCEPT !.keys = With(bare.keys, key, value)].id = row.id
  <2> HIDE DEF bare
  <2> SUFFICES ASSUME IsSet(key, value)
               PROVE /\ [bare EXCEPT !.keys = With(bare.keys, key, value)] \in FormRows
                     /\ [bare EXCEPT !.keys = With(bare.keys, key, value)].id = row.id
    OBVIOUS
  <2>1. With(bare.keys, key, value) \in SetKeys
    BY <1>1, WithSet DEF FormRows
  <2> QED
    BY <1>1, <2>1 DEF FormRows
<1>3. next \in FormRows /\ next.id = row.id
  BY <1>1, <1>2 DEF Choose
<1> HIDE DEF next, gone
<1>4. last \in FormRows /\ last.id = row.id
  <2>1. Without(next.keys, gone) \in SetKeys
    BY <1>3, WithoutSet DEF FormRows
  <2> QED
    BY <1>3, <2>1 DEF FormRows
<1>5. TraitSet(row, rules, key, value) = last
  BY DEF TraitSet, next, gone
<1> QED
  BY <1>4, <1>5

LEMMA DefaultRules == DEFAULT_RULES \in Rules
BY FormAssumption DEF DEFAULT_RULES, Rules

LEMMA EmptyForm ==
  LET f == normalizeSpec(EmptySpec)
  IN f \in Forms /\ Len(f.rows) = 1 /\ DOMAIN f.rows = {1} /\ f.rules = DEFAULT_RULES
     /\ f.rows[1].id = 1 /\ f.rows[1].keys = NoKeys
<1>1. EmptyRow \in SpecRow
  BY NoKeysSet, FormAssumption DEF EmptyRow, SpecRow, Names
<1>2. <<EmptyRow>> \in Seq(SpecRow) /\ Len(<<EmptyRow>>) = 1
  BY <1>1
<1>3. EmptySpec \in Specs /\ Len(EmptySpec.rows) = 1 /\ DOMAIN EmptySpec.rows = {1}
  BY <1>2, DefaultRules DEF EmptySpec, Specs, Names
<1>4. EmptySpec.rules = DEFAULT_RULES /\ EmptySpec.rows[1].keys = NoKeys
  BY DEF EmptySpec, EmptyRow
<1>5. 1 <= MaxRows
  BY FormAssumption
<1> HIDE DEF EmptySpec
<1> QED
  BY <1>3, <1>4, <1>5, Normalized

LEMMA DraftTypes ==
  ASSUME NEW spec \in Drafts
  PROVE spec \in Specs /\ Len(spec.rows) = 1 /\ DOMAIN spec.rows = {1}
<1> DEFINE Few == {NoKeys} \cup OneKey \cup UNION {OneMore(keys) : keys \in OneKey}
<1>1. \A keys \in Few : keys \in SetKeys
  BY NoKeysSet, OneMoreSet DEF OneKey
<1>2. PICK name \in Kebab, ingress \in IngressRules, pattern \in Patterns, keys \in Few :
        spec = [name |-> name, rules |-> [DEFAULT_RULES EXCEPT !.ingress = ingress],
                rows |-> <<[name |-> name, pattern |-> pattern, keys |-> keys]>>]
  BY SMT DEF Drafts
<1> DEFINE row == [name |-> name, pattern |-> pattern, keys |-> keys]
<1>3. row \in SpecRow
  BY <1>1 DEF SpecRow, Names
<1>4. [DEFAULT_RULES EXCEPT !.ingress = ingress] \in Rules
  BY DEF DEFAULT_RULES, Rules
<1>5. name \in Names
  BY DEF Names
<1> HIDE DEF row
<1>6. <<row>> \in Seq(SpecRow) /\ Len(<<row>>) = 1 /\ DOMAIN <<row>> = {1}
  BY <1>3
<1> QED
  BY <1>2, <1>4, <1>5, <1>6 DEF Specs, row

-----------------------------------------------------------------------------
(* The form, the dialog and the calls fit together.                        *)

Away == pickerFor = Closed /\ sending # <<>> /\ Validate(sending[1])

FormInv ==
  /\ form \in Forms /\ Len(form.rows) \in 1..MaxRows
  /\ expanded \subseteq DOMAIN form.rows
  /\ pickerFor \in {Closed, New} \cup DOMAIN form.rows
  /\ pickerFor = New => Len(form.rows) < MaxRows
  /\ \A k \in DOMAIN sending : sending[k] \in Sent
  /\ mounted \in BOOLEAN /\ (~mounted => Away)

LEMMA FormRowsType == ASSUME NEW f \in Forms
  PROVE /\ f.rows \in Seq(FormRows) /\ Len(f.rows) \in Nat /\ DOMAIN f.rows = 1..Len(f.rows)
        /\ \A i \in DOMAIN f.rows : f.rows[i] \in FormRows
BY LenProperties DEF Forms

LEMMA FormInit == Init => FormInv
<1> SUFFICES ASSUME Init PROVE FormInv
  OBVIOUS
<1>1. MaxRows \in Nat \ {0}
  BY FormAssumption
<1>2. form \in Forms /\ Len(form.rows) = 1 /\ DOMAIN form.rows = {1} /\ expanded \subseteq {1}
  <2>1. CASE form = normalizeSpec(EmptySpec) /\ expanded = {1}
    BY <2>1, EmptyForm
  <2>2. ASSUME NEW spec \in Drafts, form = normalizeSpec(spec), expanded = {}
        PROVE /\ form \in Forms /\ Len(form.rows) = 1 /\ DOMAIN form.rows = {1}
              /\ expanded \subseteq {1}
    <3>1. spec \in Specs /\ Len(spec.rows) = 1 /\ DOMAIN spec.rows = {1}
      BY DraftTypes
    <3>2. Len(spec.rows) <= MaxRows
      BY <1>1, <3>1
    <3> QED
      BY <2>2, <3>1, <3>2, Normalized
  <2> QED
    BY <2>1, <2>2 DEF Init
<1>3. pickerFor = Closed /\ sending = <<>> /\ mounted = TRUE
  BY DEF Init
<1>4. Len(form.rows) \in 1..MaxRows
  BY <1>1, <1>2
<1>5. pickerFor # New
  BY <1>1, <1>3 DEF Closed, New
<1> QED
  BY <1>2, <1>3, <1>4, <1>5 DEF FormInv

(* An edit leaves the dialog closed and the calls alone.                   *)
LEMMA EditKeeps ==
  ASSUME FormInv, UNCHANGED <<dialog, mounted, request>>, mounted, pickerFor = Closed,
         form' \in Forms, Len(form'.rows) \in 1..MaxRows, expanded' \subseteq DOMAIN form'.rows
  PROVE FormInv'
<1>1. pickerFor' # New
  BY FormAssumption DEF dialog, Closed, New
<1> QED
  BY <1>1 DEF FormInv, dialog, request

LEMMA EditRowTypes ==
  ASSUME FormInv, NEW i \in DOMAIN form.rows, EditRow(i)
  PROVE FormInv'
<1>0. /\ form \in Forms /\ Len(form.rows) \in 1..MaxRows /\ expanded \subseteq DOMAIN form.rows
      /\ MaxRows \in Nat
  BY FormAssumption DEF FormInv
<1>1. form.rows \in Seq(FormRows) /\ DOMAIN form.rows = 1..Len(form.rows) /\ form.rows[i] \in FormRows
  BY <1>0, FormRowsType
<1>2. UNCHANGED <<dialog, mounted, request>> /\ mounted /\ pickerFor = Closed
  BY DEF EditRow, toggleExpanded, removeRow, resetTraits, updRow, setTrait, Edit, Editable
<1>3. ASSUME NEW row \in FormRows, SetRow(i, row), UNCHANGED expanded PROVE FormInv'
  <2>1. /\ form' \in Forms /\ DOMAIN form'.rows = DOMAIN form.rows
        /\ Len(form'.rows) = Len(form.rows)
    BY <1>0, <1>3, RowsReplaced DEF SetRow
  <2> QED
    BY <1>0, <1>2, <1>3, <2>1, EditKeeps
<1>4. CASE toggleExpanded(i)
  <2>1. form' = form /\ expanded' \subseteq DOMAIN form.rows
    BY <1>0, <1>4 DEF toggleExpanded
  <2> QED
    BY <1>0, <1>2, <2>1, EditKeeps
<1>5. CASE removeRow(i)
  <2> DEFINE n == Len(form.rows)
             less == RowsWithout(form.rows, i)
  <2>1. n > 1 /\ form' = [form EXCEPT !.rows = less]
        /\ expanded' = {x \in expanded : x < i} \cup {x - 1 : x \in {y \in expanded : y > i}}
    BY <1>5 DEF removeRow, RowsWithout
  <2>2. less \in Seq(FormRows) /\ Len(less) = n - 1 /\ DOMAIN less = 1..(n - 1)
    BY <1>1, RowsRemoved
  <2> HIDE DEF less
  <2>3. form' \in Forms /\ form'.rows = less
    BY <1>0, <2>1, <2>2 DEF Forms
  <2>4. n - 1 \in 1..MaxRows
    BY <1>0, <2>1
  <2>5. \A x \in expanded : x \in 1..n
    BY <1>0, <1>1
  <2>6. expanded' \subseteq 1..(n - 1)
    BY <1>1, <2>1, <2>5
  <2> QED
    BY <1>2, <2>2, <2>3, <2>4, <2>6, EditKeeps
<1>6. CASE resetTraits(i)
  <2>1. [form.rows[i] EXCEPT !.keys = NoKeys] \in FormRows
    BY <1>1, NoKeysSet DEF FormRows
  <2> QED
    BY <1>3, <1>6, <2>1 DEF resetTraits
<1>7. ASSUME NEW name \in Names, updRow(i, name) PROVE FormInv'
  <2>1. [form.rows[i] EXCEPT !.name = name] \in FormRows
    BY <1>1 DEF FormRows
  <2> QED
    BY <1>3, <1>7, <2>1 DEF updRow
<1>8. ASSUME NEW key \in TRAIT_KEYS, NEW value \in Values(key), setTrait(i, key, value) PROVE FormInv'
  <2>1. TraitSet(form.rows[i], form.rules, key, value) \in FormRows
    BY <1>1, TraitSetRow
  <2> QED
    BY <1>3, <1>8, <2>1 DEF setTrait
<1> QED
  BY <1>4, <1>5, <1>6, <1>7, <1>8 DEF EditRow

LEMMA PickTypes ==
  ASSUME FormInv, NEW pattern \in Patterns, pickPattern(pattern)
  PROVE FormInv'
<1> DEFINE fresh == pickerFor = New
           n == Len(form.rows)
           i == IF fresh THEN n + 1 ELSE pickerFor
           id == IF fresh THEN FreshId ELSE form.rows[i].id
           row == [id |-> id, name |-> IF fresh THEN Blank ELSE form.rows[i].name,
                   pattern |-> pattern, keys |-> NoKeys]
           rows == IF fresh THEN Append(form.rows, row) ELSE [form.rows EXCEPT ![i] = row]
<1>1. /\ form \in Forms /\ n \in 1..MaxRows /\ expanded \subseteq DOMAIN form.rows
      /\ pickerFor \in {Closed, New} \cup DOMAIN form.rows /\ pickerFor # Closed
      /\ fresh => n < MaxRows
      /\ MaxRows \in Nat
  BY FormAssumption DEF FormInv, pickPattern
<1>2. /\ form.rows \in Seq(FormRows) /\ DOMAIN form.rows = 1..n /\ n \in Nat
      /\ \A j \in 1..n : form.rows[j] \in FormRows
  BY <1>1, FormRowsType
<1>3. form' = [form EXCEPT !.rows = rows] /\ expanded' = expanded \cup {i}
  BY DEF pickPattern
<1>4. ~fresh => i \in 1..n /\ form.rows[i] \in FormRows
  BY <1>1, <1>2
<1>5. row \in FormRows
  <2>1. CASE fresh
    <3>1. FreshId \in 1..MaxRows
      BY <1>1, <2>1, FreshIdLeft
    <3> QED
      BY <2>1, <3>1, NoKeysSet DEF FormRows, Names
  <2>2. CASE ~fresh
    BY <1>4, <2>2, NoKeysSet DEF FormRows
  <2> QED
    BY <2>1, <2>2
<1> HIDE DEF row
<1>6. rows \in Seq(FormRows) /\ Len(rows) \in n..MaxRows /\ i \in 1..Len(rows)
  <2>1. CASE fresh
    <3>1. Append(form.rows, row) \in Seq(FormRows) /\ Len(Append(form.rows, row)) = n + 1
      BY <1>2, <1>5, AppendProperties
    <3>2. rows = Append(form.rows, row) /\ i = n + 1 /\ n + 1 <= MaxRows
      BY <1>1, <2>1
    <3> QED
      BY <1>1, <1>2, <3>1, <3>2
  <2>2. CASE ~fresh
    <3>1. /\ [form.rows EXCEPT ![i] = row] \in Seq(FormRows)
          /\ Len([form.rows EXCEPT ![i] = row]) = n
      BY <1>2, <1>4, <1>5, <2>2, ExceptSeq
    <3>2. rows = [form.rows EXCEPT ![i] = row]
      BY <2>2
    <3> HIDE DEF rows
    <3> QED
      BY <1>1, <1>4, <2>2, <3>1, <3>2
  <2> QED
    BY <2>1, <2>2
<1> HIDE DEF rows, i
<1>7. form' \in Forms /\ form'.rows = rows
  BY <1>1, <1>3, <1>6 DEF Forms
<1>8. DOMAIN rows = 1..Len(rows) /\ Len(rows) \in 1..MaxRows /\ 1..n \subseteq 1..Len(rows)
  BY <1>1, <1>2, <1>6, LenProperties
<1>9. expanded' \subseteq DOMAIN form'.rows /\ Len(form'.rows) \in 1..MaxRows
  BY <1>1, <1>2, <1>3, <1>6, <1>7, <1>8
<1>10. pickerFor' = Closed /\ pickerFor' # New /\ UNCHANGED <<mounted, sending>> /\ mounted
  BY <1>1 DEF pickPattern, Rendered, request, Closed, New
<1> QED
  BY <1>7, <1>9, <1>10 DEF FormInv

LEMMA FormStep ==
  ASSUME FormInv, CallInv, [Next]_vars
  PROVE FormInv'
<1>0. /\ form \in Forms /\ Len(form.rows) \in 1..MaxRows /\ expanded \subseteq DOMAIN form.rows
      /\ MaxRows \in Nat \ {0} /\ Len(form.rows) <= MaxRows
  BY FormAssumption DEF FormInv
<1>1. ASSUME NEW i \in DOMAIN form.rows, EditRow(i) PROVE FormInv'
  BY <1>1, EditRowTypes
<1>2. ASSUME NEW name \in Names, setName(name) PROVE FormInv'
  <2>1. /\ UNCHANGED <<dialog, mounted, request, expanded>> /\ mounted /\ pickerFor = Closed
        /\ form' = [form EXCEPT !.name = name]
    BY <1>2 DEF setName, Edit, Editable
  <2>2. form' \in Forms /\ form'.rows = form.rows
    BY <1>0, <2>1 DEF Forms
  <2> QED
    BY <1>0, <2>1, <2>2, EditKeeps
<1>3. ASSUME NEW rules \in Rules, setRule(rules) PROVE FormInv'
  <2>1. /\ UNCHANGED <<dialog, mounted, request, expanded>> /\ mounted /\ pickerFor = Closed
        /\ form' = [form EXCEPT !.rules = rules]
    BY <1>3 DEF setRule, Edit, Editable
  <2>2. form' \in Forms /\ form'.rows = form.rows
    BY <1>0, <2>1 DEF Forms
  <2> QED
    BY <1>0, <2>1, <2>2, EditKeeps
<1>4. ASSUME NEW picker \in {Closed, New} \cup DOMAIN form.rows, setPickerFor(picker) PROVE FormInv'
  <2>1. /\ UNCHANGED <<form, expanded, mounted, sending>> /\ mounted /\ pickerFor' = picker
        /\ (picker = New => Len(form.rows) < MaxRows)
    BY <1>4 DEF setPickerFor, Rendered, content, request
  <2> QED
    BY <1>4, <2>1 DEF FormInv
<1>5. ASSUME NEW pattern \in Patterns, pickPattern(pattern) PROVE FormInv'
  BY <1>5, PickTypes
<1>6. CASE submit
  <2>1. /\ UNCHANGED <<form, expanded, mounted, pickerFor>> /\ mounted
        /\ sending = <<>>
        /\ sending' = <<Submitted(form)>> \/ sending' = sending
    <3>1. sending = <<>> /\ mounted
      BY <1>6 DEF submit, CallInv, Editable
    <3>2. Append(sending, Submitted(form)) = <<Submitted(form)>>
      BY <3>1
    <3> QED
      BY <1>6, <3>1, <3>2 DEF submit, content, dialog
  <2>2. Submitted(form) \in Sent
    BY <1>0, SubmittedSent
  <2>3. \A k \in DOMAIN sending' : sending'[k] \in Sent
    <3>1. CASE sending' = <<Submitted(form)>>
      BY <2>2, <3>1
    <3>2. CASE sending' = sending
      BY <3>2 DEF FormInv
    <3> QED
      BY <2>1, <3>1, <3>2
  <2> QED
    BY <2>1, <2>3 DEF FormInv
<1>7. CASE SubmitFails
  <2>1. UNCHANGED <<form, expanded, mounted, pickerFor>> /\ mounted /\ sending' = <<>>
    BY <1>7 DEF SubmitFails, Rendered, content
  <2> QED
    BY <2>1 DEF FormInv
<1>8. CASE Accepted
  <2>1. /\ form' = normalizeSpec(EmptySpec) /\ expanded' = {} /\ pickerFor' = Closed
        /\ mounted' = FALSE /\ sending' = sending /\ Validate(sending[1]) /\ sending # <<>>
    BY <1>8 DEF Accepted, Rendered, CallInv
  <2>2. form' \in Forms /\ Len(form'.rows) = 1 /\ pickerFor' # New
    BY <1>0, <2>1, EmptyForm DEF Closed, New
  <2>3. Len(form'.rows) \in 1..MaxRows
    BY <1>0, <2>2
  <2> QED
    BY <2>1, <2>2, <2>3 DEF FormInv, Away
<1>9. CASE Regenerate
  <2>1. /\ form' = normalizeSpec(sending[1]) /\ expanded' = {} /\ UNCHANGED pickerFor
        /\ mounted' = TRUE /\ sending' = <<>> /\ ~mounted
    BY <1>9 DEF Regenerate, dialog
  <2>2. pickerFor = Closed /\ sending # <<>> /\ Validate(sending[1])
    BY <2>1 DEF FormInv, Away
  <2>3. sending[1] \in Sent
    BY <2>2 DEF FormInv, CallInv
  <2>4. sending[1] \in Specs /\ Len(sending[1].rows) <= MaxRows /\ Len(sending[1].rows) > 0
    BY <2>2, <2>3 DEF Sent, Validate
  <2>5. Len(sending[1].rows) \in Nat
    BY <2>4, LenProperties DEF Specs
  <2>6. form' \in Forms /\ Len(form'.rows) \in 1..MaxRows
    BY <1>0, <2>1, <2>4, <2>5, Normalized
  <2>7. pickerFor' = Closed /\ pickerFor' # New
    BY <1>0, <2>1, <2>2 DEF Closed, New
  <2> QED
    BY <2>1, <2>6, <2>7 DEF FormInv
<1>10. CASE UNCHANGED vars
  <2>1. UNCHANGED <<form, expanded, pickerFor, mounted, sending>>
    BY <1>10 DEF vars, content, dialog, request
  <2> QED
    BY <2>1 DEF FormInv, Away
<1> QED
  BY <1>1, <1>2, <1>3, <1>4, <1>5, <1>6, <1>7, <1>8, <1>9, <1>10 DEF Next

(* Rows keep their types and stay within the form's bounds, the dialog is  *)
(* about a row that exists, and the button says Submitting exactly while a *)
(* call of a form on the screen is under way.                              *)
THEOREM FormTypeCorrect == Spec => []TypeOK
<1>1. FormInv /\ CallInv => TypeOK
  <2> SUFFICES ASSUME FormInv, CallInv PROVE TypeOK
    OBVIOUS
  <2>1. ASSUME NEW i \in DOMAIN form.rows
        PROVE /\ form.rows[i].name \in Names /\ form.rows[i].pattern \in Patterns
              /\ \A key \in DOMAIN form.rows[i].keys :
                   form.rows[i].keys[key] \in Values(key) /\ IsSet(key, form.rows[i].keys[key])
    <3>1. form.rows[i] \in FormRows
      BY FormRowsType DEF FormInv
    <3>2. form.rows[i].keys \in SetKeys
      BY <3>1 DEF FormRows
    <3>3. \A key \in DOMAIN form.rows[i].keys :
            form.rows[i].keys[key] \in Values(key) /\ IsSet(key, form.rows[i].keys[key])
      BY <3>2, KeysDef DEF SetKeys
    <3> QED
      BY <3>1, <3>3 DEF FormRows
  <2>2. form.name \in Names /\ form.rules \in Rules
    BY DEF FormInv, Forms
  <2> QED
    BY <2>1, <2>2 DEF FormInv, CallInv, TypeOK
<1> QED
  BY <1>1, FormInit, FormStep, CallInit, CallStep, PTL DEF Spec

(* "so the user can regenerate it from the remembered spec" (AppShell): a  *)
(* spec that was sent comes through the form as it was.                    *)
THEOREM RegeneratesSameAlways == Spec => []RegeneratesSame
<1>1. FormInv => RegeneratesSame
  BY SentAgain DEF FormInv, RegeneratesSame
<1> QED
  BY <1>1, FormInit, FormStep, CallInit, CallStep, PTL DEF Spec

-----------------------------------------------------------------------------
(* Panels.  Rows are told apart by their ids.                              *)

IdsApart == \A i, j \in DOMAIN form.rows : form.rows[i].id = form.rows[j].id => i = j
PanelsInv == IdsApart /\ PanelsFollowRows

(* The ids of the rows are all the panels depend on.                       *)
LEMMA SameIds ==
  ASSUME PanelsInv, UNCHANGED <<expanded, opened>>, DOMAIN form'.rows = DOMAIN form.rows,
         expanded \subseteq DOMAIN form.rows,
         \A i \in DOMAIN form.rows : form'.rows[i].id = form.rows[i].id
  PROVE PanelsInv'
<1>1. IdsApart'
  BY DEF PanelsInv, IdsApart
<1>2. {form'.rows[i].id : i \in expanded'} = {form.rows[i].id : i \in expanded}
  OBVIOUS
<1> QED
  BY <1>1, <1>2 DEF PanelsInv, PanelsFollowRows

LEMMA OwnIds ==
  ASSUME expanded' = {}, opened' = {},
         \A i \in DOMAIN form'.rows : form'.rows[i].id = i
  PROVE PanelsInv'
BY DEF PanelsInv, IdsApart, PanelsFollowRows

LEMMA PanelsInit == Init => PanelsInv
<1> SUFFICES ASSUME Init PROVE PanelsInv
  OBVIOUS
<1>1. CASE form = normalizeSpec(EmptySpec) /\ expanded = {1} /\ opened = {1}
  BY <1>1, EmptyForm DEF PanelsInv, IdsApart, PanelsFollowRows
<1>2. ASSUME NEW spec \in Drafts, form = normalizeSpec(spec), expanded = {}, opened = {} PROVE PanelsInv
  <2>1. spec \in Specs /\ Len(spec.rows) = 1 /\ DOMAIN spec.rows = {1} /\ 1 <= MaxRows
    BY DraftTypes, FormAssumption
  <2>2. DOMAIN form.rows = {1}
    BY <1>2, <2>1, Normalized
  <2> QED
    BY <1>2, <2>2 DEF PanelsInv, IdsApart, PanelsFollowRows
<1> QED
  BY <1>1, <1>2 DEF Init

LEMMA PanelsRemove ==
  ASSUME FormInv, PanelsInv, NEW i \in DOMAIN form.rows, removeRow(i)
  PROVE PanelsInv'
<1> DEFINE rows == form.rows
           n == Len(rows)
           less == RowsWithout(rows, i)
           low == {x \in expanded : x < i}
           high == {y \in expanded : y > i}
<1>1. /\ form \in Forms /\ rows \in Seq(FormRows) /\ DOMAIN rows = 1..n /\ n \in Nat
      /\ expanded \subseteq 1..n /\ i \in 1..n
  BY FormRowsType DEF FormInv
<1>2. /\ form' = [form EXCEPT !.rows = less] /\ opened' = opened \ {rows[i].id}
      /\ expanded' = low \cup {x - 1 : x \in high}
  BY DEF removeRow, RowsWithout
<1>3. /\ less \in Seq(FormRows) /\ DOMAIN less = 1..(n - 1)
      /\ \A j \in DOMAIN less : less[j] = IF j < i THEN rows[j] ELSE rows[j + 1]
  BY <1>1, RowsRemoved
<1> HIDE DEF less
<1>4. form'.rows = less
  BY <1>1, <1>2 DEF Forms
<1>5. /\ \A j, k \in 1..n : rows[j].id = rows[k].id => j = k
      /\ opened = {rows[j].id : j \in expanded}
  BY <1>1 DEF PanelsInv, IdsApart, PanelsFollowRows
<1>6. IdsApart'
  <2> SUFFICES ASSUME NEW j \in 1..(n - 1), NEW k \in 1..(n - 1), less[j].id = less[k].id
               PROVE j = k
    BY <1>3, <1>4 DEF IdsApart
  <2> DEFINE J == IF j < i THEN j ELSE j + 1
             K == IF k < i THEN k ELSE k + 1
  <2>1. \A l \in 1..(n - 1) : LET L == IF l < i THEN l ELSE l + 1 IN L \in 1..n /\ less[l] = rows[L]
    <3> SUFFICES ASSUME NEW l \in 1..(n - 1)
                 PROVE LET L == IF l < i THEN l ELSE l + 1 IN L \in 1..n /\ less[l] = rows[L]
      OBVIOUS
    <3>1. l \in 1..n /\ l + 1 \in 1..n
      BY <1>1
    <3>2. CASE l < i
      BY <1>3, <3>1, <3>2
    <3>3. CASE ~(l < i)
      BY <1>3, <3>1, <3>3
    <3> QED
      BY <3>2, <3>3
  <2>2. J \in 1..n /\ K \in 1..n /\ less[j] = rows[J] /\ less[k] = rows[K]
    BY <2>1
  <2>3. J = K
    <3> HIDE DEF J, K
    <3> QED
      BY <1>5, <2>2
  <2> QED
    BY <1>1, <2>3
<1>7. expanded \ {i} = low \cup high
  <2>1. \A x \in expanded : x # i <=> x < i \/ x > i
    BY <1>1
  <2> QED
    BY <2>1
<1>8. \A x \in low : x \in DOMAIN less /\ less[x] = rows[x]
  BY <1>1, <1>3
<1>9. \A x \in high : x - 1 \in DOMAIN less /\ less[x - 1] = rows[x]
  <2> SUFFICES ASSUME NEW x \in high PROVE x - 1 \in DOMAIN less /\ less[x - 1] = rows[x]
    OBVIOUS
  <2>1. x - 1 \in 1..(n - 1) /\ ~(x - 1 < i) /\ (x - 1) + 1 = x
    BY <1>1
  <2> QED
    BY <1>3, <2>1
<1>10. opened \ {rows[i].id} = {rows[j].id : j \in expanded \ {i}}
  BY <1>1, <1>5
<1> HIDE DEF low, high
<1>11. {less[j].id : j \in expanded'} = {rows[j].id : j \in low} \cup {rows[j].id : j \in high}
  <2>1. ASSUME NEW j \in expanded'
        PROVE less[j].id \in {rows[x].id : x \in low} \cup {rows[x].id : x \in high}
    <3>1. CASE j \in low
      BY <1>8, <3>1
    <3>2. ASSUME NEW x \in high, j = x - 1
          PROVE less[j].id \in {rows[y].id : y \in high}
      BY <1>9, <3>2
    <3> QED
      BY <1>2, <3>1, <3>2
  <2>2. ASSUME NEW x \in low PROVE rows[x].id \in {less[j].id : j \in expanded'}
    BY <1>2, <1>8
  <2>3. ASSUME NEW x \in high PROVE rows[x].id \in {less[j].id : j \in expanded'}
    BY <1>2, <1>9
  <2> QED
    BY <2>1, <2>2, <2>3
<1>12. {rows[j].id : j \in low} \cup {rows[j].id : j \in high} = {rows[j].id : j \in low \cup high}
  OBVIOUS
<1>13. opened' = {less[j].id : j \in expanded'}
  BY <1>2, <1>7, <1>10, <1>11, <1>12
<1>14. PanelsFollowRows'
  BY <1>4, <1>13 DEF PanelsFollowRows
<1> QED
  BY <1>6, <1>14 DEF PanelsInv

LEMMA PanelsToggle ==
  ASSUME FormInv, PanelsInv, NEW i \in DOMAIN form.rows, toggleExpanded(i)
  PROVE PanelsInv'
<1> DEFINE rows == form.rows
           id == rows[i].id
<1>1. /\ form' = form
      /\ expanded' = IF i \in expanded THEN expanded \ {i} ELSE expanded \cup {i}
      /\ opened' = IF id \in opened THEN opened \ {id} ELSE opened \cup {id}
  BY DEF toggleExpanded
<1>2. /\ \A j \in expanded : j \in DOMAIN rows
      /\ \A j, k \in DOMAIN rows : rows[j].id = rows[k].id => j = k
      /\ opened = {rows[j].id : j \in expanded}
  BY DEF FormInv, PanelsInv, IdsApart, PanelsFollowRows
<1>3. id \in opened <=> i \in expanded
  BY <1>2
<1>4. opened' = {rows[j].id : j \in expanded'}
  <2>1. CASE i \in expanded
    BY <1>1, <1>2, <1>3, <2>1
  <2>2. CASE i \notin expanded
    BY <1>1, <1>2, <1>3, <2>2
  <2> QED
    BY <2>1, <2>2
<1> QED
  BY <1>1, <1>2, <1>4 DEF PanelsInv, IdsApart, PanelsFollowRows

(* What picking a pattern does to the rows.                                *)
LEMMA Picked ==
  ASSUME FormInv, NEW pattern \in Patterns, pickPattern(pattern)
  PROVE \E i \in DOMAIN form'.rows :
          LET row == form'.rows[i]
          IN /\ row.pattern = pattern /\ row.keys = NoKeys
             /\ expanded' = expanded \cup {i} /\ opened' = opened \cup {row.id}
             /\ \/ DOMAIN form'.rows = DOMAIN form.rows /\ row.id = form.rows[i].id
                \/ /\ i \notin DOMAIN form.rows /\ DOMAIN form'.rows = DOMAIN form.rows \cup {i}
                   /\ \A j \in DOMAIN form.rows : form.rows[j].id # row.id
             /\ \A j \in DOMAIN form.rows \ {i} : form'.rows[j] = form.rows[j]
<1> DEFINE fresh == pickerFor = New
           n == Len(form.rows)
           i == IF fresh THEN n + 1 ELSE pickerFor
           id == IF fresh THEN FreshId ELSE form.rows[i].id
           row == [id |-> id, name |-> IF fresh THEN Blank ELSE form.rows[i].name,
                   pattern |-> pattern, keys |-> NoKeys]
           rows == IF fresh THEN Append(form.rows, row) ELSE [form.rows EXCEPT ![i] = row]
<1>1. /\ form \in Forms /\ n \in 1..MaxRows
      /\ pickerFor \in {Closed, New} \cup DOMAIN form.rows /\ pickerFor # Closed
      /\ fresh => n < MaxRows
      /\ MaxRows \in Nat
  BY FormAssumption DEF FormInv, pickPattern
<1>2. /\ form.rows \in Seq(FormRows) /\ DOMAIN form.rows = 1..n /\ n \in Nat
      /\ \A j \in 1..n : form.rows[j] \in FormRows
  BY <1>1, FormRowsType
<1>3. form' = [form EXCEPT !.rows = rows] /\ expanded' = expanded \cup {i} /\ opened' = opened \cup {id}
  BY DEF pickPattern
<1>4. row.id = id /\ row.pattern = pattern /\ row.keys = NoKeys
  OBVIOUS
<1>5. form'.rows = rows
  <2> HIDE DEF rows
  <2> QED
    BY <1>1, <1>3 DEF Forms
<1>6. CASE fresh
  <2>1. rows = Append(form.rows, row) /\ i = n + 1
    BY <1>6
  <2>2. /\ DOMAIN rows = 1..(n + 1) /\ rows[n + 1] = row
        /\ \A j \in 1..n : rows[j] = form.rows[j]
    <3>1. row \in {row} \cup FormRows /\ form.rows \in Seq({row} \cup FormRows)
      <4> HIDE DEF row
      <4> QED
        BY <1>2, SeqMonotonic
    <3> HIDE DEF row
    <3> QED
      BY <1>2, <2>1, <3>1, AppendProperties, LenProperties
  <2>3. \A j \in DOMAIN form.rows : form.rows[j].id # id
    BY <1>1, <1>6, FreshIdLeft
  <2>4. i \in DOMAIN rows /\ i \notin DOMAIN form.rows /\ DOMAIN rows = DOMAIN form.rows \cup {i}
    BY <1>2, <2>1, <2>2
  <2> HIDE DEF rows, i, row, id
  <2> QED
    BY <1>2, <1>3, <1>4, <1>5, <2>1, <2>2, <2>3, <2>4
<1>7. CASE ~fresh
  <2>1. rows = [form.rows EXCEPT ![i] = row] /\ i \in 1..n /\ id = form.rows[i].id
    BY <1>1, <1>2, <1>7
  <2> HIDE DEF rows, i, row, id
  <2>2. /\ DOMAIN rows = DOMAIN form.rows /\ rows[i] = row
        /\ \A j \in DOMAIN form.rows \ {i} : rows[j] = form.rows[j]
    BY <1>2, <2>1
  <2> QED
    BY <1>2, <1>3, <1>4, <1>5, <2>1, <2>2
<1> QED
  BY <1>6, <1>7

LEMMA PanelsPick ==
  ASSUME FormInv, PanelsInv, NEW pattern \in Patterns, pickPattern(pattern)
  PROVE PanelsInv'
<1>1. PICK i \in DOMAIN form'.rows :
        LET row == form'.rows[i]
        IN /\ expanded' = expanded \cup {i} /\ opened' = opened \cup {row.id}
           /\ \/ DOMAIN form'.rows = DOMAIN form.rows /\ row.id = form.rows[i].id
              \/ /\ i \notin DOMAIN form.rows /\ DOMAIN form'.rows = DOMAIN form.rows \cup {i}
                 /\ \A j \in DOMAIN form.rows : form.rows[j].id # row.id
           /\ \A j \in DOMAIN form.rows \ {i} : form'.rows[j] = form.rows[j]
  BY Picked
<1>2. /\ \A j \in expanded : j \in DOMAIN form.rows
      /\ \A j, k \in DOMAIN form.rows : form.rows[j].id = form.rows[k].id => j = k
      /\ opened = {form.rows[j].id : j \in expanded}
  BY DEF FormInv, PanelsInv, IdsApart, PanelsFollowRows
<1>3. \A j \in DOMAIN form.rows : form'.rows[j].id = form.rows[j].id
  BY <1>1
<1>4. IdsApart'
  BY <1>1, <1>2, <1>3 DEF IdsApart
<1>5. opened' = {form'.rows[j].id : j \in expanded'}
  <2>1. {form.rows[j].id : j \in expanded} = {form'.rows[j].id : j \in expanded}
    BY <1>2, <1>3
  <2> QED
    BY <1>1, <1>2, <2>1
<1> QED
  BY <1>4, <1>5 DEF PanelsInv, PanelsFollowRows

LEMMA PanelsStep ==
  ASSUME FormInv, CallInv, PanelsInv, [Next]_vars
  PROVE PanelsInv'
<1>0. form \in Forms /\ expanded \subseteq DOMAIN form.rows
  BY DEF FormInv
<1>1. ASSUME UNCHANGED <<expanded, opened>>, form'.rows = form.rows PROVE PanelsInv'
  BY <1>0, <1>1, SameIds
<1>2. ASSUME NEW i \in DOMAIN form.rows, EditRow(i) PROVE PanelsInv'
  <2>1. form.rows[i] \in FormRows
    BY <1>0, FormRowsType
  <2>2. ASSUME NEW row \in FormRows, row.id = form.rows[i].id, SetRow(i, row),
               UNCHANGED <<expanded, opened>>
        PROVE PanelsInv'
    <3>1. /\ DOMAIN form'.rows = DOMAIN form.rows
          /\ \A j \in DOMAIN form.rows : form'.rows[j] = IF j = i THEN row ELSE form.rows[j]
      BY <1>0, <2>2, RowsReplaced DEF SetRow
    <3>2. \A j \in DOMAIN form.rows : form'.rows[j].id = form.rows[j].id
      BY <2>2, <3>1
    <3> QED
      BY <1>0, <2>2, <3>1, <3>2, SameIds
  <2>3. CASE resetTraits(i)
    <3> DEFINE row == [form.rows[i] EXCEPT !.keys = NoKeys]
    <3>1. row \in FormRows /\ row.id = form.rows[i].id
      BY <2>1, NoKeysSet DEF FormRows
    <3> QED
      BY <2>2, <2>3, <3>1 DEF resetTraits
  <2>4. ASSUME NEW name \in Names, updRow(i, name) PROVE PanelsInv'
    <3> DEFINE row == [form.rows[i] EXCEPT !.name = name]
    <3>1. row \in FormRows /\ row.id = form.rows[i].id
      BY <2>1 DEF FormRows
    <3> QED
      BY <2>2, <2>4, <3>1 DEF updRow
  <2>5. ASSUME NEW key \in TRAIT_KEYS, NEW value \in Values(key), setTrait(i, key, value) PROVE PanelsInv'
    BY <2>1, <2>2, <2>5, TraitSetRow DEF setTrait
  <2> QED
    BY <1>2, <2>3, <2>4, <2>5, PanelsRemove, PanelsToggle DEF EditRow
<1>3. ASSUME NEW name \in Names, setName(name) PROVE PanelsInv'
  BY <1>0, <1>1, <1>3 DEF setName, Forms
<1>4. ASSUME NEW rules \in Rules, setRule(rules) PROVE PanelsInv'
  BY <1>0, <1>1, <1>4 DEF setRule, Forms
<1>5. ASSUME NEW picker \in {Closed, New} \cup DOMAIN form.rows, setPickerFor(picker) PROVE PanelsInv'
  BY <1>1, <1>5 DEF setPickerFor, content
<1>6. ASSUME NEW pattern \in Patterns, pickPattern(pattern) PROVE PanelsInv'
  BY <1>6, PanelsPick
<1>7. CASE submit
  BY <1>1, <1>7 DEF submit, content
<1>8. CASE SubmitFails
  BY <1>1, <1>8 DEF SubmitFails, content
<1>9. CASE Accepted
  <2>1. /\ form' = normalizeSpec(EmptySpec) /\ expanded' = {} /\ opened' = {}
    BY <1>9 DEF Accepted
  <2>2. \A i \in DOMAIN form'.rows : form'.rows[i].id = i
    BY <2>1, EmptyForm
  <2> QED
    BY <2>1, <2>2, OwnIds
<1>10. CASE Regenerate
  <2>1. form' = normalizeSpec(sending[1]) /\ expanded' = {} /\ opened' = {} /\ ~mounted
    BY <1>10 DEF Regenerate
  <2>2. sending[1] \in Sent
    BY <2>1 DEF FormInv, Away, CallInv
  <2>3. \A i \in DOMAIN form'.rows : form'.rows[i].id = i
    BY <2>1, <2>2, Normalized DEF Sent
  <2> QED
    BY <2>1, <2>3, OwnIds
<1>11. CASE UNCHANGED vars
  BY <1>1, <1>11 DEF vars, content
<1> QED
  BY <1>2, <1>3, <1>4, <1>5, <1>6, <1>7, <1>8, <1>9, <1>10, <1>11 DEF Next

(* A panel stays with its row when other rows come, go and change.         *)
THEOREM PanelsFollowRowsAlways == Spec => []PanelsFollowRows
<1>1. PanelsInv => PanelsFollowRows
  BY DEF PanelsInv
<1> QED
  BY <1>1, FormInit, FormStep, CallInit, CallStep, PanelsInit, PanelsStep, PTL DEF Spec

-----------------------------------------------------------------------------
(* Rows that nothing but the range of a port can contradict.               *)

LegalRow(row) == Contradictions(row, DEFAULT_RULES) \subseteq {"port"}
RowsLegal == sound => \A i \in DOMAIN form.rows : LegalRow(form.rows[i])

(* A platform with an ingress contradicts a row no more than another one.  *)
LEMMA NoWorse ==
  ASSUME NEW row, NEW like, like.pattern = row.pattern, like.keys = row.keys,
         NEW rules, NEW platform, platform.ingress # "none"
  PROVE Contradictions(like, platform) \subseteq Contradictions(row, rules)
<1> DEFINE e == ResolveTraits(row, rules)
           p == ResolveTraits(like, platform)
<1>1. /\ p.exposure = e.exposure /\ p.workload = e.workload /\ p.port = e.port
      /\ "ingress" \in DOMAIN row.keys => p.ingress = e.ingress
      /\ "scaling" \in DOMAIN row.keys => p.scaling = e.scaling
  BY DEF ResolveTraits, Chosen
<1>2. Routable(e.exposure, rules) => Routable(p.exposure, platform)
  BY <1>1 DEF Routable
<1> HIDE DEF e, p
<1> SUFFICES ASSUME NEW k \in Contradictions(like, platform) PROVE k \in Contradictions(row, rules)
  OBVIOUS
<1>3. /\ k \in DOMAIN row.keys
      /\ \/ k = "port" /\ p.exposure # "none" /\ p.port \notin PortRange
         \/ k = "ingress" /\ p.ingress = TRUE /\ ~Routable(p.exposure, platform)
         \/ k = "scaling" /\ p.workload = "daemonset" /\ p.scaling # "fixed"
  BY DEF Contradictions, p
<1>4. \/ k = "port" /\ e.exposure # "none" /\ e.port \notin PortRange
      \/ k = "ingress" /\ e.ingress = TRUE /\ ~Routable(e.exposure, rules)
      \/ k = "scaling" /\ e.workload = "daemonset" /\ e.scaling # "fixed"
  BY <1>1, <1>2, <1>3
<1> QED
  BY <1>3, <1>4 DEF Contradictions, e

LEMMA DefaultHasIngress == DEFAULT_RULES.ingress # "none"
BY DEF DEFAULT_RULES

LEMMA LegalLike ==
  ASSUME NEW row, LegalRow(row), NEW like, like.pattern = row.pattern, like.keys = row.keys
  PROVE LegalRow(like)
BY NoWorse, DefaultHasIngress DEF LegalRow

LEMMA BareLegal == ASSUME NEW row, row.keys = NoKeys PROVE LegalRow(row)
<1>1. DOMAIN row.keys = {}
  BY NoKeysSet
<1> QED
  BY <1>1 DEF LegalRow, Contradictions

(* The form made of a valid spec is legal.                                 *)
LEMMA ValidLegal ==
  ASSUME NEW spec \in Specs, Len(spec.rows) <= MaxRows, Validate(spec),
         NEW i \in DOMAIN normalizeSpec(spec).rows
  PROVE LegalRow(normalizeSpec(spec).rows[i])
<1> DEFINE f == normalizeSpec(spec)
<1>1. i \in DOMAIN spec.rows /\ f.rows[i].pattern = spec.rows[i].pattern /\ f.rows[i].keys = spec.rows[i].keys
  BY Normalized
<1>2. Contradictions(spec.rows[i], spec.rules) = {}
  BY <1>1 DEF Validate
<1> HIDE DEF f
<1>3. Contradictions(f.rows[i], DEFAULT_RULES) = {}
  BY <1>1, <1>2, NoWorse, DefaultHasIngress
<1> QED
  BY <1>3 DEF LegalRow, f

LEMMA LegalInit == Init => RowsLegal
<1> SUFFICES ASSUME Init PROVE RowsLegal
  OBVIOUS
<1>1. CASE form = normalizeSpec(EmptySpec)
  BY <1>1, EmptyForm, BareLegal DEF RowsLegal
<1>2. ASSUME NEW spec \in Drafts, form = normalizeSpec(spec), sound = Validate(spec) PROVE RowsLegal
  <2>1. spec \in Specs /\ Len(spec.rows) = 1 /\ 1 <= MaxRows
    BY DraftTypes, FormAssumption
  <2>2. Len(spec.rows) <= MaxRows
    BY <2>1
  <2> QED
    BY <1>2, <2>1, <2>2, ValidLegal DEF RowsLegal
<1> QED
  BY <1>1, <1>2 DEF Init

LEMMA LegalStep ==
  ASSUME FormInv, CallInv, RowsLegal, [Next]_vars
  PROVE RowsLegal'
<1>0. /\ form \in Forms /\ form.rows \in Seq(FormRows) /\ Len(form.rows) \in Nat
      /\ DOMAIN form.rows = 1..Len(form.rows)
  BY FormRowsType DEF FormInv
<1>1. ASSUME UNCHANGED sound, form'.rows = form.rows PROVE RowsLegal'
  BY <1>1 DEF RowsLegal
<1>2. ASSUME NEW i \in DOMAIN form.rows, EditRow(i) PROVE RowsLegal'
  <2>1. form.rows[i] \in FormRows /\ form.rows[i] \in FormRow
    BY <1>0, FormRowsType, RowsAreFormRows
  <2>2. ASSUME NEW row \in FormRows, SetRow(i, row), UNCHANGED sound,
               LegalRow(form.rows[i]) => LegalRow(row)
        PROVE RowsLegal'
    <3>1. /\ DOMAIN form'.rows = DOMAIN form.rows
          /\ \A j \in DOMAIN form.rows : form'.rows[j] = IF j = i THEN row ELSE form.rows[j]
      BY <1>0, <2>2, RowsReplaced DEF SetRow
    <3> QED
      BY <2>2, <3>1 DEF RowsLegal
  <2>3. CASE toggleExpanded(i)
    BY <1>1, <2>3 DEF toggleExpanded
  <2>4. CASE removeRow(i)
    <3> DEFINE less == RowsWithout(form.rows, i)
    <3>1. form' = [form EXCEPT !.rows = less] /\ UNCHANGED sound
      BY <2>4 DEF removeRow, RowsWithout, Edit
    <3>2. /\ DOMAIN less = 1..(Len(form.rows) - 1)
          /\ \A j \in DOMAIN less : less[j] = IF j < i THEN form.rows[j] ELSE form.rows[j + 1]
      BY <1>0, RowsRemoved
    <3> HIDE DEF less
    <3>3. form'.rows = less
      BY <1>0, <3>1 DEF Forms
    <3>4. \A j \in DOMAIN less : j \in DOMAIN form.rows /\ j + 1 \in DOMAIN form.rows
      BY <1>0, <3>2
    <3>5. ASSUME RowsLegal, sound, NEW j \in DOMAIN less PROVE LegalRow(less[j])
      BY <3>2, <3>4, <3>5 DEF RowsLegal
    <3> QED
      BY <3>1, <3>3, <3>5 DEF RowsLegal
  <2>5. CASE resetTraits(i)
    <3> DEFINE row == [form.rows[i] EXCEPT !.keys = NoKeys]
    <3>1. row \in FormRows /\ row.keys = NoKeys
      BY <2>1, NoKeysSet DEF FormRows
    <3>2. LegalRow(row)
      BY <3>1, BareLegal
    <3> QED
      BY <2>2, <2>5, <3>1, <3>2 DEF resetTraits, Edit
  <2>6. ASSUME NEW name \in Names, updRow(i, name) PROVE RowsLegal'
    <3> DEFINE row == [form.rows[i] EXCEPT !.name = name]
    <3>1. row \in FormRows /\ row.pattern = form.rows[i].pattern /\ row.keys = form.rows[i].keys
      BY <2>1 DEF FormRows
    <3> HIDE DEF row
    <3>2. LegalRow(form.rows[i]) => LegalRow(row)
      BY <3>1, LegalLike
    <3> QED
      BY <2>2, <2>6, <3>1, <3>2 DEF updRow, Edit, row
  <2>7. ASSUME NEW key \in TRAIT_KEYS, NEW value \in Values(key), setTrait(i, key, value) PROVE RowsLegal'
    <3> DEFINE row == TraitSet(form.rows[i], form.rules, key, value)
    <3>1. row \in FormRows
      BY <2>1, TraitSetRow
    <3>2. LegalRow(row)
      BY <2>1, TraitSetLegal, DefaultHasIngress DEF LegalRow
    <3> HIDE DEF row
    <3> QED
      BY <2>2, <2>7, <3>1, <3>2 DEF setTrait, Edit, row
  <2> QED
    BY <1>2, <2>3, <2>4, <2>5, <2>6, <2>7 DEF EditRow
<1>3. ASSUME NEW name \in Names, setName(name) PROVE RowsLegal'
  BY <1>0, <1>1, <1>3 DEF setName, Edit, Forms
<1>4. ASSUME NEW rules \in Rules, setRule(rules) PROVE RowsLegal'
  BY <1>0, <1>1, <1>4 DEF setRule, Edit, Forms
<1>5. ASSUME NEW picker \in {Closed, New} \cup DOMAIN form.rows, setPickerFor(picker) PROVE RowsLegal'
  BY <1>1, <1>5 DEF setPickerFor, content
<1>6. ASSUME NEW pattern \in Patterns, pickPattern(pattern) PROVE RowsLegal'
  <2>1. PICK i \in DOMAIN form'.rows :
          /\ form'.rows[i].keys = NoKeys
          /\ DOMAIN form'.rows = DOMAIN form.rows \/ DOMAIN form'.rows = DOMAIN form.rows \cup {i}
          /\ \A j \in DOMAIN form.rows \ {i} : form'.rows[j] = form.rows[j]
    BY <1>6, Picked
  <2>2. LegalRow(form'.rows[i])
    BY <2>1, BareLegal
  <2>3. UNCHANGED sound
    BY <1>6 DEF pickPattern
  <2> QED
    BY <2>1, <2>2, <2>3 DEF RowsLegal
<1>7. CASE submit
  BY <1>1, <1>7 DEF submit, content
<1>8. CASE SubmitFails
  BY <1>1, <1>8 DEF SubmitFails, content
<1>9. CASE Accepted
  <2>1. form' = normalizeSpec(EmptySpec)
    BY <1>9 DEF Accepted
  <2> QED
    BY <2>1, EmptyForm, BareLegal DEF RowsLegal
<1>10. CASE Regenerate
  <2>1. form' = normalizeSpec(sending[1]) /\ ~mounted
    BY <1>10 DEF Regenerate
  <2>2. sending[1] \in Sent /\ Validate(sending[1])
    BY <2>1 DEF FormInv, Away, CallInv
  <2> QED
    BY <2>1, <2>2, ValidLegal DEF RowsLegal, Sent
<1>11. CASE UNCHANGED vars
  BY <1>1, <1>11 DEF vars, content
<1> QED
  BY <1>2, <1>3, <1>4, <1>5, <1>6, <1>7, <1>8, <1>9, <1>10, <1>11 DEF Next

(* "keys that no longer apply are dropped, never kept hidden" (setTrait):  *)
(* from a valid spec on, no sequence of edits puts keys together that the  *)
(* server rejects, as long as the platform has an ingress and ports are in *)
(* range.                                                                  *)
THEOREM EditsStayValidAlways == Spec => []EditsStayValid
<1>1. RowsLegal => EditsStayValid
  BY NoWorse DEF RowsLegal, LegalRow, EditsStayValid
<1> QED
  BY <1>1, FormInit, FormStep, CallInit, CallStep, LegalInit, LegalStep, PTL DEF Spec

-----------------------------------------------------------------------------
(* What the form shows and what the engine makes of it.                    *)

(* Whatever the pattern, the keys and the rules, a row that the engine     *)
(* does not reject has the traits the form resolves.  Its templates are    *)
(* exactly those the preview lists, the ingress as istio.yaml where the    *)
(* platform has istio, and the two that the preview never lists: the       *)
(* disruption budget and a statefulset's headless service.                 *)
THEOREM TemplatesFromPreviewAlways == Spec => []TemplatesFromPreview
<1>1. FormInv => TemplatesFromPreview
  <2> SUFFICES ASSUME FormInv, NEW i \in Previewed, Contradictions(form.rows[i], form.rules) = {}
               PROVE LET t == resolveTraits(form.rows[i], form.rules)
                     IN /\ ResolveTraits(form.rows[i], form.rules) = t
                        /\ Templates(t, form.rules) =
                             {IF f = "ingress" THEN IngressFile ELSE f : f \in subchartManifests(t)}
                             \cup Unlisted(t)
    BY DEF TemplatesFromPreview, Fits
  <2> DEFINE row == form.rows[i]
             rules == form.rules
             t == resolveTraits(row, rules)
  <2>1. row \in FormRow
    BY FormRowsType, RowsAreFormRows DEF FormInv, Previewed
  <2>2. t = ResolveTraits(row, rules)
    BY <2>1, SameTraits
  <2>3. /\ t.workload \in WORKLOADS /\ t.exposure \in EXPOSURE_OPTIONS
        /\ t.scaling \in SCALING_OPTIONS /\ t.ingress \in BOOLEAN
    <3> HIDE DEF row, rules
    <3> DEFINE d == PATTERNS[row.pattern]
    <3>1. /\ Chosen(row, "workload", d.workload) \in WORKLOADS
          /\ Chosen(row, "exposure", d.exposure) \in EXPOSURE_OPTIONS
          /\ Chosen(row, "scaling", d.scaling) \in SCALING_OPTIONS
      BY <2>1, ChosenTypes
    <3>2. "fixed" \in SCALING_OPTIONS
      BY DEF SCALING_OPTIONS
    <3> HIDE DEF d
    <3>3. t.workload \in WORKLOADS /\ t.exposure \in EXPOSURE_OPTIONS /\ t.scaling \in SCALING_OPTIONS
      BY <3>1, <3>2 DEF resolveTraits, d
    <3>4. t.ingress \in BOOLEAN
      BY DEF resolveTraits
    <3> QED
      BY <3>3, <3>4
  <2> HIDE DEF t
  <2>4. Templates(t, rules) =
          {IF f = "ingress" THEN IngressFile ELSE f : f \in subchartManifests(t)} \cup Unlisted(t)
    BY <2>3, SameManifests
  <2> QED
    BY <2>2, <2>4 DEF t
<1> QED
  BY <1>1, FormInit, FormStep, CallInit, CallStep, PTL DEF Spec

(* Some of the named rows, by their place among all and among the named.   *)
LEMMA NthOfSome ==
  ASSUME NEW named \in SUBSET Nat, IsFiniteSet(named), NEW some \in SUBSET named
  PROVE LET places == {n \in 1..Cardinality(named) : Nth(named, n) \in some}
        IN /\ some = {Nth(named, n) : n \in places}
           /\ Cardinality(places) = Cardinality(some) /\ Cardinality(some) \in Nat
<1> DEFINE C == Cardinality(named)
           places == {n \in 1..C : Nth(named, n) \in some}
           f == [i \in some |-> Rank(named, i)]
<1>1. \A i \in some : Rank(named, i) \in 1..C /\ Nth(named, Rank(named, i)) = i
  BY RankType, NthRank
<1>2. \A n \in places : Nth(named, n) \in some /\ Rank(named, Nth(named, n)) = n
  BY NthNamed
<1>3. some = {Nth(named, n) : n \in places}
  BY <1>1
<1>4. IsFiniteSet(some)
  BY FS_Subset
<1>5. f \in Bijection(some, places)
  <2>1. \A i \in some : f[i] \in places
    BY <1>1
  <2> HIDE DEF places
  <2>2. f \in [some -> places]
    BY <2>1
  <2>3. \A i, j \in some : f[i] = f[j] => i = j
    BY <1>1
  <2>4. \A n \in places : \E i \in some : f[i] = n
    BY <1>2
  <2> HIDE DEF f
  <2> QED
    BY <2>2, <2>3, <2>4 DEF Bijection, Injection, Surjection, IsInjective
<1>6. Cardinality(places) = Cardinality(some)
  <2> HIDE DEF f, places
  <2> QED
    BY <1>4, <1>5, FS_Bijection DEF ExistsBijection
<1>7. Cardinality(some) \in Nat
  BY <1>4, FS_CardinalityType
<1> QED
  BY <1>3, <1>6, <1>7

(* The warnings depend on which rows are named, public and gateways only.  *)
LEMMA SameWarnings ==
  ASSUME NEW f \in Forms,
         \A i \in Named(f.rows) : resolveTraits(f.rows[i], f.rules) = ResolveTraits(f.rows[i], f.rules)
  PROVE specWarnings(f.rows, f.rules) = Warnings(Submitted(f))
<1> DEFINE rows == f.rows
           rules == f.rules
           named == Named(rows)
           m == Cardinality(named)
           public == {i \in named : resolveTraits(rows[i], rules).ingress}
           gateways == {i \in named : rows[i].pattern = "edge-gateway"}
           admins == {i \in public : rows[i].pattern = "admin-dashboard"}
           Sub == [n \in 1..m |-> cleanSubchart(rows[Nth(named, n)])]
           spec == Submitted(f)
           t == [n \in 1..m |-> ResolveTraits(Sub[n], rules)]
           public2 == {n \in 1..m : t[n].ingress}
           gateways2 == {n \in 1..m : t[n].pattern = "edge-gateway"}
           admins2 == {n \in public2 : t[n].pattern = "admin-dashboard"}
<1>1. DOMAIN rows = 1..Len(rows) /\ Len(rows) \in Nat
  BY FormRowsType
<1>2. named \in SUBSET Nat /\ IsFiniteSet(named) /\ m \in Nat
  BY <1>1, NamedRows
<1>3. spec.rules = rules /\ spec.rows = Sub
  BY DEF Submitted
<1>4. \A n \in 1..m : Nth(named, n) \in named
  BY <1>2, NthNamed
<1> HIDE DEF named, m
<1>5. ASSUME NEW n \in 1..m
      PROVE /\ t[n] = resolveTraits(rows[Nth(named, n)], rules)
            /\ t[n].pattern = rows[Nth(named, n)].pattern
            /\ Sub[n].name = rows[Nth(named, n)].name
  <2> DEFINE row == rows[Nth(named, n)]
  <2>1. resolveTraits(row, rules) = ResolveTraits(row, rules)
    BY <1>4 DEF named
  <2>2. Sub[n] = cleanSubchart(row) /\ t[n] = ResolveTraits(Sub[n], rules)
    OBVIOUS
  <2> HIDE DEF row, Sub, t
  <2>3. ResolveTraits(cleanSubchart(row), rules) = ResolveTraits(row, rules)
    BY DEF ResolveTraits, cleanSubchart, Chosen
  <2>4. ResolveTraits(row, rules).pattern = row.pattern /\ cleanSubchart(row).name = row.name
    BY DEF ResolveTraits, cleanSubchart
  <2> QED
    BY <2>1, <2>2, <2>3, <2>4 DEF row
<1> HIDE DEF Sub, t
<1>6. /\ public2 = {n \in 1..m : Nth(named, n) \in public}
      /\ gateways2 = {n \in 1..m : Nth(named, n) \in gateways}
      /\ admins2 = {n \in 1..m : Nth(named, n) \in admins}
  BY <1>4, <1>5
<1>7. public \in SUBSET named /\ gateways \in SUBSET named /\ admins \in SUBSET named
  OBVIOUS
<1>8. public2 \subseteq 1..m /\ gateways2 \subseteq 1..m /\ admins2 \subseteq 1..m
  OBVIOUS
<1> DEFINE A == {Admin(rows[i].name) : i \in admins}
           G == {rows[i].name : i \in gateways}
           P == {rows[i].name : i \in public}
<1>9. specWarnings(rows, rules) =
        A \cup {w \in {Gateway(G, P)} : gateways # {} /\ Cardinality(public) > 1}
  BY DEF specWarnings, named, Named
<1>10. Warnings(spec) =
         {Admin(Sub[n].name) : n \in admins2} \cup
         (IF gateways2 = {} \/ Cardinality(public2) <= 1 THEN {}
          ELSE {Gateway({Sub[n].name : n \in gateways2}, {Sub[n].name : n \in public2})})
  <2>1. DOMAIN Sub = 1..m
    BY DEF Sub
  <2>2. [i \in DOMAIN spec.rows |-> ResolveTraits(spec.rows[i], spec.rules)] = t /\ DOMAIN t = 1..m
    BY <1>3, <2>1 DEF t
  <2> HIDE DEF spec
  <2> QED
    BY <1>3, <2>2 DEF Warnings
<1> HIDE DEF public, gateways, admins, public2, gateways2, admins2, spec
<1>11. /\ public = {Nth(named, n) : n \in public2}
       /\ Cardinality(public2) = Cardinality(public) /\ Cardinality(public) \in Nat
  BY <1>2, <1>6, <1>7, NthOfSome DEF m
<1>12. gateways = {Nth(named, n) : n \in gateways2}
  BY <1>2, <1>6, <1>7, NthOfSome DEF m
<1>13. admins = {Nth(named, n) : n \in admins2}
  BY <1>2, <1>6, <1>7, NthOfSome DEF m
<1>14. {Sub[n].name : n \in public2} = P
  BY <1>5, <1>8, <1>11
<1>15. {Sub[n].name : n \in gateways2} = G
  BY <1>5, <1>8, <1>12
<1>16. {Admin(Sub[n].name) : n \in admins2} = A
  BY <1>5, <1>8, <1>13
<1>17. gateways2 = {} <=> gateways = {}
  BY <1>12
<1>18. (Cardinality(public2) <= 1) <=> ~(Cardinality(public) > 1)
  BY <1>11
<1> HIDE DEF A, G, P, rows, rules
<1>19. specWarnings(rows, rules) = Warnings(spec)
  BY <1>9, <1>10, <1>14, <1>15, <1>16, <1>17, <1>18
<1> QED
  BY <1>19 DEF rows, rules, spec

(* "so the preview, override chips, and warnings match the server          *)
(* exactly": the form warns of what the engine will warn of, however many  *)
(* rows there are and wherever unnamed ones stand among them.              *)
THEOREM WarningsMirrorEngineAlways == Spec => []WarningsMirrorEngine
<1>1. FormInv => WarningsMirrorEngine
  <2> SUFFICES ASSUME FormInv, \A i \in Previewed : Contradictions(form.rows[i], form.rules) = {}
               PROVE specWarnings(form.rows, form.rules) = Warnings(Submitted(form))
    BY DEF WarningsMirrorEngine, Fits
  <2>1. form \in Forms
    BY DEF FormInv
  <2>2. \A i \in Named(form.rows) :
          form.rows[i] \in FormRow /\ Contradictions(form.rows[i], form.rules) = {}
    BY <2>1, FormRowsType, RowsAreFormRows DEF Named, Previewed
  <2> QED
    BY <2>1, <2>2, SameTraits, SameWarnings
<1> QED
  BY <1>1, FormInit, FormStep, CallInit, CallStep, PTL DEF Spec
=============================================================================
