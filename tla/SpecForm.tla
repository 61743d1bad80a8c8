------------------------------ MODULE SpecForm ------------------------------
(***************************************************************************)
(* The spec editor (web/src/app/RichFormScreen.jsx): rows of subcharts     *)
(* with their trait panels, the pattern picker dialog, the rules, and the  *)
(* submission, during which everything but the submit button stays usable. *)
(* Descriptions, the dependencies, which nothing else depends on, and the  *)
(* hints under the fields are left out.  While the dialog is open, only    *)
(* the dialog is used.  A subchart's position counts from 1.               *)
(***************************************************************************)
EXTENDS Traits

CONSTANTS
  Patterns,       \* the patterns the user and the drafts use
  Ports,          \* ports that are typed; 0 is an emptied field
  IngressRules,   \* values of rules.ingress in use
  MaxRows,        \* bound on rows
  MaxEdits        \* bound on edits; each trait key of a draft counts as one

ASSUME FormAssumption ==
  /\ Patterns \subseteq DOMAIN PATTERNS /\ DEFAULT_PATTERN \in Patterns
  /\ IngressRules \subseteq INGRESS_OPTIONS /\ "alb" \in IngressRules
  /\ Ports \subseteq Nat /\ MaxRows \in Nat \ {0} /\ MaxEdits \in Nat

VARIABLES
  form,           \* the states name, rules and subcharts (rows)
  expanded,       \* positions of the rows whose panel is open
  pickerFor,      \* what the picker is open for: a position, New or Closed
  overflow,       \* document.body.style.overflow
  prev,           \* what the dialog is going to restore it to
  mounted,        \* the form is on the screen
  sending,        \* specs of calls to /generate; the accepted one at last
  submitting, submitError,
  opened,         \* not in the code: the rows the user has open, by id
  sound,          \* not in the code: the form was seeded with a valid spec
  edits           \* edits so far

content == <<form, expanded, opened, edits>>
dialog == <<pickerFor, overflow, prev>>
request == <<sending, submitting, submitError>>
vars == <<content, dialog, mounted, request, sound>>

Closed == 0
New == MaxRows + 1

Rules == [ingress : IngressRules, on : SUBSET Flags]
DEFAULT_RULES == [ingress |-> "alb", on |-> {}]

Values(key) ==
  CASE key = "workload" -> WORKLOADS
    [] key = "exposure" -> EXPOSURE_OPTIONS
    [] key = "scaling"  -> SCALING_OPTIONS
    [] key = "port"     -> Ports
    [] OTHER            -> BOOLEAN
IsSet(key, value) == key = "port" => value # 0

TypeOK ==
  /\ form.name \in Names /\ form.rules \in Rules /\ Len(form.rows) \in 1..MaxRows
  /\ \A i \in DOMAIN form.rows :
       /\ form.rows[i].name \in Names /\ form.rows[i].pattern \in Patterns
       /\ \A key \in DOMAIN form.rows[i].keys :
            form.rows[i].keys[key] \in Values(key) /\ IsSet(key, form.rows[i].keys[key])
  /\ expanded \subseteq DOMAIN form.rows
  /\ pickerFor \in {Closed, New} \cup DOMAIN form.rows
  /\ submitting = (sending # <<>> /\ mounted)

-----------------------------------------------------------------------------
(* Specs into the form and out of it.  The rows of a spec have no id.      *)

(* Faulty variant: a key chosen to be false is taken for one not set.      *)
normalizeSpecTruthy(spec) ==
  [name |-> spec.name, rules |-> spec.rules,
   rows |-> [i \in DOMAIN spec.rows |->
     [id |-> i, name |-> spec.rows[i].name, pattern |-> spec.rows[i].pattern,
      keys |-> LET keys == spec.rows[i].keys
               IN Without(keys, {k \in DOMAIN keys \cap {"ingress", "shared_env"} : ~keys[k]})]]]

normalizeSpec(spec) ==
  [name |-> spec.name, rules |-> spec.rules,
   rows |-> [i \in DOMAIN spec.rows |->
     [id |-> i, name |-> spec.rows[i].name, pattern |-> spec.rows[i].pattern,
      keys |-> spec.rows[i].keys]]]

cleanSubchart(row) == [name |-> row.name, pattern |-> row.pattern, keys |-> row.keys]

EmptyRow == [name |-> Blank, pattern |-> DEFAULT_PATTERN, keys |-> NoKeys]
EmptySpec == [name |-> Blank, rules |-> DEFAULT_RULES, rows |-> <<EmptyRow>>]

(* What submit sends: rows without a name stay behind, those with one keep *)
(* their order.                                                            *)
Named(rows) == {i \in DOMAIN rows : rows[i].name # Blank}
Nth(named, n) == CHOOSE i \in named : Cardinality({j \in named : j <= i}) = n
Submitted(f) ==
  LET named == Named(f.rows)
  IN [name |-> f.name, rules |-> f.rules,
      rows |-> [n \in 1..Cardinality(named) |-> cleanSubchart(f.rows[Nth(named, n)])]]

canSubmit == isKebab(form.name) /\ \E i \in DOMAIN form.rows : isKebab(form.rows[i].name)

(* Specs the form is opened with: none, or a draft, which the server has   *)
(* not validated: each value is legal, their combination may not be.       *)
OneMore(keys) ==
  UNION {{With(keys, key, value) : value \in {v \in Values(key) : IsSet(key, v)}} : key \in TRAIT_KEYS}
OneKey == OneMore(NoKeys)
Drafts ==
  {[name |-> name, rules |-> [DEFAULT_RULES EXCEPT !.ingress = ingress],
    rows |-> <<[name |-> name, pattern |-> pattern, keys |-> keys]>>] :
     name \in Kebab, ingress \in IngressRules, pattern \in Patterns,
     keys \in {NoKeys} \cup OneKey \cup UNION {OneMore(keys) : keys \in OneKey}}

Init ==
  /\ \/ form = normalizeSpec(EmptySpec) /\ expanded = {1} /\ opened = {1} /\ edits = 0 /\ sound = TRUE
     \/ \E spec \in Drafts :
          /\ edits = Cardinality(DOMAIN spec.rows[1].keys) /\ edits <= MaxEdits
          /\ form = normalizeSpec(spec) /\ expanded = {} /\ opened = {}
          /\ sound = Validate(spec)
  /\ pickerFor = Closed /\ overflow = "" /\ prev = ""
  /\ mounted = TRUE /\ sending = <<>> /\ submitting = FALSE /\ submitError = FALSE

-----------------------------------------------------------------------------
(* The dialog's effect.  It depends on onClose, a new function in every    *)
(* render, and so runs again whenever the form is rendered.                *)

(* Faulty variant: what to restore is read before the cleanup.             *)
RenderedLeaky(picker) ==
  /\ pickerFor' = picker
  /\ IF picker # Closed THEN prev' = overflow /\ overflow' = "hidden"
     ELSE overflow' = (IF pickerFor # Closed THEN prev ELSE overflow) /\ UNCHANGED prev

Rendered(picker) ==
  LET cleaned == IF pickerFor # Closed THEN prev ELSE overflow
  IN /\ pickerFor' = picker
     /\ IF picker # Closed THEN prev' = cleaned /\ overflow' = "hidden"
        ELSE overflow' = cleaned /\ UNCHANGED prev

-----------------------------------------------------------------------------
(* Editing.                                                                *)

Editable == mounted /\ pickerFor = Closed
Edit == Editable /\ edits < MaxEdits /\ edits' = edits + 1 /\ UNCHANGED <<dialog, mounted, request, sound>>

SetRow(i, row) == form' = [form EXCEPT !.rows[i] = row]

setName(name) ==
  /\ Edit /\ form' = [form EXCEPT !.name = name] /\ UNCHANGED <<expanded, opened>>

setRule(rules) ==
  /\ Edit /\ form' = [form EXCEPT !.rules = rules] /\ UNCHANGED <<expanded, opened>>

updRow(i, name) ==
  /\ Edit /\ SetRow(i, [form.rows[i] EXCEPT !.name = name]) /\ UNCHANGED <<expanded, opened>>

toggleExpanded(i) ==
  /\ Editable
  /\ expanded' = IF i \in expanded THEN expanded \ {i} ELSE expanded \cup {i}
  /\ opened' = LET id == form.rows[i].id
               IN IF id \in opened THEN opened \ {id} ELSE opened \cup {id}
  /\ UNCHANGED <<form, edits, dialog, mounted, request, sound>>

setPickerFor(picker) ==
  /\ mounted /\ pickerFor # picker
  /\ Closed \in {pickerFor, picker}
  /\ picker = New => Len(form.rows) < MaxRows
  /\ Rendered(picker)
  /\ UNCHANGED <<content, mounted, request, sound>>

FreshId == CHOOSE id \in 1..MaxRows : \A i \in DOMAIN form.rows : form.rows[i].id # id

(* A card of the picker: a new row, or the row starts over as a pattern.   *)
pickPattern(pattern) ==
  /\ mounted /\ pickerFor # Closed /\ edits < MaxEdits /\ edits' = edits + 1
  /\ LET fresh == pickerFor = New
         i     == IF fresh THEN Len(form.rows) + 1 ELSE pickerFor
         id    == IF fresh THEN FreshId ELSE form.rows[i].id
         row   == [id |-> id, name |-> IF fresh THEN Blank ELSE form.rows[i].name,
                   pattern |-> pattern, keys |-> NoKeys]
     IN /\ form' = [form EXCEPT !.rows = IF fresh THEN Append(@, row) ELSE [@ EXCEPT ![i] = row]]
        /\ expanded' = expanded \cup {i}
        /\ opened' = opened \cup {id}
  /\ Rendered(Closed)
  /\ UNCHANGED <<mounted, request, sound>>

(* Faulty variant: the open panels keep their positions.                   *)
removeRowUnshifted(i) ==
  /\ Edit /\ Len(form.rows) > 1
  /\ form' = [form EXCEPT !.rows = SubSeq(@, 1, i - 1) \o SubSeq(@, i + 1, Len(@))]
  /\ expanded' = (expanded \ {i}) \cap DOMAIN form'.rows
  /\ opened' = opened \ {form.rows[i].id}

removeRow(i) ==
  /\ Edit /\ Len(form.rows) > 1
  /\ form' = [form EXCEPT !.rows = SubSeq(@, 1, i - 1) \o SubSeq(@, i + 1, Len(@))]
  /\ expanded' = {x \in expanded : x < i} \cup {x - 1 : x \in {y \in expanded : y > i}}
  /\ opened' = opened \ {form.rows[i].id}

(* The trait controls a row's panel offers.                                *)
Offered(row, rules) ==
  LET t == resolveTraits(row, rules)
  IN {"workload", "exposure"} \cup {k \in {"port"} : t.exposure # "none"} \cup
     {k \in {"scaling"} : t.workload # "daemonset"} \cup
     {k \in {"ingress"} : Routable(t.exposure, rules)} \cup
     {k \in {"shared_env"} : rules.on \cap {"shared_secrets_config", "shared_newrelic_config"} # {}}

(* Faulty variant: an emptied field is kept as a choice.                   *)
ChooseEmptied(row, rules, key, value) ==
  LET bare == [row EXCEPT !.keys = Without(@, {key})]
  IN IF resolveTraits(bare, rules)[key] = value THEN bare
     ELSE [bare EXCEPT !.keys = With(@, key, value)]

(* A choice that the pattern makes by itself is not kept as a key.         *)
Choose(row, rules, key, value) ==
  LET bare == [row EXCEPT !.keys = Without(@, {key})]
  IN IF ~IsSet(key, value) \/ resolveTraits(bare, rules)[key] = value THEN bare
     ELSE [bare EXCEPT !.keys = With(@, key, value)]

(* Faulty variant: keys that no longer apply stay behind.                  *)
TraitSetOnly(row, rules, key, value) == Choose(row, rules, key, value)

(* Keys that no longer apply are dropped.                                  *)
TraitSet(row, rules, key, value) ==
  LET next == Choose(row, rules, key, value)
      t == resolveTraits(next, rules)
  IN [next EXCEPT !.keys = Without(@,
        {k \in {"ingress"} : t.exposure \in {"none", "tcp"}} \cup
        {k \in {"port"} : t.exposure = "none"} \cup
        {k \in {"scaling"} : t.workload = "daemonset"})]

setTrait(i, key, value) ==
  LET row == form.rows[i]
  IN /\ Edit /\ i \in expanded /\ key \in Offered(row, form.rules)
     /\ resolveTraits(row, form.rules)[key] # value
     /\ SetRow(i, TraitSet(row, form.rules, key, value))
     /\ UNCHANGED <<expanded, opened>>

resetTraits(i) ==
  /\ Edit /\ i \in expanded /\ traitOverrides(form.rows[i], form.rules) # {}
  /\ SetRow(i, [form.rows[i] EXCEPT !.keys = NoKeys])
  /\ UNCHANGED <<expanded, opened>>

-----------------------------------------------------------------------------
(* Submitting.                                                             *)

(* Faulty variant: the button stays enabled.                               *)
submitAgain ==
  /\ Editable /\ submitError' = FALSE
  /\ IF canSubmit THEN submitting' = TRUE /\ sending' = Append(sending, Submitted(form))
     ELSE UNCHANGED <<sending, submitting>>
  /\ UNCHANGED <<content, dialog, mounted, sound>>

(* The button is disabled while it says Submitting.                        *)
submit ==
  /\ Editable /\ ~submitting /\ submitError' = FALSE
  /\ IF canSubmit THEN submitting' = TRUE /\ sending' = Append(sending, Submitted(form))
     ELSE UNCHANGED <<sending, submitting>>
  /\ UNCHANGED <<content, dialog, mounted, sound>>

(* onSubmit throws: the server rejected the spec, or no answer came.       *)
SubmitFails ==
  /\ mounted /\ submitting
  /\ sending' = <<>> /\ submitting' = FALSE /\ submitError' = TRUE
  /\ Rendered(pickerFor)
  /\ UNCHANGED <<content, mounted, sound>>

(* The server took the spec: the page goes to the charts, and what was     *)
(* edited meanwhile is gone.                                               *)
Accepted ==
  /\ mounted /\ submitting /\ Validate(sending[1])
  /\ mounted' = FALSE /\ submitting' = FALSE /\ Rendered(Closed)
  /\ form' = normalizeSpec(EmptySpec) /\ expanded' = {} /\ opened' = {}
  /\ UNCHANGED <<edits, sending, submitError, sound>>

(* An expired chart is opened: its remembered spec comes back.             *)
Regenerate ==
  /\ ~mounted /\ mounted' = TRUE
  /\ form' = normalizeSpec(sending[1]) /\ expanded' = {} /\ opened' = {}
  /\ sending' = <<>> /\ submitError' = FALSE /\ sound' = TRUE
  /\ UNCHANGED <<edits, dialog, submitting>>

EditRow(i) ==
  \/ toggleExpanded(i) \/ removeRow(i) \/ resetTraits(i)
  \/ \E name \in Names : updRow(i, name)
  \/ \E key \in TRAIT_KEYS : \E value \in Values(key) : setTrait(i, key, value)

Next ==
  \/ \E i \in DOMAIN form.rows : EditRow(i)
  \/ \E name \in Names : setName(name)
  \/ \E rules \in Rules : setRule(rules)
  \/ \E picker \in {Closed, New} \cup DOMAIN form.rows : setPickerFor(picker)
  \/ \E pattern \in Patterns : pickPattern(pattern)
  \/ submit \/ SubmitFails \/ Accepted \/ Regenerate

Spec == Init /\ [][Next]_vars

-----------------------------------------------------------------------------
(* Properties.                                                             *)

Fits(row) == Contradictions(row, form.rules) = {}
Previewed == {i \in DOMAIN form.rows : form.rows[i].name # Blank}

(* "so the preview, override chips, and warnings match the server exactly" *)
(* (spec.js): a row that the engine does not reject has the traits the     *)
(* form resolves.  Its templates are those the preview lists, with two     *)
(* differences, named here in full.  The ingress.yaml of the preview is    *)
(* istio.yaml on a platform with istio.  And the preview never lists the   *)
(* disruption budget, which all but singletons have, nor the headless      *)
(* service that applyWorkload adds to a statefulset, although it says of   *)
(* its list that it is what "templates/ carries after trait tailoring -    *)
(* mirrors ... traits.go (template drops) + applyWorkload".                *)
IngressFile == IF form.rules.ingress = "istio" THEN "istio" ELSE "ingress"
Unlisted(t) ==
  {f \in {"pdb"} : t.scaling # "singleton"} \cup
  {f \in {"headless-service"} : t.workload = "statefulset"}

TemplatesFromPreview ==
  \A i \in Previewed : Fits(form.rows[i]) =>
    LET t == resolveTraits(form.rows[i], form.rules)
    IN /\ ResolveTraits(form.rows[i], form.rules) = t
       /\ Templates(t, form.rules) =
            {IF f = "ingress" THEN IngressFile ELSE f : f \in subchartManifests(t)} \cup Unlisted(t)

(* The warnings in the form are those the engine will give.                *)
WarningsMirrorEngine ==
  (\A i \in Previewed : Fits(form.rows[i])) =>
    specWarnings(form.rows, form.rules) = Warnings(Submitted(form))

(* "keys that no longer apply are dropped, never kept hidden" (setTrait):  *)
(* from a valid spec on, no sequence of edits puts keys together that the  *)
(* server rejects, as long as the platform has an ingress and ports are in *)
(* range.                                                                  *)
EditsStayValid ==
  sound /\ form.rules.ingress # "none" =>
    \A i \in DOMAIN form.rows : Contradictions(form.rows[i], form.rules) \subseteq {"port"}

(* A panel stays with its row when other rows come and go.                 *)
PanelsFollowRows == opened = {form.rows[i].id : i \in expanded}

(* "so the user can regenerate it from the remembered spec" (AppShell):    *)
(* the form makes the same spec again of a spec it has sent.               *)
RegeneratesSame ==
  \A i \in DOMAIN sending : Submitted(normalizeSpec(sending[i])) = sending[i]

(* One form has one call to /generate under way at most, whatever the user *)
(* does meanwhile.                                                         *)
OneCall == Len(sending) <= 1

(* "body scroll is locked while open" (Dialog.jsx), and free again however *)
(* the dialog goes away, by a choice, or with the form under it, and       *)
(* however often the form was rendered while it was open.                  *)
ScrollLocked == overflow = IF pickerFor # Closed THEN "hidden" ELSE ""
=============================================================================
